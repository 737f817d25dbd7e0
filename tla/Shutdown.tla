------------------------------ MODULE Shutdown ------------------------------
(***************************************************************************)
(* From the start of the program to its end (testsim_daemon.cpp, start and *)
(* stop in contest.cpp).  Two threads: the main thread, which SIGINT and   *)
(* SIGTERM interrupt between any two of its steps to run Contest::stop in  *)
(* the handler, and the audio thread of RtAudio.                           *)
(*                                                                         *)
(* Of a contact only the station matters, of a request for stations only   *)
(* that there is one; a station is worked or fails when the model likes.   *)
(* QRM and QRN, which the audio thread makes and removes by itself, are    *)
(* left out.  A signal interrupts the main thread even while it holds      *)
(* audio_mutex or walks through the stations; the signal itself is then    *)
(* blocked, the other one is not.  RtAudio, outside of src/, is taken at   *)
(* its word: no callback begins on a stream that is stopped, closeStream   *)
(* joins the thread.                                                       *)
(***************************************************************************)
EXTENDS Integers, Sequences, FiniteSets

CONSTANTS Signals,      \* the signals handled; each is sent once at most
          Ids           \* bounds the stations that are ever created

ASSUME ShutdownAssumption ==
  /\ "main" \notin Signals
  /\ IsFiniteSet(Ids)

VARIABLES at,           \* where main() is
          stopping,     \* where stop() is, at every level of the main thread
          handling,     \* the handlers in progress, the last one first
          arrived,      \* the signals that have been sent
          running,      \* g_running
          audio,        \* where the audio thread is
          owner,        \* who holds audio_mutex
          stream,       \* RtAudio's stream
          log,          \* is _logfile open?
          stations,     \* Contest::stations
          done,         \* those of them marked deleteme: they are worked
          failed,       \* the others that are marked: they have given up
          freed,        \* the stations deleted so far
          todo,         \* those the main thread has still to tell of an event
          finished,     \* worked in this callback, and not on the queue yet
          pending,      \* are there _pendingStations?
          qsoQueue,     \* Contest::qsoQueue
          completed,    \* history: all contacts
          quits,        \* history: how many were queued for giving up
          logged,       \* the lines of the log
          shown,        \* the entries of the queue main() has printed
          printed       \* the number in the final statistics

threads == <<at, stopping, handling, arrived, running, audio, owner>>
files   == <<stream, log, logged>>
marks   == <<done, failed>>
band    == <<stations, marks, freed, todo, finished, pending>>
account == <<qsoQueue, completed, quits, shown, printed>>
vars    == <<threads, files, band, account>>

\* Handlers nest: main() may be interrupted by a handler, and that by another.
Level == {"main"} \cup Signals
Top   == IF handling = <<>> THEN "main" ELSE Head(handling)

MainStep == {"construct", "open", "start", "log", "loop", "poll", "send",
             "tell", "create", "lock", "birth", "greet", "drain", "pop",
             "stop", "stats", "destroy", "cleanup", "exit", "crash"}

\* Where main() holds audio_mutex, and where it uses a station then.
InMutex == {"send", "tell", "birth", "greet", "pop"}
Telling == {"tell", "greet"}

\* "out": not in stop() (a handler about to return); "flag": the first line
\* of the handler; the others are the steps of stop().
StopStep == {"out", "flag", "test", "files", "halt", "close", "delete", "clear"}

\* A callback that waits for audio_mutex, and the steps it takes with it.
InGetAudio == {"mix", "check", "log"}
AudioStep  == {"idle", "called"} \cup InGetAudio

Init ==
  /\ at = "construct"
  /\ stopping = [l \in Level |-> "out"]
  /\ handling = <<>>
  /\ arrived = {}
  /\ running = TRUE
  /\ audio = "idle"
  /\ owner = "none"
  /\ stream = "closed"
  /\ log = "closed"
  /\ stations = {} /\ done = {} /\ failed = {} /\ freed = {}
  /\ todo = {} /\ finished = {}
  /\ pending = FALSE
  /\ qsoQueue = <<>> /\ completed = <<>> /\ logged = <<>> /\ shown = <<>>
  /\ quits = 0 /\ printed = 0

-----------------------------------------------------------------------------
(***************************************************************************)
(* Contest::stop, at the level l of the main thread.                       *)
(***************************************************************************)
InStop(l, step) == Top = l /\ stopping[l] = step

StopGoes(l, step) ==
  /\ stopping' = [stopping EXCEPT ![l] = step]
  /\ UNCHANGED <<at, handling, arrived, running, audio, owner>>

\* Mutant: isStreamRunning instead of isStreamOpen.
StopTestRunning(l) ==
  /\ InStop(l, "test")
  /\ StopGoes(l, IF stream = "running" THEN "files" ELSE "delete")
  /\ UNCHANGED <<files, band, account>>

\* isStreamOpen
StopTest(l) ==
  /\ InStop(l, "test")
  /\ StopGoes(l, IF stream = "closed" THEN "delete" ELSE "files")
  /\ UNCHANGED <<files, band, account>>

\* closeLogFile, before the stream is stopped.
CloseFiles(l) ==
  /\ InStop(l, "files")
  /\ StopGoes(l, "halt")
  /\ log' = "closed"
  /\ UNCHANGED <<stream, logged, band, account>>

StopStream(l) ==
  /\ InStop(l, "halt")
  /\ StopGoes(l, "close")
  /\ stream' = IF stream = "running" THEN "open" ELSE stream
  /\ UNCHANGED <<log, logged, band, account>>

\* Mutant: closeStream does not wait for the callback.
CloseStreamNoJoin(l) ==
  /\ InStop(l, "close")
  /\ StopGoes(l, "delete")
  /\ stream' = "closed"
  /\ UNCHANGED <<log, logged, band, account>>

\* closeStream waits for the end of the audio thread.
CloseStream(l) ==
  /\ InStop(l, "close")
  /\ stream # "closed" => audio = "idle"
  /\ StopGoes(l, "delete")
  /\ stream' = "closed"
  /\ UNCHANGED <<log, logged, band, account>>

DeleteStations(l) ==
  /\ InStop(l, "delete")
  /\ StopGoes(l, "clear")
  /\ freed' = freed \cup stations
  /\ UNCHANGED <<files, stations, marks, todo, finished, pending, account>>

ClearStations(l) ==
  /\ InStop(l, "clear")
  /\ StopGoes(l, "out")
  /\ stations' = {}
  /\ done' = {} /\ failed' = {}
  /\ UNCHANGED <<files, freed, todo, finished, pending, account>>

Stop(l) == \/ StopTest(l) \/ CloseFiles(l) \/ StopStream(l) \/ CloseStream(l)
           \/ DeleteStations(l) \/ ClearStations(l)

-----------------------------------------------------------------------------
(***************************************************************************)
(* signal_handler, on top of whatever the main thread is doing.            *)
(***************************************************************************)
Ended == at \in {"exit", "crash"} /\ handling = <<>>

Signal(sig) ==
  /\ ~Ended
  /\ sig \notin arrived
  /\ arrived' = arrived \cup {sig}
  /\ handling' = <<sig>> \o handling
  /\ stopping' = [stopping EXCEPT ![sig] = "flag"]
  /\ UNCHANGED <<at, running, audio, owner, files, band, account>>

\* Mutant: g_running is left alone.
HandlerStopsOnly(sig) ==
  /\ InStop(sig, "flag")
  /\ stopping' = [stopping EXCEPT ![sig] = IF at = "construct" THEN "out"
                                           ELSE "test"]
  /\ UNCHANGED <<at, handling, arrived, running, audio, owner>>
  /\ UNCHANGED <<files, band, account>>

\* Before the contest is constructed g_contest is null.
HandlerFlag(sig) ==
  /\ InStop(sig, "flag")
  /\ running' = FALSE
  /\ stopping' = [stopping EXCEPT ![sig] = IF at = "construct" THEN "out"
                                           ELSE "test"]
  /\ UNCHANGED <<at, handling, arrived, audio, owner, files, band, account>>

HandlerReturn(sig) ==
  /\ InStop(sig, "out")
  /\ handling' = Tail(handling)
  /\ UNCHANGED <<at, stopping, arrived, running, audio, owner>>
  /\ UNCHANGED <<files, band, account>>

Handler(sig) == HandlerFlag(sig) \/ HandlerReturn(sig)

-----------------------------------------------------------------------------
(***************************************************************************)
(* main(): start(), the loop, the end.                                     *)
(***************************************************************************)
MainAt(step) == InStop("main", "out") /\ at = step

MainGoes(step) ==
  /\ at' = step
  /\ UNCHANGED <<stopping, handling, arrived, running, audio>>

\* Without a protocol, or with a port in use, the program ends here.
Construct ==
  /\ MainAt("construct")
  /\ MainGoes("open") \/ MainGoes("destroy")
  /\ UNCHANGED <<owner, files, band, account>>

\* Without an audio device start() returns at once; that openStream may fail
\* is not noticed.
OpenStream ==
  /\ MainAt("open")
  /\ \/ MainGoes("loop") /\ stream' = stream
     \/ MainGoes("start") /\ stream' \in {"open", stream}
  /\ UNCHANGED <<owner, log, logged, band, account>>

\* A stream that the handler has closed in the meantime cannot be started,
\* which is not noticed.
StartStream ==
  /\ MainAt("start")
  /\ MainGoes("log")
  /\ stream' = IF stream = "open" THEN "running" ELSE stream
  /\ UNCHANGED <<owner, log, logged, band, account>>

\* openLogFile; the file may not open.
OpenLog ==
  /\ MainAt("log")
  /\ MainGoes("loop")
  /\ log' \in {"open", "closed"}
  /\ UNCHANGED <<owner, stream, logged, band, account>>

Loop ==
  /\ MainAt("loop")
  /\ MainGoes(IF running THEN "poll" ELSE "stop")
  /\ UNCHANGED <<owner, files, band, account>>

\* The servers are polled: a command for the station at the key or nothing.
Poll ==
  /\ MainAt("poll")
  /\ \/ MainGoes("create") /\ UNCHANGED owner
     \/ MainGoes("send") /\ owner = "none" /\ owner' = "main"
  /\ UNCHANGED <<files, band, account>>

\* sendText and abortSend; a continuation is told to nobody.
SendText ==
  /\ MainAt("send")
  /\ \/ MainGoes("create") /\ owner' = "none" /\ UNCHANGED todo
     \/ MainGoes("tell") /\ todo' = stations /\ UNCHANGED owner
  /\ UNCHANGED <<files, stations, marks, freed, finished, pending, account>>

\* processEvent of a station: the end of a message may make it fail, the
\* start of one takes that mark away; who is worked does not listen.
Hears(s) ==
  /\ \/ UNCHANGED failed
     \/ s \notin done /\ failed' = failed \cup {s}
     \/ failed' = failed \ {s}
  /\ UNCHANGED done

\* The event, and the way on.  A handler may have deleted the station: what
\* that does is undefined, and the program goes on or ends here.
Told(s, next) ==
  \/ s \notin freed /\ Hears(s) /\ MainGoes(next)
  \/ s \in freed /\ UNCHANGED marks /\ (MainGoes(next) \/ MainGoes("crash"))

\* onMeStartedSending, onMeFinishedSending: the loop over the stations.
Tell ==
  /\ MainAt("tell")
  /\ \E s \in todo : Told(s, "tell") /\ todo' = todo \ {s}
  /\ UNCHANGED <<owner, files, stations, freed, finished, pending, account>>

ToldAll ==
  /\ MainAt("tell")
  /\ todo = {}
  /\ MainGoes("create")
  /\ owner' = "none"
  /\ UNCHANGED <<files, band, account>>

\* createPendingStations: the request is reset, then the mutex is taken.
LoadPending ==
  /\ MainAt("create")
  /\ MainGoes(IF pending THEN "lock" ELSE "drain")
  /\ pending' = FALSE
  /\ UNCHANGED <<owner, files, stations, marks, freed, todo, finished, account>>

\* Mutant: without the lock_guard's waiting.
LockToCreateAtOnce ==
  /\ MainAt("lock")
  /\ owner' = "main"
  /\ MainGoes("birth")
  /\ UNCHANGED <<files, band, account>>

LockToCreate ==
  /\ MainAt("lock")
  /\ owner = "none"
  /\ owner' = "main"
  /\ MainGoes("birth")
  /\ UNCHANGED <<files, band, account>>

\* A station is made and is on the band before it is told to start.
CreateStation ==
  /\ MainAt("birth")
  /\ \E s \in Ids \ (stations \cup freed) :
       stations' = stations \cup {s} /\ todo' = {s}
  /\ MainGoes("greet")
  /\ UNCHANGED <<owner, files, marks, freed, finished, pending, account>>

Greet ==
  /\ MainAt("greet")
  /\ \E s \in todo : Told(s, "birth")
  /\ todo' = {}
  /\ UNCHANGED <<owner, files, stations, freed, finished, pending, account>>

AllCreated ==
  /\ MainAt("birth")
  /\ MainGoes("drain")
  /\ owner' = "none"
  /\ UNCHANGED <<files, band, account>>

\* hasQso; popQso takes the mutex.
Drain ==
  /\ MainAt("drain")
  /\ \/ qsoQueue = <<>> /\ MainGoes("loop") /\ UNCHANGED owner
     \/ qsoQueue # <<>> /\ MainGoes("pop") /\ owner = "none" /\ owner' = "main"
  /\ UNCHANGED <<files, band, account>>

\* Mutant: the contact is popped before it is read.
PopQsoFirst ==
  /\ MainAt("pop")
  /\ qsoQueue' = Tail(qsoQueue)
  /\ shown' = IF qsoQueue' = <<>> THEN shown ELSE Append(shown, Head(qsoQueue'))
  /\ MainGoes("drain")
  /\ owner' = "none"
  /\ UNCHANGED <<files, band, completed, quits, printed>>

\* popQso, and the line that is printed of it.
PopQso ==
  /\ MainAt("pop")
  /\ shown' = Append(shown, Head(qsoQueue))
  /\ qsoQueue' = Tail(qsoQueue)
  /\ MainGoes("drain")
  /\ owner' = "none"
  /\ UNCHANGED <<files, band, completed, quits, printed>>

\* After the loop, and again in ~Contest.
CallStop(from, to) ==
  /\ MainAt(from)
  /\ at' = to
  /\ stopping' = [stopping EXCEPT !["main"] = "test"]
  /\ UNCHANGED <<handling, arrived, running, audio, owner>>
  /\ UNCHANGED <<files, band, account>>

StopAfterLoop == CallStop("stop", "stats")

\* Mutant: the number of those not shown is computed.
StatisticsUnshown ==
  /\ MainAt("stats")
  /\ MainGoes("destroy")
  /\ printed' = Len(qsoQueue) - Len(shown)
  /\ UNCHANGED <<owner, files, band, qsoQueue, completed, quits, shown>>

Statistics ==
  /\ MainAt("stats")
  /\ MainGoes("destroy")
  /\ printed' = Len(qsoQueue)
  /\ UNCHANGED <<owner, files, band, qsoQueue, completed, quits, shown>>

Destroy == CallStop("destroy", "cleanup")

\* ~Contest deletes the stations itself once more.
Cleanup ==
  /\ MainAt("cleanup")
  /\ MainGoes("exit")
  /\ freed' = freed \cup stations
  /\ stations' = {}
  /\ done' = {} /\ failed' = {}
  /\ UNCHANGED <<owner, files, todo, finished, pending, account>>

Main == \/ Construct \/ OpenStream \/ StartStream \/ OpenLog
        \/ Loop \/ Poll \/ SendText \/ Tell \/ ToldAll
        \/ LoadPending \/ LockToCreate \/ CreateStation \/ Greet \/ AllCreated
        \/ Drain \/ PopQso
        \/ StopAfterLoop \/ Statistics \/ Destroy \/ Cleanup

-----------------------------------------------------------------------------
(***************************************************************************)
(* The audio thread: a callback begins, takes the mutex in getAudio, works *)
(* on the stations, queues and logs the contacts that have been completed  *)
(* and returns.                                                            *)
(***************************************************************************)
AudioGoes(step) ==
  /\ audio' = step
  /\ UNCHANGED <<at, stopping, handling, arrived, running>>

Callback ==
  /\ audio = "idle"
  /\ stream = "running"
  /\ AudioGoes("called")
  /\ UNCHANGED <<owner, files, band, account>>

LockAudio ==
  /\ audio = "called"
  /\ owner = "none"
  /\ owner' = "audio"
  /\ AudioGoes("mix")
  /\ UNCHANGED <<files, band, account>>

\* A station that has given up goes; if it had called (and with qsy, as
\* configured or not), it goes on the queue like a contact.
Leave ==
  /\ audio = "mix"
  /\ \E s \in failed :
       /\ stations' = stations \ {s}
       /\ failed' = failed \ {s}
       /\ freed' = freed \cup {s}
       /\ \/ quits' = quits + 1 /\ qsoQueue' = Append(qsoQueue, s)
          \/ UNCHANGED <<quits, qsoQueue>>
  /\ AudioGoes("mix")
  /\ UNCHANGED <<owner, files, done, todo, finished, pending>>
  /\ UNCHANGED <<completed, shown, printed>>

\* A CQ has ended, or the band is empty in single mode: stations are asked
\* for, while there are Ids.
AskForStations ==
  pending' \in {pending, pending \/ Ids \ (stations \cup freed) # {}}

\* Who was worked in an earlier callback goes; the others tick, and some may
\* be worked or fail.
MixAndTick ==
  /\ audio = "mix"
  /\ failed = {}
  /\ stations' = stations \ done
  /\ freed' = freed \cup done
  /\ \E worked \in SUBSET stations' : \E gaveUp \in SUBSET (stations' \ worked) :
       done' = worked /\ failed' = gaveUp
  /\ finished' = done'
  /\ AskForStations
  /\ AudioGoes("check")
  /\ UNCHANGED <<owner, files, todo, account>>

\* The check for completed QSOs; dataToLastQso has marked the station.
QueueQso ==
  /\ audio = "check"
  /\ \E s \in finished :
       /\ finished' = finished \ {s}
       /\ completed' = Append(completed, s)
       /\ qsoQueue' = Append(qsoQueue, s)
  /\ AudioGoes("log")
  /\ UNCHANGED <<owner, files, stations, marks, freed, todo, pending>>
  /\ UNCHANGED <<quits, shown, printed>>

\* Mutant: without the flush the last line stays in the stream's buffer.
LogQsoUnflushed ==
  /\ audio = "log"
  /\ AudioGoes("check")
  /\ logged' = IF log = "open" THEN SubSeq(completed, 1, Len(completed) - 1)
               ELSE logged
  /\ UNCHANGED <<owner, stream, log, band, account>>

\* logQso
LogQso ==
  /\ audio = "log"
  /\ AudioGoes("check")
  /\ logged' = IF log = "open" THEN Append(logged, completed[Len(completed)])
               ELSE logged
  /\ UNCHANGED <<owner, stream, log, band, account>>

EndCallback ==
  /\ audio = "check"
  /\ finished = {}
  /\ AskForStations
  /\ owner' = "none"
  /\ AudioGoes("idle")
  /\ UNCHANGED <<files, stations, marks, freed, todo, finished, account>>

Audio == /\ at # "crash"
         /\ \/ Callback \/ LockAudio \/ Leave \/ MixAndTick
            \/ QueueQso \/ LogQso \/ EndCallback

MainThread == Main \/ (\E l \in Level : Stop(l)) \/ (\E sig \in Signals : Handler(sig))

Next == MainThread \/ Audio \/ \E sig \in Signals : Signal(sig)

Spec == Init /\ [][Next]_vars

\* The threads are scheduled; signals need not come.
Fairness == WF_vars(MainThread) /\ WF_vars(Audio)

FairSpec == Spec /\ Fairness

-----------------------------------------------------------------------------

TypeOK ==
  /\ at \in MainStep
  /\ stopping \in [Level -> StopStep]
  /\ handling \in Seq(Signals)
  /\ arrived \subseteq Signals
  /\ running \in BOOLEAN
  /\ audio \in AudioStep
  /\ owner \in {"none", "main", "audio"}
  /\ stream \in {"closed", "open", "running"}
  /\ log \in {"closed", "open"}
  /\ stations \subseteq Ids /\ done \subseteq Ids /\ failed \subseteq Ids
  /\ freed \subseteq Ids /\ todo \subseteq Ids /\ finished \subseteq Ids
  /\ pending \in BOOLEAN
  /\ qsoQueue \in Seq(Ids) /\ completed \in Seq(Ids)
  /\ logged \in Seq(Ids) /\ shown \in Seq(Ids)
  /\ quits \in Nat /\ printed \in Nat

\* The audio thread never works on a station that has been deleted, whenever
\* the signals come and however the handlers nest (stop(): closeStream comes
\* before the deletion; getAudio: who is marked is removed and deleted).
AudioSeesLiveStations ==
  audio \in InGetAudio => (stations \cup finished) \cap freed = {}

\* Only a signal pulls a station away from under the main thread: while that
\* tells the stations of an event, audio_mutex keeps the audio thread from
\* removing one, and no stop() of its own is under way.  What stop() in a
\* handler does, without the mutex, is not excluded: the station is used after
\* its deletion then (onMeStartedSending, createPendingStations, stop()).
MainSeesLiveStations ==
  at \in Telling /\ todo \cap freed # {} => arrived # {}

\* The contact that has been queued and is not in the log yet.
InTheMaking == IF audio = "log" THEN 1 ELSE 0

\* The log has the contacts in their order and without a gap, and as long as
\* it is open every one of them is in it before the next buffer: closing it
\* under a running stream loses the last contacts only (stop(), logQso).
LogKeepsUp ==
  /\ Len(logged) <= Len(completed)
  /\ \A i \in DOMAIN logged : logged[i] = completed[i]
  /\ log = "open" => Len(logged) = Len(completed) - InTheMaking

\* What the loop has shown and the number in the final statistics are all
\* that was queued: nothing is queued any more when that number is printed,
\* and nothing is taken off the queue without being shown (the loop ends
\* without draining the queue).  What was queued are the contacts and the
\* stations that gave up after a call (qsy, on unless configured otherwise):
\* the "QSOs" of the statistics and the [QSO] lines count these too.
StatisticsAddUp ==
  at = "exit" => Len(shown) + printed = Len(completed) + quits

\* The program leaves nothing behind: no station, no open stream, no callback,
\* no lock, also when stations were created or the stream was opened after
\* the handler's stop(); unless it ends for using a deleted station.
CleanEnd ==
  at = "exit" /\ handling = <<>> =>
    stations = {} /\ stream = "closed" /\ audio = "idle" /\ owner = "none"

\* The handler waits for a callback that waits for the thread it interrupts.
Stuck ==
  /\ stopping[Top] = "close" /\ stream # "closed"
  /\ audio = "called" /\ owner = "main"

\* A signal ends the program, one way or the other, unless it has come while
\* the main thread held audio_mutex (sendText, createPendingStations, popQso)
\* and a callback was waiting for it: of the locks and loops of this module
\* nothing else keeps the program from ending.
EndsOrIsStuck == arrived # {} ~> (Ended \/ Stuck)

\* "Press Ctrl+C to stop" (main).
StopsOnSignal == arrived # {} ~> Ended

=============================================================================
