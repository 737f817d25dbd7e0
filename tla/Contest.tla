------------------------------ MODULE Contest ------------------------------
(***************************************************************************)
(* The contest (contest.h, contest.cpp) with its DX stations, and the two  *)
(* threads that work on it: the audio thread, which calls getAudio for     *)
(* every buffer, and the main loop of testsim_daemon.cpp, which carries    *)
(* out the commands of the loggers, creates the stations the audio thread  *)
(* has asked for and takes the finished contacts off the queue.            *)
(*                                                                         *)
(* audio_mutex makes getAudio, sendText, abortSend, the creation of        *)
(* stations and popQso atomic, each is one action; what happens outside of *)
(* the mutex is an action of its own.  The stations of the band that are   *)
(* only noise (QRN, QRM) touch nothing modelled here.                      *)
(***************************************************************************)
EXTENDS DxStation, MyStation, FiniteSets

CONSTANTS Ids,          \* bounds the number of stations on the band
          Single,       \* RunMode single or single_qsonr?
          Qsy,          \* configuration "qsy": who gives up is queued too
          MaxNew,       \* bounds the draw of poisson(0.5 * activity)
          Match         \* Match[<<call, hiscall>>]: what isMyCall may answer
                        \* an operator of call when hiscall is sent for a call

ASSUME ContestAssumption ==
  /\ IsFiniteSet(Ids)
  /\ Single \in BOOLEAN
  /\ Qsy \in BOOLEAN
  /\ MaxNew \in Nat
  /\ \A p \in DOMAIN Match : Match[p] \subseteq MyCallCorrect

VARIABLES me,           \* the station at the key
          stations,     \* the DX stations, a function of the Ids in use
          pending,      \* _pendingStations
          mpc,          \* where the main loop is
          count,        \* createPendingStations: the number it has read
          qsoQueue      \* the finished contacts, for the main loop

vars == <<me, stations, pending, mpc, count, qsoQueue>>

\* The steps of the main loop, in the order of the program.
MainStep == {"poll", "store", "create", "drain"}

\* emplace(call, rst, nr, wpm): worked, or gone without an exchange (nr 0).
QueueEntry == [call : Calls, worked : BOOLEAN]

Init ==
  /\ me = NewMe
  /\ stations = <<>>
  /\ pending = 0
  /\ mpc = "poll"
  /\ count = 0
  /\ qsoQueue = <<>>

-----------------------------------------------------------------------------

\* The functions that take a value of H[x] for every x: what an array of
\* nondeterministic results may turn out to be.
Product(H) ==
  {f \in [DOMAIN H -> UNION {H[x] : x \in DOMAIN H}] :
     \A x \in DOMAIN H : f[x] \in H[x]}

\* isMyCall, for all that has been sent in the place of a call; of what Match
\* does not list nothing is known.
IsMyCall(call, hiscall) ==
  IF <<call, hiscall>> \in DOMAIN Match THEN Match[<<call, hiscall>>]
  ELSE MyCallCorrect

\* A station is told of the end of a message; isMyCall is asked only when the
\* message has a call.
HearEnd(st, m) ==
  UNION {OnMeFinished(st, m.msgs, isme) :
           isme \in IF "hiscall" \in m.msgs THEN IsMyCall(st.call, m.hiscall)
                    ELSE {"No"}}

IsDone(st) == st.oper.state = "Done"

\* dxCount
DxCount(sts) == Cardinality({i \in DOMAIN sts : ~IsDone(sts[i])})

-----------------------------------------------------------------------------
(***************************************************************************)
(* The commands of the loggers, carried out by the main loop.              *)
(***************************************************************************)

\* Contest::sendText.  Only a new message is announced to the stations.
SendText(text) ==
  /\ mpc = "poll"
  /\ me' \in MeSendText(me, text)
  /\ stations' \in
       IF me.state = "sending" THEN {stations}
       ELSE Product([i \in DOMAIN stations |-> OnMeStarted(stations[i])])
  /\ UNCHANGED <<pending, mpc, count, qsoQueue>>

\* Contest::abortSend, also with nothing to abort.  The message is garbage.
AbortSend ==
  /\ mpc = "poll"
  /\ me' = MeAbort(me)
  /\ stations' \in
       Product([i \in DOMAIN stations |-> HearEnd(stations[i], me')])
  /\ UNCHANGED <<pending, mpc, count, qsoQueue>>

-----------------------------------------------------------------------------
(***************************************************************************)
(* getAudio, for one buffer: stations marked deleteme leave; one buffer is *)
(* played; the station at the key ticks, and if that ends its message the  *)
(* others hear of it; then they tick; who is done is queued and marked; in *)
(* single mode an empty band calls for a station.                          *)
(***************************************************************************)
\* Mutant: only who has given up is removed.
LeavingFailed == {i \in DOMAIN stations : /\ stations[i].state = "deleteme"
                                          /\ stations[i].oper.state = "Failed"}

Leaving == {i \in DOMAIN stations : stations[i].state = "deleteme"}

\* Those who leave unworked after having called are queued if Qsy is set.
QsyEntries ==
  IF ~Qsy THEN {}
  ELSE {i \in Leaving : ~IsDone(stations[i]) /\ stations[i].called}

Entry(st) == [call |-> st.call, worked |-> IsDone(st)]

\* The ways to line up the entries of the stations in S.
Entries(sts, S) ==
  {[k \in 1 .. Cardinality(S) |-> Entry(sts[order[k]])] :
     order \in {f \in [1 .. Cardinality(S) -> S] : \A i \in S : \E k \in DOMAIN f : f[k] = i}}

\* What one buffer makes of a station that stays.
StationBuffer(st, finished, m) ==
  UNION {Tick(s, m.state = "sending") :
           s \in IF finished THEN HearEnd(GetBuffer(st), m)
                 ELSE {GetBuffer(st)}}

\* The QSO check.
QsoCheck(st) == IF IsDone(st) THEN DataToLastQso(st) ELSE st

\* onMeFinishedSending: a CQ brings new callers (not in single mode).  The
\* model draws no more of them than Ids leaves room for.
NewCallers(finished, m) ==
  IF finished /\ "cq" \in m.msgs /\ ~Single
  THEN {n \in 0 .. MaxNew :
          n + count + Cardinality(DOMAIN stations) <= Cardinality(Ids)}
  ELSE {pending}

GetAudio ==
  LET finished == me.state = "sending" /\ me'.state = "listening"
      staying  == DOMAIN stations \ Leaving
  IN  /\ me' = MeBuffer(me)
      /\ \E sts \in Product([i \in staying |->
                      StationBuffer(stations[i], finished, me')]) :
           LET done == {i \in staying : IsDone(sts[i])}
           IN  /\ stations' = [i \in staying |-> QsoCheck(sts[i])]
               /\ \E gone \in Entries(stations, QsyEntries),
                     worked \in Entries(sts, done) :
                    qsoQueue' = qsoQueue \o gone \o worked
               /\ pending' \in IF Single /\ DxCount(sts) = 0 THEN {1}
                               ELSE NewCallers(finished, me')
      /\ UNCHANGED <<mpc, count>>

-----------------------------------------------------------------------------
(***************************************************************************)
(* The rest of the main loop.  createPendingStations reads the number of   *)
(* stations asked for, resets it, and only then takes the mutex.           *)
(***************************************************************************)
\* Mutant: the request is reset before it is read, not after.
LoadPendingAfterReset ==
  /\ mpc = "poll"
  /\ pending' = 0
  /\ count' = pending'
  /\ mpc' = IF pending = 0 THEN "drain" ELSE "store"
  /\ UNCHANGED <<me, stations, qsoQueue>>

LoadPending ==
  /\ mpc = "poll"
  /\ count' = pending
  /\ mpc' = IF pending = 0 THEN "drain" ELSE "store"
  /\ UNCHANGED <<me, stations, pending, qsoQueue>>

\* Mutant: the request is not reset.
StorePendingKeeps ==
  /\ mpc = "store"
  /\ mpc' = "create"
  /\ UNCHANGED <<me, stations, pending, count, qsoQueue>>

StorePending ==
  /\ mpc = "store"
  /\ pending' = 0
  /\ mpc' = "create"
  /\ UNCHANGED <<me, stations, count, qsoQueue>>

\* New stations are told of the end of a message at once.
CreateStations ==
  /\ mpc = "create"
  /\ \E new \in SUBSET (Ids \ DOMAIN stations) : \E call \in [new -> Calls] :
       /\ Cardinality(new) = count
       /\ \E born \in Product([i \in new |->
                  HearEnd(NewStation(call[i], me.state = "sending"), me)]) :
            stations' = [i \in DOMAIN stations \cup new |->
                           IF i \in new THEN born[i] ELSE stations[i]]
  /\ count' = 0
  /\ mpc' = "drain"
  /\ UNCHANGED <<me, pending, qsoQueue>>

\* Mutant: the contact is looked at and stays on the queue.
PopQsoKeeps ==
  /\ mpc = "drain"
  /\ qsoQueue # <<>>
  /\ UNCHANGED vars

\* hasQso, popQso
PopQso ==
  /\ mpc = "drain"
  /\ qsoQueue # <<>>
  /\ qsoQueue' = Tail(qsoQueue)
  /\ UNCHANGED <<me, stations, pending, mpc, count>>

\* The queue is empty: the loop sleeps and starts over.
EndLoop ==
  /\ mpc = "drain"
  /\ qsoQueue = <<>>
  /\ mpc' = "poll"
  /\ UNCHANGED <<me, stations, pending, count, qsoQueue>>

MainLoop == LoadPending \/ StorePending \/ CreateStations \/ PopQso \/ EndLoop

Command == AbortSend \/ \E text \in Texts : SendText(text)

Next == Command \/ GetAudio \/ MainLoop

Spec == Init /\ [][Next]_vars

\* The sound card keeps asking for buffers and the main loop keeps running;
\* the loggers need never send anything.
Fairness == WF_vars(GetAudio) /\ WF_vars(MainLoop)

FairSpec == Spec /\ Fairness

-----------------------------------------------------------------------------

TypeOK ==
  /\ me \in Me
  /\ DOMAIN stations \subseteq Ids
  /\ stations \in [DOMAIN stations -> Station]
  /\ pending \in Nat
  /\ mpc \in MainStep
  /\ count \in Nat
  /\ qsoQueue \in Seq(QueueEntry)

Oper(i) == stations[i].oper.state

\* An operator comes to the end of a contact, waits for the confirmation or
\* counts as worked, only after its own full call and then a number have come
\* through since another call was last sent (msgReceived, processEvent): no
\* order of texts, aborts and timeouts lets a contact through without them.
QsoNeedsCallAndNumber ==
  \A i \in DOMAIN stations :
    /\ Oper(i) \in {"NeedCall", "NeedEnd", "Done"} =>
         stations[i].heard = {"call", "nr"}
    /\ Oper(i) = "NeedNr" => "call" \in stations[i].heard

\* A station gives its number away only to somebody who has sent it his:
\* whatever it is sending when a report goes out, it has heard its call and a
\* number (getReply against what has been received).
ReportOnlyAfterNumber ==
  \A i \in DOMAIN stations :
    stations[i].msg \in {"r_nr", "r_nr2", "demycallnr1", "demycallnr2",
                         "mycallnr2"} =>
      stations[i].heard = {"call", "nr"}

\* Patience and state agree (decPatience, setState, and the direct assignments
\* to either): an operator that has not failed has patience left, and a
\* station is on its way out as soon as its operator has failed, unless
\* mestarted has put it back to copying.
PatienceAndStateAgree ==
  \A i \in DOMAIN stations :
    /\ Oper(i) # "Failed" => stations[i].oper.patience > 0
    /\ Oper(i) = "Failed" => stations[i].state \in {"deleteme", "copying"}

\* Between two callbacks of the audio thread a worked station is always
\* already marked for removal, so the QSO check finds every contact once
\* (processEvent's Done guard, the check in getAudio, dataToLastQso).
WorkedIsMarked ==
  \A i \in DOMAIN stations : Oper(i) = "Done" => stations[i].state = "deleteme"

\* A station that was on the band when the message began and was not sending
\* then waits for its end: its timeout is stopped, whatever the order of
\* continuation texts, its own end of transmission and aborts
\* (mestarted, msgsent, tick).
PresentStationsStayQuiet ==
  me.state = "sending" =>
    \A i \in DOMAIN stations :
      \/ stations[i].late
      \/ stations[i].state \in {"sending", "deleteme"}
      \/ stations[i].timeout = NEVER

\* The stations asked for that are still to come: a request the main loop has
\* read but not yet reset is one request, not two.
StillToCome == IF mpc = "store" THEN count ELSE pending + count

\* In single mode the hand-over between the two threads never lets more than
\* two stations onto the band: the audio thread asks for one only when there
\* is none, and at most one more request is then on its way (getAudio,
\* createPendingStations).  That is one more than the README wants.
AtMostTwoInSingleMode == Single => DxCount(stations) + StillToCome <= 2

\* "Single mode for one-at-a-time QSO practice" (README): in single mode there
\* is never more than one station to be worked on the band.
AtMostOneInSingleMode == Single => DxCount(stations) <= 1

-----------------------------------------------------------------------------
(* Action properties. *)

Engaged == {"NeedNr", "NeedCall", "NeedCallNr", "NeedEnd"}

\* A message with a call in it has just ended, and it is not the call of i.
AnotherCalled(i) ==
  /\ me.state = "sending" /\ me'.state = "listening"
  /\ "hiscall" \in me'.msgs
  /\ IsMyCall(stations[i].call, me'.hiscall) = {"No"}

Remaining == DOMAIN stations \cap DOMAIN stations'

\* When another station has been called, nobody who was not sending himself at
\* that moment still believes to be in a contact, however the message was
\* put together and whatever he was doing when it began (careful operators:
\* isMyCall, msgReceived, mefinished).
CallingAnotherBreaksOff ==
  [][\A i \in Remaining :
       AnotherCalled(i) /\ stations[i].state # "sending" =>
         Oper(i)' \notin Engaged]_vars

\* "QSO failed, give up" (OperatorState): a station whose operator has failed
\* is never part of a contact again.
FailedGivesUp ==
  [][\A i \in Remaining : Oper(i) = "Failed" => Oper(i)' = "Failed"]_vars

-----------------------------------------------------------------------------
(* What the contest promises, and liveness. *)

QLog == INSTANCE QsoLog
          WITH band <- [i \in DOMAIN stations |-> Entry(stations[i])],
               list <- qsoQueue

\* Contacts are recorded as QsoLog promises: once each, at once, under the
\* right call, in whatever order the threads run.
ImplementsQsoLog == QLog!Spec

\* Every contact reaches the person at the key (hasQso, popQso), and a worked
\* station leaves the band (getAudio).
ContactsAreShown == QLog!Shown
WorkedStationsLeave == QLog!Leaves

\* When the station at the key is silent for good, a station that calls it
\* gives up in the end (decPatience, timeout).
CallersGiveUp ==
  <>[](me.state = "listening") =>
    \A i \in Ids :
      []<>~(i \in DOMAIN stations /\ Oper(i) = "NeedQso")

\* In single mode the band does not stay empty: the request of the audio
\* thread gets through to the main loop in the end.
SingleModeIsRefilled == Single => []<>(DOMAIN stations # {})


=============================================================================
