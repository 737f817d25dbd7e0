--------------------------- MODULE ShutdownProofs ---------------------------
(***************************************************************************)
(* Proofs about Shutdown for any number of signals and of stations.  The   *)
(* argument: whoever is about to delete the stations, in main() or in a    *)
(* handler on top of it, has closed the stream (Streams), and nobody opens *)
(* it again before that level has returned, because main() goes on only    *)
(* when no handler is left (Threads).                                      *)
(***************************************************************************)
EXTENDS Shutdown, TLAPS

\* A handler is in stop() only while it is on the stack, and its signal does
\* not come again; audio_mutex is held by who is in a part that takes it.
Threads ==
  /\ \A sig \in Signals : stopping[sig] # "out" =>
       /\ sig \in arrived
       /\ \E i \in DOMAIN handling : handling[i] = sig
  /\ stopping["main"] # "out" => at \in {"stats", "cleanup"}
  /\ owner = "main" <=> at \in InMutex \cup {"crash"}
  /\ owner = "audio" <=> audio \in InGetAudio

\* After the loop, with the stop() that follows it returned.
AfterStop == \/ at \in {"destroy", "cleanup", "exit"}
             \/ at = "stats" /\ stopping["main"] = "out"

Streams ==
  /\ audio # "idle" => stream # "closed"
  /\ \A l \in Level : stopping[l] \in {"delete", "clear"} => stream = "closed"
  /\ at = "construct" \/ AfterStop => stream = "closed"

\* Before the loop.
Before == at \in {"construct", "open", "start", "log"}

\* A deleted station is in the vector only between delete and clear().
Stations ==
  /\ stations \cap freed # {} => \E l \in Level : stopping[l] = "clear"
  /\ Before \/ at = "exit" => stations = {}
  /\ Before => failed = {}
  /\ finished \subseteq stations
  /\ finished # {} => audio \in {"check", "log"}

\* Who is being told of an event is alive, or a signal has come.
Listeners ==
  /\ todo # {} => at \in Telling \cup {"crash"}
  /\ todo \cap freed # {} => arrived # {}

\* Everything that was queued is on the queue or shown.
Accounts ==
  /\ Len(shown) + Len(qsoQueue) = Len(completed) + quits
  /\ at = "pop" => qsoQueue # <<>>
  /\ at \in {"destroy", "cleanup", "exit"} => printed = Len(qsoQueue)
  /\ Before => completed = <<>> /\ quits = 0 /\ printed = 0

\* Nothing has been logged before the log is opened.
Log ==
  /\ Before => logged = <<>> /\ log = "closed"
  /\ audio = "log" => completed # <<>>
  /\ LogKeepsUp

IInv == TypeOK /\ Threads /\ Streams /\ Stations /\ Listeners /\ Accounts /\ Log

\* What Head, Tail and Append do to a sequence.
LEMMA Ends ==
  ASSUME NEW S, NEW s \in Seq(S)
  PROVE  /\ s # <<>> => /\ Head(s) \in S /\ Tail(s) \in Seq(S)
                        /\ Len(s) > 0 /\ Len(Tail(s)) = Len(s) - 1
                        /\ s[Len(s)] \in S
                        /\ \A i \in DOMAIN s : i = 1 \/ s[i] = Tail(s)[i - 1]
                        /\ \A i \in DOMAIN s : i = 1 \/ i - 1 \in DOMAIN Tail(s)
         /\ \A e \in S : /\ Append(s, e) \in Seq(S)
                         /\ Len(Append(s, e)) = Len(s) + 1
                         /\ Append(s, e)[Len(s) + 1] = e
                         /\ \A i \in DOMAIN s : Append(s, e)[i] = s[i]
  OBVIOUS

\* What pushing on a sequence does to it.
LEMMA Push ==
  ASSUME NEW S, NEW s \in Seq(S), NEW e \in S
  PROVE  /\ <<e>> \o s \in Seq(S)
         /\ 1 \in DOMAIN (<<e>> \o s) /\ (<<e>> \o s)[1] = e
         /\ \A i \in DOMAIN s : /\ i + 1 \in DOMAIN (<<e>> \o s)
                                /\ (<<e>> \o s)[i + 1] = s[i]
  OBVIOUS

\* TypeOK is kept, given the rest: no queue and no stack is taken from when empty.
LEMMA TypeOKStep ==
  ASSUME IInv, [Next]_vars
  PROVE  TypeOK'
<1> USE DEF IInv, TypeOK, Level, MainStep, StopStep, InGetAudio, AudioStep,
           Top, files, marks, band, account, AskForStations
<1>1. ASSUME NEW l \in Level, StopTest(l) PROVE TypeOK'
  BY <1>1 DEF StopTest, InStop, StopGoes
<1>2. ASSUME NEW l \in Level, CloseFiles(l) PROVE TypeOK'
  BY <1>2 DEF CloseFiles, InStop, StopGoes
<1>3. ASSUME NEW l \in Level, StopStream(l) PROVE TypeOK'
  BY <1>3 DEF StopStream, InStop, StopGoes
<1>4. ASSUME NEW l \in Level, CloseStream(l) PROVE TypeOK'
  BY <1>4 DEF CloseStream, InStop, StopGoes
<1>5. ASSUME NEW l \in Level, DeleteStations(l) PROVE TypeOK'
  BY <1>5 DEF DeleteStations, InStop, StopGoes
<1>6. ASSUME NEW l \in Level, ClearStations(l) PROVE TypeOK'
  BY <1>6 DEF ClearStations, InStop, StopGoes
<1>7. ASSUME NEW sig \in Signals, HandlerFlag(sig) PROVE TypeOK'
  BY <1>7 DEF HandlerFlag, InStop
<1>8. ASSUME NEW sig \in Signals, HandlerReturn(sig) PROVE TypeOK'
  <2>1. handling # <<>> /\ handling' = Tail(handling)
    BY <1>8, ShutdownAssumption DEF HandlerReturn, InStop
  <2>2. handling' \in Seq(Signals)
    BY <2>1, Ends
  <2> QED
    BY <1>8, <2>2 DEF HandlerReturn
<1>9. ASSUME NEW sig \in Signals, Signal(sig) PROVE TypeOK'
  BY <1>9 DEF Signal
<1>10. CASE Construct
  BY <1>10 DEF Construct, MainGoes, MainAt, InStop
<1>11. CASE OpenStream
  BY <1>11 DEF OpenStream, MainGoes, MainAt, InStop
<1>12. CASE StartStream
  BY <1>12 DEF StartStream, MainGoes, MainAt, InStop
<1>13. CASE OpenLog
  BY <1>13 DEF OpenLog, MainGoes, MainAt, InStop
<1>14. CASE Loop
  BY <1>14 DEF Loop, MainGoes, MainAt, InStop
<1>15. CASE Poll
  BY <1>15 DEF Poll, MainGoes, MainAt, InStop
<1>16. CASE SendText
  BY <1>16 DEF SendText, MainGoes, MainAt, InStop
<1>17. CASE LoadPending
  BY <1>17 DEF LoadPending, MainGoes, MainAt, InStop
<1>18. CASE LockToCreate
  BY <1>18 DEF LockToCreate, MainGoes, MainAt, InStop
<1>19. CASE CreateStation
  BY <1>19 DEF CreateStation, MainGoes, MainAt, InStop
<1>20. CASE Drain
  BY <1>20 DEF Drain, MainGoes, MainAt, InStop
<1>21. CASE PopQso
  <2>1. at = "pop" /\ shown' = Append(shown, Head(qsoQueue)) /\ qsoQueue' = Tail(qsoQueue)
    BY <1>21 DEF PopQso, MainAt
  <2>2. shown' \in Seq(Ids) /\ qsoQueue' \in Seq(Ids)
    BY <2>1, Ends DEF Accounts
  <2> QED
    BY <1>21, <2>2 DEF PopQso, MainGoes
<1>22. CASE StopAfterLoop
  BY <1>22 DEF StopAfterLoop, CallStop, MainAt, InStop
<1>23. CASE Statistics
  BY <1>23 DEF Statistics, MainGoes, MainAt, InStop
<1>24. CASE Destroy
  BY <1>24 DEF Destroy, CallStop, MainAt, InStop
<1>25. CASE Cleanup
  BY <1>25 DEF Cleanup, MainGoes, MainAt, InStop
<1>26. CASE Callback
  BY <1>26 DEF Callback, AudioGoes
<1>27. CASE LockAudio
  BY <1>27 DEF LockAudio, AudioGoes
<1>28. CASE MixAndTick
  <2>1. stations' \subseteq Ids /\ freed' \subseteq Ids /\ pending' \in BOOLEAN
    BY <1>28 DEF MixAndTick
  <2>2. PICK worked \in SUBSET stations', gaveUp \in SUBSET stations' :
          done' = worked /\ failed' = gaveUp /\ finished' = done'
    BY <1>28 DEF MixAndTick
  <2>3. done' \subseteq Ids /\ failed' \subseteq Ids /\ finished' \subseteq Ids
    BY <2>1, <2>2
  <2>4. audio' \in AudioStep
    BY <1>28 DEF MixAndTick, AudioGoes
  <2> QED
    BY <1>28, <2>1, <2>3, <2>4 DEF MixAndTick, AudioGoes
<1>29. CASE LogQso
  <2>1. logged' \in Seq(Ids)
    BY <1>29, Ends DEF LogQso, Log
  <2> QED
    BY <1>29, <2>1 DEF LogQso, AudioGoes
<1>30. CASE EndCallback
  BY <1>30 DEF EndCallback, AudioGoes
<1>31. CASE UNCHANGED vars
  BY <1>31 DEF vars, threads, files, marks, band, account
<1>32. CASE Tell
  BY <1>32 DEF Tell, Told, Hears, MainGoes, MainAt, InStop
<1>33. CASE ToldAll
  BY <1>33 DEF ToldAll, MainGoes, MainAt, InStop
<1>34. CASE Greet
  BY <1>34 DEF Greet, Told, Hears, MainGoes, MainAt, InStop
<1>35. CASE AllCreated
  BY <1>35 DEF AllCreated, MainGoes, MainAt, InStop
<1>36. CASE Leave
  <2>1. PICK s \in Ids :
          /\ stations' = stations \ {s} /\ failed' = failed \ {s}
          /\ freed' = freed \cup {s}
          /\ \/ quits' = quits + 1 /\ qsoQueue' = Append(qsoQueue, s)
             \/ UNCHANGED <<quits, qsoQueue>>
    BY <1>36 DEF Leave
  <2>2. Append(qsoQueue, s) \in Seq(Ids) /\ quits + 1 \in Nat
    BY Ends
  <2>3. qsoQueue' \in Seq(Ids) /\ quits' \in Nat
    BY <2>1, <2>2
  <2> QED
    BY <1>36, <2>1, <2>3 DEF Leave, AudioGoes
<1>37. CASE QueueQso
  <2>1. PICK s \in Ids :
          /\ finished' = finished \ {s}
          /\ completed' = Append(completed, s) /\ qsoQueue' = Append(qsoQueue, s)
    BY <1>37 DEF QueueQso
  <2>2. completed' \in Seq(Ids) /\ qsoQueue' \in Seq(Ids)
    BY <2>1, Ends
  <2> QED
    BY <1>37, <2>1, <2>2 DEF QueueQso, AudioGoes
<1> QED
  BY <1>1, <1>2, <1>3, <1>4, <1>5, <1>6, <1>7, <1>8, <1>9, <1>10, <1>11,
     <1>12, <1>13, <1>14, <1>15, <1>16, <1>17, <1>18, <1>19, <1>20, <1>21,
     <1>22, <1>23, <1>24, <1>25, <1>26, <1>27, <1>28, <1>29, <1>30, <1>31,
     <1>32, <1>33, <1>34, <1>35, <1>36, <1>37
  DEF Next, MainThread, Main, Stop, Handler, Audio

\* A signal pushes its handler, a handler goes when its stop() has returned.
LEMMA ThreadsStep ==
  ASSUME TypeOK, Threads, [Next]_vars
  PROVE  Threads'
<1> USE ShutdownAssumption DEF TypeOK, Threads, Level, InGetAudio, InMutex, Top,
           files, marks, band, account, AskForStations
<1>1. ASSUME NEW l \in Level, StopTest(l) PROVE Threads'
  BY <1>1 DEF StopTest, InStop, StopGoes
<1>2. ASSUME NEW l \in Level, CloseFiles(l) PROVE Threads'
  BY <1>2 DEF CloseFiles, InStop, StopGoes
<1>3. ASSUME NEW l \in Level, StopStream(l) PROVE Threads'
  BY <1>3 DEF StopStream, InStop, StopGoes
<1>4. ASSUME NEW l \in Level, CloseStream(l) PROVE Threads'
  BY <1>4 DEF CloseStream, InStop, StopGoes
<1>5. ASSUME NEW l \in Level, DeleteStations(l) PROVE Threads'
  BY <1>5 DEF DeleteStations, InStop, StopGoes
<1>6. ASSUME NEW l \in Level, ClearStations(l) PROVE Threads'
  BY <1>6 DEF ClearStations, InStop, StopGoes
<1>7. ASSUME NEW sig \in Signals, HandlerFlag(sig) PROVE Threads'
  BY <1>7 DEF HandlerFlag, InStop
<1>8. ASSUME NEW sig \in Signals, HandlerReturn(sig) PROVE Threads'
  <2>1. handling # <<>> /\ Head(handling) = sig /\ stopping[sig] = "out"
    BY <1>8, ShutdownAssumption DEF HandlerReturn, InStop
  <2>2. ASSUME NEW other \in Signals, stopping[other] # "out"
        PROVE  \E i \in DOMAIN Tail(handling) : Tail(handling)[i] = other
    <3>1. PICK i \in DOMAIN handling : handling[i] = other
      BY <2>2
    <3>2. i # 1
      BY <2>1, <2>2, <3>1
    <3>3. i - 1 \in DOMAIN Tail(handling) /\ Tail(handling)[i - 1] = other
      BY <2>1, <3>1, <3>2, Ends
    <3> QED
      BY <3>3
  <2> QED
    BY <1>8, <2>2 DEF HandlerReturn
<1>9. ASSUME NEW sig \in Signals, Signal(sig) PROVE Threads'
  <2>1. ASSUME NEW other \in Signals, stopping[other] # "out" \/ other = sig
        PROVE  \E i \in DOMAIN handling' : handling'[i] = other
    <3>1. handling' = <<sig>> \o handling
      BY <1>9 DEF Signal
    <3>2. CASE other = sig
      BY <3>1, <3>2, Push
    <3>3. CASE other # sig
      <4>1. PICK i \in DOMAIN handling : handling[i] = other
        BY <2>1, <3>3
      <4>2. i + 1 \in DOMAIN handling' /\ handling'[i + 1] = other
        BY <3>1, <4>1, Push
      <4> QED
        BY <4>2
    <3> QED
      BY <3>2, <3>3
  <2> QED
    BY <1>9, <2>1 DEF Signal
<1>10. CASE Construct
  BY <1>10 DEF Construct, MainGoes, MainAt, InStop
<1>11. CASE OpenStream
  BY <1>11 DEF OpenStream, MainGoes, MainAt, InStop
<1>12. CASE StartStream
  BY <1>12 DEF StartStream, MainGoes, MainAt, InStop
<1>13. CASE OpenLog
  BY <1>13 DEF OpenLog, MainGoes, MainAt, InStop
<1>14. CASE Loop
  BY <1>14 DEF Loop, MainGoes, MainAt, InStop
<1>15. CASE Poll
  BY <1>15 DEF Poll, MainGoes, MainAt, InStop
<1>16. CASE SendText
  BY <1>16 DEF SendText, MainGoes, MainAt, InStop
<1>17. CASE LoadPending
  BY <1>17 DEF LoadPending, MainGoes, MainAt, InStop
<1>18. CASE LockToCreate
  BY <1>18 DEF LockToCreate, MainGoes, MainAt, InStop
<1>19. CASE CreateStation
  BY <1>19 DEF CreateStation, MainGoes, MainAt, InStop
<1>20. CASE Drain
  BY <1>20 DEF Drain, MainGoes, MainAt, InStop
<1>21. CASE PopQso
  BY <1>21 DEF PopQso, MainGoes, MainAt, InStop
<1>22. CASE StopAfterLoop
  BY <1>22, ShutdownAssumption DEF StopAfterLoop, CallStop, MainAt, InStop
<1>23. CASE Statistics
  BY <1>23 DEF Statistics, MainGoes, MainAt, InStop
<1>24. CASE Destroy
  BY <1>24, ShutdownAssumption DEF Destroy, CallStop, MainAt, InStop
<1>25. CASE Cleanup
  BY <1>25 DEF Cleanup, MainGoes, MainAt, InStop
<1>26. CASE Callback
  BY <1>26 DEF Callback, AudioGoes
<1>27. CASE LockAudio
  BY <1>27 DEF LockAudio, AudioGoes
<1>28. CASE MixAndTick
  BY <1>28 DEF MixAndTick, AudioGoes
<1>29. CASE LogQso
  BY <1>29 DEF LogQso, AudioGoes
<1>30. CASE EndCallback
  BY <1>30 DEF EndCallback, AudioGoes
<1>31. CASE UNCHANGED vars
  BY <1>31 DEF vars, threads, files, marks, band, account
<1>32. CASE Tell
  BY <1>32 DEF Tell, Told, Hears, MainGoes, MainAt, InStop
<1>33. CASE ToldAll
  BY <1>33 DEF ToldAll, MainGoes, MainAt, InStop
<1>34. CASE Greet
  BY <1>34 DEF Greet, Told, Hears, MainGoes, MainAt, InStop
<1>35. CASE AllCreated
  BY <1>35 DEF AllCreated, MainGoes, MainAt, InStop
<1>36. CASE Leave
  BY <1>36 DEF Leave, AudioGoes
<1>37. CASE QueueQso
  BY <1>37 DEF QueueQso, AudioGoes
<1> QED
  BY <1>1, <1>2, <1>3, <1>4, <1>5, <1>6, <1>7, <1>8, <1>9, <1>10, <1>11,
     <1>12, <1>13, <1>14, <1>15, <1>16, <1>17, <1>18, <1>19, <1>20, <1>21,
     <1>22, <1>23, <1>24, <1>25, <1>26, <1>27, <1>28, <1>29, <1>30, <1>31,
     <1>32, <1>33, <1>34, <1>35, <1>36, <1>37
  DEF Next, MainThread, Main, Stop, Handler, Audio

\* Only main() without a handler opens the stream, when nobody is past closing it.
LEMMA StreamsStep ==
  ASSUME TypeOK, Threads, Streams, [Next]_vars
  PROVE  Streams'
<1> USE DEF Streams, AfterStop, TypeOK, Threads, Level, Top, files, marks, band,
           account, AskForStations
<1>1. ASSUME NEW l \in Level, StopTest(l) PROVE Streams'
  BY <1>1 DEF StopTest, InStop, StopGoes
<1>2. ASSUME NEW l \in Level, CloseFiles(l) PROVE Streams'
  BY <1>2 DEF CloseFiles, InStop, StopGoes
<1>3. ASSUME NEW l \in Level, StopStream(l) PROVE Streams'
  BY <1>3 DEF StopStream, InStop, StopGoes
<1>4. ASSUME NEW l \in Level, CloseStream(l) PROVE Streams'
  BY <1>4 DEF CloseStream, InStop, StopGoes
<1>5. ASSUME NEW l \in Level, DeleteStations(l) PROVE Streams'
  BY <1>5 DEF DeleteStations, InStop, StopGoes
<1>6. ASSUME NEW l \in Level, ClearStations(l) PROVE Streams'
  BY <1>6 DEF ClearStations, InStop, StopGoes
<1>7. ASSUME NEW sig \in Signals, HandlerFlag(sig) PROVE Streams'
  BY <1>7 DEF HandlerFlag, InStop
<1>8. ASSUME NEW sig \in Signals, HandlerReturn(sig) PROVE Streams'
  BY <1>8 DEF HandlerReturn, InStop
<1>9. ASSUME NEW sig \in Signals, Signal(sig) PROVE Streams'
  BY <1>9 DEF Signal
<1>10. CASE Construct
  BY <1>10 DEF Construct, MainGoes, MainAt, InStop
<1>11. CASE OpenStream
  BY <1>11, ShutdownAssumption DEF OpenStream, MainGoes, MainAt, InStop
<1>12. CASE StartStream
  BY <1>12 DEF StartStream, MainGoes, MainAt, InStop
<1>13. CASE OpenLog
  BY <1>13 DEF OpenLog, MainGoes, MainAt, InStop
<1>14. CASE Loop
  BY <1>14 DEF Loop, MainGoes, MainAt, InStop
<1>15. CASE Poll
  BY <1>15 DEF Poll, MainGoes, MainAt, InStop
<1>16. CASE SendText
  BY <1>16 DEF SendText, MainGoes, MainAt, InStop
<1>17. CASE LoadPending
  BY <1>17 DEF LoadPending, MainGoes, MainAt, InStop
<1>18. CASE LockToCreate
  BY <1>18 DEF LockToCreate, MainGoes, MainAt, InStop
<1>19. CASE CreateStation
  BY <1>19 DEF CreateStation, MainGoes, MainAt, InStop
<1>20. CASE Drain
  BY <1>20 DEF Drain, MainGoes, MainAt, InStop
<1>21. CASE PopQso
  BY <1>21 DEF PopQso, MainGoes, MainAt, InStop
<1>22. CASE StopAfterLoop
  BY <1>22 DEF StopAfterLoop, CallStop, MainAt, InStop
<1>23. CASE Statistics
  BY <1>23 DEF Statistics, MainGoes, MainAt, InStop
<1>24. CASE Destroy
  BY <1>24 DEF Destroy, CallStop, MainAt, InStop
<1>25. CASE Cleanup
  BY <1>25 DEF Cleanup, MainGoes, MainAt, InStop
<1>26. CASE Callback
  BY <1>26 DEF Callback, AudioGoes
<1>27. CASE LockAudio
  BY <1>27 DEF LockAudio, AudioGoes
<1>28. CASE MixAndTick
  BY <1>28 DEF MixAndTick, AudioGoes
<1>29. CASE LogQso
  BY <1>29 DEF LogQso, AudioGoes
<1>30. CASE EndCallback
  BY <1>30 DEF EndCallback, AudioGoes
<1>31. CASE UNCHANGED vars
  BY <1>31 DEF vars, threads, files, marks, band, account
<1>32. CASE Tell
  BY <1>32 DEF Tell, Told, Hears, MainGoes, MainAt, InStop
<1>33. CASE ToldAll
  BY <1>33 DEF ToldAll, MainGoes, MainAt, InStop
<1>34. CASE Greet
  BY <1>34 DEF Greet, Told, Hears, MainGoes, MainAt, InStop
<1>35. CASE AllCreated
  BY <1>35 DEF AllCreated, MainGoes, MainAt, InStop
<1>36. CASE Leave
  BY <1>36 DEF Leave, AudioGoes
<1>37. CASE QueueQso
  BY <1>37 DEF QueueQso, AudioGoes
<1> QED
  BY <1>1, <1>2, <1>3, <1>4, <1>5, <1>6, <1>7, <1>8, <1>9, <1>10, <1>11,
     <1>12, <1>13, <1>14, <1>15, <1>16, <1>17, <1>18, <1>19, <1>20, <1>21,
     <1>22, <1>23, <1>24, <1>25, <1>26, <1>27, <1>28, <1>29, <1>30, <1>31,
     <1>32, <1>33, <1>34, <1>35, <1>36, <1>37
  DEF Next, MainThread, Main, Stop, Handler, Audio

\* The audio thread and main() delete no station they leave in the vector.
LEMMA StationsStep ==
  ASSUME TypeOK, Threads, Streams, Stations, [Next]_vars
  PROVE  Stations'
<1> USE DEF Stations, Before, TypeOK, Threads, Streams, AfterStop, InGetAudio, InMutex,
           Level, Top, files, marks, band,
           account, AskForStations
<1>1. ASSUME NEW l \in Level, StopTest(l) PROVE Stations'
  BY <1>1 DEF StopTest, InStop, StopGoes
<1>2. ASSUME NEW l \in Level, CloseFiles(l) PROVE Stations'
  BY <1>2 DEF CloseFiles, InStop, StopGoes
<1>3. ASSUME NEW l \in Level, StopStream(l) PROVE Stations'
  BY <1>3 DEF StopStream, InStop, StopGoes
<1>4. ASSUME NEW l \in Level, CloseStream(l) PROVE Stations'
  BY <1>4 DEF CloseStream, InStop, StopGoes
<1>5. ASSUME NEW l \in Level, DeleteStations(l) PROVE Stations'
  BY <1>5 DEF DeleteStations, InStop, StopGoes
<1>6. ASSUME NEW l \in Level, ClearStations(l) PROVE Stations'
  BY <1>6 DEF ClearStations, InStop, StopGoes
<1>7. ASSUME NEW sig \in Signals, HandlerFlag(sig) PROVE Stations'
  BY <1>7 DEF HandlerFlag, InStop
<1>8. ASSUME NEW sig \in Signals, HandlerReturn(sig) PROVE Stations'
  BY <1>8 DEF HandlerReturn, InStop
<1>9. ASSUME NEW sig \in Signals, Signal(sig) PROVE Stations'
  BY <1>9 DEF Signal
<1>10. CASE Construct
  BY <1>10 DEF Construct, MainGoes, MainAt, InStop
<1>11. CASE OpenStream
  BY <1>11 DEF OpenStream, MainGoes, MainAt, InStop
<1>12. CASE StartStream
  BY <1>12 DEF StartStream, MainGoes, MainAt, InStop
<1>13. CASE OpenLog
  BY <1>13 DEF OpenLog, MainGoes, MainAt, InStop
<1>14. CASE Loop
  BY <1>14 DEF Loop, MainGoes, MainAt, InStop
<1>15. CASE Poll
  BY <1>15 DEF Poll, MainGoes, MainAt, InStop
<1>16. CASE SendText
  BY <1>16 DEF SendText, MainGoes, MainAt, InStop
<1>17. CASE LoadPending
  BY <1>17 DEF LoadPending, MainGoes, MainAt, InStop
<1>18. CASE LockToCreate
  BY <1>18 DEF LockToCreate, MainGoes, MainAt, InStop
<1>19. CASE CreateStation
  BY <1>19 DEF CreateStation, MainGoes, MainAt, InStop
<1>20. CASE Drain
  BY <1>20 DEF Drain, MainGoes, MainAt, InStop
<1>21. CASE PopQso
  BY <1>21 DEF PopQso, MainGoes, MainAt, InStop
<1>22. CASE StopAfterLoop
  BY <1>22 DEF StopAfterLoop, CallStop, MainAt, InStop
<1>23. CASE Statistics
  BY <1>23 DEF Statistics, MainGoes, MainAt, InStop
<1>24. CASE Destroy
  BY <1>24 DEF Destroy, CallStop, MainAt, InStop
<1>25. CASE Cleanup
  BY <1>25 DEF Cleanup, MainGoes, MainAt, InStop
<1>26. CASE Callback
  BY <1>26 DEF Callback, AudioGoes
<1>27. CASE LockAudio
  BY <1>27 DEF LockAudio, AudioGoes
<1>28. CASE MixAndTick
  <2>1. /\ stations' = stations \ done /\ freed' = freed \cup done
        /\ UNCHANGED <<at, stopping>> /\ audio' = "check"
    BY <1>28 DEF MixAndTick, AudioGoes
  <2>2. PICK worked \in SUBSET stations', gaveUp \in SUBSET stations' :
          done' = worked /\ failed' = gaveUp /\ finished' = done'
    BY <1>28 DEF MixAndTick
  <2>3. finished' \cup failed' \subseteq stations'
    BY <2>2
  <2> QED
    BY <2>1, <2>3
<1>29. CASE LogQso
  BY <1>29 DEF LogQso, AudioGoes
<1>30. CASE EndCallback
  BY <1>30 DEF EndCallback, AudioGoes
<1>31. CASE UNCHANGED vars
  BY <1>31 DEF vars, threads, files, marks, band, account
<1>32. CASE Tell
  BY <1>32 DEF Tell, Told, Hears, MainGoes, MainAt, InStop
<1>33. CASE ToldAll
  BY <1>33 DEF ToldAll, MainGoes, MainAt, InStop
<1>34. CASE Greet
  BY <1>34 DEF Greet, Told, Hears, MainGoes, MainAt, InStop
<1>35. CASE AllCreated
  BY <1>35 DEF AllCreated, MainGoes, MainAt, InStop
<1>36. CASE Leave
  <2>1. PICK s \in failed :
          /\ stations' = stations \ {s} /\ failed' = failed \ {s}
          /\ freed' = freed \cup {s}
    BY <1>36 DEF Leave
  <2>2. audio = "mix" /\ audio' = "mix" /\ UNCHANGED <<at, stopping, done, finished>>
    BY <1>36 DEF Leave, AudioGoes
  <2> QED
    BY <2>1, <2>2
<1>37. CASE QueueQso
  BY <1>37 DEF QueueQso, AudioGoes
<1> QED
  BY <1>1, <1>2, <1>3, <1>4, <1>5, <1>6, <1>7, <1>8, <1>9, <1>10, <1>11,
     <1>12, <1>13, <1>14, <1>15, <1>16, <1>17, <1>18, <1>19, <1>20, <1>21,
     <1>22, <1>23, <1>24, <1>25, <1>26, <1>27, <1>28, <1>29, <1>30, <1>31,
     <1>32, <1>33, <1>34, <1>35, <1>36, <1>37
  DEF Next, MainThread, Main, Stop, Handler, Audio

\* A handler has its signal; main() is in stop() itself only when it tells nobody;
\* and the audio thread deletes with audio_mutex.
LEMMA ListenersStep ==
  ASSUME TypeOK, Threads, Streams, Stations, Listeners, [Next]_vars
  PROVE  Listeners'
<1> USE DEF Listeners, Stations, Before, Telling, InMutex, InGetAudio, TypeOK, Threads, Level, Top, files, marks, band,
           account, AskForStations
<1>1. ASSUME NEW l \in Level, StopTest(l) PROVE Listeners'
  BY <1>1 DEF StopTest, InStop, StopGoes
<1>2. ASSUME NEW l \in Level, CloseFiles(l) PROVE Listeners'
  BY <1>2 DEF CloseFiles, InStop, StopGoes
<1>3. ASSUME NEW l \in Level, StopStream(l) PROVE Listeners'
  BY <1>3 DEF StopStream, InStop, StopGoes
<1>4. ASSUME NEW l \in Level, CloseStream(l) PROVE Listeners'
  BY <1>4 DEF CloseStream, InStop, StopGoes
<1>5. ASSUME NEW l \in Level, DeleteStations(l) PROVE Listeners'
  BY <1>5 DEF DeleteStations, InStop, StopGoes
<1>6. ASSUME NEW l \in Level, ClearStations(l) PROVE Listeners'
  BY <1>6 DEF ClearStations, InStop, StopGoes
<1>7. ASSUME NEW sig \in Signals, HandlerFlag(sig) PROVE Listeners'
  BY <1>7 DEF HandlerFlag, InStop
<1>8. ASSUME NEW sig \in Signals, HandlerReturn(sig) PROVE Listeners'
  BY <1>8 DEF HandlerReturn, InStop
<1>9. ASSUME NEW sig \in Signals, Signal(sig) PROVE Listeners'
  BY <1>9 DEF Signal
<1>10. CASE Construct
  BY <1>10 DEF Construct, MainGoes, MainAt, InStop
<1>11. CASE OpenStream
  BY <1>11, ShutdownAssumption DEF OpenStream, MainGoes, MainAt, InStop
<1>12. CASE StartStream
  BY <1>12 DEF StartStream, MainGoes, MainAt, InStop
<1>13. CASE OpenLog
  BY <1>13 DEF OpenLog, MainGoes, MainAt, InStop
<1>14. CASE Loop
  BY <1>14 DEF Loop, MainGoes, MainAt, InStop
<1>15. CASE Poll
  BY <1>15 DEF Poll, MainGoes, MainAt, InStop
<1>16. CASE SendText
  BY <1>16 DEF SendText, MainGoes, MainAt, InStop
<1>17. CASE LoadPending
  BY <1>17 DEF LoadPending, MainGoes, MainAt, InStop
<1>18. CASE LockToCreate
  BY <1>18 DEF LockToCreate, MainGoes, MainAt, InStop
<1>19. CASE CreateStation
  BY <1>19 DEF CreateStation, MainGoes, MainAt, InStop
<1>20. CASE Drain
  BY <1>20 DEF Drain, MainGoes, MainAt, InStop
<1>21. CASE PopQso
  BY <1>21 DEF PopQso, MainGoes, MainAt, InStop
<1>22. CASE StopAfterLoop
  BY <1>22 DEF StopAfterLoop, CallStop, MainAt, InStop
<1>23. CASE Statistics
  BY <1>23 DEF Statistics, MainGoes, MainAt, InStop
<1>24. CASE Destroy
  BY <1>24 DEF Destroy, CallStop, MainAt, InStop
<1>25. CASE Cleanup
  BY <1>25 DEF Cleanup, MainGoes, MainAt, InStop
<1>26. CASE Callback
  BY <1>26 DEF Callback, AudioGoes
<1>27. CASE LockAudio
  BY <1>27 DEF LockAudio, AudioGoes
<1>28. CASE MixAndTick
  BY <1>28 DEF MixAndTick, AudioGoes
<1>29. CASE LogQso
  BY <1>29 DEF LogQso, AudioGoes
<1>30. CASE EndCallback
  BY <1>30 DEF EndCallback, AudioGoes
<1>31. CASE UNCHANGED vars
  BY <1>31 DEF vars, threads, files, marks, band, account
<1>32. CASE Tell
  BY <1>32 DEF Tell, Told, Hears, MainGoes, MainAt, InStop
<1>33. CASE ToldAll
  BY <1>33 DEF ToldAll, MainGoes, MainAt, InStop
<1>34. CASE Greet
  BY <1>34 DEF Greet, Told, Hears, MainGoes, MainAt, InStop
<1>35. CASE AllCreated
  BY <1>35 DEF AllCreated, MainGoes, MainAt, InStop
<1>36. CASE Leave
  BY <1>36 DEF Leave, AudioGoes
<1>37. CASE QueueQso
  BY <1>37 DEF QueueQso, AudioGoes
<1> QED
  BY <1>1, <1>2, <1>3, <1>4, <1>5, <1>6, <1>7, <1>8, <1>9, <1>10, <1>11,
     <1>12, <1>13, <1>14, <1>15, <1>16, <1>17, <1>18, <1>19, <1>20, <1>21,
     <1>22, <1>23, <1>24, <1>25, <1>26, <1>27, <1>28, <1>29, <1>30, <1>31,
     <1>32, <1>33, <1>34, <1>35, <1>36, <1>37
  DEF Next, MainThread, Main, Stop, Handler, Audio

\* A contact is counted and queued at once; after the stream no more are.
LEMMA AccountsStep ==
  ASSUME TypeOK, Threads, Streams, Stations, Accounts, [Next]_vars
  PROVE  Accounts'
<1> USE DEF Accounts, Before, TypeOK, Streams, AfterStop, Level, files,
           marks, band, account, AskForStations
<1>1. ASSUME NEW l \in Level, StopTest(l) PROVE Accounts'
  BY <1>1 DEF StopTest, InStop, StopGoes
<1>2. ASSUME NEW l \in Level, CloseFiles(l) PROVE Accounts'
  BY <1>2 DEF CloseFiles, InStop, StopGoes
<1>3. ASSUME NEW l \in Level, StopStream(l) PROVE Accounts'
  BY <1>3 DEF StopStream, InStop, StopGoes
<1>4. ASSUME NEW l \in Level, CloseStream(l) PROVE Accounts'
  BY <1>4 DEF CloseStream, InStop, StopGoes
<1>5. ASSUME NEW l \in Level, DeleteStations(l) PROVE Accounts'
  BY <1>5 DEF DeleteStations, InStop, StopGoes
<1>6. ASSUME NEW l \in Level, ClearStations(l) PROVE Accounts'
  BY <1>6 DEF ClearStations, InStop, StopGoes
<1>7. ASSUME NEW sig \in Signals, HandlerFlag(sig) PROVE Accounts'
  BY <1>7 DEF HandlerFlag, InStop
<1>8. ASSUME NEW sig \in Signals, HandlerReturn(sig) PROVE Accounts'
  BY <1>8 DEF HandlerReturn, InStop
<1>9. ASSUME NEW sig \in Signals, Signal(sig) PROVE Accounts'
  BY <1>9 DEF Signal
<1>10. CASE Construct
  <2>1. at = "construct" /\ UNCHANGED <<shown, qsoQueue, completed, quits, printed>>
    BY <1>10 DEF Construct, MainGoes, MainAt
  <2>2. Len(completed) = 0 /\ quits = 0 /\ printed = 0
    BY <2>1
  <2>3. Len(qsoQueue) = 0
    BY <2>2
  <2> QED
    BY <1>10, <2>1, <2>2, <2>3 DEF Construct, MainGoes
<1>11. CASE OpenStream
  BY <1>11 DEF OpenStream, MainGoes, MainAt, InStop
<1>12. CASE StartStream
  BY <1>12 DEF StartStream, MainGoes, MainAt, InStop
<1>13. CASE OpenLog
  BY <1>13 DEF OpenLog, MainGoes, MainAt, InStop
<1>14. CASE Loop
  BY <1>14 DEF Loop, MainGoes, MainAt, InStop
<1>15. CASE Poll
  BY <1>15 DEF Poll, MainGoes, MainAt, InStop
<1>16. CASE SendText
  BY <1>16 DEF SendText, MainGoes, MainAt, InStop
<1>17. CASE LoadPending
  BY <1>17 DEF LoadPending, MainGoes, MainAt, InStop
<1>18. CASE LockToCreate
  BY <1>18 DEF LockToCreate, MainGoes, MainAt, InStop
<1>19. CASE CreateStation
  BY <1>19 DEF CreateStation, MainGoes, MainAt, InStop
<1>20. CASE Drain
  BY <1>20 DEF Drain, MainGoes, MainAt, InStop
<1>21. CASE PopQso
  <2>1. at = "pop" /\ shown' = Append(shown, Head(qsoQueue)) /\ qsoQueue' = Tail(qsoQueue)
        /\ at' = "drain" /\ UNCHANGED <<completed, quits, printed>>
    BY <1>21 DEF PopQso, MainAt, MainGoes
  <2>2. Len(shown') = Len(shown) + 1 /\ Len(qsoQueue') = Len(qsoQueue) - 1
    BY <2>1, Ends
  <2>3. /\ Len(shown) \in Nat /\ Len(qsoQueue) \in Nat /\ Len(completed) \in Nat
        /\ quits \in Nat /\ Len(shown) + Len(qsoQueue) = Len(completed) + quits
    OBVIOUS
  <2>5. Len(completed') = Len(completed) /\ quits' = quits
    BY <2>1
  <2> HIDE DEF Accounts, TypeOK
  <2>4. Len(shown') + Len(qsoQueue') = Len(completed') + quits'
    BY <2>2, <2>3, <2>5
  <2> USE DEF Accounts, TypeOK
  <2> QED
    BY <2>1, <2>4
<1>22. CASE StopAfterLoop
  BY <1>22 DEF StopAfterLoop, CallStop, MainAt, InStop
<1>23. CASE Statistics
  BY <1>23 DEF Statistics, MainGoes, MainAt, InStop
<1>24. CASE Destroy
  BY <1>24 DEF Destroy, CallStop, MainAt, InStop
<1>25. CASE Cleanup
  BY <1>25 DEF Cleanup, MainGoes, MainAt, InStop
<1>26. CASE Callback
  BY <1>26 DEF Callback, AudioGoes
<1>27. CASE LockAudio
  BY <1>27 DEF LockAudio, AudioGoes
<1>28. CASE MixAndTick
  BY <1>28 DEF MixAndTick, AudioGoes
<1>29. CASE LogQso
  BY <1>29 DEF LogQso, AudioGoes
<1>30. CASE EndCallback
  BY <1>30 DEF EndCallback, AudioGoes
<1>31. CASE UNCHANGED vars
  BY <1>31 DEF vars, threads, files, marks, band, account
<1>32. CASE Tell
  BY <1>32 DEF Tell, Told, Hears, MainGoes, MainAt, InStop
<1>33. CASE ToldAll
  BY <1>33 DEF ToldAll, MainGoes, MainAt, InStop
<1>34. CASE Greet
  BY <1>34 DEF Greet, Told, Hears, MainGoes, MainAt, InStop
<1>35. CASE AllCreated
  BY <1>35 DEF AllCreated, MainGoes, MainAt, InStop
<1>36. CASE Leave
  <2>1. PICK s \in Ids :
          \/ quits' = quits + 1 /\ qsoQueue' = Append(qsoQueue, s)
          \/ UNCHANGED <<quits, qsoQueue>>
    BY <1>36 DEF Leave
  <2>2. audio = "mix" /\ failed # {} /\ UNCHANGED <<at, shown, completed, printed>>
    BY <1>36 DEF Leave, AudioGoes
  <2>3. ~Before /\ at \notin {"destroy", "cleanup", "exit"}
    BY <2>2 DEF Stations
  <2>4. Len(Append(qsoQueue, s)) = Len(qsoQueue) + 1
    BY Ends
  <2>5. /\ Len(shown) \in Nat /\ Len(qsoQueue) \in Nat /\ Len(completed) \in Nat
        /\ quits \in Nat /\ Len(shown) + Len(qsoQueue) = Len(completed) + quits
    OBVIOUS
  <2>6. \/ quits' = quits + 1 /\ Len(qsoQueue') = Len(qsoQueue) + 1
        \/ quits' = quits /\ Len(qsoQueue') = Len(qsoQueue)
    BY <2>1, <2>4
  <2>9. Len(shown') = Len(shown) /\ Len(completed') = Len(completed)
    BY <2>2
  <2> HIDE DEF Accounts, TypeOK
  <2>7. Len(shown') + Len(qsoQueue') = Len(completed') + quits'
    BY <2>5, <2>6, <2>9
  <2> USE DEF Accounts, TypeOK
  <2>8. qsoQueue # <<>> => qsoQueue' # <<>>
    BY <2>1, <2>4
  <2> QED
    BY <2>2, <2>3, <2>7, <2>8
<1>37. CASE QueueQso
  <2>1. PICK s \in finished :
          completed' = Append(completed, s) /\ qsoQueue' = Append(qsoQueue, s)
    BY <1>37 DEF QueueQso
  <2>2. audio = "check" /\ UNCHANGED <<at, quits, shown, printed>>
    BY <1>37 DEF QueueQso, AudioGoes
  <2>3. ~Before /\ at \notin {"destroy", "cleanup", "exit"}
    BY <2>1, <2>2 DEF Stations
  <2>4. s \in Ids
    BY <2>1
  <2>5. Len(completed') = Len(completed) + 1 /\ Len(qsoQueue') = Len(qsoQueue) + 1
    BY <2>1, <2>4, Ends
  <2> QED
    BY <2>2, <2>3, <2>5
<1> QED
  BY <1>1, <1>2, <1>3, <1>4, <1>5, <1>6, <1>7, <1>8, <1>9, <1>10, <1>11,
     <1>12, <1>13, <1>14, <1>15, <1>16, <1>17, <1>18, <1>19, <1>20, <1>21,
     <1>22, <1>23, <1>24, <1>25, <1>26, <1>27, <1>28, <1>29, <1>30, <1>31,
     <1>32, <1>33, <1>34, <1>35, <1>36, <1>37
  DEF Next, MainThread, Main, Stop, Handler, Audio

\* The line of a contact is written before the next contact.
LEMMA LogStep ==
  ASSUME TypeOK, Threads, Streams, Stations, Accounts, Log, [Next]_vars
  PROVE  Log'
<1> USE DEF Log, LogKeepsUp, InTheMaking, Before, TypeOK, Level, files,
           marks, band, account, AskForStations
<1>1. ASSUME NEW l \in Level, StopTest(l) PROVE Log'
  BY <1>1 DEF StopTest, InStop, StopGoes
<1>2. ASSUME NEW l \in Level, CloseFiles(l) PROVE Log'
  BY <1>2 DEF CloseFiles, InStop, StopGoes
<1>3. ASSUME NEW l \in Level, StopStream(l) PROVE Log'
  BY <1>3 DEF StopStream, InStop, StopGoes
<1>4. ASSUME NEW l \in Level, CloseStream(l) PROVE Log'
  BY <1>4 DEF CloseStream, InStop, StopGoes
<1>5. ASSUME NEW l \in Level, DeleteStations(l) PROVE Log'
  BY <1>5 DEF DeleteStations, InStop, StopGoes
<1>6. ASSUME NEW l \in Level, ClearStations(l) PROVE Log'
  BY <1>6 DEF ClearStations, InStop, StopGoes
<1>7. ASSUME NEW sig \in Signals, HandlerFlag(sig) PROVE Log'
  BY <1>7 DEF HandlerFlag, InStop
<1>8. ASSUME NEW sig \in Signals, HandlerReturn(sig) PROVE Log'
  BY <1>8 DEF HandlerReturn, InStop
<1>9. ASSUME NEW sig \in Signals, Signal(sig) PROVE Log'
  BY <1>9 DEF Signal
<1>10. CASE Construct
  BY <1>10 DEF Construct, MainGoes, MainAt, InStop
<1>11. CASE OpenStream
  BY <1>11 DEF OpenStream, MainGoes, MainAt, InStop
<1>12. CASE StartStream
  BY <1>12 DEF StartStream, MainGoes, MainAt, InStop
<1>13. CASE OpenLog
  <2>1. at = "log" /\ at' = "loop" /\ audio' = audio /\ UNCHANGED <<completed, logged>>
    BY <1>13 DEF OpenLog, MainGoes, MainAt
  <2>2. completed = <<>> /\ logged = <<>> /\ audio # "log"
    BY <2>1 DEF Accounts
  <2> QED
    BY <2>1, <2>2
<1>14. CASE Loop
  BY <1>14 DEF Loop, MainGoes, MainAt, InStop
<1>15. CASE Poll
  BY <1>15 DEF Poll, MainGoes, MainAt, InStop
<1>16. CASE SendText
  BY <1>16 DEF SendText, MainGoes, MainAt, InStop
<1>17. CASE LoadPending
  BY <1>17 DEF LoadPending, MainGoes, MainAt, InStop
<1>18. CASE LockToCreate
  BY <1>18 DEF LockToCreate, MainGoes, MainAt, InStop
<1>19. CASE CreateStation
  BY <1>19 DEF CreateStation, MainGoes, MainAt, InStop
<1>20. CASE Drain
  BY <1>20 DEF Drain, MainGoes, MainAt, InStop
<1>21. CASE PopQso
  BY <1>21 DEF PopQso, MainGoes, MainAt, InStop
<1>22. CASE StopAfterLoop
  BY <1>22 DEF StopAfterLoop, CallStop, MainAt, InStop
<1>23. CASE Statistics
  BY <1>23 DEF Statistics, MainGoes, MainAt, InStop
<1>24. CASE Destroy
  BY <1>24 DEF Destroy, CallStop, MainAt, InStop
<1>25. CASE Cleanup
  BY <1>25 DEF Cleanup, MainGoes, MainAt, InStop
<1>26. CASE Callback
  BY <1>26 DEF Callback, AudioGoes
<1>27. CASE LockAudio
  BY <1>27 DEF LockAudio, AudioGoes
<1>28. CASE MixAndTick
  BY <1>28 DEF MixAndTick, AudioGoes
<1>29. CASE LogQso
  BY <1>29 DEF LogQso, AudioGoes
<1>30. CASE EndCallback
  BY <1>30 DEF EndCallback, AudioGoes
<1>31. CASE UNCHANGED vars
  BY <1>31 DEF vars, threads, files, marks, band, account
<1>32. CASE Tell
  BY <1>32 DEF Tell, Told, Hears, MainGoes, MainAt, InStop
<1>33. CASE ToldAll
  BY <1>33 DEF ToldAll, MainGoes, MainAt, InStop
<1>34. CASE Greet
  BY <1>34 DEF Greet, Told, Hears, MainGoes, MainAt, InStop
<1>35. CASE AllCreated
  BY <1>35 DEF AllCreated, MainGoes, MainAt, InStop
<1>36. CASE Leave
  BY <1>36 DEF Leave, AudioGoes
<1>37. CASE QueueQso
  <2>1. PICK s \in finished : completed' = Append(completed, s)
    BY <1>37 DEF QueueQso
  <2>2. audio = "check" /\ audio' = "log" /\ UNCHANGED <<at, log, logged>>
    BY <1>37 DEF QueueQso, AudioGoes
  <2>3. s \in Ids /\ ~Before
    BY <2>1, <2>2 DEF Stations
  <2>4. /\ Len(completed') = Len(completed) + 1
        /\ \A i \in DOMAIN completed : completed'[i] = completed[i]
    BY <2>1, <2>3, Ends
  <2>5. completed' # <<>>
    <3>1. Len(completed') # 0
      BY <2>4
    <3> QED
      BY <3>1
  <2>6. \A i \in DOMAIN logged : i \in DOMAIN completed
    OBVIOUS
  <2>7. \A i \in DOMAIN logged' : logged'[i] = completed'[i]
    BY <2>2, <2>4, <2>6
  <2> QED
    BY <2>2, <2>3, <2>4, <2>5, <2>7
<1> QED
  BY <1>1, <1>2, <1>3, <1>4, <1>5, <1>6, <1>7, <1>8, <1>9, <1>10, <1>11,
     <1>12, <1>13, <1>14, <1>15, <1>16, <1>17, <1>18, <1>19, <1>20, <1>21,
     <1>22, <1>23, <1>24, <1>25, <1>26, <1>27, <1>28, <1>29, <1>30, <1>31,
     <1>32, <1>33, <1>34, <1>35, <1>36, <1>37
  DEF Next, MainThread, Main, Stop, Handler, Audio

\* The inductive invariant.
THEOREM Invariant == Spec => []IInv
<1>1. Init => IInv
  <2>1. Init => TypeOK
    <3>1. <<>> \in Seq(Ids) /\ <<>> \in Seq(Signals)
      OBVIOUS
    <3>2. [l \in Level |-> "out"] \in [Level -> StopStep]
      BY DEF StopStep
    <3> SUFFICES ASSUME Init PROVE TypeOK
      OBVIOUS
    <3>3. /\ handling \in Seq(Signals) /\ qsoQueue \in Seq(Ids) /\ completed \in Seq(Ids)
          /\ logged \in Seq(Ids) /\ shown \in Seq(Ids)
      BY <3>1 DEF Init
    <3>4. at \in MainStep /\ audio \in AudioStep /\ printed \in Nat
      BY DEF Init, MainStep, AudioStep
    <3> QED
      BY <3>2, <3>3, <3>4 DEF Init, TypeOK
  <2>2. Init => Threads /\ Streams
    BY DEF Init, Threads, Streams, AfterStop, InGetAudio, InMutex, Level
  <2>3. Init => Stations /\ Listeners /\ Accounts /\ Log
    BY DEF Init, Stations, Listeners, Accounts, Log, LogKeepsUp, InTheMaking, Before
  <2> QED
    BY <2>1, <2>2, <2>3 DEF IInv
<1>2. IInv /\ [Next]_vars => IInv'
  BY TypeOKStep, ThreadsStep, StreamsStep, StationsStep, ListenersStep, AccountsStep, LogStep DEF IInv
<1> QED
  BY <1>1, <1>2, PTL DEF Spec

\* Every variable keeps to its type; in particular no handler returns to one
\* that has ended, and no contact is taken off an empty queue.
THEOREM TypeCorrect == Spec => []TypeOK
<1>1. IInv => TypeOK
  BY DEF IInv
<1> QED
  BY <1>1, Invariant, PTL

\* stop() may run in main(), in handlers and in handlers of handlers: the
\* audio thread never works on a deleted station.
THEOREM NoDeletedStationIsMixed == Spec => []AudioSeesLiveStations
<1>1. IInv => AudioSeesLiveStations
  BY DEF IInv, AudioSeesLiveStations, Streams, Stations, InGetAudio
<1> QED
  BY <1>1, Invariant, PTL

\* Whatever the main thread tells the stations, and however it is interrupted:
\* only after a signal is one of them deleted that it has still to tell.
THEOREM NobodyElseDeletes == Spec => []MainSeesLiveStations
<1>1. IInv => MainSeesLiveStations
  BY DEF IInv, MainSeesLiveStations, Listeners
<1> QED
  BY <1>1, Invariant, PTL

\* However early the log is closed, it is a prefix of the contacts, and the
\* whole of them while it is open.
THEOREM LogIsAPrefix == Spec => []LogKeepsUp
<1>1. IInv => LogKeepsUp
  BY DEF IInv, Log
<1> QED
  BY <1>1, Invariant, PTL

\* What was shown and the number printed at the end are all contacts, and all
\* stations that were queued for giving up.
THEOREM NoContactIsMissed == Spec => []StatisticsAddUp
<1>1. IInv => StatisticsAddUp
  BY DEF IInv, StatisticsAddUp, Accounts
<1> QED
  BY <1>1, Invariant, PTL

\* Whenever the signals come, a program that has ended has deleted all
\* stations, closed the stream and let go of audio_mutex.
THEOREM EndsClean == Spec => []CleanEnd
<1>1. IInv => CleanEnd
  BY DEF IInv, CleanEnd, Ended, TypeOK, Threads, Streams, AfterStop, Stations, InGetAudio, InMutex
<1> QED
  BY <1>1, Invariant, PTL

=============================================================================
