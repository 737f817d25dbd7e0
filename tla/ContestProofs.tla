--------------------------- MODULE ContestProofs ----------------------------
(***************************************************************************)
(* The invariants of module Contest, for any number of stations, any       *)
(* delays and transmission lengths, any texts and any judgement isMyCall   *)
(* may make of them; and from them what a step may do: every step is a     *)
(* step of QsoLog, or leaves what QsoLog sees alone; who hears another     *)
(* station called is in no contact afterwards; and who has given up for    *)
(* good does not come back.                                                *)
(*                                                                         *)
(* None of the invariants is inductive by itself.  IInv is: between two    *)
(* steps every station is Settled, that is Sound (module DxStationProofs), *)
(* with something left to play if it is sending, and marked for removal if *)
(* it is done.                                                             *)
(***************************************************************************)
EXTENDS Contest, DxStationProofs, SequenceTheorems, FiniteSetTheorems,
        WellFoundedInduction

-----------------------------------------------------------------------------
(***************************************************************************)
(* The station at the key stays within its type, whatever is typed, and    *)
(* what it is understood to say never contains both a number and a tu, nor *)
(* anything else that goes with a call.                                    *)
(***************************************************************************)
\* What a message with a call in it says.
WithCall == {{"hiscall"}, {"hiscall", "nr"}, {"hiscall", "tu"}}

\* No transmission both gives a number and confirms a contact, and only the
\* messages the DX operators know of are ever made out.
SaysNoMoreThan(msgs) ==
  /\ msgs \in SUBSET MeMessage
  /\ ~({"nr", "tu"} \subseteq msgs)
  /\ "hiscall" \in msgs => msgs \in WithCall

\* A station at the key that is in order.
MeFit(m) == m \in Me /\ SaysNoMoreThan(m.msgs)

-----------------------------------------------------------------------------

\* Every non-empty set of positions has a first one.
LEMMA FirstPosition ==
  ASSUME NEW T, T \subseteq Nat, T # {}
  PROVE  \E i \in T : \A j \in T : ~(j < i)
<1> DEFINE R == OpToRel(<, Nat)
<1>1. \E i \in T : \A j \in T : ~(<<j, i>> \in R)
  <2> HIDE DEF R
  <2>1. IsWellFoundedOn(R, Nat)
    BY NatLessThanWellFounded DEF R
  <2> QED
    BY <2>1, WFMin
<1>2. PICK i \in T : \A j \in T : ~(<<j, i>> \in R)
  BY <1>1
<1>3. ASSUME NEW j \in T
      PROVE  ~(j < i)
  <2>1. <<j, i>> \in Nat \X Nat /\ <<j, i>>[1] = j /\ <<j, i>>[2] = i
    OBVIOUS
  <2> QED
    BY <1>2, <2>1 DEF OpToRel
<1> QED
  BY <1>3

LEMMA BeforeType ==
  ASSUME NEW text \in Seq(STRING), NEW S, NEW pattern \in Seq(S), Has(text, pattern)
  PROVE  Before(text, pattern) \in Seq(STRING)
<1> DEFINE T == FoundAt(text, pattern)
           IsFirst(i) == \A j \in T : i <= j
<1>1. Len(text) \in Nat /\ Len(pattern) \in Nat
  BY LenProperties
<1>2. T \subseteq 1 .. Len(text) - Len(pattern) + 1 /\ T # {}
  BY DEF Has, FoundAt
<1>3. T \subseteq 1 .. Len(text) + 1 /\ T \subseteq Nat
  <2> HIDE DEF T
  <2> QED
    BY <1>1, <1>2
<1> HIDE DEF T
<1>4. \E i \in T : IsFirst(i)
  <2>1. PICK i \in T : \A j \in T : ~(j < i)
    BY <1>2, <1>3, FirstPosition
  <2> QED
    BY <1>3, <2>1
<1> DEFINE first == CHOOSE i \in T : IsFirst(i)
<1>5. first \in 1 .. Len(text) + 1
  <2>1. first \in T
    BY <1>4
  <2> QED
    BY <1>3, <2>1
<1>6. Before(text, pattern) = SubSeq(text, 1, first - 1)
  BY DEF Before, T
<1> HIDE DEF first
<1>7. \A i \in 1 .. first - 1 : text[i] \in STRING
  BY <1>1, <1>5, LenProperties
<1> QED
  BY <1>1, <1>5, <1>6, <1>7, SubSeqProperties

-----------------------------------------------------------------------------

LEMMA DetectType ==
  ASSUME NEW text
  PROVE  SaysNoMoreThan(Detect(text))
BY DEF Detect, SaysNoMoreThan, MeMessage, WithCall

LEMMA ShortSeqs ==
  ASSUME NEW S, NEW a \in S, NEW b \in S, NEW c \in S
  PROVE  <<a>> \in Seq(S) /\ <<a, b>> \in Seq(S) /\ <<a, b, c>> \in Seq(S)
OBVIOUS

\* What is taken for a call is a part of what has been sent.
LEMMA SentCallType ==
  ASSUME NEW text \in Seq(STRING), "hiscall" \in Detect(text)
  PROVE  SentCall(text) \in Seq(STRING)
<1> DEFINE S == {Blank, "5NN", "TU"}
<1>1. Exchange \in Seq(S) /\ Thanks \in Seq(S)
  BY ShortSeqs DEF Exchange, Thanks
<1> HIDE DEF S
<1>2. CASE "nr" \in Detect(text)
  <2>1. Has(text, Exchange)
    BY <1>2 DEF Detect
  <2> QED
    BY <1>1, <1>2, <2>1, BeforeType DEF SentCall
<1>3. CASE "nr" \notin Detect(text) /\ "tu" \in Detect(text)
  <2>1. Has(text, Thanks)
    BY <1>3 DEF Detect
  <2> QED
    BY <1>1, <1>3, <2>1, BeforeType DEF SentCall
<1>4. CASE "nr" \notin Detect(text) /\ "tu" \notin Detect(text)
  BY <1>4 DEF SentCall
<1> QED
  BY <1>2, <1>3, <1>4

LEMMA UnderstoodFit ==
  ASSUME NEW m \in Me, NEW text \in Seq(STRING)
  PROVE  /\ MeFit(Understood(m, text))
         /\ Understood(m, text).left = m.left
         /\ Understood(m, text).state = m.state
<1> DEFINE call == IF "hiscall" \in Detect(text) THEN SentCall(text) ELSE <<>>
<1>1. call \in Seq(STRING)
  BY SentCallType, EmptySeq
<1>2. SaysNoMoreThan(Detect(text)) /\ Detect(text) \in SUBSET MeMessage
  BY DetectType DEF SaysNoMoreThan
<1>3. Understood(m, text) =
        [m EXCEPT !.text = text, !.msgs = Detect(text), !.hiscall = call]
  BY DEF Understood
<1> HIDE DEF call
<1> QED
  BY <1>1, <1>2, <1>3 DEF Me, MeFit

-----------------------------------------------------------------------------
(* The operations of the station at the key keep it in order. *)

LEMMA NewMeFit == MeFit(NewMe)
BY EmptySeq DEF MeFit, NewMe, Me, SaysNoMoreThan

\* A second text keeps the station sending; a first one starts it.
LEMMA MeSendTextFit ==
  ASSUME NEW m, MeFit(m), NEW text \in Texts, NEW n \in MeSendText(m, text)
  PROVE  MeFit(n) /\ n.state = "sending"
<1>1. /\ m \in Me /\ text \in Seq(STRING) /\ m.left \in Nat
      /\ Continued(m.text, text) \in Seq(STRING)
      /\ MeLens \subseteq Nat
  <2>1. m.text \in Seq(STRING)
    BY DEF MeFit, Me
  <2>3. <<Blank>> \in Seq(STRING)
    BY MyStationAssumption, ShortSeqs
  <2>4. m.text \o <<Blank>> \in Seq(STRING)
    BY <2>1, <2>3, ConcatProperties
  <2> QED
    BY <2>4, MyStationAssumption, ConcatProperties DEF MeFit, Me, Continued
<1>2. CASE m.state = "sending"
  <2> DEFINE u == Understood(m, Continued(m.text, text))
  <2>1. PICK k \in MeLens : n = [u EXCEPT !.left = @ + k]
    BY <1>2 DEF MeSendText
  <2>2. MeFit(u) /\ u.left = m.left /\ u.state = "sending"
    BY <1>1, <1>2, UnderstoodFit
  <2>3. m.left + k \in Nat
    BY <1>1
  <2> HIDE DEF u
  <2>4. n \in Me /\ n.msgs = u.msgs /\ n.state = "sending"
    BY <2>1, <2>2, <2>3 DEF MeFit, Me
  <2> QED
    BY <2>2, <2>4 DEF MeFit
<1>3. CASE m.state # "sending"
  <2> DEFINE u == Understood(m, text)
  <2>1. PICK k \in MeLens : n = [u EXCEPT !.state = "sending", !.left = k]
    BY <1>3 DEF MeSendText
  <2>2. MeFit(u)
    BY <1>1, UnderstoodFit
  <2> HIDE DEF u
  <2> QED
    BY <1>1, <2>1, <2>2 DEF MeFit, Me
<1> QED
  BY <1>2, <1>3

LEMMA MeAbortFit ==
  ASSUME NEW m, MeFit(m)
  PROVE  /\ MeFit(MeAbort(m))
         /\ MeAbort(m).state = "listening" /\ MeAbort(m).msgs = {"nomsg"}
BY EmptySeq DEF MeFit, MeAbort, Me, SaysNoMoreThan, MeMessage

\* A buffer may end the message, it never starts one.
LEMMA MeBufferFit ==
  ASSUME NEW m, MeFit(m)
  PROVE  /\ MeFit(MeBuffer(m))
         /\ MeBuffer(m).state = "sending" => m.state = "sending"
<1>1. CASE m.state = "listening"
  BY <1>1 DEF MeBuffer
<1>2. CASE m.state # "listening" /\ m.left > 1
  BY <1>2 DEF MeBuffer, MeFit, Me
<1>3. CASE m.state # "listening" /\ ~(m.left > 1)
  BY <1>3, EmptySeq DEF MeBuffer, MeFit, Me
<1> QED
  BY <1>1, <1>2, <1>3

-----------------------------------------------------------------------------
(***************************************************************************)
(* The contest.                                                            *)
(***************************************************************************)

Settled(st) ==
  /\ Sound(st)
  /\ Playing(st)
  /\ IsDone(st) => st.state = "deleteme"

\* A station that keeps out of the way of the station at the key, or that may
\* not have noticed it.
Quiet(st) ==
  \/ st.late
  \/ st.state \in {"sending", "deleteme"}
  \/ st.timeout = NEVER

StationsFit(sts) ==
  /\ DOMAIN sts \subseteq Ids
  /\ sts \in [DOMAIN sts -> Station]
  /\ \A i \in DOMAIN sts : Settled(sts[i])

IInv ==
  /\ MeFit(me)
  /\ StationsFit(stations)
  /\ pending \in Nat
  /\ mpc \in MainStep
  /\ count \in Nat
  /\ qsoQueue \in Seq(QueueEntry)
  /\ PresentStationsStayQuiet

-----------------------------------------------------------------------------
(* What is computed for all stations at once. *)

\* A member of a product is a choice for every index.
LEMMA ProductChoices ==
  ASSUME NEW H, NEW f \in Product(H), NEW S,
         \A x \in DOMAIN H : H[x] \subseteq S
  PROVE  f \in [DOMAIN H -> S] /\ DOMAIN f = DOMAIN H
         /\ \A x \in DOMAIN H : f[x] \in H[x]
BY DEF Product

LEMMA QuietIsPresent ==
  PresentStationsStayQuiet <=>
    (me.state = "sending" => \A i \in DOMAIN stations : Quiet(stations[i]))
BY DEF PresentStationsStayQuiet, Quiet

\* Whatever is made of a word sent as a call, isMyCall has three answers.
LEMMA IsMyCallType ==
  ASSUME NEW call, NEW hiscall
  PROVE  IsMyCall(call, hiscall) \subseteq MyCallCorrect
BY ContestAssumption DEF IsMyCall, MyCallCorrect

LEMMA HearEndIsMeFinished ==
  ASSUME NEW st, NEW m, NEW s \in HearEnd(st, m)
  PROVE  \E isme \in MyCallCorrect : s \in OnMeFinished(st, m.msgs, isme)
BY IsMyCallType DEF HearEnd, MyCallCorrect

\* The entries for some stations are a sequence of entries.
LEMMA EntriesType ==
  ASSUME NEW sts, DOMAIN sts \subseteq Ids, sts \in [DOMAIN sts -> Station],
         NEW S \in SUBSET DOMAIN sts, NEW e \in Entries(sts, S)
  PROVE  e \in Seq(QueueEntry)
<1>1. Cardinality(S) \in Nat
  BY ContestAssumption, FS_Subset, FS_CardinalityType
<1>2. PICK order \in [1 .. Cardinality(S) -> S] :
        e = [k \in 1 .. Cardinality(S) |-> Entry(sts[order[k]])]
  BY DEF Entries
<1>3. \A i \in S : Entry(sts[i]) \in QueueEntry
  BY DEF Entry, QueueEntry, Station, IsDone
<1>4. e \in [1 .. Cardinality(S) -> QueueEntry]
  BY <1>2, <1>3
<1> QED
  BY <1>1, <1>4

-----------------------------------------------------------------------------
(* What the commands and the callback make of one station. *)

LEMMA StartedSettled ==
  ASSUME NEW st, Settled(st), NEW s \in OnMeStarted(st)
  PROVE  Settled(s) /\ Quiet(s) /\ s.call = st.call /\ (IsDone(s) <=> IsDone(st))
<1>1. IsDone(st) => s = st
  BY DoneIsFinal DEF OnMeStarted, IsDone
<1> QED
  BY <1>1, OnMeStartedSound DEF Settled, Quiet, IsDone

LEMMA AbortedSettled ==
  ASSUME NEW st, Settled(st), NEW m, m.msgs = {"nomsg"},
         NEW s \in HearEnd(st, m)
  PROVE  Settled(s) /\ s.call = st.call /\ (IsDone(s) <=> IsDone(st))
<1>1. PICK isme \in MyCallCorrect : s \in OnMeFinished(st, {"nomsg"}, isme)
  BY HearEndIsMeFinished
<1>2. Sound(s) /\ (s.state = "sending" => s = st) /\ s.call = st.call
  BY <1>1, OnMeFinishedSound DEF Settled
<1>3. IsDone(s) => s = st
  BY <1>1, GarbageEndsNothing DEF Settled, IsDone
<1>4. IsDone(st) => s = st
  BY <1>1, DoneIsFinal DEF OnMeFinished, IsDone
<1> QED
  BY <1>2, <1>3, <1>4 DEF Settled, Playing

\* A station that has just been created.
LEMMA BornSettled ==
  ASSUME NEW call \in Calls, NEW late \in BOOLEAN, NEW m, MeFit(m),
         NEW s \in HearEnd(NewStation(call, late), m)
  PROVE  Settled(s) /\ s.late = late /\ s.call = call /\ ~IsDone(s)
<1> DEFINE st == NewStation(call, late)
<1>1. PICK isme \in MyCallCorrect : s \in OnMeFinished(st, m.msgs, isme)
  BY HearEndIsMeFinished
<1>2. Newborn(st)
  BY NewStationIsNewborn
<1>3. ~({"nr", "tu"} \subseteq m.msgs)
  BY DEF MeFit, SaysNoMoreThan
<1>4. st.late = late /\ st.call = call /\ st.state # "sending"
  BY DEF NewStation
<1> HIDE DEF st
<1>5. Sound(s) /\ s.late = late /\ s.call = call /\ s.state # "sending"
  BY <1>1, <1>2, <1>4, OnMeFinishedSound
<1>6. ~IsDone(s)
  BY <1>1, <1>2, <1>3, NewbornIsNotDone DEF IsDone
<1> QED
  BY <1>5, <1>6 DEF Settled, Playing

\* One buffer of a station that stays, up to the QSO check.
LEMMA BufferSound ==
  ASSUME NEW st, Settled(st), st.state # "deleteme", NEW finished \in BOOLEAN,
         NEW m, NEW s \in StationBuffer(st, finished, m)
  PROVE  /\ Sound(s) /\ Playing(s) /\ s.call = st.call
         /\ IsDone(s) => s.state # "sending"
         /\ ~finished /\ m.state = "sending" /\ Quiet(st) => Quiet(s)
<1> DEFINE g == GetBuffer(st)
           cqSending == m.state = "sending"
<1>1. PICK h \in (IF finished THEN HearEnd(g, m) ELSE {g}) :
        s \in Tick(h, cqSending)
  BY DEF StationBuffer
<1>2. /\ Sound(g) /\ g.state = st.state /\ g.timeout = st.timeout
      /\ g.oper = st.oper /\ g.late = st.late /\ g.call = st.call
  BY GetBufferSound DEF Settled
<1>3. ~IsDone(g)
  BY <1>2 DEF Settled, IsDone
<1> HIDE DEF g
<1>4. Sound(h) /\ (IsDone(h) => h.state # "sending") /\ h.call = g.call
  <2>1. CASE finished
    BY <1>1, <1>2, <1>3, <2>1, HearEndIsMeFinished, OnMeFinishedSound
  <2>2. CASE ~finished
    BY <1>1, <1>2, <1>3, <2>2
  <2> QED
    BY <2>1, <2>2
<1>5. Sound(s) /\ Playing(s) /\ s.late = h.late /\ s.call = h.call
  BY <1>1, <1>4, TickSound
<1>6. IsDone(s) => s.state # "sending"
  BY <1>1, <1>4, TickEndsNothing, TickDoneIsOffAir DEF IsDone
<1>7. ASSUME ~finished, m.state = "sending", Quiet(st)
      PROVE  Quiet(s)
  <2>1. h = g /\ s \in Tick(h, TRUE)
    BY <1>1, <1>7
  <2>2. h.late \/ h.state = "sending" \/ h.timeout = NEVER
    BY <1>2, <1>7, <2>1 DEF Quiet
  <2> QED
    BY <1>4, <1>5, <2>1, <2>2, TickWaits DEF Quiet, IsDone
<1> QED
  BY <1>2, <1>4, <1>5, <1>6, <1>7

LEMMA CheckedSettled ==
  ASSUME NEW st, Sound(st), Playing(st), IsDone(st) => st.state # "sending"
  PROVE  Settled(QsoCheck(st))
<1>1. CASE ~IsDone(st)
  BY <1>1 DEF QsoCheck, Settled
<1>2. CASE IsDone(st)
  <2> DEFINE s == [st EXCEPT !.state = "deleteme"]
  <2>1. /\ s \in Station /\ s.oper = st.oper /\ s.heard = st.heard
        /\ s.msg = st.msg /\ s.state = "deleteme"
    BY DEF Sound, Station, StationState
  <2>2. QsoCheck(st) = s
    BY <1>2 DEF QsoCheck, DataToLastQso
  <2> HIDE DEF s
  <2> QED
    BY <1>2, <2>1, <2>2
       DEF Settled, Sound, FairOnAir, Retiring, Playing, IsDone
<1> QED
  BY <1>1, <1>2

-----------------------------------------------------------------------------
(* The inductive invariant. *)

LEMMA InitInvariant == Init => IInv
<1> SUFFICES ASSUME Init PROVE IInv
  OBVIOUS
<1>1. StationsFit(stations)
  BY DEF Init, StationsFit
<1>2. MeFit(me)
  BY NewMeFit DEF Init
<1> QED
  BY <1>1, <1>2, EmptySeq
     DEF Init, IInv, MainStep, PresentStationsStayQuiet, NewMe

\* Every station goes its own way, and each way is in order.
LEMMA ProductFits ==
  ASSUME NEW H, DOMAIN H \subseteq Ids, NEW f \in Product(H),
         \A i \in DOMAIN H : \A s \in H[i] : Settled(s)
  PROVE  StationsFit(f) /\ DOMAIN f = DOMAIN H
         /\ \A i \in DOMAIN H : f[i] \in H[i]
<1>1. \A i \in DOMAIN H : H[i] \subseteq Station
  BY DEF Settled, Sound
<1> QED
  BY <1>1, ProductChoices DEF StationsFit

LEMMA SendTextInvariant ==
  ASSUME IInv, NEW text \in Texts, SendText(text)
  PROVE  IInv'
<1>1. MeFit(me)' /\ me'.state = "sending"
  BY MeSendTextFit DEF IInv, SendText
<1>2. CASE me.state = "sending"
  <2>1. stations' = stations
    BY <1>2 DEF SendText
  <2> QED
    BY <1>1, <1>2, <2>1 DEF IInv, SendText, PresentStationsStayQuiet
<1>3. CASE me.state # "sending"
  <2> DEFINE H == [i \in DOMAIN stations |-> OnMeStarted(stations[i])]
  <2>1. stations' \in Product(H) /\ DOMAIN H \subseteq Ids
    BY <1>3 DEF SendText, IInv, StationsFit
  <2>2. \A i \in DOMAIN H : \A s \in H[i] : Settled(s) /\ Quiet(s)
    BY StartedSettled DEF IInv, StationsFit
  <2> HIDE DEF H
  <2>3. StationsFit(stations') /\ \A i \in DOMAIN stations' : Quiet(stations'[i])
    BY <2>1, <2>2, ProductFits
  <2>4. PresentStationsStayQuiet'
    BY <2>3 DEF PresentStationsStayQuiet, Quiet
  <2> QED
    BY <1>1, <2>3, <2>4 DEF IInv, SendText
<1> QED
  BY <1>2, <1>3

LEMMA AbortSendInvariant ==
  ASSUME IInv, AbortSend
  PROVE  IInv'
<1>1. MeFit(me)' /\ me'.state = "listening" /\ me'.msgs = {"nomsg"}
  BY MeAbortFit DEF IInv, AbortSend
<1> DEFINE H == [i \in DOMAIN stations |-> HearEnd(stations[i], me')]
<1>2. stations' \in Product(H) /\ DOMAIN H \subseteq Ids
  BY DEF AbortSend, IInv, StationsFit
<1>3. \A i \in DOMAIN H : \A s \in H[i] : Settled(s)
  BY <1>1, AbortedSettled DEF IInv, StationsFit
<1> HIDE DEF H
<1>4. StationsFit(stations')
  BY <1>2, <1>3, ProductFits
<1> QED
  BY <1>1, <1>4 DEF IInv, AbortSend, PresentStationsStayQuiet

LEMMA GetAudioInvariant ==
  ASSUME IInv, GetAudio
  PROVE  IInv'
<1> DEFINE finished == me.state = "sending" /\ me'.state = "listening"
           staying  == DOMAIN stations \ Leaving
           H == [i \in staying |-> StationBuffer(stations[i], finished, me')]
           done(sts) == {i \in staying : IsDone(sts[i])}
<1>1. PICK sts \in Product(H) :
        /\ stations' = [i \in staying |-> QsoCheck(sts[i])]
        /\ \E gone \in Entries(stations, QsyEntries),
              worked \in Entries(sts, done(sts)) :
             qsoQueue' = qsoQueue \o gone \o worked
        /\ pending' \in IF Single /\ DxCount(sts) = 0 THEN {1}
                        ELSE NewCallers(finished, me')
  BY DEF GetAudio
<1>2. MeFit(me)' /\ (me'.state = "sending" => me.state = "sending" /\ ~finished)
  BY MeBufferFit DEF IInv, GetAudio
<1>3. DOMAIN H = staying /\ staying \subseteq Ids /\ staying \subseteq DOMAIN stations
  BY DEF IInv, StationsFit
<1>4. ASSUME NEW i \in staying
      PROVE  /\ Sound(sts[i]) /\ Playing(sts[i])
             /\ IsDone(sts[i]) => sts[i].state # "sending"
             /\ me'.state = "sending" => Quiet(sts[i])
  <2>1. sts[i] \in StationBuffer(stations[i], finished, me')
    BY <1>3 DEF Product
  <2>2. Settled(stations[i]) /\ stations[i].state # "deleteme"
    BY <1>3 DEF IInv, StationsFit, Leaving
  <2>3. me'.state = "sending" => Quiet(stations[i])
    BY <1>2, <1>3, QuietIsPresent DEF IInv
  <2>4. finished \in BOOLEAN
    OBVIOUS
  <2> HIDE DEF finished
  <2> QED
    BY <1>2, <2>1, <2>2, <2>3, <2>4, BufferSound
<1>5. StationsFit(stations')
  <2>1. \A i \in staying : Settled(QsoCheck(sts[i]))
    BY <1>4, CheckedSettled
  <2>2. DOMAIN stations' = staying
        /\ \A i \in staying : stations'[i] = QsoCheck(sts[i])
    BY <1>1
  <2>3. stations' \in [staying -> Station]
    BY <1>1, <2>1 DEF Settled, Sound
  <2> QED
    BY <1>3, <2>1, <2>2, <2>3 DEF StationsFit
<1>6. PresentStationsStayQuiet'
  <2>1. ASSUME me'.state = "sending", NEW i \in staying
        PROVE  Quiet(QsoCheck(sts[i]))
    <3>1. Quiet(sts[i]) /\ sts[i] \in Station
      BY <1>4, <2>1 DEF Sound
    <3> QED
      BY <3>1 DEF QsoCheck, DataToLastQso, Quiet, Station
  <2> QED
    BY <1>1, <2>1 DEF PresentStationsStayQuiet, Quiet
<1>7. qsoQueue' \in Seq(QueueEntry)
  <2>1. PICK gone \in Entries(stations, QsyEntries),
             worked \in Entries(sts, done(sts)) :
          qsoQueue' = qsoQueue \o gone \o worked
    BY <1>1
  <2>2. QsyEntries \in SUBSET DOMAIN stations
    BY DEF QsyEntries, Leaving
  <2>3. gone \in Seq(QueueEntry)
    BY <2>2, EntriesType DEF IInv, StationsFit
  <2>4. sts \in [staying -> Station] /\ DOMAIN sts = staying
    BY <1>3, <1>4 DEF Product, Sound
  <2>5. worked \in Seq(QueueEntry)
    BY <1>3, <2>4, EntriesType
  <2>6. qsoQueue \o gone \in Seq(QueueEntry)
    BY <2>3, ConcatProperties DEF IInv
  <2> QED
    BY <2>1, <2>5, <2>6, ConcatProperties
<1>8. pending' \in Nat
  BY <1>1 DEF NewCallers, IInv
<1> QED
  BY <1>2, <1>5, <1>6, <1>7, <1>8 DEF IInv, GetAudio

LEMMA CreateStationsInvariant ==
  ASSUME IInv, CreateStations
  PROVE  IInv'
<1> DEFINE late == me.state = "sending"
<1>0. PICK new \in SUBSET (Ids \ DOMAIN stations) : \E call \in [new -> Calls] :
        \E born \in Product([i \in new |->
               HearEnd(NewStation(call[i], late), me)]) :
          stations' = [i \in DOMAIN stations \cup new |->
                         IF i \in new THEN born[i] ELSE stations[i]]
  BY DEF CreateStations
<1>1. PICK call \in [new -> Calls] :
        \E born \in Product([i \in new |->
               HearEnd(NewStation(call[i], late), me)]) :
          stations' = [i \in DOMAIN stations \cup new |->
                         IF i \in new THEN born[i] ELSE stations[i]]
  BY <1>0
<1> DEFINE H == [i \in new |-> HearEnd(NewStation(call[i], late), me)]
<1>2. PICK born \in Product(H) :
        stations' = [i \in DOMAIN stations \cup new |->
                       IF i \in new THEN born[i] ELSE stations[i]]
  BY <1>1
<1>3. \A i \in new : Settled(born[i]) /\ born[i].late = late
  <2>1. \A i \in new : born[i] \in HearEnd(NewStation(call[i], late), me)
    BY DEF Product
  <2>2. late \in BOOLEAN /\ MeFit(me) /\ \A i \in new : call[i] \in Calls
    BY <1>1 DEF IInv
  <2> HIDE DEF late
  <2> QED
    BY <2>1, <2>2, BornSettled
<1>4. StationsFit(stations')
  <2>1. \A i \in DOMAIN stations \cup new : Settled(stations'[i])
    BY <1>2, <1>3 DEF IInv, StationsFit
  <2>2. stations' \in [DOMAIN stations \cup new -> Station]
    BY <1>2, <1>3 DEF IInv, StationsFit, Settled, Sound
  <2> QED
    BY <2>1, <2>2 DEF IInv, StationsFit
<1>5. PresentStationsStayQuiet'
  BY <1>2, <1>3 DEF IInv, PresentStationsStayQuiet, CreateStations
<1> QED
  BY <1>4, <1>5 DEF IInv, CreateStations, MainStep

LEMMA NextInvariant == IInv /\ [Next]_vars => IInv'
<1> SUFFICES ASSUME IInv, [Next]_vars PROVE IInv'
  OBVIOUS
<1>1. CASE Command
  BY <1>1, SendTextInvariant, AbortSendInvariant DEF Command
<1>2. CASE GetAudio
  BY <1>2, GetAudioInvariant
<1>3. CASE CreateStations
  BY <1>3, CreateStationsInvariant
<1>4. CASE PopQso
  BY <1>4, HeadTailProperties DEF PopQso, IInv, PresentStationsStayQuiet
<1>5. CASE LoadPending \/ StorePending \/ EndLoop
  BY <1>5 DEF LoadPending, StorePending, EndLoop, IInv, MainStep,
              PresentStationsStayQuiet
<1>6. CASE UNCHANGED vars
  BY <1>6 DEF vars, IInv, PresentStationsStayQuiet
<1> QED
  BY <1>1, <1>2, <1>3, <1>4, <1>5, <1>6 DEF Next, MainLoop

\* The inductive invariant holds in every state the program can reach.
THEOREM Invariant == Spec => []IInv
BY InitInvariant, NextInvariant, PTL DEF Spec

-----------------------------------------------------------------------------

\* The state of the contest keeps its type.
THEOREM TypeCorrect == Spec => []TypeOK
<1>1. IInv => TypeOK
  BY DEF IInv, StationsFit, MeFit, TypeOK
<1> QED
  BY <1>1, Invariant, PTL

\* Nobody comes to the end of a contact, or is worked, without having heard
\* its own call and then a number.
THEOREM NoContactWithoutExchange == Spec => []QsoNeedsCallAndNumber
<1>1. IInv => QsoNeedsCallAndNumber
  BY DEF IInv, StationsFit, Settled, Sound, Justified, QsoNeedsCallAndNumber,
         Oper
<1> QED
  BY <1>1, Invariant, PTL

\* Nobody gives its number away before it has been given one.
THEOREM NoReportWithoutNumber == Spec => []ReportOnlyAfterNumber
<1>1. IInv => ReportOnlyAfterNumber
  BY DEF IInv, StationsFit, Settled, Sound, FairOnAir, Reports,
         ReportOnlyAfterNumber
<1> QED
  BY <1>1, Invariant, PTL

\* Who has not failed has patience left; who has failed is on his way out or
\* was put back to copying.
THEOREM PatienceAgrees == Spec => []PatienceAndStateAgree
<1>1. IInv => PatienceAndStateAgree
  BY DEF IInv, StationsFit, Settled, Sound, Patient, Retiring,
         PatienceAndStateAgree, Oper
<1> QED
  BY <1>1, Invariant, PTL

\* Whenever a callback or a command begins, every worked station is marked
\* already: the QSO check cannot find it again.
THEOREM WorkedStationsAreMarked == Spec => []WorkedIsMarked
<1>1. IInv => WorkedIsMarked
  BY DEF IInv, StationsFit, Settled, IsDone, WorkedIsMarked, Oper
<1> QED
  BY <1>1, Invariant, PTL

\* While the station at the key is sending, nobody who has noticed it is
\* waiting to answer.
THEOREM NobodyWaitsToAnswer == Spec => []PresentStationsStayQuiet
BY Invariant, PTL DEF IInv

-----------------------------------------------------------------------------
(***************************************************************************)
(* Single mode: the hand-over of a request between the threads.  There is  *)
(* at most one request, and the main loop holds a number only between      *)
(* reading it and creating the stations.                                   *)
(***************************************************************************)
Active(sts) == {i \in DOMAIN sts : ~IsDone(sts[i])}

SingleInv ==
  Single => /\ pending \in {0, 1}
            /\ count \in {0, 1}
            /\ mpc \in {"poll", "drain"} => count = 0
            /\ DxCount(stations) + StillToCome <= 2

\* The number of active stations grows at most by the newcomers.
LEMMA DxCountBound ==
  ASSUME NEW s, NEW t, DOMAIN s \subseteq Ids, NEW N \in SUBSET Ids,
         Active(t) \subseteq Active(s) \cup N
  PROVE  /\ DxCount(s) \in Nat /\ DxCount(t) \in Nat /\ Cardinality(N) \in Nat
         /\ DxCount(t) <= DxCount(s) + Cardinality(N)
<1> DEFINE S == Active(s)
           T == Active(t)
<1>1. IsFiniteSet(S) /\ IsFiniteSet(N)
  BY ContestAssumption, FS_Subset DEF Active
<1>2. IsFiniteSet(S \cup N) /\ IsFiniteSet(S \cap N)
      /\ Cardinality(S \cup N) = Cardinality(S) + Cardinality(N) - Cardinality(S \cap N)
  <2> HIDE DEF S
  <2> QED
    BY <1>1, FS_Union, FS_Intersection
<1>3. IsFiniteSet(T) /\ Cardinality(T) <= Cardinality(S \cup N)
  <2>1. T \in SUBSET (S \cup N)
    OBVIOUS
  <2> HIDE DEF S, T
  <2> QED
    BY <1>2, <2>1, FS_Subset
<1>4. DxCount(s) = Cardinality(S) /\ DxCount(t) = Cardinality(T)
  BY DEF DxCount, Active
<1> HIDE DEF S, T
<1>5. Cardinality(S) \in Nat /\ Cardinality(T) \in Nat /\ Cardinality(N) \in Nat
      /\ Cardinality(S \cap N) \in Nat
  BY <1>1, <1>2, <1>3, FS_CardinalityType
<1> QED
  BY <1>2, <1>3, <1>4, <1>5

\* Nobody new is active after a step that creates no station.
LEMMA NobodyNew ==
  ASSUME NEW s, NEW t, DOMAIN s \subseteq Ids, Active(t) \subseteq Active(s)
  PROVE  DxCount(s) \in Nat /\ DxCount(t) \in Nat /\ DxCount(t) <= DxCount(s)
<1>1. DxCount(s) \in Nat /\ DxCount(t) \in Nat
      /\ DxCount(t) <= DxCount(s) + Cardinality({})
  <2>1. {} \in SUBSET Ids /\ Active(t) \subseteq Active(s) \cup {}
    OBVIOUS
  <2> QED
    BY <2>1, DxCountBound
<1>2. Cardinality({}) = 0
  BY FS_EmptySet
<1> QED
  BY <1>1, <1>2

LEMMA HearEndKeepsDone ==
  ASSUME NEW st, IsDone(st), NEW m, NEW s \in HearEnd(st, m)
  PROVE  s = st
<1>1. PICK isme \in MyCallCorrect : s \in OnMeFinished(st, m.msgs, isme)
  BY HearEndIsMeFinished
<1>2. PICK out : s \in ProcessEvent(st, out)
  BY <1>1 DEF OnMeFinished
<1> QED
  BY <1>2, DoneIsFinal DEF IsDone

\* A command never makes a worked station active again.
LEMMA CommandKeepsDone ==
  ASSUME IInv, Command
  PROVE  Active(stations') \subseteq Active(stations)
<1>1. ASSUME NEW text \in Texts, SendText(text)
      PROVE  Active(stations') \subseteq Active(stations)
  <2>1. CASE stations' = stations
    BY <2>1
  <2>2. CASE stations' \in
               Product([i \in DOMAIN stations |-> OnMeStarted(stations[i])])
    <3>1. DOMAIN stations' = DOMAIN stations
          /\ \A i \in DOMAIN stations : stations'[i] \in OnMeStarted(stations[i])
      BY <2>2 DEF Product
    <3>2. \A i \in DOMAIN stations : IsDone(stations[i]) => stations'[i] = stations[i]
      BY <3>1, DoneIsFinal DEF OnMeStarted, IsDone
    <3> QED
      BY <3>1, <3>2 DEF Active
  <2> QED
    BY <1>1, <2>1, <2>2 DEF SendText
<1>2. ASSUME AbortSend
      PROVE  Active(stations') \subseteq Active(stations)
  <2>1. stations' \in Product([i \in DOMAIN stations |-> HearEnd(stations[i], me')])
    BY <1>2 DEF AbortSend
  <2>2. DOMAIN stations' = DOMAIN stations
        /\ \A i \in DOMAIN stations : stations'[i] \in HearEnd(stations[i], me')
    BY <2>1 DEF Product
  <2>3. \A i \in DOMAIN stations : IsDone(stations[i]) => stations'[i] = stations[i]
    BY <2>2, HearEndKeepsDone
  <2> QED
    BY <2>2, <2>3 DEF Active
<1> QED
  BY <1>1, <1>2 DEF Command

LEMMA CommandSingle ==
  ASSUME IInv, SingleInv, Single, Command
  PROVE  SingleInv'
<1>1. UNCHANGED <<pending, mpc, count>>
  BY DEF Command, SendText, AbortSend
<1>2. /\ DxCount(stations) \in Nat /\ DxCount(stations') \in Nat
      /\ DxCount(stations') <= DxCount(stations)
  BY CommandKeepsDone, NobodyNew DEF IInv, StationsFit
<1>3. DxCount(stations)' = DxCount(stations')
  BY DEF DxCount, IsDone
<1>4. StillToCome' = StillToCome /\ StillToCome \in Nat
  BY <1>1 DEF StillToCome, IInv
<1> HIDE DEF DxCount
<1> QED
  BY <1>1, <1>2, <1>3, <1>4 DEF SingleInv

LEMMA GetAudioSingle ==
  ASSUME IInv, SingleInv, Single, GetAudio
  PROVE  SingleInv'
<1> DEFINE finished == me.state = "sending" /\ me'.state = "listening"
           staying  == DOMAIN stations \ Leaving
           H == [i \in staying |-> StationBuffer(stations[i], finished, me')]
<1>1. PICK sts \in Product(H) :
        /\ stations' = [i \in staying |-> QsoCheck(sts[i])]
        /\ pending' \in IF Single /\ DxCount(sts) = 0 THEN {1}
                        ELSE NewCallers(finished, me')
  BY DEF GetAudio
<1>2. DOMAIN sts = staying /\ DOMAIN stations' = staying
  BY <1>1 DEF Product
<1>3. \A i \in staying : IsDone(stations'[i]) = IsDone(sts[i])
  <2>1. ASSUME NEW i \in staying
        PROVE  sts[i] \in Station
    <3>1. sts[i] \in StationBuffer(stations[i], finished, me')
      BY <1>2 DEF Product
    <3>2. Settled(stations[i]) /\ stations[i].state # "deleteme"
      BY DEF IInv, StationsFit, Leaving
    <3>3. finished \in BOOLEAN
      OBVIOUS
    <3> HIDE DEF finished
    <3> QED
      BY <3>1, <3>2, <3>3, BufferSound DEF Sound
  <2> QED
    BY <1>1, <2>1 DEF QsoCheck, DataToLastQso, IsDone, Station
<1>4. Active(stations') = Active(sts)
  BY <1>2, <1>3 DEF Active
<1>5. Active(stations') \subseteq Active(stations)
  <2>1. \A i \in staying : ~IsDone(stations[i])
    BY DEF IInv, StationsFit, Settled, Leaving
  <2> QED
    BY <1>2, <2>1 DEF Active
<1>6. /\ DxCount(stations) \in Nat /\ DxCount(stations') \in Nat
      /\ DxCount(stations') <= DxCount(stations)
  BY <1>5, NobodyNew DEF IInv, StationsFit
<1>7. DxCount(stations') = DxCount(sts) /\ DxCount(stations)' = DxCount(stations')
  BY <1>4 DEF DxCount, Active, IsDone
<1>8. (pending' = 1 /\ DxCount(sts) = 0) \/ pending' = pending
  BY <1>1 DEF NewCallers
<1>9. UNCHANGED <<mpc, count>>
  BY DEF GetAudio
<1>10. pending \in Nat /\ count \in {0, 1}
  BY DEF IInv, SingleInv
<1> HIDE DEF DxCount
<1> QED
  BY <1>6, <1>7, <1>8, <1>9, <1>10 DEF SingleInv, StillToCome

LEMMA CreateStationsSingle ==
  ASSUME IInv, SingleInv, Single, CreateStations
  PROVE  SingleInv'
<1>1. PICK new \in SUBSET (Ids \ DOMAIN stations) :
        /\ Cardinality(new) = count
        /\ \E f : stations' = [i \in DOMAIN stations \cup new |->
                               IF i \in new THEN f[i] ELSE stations[i]]
  BY DEF CreateStations
<1>2. Active(stations') \subseteq Active(stations) \cup new
  BY <1>1 DEF Active
<1>3. new \in SUBSET Ids
  BY <1>1
<1>4. /\ DxCount(stations) \in Nat /\ DxCount(stations') \in Nat
      /\ DxCount(stations') <= DxCount(stations) + count
  BY <1>1, <1>2, <1>3, DxCountBound DEF IInv, StationsFit
<1>5. DxCount(stations)' = DxCount(stations')
  BY DEF DxCount, IsDone
<1>6. mpc = "create" /\ mpc' = "drain" /\ count' = 0 /\ pending' = pending
      /\ pending \in Nat /\ count \in Nat
  BY DEF CreateStations, IInv
<1> HIDE DEF DxCount
<1> QED
  BY <1>4, <1>5, <1>6 DEF SingleInv, StillToCome

LEMMA NextSingle == IInv /\ SingleInv /\ [Next]_vars => SingleInv'
<1> SUFFICES ASSUME IInv, SingleInv, [Next]_vars, Single PROVE SingleInv'
  BY DEF SingleInv
<1>1. CASE Command
  BY <1>1, CommandSingle
<1>2. CASE GetAudio
  BY <1>2, GetAudioSingle
<1>3. CASE CreateStations
  BY <1>3, CreateStationsSingle
<1>4. CASE \/ LoadPending \/ StorePending \/ PopQso \/ EndLoop
           \/ UNCHANGED vars
  <2>1. DxCount(stations)' = DxCount(stations)
    BY <1>4 DEF LoadPending, StorePending, PopQso, EndLoop, vars, DxCount, IsDone
  <2>2. DxCount(stations) \in Nat
    BY NobodyNew DEF IInv, StationsFit
  <2> HIDE DEF DxCount
  <2>3. CASE LoadPending
    BY <2>1, <2>2, <2>3 DEF LoadPending, SingleInv, StillToCome, IInv
  <2>4. CASE StorePending
    BY <2>1, <2>2, <2>4 DEF StorePending, SingleInv, StillToCome, IInv
  <2>5. CASE PopQso \/ EndLoop \/ UNCHANGED vars
    BY <2>1, <2>5 DEF PopQso, EndLoop, vars, SingleInv, StillToCome
  <2> QED
    BY <1>4, <2>3, <2>4, <2>5
<1> QED
  BY <1>1, <1>2, <1>3, <1>4 DEF Next, MainLoop

\* However the two threads interleave, single mode never has more than two
\* stations on the band or on their way to it.
THEOREM NeverMoreThanTwo == Spec => []AtMostTwoInSingleMode
<1>1. Init => SingleInv
  <2>1. {i \in DOMAIN <<>> : ~IsDone(<<>>[i])} = {}
    OBVIOUS
  <2> QED
    BY <2>1, FS_EmptySet DEF Init, SingleInv, DxCount, StillToCome
<1>2. SingleInv => AtMostTwoInSingleMode
  BY DEF SingleInv, AtMostTwoInSingleMode
<1> QED
  BY <1>1, <1>2, NextSingle, Invariant, PTL DEF Spec

-----------------------------------------------------------------------------
(***************************************************************************)
(* The contest implements QsoLog.                                          *)
(***************************************************************************)

\* The stations as QsoLog sees them: the refinement mapping.
Band(sts) == [i \in DOMAIN sts |-> Entry(sts[i])]

\* The same stations, and each of them worked or not as before.
NobodyWorked(s, t) ==
  /\ DOMAIN t = DOMAIN s
  /\ \A i \in DOMAIN s :
       t[i].call = s[i].call /\ (IsDone(t[i]) <=> IsDone(s[i]))

LEMMA BandKept ==
  ASSUME NEW s, NEW t, NobodyWorked(s, t)
  PROVE  Band(t) = Band(s)
<1>1. \A i \in DOMAIN s : Entry(t[i]) = Entry(s[i])
  BY DEF Entry, IsDone, NobodyWorked
<1> QED
  BY <1>1 DEF Band, NobodyWorked

\* The parts of a list that has been appended to twice.
LEMMA AppendedTwice ==
  ASSUME NEW q \in Seq(QueueEntry), NEW g \in Seq(QueueEntry),
         NEW w \in Seq(QueueEntry), NEW t, t = q \o g \o w
  PROVE  /\ Len(t) = Len(q) + Len(g) + Len(w)
         /\ SubSeq(t, 1, Len(q)) = q
         /\ SubSeq(t, Len(q) + 1, Len(q) + Len(g)) = g
         /\ SubSeq(t, Len(q) + Len(g) + 1, Len(t)) = w
OBVIOUS

LEMMA SameCardinality ==
  ASSUME NEW S
  PROVE  QLog!Cardinality(S) = Cardinality(S)
BY DEF QLog!Cardinality, Cardinality

\* What getAudio appends to the queue lists each of the stations once.
LEMMA EntriesListStations ==
  ASSUME NEW sts, NEW S \in SUBSET DOMAIN sts, NEW e \in Entries(sts, S),
         NEW b, \A i \in S : b[i] = Entry(sts[i])
  PROVE  QLog!ListsOf(e, b, S)
<1>1. PICK order \in [1 .. Cardinality(S) -> S] :
        /\ \A i \in S : \E k \in DOMAIN order : order[k] = i
        /\ e = [k \in 1 .. Cardinality(S) |-> Entry(sts[order[k]])]
  BY DEF Entries
<1>2. S = {order[k] : k \in DOMAIN order}
  BY <1>1
<1>3. e = [k \in DOMAIN order |-> b[order[k]]]
  BY <1>1
<1> QED
  BY <1>1, <1>2, <1>3, SameCardinality DEF QLog!ListsOf

\* The length of what is appended.
LEMMA EntriesLength ==
  ASSUME NEW sts, DOMAIN sts \subseteq Ids, NEW S \in SUBSET DOMAIN sts,
         NEW e \in Entries(sts, S), e \in Seq(QueueEntry)
  PROVE  Len(e) = QLog!Cardinality(S)
<1>1. Cardinality(S) \in Nat
  BY ContestAssumption, FS_Subset, FS_CardinalityType
<1>2. DOMAIN e = 1 .. Cardinality(S)
  BY DEF Entries
<1> QED
  BY <1>1, <1>2, SameCardinality, LenProperties

-----------------------------------------------------------------------------
(* The steps of the contest, as QsoLog sees them. *)

LEMMA InitRefines == Init => QLog!Init
BY DEF Init, QLog!Init

\* A command completes no contact and changes nobody's call.
LEMMA CommandRefines ==
  ASSUME IInv, Command
  PROVE  UNCHANGED QLog!vars
<1>1. NobodyWorked(stations, stations')
  <2>1. ASSUME NEW text \in Texts, SendText(text)
        PROVE  NobodyWorked(stations, stations')
    <3>1. CASE stations' = stations
      BY <3>1 DEF NobodyWorked
    <3>2. CASE stations' \in
                 Product([i \in DOMAIN stations |-> OnMeStarted(stations[i])])
      <4>1. DOMAIN stations' = DOMAIN stations
            /\ \A i \in DOMAIN stations :
                  stations'[i] \in OnMeStarted(stations[i])
        BY <3>2 DEF Product
      <4> QED
        BY <4>1, StartedSettled DEF IInv, StationsFit, NobodyWorked
    <3> QED
      BY <2>1, <3>1, <3>2 DEF SendText
  <2>2. ASSUME AbortSend
        PROVE  NobodyWorked(stations, stations')
    <3>1. me'.msgs = {"nomsg"}
      BY <2>2, MeAbortFit DEF IInv, AbortSend
    <3>2. stations' \in
            Product([i \in DOMAIN stations |-> HearEnd(stations[i], me')])
      BY <2>2 DEF AbortSend
    <3>3. DOMAIN stations' = DOMAIN stations
          /\ \A i \in DOMAIN stations :
                stations'[i] \in HearEnd(stations[i], me')
      BY <3>2 DEF Product
    <3> QED
      BY <3>1, <3>3, AbortedSettled DEF IInv, StationsFit, NobodyWorked
  <2> QED
    BY <2>1, <2>2 DEF Command
<1>2. Band(stations') = Band(stations)
  BY <1>1, BandKept
<1>3. qsoQueue' = qsoQueue
  BY DEF Command, SendText, AbortSend
<1> QED
  BY <1>2, <1>3 DEF QLog!vars, Band

\* A station that stays keeps its call, and the QSO check finds in it what the
\* buffer has made of it.
LEMMA StayingEntry ==
  ASSUME NEW st, Settled(st), st.state # "deleteme", NEW finished \in BOOLEAN,
         NEW m, NEW s \in StationBuffer(st, finished, m)
  PROVE  /\ Entry(QsoCheck(s)) = Entry(s)
         /\ Entry(s) = [call |-> st.call, worked |-> IsDone(s)]
<1>1. s \in Station /\ s.call = st.call
  BY BufferSound DEF Sound
<1>2. QsoCheck(s).call = s.call /\ QsoCheck(s).oper = s.oper
  BY <1>1 DEF QsoCheck, DataToLastQso, Station
<1> QED
  BY <1>1, <1>2 DEF Entry, IsDone

\* A buffer of getAudio is a buffer of QsoLog: who was worked leaves, who is
\* worked now is listed, who leaves otherwise has given up.
LEMMA GetAudioRefines ==
  ASSUME IInv, GetAudio
  PROVE  QLog!Buffer
<1> DEFINE finished == me.state = "sending" /\ me'.state = "listening"
           staying  == DOMAIN stations \ Leaving
           H == [i \in staying |-> StationBuffer(stations[i], finished, me')]
           done(sts) == {i \in staying : IsDone(sts[i])}
           band == Band(stations)
           old  == {i \in DOMAIN band : band[i].worked}
           lost == Leaving \ old
<1>1. PICK sts \in Product(H) :
        /\ stations' = [i \in staying |-> QsoCheck(sts[i])]
        /\ \E gone \in Entries(stations, QsyEntries),
              worked \in Entries(sts, done(sts)) :
             qsoQueue' = qsoQueue \o gone \o worked
  BY DEF GetAudio
<1>2. PICK gone \in Entries(stations, QsyEntries),
           worked \in Entries(sts, done(sts)) :
        qsoQueue' = qsoQueue \o gone \o worked
  BY <1>1
<1> DEFINE new == done(sts)
<1>3. DOMAIN sts = staying
      /\ \A i \in staying : sts[i] \in StationBuffer(stations[i], finished, me')
  BY DEF Product
<1>4. ASSUME NEW i \in staying
      PROVE  /\ sts[i] \in Station
             /\ Entry(QsoCheck(sts[i])) = Entry(sts[i])
             /\ Entry(sts[i]) = [call |-> band[i].call, worked |-> i \in new]
  <2>1. Settled(stations[i]) /\ stations[i].state # "deleteme"
    BY DEF IInv, StationsFit, Leaving
  <2>2. finished \in BOOLEAN
    OBVIOUS
  <2>3. band[i].call = stations[i].call
    BY DEF Band, Entry
  <2>4. i \in new <=> IsDone(sts[i])
    OBVIOUS
  <2>5. sts[i] \in StationBuffer(stations[i], finished, me')
    BY <1>3
  <2> HIDE DEF finished, new
  <2>6. sts[i] \in Station
    BY <2>1, <2>2, <2>5, BufferSound DEF Sound
  <2>7. /\ Entry(QsoCheck(sts[i])) = Entry(sts[i])
        /\ Entry(sts[i]) =
             [call |-> stations[i].call, worked |-> IsDone(sts[i])]
    BY <2>1, <2>2, <2>5, StayingEntry
  <2>8. IsDone(sts[i]) = (i \in new)
    BY <2>4 DEF IsDone
  <2> QED
    BY <2>3, <2>6, <2>7, <2>8
<1>5. DOMAIN band = DOMAIN stations /\ old \subseteq Leaving
      /\ Leaving \subseteq DOMAIN stations
  BY DEF Band, Entry, Leaving, IInv, StationsFit, Settled
<1>6. QsyEntries \subseteq lost
  BY DEF QsyEntries, Band, Entry, Leaving
<1>7. (DOMAIN band \ old) \ lost = staying
  BY <1>5
<1>8. Band(stations') =
        [i \in staying |-> [call |-> band[i].call, worked |-> i \in new]]
  BY <1>1, <1>4 DEF Band
<1>9. gone \in Seq(QueueEntry) /\ Len(gone) = QLog!Cardinality(QsyEntries)
      /\ QLog!ListsOf(gone, band, QsyEntries)
  <2>1. QsyEntries \in SUBSET DOMAIN stations
    BY DEF QsyEntries, Leaving
  <2>2. \A i \in QsyEntries : band[i] = Entry(stations[i])
    BY <2>1 DEF Band
  <2>3. /\ DOMAIN stations \subseteq Ids
        /\ stations \in [DOMAIN stations -> Station]
    BY DEF IInv, StationsFit
  <2> HIDE DEF band
  <2> QED
    BY <2>1, <2>2, <2>3, EntriesType, EntriesLength, EntriesListStations
<1>10. worked \in Seq(QueueEntry) /\ Len(worked) = QLog!Cardinality(new)
      /\ QLog!ListsOf(worked, Band(stations'), new)
  <2>1. new \in SUBSET DOMAIN sts /\ new \subseteq staying
    BY <1>3
  <2>2. \A i \in new : Band(stations')[i] = Entry(sts[i])
    BY <1>1, <1>4, <2>1 DEF Band
  <2>3. DOMAIN sts \subseteq Ids /\ sts \in [DOMAIN sts -> Station]
    BY <1>3, <1>4 DEF IInv, StationsFit, Product
  <2>4. worked \in Entries(sts, new)
    BY <1>2
  <2> HIDE DEF new
  <2> QED
    BY <2>1, <2>2, <2>3, <2>4, EntriesType, EntriesLength, EntriesListStations
<1>11. qsoQueue \in Seq(QueueEntry)
  BY DEF IInv
<1>12. QLog!Worked = old
  BY DEF QLog!Worked, Band
<1> HIDE DEF new, old, lost, staying
<1> DEFINE n == Len(qsoQueue)
           k == n + Len(gone)
<1>13. /\ Len(qsoQueue') = k + Len(worked)
       /\ SubSeq(qsoQueue', 1, n) = qsoQueue
       /\ SubSeq(qsoQueue', n + 1, k) = gone
       /\ SubSeq(qsoQueue', k + 1, Len(qsoQueue')) = worked
  <2>1. gone \in Seq(QueueEntry) /\ worked \in Seq(QueueEntry)
    BY <1>9, <1>10
  <2> QED
    BY <2>1, <1>2, <1>11, AppendedTwice
<1>14. new \in SUBSET (DOMAIN band \ old)
       /\ lost \in SUBSET (DOMAIN band \ (old \cup new))
  BY <1>5 DEF new, lost, staying
<1> QED
  BY <1>6, <1>7, <1>8, <1>9, <1>10, <1>12, <1>13, <1>14 DEF QLog!Buffer, Band

\* New stations arrive with the call they were made for, none of them worked.
LEMMA CreateStationsRefines ==
  ASSUME IInv, CreateStations
  PROVE  QLog!Arrive
<1> DEFINE late == me.state = "sending"
           band == Band(stations)
<1>0. PICK new \in SUBSET (Ids \ DOMAIN stations) : \E call \in [new -> Calls] :
        \E born \in Product([i \in new |->
               HearEnd(NewStation(call[i], late), me)]) :
          stations' = [i \in DOMAIN stations \cup new |->
                         IF i \in new THEN born[i] ELSE stations[i]]
  BY DEF CreateStations
<1>1. PICK call \in [new -> Calls] :
        \E born \in Product([i \in new |->
               HearEnd(NewStation(call[i], late), me)]) :
          stations' = [i \in DOMAIN stations \cup new |->
                         IF i \in new THEN born[i] ELSE stations[i]]
  BY <1>0
<1> DEFINE H == [i \in new |-> HearEnd(NewStation(call[i], late), me)]
<1>2. PICK born \in Product(H) :
        stations' = [i \in DOMAIN stations \cup new |->
                       IF i \in new THEN born[i] ELSE stations[i]]
  BY <1>1
<1>3. \A i \in new : Entry(born[i]) = [call |-> call[i], worked |-> FALSE]
  <2>1. \A i \in new : born[i] \in HearEnd(NewStation(call[i], late), me)
    BY DEF Product
  <2>2. late \in BOOLEAN /\ MeFit(me) /\ \A i \in new : call[i] \in Calls
    BY <1>1 DEF IInv
  <2> HIDE DEF late
  <2>3. \A i \in new : born[i].call = call[i] /\ ~IsDone(born[i])
    BY <2>1, <2>2, BornSettled
  <2> QED
    BY <2>3 DEF Entry, IsDone
<1>4. Band(stations') =
        [i \in DOMAIN band \cup new |->
           IF i \in new THEN [call |-> call[i], worked |-> FALSE] ELSE band[i]]
  BY <1>2, <1>3 DEF Band
<1>5. qsoQueue' = qsoQueue /\ DOMAIN band = DOMAIN stations
  BY DEF CreateStations, Band
<1> QED
  BY <1>4, <1>5 DEF QLog!Arrive, Band

LEMMA NextRefines == IInv /\ [Next]_vars => [QLog!Next]_(QLog!vars)
<1> SUFFICES ASSUME IInv, [Next]_vars PROVE [QLog!Next]_(QLog!vars)
  OBVIOUS
<1>1. CASE Command
  BY <1>1, CommandRefines
<1>2. CASE GetAudio
  BY <1>2, GetAudioRefines DEF QLog!Next
<1>3. CASE CreateStations
  BY <1>3, CreateStationsRefines DEF QLog!Next
<1>4. CASE PopQso
  BY <1>4 DEF PopQso, QLog!Show, QLog!Next
<1>5. CASE LoadPending \/ StorePending \/ EndLoop \/ UNCHANGED vars
  BY <1>5 DEF LoadPending, StorePending, EndLoop, vars, QLog!vars
<1> QED
  BY <1>1, <1>2, <1>3, <1>4, <1>5 DEF Next, MainLoop

\* The contest implements QsoLog, for any number of stations and whatever the
\* two threads do in whatever order: every station that is worked is put on the
\* list of contacts exactly once, in the buffer in which its contact comes to an
\* end and under its own call, it is off the band one buffer later, and the
\* person at the key takes the contacts off the list in their order (the QSO
\* check of getAudio, dataToLastQso, popQso).
THEOREM ContactsAreRecordedOnce == Spec => ImplementsQsoLog
BY InitRefines, NextRefines, Invariant, PTL
   DEF Spec, ImplementsQsoLog, QLog!Spec

-----------------------------------------------------------------------------
(***************************************************************************)
(* What the operator of a station makes of a message.                      *)
(***************************************************************************)

\* Silence and garbage are only noticed at the end of msgReceived.
LEMMA GarbageIsTheEnd ==
  ASSUME NEW op, NEW isme, NEW o \in MsgReceived(op, {"nomsg"}, isme)
  PROVE  o \in OnEnd(op, {"nomsg"})
BY DEF MsgReceived, AfterHisCall, AfterB4, AfterNr, AfterAgn, AfterTu

LEMMA DecPatienceNeverEngages ==
  ASSUME NEW op, op.state \notin Engaged
  PROVE  DecPatience(op).state \notin Engaged
BY DEF DecPatience, Engaged

\* The end of msgReceived never brings anybody into a contact.
LEMMA OnEndNeverEngages ==
  ASSUME NEW op, op.state \notin Engaged, NEW msgs, NEW o \in OnEnd(op, msgs)
  PROVE  o.state \notin Engaged
<1>1. ASSUME NEW p \in SetState("NeedPrevEnd")
      PROVE  p.state \notin Engaged
  BY SetStateSets DEF Engaged
<1> QED
  BY <1>1, DecPatienceNeverEngages DEF OnEnd

\* Garbage ends the contact of a careful operator.
LEMMA GarbageBreaksOff ==
  ASSUME ~Lids, NEW op, NEW isme, NEW o \in MsgReceived(op, {"nomsg"}, isme)
  PROVE  o.state \notin Engaged
<1>1. ASSUME NEW p \in SetState("NeedPrevEnd")
      PROVE  p.state \notin Engaged
  BY SetStateSets DEF Engaged
<1>2. CASE op.state = "NeedQso"
  <2>1. o = DecPatience(op)
    BY <1>2, GarbageIsTheEnd DEF OnEnd
  <2> QED
    BY <1>2, <2>1, DecPatienceNeverEngages DEF Engaged
<1>3. CASE op.state # "NeedQso"
  BY <1>1, <1>3, GarbageIsTheEnd, DecPatienceNeverEngages DEF OnEnd
<1> QED
  BY <1>2, <1>3

\* Another call ends the contact of every operator, whatever comes with it.
LEMMA OtherCallBreaksOff ==
  ASSUME NEW op \in Operator, NEW msgs \in WithCall,
         NEW o \in MsgReceived(op, msgs, "No")
  PROVE  o.state \notin Engaged
<1> DEFINE Out == {"NeedPrevEnd", "NeedQso", "Failed", "Done"}
<1>1. PICK o1 \in AfterHisCall(op, msgs, "No") : \E o2 \in AfterB4(o1, msgs) :
        \E o3 \in AfterNr(o2, msgs) : \E o4 \in AfterAgn(o3, msgs) :
        \E o5 \in AfterTu(o4, msgs) : o \in OnEnd(o5, msgs)
  BY DEF MsgReceived, WithCall
<1>2. o1.state \in {"NeedPrevEnd", "Failed", "Done"}
  BY SetStateSets
     DEF AfterHisCall, OnHisCall, OnOtherCall, WithCall, Operator, OperatorState
<1>3. PICK o3 \in AfterNr(o1, msgs) : \E o5 \in AfterTu(o3, msgs) :
        o \in OnEnd(o5, msgs)
  BY <1>1 DEF AfterB4, AfterAgn, WithCall
<1>4. o3.state \in {"NeedPrevEnd", "Failed", "Done"}
  BY <1>2 DEF AfterNr, OnNr
<1>5. PICK o5 \in AfterTu(o3, msgs) : o \in OnEnd(o5, msgs)
  BY <1>3
<1>6. o5.state \in Out
  BY <1>4, SetStateSets DEF AfterTu, OnTu
<1> QED
  BY <1>5, <1>6, OnEndNeverEngages DEF Engaged

\* A careless operator who has failed stays so, whatever he hears.
LEMMA FailedStaysFailed ==
  ASSUME Lids, NEW op \in Operator, op.state = "Failed", NEW msgs, NEW isme,
         NEW o \in MsgReceived(op, msgs, isme)
  PROVE  o.state = "Failed"
<1> DEFINE Gone(p) == p \in Operator /\ p.state = "Failed"
<1>1. CASE "cq" \in msgs \/ "nil" \in msgs
  BY <1>1 DEF MsgReceived, OnCq, OnNil
<1>2. CASE "cq" \notin msgs /\ "nil" \notin msgs
  <2>1. PICK o1 \in AfterHisCall(op, msgs, isme) : \E o2 \in AfterB4(o1, msgs) :
          \E o3 \in AfterNr(o2, msgs) : \E o4 \in AfterAgn(o3, msgs) :
          \E o5 \in AfterTu(o4, msgs) : o \in OnEnd(o5, msgs)
    BY <1>2 DEF MsgReceived
  <2>0. \A q \in {FULL_PATIENCE, HALF_PATIENCE}, p \in Operator :
          Gone(p) => Gone([p EXCEPT !.patience = q])
    BY HalfPatience, DxOperAssumption DEF Operator
  <2>2. Gone(o1)
    BY <2>0 DEF AfterHisCall, OnHisCall, OnMyCall, OnAlmostMyCall, OnOtherCall
  <2>3. PICK o2 \in AfterB4(o1, msgs) :
          \E o3 \in AfterNr(o2, msgs) : \E o4 \in AfterAgn(o3, msgs) :
          \E o5 \in AfterTu(o4, msgs) : o \in OnEnd(o5, msgs)
    BY <2>1
  <2>4. Gone(o2)
    BY <2>2 DEF AfterB4, OnB4
  <2>5. PICK o3 \in AfterNr(o2, msgs) : \E o4 \in AfterAgn(o3, msgs) :
          \E o5 \in AfterTu(o4, msgs) : o \in OnEnd(o5, msgs)
    BY <2>3
  <2>6. Gone(o3)
    BY <2>4 DEF AfterNr, OnNr
  <2>7. PICK o4 \in AfterAgn(o3, msgs) :
          \E o5 \in AfterTu(o4, msgs) : o \in OnEnd(o5, msgs)
    BY <2>5
  <2>8. Gone(o4)
    BY <2>0, <2>6 DEF AfterAgn, OnAgn
  <2>9. PICK o5 \in AfterTu(o4, msgs) : o \in OnEnd(o5, msgs)
    BY <2>7
  <2>10. Gone(o5)
    BY <2>8 DEF AfterTu, OnTu
  <2> QED
    BY <2>9, <2>10 DEF OnEnd
<1> QED
  BY <1>1, <1>2

-----------------------------------------------------------------------------
(* What a buffer makes of the operator of a station. *)

LEMMA HearEndOperator ==
  ASSUME NEW st, Sound(st), NEW m, NEW s \in HearEnd(st, m)
  PROVE  \/ /\ s.oper = st.oper
            /\ st.oper.state = "Done" \/ st.state \in {"sending", "deleteme"}
         \/ \E msgs \in Received(st, m.msgs),
               isme \in IF "hiscall" \in m.msgs THEN IsMyCall(st.call, m.hiscall)
                        ELSE {"No"} :
              s.oper \in MsgReceived(st.oper, msgs, isme)
<1>1. PICK isme \in IF "hiscall" \in m.msgs THEN IsMyCall(st.call, m.hiscall)
                    ELSE {"No"} : s \in OnMeFinished(st, m.msgs, isme)
  BY DEF HearEnd
<1>2. isme \in MyCallCorrect
  BY IsMyCallType DEF MyCallCorrect
<1>3. CASE st.oper.state = "Done" \/ st.state = "sending"
  BY <1>1, <1>3 DEF OnMeFinished, ProcessEvent
<1>4. CASE st.oper.state # "Done" /\ st.state # "sending"
  <2>1. PICK t : /\ \/ t = st /\ Received(st, m.msgs) = {}
                    \/ \E msgs \in Received(st, m.msgs) :
                         t \in Deliver(st, msgs, isme)
                 /\ s \in AfterReceiving(t)
    BY <1>1, <1>4 DEF OnMeFinished, ProcessEvent
  <2>2. CASE t = st /\ Received(st, m.msgs) = {}
    <3>1. s.oper = st.oper
      BY <2>1, <2>2, AfterReceivingKeepsOperator DEF Sound
    <3>2. st.state = "deleteme"
      BY <1>4, <2>2 DEF Received, Sound, Station, StationState
    <3> QED
      BY <3>1, <3>2
  <2>3. ASSUME NEW msgs \in Received(st, m.msgs), t \in Deliver(st, msgs, isme)
        PROVE  s.oper \in MsgReceived(st.oper, msgs, isme)
    <3>1. t \in Station
      BY <1>2, <1>4, <2>3, SoundIsFit, DeliverSound DEF Sound
    <3>2. s.oper = t.oper
      BY <2>1, <3>1, AfterReceivingKeepsOperator
    <3> QED
      BY <2>3, <3>2, DeliverOperator DEF Sound
  <2> QED
    BY <1>1, <2>1, <2>2, <2>3
<1> QED
  BY <1>3, <1>4

\* What the buffer does before the station ticks: h is the station then.
LEMMA StationBufferParts ==
  ASSUME NEW st, Settled(st), st.state # "deleteme", NEW finished \in BOOLEAN,
         NEW m, NEW s \in StationBuffer(st, finished, m)
  PROVE  \E h : /\ Sound(h)
                /\ IF finished THEN h \in HearEnd(GetBuffer(st), m)
                   ELSE h = GetBuffer(st)
                /\ \/ s.oper = h.oper
                   \/ s.oper \in MsgReceived(h.oper, {"nomsg"}, "No")
<1> DEFINE g == GetBuffer(st)
           cqSending == m.state = "sending"
<1>1. PICK h \in (IF finished THEN HearEnd(g, m) ELSE {g}) :
        s \in Tick(h, cqSending)
  BY DEF StationBuffer
<1>2. Sound(g)
  BY GetBufferSound DEF Settled
<1> HIDE DEF g
<1>3. Sound(h)
  BY <1>1, <1>2, HearEndIsMeFinished, OnMeFinishedSound
<1>4. \/ s.oper = h.oper
      \/ s.oper \in MsgReceived(h.oper, {"nomsg"}, "No")
  BY <1>1, <1>3, TickOperator
<1> QED
  BY <1>1, <1>3, <1>4 DEF g

LEMMA QsoCheckKeepsOperator ==
  ASSUME NEW st \in Station
  PROVE  QsoCheck(st).oper = st.oper
BY DEF QsoCheck, DataToLastQso, Station

\* A station that is still on the band after a buffer has gone through one.
LEMMA RemainingAfterGetAudio ==
  ASSUME IInv, GetAudio, NEW i \in Remaining
  PROVE  \E s \in StationBuffer(stations[i],
                     me.state = "sending" /\ me'.state = "listening", me') :
           /\ Settled(stations[i]) /\ stations[i].state # "deleteme"
           /\ Oper(i)' = s.oper.state
<1> DEFINE finished == me.state = "sending" /\ me'.state = "listening"
           staying  == DOMAIN stations \ Leaving
           H == [j \in staying |-> StationBuffer(stations[j], finished, me')]
<1>1. PICK sts \in Product(H) : stations' = [j \in staying |-> QsoCheck(sts[j])]
  BY DEF GetAudio
<1>2. i \in staying /\ sts[i] \in StationBuffer(stations[i], finished, me')
  BY <1>1 DEF Remaining, Product
<1>3. Settled(stations[i]) /\ stations[i].state # "deleteme"
  BY <1>2 DEF IInv, StationsFit, Leaving
<1>4. finished \in BOOLEAN
  OBVIOUS
<1>5. Oper(i)' = QsoCheck(sts[i]).oper.state
  BY <1>1, <1>2 DEF Oper
<1> HIDE DEF finished
<1>6. sts[i] \in Station
  BY <1>2, <1>3, <1>4, BufferSound DEF Sound
<1> QED
  BY <1>2, <1>3, <1>5, <1>6, QsoCheckKeepsOperator DEF finished

-----------------------------------------------------------------------------
(* Calling somebody else. *)

\* A station that has heard the end of a message with another call in it and
\* was not sending itself is in no contact.  Either it has copied the call, or
\* what it has heard was garbage to it, which makes a careful operator give up.
LEMMA HearingAnotherBreaksOff ==
  ASSUME NEW st, Sound(st), st.state \notin {"sending", "deleteme"},
         ~Lids \/ st.state = "copying",
         NEW m, "hiscall" \in m.msgs, m.msgs \in WithCall,
         IsMyCall(st.call, m.hiscall) = {"No"}, NEW s \in HearEnd(st, m)
  PROVE  s.oper.state \notin Engaged
<1>1. CASE s.oper = st.oper /\ st.oper.state = "Done"
  BY <1>1 DEF Engaged
<1>2. CASE \E msgs \in Received(st, m.msgs) :
             s.oper \in MsgReceived(st.oper, msgs, "No")
  <2>1. PICK msgs \in Received(st, m.msgs) :
          s.oper \in MsgReceived(st.oper, msgs, "No")
    BY <1>2
  <2>2. msgs = m.msgs \/ (msgs = {"nomsg"} /\ ~Lids)
    BY DEF Received
  <2> QED
    BY <2>1, <2>2, OtherCallBreaksOff, GarbageBreaksOff DEF Sound, Station
<1> QED
  BY <1>1, <1>2, HearEndOperator

\* Nobody is brought into a contact by silence.
LEMMA SilenceNeverEngages ==
  ASSUME NEW op, op.state \notin Engaged,
         NEW o \in MsgReceived(op, {"nomsg"}, "No")
  PROVE  o.state \notin Engaged
BY GarbageIsTheEnd, OnEndNeverEngages

LEMMA AnotherCalledStep ==
  ASSUME IInv, [Next]_vars, NEW i \in Remaining, AnotherCalled(i),
         stations[i].state # "sending", ~Lids \/ stations[i].state = "copying"
  PROVE  Oper(i)' \notin Engaged
<1>1. me.state = "sending" /\ me'.state = "listening" /\ "hiscall" \in me'.msgs
      /\ IsMyCall(stations[i].call, me'.hiscall) = {"No"}
  BY DEF AnotherCalled
<1>2. GetAudio
  <2>1. ~Command
    BY <1>1, MeSendTextFit, MeAbortFit DEF Command, SendText, AbortSend, IInv
  <2>2. me' # me
    BY <1>1
  <2> QED
    BY <2>1, <2>2
       DEF Next, MainLoop, LoadPending, StorePending, CreateStations, PopQso,
           EndLoop, vars
<1>3. me'.msgs \in WithCall
  BY <1>1, <1>2, MeBufferFit DEF IInv, GetAudio, MeFit, SaysNoMoreThan
<1> DEFINE st == stations[i]
<1>4. PICK s \in StationBuffer(st, TRUE, me') :
        Settled(st) /\ st.state # "deleteme" /\ Oper(i)' = s.oper.state
  BY <1>1, <1>2, RemainingAfterGetAudio
<1>5. st.state # "sending" /\ (~Lids \/ st.state = "copying")
  OBVIOUS
<1>6. IsMyCall(st.call, me'.hiscall) = {"No"}
  BY <1>1
<1> HIDE DEF st
<1>7. PICK h : /\ Sound(h) /\ h \in HearEnd(GetBuffer(st), me')
               /\ \/ s.oper = h.oper
                  \/ s.oper \in MsgReceived(h.oper, {"nomsg"}, "No")
  BY <1>4, StationBufferParts
<1>8. h.oper.state \notin Engaged
  <2>1. Sound(GetBuffer(st)) /\ GetBuffer(st).state = st.state
        /\ GetBuffer(st).call = st.call
    BY <1>4, GetBufferSound DEF Settled
  <2> QED
    BY <1>1, <1>3, <1>4, <1>5, <1>6, <1>7, <2>1, HearingAnotherBreaksOff
<1> QED
  BY <1>4, <1>7, <1>8, SilenceNeverEngages

\* When a message with another call in it has ended, no careful operator who
\* was not sending himself believes to be in a contact any more, however the
\* message was put together and whatever he did before (isMyCall, msgReceived).
\* A careless one may take any call for his: hence ~Lids.
THEOREM AnotherCallBreaksOff ==
  ASSUME ~Lids
  PROVE  Spec => CallingAnotherBreaksOff
<1>1. IInv /\ [Next]_vars =>
        [\A i \in Remaining :
           AnotherCalled(i) /\ stations[i].state # "sending" =>
             Oper(i)' \notin Engaged]_vars
  BY AnotherCalledStep
<1> QED
  BY <1>1, Invariant, PTL DEF Spec, CallingAnotherBreaksOff

\* Careless or careful: whoever has copied the message from its beginning.
THEOREM CopiedCallBreaksOff ==
  Spec => [][\A i \in Remaining :
               AnotherCalled(i) /\ stations[i].state = "copying" =>
                 Oper(i)' \notin Engaged]_vars
<1>1. IInv /\ [Next]_vars =>
        [\A i \in Remaining :
           AnotherCalled(i) /\ stations[i].state = "copying" =>
             Oper(i)' \notin Engaged]_vars
  BY AnotherCalledStep
<1> QED
  BY <1>1, Invariant, PTL DEF Spec

-----------------------------------------------------------------------------
(* Who has failed. *)

LEMMA FailedHearsInVain ==
  ASSUME Lids, NEW st, Sound(st), st.oper.state = "Failed", NEW m,
         NEW s \in HearEnd(st, m)
  PROVE  s.oper.state = "Failed"
<1>1. CASE s.oper = st.oper
  BY <1>1
<1>2. CASE \E msgs, isme : s.oper \in MsgReceived(st.oper, msgs, isme)
  BY <1>2, FailedStaysFailed DEF Sound, Station
<1> QED
  BY <1>1, <1>2, HearEndOperator

LEMMA FailedIsLeftAlone ==
  ASSUME NEW st, Sound(st), st.oper.state = "Failed", NEW s \in OnMeStarted(st)
  PROVE  s.oper.state = "Failed"
<1>1. st \in Station /\ st.oper \in Operator
  BY DEF Sound, Station
<1>2. CASE st.state = "sending"
  <2>1. s = [st EXCEPT !.timeout = NEVER, !.late = FALSE]
    BY <1>2 DEF OnMeStarted, ProcessEvent
  <2> QED
    BY <1>1, <2>1 DEF Station
<1>3. CASE st.state # "sending"
  <2>1. s = [st EXCEPT !.timeout = NEVER, !.late = FALSE, !.state = "copying",
                       !.oper.state = "Failed"]
    BY <1>3 DEF OnMeStarted, ProcessEvent
  <2>2. s.oper = [st.oper EXCEPT !.state = "Failed"]
    BY <1>1, <2>1 DEF Station
  <2> QED
    BY <1>1, <2>2 DEF Operator
<1> QED
  BY <1>2, <1>3

LEMMA FailedStep ==
  ASSUME Lids, IInv, [Next]_vars, NEW i \in Remaining, Oper(i) = "Failed"
  PROVE  Oper(i)' = "Failed"
<1>1. Sound(stations[i]) /\ stations[i].oper.state = "Failed"
      /\ i \in DOMAIN stations /\ i \in DOMAIN stations'
  BY DEF Remaining, IInv, StationsFit, Settled, Oper
<1>2. ASSUME NEW text \in Texts, SendText(text)
      PROVE  Oper(i)' = "Failed"
  <2>1. CASE stations' = stations
    BY <1>1, <2>1 DEF Oper
  <2>2. CASE stations' \in
               Product([j \in DOMAIN stations |-> OnMeStarted(stations[j])])
    <3>1. stations'[i] \in OnMeStarted(stations[i])
      BY <1>1, <2>2 DEF Product
    <3>2. stations'[i].oper.state = "Failed"
      BY <1>1, <3>1, FailedIsLeftAlone
    <3> QED
      BY <3>2 DEF Oper
  <2> QED
    BY <1>2, <2>1, <2>2 DEF SendText
<1>3. ASSUME AbortSend
      PROVE  Oper(i)' = "Failed"
  <2>1. stations' \in
          Product([j \in DOMAIN stations |-> HearEnd(stations[j], me')])
    BY <1>3 DEF AbortSend
  <2>2. stations'[i] \in HearEnd(stations[i], me')
    BY <1>1, <2>1 DEF Product
  <2> QED
    BY <1>1, <2>2, FailedHearsInVain DEF Oper
<1>4. ASSUME GetAudio
      PROVE  Oper(i)' = "Failed"
  <2> DEFINE st == stations[i]
             finished == me.state = "sending" /\ me'.state = "listening"
  <2>1. PICK s \in StationBuffer(st, finished, me') :
          Settled(st) /\ st.state # "deleteme" /\ Oper(i)' = s.oper.state
    BY <1>4, RemainingAfterGetAudio
  <2>2. finished \in BOOLEAN /\ st.oper.state = "Failed"
    BY <1>1
  <2> HIDE DEF st, finished
  <2>3. PICK h : /\ Sound(h)
                 /\ IF finished THEN h \in HearEnd(GetBuffer(st), me')
                    ELSE h = GetBuffer(st)
                 /\ \/ s.oper = h.oper
                    \/ s.oper \in MsgReceived(h.oper, {"nomsg"}, "No")
    BY <2>1, <2>2, StationBufferParts
  <2>4. Sound(GetBuffer(st)) /\ GetBuffer(st).oper = st.oper
    BY <2>1, GetBufferSound DEF Settled
  <2>5. h.oper.state = "Failed"
    BY <2>2, <2>3, <2>4, FailedHearsInVain
  <2> QED
    BY <2>1, <2>3, <2>5, FailedStaysFailed DEF Sound, Station
<1>5. ASSUME CreateStations
      PROVE  Oper(i)' = "Failed"
  <2>1. PICK new \in SUBSET (Ids \ DOMAIN stations) :
          \E f : stations' = [j \in DOMAIN stations \cup new |->
                                IF j \in new THEN f[j] ELSE stations[j]]
    BY <1>5 DEF CreateStations
  <2> QED
    BY <1>1, <2>1 DEF Oper
<1>6. CASE UNCHANGED stations
  BY <1>1, <1>6 DEF Oper
<1> QED
  BY <1>2, <1>3, <1>4, <1>5, <1>6
     DEF Next, Command, MainLoop, LoadPending, StorePending, PopQso, EndLoop,
         vars

\* A careless operator who has given up is in no contact again, whatever is sent
\* or aborted before he is removed: only a careful one starts over when the
\* message he copies is aborted (msgReceived, abortSend, getAudio).
THEOREM CarelessGiveUpForGood ==
  ASSUME Lids
  PROVE  Spec => FailedGivesUp
<1>1. IInv /\ [Next]_vars =>
        [\A i \in Remaining : Oper(i) = "Failed" => Oper(i)' = "Failed"]_vars
  BY FailedStep
<1> QED
  BY <1>1, Invariant, PTL DEF Spec, FailedGivesUp

=============================================================================
