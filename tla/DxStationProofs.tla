-------------------------- MODULE DxStationProofs --------------------------
(***************************************************************************)
(* What the operator behind a DX station, and the event handlers of the    *)
(* station, preserve: for every patience and both kinds of operators.      *)
(*                                                                         *)
(* For the operator: its type, that who has not failed has patience left,  *)
(* and that its state never runs ahead of what it has heard (heard is the  *)
(* history variable of module DxStation).  Sound is the invariant of a     *)
(* station while an event is being handled; module ContestProofs adds what *)
(* holds between two steps of the contest.                                 *)
(***************************************************************************)
EXTENDS DxStation, TLAPS

\* The state of an operator is justified by what it has heard.
Justified(op, heard) ==
  /\ op.state \in {"NeedCall", "NeedEnd", "Done"} => heard = {"call", "nr"}
  /\ op.state = "NeedNr" => "call" \in heard

\* Patience is left, or the operator has failed; a new one has none yet.
Patient(op)  == op.state # "Failed" => op.patience > 0
Patient0(op) ==
  op.state # "Failed" => \/ op.patience > 0
                         \/ op.state = "NeedPrevEnd" /\ op.patience = 0

\* What holds of an operator between two tests of msgReceived.
Fit(op, heard) ==
  /\ op \in Operator
  /\ heard \in SUBSET {"call", "nr"}
  /\ Patient0(op)
  /\ Justified(op, heard)

Fitting(ops, heard) == \A o \in ops : Fit(o, heard)

-----------------------------------------------------------------------------

LEMMA HalfPatience ==
  /\ HALF_PATIENCE \in 1 .. FULL_PATIENCE
  /\ HALF_PATIENCE + HALF_PATIENCE <= FULL_PATIENCE
BY DxOperAssumption DEF HALF_PATIENCE

\* setState gives a fresh, patient operator in the new state.
LEMMA SetStateIsFresh ==
  ASSUME NEW s \in OperatorState, NEW o \in SetState(s)
  PROVE  o \in Operator /\ o.state = s /\ o.patience > 0
BY HalfPatience, DxOperAssumption DEF SetState, Operator

\* decPatience: the patience goes down by one, and the operator fails exactly
\* when none is left.
LEMMA DecPatienceFails ==
  ASSUME NEW op \in Operator, Patient0(op), op.state # "Done",
         op.state # "Failed"
  PROVE  /\ DecPatience(op) \in Operator
         /\ Patient(DecPatience(op))
         /\ DecPatience(op).state \in {op.state, "Failed"}
BY DxOperAssumption DEF DecPatience, Operator, OperatorState, Patient, Patient0

-----------------------------------------------------------------------------
(* The tests of msgReceived, one lemma each. *)

LEMMA FitWithState ==
  ASSUME NEW s \in OperatorState, NEW heard \in SUBSET {"call", "nr"},
         s \in {"NeedCall", "NeedEnd", "Done"} => heard = {"call", "nr"},
         s = "NeedNr" => "call" \in heard
  PROVE  Fitting(SetState(s), heard)
BY SetStateIsFresh DEF Fitting, Fit, Patient0, Justified

LEMMA FitWithPatience ==
  ASSUME NEW op, NEW heard, Fit(op, heard), NEW p \in 1 .. FULL_PATIENCE
  PROVE  /\ Fit([op EXCEPT !.patience = p], heard)
         /\ [op EXCEPT !.patience = p].state = op.state
BY DxOperAssumption DEF Fit, Operator, Patient0, Justified

\* Fit, and not at the end of a contact.
FitForMore(op, heard) == Fit(op, heard) /\ op.state # "Done"

LEMMA HearCallType ==
  ASSUME NEW heard \in SUBSET {"call", "nr"}, NEW msgs, NEW isme
  PROVE  HearCall(heard, msgs, isme) \in SUBSET {"call", "nr"}
BY DEF HearCall

LEMMA AfterHisCallFits ==
  ASSUME NEW op, NEW heard, FitForMore(op, heard), NEW msgs,
         NEW isme \in MyCallCorrect,
         NEW o \in AfterHisCall(op, msgs, isme)
  PROVE  FitForMore(o, HearCall(heard, msgs, isme))
<1> DEFINE h == HearCall(heard, msgs, isme)
<1>1. /\ op \in Operator
      /\ op.state \in OperatorState
      /\ heard \in SUBSET {"call", "nr"}
  BY DEF FitForMore, Fit, Operator
<1>2. h \in SUBSET {"call", "nr"}
  BY <1>1, HearCallType
<1>3. ASSUME NEW s \in OperatorState \ {"Done"}, o \in SetState(s),
             s \in {"NeedCall", "NeedEnd"} => h = {"call", "nr"},
             s = "NeedNr" => "call" \in h
      PROVE  FitForMore(o, h)
  BY <1>2, <1>3, FitWithState, SetStateIsFresh DEF FitForMore, Fitting
<1>4. CASE "hiscall" \notin msgs
  BY <1>4 DEF AfterHisCall, HearCall, FitForMore
<1>5. CASE "hiscall" \in msgs /\ isme = "Yes"
  <2>1. h = heard \cup {"call"} /\ o \in OnMyCall(op)
    BY <1>5 DEF HearCall, AfterHisCall, OnHisCall
  <2>2. CASE op.state \in {"NeedPrevEnd", "NeedQso", "NeedCallNr"}
    BY <2>1, <2>2, <1>3 DEF OnMyCall, OperatorState
  <2>3. CASE op.state = "NeedCall"
    <3>1. heard = {"call", "nr"}
      BY <2>3 DEF FitForMore, Fit, Justified
    <3> QED
      BY <2>1, <2>3, <3>1, <1>3 DEF OnMyCall, OperatorState
  <2>4. CASE op.state \notin {"NeedPrevEnd", "NeedQso", "NeedCallNr", "NeedCall"}
    <3>1. o = [op EXCEPT !.patience = FULL_PATIENCE]
      BY <2>1, <2>4 DEF OnMyCall
    <3>2. Fit(op, h)
      BY <2>1, <1>1, <1>2 DEF FitForMore, Fit, Justified
    <3> QED
      BY <3>1, <3>2, FitWithPatience, DxOperAssumption DEF FitForMore
  <2> QED
    BY <2>2, <2>3, <2>4
<1>6. CASE "hiscall" \in msgs /\ isme = "Almost"
  <2>1. h = heard /\ o \in OnAlmostMyCall(op)
    BY <1>6 DEF HearCall, AfterHisCall, OnHisCall
  <2>2. CASE op.state \in {"NeedPrevEnd", "NeedQso", "NeedNr"}
    BY <2>1, <2>2, <1>3 DEF OnAlmostMyCall, OperatorState
  <2>3. CASE op.state = "NeedEnd"
    <3>1. heard = {"call", "nr"}
      BY <2>3 DEF FitForMore, Fit, Justified
    <3> QED
      BY <2>1, <2>3, <3>1, <1>3 DEF OnAlmostMyCall, OperatorState
  <2>4. CASE op.state \notin {"NeedPrevEnd", "NeedQso", "NeedNr", "NeedEnd"}
    <3>1. o = [op EXCEPT !.patience = HALF_PATIENCE]
      BY <2>1, <2>4 DEF OnAlmostMyCall
    <3> QED
      BY <2>1, <3>1, FitWithPatience, HalfPatience DEF FitForMore
  <2> QED
    BY <2>2, <2>3, <2>4
<1>7. CASE "hiscall" \in msgs /\ isme = "No"
  <2>1. h = {} /\ o \in OnOtherCall(op)
    BY <1>7 DEF HearCall, AfterHisCall, OnHisCall
  <2>2. CASE op.state \in {"NeedQso", "NeedNr", "NeedCall", "NeedCallNr"}
    BY <2>1, <2>2, <1>3 DEF OnOtherCall, OperatorState
  <2>3. CASE op.state = "NeedEnd"
    BY <2>1, <2>3, <1>3 DEF OnOtherCall, OperatorState
  <2>4. CASE op.state \in {"NeedPrevEnd", "Failed"}
    BY <2>1, <2>4, <1>1 DEF OnOtherCall, FitForMore, Fit, Justified
  <2> QED
    BY <2>2, <2>3, <2>4, <1>1 DEF OperatorState, FitForMore
<1> QED
  BY <1>4, <1>5, <1>6, <1>7 DEF MyCallCorrect

LEMMA AfterB4Fits ==
  ASSUME NEW op, NEW heard, FitForMore(op, heard), NEW msgs,
         NEW o \in AfterB4(op, msgs)
  PROVE  FitForMore(o, heard)
<1>1. heard \in SUBSET {"call", "nr"} /\ op.state \in OperatorState
  BY DEF FitForMore, Fit, Operator
<1>2. ASSUME NEW s \in {"NeedQso", "NeedPrevEnd", "Failed"}, o \in SetState(s)
      PROVE  FitForMore(o, heard)
  BY <1>1, <1>2, FitWithState, SetStateIsFresh
     DEF FitForMore, Fitting, OperatorState
<1>3. o = op \/ \E s \in {"NeedQso", "NeedPrevEnd", "Failed"} : o \in SetState(s)
  BY DEF AfterB4, OnB4
<1> QED
  BY <1>2, <1>3

LEMMA AfterNrFits ==
  ASSUME NEW op, NEW heard, FitForMore(op, heard), NEW msgs,
         NEW o \in AfterNr(op, msgs)
  PROVE  FitForMore(o, HearNr(heard, msgs))
<1> DEFINE h == HearNr(heard, msgs)
<1>1. heard \in SUBSET {"call", "nr"} /\ h \in SUBSET {"call", "nr"}
  BY DEF FitForMore, Fit, HearNr
<1>2. FitForMore(op, h)
  BY <1>1 DEF FitForMore, Fit, Justified, HearNr
<1>3. CASE o = op
  BY <1>2, <1>3
<1>4. CASE o \in SetState("NeedPrevEnd")
  BY <1>1, <1>4, FitWithState, SetStateIsFresh
     DEF FitForMore, Fitting, OperatorState
<1>5. CASE o \in SetState("NeedEnd") /\ op.state = "NeedNr" /\ "nr" \in msgs
  <2>1. h = {"call", "nr"}
    BY <1>1, <1>5 DEF FitForMore, Fit, Justified, HearNr
  <2> QED
    BY <1>1, <1>5, <2>1, FitWithState, SetStateIsFresh
       DEF FitForMore, Fitting, OperatorState
<1> QED
  BY <1>3, <1>4, <1>5 DEF AfterNr, OnNr

LEMMA AfterAgnFits ==
  ASSUME NEW op, NEW heard, FitForMore(op, heard), NEW msgs,
         NEW o \in AfterAgn(op, msgs)
  PROVE  FitForMore(o, heard)
<1>1. CASE o = op
  BY <1>1
<1>2. CASE op.state = "NeedEnd" /\ o \in SetState("NeedEnd")
  BY <1>2, FitWithState, SetStateIsFresh
     DEF FitForMore, Fit, Justified, Fitting, OperatorState
<1>3. CASE o = [op EXCEPT !.patience = HALF_PATIENCE]
  BY <1>3, FitWithPatience, HalfPatience DEF FitForMore
<1> QED
  BY <1>1, <1>2, <1>3 DEF AfterAgn, OnAgn

LEMMA AfterTuFits ==
  ASSUME NEW op, NEW heard, FitForMore(op, heard), NEW msgs,
         NEW o \in AfterTu(op, msgs)
  PROVE  Fit(o, heard)
<1>1. CASE o = op
  BY <1>1 DEF FitForMore
<1>2. CASE o \in SetState("NeedQso")
  BY <1>2, FitWithState DEF FitForMore, Fit, Fitting, OperatorState
<1>3. CASE op.state = "NeedEnd" /\ o \in SetState("Done")
  BY <1>3, FitWithState DEF FitForMore, Fit, Justified, Fitting, OperatorState
<1> QED
  BY <1>1, <1>2, <1>3 DEF AfterTu, OnTu

LEMMA OnEndFits ==
  ASSUME NEW op, NEW heard, Fit(op, heard), NEW msgs,
         msgs = {"nomsg"} => op.state # "Done",
         NEW o \in OnEnd(op, msgs)
  PROVE  Fit(o, heard) /\ Patient(o)
<1> DEFINE Waited(p) == IF p.state = "NeedPrevEnd" THEN DecPatience(p) ELSE p
<1>1. ASSUME NEW p, Fit(p, heard), p.state \in {"NeedPrevEnd", "NeedQso"}
      PROVE  Fit(DecPatience(p), heard) /\ Patient(DecPatience(p))
  BY <1>1, DecPatienceFails DEF Fit, Justified, Patient, Patient0
<1>2. ASSUME NEW p, Fit(p, heard)
      PROVE  Fit(Waited(p), heard) /\ Patient(Waited(p))
  BY <1>1, <1>2 DEF Fit, Patient, Patient0
<1>3. CASE op.state = "NeedQso" /\ msgs = {"nomsg"}
  BY <1>1, <1>3 DEF OnEnd
<1>4. CASE ~(op.state = "NeedQso" /\ msgs = {"nomsg"})
  <2>1. PICK p \in (IF ~Lids /\ msgs = {"nomsg"} THEN SetState("NeedPrevEnd")
                    ELSE {op}) : o = Waited(p)
    BY <1>4 DEF OnEnd
  <2>2. Fit(p, heard)
    BY <2>1, FitWithState DEF Fit, Fitting, OperatorState
  <2> QED
    BY <2>1, <2>2, <1>2
<1> QED
  BY <1>3, <1>4

-----------------------------------------------------------------------------
(* The messages that are the whole of a transmission. *)

LEMMA OnCqFits ==
  ASSUME NEW op, NEW heard, FitForMore(op, heard), NEW o \in OnCq(op)
  PROVE  Fit(o, heard) /\ Patient(o)
<1>1. heard \in SUBSET {"call", "nr"} /\ op \in Operator
      /\ op.state \in OperatorState
  BY DEF FitForMore, Fit, Operator
<1>2. ASSUME NEW s \in {"NeedQso", "Failed"}, o \in SetState(s)
      PROVE  Fit(o, heard) /\ Patient(o)
  BY <1>1, <1>2, FitWithState, SetStateIsFresh
     DEF Fitting, Patient, OperatorState
<1>3. CASE op.state = "NeedQso" /\ o = DecPatience(op)
  BY <1>1, <1>3, DecPatienceFails DEF FitForMore, Fit, Justified, Patient, Patient0
<1>4. CASE op.state = "NeedEnd" /\ o \in SetState("Done")
  BY <1>1, <1>4, FitWithState, SetStateIsFresh
     DEF FitForMore, Fit, Justified, Fitting, Patient, OperatorState
<1>5. CASE op.state = "Failed" /\ o = op
  BY <1>5 DEF FitForMore, Patient
<1> QED
  BY <1>1, <1>2, <1>3, <1>4, <1>5 DEF OnCq, OperatorState, FitForMore

LEMMA OnNilFits ==
  ASSUME NEW op, NEW heard, FitForMore(op, heard), NEW o \in OnNil(op)
  PROVE  Fit(o, heard) /\ Patient(o)
<1>1. heard \in SUBSET {"call", "nr"} /\ op \in Operator
      /\ op.state \in OperatorState
  BY DEF FitForMore, Fit, Operator
<1>2. ASSUME NEW s \in {"NeedQso", "Failed"}, o \in SetState(s)
      PROVE  Fit(o, heard) /\ Patient(o)
  BY <1>1, <1>2, FitWithState, SetStateIsFresh
     DEF Fitting, Patient, OperatorState
<1>3. CASE op.state = "NeedQso" /\ o = DecPatience(op)
  BY <1>1, <1>3, DecPatienceFails DEF FitForMore, Fit, Justified, Patient, Patient0
<1>4. CASE op.state = "Failed" /\ o = op
  BY <1>4 DEF FitForMore, Patient
<1> QED
  BY <1>1, <1>2, <1>3, <1>4 DEF OnNil, OperatorState, FitForMore

-----------------------------------------------------------------------------

\* Whatever an operator is told (msgReceived), in whatever state but Done: he
\* is an operator again, has failed or has patience left, and is no further
\* in the contact than what he has heard, this time included, allows.
THEOREM MsgReceivedFits ==
  ASSUME NEW op, NEW heard, FitForMore(op, heard), NEW msgs,
         NEW isme \in MyCallCorrect, NEW o \in MsgReceived(op, msgs, isme)
  PROVE  Fit(o, Hear(heard, msgs, isme)) /\ Patient(o)
<1>1. CASE "cq" \in msgs
  BY <1>1, OnCqFits DEF MsgReceived, Hear
<1>2. CASE "cq" \notin msgs /\ "nil" \in msgs
  BY <1>2, OnNilFits DEF MsgReceived, Hear
<1>3. CASE "cq" \notin msgs /\ "nil" \notin msgs
  <2> DEFINE h1 == HearCall(heard, msgs, isme)
             h3 == HearNr(h1, msgs)
  <2>1. PICK o1 \in AfterHisCall(op, msgs, isme) : \E o2 \in AfterB4(o1, msgs) :
          \E o3 \in AfterNr(o2, msgs) : \E o4 \in AfterAgn(o3, msgs) :
          \E o5 \in AfterTu(o4, msgs) : o \in OnEnd(o5, msgs)
    BY <1>3 DEF MsgReceived
  <2>2. FitForMore(o1, h1)
    BY AfterHisCallFits
  <2>3. PICK o2 \in AfterB4(o1, msgs) :
          \E o3 \in AfterNr(o2, msgs) : \E o4 \in AfterAgn(o3, msgs) :
          \E o5 \in AfterTu(o4, msgs) : o \in OnEnd(o5, msgs)
    BY <2>1
  <2>4. FitForMore(o2, h1)
    BY <2>2, AfterB4Fits
  <2>5. PICK o3 \in AfterNr(o2, msgs) : \E o4 \in AfterAgn(o3, msgs) :
          \E o5 \in AfterTu(o4, msgs) : o \in OnEnd(o5, msgs)
    BY <2>3
  <2>6. FitForMore(o3, h3)
    BY <2>4, AfterNrFits
  <2>7. PICK o4 \in AfterAgn(o3, msgs) :
          \E o5 \in AfterTu(o4, msgs) : o \in OnEnd(o5, msgs)
    BY <2>5
  <2>8. FitForMore(o4, h3)
    BY <2>6, AfterAgnFits
  <2>9. PICK o5 \in AfterTu(o4, msgs) : o \in OnEnd(o5, msgs)
    BY <2>7
  <2>10. Fit(o5, h3)
    BY <2>8, AfterTuFits
  <2>11. msgs = {"nomsg"} => o5 = o4
    BY DEF AfterTu
  <2>12. Fit(o, h3) /\ Patient(o)
    BY <2>8, <2>9, <2>10, <2>11, OnEndFits DEF FitForMore
  <2>13. Hear(heard, msgs, isme) = h3
    BY <1>3 DEF Hear
  <2> QED
    BY <2>12, <2>13
<1> QED
  BY <1>1, <1>2, <1>3

-----------------------------------------------------------------------------
(* How a contact cannot end. *)

LEMMA SetStateSets ==
  ASSUME NEW s, NEW o \in SetState(s)
  PROVE  o.state = s
BY DEF SetState

\* The end of msgReceived completes nothing.
LEMMA OnEndIsNotDone ==
  ASSUME NEW op, op.state # "Done", NEW msgs, NEW o \in OnEnd(op, msgs)
  PROVE  o.state # "Done"
<1>1. ASSUME NEW p, p.state # "Done"
      PROVE  DecPatience(p).state # "Done"
  BY <1>1 DEF DecPatience
<1>2. ASSUME NEW p \in SetState("NeedPrevEnd")
      PROVE  p.state # "Done"
  BY SetStateSets
<1> QED
  BY <1>1, <1>2 DEF OnEnd

\* Silence or garbage never completes a contact.
LEMMA GarbageIsNotDone ==
  ASSUME NEW op, op.state # "Done", NEW isme,
         NEW o \in MsgReceived(op, {"nomsg"}, isme)
  PROVE  o.state # "Done"
BY OnEndIsNotDone
   DEF MsgReceived, AfterHisCall, AfterB4, AfterNr, AfterAgn, AfterTu

\* A new operator is not worked by the first message it hears, as long as that
\* message does not give a number and confirm it as well.
LEMMA FirstMessageIsNotDone ==
  ASSUME NEW op, NEW heard, FitForMore(op, heard), op.state = "NeedPrevEnd",
         NEW msgs, ~({"nr", "tu"} \subseteq msgs), NEW isme \in MyCallCorrect,
         NEW o \in MsgReceived(op, msgs, isme)
  PROVE  o.state # "Done"
<1> DEFINE Early == {"NeedPrevEnd", "NeedQso", "NeedNr", "NeedCallNr"}
<1>1. CASE "cq" \in msgs
  BY <1>1, SetStateSets DEF MsgReceived, OnCq
<1>2. CASE "cq" \notin msgs /\ "nil" \in msgs
  BY <1>2, SetStateSets DEF MsgReceived, OnNil
<1>3. CASE "cq" \notin msgs /\ "nil" \notin msgs
  <2>1. PICK o1 \in AfterHisCall(op, msgs, isme) : \E o2 \in AfterB4(o1, msgs) :
          \E o3 \in AfterNr(o2, msgs) : \E o4 \in AfterAgn(o3, msgs) :
          \E o5 \in AfterTu(o4, msgs) : o \in OnEnd(o5, msgs)
    BY <1>3 DEF MsgReceived
  <2>2. o1.state \in Early /\ \E h : FitForMore(o1, h)
    BY SetStateSets, AfterHisCallFits
       DEF AfterHisCall, OnHisCall, OnMyCall, OnAlmostMyCall, OnOtherCall
  <2>3. PICK o2 \in AfterB4(o1, msgs) :
          \E o3 \in AfterNr(o2, msgs) : \E o4 \in AfterAgn(o3, msgs) :
          \E o5 \in AfterTu(o4, msgs) : o \in OnEnd(o5, msgs)
    BY <2>1
  <2>4. o2.state \in Early /\ \E h : FitForMore(o2, h)
    BY <2>2, AfterB4Fits, SetStateSets DEF AfterB4, OnB4
  <2>5. PICK o3 \in AfterNr(o2, msgs) : \E o4 \in AfterAgn(o3, msgs) :
          \E o5 \in AfterTu(o4, msgs) : o \in OnEnd(o5, msgs)
    BY <2>3
  <2>6. o3.state \in Early \/ ("nr" \in msgs /\ o3.state = "NeedEnd")
    BY <2>4, SetStateSets DEF AfterNr, OnNr
  <2>7. PICK o4 \in AfterAgn(o3, msgs) :
          \E o5 \in AfterTu(o4, msgs) : o \in OnEnd(o5, msgs)
    BY <2>5
  <2>8. o4.state \in Early \/ ("nr" \in msgs /\ o4.state = "NeedEnd")
    <3>1. o3 \in Operator
      BY <2>4, AfterNrFits DEF FitForMore, Fit
    <3>2. o4.state = o3.state \/ o4 = [o3 EXCEPT !.patience = HALF_PATIENCE]
      BY SetStateSets DEF AfterAgn, OnAgn
    <3> QED
      BY <2>6, <3>1, <3>2 DEF Operator
  <2>9. PICK o5 \in AfterTu(o4, msgs) : o \in OnEnd(o5, msgs)
    BY <2>7
  <2>10. o5.state # "Done"
    BY <2>8, SetStateSets DEF AfterTu, OnTu
  <2> QED
    BY <2>9, <2>10, OnEndIsNotDone
<1> QED
  BY <1>1, <1>2, <1>3

-----------------------------------------------------------------------------
(***************************************************************************)
(* The station.                                                            *)
(***************************************************************************)
\* The replies that give the number of the station away.
Reports == {"r_nr", "r_nr2", "demycallnr1", "demycallnr2", "mycallnr2"}

\* What is on the air fits what has been heard, and only a sending station has
\* something on the air.
FairOnAir(st) ==
  /\ st.msg \in Reports => st.heard = {"call", "nr"}
  /\ (st.state = "sending") = (st.msg # "nomsg")

\* A failed operator is on his way out, or was put back to copying.
Retiring(st) ==
  st.oper.state = "Failed" => st.state \in {"deleteme", "copying"}

Sound(st) ==
  /\ st \in Station
  /\ Patient(st.oper)
  /\ Justified(st.oper, st.heard)
  /\ FairOnAir(st)
  /\ Retiring(st)

\* A station that has just been constructed: its operator has no patience yet.
Newborn(st) ==
  /\ st \in Station
  /\ FitForMore(st.oper, st.heard)
  /\ FairOnAir(st)
  /\ st.state = "copying"
  /\ st.oper.state = "NeedPrevEnd"

\* A sending station has something left to play.
Playing(st) == st.state = "sending" => st.left > 0

-----------------------------------------------------------------------------

\* The code's INT32_MAX, as a number.
LEMMA NeverIsAnInt == NEVER \in Int
BY SMT DEF NEVER

LEMMA SoundIsFit ==
  ASSUME NEW st, Sound(st), st.oper.state # "Done"
  PROVE  FitForMore(st.oper, st.heard)
BY DEF Sound, Station, FitForMore, Fit, Patient, Patient0

LEMMA NewStationIsNewborn ==
  ASSUME NEW call \in Calls, NEW late \in BOOLEAN
  PROVE  Newborn(NewStation(call, late))
BY DxOperAssumption, NeverIsAnInt
   DEF Newborn, NewStation, Station, FitForMore, Fit, Patient0, Justified,
       FairOnAir, Reports, NewOperator, Operator, OperatorState, StationState,
       Reply

\* Delivering messages changes the operator and what has been heard, nothing
\* else, and leaves them in agreement.
LEMMA DeliverSound ==
  ASSUME NEW st, st \in Station, FitForMore(st.oper, st.heard),
         NEW msgs, NEW isme \in MyCallCorrect, NEW s \in Deliver(st, msgs, isme)
  PROVE  /\ s \in Station
         /\ Patient(s.oper)
         /\ Justified(s.oper, s.heard)
         /\ s.state = st.state /\ s.msg = st.msg /\ s.left = st.left
         /\ s.timeout = st.timeout /\ s.late = st.late /\ s.call = st.call
<1>1. PICK o \in MsgReceived(st.oper, msgs, isme) :
        s = [st EXCEPT !.oper = o, !.heard = Hear(st.heard, msgs, isme)]
  BY DEF Deliver
<1>2. Fit(o, Hear(st.heard, msgs, isme)) /\ Patient(o)
  BY MsgReceivedFits
<1>3. o \in Operator /\ Hear(st.heard, msgs, isme) \in SUBSET {"call", "nr"}
      /\ Justified(o, Hear(st.heard, msgs, isme))
  BY <1>2 DEF Fit
<1>4. s.oper = o /\ s.heard = Hear(st.heard, msgs, isme)
  BY <1>1 DEF Station
<1> QED
  BY <1>1, <1>2, <1>3, <1>4 DEF Station

LEMMA GetReplyType ==
  ASSUME NEW op, NEW r \in GetReply(op)
  PROVE  /\ r \in Reply
         /\ r \in Reports => op.state \in {"NeedCall", "NeedEnd"}
BY DEF GetReply, Reply, Reports

\* A station with something to say goes on the air and says only what it may.
LEMMA SendReplySound ==
  ASSUME NEW st, Sound(st), st.state = "preparingtosend",
         NEW s \in SendReply(st)
  PROVE  Sound(s) /\ Playing(s) /\ s.late = st.late /\ s.call = st.call
<1>0. PICK t : \E r \in GetReply(st.oper), c \in BOOLEAN :
        t = [st EXCEPT !.called = c] /\ s \in SendMsg(t, r)
  BY DEF SendReply
<1>1. PICK r \in GetReply(st.oper), c \in BOOLEAN :
        t = [st EXCEPT !.called = c] /\ s \in SendMsg(t, r)
  BY <1>0
<1>2. t \in Station /\ t.oper = st.oper /\ t.heard = st.heard
      /\ t.msg = st.msg /\ t.state = st.state /\ t.left = st.left
      /\ t.late = st.late /\ t.call = st.call
  BY <1>1 DEF Sound, Station
<1>3. st.msg = "nomsg" /\ st.oper.state # "Failed"
  BY DEF Sound, FairOnAir, Retiring
<1>4. CASE r = "nomsg"
  <2>1. s = [t EXCEPT !.state = "listening"]
    BY <1>1, <1>4 DEF SendMsg
  <2>2. s \in Station /\ s.oper = st.oper /\ s.heard = st.heard
        /\ s.msg = st.msg /\ s.state = "listening"
        /\ s.late = st.late /\ s.call = st.call
    BY <1>2, <2>1 DEF Station, StationState
  <2> QED
    BY <1>3, <2>2 DEF Sound, FairOnAir, Retiring, Playing, Reports
<1>5. CASE r # "nomsg"
  <2>1. PICK n \in TxLens : s = StationSendText(t, r, n)
    BY <1>1, <1>5 DEF SendMsg
  <2>2. n \in Nat /\ n > 0 /\ NEVER \in Int
    BY DxStationAssumption, NeverIsAnInt
  <2>3. s \in Station /\ s.oper = st.oper /\ s.heard = st.heard
        /\ s.msg = r /\ s.state = "sending" /\ s.left = n
        /\ s.late = st.late /\ s.call = st.call
    BY <1>1, <1>2, <2>1, <2>2, GetReplyType
       DEF StationSendText, Station, StationState
  <2>4. r \in Reports => st.heard = {"call", "nr"}
    BY <1>1, GetReplyType DEF Sound, Justified
  <2> QED
    BY <1>3, <1>5, <2>2, <2>3, <2>4 DEF Sound, FairOnAir, Retiring, Playing
<1> QED
  BY <1>4, <1>5

-----------------------------------------------------------------------------
(* The events. *)

LEMMA OnMsgSentSound ==
  ASSUME NEW st, Sound(st), st.state # "sending", NEW cqSending \in BOOLEAN,
         NEW s \in OnMsgSent(st, cqSending)
  PROVE  /\ Sound(s) /\ Playing(s) /\ s.late = st.late /\ s.call = st.call
         /\ cqSending => st.oper.state = "Done" \/ s.timeout = NEVER
<1>1. CASE s = st /\ st.oper.state = "Done"
  BY <1>1 DEF Playing
<1>2. CASE \E t \in ReplyTimeouts \cup {NEVER} :
              s = [st EXCEPT !.timeout = t] /\ (cqSending => t = NEVER)
  <2> PICK t \in ReplyTimeouts \cup {NEVER} :
         s = [st EXCEPT !.timeout = t] /\ (cqSending => t = NEVER)
    BY <1>2
  <2>1. s = [st EXCEPT !.timeout = t] /\ (cqSending => t = NEVER) /\ t \in Int
    BY DxStationAssumption, NeverIsAnInt
  <2>2. s \in Station /\ s.oper = st.oper /\ s.heard = st.heard
        /\ s.msg = st.msg /\ s.state = st.state
        /\ s.late = st.late /\ s.call = st.call
        /\ s.timeout = t
    BY <2>1 DEF Sound, Station
  <2> QED
    BY <2>1, <2>2 DEF Sound, FairOnAir, Retiring, Playing
<1> QED
  BY <1>1, <1>2 DEF OnMsgSent, ProcessEvent

LEMMA OnTimeoutSound ==
  ASSUME NEW st, Sound(st), st.state # "sending", NEW s \in OnTimeout(st)
  PROVE  Sound(s) /\ Playing(s) /\ s.late = st.late /\ s.call = st.call
<1>1. CASE st.oper.state = "Done"
  BY <1>1 DEF OnTimeout, ProcessEvent, Playing
<1>2. CASE st.oper.state # "Done"
  <2>1. PICK t \in TimedOut(st) :
          s \in (IF t.state = "preparingtosend" THEN SendReply(t) ELSE {t})
    BY <1>2 DEF OnTimeout, ProcessEvent
  <2>2. CASE st.state = "listening"
    <3>1. PICK u \in Deliver(st, {"nomsg"}, "No") :
            t = [u EXCEPT !.state = IF u.oper.state = "Failed" THEN "deleteme"
                                    ELSE "preparingtosend"]
      BY <2>1, <2>2 DEF TimedOut
    <3>2. /\ u \in Station /\ Patient(u.oper) /\ Justified(u.oper, u.heard)
          /\ u.msg = st.msg /\ u.late = st.late /\ u.call = st.call
      BY <1>2, SoundIsFit, DeliverSound DEF Sound, MyCallCorrect
    <3>3. st.msg = "nomsg"
      BY DEF Sound, FairOnAir
    <3>4. /\ t \in Station /\ t.oper = u.oper /\ t.heard = u.heard
          /\ t.msg = u.msg /\ t.late = u.late /\ t.call = u.call
          /\ t.state = IF u.oper.state = "Failed" THEN "deleteme"
                       ELSE "preparingtosend"
      BY <3>1, <3>2 DEF Station, StationState
    <3>5. Sound(t) /\ t.state # "sending"
          /\ t.late = st.late /\ t.call = st.call
      BY <3>2, <3>3, <3>4 DEF Sound, FairOnAir, Retiring, Reports
    <3> QED
      BY <2>1, <3>5, SendReplySound DEF Playing
  <2>3. CASE st.state # "listening"
    BY <2>1, <2>3, SendReplySound DEF TimedOut, Playing
  <2> QED
    BY <2>2, <2>3
<1> QED
  BY <1>1, <1>2

\* A message of the station at the key has ended.  Newborn stations, which have
\* no patience yet, are told of it too.
LEMMA OnMeFinishedSound ==
  ASSUME NEW st, Sound(st) \/ Newborn(st), NEW msgs, NEW isme \in MyCallCorrect,
         NEW s \in OnMeFinished(st, msgs, isme)
  PROVE  /\ Sound(s)
         /\ s.late = st.late /\ s.call = st.call
         /\ s.state = "sending" => s = st
<1>1. CASE st.oper.state = "Done"
  <2>1. Sound(st)
    BY <1>1 DEF Newborn, FitForMore
  <2> QED
    BY <1>1, <2>1 DEF OnMeFinished, ProcessEvent
<1>2. CASE st.oper.state # "Done" /\ st.state = "sending"
  <2>1. Sound(st)
    BY <1>2 DEF Newborn
  <2> QED
    BY <1>2, <2>1 DEF OnMeFinished, ProcessEvent
<1>3. CASE st.oper.state # "Done" /\ st.state # "sending"
  <2>1. st \in Station /\ FitForMore(st.oper, st.heard) /\ st.msg = "nomsg"
    BY <1>3, SoundIsFit DEF Sound, Newborn, FairOnAir
  <2>2. PICK t : /\ \/ t = st /\ Received(st, msgs) = {}
                    \/ \E m \in Received(st, msgs) : t \in Deliver(st, m, isme)
                 /\ s \in AfterReceiving(t)
    BY <1>3 DEF OnMeFinished, ProcessEvent
  <2>3. /\ t \in Station /\ Patient(t.oper) /\ Justified(t.oper, t.heard)
        /\ t.msg = "nomsg" /\ t.late = st.late /\ t.call = st.call
    <3>1. CASE t = st /\ Received(st, msgs) = {}
      <4>1. Sound(st)
        BY <3>1 DEF Received, Newborn
      <4> QED
        BY <2>1, <3>1, <4>1 DEF Sound
    <3>2. CASE \E m \in Received(st, msgs) : t \in Deliver(st, m, isme)
      BY <2>1, <3>2, DeliverSound
    <3> QED
      BY <2>2, <3>1, <3>2
  <2>4. CASE t.oper.state = "Failed"
    <3>1. s = [t EXCEPT !.state = "deleteme"]
      BY <2>2, <2>4 DEF AfterReceiving
    <3>2. /\ s \in Station /\ s.oper = t.oper /\ s.heard = t.heard
          /\ s.msg = "nomsg" /\ s.state = "deleteme"
          /\ s.late = t.late /\ s.call = t.call
      BY <2>3, <3>1 DEF Station, StationState
    <3> QED
      BY <2>3, <3>2 DEF Sound, FairOnAir, Retiring, Reports
  <2>5. CASE t.oper.state # "Failed"
    <3>1. PICK d \in GetSendDelay(t.oper) :
            s = [t EXCEPT !.timeout = d,
                          !.state = IF t.oper.state = "NeedPrevEnd"
                                    THEN "listening" ELSE "preparingtosend"]
      BY <2>2, <2>5 DEF AfterReceiving
    <3>2. d \in Int
      BY DxStationAssumption, NeverIsAnInt DEF GetSendDelay
    <3>3. /\ s \in Station /\ s.oper = t.oper /\ s.heard = t.heard
          /\ s.msg = "nomsg" /\ s.state \in {"listening", "preparingtosend"}
          /\ s.late = t.late /\ s.call = t.call
      BY <2>3, <3>1, <3>2 DEF Station, StationState
    <3> QED
      BY <2>3, <2>5, <3>3 DEF Sound, FairOnAir, Retiring, Reports
  <2> QED
    BY <2>4, <2>5
<1> QED
  BY <1>1, <1>2, <1>3

LEMMA OnMeStartedSound ==
  ASSUME NEW st, Sound(st), Playing(st), NEW s \in OnMeStarted(st)
  PROVE  /\ Sound(s) /\ Playing(s) /\ s.call = st.call
         /\ \/ s = st /\ st.oper.state = "Done"
            \/ s.timeout = NEVER
         /\ s.oper.state = "Done" => s = st
<1>1. CASE st.oper.state = "Done"
  BY <1>1 DEF OnMeStarted, ProcessEvent
<1>2. CASE st.oper.state # "Done" /\ st.state = "sending"
  <2>1. s = [st EXCEPT !.timeout = NEVER, !.late = FALSE]
    BY <1>2 DEF OnMeStarted, ProcessEvent
  <2>2. /\ s \in Station /\ s.oper = st.oper /\ s.heard = st.heard
        /\ s.msg = st.msg /\ s.state = st.state /\ s.left = st.left
        /\ s.timeout = NEVER /\ s.call = st.call
    BY <2>1, NeverIsAnInt DEF Sound, Station
  <2> QED
    BY <1>2, <2>2 DEF Sound, FairOnAir, Retiring, Playing
<1>3. CASE st.oper.state # "Done" /\ st.state # "sending"
  <2> DEFINE q == IF st.oper.state = "NeedQso" THEN "NeedPrevEnd"
                  ELSE st.oper.state
  <2>1. s = [st EXCEPT !.timeout = NEVER, !.late = FALSE, !.state = "copying",
                       !.oper.state = q]
    BY <1>3 DEF OnMeStarted, ProcessEvent
  <2>2. st \in Station /\ st.oper \in Operator
    BY DEF Sound, Station
  <2>3. s.oper = [st.oper EXCEPT !.state = q]
    BY <2>1, <2>2 DEF Station
  <2>4. s.oper \in Operator /\ s.oper.state = q
        /\ s.oper.patience = st.oper.patience
    BY <2>2, <2>3 DEF Operator, OperatorState
  <2>5. /\ s \in Station /\ s.heard = st.heard /\ s.msg = st.msg
        /\ s.state = "copying" /\ s.timeout = NEVER /\ s.call = st.call
    BY <2>1, <2>2, <2>4, NeverIsAnInt DEF Station, StationState
  <2> QED
    BY <1>3, <2>4, <2>5
       DEF Sound, Patient, Justified, FairOnAir, Retiring, Playing
<1> QED
  BY <1>1, <1>2, <1>3

-----------------------------------------------------------------------------

LEMMA GetBufferSound ==
  ASSUME NEW st, Sound(st), Playing(st)
  PROVE  /\ Sound(GetBuffer(st))
         /\ GetBuffer(st).state = st.state
         /\ GetBuffer(st).timeout = st.timeout
         /\ GetBuffer(st).oper = st.oper
         /\ GetBuffer(st).late = st.late
         /\ GetBuffer(st).call = st.call
<1> DEFINE s == GetBuffer(st)
<1>1. /\ s \in Station /\ s.oper = st.oper /\ s.heard = st.heard
      /\ s.msg = st.msg /\ s.state = st.state /\ s.timeout = st.timeout
      /\ s.late = st.late /\ s.call = st.call
  BY DEF Sound, Station, Playing, GetBuffer
<1> QED
  BY <1>1 DEF Sound, FairOnAir, Retiring

\* One buffer of time for a station, whatever it is doing.
LEMMA TickSound ==
  ASSUME NEW st, Sound(st), NEW cqSending \in BOOLEAN,
         NEW s \in Tick(st, cqSending)
  PROVE  Sound(s) /\ Playing(s) /\ s.late = st.late /\ s.call = st.call
<1>1. CASE st.state = "sending" /\ st.left = 0
  <2> DEFINE t == [st EXCEPT !.state = "listening", !.msg = "nomsg"]
  <2>1. /\ t \in Station /\ t.oper = st.oper /\ t.heard = st.heard
        /\ t.msg = "nomsg" /\ t.state = "listening"
        /\ t.late = st.late /\ t.call = st.call
    BY DEF Sound, Station, StationState, Reply
  <2>2. st.oper.state # "Failed"
    BY <1>1 DEF Sound, Retiring
  <2>3. Sound(t)
    BY <2>1, <2>2 DEF Sound, FairOnAir, Retiring, Reports
  <2>4. s \in OnMsgSent(t, cqSending)
    BY <1>1 DEF Tick
  <2> QED
    BY <2>1, <2>3, <2>4, OnMsgSentSound
<1>2. CASE st.state = "sending" /\ st.left # 0
  BY <1>2 DEF Tick, Playing, Sound, Station
<1>3. CASE st.state # "sending" /\ st.timeout = NEVER
  BY <1>3 DEF Tick, Playing
<1>4. CASE st.state # "sending" /\ st.timeout # NEVER
  <2>1. ASSUME NEW n \in Int, NEW t, t = [st EXCEPT !.timeout = n]
        PROVE  Sound(t) /\ t.state = st.state
               /\ t.late = st.late /\ t.call = st.call
    <3>1. /\ t \in Station /\ t.oper = st.oper /\ t.heard = st.heard
          /\ t.msg = st.msg /\ t.state = st.state
          /\ t.late = st.late /\ t.call = st.call
      BY <2>1 DEF Sound, Station
    <3> QED
      BY <3>1 DEF Sound, FairOnAir, Retiring
  <2>2. CASE st.timeout > 0
    <3>1. s = [st EXCEPT !.timeout = st.timeout - 1]
      BY <1>4, <2>2 DEF Tick
    <3>2. st.timeout - 1 \in Int
      BY DEF Sound, Station
    <3> QED
      BY <1>4, <2>1, <3>1, <3>2 DEF Playing
  <2>3. CASE ~(st.timeout > 0)
    <3>1. s \in OnTimeout([st EXCEPT !.timeout = -1])
      BY <1>4, <2>3 DEF Tick
    <3> QED
      BY <1>4, <2>1, <3>1, OnTimeoutSound
  <2> QED
    BY <2>2, <2>3
<1> QED
  BY <1>1, <1>2, <1>3, <1>4

\* While the station at the key is sending, a station that waits goes on
\* waiting, and one that finishes its own message begins to wait.
LEMMA TickWaits ==
  ASSUME NEW st, Sound(st), st.state # "sending" => st.timeout = NEVER,
         st.oper.state = "Done" => st.state # "sending",
         NEW s \in Tick(st, TRUE)
  PROVE  s.state # "sending" => s.timeout = NEVER
<1>1. CASE st.state = "sending" /\ st.left = 0
  <2> DEFINE t == [st EXCEPT !.state = "listening", !.msg = "nomsg"]
  <2>1. t.oper = st.oper /\ t \in Station /\ s \in OnMsgSent(t, TRUE)
    BY <1>1 DEF Tick, Sound, Station, StationState, Reply
  <2>2. s = [t EXCEPT !.timeout = NEVER]
    BY <1>1, <2>1 DEF OnMsgSent, ProcessEvent
  <2> QED
    BY <2>1, <2>2 DEF Station
<1>2. CASE s = st
  BY <1>2
<1> QED
  BY <1>1, <1>2 DEF Tick

-----------------------------------------------------------------------------
(* Where contacts are completed, and where they are not. *)

LEMMA DeliverOperator ==
  ASSUME NEW st \in Station, NEW msgs, NEW isme, NEW s \in Deliver(st, msgs, isme)
  PROVE  s.oper \in MsgReceived(st.oper, msgs, isme)
<1>1. PICK o \in MsgReceived(st.oper, msgs, isme) :
        s = [st EXCEPT !.oper = o, !.heard = Hear(st.heard, msgs, isme)]
  BY DEF Deliver
<1>2. s.oper = o
  BY <1>1 DEF Station
<1> QED
  BY <1>2

LEMMA SendReplyKeepsOperator ==
  ASSUME NEW st \in Station, NEW s \in SendReply(st)
  PROVE  s.oper = st.oper
<1>0. PICK t : \E r \in GetReply(st.oper), c \in BOOLEAN :
        t = [st EXCEPT !.called = c] /\ s \in SendMsg(t, r)
  BY DEF SendReply
<1>1. PICK r \in GetReply(st.oper), c \in BOOLEAN :
        t = [st EXCEPT !.called = c] /\ s \in SendMsg(t, r)
  BY <1>0
<1>2. t.oper = st.oper /\ t \in Station
  BY <1>1 DEF Station
<1>3. s.oper = t.oper
  BY <1>1, <1>2 DEF SendMsg, StationSendText, Station
<1> QED
  BY <1>2, <1>3

LEMMA DeliverGarbage ==
  ASSUME NEW st \in Station, st.oper.state # "Done", NEW isme,
         NEW s \in Deliver(st, {"nomsg"}, isme)
  PROVE  s.oper.state # "Done"
BY DeliverOperator, GarbageIsNotDone

LEMMA AfterReceivingKeepsOperator ==
  ASSUME NEW st \in Station, NEW s \in AfterReceiving(st)
  PROVE  s.oper = st.oper
BY DEF AfterReceiving, Station

\* An abort (mefinished with garbage) completes no contact.
LEMMA GarbageEndsNothing ==
  ASSUME NEW st, Sound(st), NEW isme \in MyCallCorrect,
         NEW s \in OnMeFinished(st, {"nomsg"}, isme), s.oper.state = "Done"
  PROVE  s = st
<1>1. CASE st.oper.state = "Done" \/ st.state = "sending"
  BY <1>1 DEF OnMeFinished, ProcessEvent
<1>2. CASE st.oper.state # "Done" /\ st.state # "sending"
  <2>1. PICK t : /\ t = st \/ t \in Deliver(st, {"nomsg"}, isme)
                 /\ s \in AfterReceiving(t)
    BY <1>2 DEF OnMeFinished, ProcessEvent, Received
  <2>2. t \in Station /\ t.oper.state # "Done"
    BY <1>2, <2>1, DeliverGarbage, SoundIsFit, DeliverSound DEF Sound
  <2> QED
    BY <2>1, <2>2, AfterReceivingKeepsOperator
<1> QED
  BY <1>1, <1>2

\* A station is not worked by the message it was born at the end of.
LEMMA NewbornIsNotDone ==
  ASSUME NEW st, Newborn(st), NEW msgs, ~({"nr", "tu"} \subseteq msgs),
         NEW isme \in MyCallCorrect, NEW s \in OnMeFinished(st, msgs, isme)
  PROVE  s.oper.state # "Done"
<1>1. PICK t \in Deliver(st, msgs, isme) : s \in AfterReceiving(t)
  BY DEF OnMeFinished, ProcessEvent, Received, Newborn
<1>2. PICK o \in MsgReceived(st.oper, msgs, isme) :
        t = [st EXCEPT !.oper = o, !.heard = Hear(st.heard, msgs, isme)]
  BY <1>1 DEF Deliver
<1>3. t.oper = o
  BY <1>2 DEF Newborn, Station
<1>4. t \in Station
  BY <1>1, DeliverSound DEF Newborn
<1>5. o.state # "Done"
  BY <1>2, FirstMessageIsNotDone DEF Newborn
<1> QED
  BY <1>1, <1>3, <1>4, <1>5, AfterReceivingKeepsOperator

\* Who is done when the event begins stays as he is (processEvent).
LEMMA DoneIsFinal ==
  ASSUME NEW st, st.oper.state = "Done", NEW out,
         NEW s \in ProcessEvent(st, out)
  PROVE  s = st
BY DEF ProcessEvent

\* What a timeout makes of the operator: nothing, or he has heard silence.
LEMMA OnTimeoutOperator ==
  ASSUME NEW st, Sound(st), NEW s \in OnTimeout(st)
  PROVE  \/ s.oper = st.oper
         \/ /\ st.oper.state # "Done"
            /\ s.oper \in MsgReceived(st.oper, {"nomsg"}, "No")
<1>1. CASE st.oper.state = "Done"
  BY <1>1, DoneIsFinal DEF OnTimeout
<1>2. CASE st.oper.state # "Done"
  <2>1. PICK t \in TimedOut(st) :
          s \in (IF t.state = "preparingtosend" THEN SendReply(t) ELSE {t})
    BY <1>2 DEF OnTimeout, ProcessEvent
  <2>2. t \in Station
        /\ (t.oper = st.oper \/ t.oper \in MsgReceived(st.oper, {"nomsg"}, "No"))
    <3>1. CASE st.state = "listening"
      <4>1. PICK u \in Deliver(st, {"nomsg"}, "No") :
              t = [u EXCEPT !.state = IF u.oper.state = "Failed" THEN "deleteme"
                                      ELSE "preparingtosend"]
        BY <2>1, <3>1 DEF TimedOut
      <4>2. u \in Station
        BY <1>2, <4>1, SoundIsFit, DeliverSound DEF Sound, MyCallCorrect
      <4>3. t \in Station /\ t.oper = u.oper
        BY <4>1, <4>2 DEF Station, StationState
      <4>4. u.oper \in MsgReceived(st.oper, {"nomsg"}, "No")
        BY DeliverOperator DEF Sound
      <4> QED
        BY <4>3, <4>4
    <3>2. CASE st.state # "listening"
      BY <2>1, <3>2 DEF TimedOut, Sound
    <3> QED
      BY <3>1, <3>2
  <2>3. s.oper = t.oper
    BY <2>1, <2>2, SendReplyKeepsOperator
  <2> QED
    BY <1>2, <2>2, <2>3
<1> QED
  BY <1>1, <1>2

\* What a buffer of time makes of the operator: nothing, or he has heard
\* silence.
LEMMA TickOperator ==
  ASSUME NEW st, Sound(st), NEW cqSending \in BOOLEAN,
         NEW s \in Tick(st, cqSending)
  PROVE  \/ s.oper = st.oper
         \/ /\ st.oper.state # "Done"
            /\ s.oper \in MsgReceived(st.oper, {"nomsg"}, "No")
<1>1. CASE st.state = "sending" /\ st.left = 0
  <2> DEFINE t == [st EXCEPT !.state = "listening", !.msg = "nomsg"]
  <2>1. t.oper = st.oper /\ t \in Station
    BY DEF Sound, Station, StationState, Reply
  <2>2. s \in OnMsgSent(t, cqSending)
    BY <1>1 DEF Tick
  <2> HIDE DEF t
  <2>3. s.oper = t.oper
    BY <2>1, <2>2 DEF OnMsgSent, ProcessEvent, Station
  <2> QED
    BY <2>1, <2>3
<1>2. CASE s = st
  BY <1>2
<1>3. CASE st.state # "sending" /\ st.timeout > 0
           /\ s = [st EXCEPT !.timeout = st.timeout - 1]
  BY <1>3 DEF Sound, Station
<1>4. CASE st.state # "sending" /\ s \in OnTimeout([st EXCEPT !.timeout = -1])
  <2>1. PICK t : t = [st EXCEPT !.timeout = -1] /\ s \in OnTimeout(t)
    BY <1>4
  <2>2. /\ t \in Station /\ t.oper = st.oper /\ t.heard = st.heard
        /\ t.msg = st.msg /\ t.state = st.state
    BY <2>1 DEF Sound, Station
  <2>3. Sound(t)
    BY <2>2 DEF Sound, FairOnAir, Retiring
  <2> QED
    BY <2>1, <2>2, <2>3, OnTimeoutOperator
<1> QED
  BY <1>1, <1>2, <1>3, <1>4 DEF Tick

\* The passing of time completes no contact.
LEMMA TickEndsNothing ==
  ASSUME NEW st, Sound(st), NEW cqSending \in BOOLEAN,
         NEW s \in Tick(st, cqSending)
  PROVE  (s.oper.state = "Done") = (st.oper.state = "Done")
BY TickOperator, GarbageIsNotDone

\* Who is done is not on the air.
LEMMA TickDoneIsOffAir ==
  ASSUME NEW st, Sound(st), st.oper.state = "Done", st.state # "sending",
         NEW cqSending \in BOOLEAN, NEW s \in Tick(st, cqSending)
  PROVE  s.state = st.state
<1>1. \A n \in Int : [st EXCEPT !.timeout = n].state = st.state
                     /\ [st EXCEPT !.timeout = n].oper = st.oper
  BY DEF Sound, Station
<1>2. CASE s = st
  BY <1>2
<1>3. CASE s = [st EXCEPT !.timeout = st.timeout - 1]
  BY <1>3 DEF Sound, Station
<1>4. CASE s \in OnTimeout([st EXCEPT !.timeout = -1])
  <2>1. PICK t : t = [st EXCEPT !.timeout = -1] /\ s \in OnTimeout(t)
    BY <1>4
  <2>2. t.state = st.state /\ t.oper = st.oper
    BY <1>1, <2>1
  <2>3. s = t
    BY <2>1, <2>2, DoneIsFinal DEF OnTimeout
  <2> QED
    BY <2>2, <2>3
<1> QED
  BY <1>2, <1>3, <1>4 DEF Tick

=============================================================================
