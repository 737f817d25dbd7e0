------------------------------- MODULE DxOper -------------------------------
(***************************************************************************)
(* The operator behind a DX station (dxoper.h, dxoper.cpp): an eight-state *)
(* machine with a patience counter.  It is driven by the messages the CQ   *)
(* station has just sent and decides what the DX station answers.          *)
(*                                                                         *)
(* An operator is a record [state, patience].  Every operation that draws  *)
(* a random number is written as the SET of its possible results.          *)
(* repeatCnt (one call or two in the same transmission) only changes how   *)
(* long a transmission lasts, and is left to the transmission lengths of   *)
(* module DxStation.                                                       *)
(***************************************************************************)
EXTENDS Integers

CONSTANTS FULL_PATIENCE,  \* DxOperator::FULL_PATIENCE, 8 in the code
          Lids,           \* are the operators careless?
          NoRepeats       \* configuration "norepeats": shortest messages

ASSUME DxOperAssumption ==
  /\ FULL_PATIENCE \in Nat \ {0, 1}
  /\ Lids \in BOOLEAN
  /\ NoRepeats \in BOOLEAN

OperatorState == {"NeedPrevEnd", "NeedQso", "NeedNr", "NeedCall",
                  "NeedCallNr", "NeedEnd", "Done", "Failed"}

MyCallCorrect == {"Yes", "No", "Almost"}

\* What the CQ station can say.
Message == {"nomsg", "cq", "nr", "tu", "hiscall", "b4", "qm", "nil",
            "nrqm", "agn"}

\* What a DX station can answer.
Reply == {"nomsg", "mycall", "nrqm", "agn", "demycall1", "demycall2",
          "demycallnr1", "demycallnr2", "mycallnr2", "r_nr", "r_nr2"}

HALF_PATIENCE == FULL_PATIENCE \div 2

Operator == [state : OperatorState, patience : -1 .. FULL_PATIENCE]

\* The constructor: nothing heard yet, and no patience.
NewOperator == [state |-> "NeedPrevEnd", patience |-> 0]

-----------------------------------------------------------------------------

\* setState: a new state comes with fresh patience, a random amount of it
\* when the operator starts calling.
SetState(newState) ==
  [state    : {newState},
   patience : IF newState = "NeedQso"
              THEN HALF_PATIENCE .. HALF_PATIENCE + HALF_PATIENCE
              ELSE {FULL_PATIENCE}]

DecPatience(op) ==
  IF op.state = "Done" THEN op
  ELSE [state    |-> IF op.patience - 1 < 1 THEN "Failed" ELSE op.state,
        patience |-> op.patience - 1]

-----------------------------------------------------------------------------
(***************************************************************************)
(* msgReceived.  A cq or a nil is the whole message; anything else goes    *)
(* through the tests for hiscall, b4, nr, agn and tu one after the other,  *)
(* so that one transmission ("W1AW 5NN 001") can move the operator twice.  *)
(***************************************************************************)
OnCq(op) ==
  CASE op.state = "NeedPrevEnd" -> SetState("NeedQso")
    [] op.state = "NeedQso"     -> {DecPatience(op)}
    [] op.state \in {"NeedNr", "NeedCall", "NeedCallNr"} -> SetState("Failed")
    [] op.state = "NeedEnd"     -> SetState("Done")
    [] OTHER                    -> {op}

OnNil(op) ==
  CASE op.state = "NeedPrevEnd" -> SetState("NeedQso")
    [] op.state = "NeedQso"     -> {DecPatience(op)}
    [] op.state \in {"NeedNr", "NeedCall", "NeedCallNr", "NeedEnd"} ->
         SetState("Failed")
    [] OTHER                    -> {op}

\* A call has been sent; isme is what this operator makes of it: his own
\* call, something close to it, or somebody else's.
OnMyCall(op) ==
  CASE op.state \in {"NeedPrevEnd", "NeedQso", "NeedCallNr"} ->
         SetState("NeedNr")
    [] op.state = "NeedCall" -> SetState("NeedEnd")
    [] OTHER -> {[op EXCEPT !.patience = FULL_PATIENCE]}

OnAlmostMyCall(op) ==
  CASE op.state \in {"NeedPrevEnd", "NeedQso", "NeedNr"} ->
         SetState("NeedCallNr")
    [] op.state = "NeedEnd" -> SetState("NeedCall")
    [] OTHER -> {[op EXCEPT !.patience = HALF_PATIENCE]}

\* Mutant: who waits for a number does not back off from another's call.
OnOtherCallKeepsWaiting(op) ==
  CASE op.state = "NeedQso" -> SetState("NeedPrevEnd")
    [] op.state = "NeedEnd" -> SetState("Failed")
    [] OTHER -> {op}

OnOtherCall(op) ==
  CASE op.state \in {"NeedQso", "NeedNr", "NeedCall", "NeedCallNr"} ->
         SetState("NeedPrevEnd")
    [] op.state = "NeedEnd" -> SetState("Failed")
    [] OTHER -> {op}

OnHisCall(op, isme) ==
  CASE isme = "Yes"    -> OnMyCall(op)
    [] isme = "Almost" -> OnAlmostMyCall(op)
    [] OTHER           -> OnOtherCall(op)

OnB4(op) ==
  CASE op.state \in {"NeedPrevEnd", "NeedQso"} -> SetState("NeedQso")
    [] op.state \in {"NeedNr", "NeedCall", "NeedCallNr"} ->
         SetState("NeedPrevEnd")
    [] op.state = "NeedEnd" -> SetState("Failed")
    [] OTHER -> {op}

\* Mutant: an operator that got only a part of its call takes the number for
\* its own.
OnNrPartialCall(op) ==
  CASE op.state = "NeedQso" -> SetState("NeedPrevEnd")
    [] op.state \in {"NeedNr", "NeedCallNr"} -> SetState("NeedEnd")
    [] OTHER -> {op}

\* The number counts only for an operator that was called with its full call;
\* unless repeats are off it may miss it (rptProb).
OnNr(op) ==
  CASE op.state = "NeedQso" -> SetState("NeedPrevEnd")
    [] op.state = "NeedNr"  -> SetState("NeedEnd")
                                 \cup (IF NoRepeats THEN {} ELSE {op})
    [] OTHER -> {op}

OnAgn(op) ==
  IF op.state = "NeedEnd" THEN SetState("NeedEnd")
  ELSE {[op EXCEPT !.patience = HALF_PATIENCE]}

OnTu(op) ==
  CASE op.state = "NeedPrevEnd" -> SetState("NeedQso")
    [] op.state = "NeedEnd"     -> SetState("Done")
    [] OTHER -> {op}

\* Mutants: careless operators give up on garbage like the others; silence
\* costs a caller nothing.
OnEndForgetsLids(op, msgs) ==
  IF op.state = "NeedQso" /\ msgs = {"nomsg"} THEN {DecPatience(op)}
  ELSE {IF o.state = "NeedPrevEnd" THEN DecPatience(o) ELSE o :
          o \in IF msgs = {"nomsg"} THEN SetState("NeedPrevEnd") ELSE {op}}
OnEndForgetsPatience(op, msgs) ==
  IF op.state = "NeedQso" /\ msgs = {"nomsg"} THEN {op}
  ELSE {IF o.state = "NeedPrevEnd" THEN DecPatience(o) ELSE o :
          o \in IF ~Lids /\ msgs = {"nomsg"} THEN SetState("NeedPrevEnd")
                ELSE {op}}

\* The end of msgReceived: silence or garbage costs a caller patience and
\* makes a careful operator give up the contact; waiting costs patience.
OnEnd(op, msgs) ==
  IF op.state = "NeedQso" /\ msgs = {"nomsg"} THEN {DecPatience(op)}
  ELSE {IF o.state = "NeedPrevEnd" THEN DecPatience(o) ELSE o :
          o \in IF ~Lids /\ msgs = {"nomsg"} THEN SetState("NeedPrevEnd")
                ELSE {op}}

AfterHisCall(op, msgs, isme) ==
  IF "hiscall" \in msgs THEN OnHisCall(op, isme) ELSE {op}

AfterB4(op, msgs) == IF "b4" \in msgs THEN OnB4(op) ELSE {op}

AfterNr(op, msgs) == IF "nr" \in msgs THEN OnNr(op) ELSE {op}

AfterAgn(op, msgs) ==
  IF {"agn", "nrqm"} \cap msgs # {} THEN OnAgn(op) ELSE {op}

AfterTu(op, msgs) == IF "tu" \in msgs THEN OnTu(op) ELSE {op}

\* msgs: the messages of the transmission (a set: none occurs twice).
MsgReceived(op, msgs, isme) ==
  IF "cq" \in msgs THEN OnCq(op)
  ELSE IF "nil" \in msgs THEN OnNil(op)
  ELSE UNION {OnEnd(o5, msgs) : o5 \in
       UNION {AfterTu(o4, msgs) : o4 \in
       UNION {AfterAgn(o3, msgs) : o3 \in
       UNION {AfterNr(o2, msgs) : o2 \in
       UNION {AfterB4(o1, msgs) : o1 \in AfterHisCall(op, msgs, isme)}}}}}

-----------------------------------------------------------------------------

\* Mutant: an operator corrects his call and sends his number along with it
\* before he has been given one.
GetReplyTooMuch(op) ==
  CASE op.state = "NeedQso" -> {"mycall"}
    [] op.state = "NeedNr"  -> {"nrqm", "agn"}
    [] op.state \in {"NeedCall", "NeedCallNr"} -> {"demycallnr1"}
    [] op.state = "NeedEnd" -> {"r_nr"}
    [] OTHER                -> {"nomsg"}

\* getReply: the possible answers of an operator.
GetReply(op) ==
  CASE op.state = "NeedQso"    -> {"mycall"}
    [] op.state = "NeedNr"     -> IF op.patience = FULL_PATIENCE - 1
                                  THEN {"nrqm"} ELSE {"nrqm", "agn"}
    [] op.state = "NeedCall"   -> {"demycallnr1"} \cup
                                  (IF NoRepeats THEN {}
                                   ELSE {"demycallnr2", "mycallnr2"})
    [] op.state = "NeedCallNr" -> {"demycall1"} \cup
                                  (IF NoRepeats THEN {} ELSE {"demycall2"})
    [] op.state = "NeedEnd"    -> {"r_nr"} \cup
                                  (IF NoRepeats \/ op.patience = FULL_PATIENCE - 1
                                   THEN {} ELSE {"r_nr2"})
    [] OTHER                   -> {"nomsg"}

=============================================================================
