----------------------------- MODULE DxStation -----------------------------
(***************************************************************************)
(* One DX station (dxstation.h, dxstation.cpp) and the part of its base    *)
(* class it runs on (station.cpp): a transmitter with a timeout, driven by *)
(* four events, and the operator of module DxOper behind it.               *)
(*                                                                         *)
(* A station is a record; a handler maps it to the SET of records it may   *)
(* become, one for every outcome of the random draws.  Time is counted in  *)
(* audio buffers, as in the code.                                          *)
(***************************************************************************)
EXTENDS DxOper

CONSTANTS Calls,          \* the call signs of the call list
          SendDelays,     \* what getSendDelay may return, NEVER apart
          ReplyTimeouts,  \* what getReplyTimeout may return
          TxLens          \* length of a transmission, in buffers

NEVER == 2147483647       \* INT32_MAX

ASSUME DxStationAssumption ==
  /\ SendDelays \subseteq 0 .. NEVER - 1 /\ SendDelays # {}
  /\ ReplyTimeouts \subseteq 0 .. NEVER - 1 /\ ReplyTimeouts # {}
  /\ TxLens \subseteq Nat \ {0} /\ TxLens # {}

StationState == {"listening", "copying", "preparingtosend", "sending",
                 "deleteme"}

(***************************************************************************)
(* left is what remains of the envelope, msg what is being sent ("nomsg"   *)
(* when nothing is).  timeout is the code's, except that every negative    *)
(* value is -1: tick only asks whether it is negative.                     *)
(*                                                                         *)
(* Two fields are auxiliary, no handler reads them.  heard is what has     *)
(* come through for this station since another call was sent: its full     *)
(* call, then a number.  late says the station was born while the CQ       *)
(* station was sending, too late for its mestarted event.                  *)
(***************************************************************************)
Station ==
  [call    : Calls,
   state   : StationState,
   timeout : Int,
   left    : Nat,
   msg     : Reply,
   called  : BOOLEAN,
   oper    : Operator,
   heard   : SUBSET {"call", "nr"},
   late    : BOOLEAN]

\* The constructor.
NewStation(call, late) ==
  [call |-> call, state |-> "copying", timeout |-> NEVER, left |-> 0,
   msg |-> "nomsg", called |-> FALSE, oper |-> NewOperator, heard |-> {},
   late |-> late]

-----------------------------------------------------------------------------

\* sendText: an envelope of n buffers.
StationSendText(st, msg, n) ==
  [st EXCEPT !.state = "sending", !.timeout = NEVER, !.left = n, !.msg = msg]

\* sendMsg
SendMsg(st, reply) ==
  IF reply = "nomsg" THEN {[st EXCEPT !.state = "listening"]}
  ELSE {StationSendText(st, reply, n) : n \in TxLens}

\* getSendDelay
GetSendDelay(op) ==
  IF op.state = "NeedPrevEnd" THEN {NEVER} ELSE SendDelays

\* The answer of the operator goes on the air.  (It is asked repeatCnt times,
\* but only a caller, who always says mycall, has a repeatCnt of two.)
SendReply(st) ==
  UNION {SendMsg([st EXCEPT !.called = st.called \/ reply # "nomsg"], reply) :
           reply \in GetReply(st.oper)}

\* What a station has heard once the messages msgs have been delivered to it:
\* first the call in them, then the number.
HearCall(heard, msgs, isme) ==
  IF "hiscall" \notin msgs THEN heard
  ELSE CASE isme = "Yes"    -> heard \cup {"call"}
         [] isme = "Almost" -> heard
         [] OTHER           -> {}

HearNr(heard, msgs) ==
  IF "nr" \in msgs /\ "call" \in heard THEN heard \cup {"nr"} ELSE heard

Hear(heard, msgs, isme) ==
  IF {"cq", "nil"} \cap msgs # {} THEN heard
  ELSE HearNr(HearCall(heard, msgs, isme), msgs)

\* oper->msgReceived(msgs)
Deliver(st, msgs, isme) ==
  {[st EXCEPT !.oper = op, !.heard = Hear(@, msgs, isme)] :
     op \in MsgReceived(st.oper, msgs, isme)}

-----------------------------------------------------------------------------
\* Mutant of ProcessEvent: no guard for Done.
ProcessEventAlways(st, outcomes) == outcomes

(***************************************************************************)
(* processEvent, one operator per event.  Done is final: a station whose   *)
(* contact is complete ignores every event.                                *)
(***************************************************************************)
ProcessEvent(st, outcomes) ==
  IF st.oper.state = "Done" THEN {st} ELSE outcomes

\* Mutant: the CQ station is not looked at.
OnMsgSentBlind(st, cqSending) ==
  ProcessEvent(st, {[st EXCEPT !.timeout = t] : t \in ReplyTimeouts})

\* msgsent: our own message is out.
OnMsgSent(st, cqSending) ==
  ProcessEvent(st,
    {[st EXCEPT !.timeout = t] :
       t \in IF cqSending THEN {NEVER} ELSE ReplyTimeouts})

\* Mutant: a failed operator is kept on the band.
TimedOutKeepsFailed(st) ==
  IF st.state = "listening"
  THEN {[s EXCEPT !.state = "preparingtosend"] :
          s \in Deliver(st, {"nomsg"}, "No")}
  ELSE {st}

\* What a timeout makes of a listening station, up to its answer.
TimedOut(st) ==
  IF st.state = "listening"
  THEN {[s EXCEPT !.state = IF s.oper.state = "Failed" THEN "deleteme"
                            ELSE "preparingtosend"] :
          s \in Deliver(st, {"nomsg"}, "No")}
  ELSE {st}

OnTimeout(st) ==
  ProcessEvent(st,
    UNION {IF s.state = "preparingtosend" THEN SendReply(s) ELSE {s} :
             s \in TimedOut(st)})

\* The messages that reach a station: all of them if it was copying; else only
\* a message with a cq, tu or nil is understood, anything else is garbage.
Received(st, msgs) ==
  CASE st.state = "copying" -> {msgs}
    [] st.state \in {"listening", "preparingtosend"} ->
         IF {"cq", "tu", "nil"} \cap msgs # {} THEN {msgs} ELSE {{"nomsg"}}
    [] OTHER -> {}

\* A station decides what to do about the message it has just been given.
AfterReceiving(st) ==
  IF st.oper.state = "Failed"
  THEN {[st EXCEPT !.state = "deleteme"]}
  ELSE {[st EXCEPT !.timeout = d,
                   !.state = IF st.oper.state = "NeedPrevEnd"
                             THEN "listening" ELSE "preparingtosend"] :
          d \in GetSendDelay(st.oper)}

\* mefinished: the CQ station has stopped sending.  isme: what this operator
\* makes of the call in the message, if there is one.
OnMeFinished(st, msgs, isme) ==
  ProcessEvent(st,
    IF st.state = "sending" THEN {st}
    ELSE LET got == Received(st, msgs)
         IN  UNION {AfterReceiving(s) :
               s \in IF got = {} THEN {st}
                     ELSE UNION {Deliver(st, m, isme) : m \in got}})

\* mestarted: the CQ station has started sending; a caller backs off.
OnMeStarted(st) ==
  ProcessEvent(st,
    {IF st.state = "sending"
     THEN [st EXCEPT !.timeout = NEVER, !.late = FALSE]
     ELSE [st EXCEPT !.timeout = NEVER, !.late = FALSE, !.state = "copying",
                     !.oper.state = IF @ = "NeedQso" THEN "NeedPrevEnd"
                                    ELSE @]})

-----------------------------------------------------------------------------

\* Mutant: every station plays a buffer.
GetBufferAlways(st) == [st EXCEPT !.left = @ - 1]

\* get_buffer: one more buffer of the envelope is played.
GetBuffer(st) ==
  IF st.state = "sending" THEN [st EXCEPT !.left = @ - 1] ELSE st

\* tick: the end of a transmission, or one buffer less to wait.
Tick(st, cqSending) ==
  IF st.state = "sending"
  THEN IF st.left = 0
       THEN OnMsgSent([st EXCEPT !.state = "listening", !.msg = "nomsg"],
                      cqSending)
       ELSE {st}
  ELSE IF st.timeout = NEVER THEN {st}
  ELSE IF st.timeout > 0 THEN {[st EXCEPT !.timeout = @ - 1]}
  ELSE OnTimeout([st EXCEPT !.timeout = -1])

\* Mutant: a worked station is not marked.
DataToLastQsoUnmarked(st) == st

\* dataToLastQso: a worked station is on its way out.
DataToLastQso(st) == [st EXCEPT !.state = "deleteme"]

=============================================================================
