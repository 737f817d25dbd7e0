----------------------------- MODULE MyStation -----------------------------
(***************************************************************************)
(* The station of the person at the key (mystation.h, mystation.cpp), as   *)
(* the other stations know it: is it sending, for how much longer, and     *)
(* what has it said.                                                       *)
(*                                                                         *)
(* A text is a sequence of parts, a blank being a part of its own: "CQ     *)
(* TEST" is <<"CQ", " ", "TEST">>.  The code searches for strings, and     *)
(* finds them inside words too: a text is cut so that all the code looks   *)
(* for begins and ends at a cut, the call W1AGN being <<"W1", "AGN">> and  *)
(* the question NR? <<"NR", "?">>.                                         *)
(*                                                                         *)
(* How the text is cut into pieces and played is left to the transmission  *)
(* length; updateCallInMessage is never called by the daemon.              *)
(***************************************************************************)
EXTENDS Integers, Sequences

CONSTANTS Texts,      \* what the loggers send: sequences of parts
          MeLens,     \* how many buffers a text takes
          MaxLeft,    \* bound of the model on what is left to play
          MaxWords    \* bound of the model on the parts of one message

Blank == " "

\* Blank is a string: the provers know it of no literal.
ASSUME MyStationAssumption ==
  /\ Blank \in STRING
  /\ Texts \subseteq Seq(STRING)
  /\ MeLens \subseteq Nat \ {0}
  /\ MaxLeft \in Nat
  /\ MaxWords \in Nat

MeMessage == {"nomsg", "cq", "nr", "tu", "hiscall", "qm", "nrqm", "agn"}

(***************************************************************************)
(* text is full_text, msgs what it was taken for, hiscall the call in it,  *)
(* left what remains to be played.  full_text is dead once the message is  *)
(* over, and hiscall in a message without a call: the model forgets them   *)
(* there.                                                                  *)
(***************************************************************************)
Me == [state   : {"listening", "sending"},
       text    : Seq(STRING),
       msgs    : SUBSET MeMessage,
       hiscall : Seq(STRING),
       left    : Nat]

NewMe == [state |-> "listening", text |-> <<>>, msgs |-> {},
          hiscall |-> <<>>, left |-> 0]

-----------------------------------------------------------------------------

\* Where in text the pattern is: find(pattern) gives the first of these places.
FoundAt(text, pattern) ==
  {i \in 1 .. Len(text) - Len(pattern) + 1 :
     SubSeq(text, i, i + Len(pattern) - 1) = pattern}

Begins(text, pattern) == 1 \in FoundAt(text, pattern)
Has(text, pattern)    == FoundAt(text, pattern) # {}

\* What comes before the first place of pattern, the blanks in it included.
Before(text, pattern) ==
  LET first == CHOOSE i \in FoundAt(text, pattern) :
                 \A j \in FoundAt(text, pattern) : i <= j
  IN  SubSeq(text, 1, first - 1)

Exchange == <<Blank, "5NN", Blank>>
Thanks   == <<Blank, "TU">>

(***************************************************************************)
(* detectAndSetMessages: the guesses are tried in this order.  CQ, TEST,   *)
(* 5NN and a leading TU need a blank behind them; " TU", ?, NR? and AGN do *)
(* not, and AGN counts anywhere, in the middle of a call too.              *)
(***************************************************************************)
Detect(text) ==
  IF Begins(text, <<"CQ", Blank>>) \/ Begins(text, <<"TEST", Blank>>)
                                                    THEN {"cq"}
  ELSE IF Begins(text, <<"5NN", Blank>>)            THEN {"nr"}
  ELSE IF Has(text, Exchange)                       THEN {"hiscall", "nr"}
  ELSE IF text = <<"TU">> \/ Begins(text, <<"TU", Blank>>) THEN {"tu"}
  ELSE IF Has(text, Thanks)                         THEN {"hiscall", "tu"}
  ELSE IF Begins(text, <<"?">>)                     THEN {"qm"}
  ELSE IF Begins(text, <<"NR", "?">>)               THEN {"nrqm"}
  ELSE IF Has(text, <<"AGN">>)                      THEN {"agn"}
  ELSE IF text # <<>>                               THEN {"hiscall"}
  ELSE {"nomsg"}

\* The call in a text that Detect takes for one with a call, with the blanks
\* that a text continued with a leading blank leaves behind it.
SentCall(text) ==
  IF "nr" \in Detect(text) THEN Before(text, Exchange)
  ELSE IF "tu" \in Detect(text) THEN Before(text, Thanks)
  ELSE text

Understood(me, text) ==
  [me EXCEPT !.text    = text,
             !.msgs    = Detect(text),
             !.hiscall = IF "hiscall" \in Detect(text) THEN SentCall(text)
                         ELSE <<>>]

-----------------------------------------------------------------------------

\* The text of a message and one more behind it.
Continued(text, msg) == text \o <<Blank>> \o msg

\* sendText: a new message, or one more text behind a blank at the end of the
\* one being sent, which is then taken for what the whole of it says.
MeSendText(me, msg) ==
  IF me.state = "sending"
  THEN {[Understood(me, Continued(me.text, msg)) EXCEPT !.left = @ + n] :
          n \in {m \in MeLens : /\ me.left + m <= MaxLeft
                               /\ Len(Continued(me.text, msg)) <= MaxWords}}
  ELSE {[Understood(me, msg) EXCEPT !.state = "sending", !.left = n] :
          n \in MeLens}

\* abortSend, also when nothing is being sent.
MeAbort(me) ==
  [me EXCEPT !.state = "listening", !.text = <<>>, !.msgs = {"nomsg"},
             !.hiscall = <<>>, !.left = 0]

\* get_buffer, then tick: the message ends with its last buffer.
MeBuffer(me) ==
  IF me.state = "listening" THEN me
  ELSE IF me.left > 1 THEN [me EXCEPT !.left = @ - 1]
  ELSE [me EXCEPT !.state = "listening", !.text = <<>>, !.left = 0]

=============================================================================
