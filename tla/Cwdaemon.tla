------------------------------ MODULE Cwdaemon ------------------------------
(***************************************************************************)
(* The cwdaemon server (winkeyer.h, winkeyer.cpp) and what it drives: the  *)
(* pieces of text at the station at the key and the speed they are keyed   *)
(* with (mystation.cpp, contest.cpp).                                      *)
(*                                                                         *)
(* The main loop works on a datagram; every call into the contest takes    *)
(* audio_mutex for itself, and the audio thread may come to the end of a   *)
(* piece between any two of them.                                          *)
(*                                                                         *)
(* A datagram is a sequence of items: words (all characters up to the next *)
(* inline change, with something to key among them), blank (the same, but  *)
(* nothing except tildes, which are skipped), + and - (inline changes of   *)
(* the speed), and the commands behind an escape character.                *)
(***************************************************************************)
EXTENDS Integers, Sequences

CONSTANTS Datagrams,   \* what loggers send
          MIN_WPM,     \* the range of speeds, 5 to 60 in the code
          MAX_WPM,
          StartWpm,    \* the speed of the contest's configuration
          MaxPieces    \* bounds the pieces at the station

\* Escape commands with a name are the ones that do something; rest stands
\* for those that eat the rest of the datagram, none for the others.  The
\* bytes they take with them are part of the item.
Escapes == {"reset", "speed", "abort", "reply", "rest", "none"}

Item == [kind : {"words", "blank", "+", "-"} \cup Escapes, arg : Nat]

\* A number goes on to the end of the datagram, a reply to the next escape.
WellFormed(d) ==
  \A k \in 1 .. Len(d) - 1 :
    /\ d[k].kind # "speed"
    /\ d[k].kind = "reply" => d[k + 1].kind \in Escapes
    /\ ~({d[k].kind, d[k + 1].kind} \subseteq {"words", "blank"})

ASSUME CwdaemonAssumption ==
  /\ Datagrams \subseteq Seq(Item) \ {<<>>}
  /\ \A d \in Datagrams : WellFormed(d)
  /\ MIN_WPM \in Nat \ {0} /\ MAX_WPM \in Nat
  /\ {24, 30} \subseteq MIN_WPM .. MAX_WPM
  /\ StartWpm \in Nat \ {0}
  /\ MaxPieces \in Nat

VARIABLES
  data,         \* what processMessage has left of the datagram
  text,         \* what processText has left of a text, and of its words
  current_wpm, base_wpm,
  reply_text,   \* is a reply waiting?
  sending,      \* the station at the key
  pieces,       \* its pieces; the first is being keyed
  wpm,          \* its speed
  keyed,        \* the speed of the envelope being played
  told          \* auxiliary: has the server set the speed of the station?

server  == <<current_wpm, base_wpm, reply_text>>
station == <<sending, pieces, keyed>>
vars    == <<data, text, server, station, wpm, told>>

\* want is the speed of the station when the piece was sent, stale says that
\* it was changed before the piece came up; neither is known to the code.
Piece == [want : Nat, stale : BOOLEAN]

Init ==
  /\ data = <<>> /\ text = <<>>
  /\ current_wpm = 30 /\ base_wpm = 30 /\ reply_text = FALSE
  /\ sending = FALSE /\ pieces = <<>> /\ keyed = StartWpm /\ wpm = StartWpm
  /\ told = FALSE

-----------------------------------------------------------------------------
(* Calls into the contest. *)

\* Mutant: whether the station is sending is not looked at.
SendWordsAtOnce ==
  /\ pieces' = Append(pieces, [want |-> wpm, stale |-> FALSE])
  /\ sending' = TRUE
  /\ keyed' = wpm

\* sendText: the piece waits if the station is sending, else it is keyed at
\* once (sendNextPiece).
SendWords ==
  /\ pieces' = Append(pieces, [want |-> wpm, stale |-> FALSE])
  /\ sending' = TRUE
  /\ keyed' = IF sending THEN keyed ELSE wpm

\* Mutant: the speed of the server runs ahead of the station.
SetWpmServerOnly(n) ==
  /\ current_wpm' = n
  /\ told' = TRUE
  /\ UNCHANGED <<wpm, pieces>>

\* onSpeedChange, setWpm
SetWpm(n) ==
  /\ current_wpm' = n
  /\ wpm' = n
  /\ told' = TRUE
  /\ pieces' = [k \in DOMAIN pieces |->
                  IF k = 1 THEN pieces[1] ELSE [pieces[k] EXCEPT !.stale = TRUE]]

\* Mutant: what waits is not dropped.
AbortKeepsPieces ==
  /\ sending' = FALSE
  /\ UNCHANGED <<pieces, keyed>>

\* abortSend
Abort ==
  /\ sending' = FALSE
  /\ pieces' = <<>>
  /\ UNCHANGED keyed

-----------------------------------------------------------------------------
(* The audio thread. *)

\* Mutant: the station starts over with the piece it has just keyed.
EndPieceKeeps ==
  /\ sending
  /\ IF Len(pieces) > 1
     THEN pieces' = pieces /\ keyed' = wpm /\ UNCHANGED sending
     ELSE pieces' = <<>> /\ sending' = FALSE /\ UNCHANGED keyed
  /\ UNCHANGED <<data, text, server, wpm, told>>

\* The last buffer of a piece: get_buffer drops it and goes on with the next
\* one, at the speed of this moment; after the last piece tick ends the
\* message.
EndPiece ==
  /\ sending
  /\ pieces' = Tail(pieces)
  /\ IF Len(pieces) > 1
     THEN keyed' = wpm /\ UNCHANGED sending
     ELSE sending' = FALSE /\ UNCHANGED keyed
  /\ UNCHANGED <<data, text, server, wpm, told>>

-----------------------------------------------------------------------------
(* The main loop. *)

Idle == data = <<>> /\ text = <<>>

\* poll, readDatagram
Receive ==
  /\ Idle
  /\ \E d \in Datagrams :
       /\ Len(pieces) + Len(d) <= MaxPieces
       /\ data' = d
  /\ UNCHANGED <<text, server, station, wpm, told>>

IsEscape(item) == item.kind \in Escapes

\* processText, for the items up to the next escape: the speed to come back to
\* is the one of now; a text without anything to key is dropped, inline
\* changes and all.
BeginText ==
  /\ text = <<>> /\ data # <<>> /\ ~IsEscape(Head(data))
  /\ \E n \in 1 .. Len(data) :
       /\ \A k \in 1 .. n : ~IsEscape(data[k])
       /\ n < Len(data) => IsEscape(data[n + 1])
       /\ data' = SubSeq(data, n + 1, Len(data))
       /\ text' = IF \E k \in 1 .. n : data[k].kind = "words"
                  THEN SubSeq(data, 1, n) ELSE <<>>
  /\ base_wpm' = current_wpm
  /\ UNCHANGED <<current_wpm, reply_text, station, wpm, told>>

\* sendReply, at the end of a text
Replied(rest) ==
  reply_text' = IF rest = <<>> THEN FALSE ELSE reply_text

\* A segment goes to the station.
Segment ==
  /\ text # <<>> /\ Head(text).kind = "words"
  /\ SendWords
  /\ text' = Tail(text) /\ Replied(Tail(text))
  /\ UNCHANGED <<data, current_wpm, base_wpm, wpm, told>>

Blank ==
  /\ text # <<>> /\ Head(text).kind = "blank"
  /\ text' = Tail(text) /\ Replied(Tail(text))
  /\ UNCHANGED <<data, current_wpm, base_wpm, station, wpm, told>>

\* Mutant: the limit is tested before the change.
FasterUnlimited ==
  IF current_wpm > MAX_WPM THEN MAX_WPM ELSE current_wpm + 2

Faster == IF current_wpm + 2 > MAX_WPM THEN MAX_WPM ELSE current_wpm + 2
Slower == IF current_wpm - 2 < MIN_WPM THEN MIN_WPM ELSE current_wpm - 2

InlineSpeed ==
  /\ text # <<>> /\ Head(text).kind \in {"+", "-"}
  /\ SetWpm(IF Head(text).kind = "+" THEN Faster ELSE Slower)
  /\ text' = Tail(text) /\ Replied(Tail(text))
  /\ UNCHANGED <<data, base_wpm, sending, keyed>>

\* The commands that set a speed, for good; one out of range is ignored.
SpeedCommand ==
  /\ text = <<>> /\ data # <<>> /\ Head(data).kind \in {"reset", "speed"}
  /\ LET n == IF Head(data).kind = "reset" THEN 24 ELSE Head(data).arg
     IN  IF n \in MIN_WPM .. MAX_WPM
         THEN SetWpm(n) /\ base_wpm' = n
         ELSE UNCHANGED <<current_wpm, base_wpm, wpm, told, pieces>>
  /\ data' = IF Head(data).kind = "reset" THEN Tail(data) ELSE <<>>
  /\ UNCHANGED <<text, reply_text, sending, keyed>>

\* Abort, first half: the speed before the inline changes.
RestoreSpeed ==
  /\ text = <<>> /\ data # <<>> /\ Head(data).kind = "abort"
  /\ current_wpm # base_wpm
  /\ SetWpm(base_wpm)
  /\ UNCHANGED <<data, text, base_wpm, reply_text, sending, keyed>>

\* Abort, second half.
AbortCommand ==
  /\ text = <<>> /\ data # <<>> /\ Head(data).kind = "abort"
  /\ current_wpm = base_wpm
  /\ Abort
  /\ reply_text' = FALSE
  /\ data' = Tail(data)
  /\ UNCHANGED <<text, current_wpm, base_wpm, wpm, told>>

\* The other commands; arg is the length of a reply.
OtherCommand ==
  /\ text = <<>> /\ data # <<>> /\ Head(data).kind \in {"reply", "rest", "none"}
  /\ reply_text' = IF Head(data).kind = "reply" THEN Head(data).arg # 0
                   ELSE reply_text
  /\ data' = IF Head(data).kind = "rest" THEN <<>> ELSE Tail(data)
  /\ UNCHANGED <<text, current_wpm, base_wpm, station, wpm, told>>

Working ==
  \/ BeginText \/ Segment \/ Blank \/ InlineSpeed
  \/ SpeedCommand \/ RestoreSpeed \/ AbortCommand \/ OtherCommand

Next == Receive \/ Working \/ EndPiece

Spec == Init /\ [][Next]_vars

\* The sound card asks for buffers until a piece is over, and the main loop
\* does not block; loggers need not send anything.
FairSpec == Spec /\ WF_vars(EndPiece) /\ WF_vars(Working)

-----------------------------------------------------------------------------

TypeOK ==
  /\ data \in Seq(Item) /\ text \in Seq(Item)
  /\ current_wpm \in MIN_WPM .. MAX_WPM /\ base_wpm \in MIN_WPM .. MAX_WPM
  /\ reply_text \in BOOLEAN
  /\ sending \in BOOLEAN
  /\ pieces \in Seq(Piece)
  /\ wpm \in Nat /\ keyed \in Nat
  /\ told \in BOOLEAN

\* Between two callbacks the station has pieces exactly while it is sending:
\* no piece is left over for the next message to begin with, and a piece that
\* is sent to a station that is sending does come up (sendText, get_buffer,
\* abortSend, with the calls of a datagram and the audio thread in any order).
SendingHasPieces == sending <=> pieces # <<>>

\* As soon as the server has set a speed, the station keys with the speed the
\* server believes in, so that the next inline change starts from what is heard
\* (onSpeedChange at every place where current_wpm is assigned).
StationFollows == told => wpm = current_wpm

\* A piece is keyed with the speed it was sent with, unless the speed was
\* changed while it waited.
KeyedAsSentUnlessChanged ==
  sending => Head(pieces).stale \/ keyed = Head(pieces).want

\* "Sending each segment separately so inline speed changes take effect
\* between pieces" (processText): every piece is keyed with the speed it was
\* sent with.
KeyedAsSent == sending => keyed = Head(pieces).want

\* When the loggers are silent for good the station falls silent, whatever is
\* left of the last datagram.
FallsSilent == <>[](data = <<>>) => <>[](~sending)

=============================================================================
