--------------------------- MODULE CwdaemonProofs ---------------------------
(***************************************************************************)
(* The invariants of module Cwdaemon hold for all datagrams, speeds and    *)
(* numbers of pieces.  What has to be added to make them inductive is what *)
(* is known of the pieces that wait: as long as a piece is not stale, the  *)
(* station still has the speed it was sent with.                           *)
(***************************************************************************)
EXTENDS Cwdaemon, TLAPS

WaitingKnow ==
  \A k \in 2 .. Len(pieces) : pieces[k].stale \/ pieces[k].want = wpm

IInv ==
  /\ TypeOK
  /\ SendingHasPieces
  /\ StationFollows
  /\ WaitingKnow
  /\ KeyedAsSentUnlessChanged

-----------------------------------------------------------------------------
(* The calls into the contest. *)

LEMMA SendWordsFits ==
  ASSUME IInv, SendWords, UNCHANGED wpm
  PROVE  /\ pieces' \in Seq(Piece) /\ sending' \in BOOLEAN /\ keyed' \in Nat
         /\ SendingHasPieces' /\ WaitingKnow' /\ KeyedAsSentUnlessChanged'
<1> DEFINE p == [want |-> wpm, stale |-> FALSE]
<1>1. p \in Piece
  BY DEF IInv, TypeOK, Piece
<1>2. /\ pieces' \in Seq(Piece) /\ Len(pieces') = Len(pieces) + 1
      /\ \A k \in 1 .. Len(pieces) : pieces'[k] = pieces[k]
      /\ pieces'[Len(pieces) + 1] = p
  BY <1>1 DEF IInv, TypeOK, SendWords
<1>3. pieces' # <<>> /\ Head(pieces') = pieces'[1]
  BY <1>2
<1>4. sending' \in BOOLEAN /\ keyed' \in Nat /\ SendingHasPieces'
  BY <1>3 DEF SendWords, SendingHasPieces, IInv, TypeOK
<1>5. WaitingKnow'
  BY <1>2 DEF WaitingKnow, IInv, TypeOK
<1>6. KeyedAsSentUnlessChanged'
  <2>1. CASE sending
    <3>1. pieces # <<>> /\ Head(pieces) = pieces[1] /\ Len(pieces) > 0
      BY <2>1 DEF IInv, TypeOK, SendingHasPieces
    <3>2. Head(pieces') = Head(pieces)
      BY <1>2, <1>3, <3>1
    <3> QED
      BY <2>1, <3>2 DEF IInv, KeyedAsSentUnlessChanged, SendWords
  <2>2. CASE ~sending
    <3>1. Len(pieces) = 0
      BY <2>2 DEF IInv, TypeOK, SendingHasPieces
    <3> QED
      BY <2>2, <3>1, <1>2, <1>3 DEF KeyedAsSentUnlessChanged, SendWords
  <2> QED
    BY <2>1, <2>2
<1> QED
  BY <1>2, <1>4, <1>5, <1>6

LEMMA SetWpmFits ==
  ASSUME IInv, NEW n \in MIN_WPM .. MAX_WPM, SetWpm(n),
         UNCHANGED <<sending, keyed>>
  PROVE  /\ current_wpm' \in MIN_WPM .. MAX_WPM /\ wpm' \in Nat
         /\ told' \in BOOLEAN /\ pieces' \in Seq(Piece)
         /\ SendingHasPieces' /\ StationFollows' /\ WaitingKnow'
         /\ KeyedAsSentUnlessChanged'
<1>1. /\ current_wpm' = n /\ wpm' = n /\ told'
      /\ wpm' \in Nat
  BY CwdaemonAssumption DEF SetWpm
<1>2. pieces \in Seq(Piece)
  BY DEF IInv, TypeOK
<1>3. /\ DOMAIN pieces' = 1 .. Len(pieces)
      /\ \A k \in 1 .. Len(pieces) :
           pieces'[k] = IF k = 1 THEN pieces[1]
                        ELSE [pieces[k] EXCEPT !.stale = TRUE]
      /\ pieces' = [k \in 1 .. Len(pieces) |-> pieces'[k]]
  <2>1. DOMAIN pieces = 1 .. Len(pieces)
    BY <1>2
  <2>2. pieces' = [k \in 1 .. Len(pieces) |->
                     IF k = 1 THEN pieces[1]
                     ELSE [pieces[k] EXCEPT !.stale = TRUE]]
    BY <2>1, Zenon DEF SetWpm
  <2> QED
    BY <2>2
<1>4. \A k \in 1 .. Len(pieces) :
        pieces'[k] \in Piece /\ (k # 1 => pieces'[k].stale)
  <2> TAKE k \in 1 .. Len(pieces)
  <2>1. pieces[k] \in Piece /\ pieces[1] \in Piece
    BY <1>2
  <2> QED
    BY <2>1, <1>3 DEF Piece
<1>5. pieces' \in Seq(Piece) /\ Len(pieces') = Len(pieces)
  BY <1>2, <1>3, <1>4
<1>6. pieces' # <<>> <=> pieces # <<>>
  BY <1>2, <1>5
<1>7. SendingHasPieces' /\ StationFollows'
  BY <1>1, <1>6 DEF IInv, SendingHasPieces, StationFollows
<1>8. WaitingKnow'
  BY <1>4, <1>5 DEF WaitingKnow
<1>9. KeyedAsSentUnlessChanged'
  <2> SUFFICES ASSUME sending' PROVE Head(pieces').stale \/ keyed' = Head(pieces').want
    BY DEF KeyedAsSentUnlessChanged
  <2>1. sending /\ pieces # <<>> /\ Len(pieces) > 0
    BY <1>2 DEF IInv, SendingHasPieces
  <2>2. Head(pieces) = pieces[1] /\ Head(pieces') = pieces'[1]
    BY <2>1, <1>2, <1>5, <1>6
  <2>3. Head(pieces') = Head(pieces)
    BY <2>1, <2>2, <1>3, <1>2
  <2> QED
    BY <2>1, <2>3 DEF IInv, KeyedAsSentUnlessChanged
<1> QED
  BY <1>1, <1>5, <1>7, <1>8, <1>9

-----------------------------------------------------------------------------
(* The invariant. *)

LEMMA InitInvariant == Init => IInv
<1> SUFFICES ASSUME Init PROVE IInv
  OBVIOUS
<1>1. 30 \in MIN_WPM .. MAX_WPM /\ StartWpm \in Nat
  BY CwdaemonAssumption
<1>2. <<>> \in Seq(Item) /\ <<>> \in Seq(Piece)
  OBVIOUS
<1>3. TypeOK
  BY <1>1, <1>2 DEF Init, TypeOK
<1>4. SendingHasPieces /\ StationFollows /\ WaitingKnow
      /\ KeyedAsSentUnlessChanged
  BY DEF Init, SendingHasPieces, StationFollows, WaitingKnow,
         KeyedAsSentUnlessChanged
<1> QED
  BY <1>3, <1>4 DEF IInv

\* The step of the audio thread.
LEMMA EndPieceInvariant ==
  ASSUME IInv, EndPiece
  PROVE  IInv'
<1>1. pieces \in Seq(Piece) /\ pieces # <<>> /\ Len(pieces) > 0
  BY DEF IInv, TypeOK, SendingHasPieces, EndPiece
<1>2. /\ pieces' \in Seq(Piece) /\ Len(pieces') = Len(pieces) - 1
      /\ \A k \in 1 .. Len(pieces') : pieces'[k] = pieces[k + 1]
  BY <1>1 DEF EndPiece
<1>3. TypeOK'
  BY <1>2 DEF IInv, TypeOK, EndPiece, server
<1>4. SendingHasPieces' /\ StationFollows'
  <2>1. sending' \in BOOLEAN /\ (sending' <=> Len(pieces) > 1)
    BY DEF IInv, TypeOK, EndPiece
  <2>2. pieces' # <<>> <=> Len(pieces) > 1
    BY <1>1, <1>2
  <2>3. StationFollows'
    BY DEF IInv, StationFollows, EndPiece, server
  <2> QED
    BY <2>1, <2>2, <2>3 DEF SendingHasPieces
<1>5. \A k \in 1 .. Len(pieces') : pieces'[k].stale \/ pieces'[k].want = wpm
  BY <1>1, <1>2 DEF IInv, WaitingKnow
<1>6. WaitingKnow'
  BY <1>2, <1>5 DEF WaitingKnow, EndPiece
<1>7. KeyedAsSentUnlessChanged'
  <2>1. CASE Len(pieces) > 1
    <3>1. Head(pieces') = pieces'[1] /\ 1 \in 1 .. Len(pieces')
      BY <2>1, <1>1, <1>2
    <3>2. keyed' = wpm
      BY <2>1 DEF EndPiece
    <3> QED
      BY <3>1, <3>2, <1>5 DEF KeyedAsSentUnlessChanged
  <2>2. CASE ~(Len(pieces) > 1)
    BY <2>2 DEF KeyedAsSentUnlessChanged, EndPiece
  <2> QED
    BY <2>1, <2>2
<1> QED
  BY <1>3, <1>4, <1>6, <1>7 DEF IInv

\* Steps of the main loop that leave the station alone.
LEMMA QuietStepInvariant ==
  ASSUME IInv, UNCHANGED <<current_wpm, station, wpm, told>>,
         data' \in Seq(Item), text' \in Seq(Item),
         base_wpm' \in MIN_WPM .. MAX_WPM, reply_text' \in BOOLEAN
  PROVE  IInv'
<1>1. TypeOK'
  BY DEF IInv, TypeOK, station
<1>2. SendingHasPieces' /\ StationFollows' /\ WaitingKnow'
      /\ KeyedAsSentUnlessChanged'
  BY DEF IInv, SendingHasPieces, StationFollows, WaitingKnow,
         KeyedAsSentUnlessChanged, station
<1> QED
  BY <1>1, <1>2 DEF IInv

LEMMA SeqTail ==
  ASSUME NEW s \in Seq(Item), s # <<>>
  PROVE  Tail(s) \in Seq(Item) /\ Head(s) \in Item
OBVIOUS

LEMMA RepliedType ==
  ASSUME NEW rest, Replied(rest), reply_text \in BOOLEAN
  PROVE  reply_text' \in BOOLEAN
BY DEF Replied

LEMMA BeginTextInvariant ==
  ASSUME IInv, BeginText
  PROVE  IInv'
<1>1. data \in Seq(Item)
  BY DEF IInv, TypeOK
<1>2. PICK n \in 1 .. Len(data) :
        /\ data' = SubSeq(data, n + 1, Len(data))
        /\ text' = IF \E k \in 1 .. n : data[k].kind = "words"
                   THEN SubSeq(data, 1, n) ELSE <<>>
  BY DEF BeginText
<1>3. SubSeq(data, n + 1, Len(data)) \in Seq(Item)
  BY <1>1
<1>4. SubSeq(data, 1, n) \in Seq(Item) /\ <<>> \in Seq(Item)
  BY <1>1
<1>5. data' \in Seq(Item) /\ text' \in Seq(Item)
  BY <1>2, <1>3, <1>4
<1>6. base_wpm' \in MIN_WPM .. MAX_WPM /\ reply_text' \in BOOLEAN
  BY DEF BeginText, IInv, TypeOK
<1> QED
  BY <1>5, <1>6, QuietStepInvariant DEF BeginText

\* A speed after an inline change is still in range.
LEMMA InlineInRange ==
  ASSUME IInv
  PROVE  Faster \in MIN_WPM .. MAX_WPM /\ Slower \in MIN_WPM .. MAX_WPM
BY CwdaemonAssumption DEF IInv, TypeOK, Faster, Slower

LEMMA InlineSpeedInvariant ==
  ASSUME IInv, InlineSpeed
  PROVE  IInv'
<1> DEFINE n == IF Head(text).kind = "+" THEN Faster ELSE Slower
<1>1. n \in MIN_WPM .. MAX_WPM
  BY InlineInRange
<1>2. SetWpm(n) /\ UNCHANGED <<sending, keyed>>
  BY DEF InlineSpeed
<1> HIDE DEF n
<1>3. /\ current_wpm' \in MIN_WPM .. MAX_WPM /\ wpm' \in Nat
      /\ told' \in BOOLEAN /\ pieces' \in Seq(Piece)
      /\ SendingHasPieces' /\ StationFollows' /\ WaitingKnow'
      /\ KeyedAsSentUnlessChanged'
  BY <1>1, <1>2, SetWpmFits
<1>4. text' \in Seq(Item)
  BY SeqTail DEF InlineSpeed, IInv, TypeOK
<1>5. reply_text' \in BOOLEAN
  BY RepliedType DEF InlineSpeed, IInv, TypeOK
<1>6. TypeOK'
  BY <1>3, <1>4, <1>5 DEF InlineSpeed, IInv, TypeOK
<1> QED
  BY <1>3, <1>6 DEF IInv

LEMMA SegmentInvariant ==
  ASSUME IInv, Segment
  PROVE  IInv'
<1>1. /\ pieces' \in Seq(Piece) /\ sending' \in BOOLEAN /\ keyed' \in Nat
      /\ SendingHasPieces' /\ WaitingKnow' /\ KeyedAsSentUnlessChanged'
  BY SendWordsFits DEF Segment
<1>2. text' \in Seq(Item)
  BY SeqTail DEF Segment, IInv, TypeOK
<1>3. reply_text' \in BOOLEAN
  BY RepliedType DEF Segment, IInv, TypeOK
<1>4. TypeOK' /\ StationFollows'
  BY <1>1, <1>2, <1>3 DEF Segment, IInv, TypeOK, StationFollows
<1> QED
  BY <1>1, <1>4 DEF IInv

LEMMA SpeedCommandInvariant ==
  ASSUME IInv, SpeedCommand
  PROVE  IInv'
<1> DEFINE n == IF Head(data).kind = "reset" THEN 24 ELSE Head(data).arg
<1>1. data' \in Seq(Item) /\ UNCHANGED <<text, reply_text, sending, keyed>>
  BY SeqTail DEF SpeedCommand, IInv, TypeOK
<1>2. CASE n \in MIN_WPM .. MAX_WPM
  <2>1. SetWpm(n) /\ base_wpm' = n
    BY <1>2 DEF SpeedCommand
  <2> HIDE DEF n
  <2>2. /\ current_wpm' \in MIN_WPM .. MAX_WPM /\ wpm' \in Nat
        /\ told' \in BOOLEAN /\ pieces' \in Seq(Piece)
        /\ SendingHasPieces' /\ StationFollows' /\ WaitingKnow'
        /\ KeyedAsSentUnlessChanged'
    BY <1>1, <1>2, <2>1, SetWpmFits
  <2>3. TypeOK'
    BY <1>1, <1>2, <2>1, <2>2 DEF IInv, TypeOK
  <2> QED
    BY <2>2, <2>3 DEF IInv
<1>3. CASE n \notin MIN_WPM .. MAX_WPM
  <2>1. UNCHANGED <<current_wpm, base_wpm, wpm, told, pieces>>
    BY <1>3 DEF SpeedCommand
  <2> QED
    BY <1>1, <2>1, QuietStepInvariant DEF IInv, TypeOK, station
<1> QED
  BY <1>2, <1>3

LEMMA RestoreSpeedInvariant ==
  ASSUME IInv, RestoreSpeed
  PROVE  IInv'
<1>1. base_wpm \in MIN_WPM .. MAX_WPM
  BY DEF IInv, TypeOK
<1>2. /\ current_wpm' \in MIN_WPM .. MAX_WPM /\ wpm' \in Nat
      /\ told' \in BOOLEAN /\ pieces' \in Seq(Piece)
      /\ SendingHasPieces' /\ StationFollows' /\ WaitingKnow'
      /\ KeyedAsSentUnlessChanged'
  BY <1>1, SetWpmFits DEF RestoreSpeed
<1>3. TypeOK'
  BY <1>2 DEF IInv, TypeOK, RestoreSpeed
<1> QED
  BY <1>2, <1>3 DEF IInv

LEMMA AbortCommandInvariant ==
  ASSUME IInv, AbortCommand
  PROVE  IInv'
<1>1. TypeOK'
  <2>1. <<>> \in Seq(Piece) /\ data' \in Seq(Item)
    BY SeqTail DEF AbortCommand, IInv, TypeOK
  <2> QED
    BY <2>1 DEF AbortCommand, Abort, IInv, TypeOK
<1>2. SendingHasPieces' /\ StationFollows' /\ WaitingKnow'
      /\ KeyedAsSentUnlessChanged'
  BY DEF AbortCommand, Abort, IInv, SendingHasPieces, StationFollows,
         WaitingKnow, KeyedAsSentUnlessChanged
<1> QED
  BY <1>1, <1>2 DEF IInv

LEMMA NextInvariant == IInv /\ [Next]_vars => IInv'
<1> SUFFICES ASSUME IInv, [Next]_vars PROVE IInv'
  OBVIOUS
<1>1. CASE Receive
  <2>1. data' \in Seq(Item)
    BY <1>1, CwdaemonAssumption DEF Receive
  <2> QED
    BY <1>1, <2>1, QuietStepInvariant DEF Receive, IInv, TypeOK, server, station
<1>2. CASE Blank
  <2>1. text' \in Seq(Item) /\ reply_text' \in BOOLEAN
    BY <1>2, SeqTail, RepliedType DEF Blank, IInv, TypeOK
  <2> QED
    BY <1>2, <2>1, QuietStepInvariant DEF Blank, IInv, TypeOK
<1>3. CASE OtherCommand
  <2>1. data' \in Seq(Item)
    BY <1>3, SeqTail DEF OtherCommand, IInv, TypeOK
  <2>2. reply_text' \in BOOLEAN
    <3>1. (Head(data).arg # 0) \in BOOLEAN
      BY Zenon
    <3> QED
      BY <1>3, <3>1, Zenon DEF OtherCommand, IInv, TypeOK
  <2> QED
    BY <1>3, <2>1, <2>2, QuietStepInvariant DEF OtherCommand, IInv, TypeOK
<1>4. CASE UNCHANGED vars
  BY <1>4, QuietStepInvariant DEF vars, server, station, IInv, TypeOK
<1> QED
  BY <1>1, <1>2, <1>3, <1>4, BeginTextInvariant, SegmentInvariant,
     InlineSpeedInvariant, SpeedCommandInvariant, RestoreSpeedInvariant,
     AbortCommandInvariant, EndPieceInvariant
     DEF Next, Working

\* The inductive invariant holds in every state the server can reach.
THEOREM Invariant == Spec => []IInv
BY InitInvariant, NextInvariant, PTL DEF Spec

-----------------------------------------------------------------------------

\* The state of the server and of the station keeps its type; the speeds stay
\* in range.
THEOREM TypeCorrect == Spec => []TypeOK
BY Invariant, PTL DEF IInv

\* Between two callbacks the station has pieces exactly while it is sending.
THEOREM PiecesWhileSending == Spec => []SendingHasPieces
BY Invariant, PTL DEF IInv

\* Once the server has set a speed, it is the station's.
THEOREM StationFollowsServer == Spec => []StationFollows
BY Invariant, PTL DEF IInv

\* A piece is keyed with the speed it was sent with, unless the speed was
\* changed while it waited.
THEOREM KeyedWithItsSpeed == Spec => []KeyedAsSentUnlessChanged
BY Invariant, PTL DEF IInv

=============================================================================
