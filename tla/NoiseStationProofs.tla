------------------------- MODULE NoiseStationProofs -------------------------
(***************************************************************************)
(* Proofs about NoiseStation and Keyer for every size of buffers and       *)
(* ramps, every speed and every message.  The last mark of a message with  *)
(* d dots and dashes and g spaces reaches as far as the dits of all signs  *)
(* take it, less a ramp for every space: that, and not the number of dits  *)
(* alone, is what the envelope has Room for.                               *)
(***************************************************************************)
EXTENDS NoiseStation, TLAPS

\* The dits a number of signs takes, without the one of the tilde.
Dits(c) == 2 * c.dits + 4 * c.dahs + 2 * c.gaps

\* How far the signs c carry k at the speed u.
Ahead(c, u) == u * Dits(c) - c.gaps * Ramp

\* The quotient of the integers, times the divisor, is less than the divisor
\* away from the number (getEnvelope).
LEMMA RoundedDown ==
  ASSUME NEW b \in Nat \ {0}, NEW n \in Nat
  PROVE  /\ b * (n \div b) \in Nat
         /\ b * (n \div b) <= n
         /\ n - (b - 1) <= b * (n \div b)
<1> DEFINE q == n \div b
<1>1. q \in Nat /\ n = b * q + (n % b) /\ n % b \in 0 .. b - 1
  OBVIOUS
<1>2. b * q \in Nat
  BY <1>1
<1> QED
  BY <1>1, <1>2

\* An envelope with Room is large enough for its signs, with the ramp of the
\* last mark and but for the pause after it.
LEMMA SizeIsEnough ==
  ASSUME NEW c \in Code, NEW u \in Nat
  PROVE  /\ EnvelopeSize(c, u) \in Nat
         /\ Room(c, u) => Ahead(c, u) <= EnvelopeSize(c, u) - Ramp + u
<1> DEFINE s == Dits(c)
           n == Count(c) * u + Ramp
           g == c.gaps * Ramp
<1>1. s \in Nat /\ Count(c) = s + 1 /\ c.gaps \in Nat
  BY DEF Code, Dits, Count
<1>2. Ramp \in Nat /\ BufSize \in Nat \ {0}
  BY KeyerAssumption
<1>3. u * s \in Nat /\ n = u * s + u + Ramp /\ g \in Nat
  BY <1>1, <1>2
<1>4. n \in Nat
  BY <1>2, <1>3
<1>5. EnvelopeSize(c, u) \in Nat /\ n - (BufSize - 1) <= EnvelopeSize(c, u)
  BY <1>2, <1>4, RoundedDown DEF EnvelopeSize
<1>6. Room(c, u) => 2 * u + g >= BufSize - 1
  BY DEF Room
<1>7. Ahead(c, u) = u * s - g
  BY DEF Ahead
<1> HIDE DEF s, n, g
<1> QED
  BY <1>2, <1>3, <1>5, <1>6, <1>7

\* What one sign takes off what is ahead.
LEMMA SignTakesDits ==
  ASSUME NEW c \in Code, NEW u \in Nat
  PROVE  /\ Ahead(c, u) \in Int
         /\ 2 * u >= Ramp => Ahead(c, u) >= 0
         /\ c.dits > 0 =>
              LET d == [c EXCEPT !.dits = @ - 1]
              IN  d \in Code /\ Ahead(d, u) = Ahead(c, u) - 2 * u
         /\ c.dahs > 0 =>
              LET d == [c EXCEPT !.dahs = @ - 1]
              IN  d \in Code /\ Ahead(d, u) = Ahead(c, u) - 4 * u
         /\ c.gaps > 0 =>
              LET d == [c EXCEPT !.gaps = @ - 1]
              IN  d \in Code /\ Ahead(d, u) = Ahead(c, u) - 2 * u + Ramp
<1>1. Ramp \in Nat
  BY KeyerAssumption
<1>2. ASSUME NEW d \in Code
      PROVE  Ahead(d, u) = 2 * (u * d.dits) + 4 * (u * d.dahs) + 2 * (u * d.gaps)
                           - d.gaps * Ramp
  <2>1. d.dits \in Nat /\ d.dahs \in Nat /\ d.gaps \in Nat
    BY DEF Code
  <2> QED
    BY <2>1, <1>1 DEF Ahead, Dits
<1>3. c.dits \in Nat /\ c.dahs \in Nat /\ c.gaps \in Nat
  BY DEF Code
<1>4. /\ u * c.dits \in Nat /\ u * c.dahs \in Nat /\ u * c.gaps \in Nat
      /\ c.gaps * Ramp \in Nat
  BY <1>1, <1>3
<1>5. Ahead(c, u) \in Int
  BY <1>2, <1>4
<1>6. ASSUME 2 * u >= Ramp PROVE Ahead(c, u) >= 0
  <2>1. c.gaps * (2 * u - Ramp) >= 0
    BY <1>1, <1>3, <1>6
  <2>2. c.gaps * (2 * u - Ramp) = 2 * (u * c.gaps) - c.gaps * Ramp
    BY <1>1, <1>3
  <2> QED
    BY <1>2, <1>4, <2>1, <2>2
<1>7. ASSUME c.dits > 0
      PROVE  LET d == [c EXCEPT !.dits = @ - 1]
             IN  d \in Code /\ Ahead(d, u) = Ahead(c, u) - 2 * u
  <2> DEFINE d == [c EXCEPT !.dits = @ - 1]
  <2>1. d \in Code /\ d.dits = c.dits - 1 /\ d.dahs = c.dahs /\ d.gaps = c.gaps
    BY <1>7 DEF Code
  <2>2. u * d.dits = u * c.dits - u
    BY <1>3, <2>1
  <2>3. Ahead(d, u) = 2 * (u * d.dits) + 4 * (u * d.dahs) + 2 * (u * d.gaps)
                      - d.gaps * Ramp
    BY <1>2, <2>1
  <2> HIDE DEF d
  <2>4. Ahead(d, u) = Ahead(c, u) - 2 * u
    BY <1>2, <1>4, <2>1, <2>2, <2>3
  <2> QED
    BY <2>1, <2>4 DEF d
<1>8. ASSUME c.dahs > 0
      PROVE  LET d == [c EXCEPT !.dahs = @ - 1]
             IN  d \in Code /\ Ahead(d, u) = Ahead(c, u) - 4 * u
  <2> DEFINE d == [c EXCEPT !.dahs = @ - 1]
  <2>1. d \in Code /\ d.dits = c.dits /\ d.dahs = c.dahs - 1 /\ d.gaps = c.gaps
    BY <1>8 DEF Code
  <2>2. u * d.dahs = u * c.dahs - u
    BY <1>3, <2>1
  <2>3. Ahead(d, u) = 2 * (u * d.dits) + 4 * (u * d.dahs) + 2 * (u * d.gaps)
                      - d.gaps * Ramp
    BY <1>2, <2>1
  <2> HIDE DEF d
  <2>4. Ahead(d, u) = Ahead(c, u) - 4 * u
    BY <1>2, <1>4, <2>1, <2>2, <2>3
  <2> QED
    BY <2>1, <2>4 DEF d
<1>9. ASSUME c.gaps > 0
      PROVE  LET d == [c EXCEPT !.gaps = @ - 1]
             IN  d \in Code /\ Ahead(d, u) = Ahead(c, u) - 2 * u + Ramp
  <2> DEFINE d == [c EXCEPT !.gaps = @ - 1]
  <2>1. d \in Code /\ d.dits = c.dits /\ d.dahs = c.dahs /\ d.gaps = c.gaps - 1
    BY <1>9 DEF Code
  <2>2. u * d.gaps = u * c.gaps - u /\ d.gaps * Ramp = c.gaps * Ramp - Ramp
    BY <1>1, <1>3, <2>1
  <2>3. Ahead(d, u) = 2 * (u * d.dits) + 4 * (u * d.dahs) + 2 * (u * d.gaps)
                      - d.gaps * Ramp
    BY <1>2, <2>1
  <2> HIDE DEF d
  <2>4. Ahead(d, u) = Ahead(c, u) - 2 * u + Ramp
    BY <1>1, <1>2, <1>4, <2>1, <2>2, <2>3
  <2> QED
    BY <2>1, <2>4 DEF d
<1> QED
  BY <1>5, <1>6, <1>7, <1>8, <1>9

-----------------------------------------------------------------------------
(***************************************************************************)
(* While signs are written, what is left of them fits into what is left of *)
(* the envelope; while the envelope is played, the last mark is in it.     *)
(***************************************************************************)
Keying == step \in {"key1", "key2"}

KeyInv ==
  Keying =>
    /\ kind = "qrm" /\ state = "sending"
    /\ sendpos = 0 /\ played = 0
    /\ Room(code, unit) => MarksFit /\ k + Ahead(left, unit) <= size - Ramp + unit

\* The noise whose marks are known to lie inside of the envelope.
Fitted == kind = "qrm" => Room(code, unit)

InPlay ==
  \/ /\ played = sendpos /\ (sendpos = 0 \/ sendpos < size)
     /\ Fitted => reach <= size
  \/ /\ step = "tick" /\ size = 0 /\ sendpos = 0
     /\ Fitted => reach <= played

PlayInv ==
  /\ kind # "none" /\ state = "sending" /\ ~Keying => InPlay
  /\ kind = "qrm" /\ state = "listening" => sendpos = 0

PatienceInv ==
  /\ kind = "qrm" /\ state # "deleteme" => patience > 0
  /\ kind = "qrn" => state # "listening"

IInv == TypeOK /\ KeyInv /\ PlayInv /\ PatienceInv

\* The code's INT32_MAX, as a number.
LEMMA NeverIsANumber == NEVER \in Nat /\ NEVER > 0
BY SMT DEF NEVER

\* The parts of the assumptions that are about numbers.
LEMMA Sizes ==
  /\ BufSize \in Nat \ {0} /\ Ramp \in Nat
  /\ Units \subseteq Nat
  /\ NEVER \in Nat /\ NEVER > 0
  /\ Pauses \subseteq 0 .. NEVER
BY KeyerAssumption, NoiseAssumption, NeverIsANumber

\* A new envelope has its type and, if there is Room, holds all of its signs.
LEMMA NewEnvelopeFits ==
  ASSUME NEW c \in Code, NEW u \in Units, NewEnvelope(c, u)
  PROVE  /\ unit' \in Units /\ code' \in Code /\ left' \in Code
         /\ size' \in Nat /\ k' \in Int /\ reach' \in Int
         /\ Room(code', unit') =>
              MarksFit' /\ k' + Ahead(left', unit') <= size' - Ramp + unit'
<1>1. u \in Nat
  BY Sizes
<1>2. /\ EnvelopeSize(c, u) \in Nat
      /\ Room(c, u) => Ahead(c, u) <= EnvelopeSize(c, u) - Ramp + u
  BY <1>1, SizeIsEnough
<1>3. Ahead(c, u) \in Int
  BY <1>1, SignTakesDits
<1>4. unit' = u /\ code' = c /\ left' = c /\ size' = EnvelopeSize(c, u)
      /\ k' = 0 /\ reach' = 0
  BY DEF NewEnvelope
<1>5. MarksFit'
  BY <1>2, <1>4 DEF MarksFit
<1>6. Room(code', unit') => k' + Ahead(left', unit') <= size' - Ramp + unit'
  BY <1>2, <1>3, <1>4
<1> QED
  BY <1>2, <1>4, <1>5, <1>6

\* One more sign keeps its type.
LEMMA SignKeepsType ==
  ASSUME unit \in Units, left \in Code, k \in Int, reach \in Int, Sign
  PROVE  /\ unit' = unit /\ code' = code /\ size' = size
         /\ left' \in Code /\ k' \in Int /\ reach' \in Int
<1>1. unit \in Nat /\ Ramp \in Nat
  BY Sizes
<1>2. left' \in Code
  BY <1>1, SignTakesDits DEF Sign, Dit, Dah, Gap
<1> QED
  BY <1>1, <1>2 DEF Sign, Dit, Dah, Gap

\* And keeps to the envelope.
LEMMA SignFits ==
  ASSUME unit \in Units, left \in Code, size \in Nat, k \in Int, reach \in Int,
         Room(code, unit), MarksFit,
         k + Ahead(left, unit) <= size - Ramp + unit, Sign
  PROVE  MarksFit' /\ k' + Ahead(left', unit) <= size - Ramp + unit
<1>1. unit \in Nat /\ 2 * unit >= Ramp /\ Ramp \in Nat
  BY Sizes DEF Room
<1>2. Ahead(left, unit) \in Int
  BY <1>1, SignTakesDits
<1>3. left' \in Code /\ size' = size
  BY SignKeepsType
<1>4. Ahead(left', unit) \in Int /\ Ahead(left', unit) >= 0
  BY <1>1, <1>3, SignTakesDits
<1>5. CASE Dit
  <2>1. Ahead(left', unit) = Ahead(left, unit) - 2 * unit
    BY <1>1, <1>5, SignTakesDits DEF Dit
  <2> QED
    BY <1>1, <1>2, <1>3, <1>4, <1>5, <2>1 DEF Dit, MarksFit
<1>6. CASE Dah
  <2>1. Ahead(left', unit) = Ahead(left, unit) - 4 * unit
    BY <1>1, <1>6, SignTakesDits DEF Dah
  <2> QED
    BY <1>1, <1>2, <1>3, <1>4, <1>6, <2>1 DEF Dah, MarksFit
<1>7. CASE Gap
  <2>1. Ahead(left', unit) = Ahead(left, unit) - 2 * unit + Ramp
    BY <1>1, <1>7, SignTakesDits DEF Gap
  <2> QED
    BY <1>1, <1>2, <1>3, <1>4, <1>7, <2>1 DEF Gap, MarksFit
<1> QED
  BY <1>5, <1>6, <1>7 DEF Sign

-----------------------------------------------------------------------------

LEMMA InitInvariant == Init => IInv
<1> SUFFICES ASSUME Init PROVE IInv
  OBVIOUS
<1>1. None \in Code
  BY DEF None, Code
<1> QED
  BY <1>1, Sizes DEF Init, NoEnvelope, IInv, TypeOK, Step, KeyInv, Keying,
                     PlayInv, PatienceInv

\* Where nothing of a station changes but the step, and that is not to "key1",
\* "key2" or from "tick" with an envelope just emptied, the invariant stays.
LEMMA StepOnly ==
  ASSUME IInv, ~Keying, ~Keying',
         step \in {"mix", "create"} \/ size > 0 \/ state # "sending" \/ kind = "none",
         step' \in Step,
         UNCHANGED <<keying, kind, state, patience, timeout, sendpos, played>>
  PROVE  IInv'
<1>1. TypeOK'
  BY DEF IInv, TypeOK, keying
<1>2. KeyInv'
  BY DEF KeyInv
<1>3. PlayInv'
  BY DEF IInv, TypeOK, PlayInv, InPlay, Fitted, keying
<1>4. PatienceInv'
  BY DEF IInv, PatienceInv
<1> QED
  BY <1>1, <1>2, <1>3, <1>4 DEF IInv

LEMMA CreateQrnInvariant == IInv /\ CreateQrn => IInv'
<1> SUFFICES ASSUME IInv, CreateQrn PROVE IInv'
  OBVIOUS
<1>1. size' \in Nat /\ reach' = size'
  BY NoiseAssumption, Sizes DEF CreateQrn
<1> QED
  BY <1>1, Sizes DEF CreateQrn, IInv, TypeOK, Step, KeyInv, Keying, PlayInv,
                     InPlay, Fitted, PatienceInv

LEMMA CreateQrmInvariant == IInv /\ CreateQrm => IInv'
<1> SUFFICES ASSUME IInv, CreateQrm PROVE IInv'
  OBVIOUS
<1>1. PICK c \in Code, u \in Units : NewEnvelope(c, u)
  BY NoiseAssumption DEF CreateQrm
<1>2. patience' \in Nat /\ patience' > 0
  BY NoiseAssumption DEF CreateQrm
<1> QED
  BY <1>1, <1>2, NewEnvelopeFits, Sizes
     DEF CreateQrm, IInv, TypeOK, Step, KeyInv, Keying, PlayInv, PatienceInv

LEMMA KeySignInvariant == IInv /\ KeySign => IInv'
<1> SUFFICES ASSUME IInv, KeySign PROVE IInv'
  OBVIOUS
<1>1. Keying /\ Keying'
  BY DEF KeySign, Keying
<1>2. /\ unit' = unit /\ code' = code /\ size' = size
      /\ left' \in Code /\ k' \in Int /\ reach' \in Int
  BY SignKeepsType DEF IInv, TypeOK, KeySign
<1>3. Room(code, unit) => MarksFit' /\ k' + Ahead(left', unit) <= size - Ramp + unit
  BY <1>1, SignFits DEF IInv, TypeOK, KeyInv, KeySign
<1> QED
  BY <1>1, <1>2, <1>3 DEF KeySign, IInv, TypeOK, KeyInv, PlayInv, PatienceInv

LEMMA EndKeyingInvariant == IInv /\ EndKeying => IInv'
<1> SUFFICES ASSUME IInv, EndKeying PROVE IInv'
  OBVIOUS
<1>1. Keying /\ ~Keying' /\ step' \in Step
  BY DEF EndKeying, Keying, Step
<1>2. TypeOK'
  BY <1>1 DEF EndKeying, IInv, TypeOK, keying
<1>3. PlayInv'
  BY <1>1 DEF EndKeying, IInv, KeyInv, PlayInv, InPlay, Fitted, MarksFit, keying
<1> QED
  BY <1>1, <1>2, <1>3 DEF EndKeying, IInv, KeyInv, PatienceInv

LEMMA GetBufferInvariant == IInv /\ GetBuffer => IInv'
<1> SUFFICES ASSUME IInv, GetBuffer PROVE IInv'
  OBVIOUS
<1>1. ~Keying /\ ~Keying' /\ step' \in Step
  BY DEF GetBuffer, Keying, Step
<1>2. played = sendpos /\ (Fitted => reach <= size) /\ Fitted' = Fitted
  BY <1>1 DEF GetBuffer, Fitted, IInv, PlayInv, InPlay
<1>3. TypeOK'
  BY <1>1, Sizes DEF GetBuffer, IInv, TypeOK
<1>4. PlayInv'
  BY <1>1, <1>2, Sizes DEF GetBuffer, IInv, TypeOK, PlayInv, InPlay
<1> QED
  BY <1>1, <1>3, <1>4 DEF GetBuffer, IInv, KeyInv, PatienceInv

LEMMA SentInvariant == IInv /\ (QrnSent \/ QrmSent) => IInv'
<1> SUFFICES ASSUME IInv, QrnSent \/ QrmSent PROVE IInv'
  OBVIOUS
<1>1. ~Keying /\ ~Keying' /\ step' \in Step
  BY DEF QrnSent, QrmSent, EndOfMessage, Keying, Step
<1>2. sendpos = 0
  BY <1>1 DEF QrnSent, QrmSent, EndOfMessage, IInv, TypeOK, PlayInv, InPlay
<1>3. CASE QrnSent
  BY <1>1, <1>3 DEF QrnSent, EndOfMessage, IInv, TypeOK, KeyInv, PlayInv,
                    PatienceInv, keying
<1>4. CASE QrmSent
  <2>1. patience' \in Nat /\ timeout' \in 0 .. NEVER
        /\ (state' = "listening" => patience' > 0)
        /\ state' \in {"listening", "deleteme"}
    <3>1. patience \in Nat /\ patience > 0 /\ timeout \in 0 .. NEVER
      BY <1>4 DEF QrmSent, EndOfMessage, IInv, TypeOK, PatienceInv
    <3>2. patience' = patience - 1
          /\ (patience' > 0 => timeout' \in Pauses /\ state' = "listening")
          /\ (~(patience' > 0) => timeout' = timeout /\ state' = "deleteme")
      BY <1>4 DEF QrmSent
    <3>3. patience' \in Nat
      BY <3>1, <3>2
    <3> QED
      BY <3>1, <3>2, <3>3, Sizes
  <2> QED
    BY <1>1, <1>2, <1>4, <2>1
       DEF QrmSent, EndOfMessage, IInv, TypeOK, KeyInv, PlayInv, PatienceInv,
           keying
<1> QED
  BY <1>3, <1>4

LEMMA PauseInvariant == IInv /\ Pause => IInv'
<1> SUFFICES ASSUME IInv, Pause PROVE IInv'
  OBVIOUS
<1>1. ~Keying /\ ~Keying' /\ step' \in Step
  BY DEF Pause, Pausing, Keying, Step
<1>2. timeout' \in 0 .. NEVER
  BY Sizes DEF Pause, IInv, TypeOK
<1> QED
  BY <1>1, <1>2 DEF Pause, Pausing, IInv, TypeOK, KeyInv, PlayInv, PatienceInv,
                    keying

LEMMA EndPauseInvariant == IInv /\ EndPause => IInv'
<1> SUFFICES ASSUME IInv, EndPause PROVE IInv'
  OBVIOUS
<1>1. NewEnvelope(LongCq, unit) /\ LongCq \in Code /\ unit \in Units
  BY NoiseAssumption DEF EndPause, SendMsg, IInv, TypeOK
<1>2. /\ unit' \in Units /\ code' \in Code /\ left' \in Code
      /\ size' \in Nat /\ k' \in Int /\ reach' \in Int
      /\ Room(code', unit') =>
           MarksFit' /\ k' + Ahead(left', unit') <= size' - Ramp + unit'
  BY <1>1, NewEnvelopeFits
<1>3. kind = "qrm" /\ sendpos = 0 /\ Keying'
  BY DEF EndPause, Pausing, SendMsg, Keying, IInv, TypeOK, PlayInv, PatienceInv
<1> QED
  BY <1>2, <1>3, Sizes
     DEF EndPause, Pausing, SendMsg, IInv, TypeOK, Step, KeyInv, PlayInv,
         PatienceInv

LEMMA RemoveInvariant == IInv /\ Remove => IInv'
<1> SUFFICES ASSUME IInv, Remove PROVE IInv'
  OBVIOUS
<1>1. ~Keying' /\ step' \in Step
  BY DEF Remove, Keying, Step
<1> QED
  BY <1>1 DEF Remove, IInv, TypeOK, KeyInv, PlayInv, PatienceInv, keying

LEMMA NextInvariant == IInv /\ [Next]_vars => IInv'
<1> SUFFICES ASSUME IInv, [Next]_vars PROVE IInv'
  OBVIOUS
<1>1. CASE CreateNone \/ Silent \/ Idle
  BY <1>1, StepOnly DEF CreateNone, Silent, Idle, Keying, Step
<1>2. CASE UNCHANGED vars
  BY <1>2 DEF vars, keying, IInv, TypeOK, KeyInv, Keying, PlayInv, InPlay,
              Fitted, PatienceInv, MarksFit
<1> QED
  BY <1>1, <1>2, CreateQrnInvariant, CreateQrmInvariant, KeySignInvariant,
     EndKeyingInvariant, RemoveInvariant, GetBufferInvariant, SentInvariant,
     PauseInvariant, EndPauseInvariant DEF Next

\* The inductive invariant holds in every state.
THEOREM Invariant == Spec => []IInv
BY InitInvariant, NextInvariant, PTL DEF Spec

-----------------------------------------------------------------------------

\* The noise keeps its type.
THEOREM TypeCorrect == Spec => []TypeOK
BY Invariant, PTL DEF IInv

\* No mark of a message is written outside of its envelope if there is Room
\* for it: at whatever speed, with whatever buffers and ramps, and in whatever
\* order its signs come (getEnvelope).
THEOREM MarksKeepToTheEnvelope == Spec => []KeyingFits
<1>1. IInv => KeyingFits
  BY DEF IInv, KeyInv, Keying, KeyingFits
<1> QED
  BY <1>1, Invariant, PTL

\* When a station believes to have sent its message, and there was Room for it,
\* the last mark has been played (get_buffer, tick).
THEOREM HeardToTheEnd == Spec => []MessageIsPlayedOut
<1>1. IInv => MessageIsPlayedOut
  BY DEF IInv, TypeOK, PlayInv, InPlay, Fitted, Keying, MessageIsPlayedOut
<1> QED
  BY <1>1, Invariant, PTL

=============================================================================
