-------------------------------- MODULE Keyer --------------------------------
(***************************************************************************)
(* The envelope of a message (Keyer::getEnvelope in keyer.cpp): a buffer   *)
(* of samples, sized by the number of signs and rounded to whole buffers   *)
(* of the sound card, into which the marks are then written one by one.    *)
(* Of a message only the number of its signs is kept: they come in any     *)
(* order, which stands for every text Encode makes signs of.               *)
(***************************************************************************)
EXTENDS Integers

CONSTANTS BufSize,      \* the samples of one buffer of the sound card
          Ramp,         \* the samples of the keying ramp (risevec)
          Units         \* the samples of a dit, for the speeds in use

\* A dit is round(1.2 * samplerate / wpm).
ASSUME KeyerAssumption ==
  /\ BufSize \in Nat \ {0}
  /\ Ramp \in Nat
  /\ Units \subseteq Nat

VARIABLES unit,         \* the dit of the message in work, in samples
          code,         \* its signs
          left,         \* those not written yet
          size,         \* env.size(); 0 when nothing is sent
          k,            \* where the next sign begins; negative: the size_t wraps
          reach         \* where the last mark ends

keying == <<unit, code, left, size, k, reach>>

\* Dots, dashes and the spaces between characters.  The tilde, in place of the
\* last space, ends every message that is not empty.
Code == [dits : Nat, dahs : Nat, gaps : Nat]
None == [dits |-> 0, dahs |-> 0, gaps |-> 0]

Count(c) == 2 * (c.dits + c.gaps + 2 * c.dahs) + 1

\* The quotient of the integers is rounded down before ceil sees it.
EnvelopeSize(c, u) == BufSize * ((Count(c) * u + Ramp) \div BufSize)

NoEnvelope ==
  /\ unit \in Units
  /\ code = None /\ left = None
  /\ size = 0 /\ k = 0 /\ reach = 0

NewEnvelope(c, u) ==
  /\ unit' = u
  /\ code' = c
  /\ left' = c
  /\ size' = EnvelopeSize(c, u)
  /\ k' = 0
  /\ reach' = 0

Dit ==
  /\ left.dits > 0
  /\ left' = [left EXCEPT !.dits = @ - 1]
  /\ reach' = k + unit + Ramp
  /\ k' = k + 2 * unit
  /\ UNCHANGED <<unit, code, size>>

\* Mutant: the space is as long as the one between two characters.
DahLong ==
  /\ left.dahs > 0
  /\ left' = [left EXCEPT !.dahs = @ - 1]
  /\ reach' = k + 3 * unit + Ramp
  /\ k' = k + 6 * unit
  /\ UNCHANGED <<unit, code, size>>

Dah ==
  /\ left.dahs > 0
  /\ left' = [left EXCEPT !.dahs = @ - 1]
  /\ reach' = k + 3 * unit + Ramp
  /\ k' = k + 4 * unit
  /\ UNCHANGED <<unit, code, size>>

\* The ramp of the mark before is not counted twice.
Gap ==
  /\ left.gaps > 0
  /\ left' = [left EXCEPT !.gaps = @ - 1]
  /\ k' = k + 2 * unit - Ramp
  /\ UNCHANGED <<unit, code, size, reach>>

Sign == Dit \/ Dah \/ Gap

MarksFit == k >= 0 /\ reach <= size

\* The pause after the last mark, and the ramps that the spaces save, make up
\* for what is cut off when the size is rounded down.  With 44100 samples a
\* second, buffers of 2048 and a ramp of 596 it is so up to 51 words a minute;
\* above, up to 60, for every message of more than one character.  A single O
\* at 60 reaches 10298 samples in an envelope of 10240.
Room(c, u) == 2 * u >= Ramp /\ 2 * u + c.gaps * Ramp >= BufSize - 1

=============================================================================
