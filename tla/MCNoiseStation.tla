--------------------------- MODULE MCNoiseStation ---------------------------
(***************************************************************************)
(* Buffers of 9 samples, ramps of 3 and three speeds: with a dit of 4      *)
(* there is Room for every message, with 3 for those with a space, with 2  *)
(* for those with two.                                                     *)
(***************************************************************************)
EXTENDS NoiseStation

ThreeSpeeds == {2, 3, 4}
FewSigns  == [dits : 0 .. 2, dahs : 0 .. 2, gaps : 0 .. 2] \ {None}
MCLongCq  == [dits |-> 2, dahs |-> 3, gaps |-> 2]
OneOrTwo  == {1, 2}
OneToThree == 1 .. 3
ZeroOrTwo == {0, 2}
=============================================================================
