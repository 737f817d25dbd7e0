----------------------------- MODULE MCRigctld -----------------------------
(***************************************************************************)
(* Two loggers, a line of every kind, in any two pieces.                   *)
(***************************************************************************)
EXTENDS Rigctld

MCLines ==
  { <<"f">>, <<"F", " ", "7030000">>, <<"M", " ", "LSB">>,
    <<"M", " ", "USB", " ", "2400">>, <<"x">>,
    <<"\\", "set_rit", " ", "-50">>, <<"\\", "get_level">> }

MCNumbers == {"14074000", "7030000", "500", "2400", "0", "-50"}

MCWords == {" ", "f", "F", "M", "x", "\\", "set_rit", "get_level", "CW", "LSB",
            "USB", "VFOA"} \cup MCNumbers

CrLf == { <<"\r", "\n">> }

MCNewRig ==
  [freq |-> "14074000", mode |-> <<"CW">>, passband |-> "500",
   vfo |-> <<"VFOA">>, rit |-> "0"]
=============================================================================
