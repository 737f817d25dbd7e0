----------------------------- MODULE MCWinKeyer -----------------------------
(***************************************************************************)
(* Small values of the constants for the runs of WinKeyer.                 *)
(***************************************************************************)
EXTENDS WinKeyer

\* Open, close, a speed, a weight that reads as CLEAR_BUFFER, a letter, the end
\* of a text, a status request, CLEAR_BUFFER, a command without a parameter
\* that is unknown to the server, one with a parameter that reads as
\* CLEAR_BUFFER (HSCW_SPEED), and a sidetone of two bytes.
MCMessages == {<<0, 2>>, <<0, 3>>, <<2, 17>>, <<3, 21>>, <<75>>, <<0>>, <<17>>,
               <<21>>, <<8>>, <<10, 21>>, <<1, 2, 88>>}

=============================================================================
