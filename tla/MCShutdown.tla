----------------------------- MODULE MCShutdown -----------------------------
(***************************************************************************)
(* Two signals, which nest in either order, and a few stations.            *)
(***************************************************************************)
EXTENDS Shutdown

BothSignals == {"SIGINT", "SIGTERM"}
OneSignal   == {"SIGINT"}
=============================================================================
