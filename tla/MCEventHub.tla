----------------------------- MODULE MCEventHub -----------------------------
(***************************************************************************)
(* EventHub for TLC: the constants are given in the .cfg files.            *)
(***************************************************************************)
EXTENDS EventHub
=============================================================================
