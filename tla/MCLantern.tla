----------------------------- MODULE MCLantern -----------------------------
(***************************************************************************)
(* Lantern for TLC: the names of interfaces are interchangeable.           *)
(***************************************************************************)
EXTENDS Lantern, TLC

Names == Permutations(Interface)
=============================================================================
