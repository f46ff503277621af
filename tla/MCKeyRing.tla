----------------------------- MODULE MCKeyRing -----------------------------
(***************************************************************************)
(* KeyRing for TLC: keys and identities are interchangeable.               *)
(***************************************************************************)
EXTENDS KeyRing, TLC

KeysAndPeople == Permutations(Key) \cup Permutations(Who) \cup Permutations(Command)
=============================================================================
