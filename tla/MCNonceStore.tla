---------------------------- MODULE MCNonceStore ----------------------------
(***************************************************************************)
(* Instances of NonceStore for TLC: two keys whose windows overlap.        *)
(***************************************************************************)
EXTENDS NonceStore

MCTimestamp == [k \in Nonce |-> IF k = "k1" THEN 2 ELSE 3]
=============================================================================
