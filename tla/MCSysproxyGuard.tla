-------------------------- MODULE MCSysproxyGuard --------------------------
(***************************************************************************)
(* Instances of SysproxyGuard for TLC.                                     *)
(***************************************************************************)
EXTENDS SysproxyGuard, TLC

\* Requests are interchangeable: used by the runs that check safety only.
Symmetry == Permutations(Request)
=============================================================================
