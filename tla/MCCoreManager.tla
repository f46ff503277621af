--------------------------- MODULE MCCoreManager ---------------------------
(***************************************************************************)
(* Instances of CoreManager for TLC; the .cfg files give the constants.    *)
(***************************************************************************)
EXTENDS CoreManager
=============================================================================
