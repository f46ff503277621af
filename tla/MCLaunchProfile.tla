-------------------------- MODULE MCLaunchProfile --------------------------
(* Instance of LaunchProfile for TLC. *)
EXTENDS LaunchProfile, TLC

Symmetry == Permutations(Requests)

\* A complete profile and an empty one.
MCProfiles ==
  {[core |-> "core", mode |-> "auto", cpu |-> {0, 1}, log |-> ""],
   [core |-> "", mode |-> "auto", cpu |-> {}, log |-> ""]}

\* CPU sets that are part of the profile's and not all online (the empty
\* profile has none); other fields.
MCPatches == {[cpu |-> {0}], [cpu |-> {1, 3}], [log |-> "log", mode |-> "direct"]}
=============================================================================
