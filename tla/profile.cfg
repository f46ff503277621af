SPECIFICATION Spec
CONSTANTS
  None = None
  Requests = {r1, r2}
  Profiles <- MCProfiles
  Patches <- MCPatches
  Online = {0, 1, 2}
  Rounds = 2
  MaxThreads = 3
  MaxRequests = 3
  MaxCrashes = 1
  MaxFaults = 1
INVARIANTS BindingFollowsLaunch LaunchIsCurrent
PROPERTIES PatchKept
SYMMETRY Symmetry
CHECK_DEADLOCK FALSE
