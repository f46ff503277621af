SPECIFICATION Spec
CONSTANTS
  Bytes = {"a", "b"}
  Chunks <- MCChunks
  Paths = {p, q}
  Sizes = {5, 8}
  MaxWrites = 4
  MaxUpdates = 1
  MaxFaults = 2
INVARIANTS
  RightFile
  Bounded
  TailKept
SYMMETRY Symmetry
CHECK_DEADLOCK FALSE
