SPECIFICATION Spec
CONSTANTS
  ChunkCount = 3
  MaxSpan = 2
  Rows = {r1, r2}
  MaxKills = 1
SYMMETRY Symmetry
INVARIANT LandedStays
CHECK_DEADLOCK FALSE
