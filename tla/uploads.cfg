SPECIFICATION Spec
CONSTANTS
  ChunkCount = 5
  MaxSpan = 3
  Rows = {r1}
  MaxKills = 3
SYMMETRY Symmetry
INVARIANTS UploadTypeOK AssembledWhole
CHECK_DEADLOCK FALSE
