CONSTANTS
    r1 = r1  r2 = r2
    Requests = {r1, r2}
    Conns = {}
    Offered = {"plain", "begin", "thumb", "restore", "delete"}
    MaxVersions = 1
    Legacy = {1}
    Isolated = TRUE
    DuplicateCompletes = FALSE
    MaxMint = 3
    MaxPosts = 0
SPECIFICATION Spec
INVARIANTS TypeOK CurrentContentStored VersionsStored RemovalsAreGarbage
PROPERTY DisplacedContentKept
SYMMETRY RequestSymmetry
CHECK_DEADLOCK FALSE
