\* Saves and deletions of one file whose statements interleave (PostgreSQL).
CONSTANTS
    r1 = r1  r2 = r2
    Requests = {r1, r2}
    Conns = {}
    Offered = {"plain", "delete"}
    MaxVersions = 1
    Legacy = {}
    Isolated = FALSE
    DuplicateCompletes = FALSE
    MaxMint = 3
    MaxPosts = 0
SPECIFICATION Spec
INVARIANTS CurrentContentStored VersionsStored RemovalsAreGarbage
SYMMETRY RequestSymmetry
CHECK_DEADLOCK FALSE
