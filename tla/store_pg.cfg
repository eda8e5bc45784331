CONSTANTS
    r1 = r1  r2 = r2  c1 = c1
    Requests = {r1, r2}
    Conns = {c1}
    Offered = {"plain", "checkpoint", "content", "restore"}
    MaxVersions = 1
    Legacy = {}
    Isolated = FALSE
    DuplicateCompletes = FALSE
    MaxMint = 2
    MaxPosts = 1
SPECIFICATION Spec
INVARIANTS SoleWriter MarkersWithinLog
SYMMETRY RequestSymmetry
CHECK_DEADLOCK FALSE
