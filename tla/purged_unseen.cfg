CONSTANTS
    r1 = r1  r2 = r2  c1 = c1
    Requests = {r1, r2}
    Conns = {c1}
    Offered = {"plain", "content"}
    MaxVersions = 1
    Legacy = {}
    Isolated = FALSE
    DuplicateCompletes = FALSE
    MaxMint = 2
    MaxPosts = 1
SPECIFICATION Spec
PROPERTY TrimOnlyWithCommit
SYMMETRY RequestSymmetry
CHECK_DEADLOCK FALSE
