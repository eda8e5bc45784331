CONSTANTS
    r1 = r1  r2 = r2  c1 = c1  c2 = c2
    Requests = {r1, r2}
    Conns = {c1, c2}
    Offered = {"plain", "content", "checkpoint"}
    MaxVersions = 1
    Legacy = {}
    Isolated = TRUE
    DuplicateCompletes = FALSE
    Stamped = TRUE
    InexactSaves = FALSE
    LateNews = FALSE
    PlainMeetsRoom = FALSE
    MaxWork = 4
    MaxMint = 3
    MaxPosts = 2
SPECIFICATION CoSpec
INVARIANTS RoomTypeOK NoDoubleApply NothingLost OneDocument MarkerNamesCurrent
PROPERTY TrimOnlyWithCommit
SYMMETRY RoomSymmetry
CHECK_DEADLOCK FALSE
