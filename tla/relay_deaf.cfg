SPECIFICATION Spec
CONSTANTS
    p1 = p1
    p2 = p2
    c1 = c1
    c2 = c2
    Procs = {p1, p2}
    Conns = {c1, c2}
    MaxPosts = 2
    MaxTrims = 0
    MaxFaults = 1
    SlowRows = TRUE
    LiveReplay = FALSE
    GappySaves = FALSE
    SplitHello = FALSE
    LateNews = FALSE
PROPERTY DeafCatchUp
CHECK_DEADLOCK FALSE
