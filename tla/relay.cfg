SPECIFICATION Spec
CONSTANTS
    p1 = p1
    p2 = p2
    c1 = c1
    c2 = c2
    Procs = {p1, p2}
    Conns = {c1, c2}
    MaxPosts = 2
    MaxTrims = 2
    MaxFaults = 2
    SlowRows = FALSE
    LiveReplay = FALSE
    GappySaves = FALSE
    SplitHello = FALSE
    LateNews = FALSE
INVARIANTS RelayTypeOK NothingSteppedOver
PROPERTY InOrderOrAnew
CHECK_DEADLOCK FALSE
SYMMETRY Symmetric
