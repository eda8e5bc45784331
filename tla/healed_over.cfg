\* An old blob is copied over while a put of the same key is under way.
CONSTANTS
    Keys = {k1}
    Procs = {p1}
    Calls = {c1, c2}
    MaxVersion = 2
    MaxEntries = 1
    MaxFaults = 0
    Races = {"heal"}
SPECIFICATION Spec
INVARIANT StoreCurrent
CHECK_DEADLOCK FALSE
