\* An overtaken read renames its file over that of a newer one.
CONSTANTS
    Keys = {k1}
    Procs = {p1}
    Calls = {c1, c2, c3}
    MaxVersion = 2
    MaxEntries = 1
    MaxFaults = 0
    Races = {"rename"}
SPECIFICATION Spec
INVARIANT ServesFresh
CHECK_DEADLOCK FALSE
