\* Two server processes over one store, one blob.
CONSTANTS
    Keys = {k1}
    Procs = {p1, p2}
    Calls = {c1, c2}
    MaxVersion = 3
    MaxEntries = 1
    MaxFaults = 1
    Races = {}
SPECIFICATION Spec
SYMMETRY Symmetry
VIEW NoLitter
INVARIANTS CacheTypeOK ServesFresh CachesAgree KeyFilesCounted
CHECK_DEADLOCK FALSE
