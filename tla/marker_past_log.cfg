\* As stranded_frames.cfg, and the page saves across the rekey.
CONSTANTS
    Devices = {d1, d2}
    Members = {m1}
    Savers = {d2}
    MaxKey = 2
    MaxSeq = 1
    Mishaps = {}
SPECIFICATION Spec
INVARIANT NothingBelowMarker
CHECK_DEADLOCK FALSE
