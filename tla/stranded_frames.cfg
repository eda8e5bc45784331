\* A second device opens the document while a rotation uploads.
CONSTANTS
    Devices = {d1, d2}
    Members = {m1}
    Savers = {d2}
    MaxKey = 2
    MaxSeq = 1
    Mishaps = {}
SPECIFICATION Spec
INVARIANT FramesReadable
CHECK_DEADLOCK FALSE
