\* A file with a thumbnail, rotated with nobody else about.
CONSTANTS
    Devices = {d1, d2}
    Members = {m1}
    Savers = {}
    MaxKey = 3
    MaxSeq = 0
    Mishaps = {}
SPECIFICATION Spec
SYMMETRY Symmetry
INVARIANT ContentReadable
CHECK_DEADLOCK FALSE
