\* A grant that a rotation overtakes.
CONSTANTS
    Devices = {d1, d2}
    Members = {m1}
    Savers = {}
    MaxKey = 2
    MaxSeq = 0
    Mishaps = {"grants"}
SPECIFICATION Spec
SYMMETRY Symmetry
INVARIANT MembersFollow
CHECK_DEADLOCK FALSE
