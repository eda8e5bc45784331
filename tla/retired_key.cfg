\* A second device of the owner saves from the entry it has.
CONSTANTS
    Devices = {d1, d2}
    Members = {m1}
    Savers = {d2}
    MaxKey = 2
    MaxSeq = 0
    Mishaps = {}
SPECIFICATION Spec
PROPERTY RetiredKeyStaysRetired
CHECK_DEADLOCK FALSE
