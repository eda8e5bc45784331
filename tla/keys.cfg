\* One device rotates, twice, while a member comes and goes, saves and edits live.
CONSTANTS
    Devices = {d1}
    Members = {m1}
    Savers = {m1}
    MaxKey = 3
    MaxSeq = 1
    Mishaps = {"stops"}
SPECIFICATION Spec
INVARIANTS KeyTypeOK EpochNamesKey MembersFollow
PROPERTY RemovedStaysOut
CHECK_DEADLOCK FALSE
