\* A process stops between writing a temporary file and renaming it.
CONSTANTS
    Keys = {k1}
    Procs = {p1}
    Calls = {c1}
    MaxVersion = 1
    MaxEntries = 1
    MaxFaults = 2
    Races = {}
SPECIFICATION Spec
INVARIANT DiskWithinBudget
CHECK_DEADLOCK FALSE
