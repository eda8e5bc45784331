SPECIFICATION Spec
CONSTANTS
    Submissions = {s1, s2}
    Calls = {c1, c2}
    Sizes = {1}
    MaxPending = 1
    Quota = 1
    MaxDownloads = 1
SYMMETRY Symmetric
INVARIANTS LinksTypeOK FiledOnce QuotaKept DownloadsWithinLimit
CHECK_DEADLOCK FALSE
