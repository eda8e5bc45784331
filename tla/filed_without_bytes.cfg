\* The smallest inbox in which the owner's devices meet: one submission.
SPECIFICATION Spec
CONSTANTS
    Submissions = {s1}
    Calls = {c1, c2}
    Sizes = {1}
    MaxPending = 1
    Quota = 4
    MaxDownloads = 1
SYMMETRY Symmetric
INVARIANT FiledHasItsBytes
CHECK_DEADLOCK FALSE
