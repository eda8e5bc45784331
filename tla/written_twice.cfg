\* One submission, and blobs that differ in size.
SPECIFICATION Spec
CONSTANTS
    Submissions = {s1}
    Calls = {c1, c2}
    Sizes = {1, 2}
    MaxPending = 1
    Quota = 4
    MaxDownloads = 1
SYMMETRY Symmetric
INVARIANT UploadImmutable
CHECK_DEADLOCK FALSE
