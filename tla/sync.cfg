CONSTANTS
    a = a  b = b  s = s  t1 = t1  l1 = l1
    Own = {a, b}
    Shared = {s}
    Tabs = {t1}
    Lanes = {l1}
    Limits = {0, 1}
    Offered = {"folder", "account"}
    MaxSeq = 3
SPECIFICATION FairSpec
INVARIANTS SyncTypeOK FeedComplete
PROPERTY CatchesUp
