CONSTANTS
    a = a  t1 = t1  l1 = l1  l2 = l2
    Own = {a}
    Shared = {}
    Tabs = {t1}
    Lanes = {l1, l2}
    Limits = {0}
    Offered = {}
    MaxSeq = 3
SPECIFICATION Spec
INVARIANT FeedComplete
