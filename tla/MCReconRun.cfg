SPECIFICATION Spec
CONSTANTS
    l1 = l1
    l2 = l2
    t1 = t1
    c1 = c1
    c2 = c2
    None = None
    Lines = {l1, l2}
    Txns = {t1}
    PayoutLines = {l1, l2}
    Tabs = {c1, c2}
    MaxCalls = 3
    MaxFaults = 1
CONSTRAINT OneLate
SYMMETRY Symmetric
INVARIANTS
    TypeOK
    ZeroCountMeansResolved
    PendingIsReviewable
CHECK_DEADLOCK FALSE
