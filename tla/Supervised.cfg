CONSTANTS
    Pid = {p1, p2}
    Commit = {c1, c2}
    Content = {c1, c2}
    Supervisor = sup
    Starter = {sup, op}
    None = None
    Empty = Empty
    p1 = p1
    p2 = p2
    c1 = c1
    c2 = c2
    sup = sup
    op = op
SPECIFICATION BoundedFairSpec
INVARIANTS
    AdmittedHoldsLease
    HealLossless
PROPERTIES
    LiveLeaseStays
    KeepsSpawning
CHECK_DEADLOCK FALSE
