SPECIFICATION Spec
CONSTANTS
    r1 = r1
    r2 = r2
    r3 = r3
    x1 = x1
    x2 = x2
    a1 = a1
    a2 = a2
    Requests = {r1, r2, r3}
    Clients = {x1, x2}
    Workers = {a1, a2}
    NoClient = NoClient
    NoWorker = NoWorker
    MaxRequests = 2
    Window = 1
    Grace = 1
    Patience = 1
    PruneAt = 1
    KeepTo = 1
    MaxTime = 3
    MaxFaults = 2
SYMMETRY MCSymmetry
INVARIANTS
    TypeOK
    LimitHolds
    OnlyOwnTraffic
    CountersExpire
CHECK_DEADLOCK FALSE
