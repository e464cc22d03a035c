SPECIFICATION FairSpec
CONSTANTS
    Inst = {i1, i2}
    TTL = 3
    RenewEvery = 2
    Patience = 0
    MaxPauses = 1
    Errors = TRUE
    Retry = TRUE
    Cuts = TRUE
    MaxCrashes = 1
    MaxFaults = 1
    None = None
CHECK_DEADLOCK FALSE
INVARIANTS
    LeaseInv
    LeaseExclusive
    OverlapNeedsMisses
PROPERTIES
    OverlapEnds
    SomeoneConnects
