SPECIFICATION FairSpec
CONSTANTS
    Inst = {i1, i2}
    TTL = 3
    RenewEvery = 1
    Patience = 2
    MaxPauses = 0
    Errors = FALSE
    Retry = FALSE
    Cuts = FALSE
    MaxCrashes = 1
    MaxFaults = 1
    None = None
CHECK_DEADLOCK FALSE
PROPERTIES
    StarterServed
