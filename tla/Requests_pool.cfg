SPECIFICATION FairSpec
CONSTANTS
    c1 = c1
    c2 = c2
    m1 = m1
    m2 = m2
    None = None
    r1 = r1
    r2 = r2
    r3 = r3
    Req = {r1, r2, r3}
    Msg = {m1, m2}
    Hook <- ByWebhook
    Conv = {c1, c2}
    ConvOf <- Convs
    Configs <- PoolConfigs
    Errors = TRUE
    Hangups = TRUE
    Deadlines = TRUE
CHECK_DEADLOCK FALSE
INVARIANTS
    RequestInv
    AckedStored
    JamNeedsMore
PROPERTIES
    RequestsAnswered
    AgentCallsEnd
