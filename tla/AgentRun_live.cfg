SPECIFICATION FairSpec
CONSTANTS
    c1 = c1
    m1 = m1
    m2 = m2
    p1 = p1
    p2 = p2
    None = None
    Conv = {c1}
    Msg = {m1, m2}
    Call = {p1, p2}
    ConvOf <- OneConv
    Kinds = {"discord"}
    Pings <- M1Only
    System <- NoMsgs
    MaxSteps = 1
    MaxTools = 1
    QueueCap = 1
    SessionLoss = FALSE
CHECK_DEADLOCK FALSE
INVARIANTS
    ConversationSerial
PROPERTIES
    EveryCallReturns
