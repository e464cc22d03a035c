SPECIFICATION Spec
CONSTANTS
    c1 = c1
    m1 = m1
    m2 = m2
    p1 = p1
    p2 = p2
    None = None
    Conv = {c1}
    Msg = {m1, m2}
    Call = {p1, p2}
    ConvOf <- OneConv
    Kinds = {"twilio_sms", "web", "discord"}
    Pings <- M1Only
    System <- M2Only
    MaxSteps = 2
    MaxTools = 1
    QueueCap = 1
    SessionLoss = TRUE
CHECK_DEADLOCK FALSE
INVARIANTS
    RunInv
    SingleSender
    OutboundBacked
    AckedReplyStored
    SkipJustified
    NoLockLeaks
PROPERTIES
    ClosedRunsStay
    CallsWindDown
    ImplementsLedger
SYMMETRY Calls
