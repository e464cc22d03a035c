SPECIFICATION Spec
CONSTANTS
    ann = ann
    bob = bob
    g1 = g1
    ch1 = ch1
    ch2 = ch2
    None = None
    Handler = {h1, h2, h3, h4}
    Msg <- OwnPosts
    Author = {ann, bob}
    Guild = {g1}
    Channel = {ch1, ch2}
    Thread = {}
    AllowedGuildIDs = {g1}
    Configs <- LimitConfigs
    Window = 2
    MaxTime = 2
    QueueMax = 1
    Attempts = 3
CHECK_DEADLOCK FALSE
INVARIANTS
    CapPerMinute
