SPECIFICATION Spec
CONSTANTS
    k1 = k1
    k2 = k2
    x = x
    ann = ann
    bob = bob
    p1 = p1
    p2 = p2
    p3 = p3
    None = None
    Call = {p1, p2, p3}
    Key = {k1, k2}
    Pid = {x}
    User = {ann, bob}
    KnownUsers = {ann}
    Requests <- OnlyX
CHECK_DEADLOCK FALSE
INVARIANTS
    DuplicateDeduped
