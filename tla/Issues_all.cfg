SPECIFICATION Spec
CONSTANTS
    p1 = p1  p2 = p2  p3 = p3  p4 = p4
    t1 = t1  t2 = t2  t3 = t3
    d1 = d1  d2 = d2
    None = None
    Conversation = {c1, c2}
    Report <- MCReport
    Text <- MCText
    Hash <- MCHash
    Digest <- MCDigest
CHECK_DEADLOCK FALSE
SYMMETRY MCSymmetry
INVARIANTS IssueInv OneOpen ReportsCounted CountsTold
PROPERTIES ClosedStays
