SPECIFICATION FairSpec
CONSTANTS
    a = a
    b = b
    m1 = m1
    m2 = m2
    m3 = m3
    v1 = v1
    v2 = v2
    p = p
    x = x
    Repos = {a, b}
    Ops = {m1, m2, m3, v1, v2, p, x}
    Kind <- MCKind
    BaseRepo <- MCBase
    HeadRepo <- MCHead
    Buffer <- MCBuffer
    MaxWorkers = 2
INVARIANTS
    CircularWaitIsOpposed
PROPERTY
    ServedUnlessOpposed
CHECK_DEADLOCK FALSE
