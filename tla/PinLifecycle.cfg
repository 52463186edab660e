SPECIFICATION MCSpec
CONSTANTS
    a = a
    b = b
    d = d
    e = e
    f = f
    g = g
    h = h
    i = i
    j = j
    c1 = c1
    c2 = c2
    w1 = w1
    w2 = w2
    pack = pack
    fork = fork
    obj = obj
    rel = rel
    Repo = Repo
    None = None
    Uploads = {a, b, d, e, f, g, h, i, j}
    Kind <- MCKind
    Content <- MCContent
    Target <- MCTarget
    From <- MCFrom
    User <- MCUser
    Targets = {pack, fork, obj, rel}
    Users = {w1, w2}
    Cids = {c1, c2}
    Faults = {"check", "pin", "root", "tx", "query", "unpin", "crash"}
INVARIANTS
    ReferencedStaysPinned
    PinsAccountedFor
    PushedMeansProposed

    
    
CHECK_DEADLOCK FALSE
