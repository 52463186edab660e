SPECIFICATION FairSpec
CONSTANTS
    Worker = Worker
    Msgs = {m1, m2}
    Stoppers = {start, server}
INVARIANTS
    SentAtMostOnce
    StopFlushes
    ChainInOrder
PROPERTIES
    EveryMessageLeaves
    ImplementsOutbox
CHECK_DEADLOCK FALSE
