SPECIFICATION FairSpec
CONSTANTS
    Procs = {p1, p2, p3}
    None = None
    MaxInst = 5
    MaxOps = 4
INVARIANTS
    ExclusiveUntilRemoved
    NoFaultUntilRemoved
    InUseSeen
    NothingLeaked
    NoEntryForgotten
PROPERTIES
    EveryRequestServed
    ImplementsRWLock
CHECK_DEADLOCK FALSE
