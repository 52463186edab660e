SPECIFICATION Spec
CONSTANTS
    Procs = {p1, p2}
    None = None
    MaxInst = 4
    MaxOps = 3
INVARIANT
    ReadLocksBlockWriteLocks
CHECK_DEADLOCK FALSE
