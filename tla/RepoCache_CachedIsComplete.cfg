SPECIFICATION Spec
CONSTANTS
    p1 = p1
    p2 = p2
    base = base
    fork = fork
    None = None
    Procs = {p1, p2}
    Repos = {base}
    Parent <- Alone
    Modes = {{"r"}}
    Callers = {"utils"}
    MaxVer = 1
    Faults = {{}}
SYMMETRY Symmetry
INVARIANTS
    CachedIsComplete
CHECK_DEADLOCK FALSE
