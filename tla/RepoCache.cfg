SPECIFICATION MCSpec
CONSTANTS
    p1 = p1
    p2 = p2
    base = base
    fork = fork
    None = None
    Procs = {p1, p2}
    Repos = {base, fork}
    Parent <- BaseAndFork
    Modes = {{"w"}, {"r", "w"}}
    Callers = {"server", "utils"}
    MaxVer = 2
    Faults = {{"query", "fetch", "evict"}, {"query", "fetch", "copy"}}
SYMMETRY Symmetry
INVARIANTS
    LeafIsComplete
    ForkIsLinked
    ServesChainRef
CHECK_DEADLOCK FALSE
