SPECIFICATION Spec
CONSTANTS
    None = None
    Procs = {p1, p2}
    Users = {u1, u2}
    Assets = {s1, s2}
    Objects = {o1}
    Expiry = 1
    MaxNow = 3
    Faults = {"fetch", "copy", "evict", "crash"}
SYMMETRY Symmetry
INVARIANTS
    HalfFileIsExcused
    OfferedIsServed
    UploadIsKept
CHECK_DEADLOCK FALSE
