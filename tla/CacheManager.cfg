SPECIFICATION MCSpec
CONSTANTS
    None = None
    u1 = u1
    u2 = u2
    Users = {u1, u2}
    Entries = {1, 2}
    Layouts <- MCLayouts
    Faults = {"readdir", "remove"}
    MaxAge = 1
    MaxSize = 1
    Sizes = {1}
    MaxNow = 2
INVARIANTS
    QuietSweepCleans
PROPERTIES
    LongUseIsSafe
    EvictsOldest
    ExpiredIsCleared
CHECK_DEADLOCK FALSE
