SPECIFICATION FairSpec
CONSTANTS
    s1 = s1
    s2 = s2
    s3 = s3
    s4 = s4
    None = None
    Slots = {s1, s2, s3, s4}
    Cids = {c1, c2}
    Providers = {"pinata", "filebase"}
    SlotKind <- OneRepository
    MaxWorkers = 2
    MaxTx = 3
    Faults = {"query", "cache", "pin", "unpin", "hang"}
INVARIANTS
    NothingLeftBehind
    UnsharedIsCopied
PROPERTY
    BuffersAreHandled
CHECK_DEADLOCK FALSE
