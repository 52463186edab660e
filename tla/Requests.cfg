SPECIFICATION MCSpec
CONSTANTS
    c1 = c1
    c2 = c2
    c3 = c3
    main = main
    feature = feature
    Zero = Zero
    HookFails = TRUE
    Commits = {c1, c2, c3}
    Parents <- MCParents
    Refs = {main, feature}
    HookBranch <- MCHookBranch
    HeadRef = main
    Holdings = {r1, r2}
    Changes = {u1, u2}
    Sizes = {0, 3, 5, 8}
    Word = 64
    GB = 2
    FreeLimit = 3
    Price = 2
    Balances = {0, 4, 8}
    Files <- MCFiles
    ChunkSize = 2
    Totals = {0, 1, 2, 3, 4, 5, 6, 7}
    Offsets = {0, 1, 2, 11, 21}
    Limits = {0, 1, 2, 3, 15, 20, 22, 39}
    DefaultLimit = 2
    PageWord = 40
    GitWord = 20
    Subtrees = {1, 2, 5}
    MaxPushed = 2
INVARIANTS
    
    ChargeIsForeseen
    NeverOvercharged
    SubmittedIsAccepted
    
CHECK_DEADLOCK FALSE
