SPECIFICATION MCSpec
CONSTANTS
    c1 = c1
    c2 = c2
    c3 = c3
    main = main
    feature = feature
    Zero = Zero
    HookFails = FALSE
    Commits = {c1, c2, c3}
    Parents <- MCParents
    Refs = {main, feature}
    HookBranch <- MCHookBranch
    HeadRef = main
    Holdings = {r1}
    Changes = {u1}
    Sizes = {0, 3}
    Word = 64
    GB = 2
    FreeLimit = 3
    Price = 2
    Balances = {0}
    Files <- MCFiles
    ChunkSize = 2
    Totals = {0, 1}
    Offsets = {0}
    Limits = {0}
    DefaultLimit = 2
    PageWord = 40
    GitWord = 20
    Subtrees = {1, 2, 5}
    MaxPushed = 2
PROPERTY RewritesRejected
CHECK_DEADLOCK FALSE
