SPECIFICATION FairSpec
CONSTANTS
    w1 = w1
    w2 = w2
    Workers <- TwoWorkers
    Cap = 2
    Batch = 1
    MaxGen = 3
    MaxCursor = 4
INVARIANTS
    TypeOK
    ActiveSetWhole
    NeverSkipped
    DuplicatesFromStraddlers
    CursorBounded
PROPERTY EveryEntryServed
