SPECIFICATION Spec
CONSTANTS
    w1 = w1
    w2 = w2
    k = k
    NoKey = NoKey
    OtherKey = OtherKey
    Stale <- SlotZero
    Workers <- TwoWorkers
    Keys <- OneKey
    NumSlots = 2
    StartOf <- StartAtZero
    LeaseTicks = 5
    HoldTicks = 6
    GraceTicks = 2
    Minutes <- OneMinute
    MaxClock = 7
    MaxStall = 1
    RenderTicks = 2
    MaxLeases = 3
    ScanUntil = 3
SYMMETRY WorkerSymmetry
CHECK_DEADLOCK FALSE
INVARIANTS
    TypeOK
    ExclusiveOnceSlotted
PROPERTY NoForeignTruncation
