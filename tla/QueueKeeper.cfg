CONSTANTS
    NumKeys = 1
    early = early
    null = null
    pair = pair
    trio = trio
    Rows = {early}
    None = null
    Lists = {pair, trio}
    Owned <- MCOwned
    MaxDisturbances = 3
SPECIFICATION Spec
CHECK_DEADLOCK FALSE
INVARIANTS TypeOK MismatchOwed
PROPERTIES IndexConverges VerifyHeals
