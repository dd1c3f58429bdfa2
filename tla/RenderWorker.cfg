CONSTANTS
    NumJobs = 2
    Variants <- OneThenTwo
    Sharing <- SecondOnly
    NumBrowsers = 3
    Concurrency = 2
    Depth = 1
    MaxDepth = 2
    PageCeiling = 1
    MaxFaults = 1
    ShortLeases <- SecondOnly
SPECIFICATION FairSpec
CHECK_DEADLOCK FALSE
INVARIANTS TypeOK ChromeKnown NoChromeLeft
PROPERTIES ReapedIdle JobsSettle RetiredReaped
