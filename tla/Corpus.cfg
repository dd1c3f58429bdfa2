SPECIFICATION FairSpec
CONSTANTS
    MaxEvents = 2
    MaxFaults = 1
INVARIANTS
    TypeOK
    OrphanForCause
PROPERTIES
    SweepSparesLive
    RowFollowsTarget
    PagesReclaimed
CHECK_DEADLOCK FALSE
