SPECIFICATION Spec
CONSTANTS
    c1 = c1
    c2 = c2
    j1 = j1
    j2 = j2
    r1 = r1
    r2 = r2
    Claims <- TwoClaims
    Jobs <- TwoJobs
    Results <- OneResult
    FastRetries = 1
    MaxMisses = 3
    MaxEvents = 1
    MaxRestarts = 0
SYMMETRY FleetSymmetry
INVARIANTS
    TypeOK
    WedgeBound
    HeldForCause
    FoundChangeKept
PROPERTIES
    NoGrantBehindCommit
    ForeignLeaseKept
    AskOutlivesRender
