SPECIFICATION Spec
CONSTANTS
    c1 = c1
    c2 = c2
    j1 = j1
    j2 = j2
    r1 = r1
    r2 = r2
    Claims <- OneClaim
    Jobs <- OneJob
    Results <- OneResult
    FastRetries = 0
    MaxMisses = 2
    MaxEvents = 2
    MaxRestarts = 0
INVARIANT NoStaleLanding
