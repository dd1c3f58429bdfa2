CONSTANTS
    MaxRuns = 3
    MaxStops = 1
    MaxFaults = 0
SPECIFICATION Spec
CHECK_DEADLOCK FALSE
INVARIANT ClaimIsMutex
