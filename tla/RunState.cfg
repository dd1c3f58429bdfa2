CONSTANTS
    MaxRuns = 3
    MaxStops = 1
    MaxFaults = 1
SPECIFICATION Spec
CHECK_DEADLOCK FALSE
INVARIANTS TypeOK OneRunner CanceledForCause
PROPERTY StopHeeded
