CONSTANTS
    Instances = {i1}
    Overlap = 2
    TotalGifts = 2
    TotalRounds = 2
    MaxRetries = 3
    MaxFaults = 0
    MaxCrashes = 0
SPECIFICATION Spec
CHECK_DEADLOCK FALSE
PROPERTY ClosedWhenDue
