SPECIFICATION FairSpec
CONSTANTS
    Processes = {p1, p2, p3}
    Slots = {s1}
    MaxRetries = 1
    TTL = 2
    MaxCalls = 3
    MaxFaults = 2
INVARIANTS TypeOK Exclusion LeaseHoldsKey
PROPERTY EveryLockEnds
CHECK_DEADLOCK FALSE
