SPECIFICATION FairThrottlerSpec
CONSTANTS
    Bids = {b1, b2}
    Flushes = {f1, f2}
    Forces = {r1}
    MaxAmount = 2
    Positions = 1
    MaxNotices = 1
    MaxFaults = 1
INVARIANTS ThrottlerTypeOK BaselineIsShown
PROPERTY QueueDrains
CHECK_DEADLOCK FALSE
