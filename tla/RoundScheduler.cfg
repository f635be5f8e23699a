CONSTANTS
    Instances = {i1, i2}
    Overlap = 1
    TotalGifts = 2
    TotalRounds = 3
    MaxRetries = 3
    MaxFaults = 3
    MaxCrashes = 2
SPECIFICATION FairSpec
CHECK_DEADLOCK FALSE
INVARIANTS
    TypeOK
    OneHolder
    RoundsInSequence
PROPERTIES
    RefinesLifecycle
    UndisturbedRoundsEnd
    DoneAuctionCompletes
