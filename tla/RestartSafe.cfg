CONSTANTS
    Instances = {i1}
    Overlap = 1
    TotalGifts = 2
    TotalRounds = 2
    MaxRetries = 3
    MaxFaults = 1
    MaxCrashes = 1
SPECIFICATION FairSpec
CHECK_DEADLOCK FALSE
PROPERTY RunningAuctionCompletes
