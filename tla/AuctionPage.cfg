SPECIFICATION FairSpec
CONSTANTS
    Requests = {r1, r2}
    MaxVersion = 3
    MaxFaults = 2
INVARIANTS TypeOK BidsNotOlder
PROPERTY VisiblePageCatchesUp
