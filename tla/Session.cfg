CONSTANTS
    Users = {a, b}
    Nobody = nobody
    NoToken = none
    SignIns = {i, j}
    BalanceCalls = {x}
    BidsCalls = {z}
    MaxTokens = 2
    MaxFaults = 1
SPECIFICATION FairSpec
INVARIANTS TypeOK OwnDataOnly
PROPERTIES RefusedSessionEnds ForeignBalanceEnds
