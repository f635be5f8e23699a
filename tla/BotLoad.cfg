CONSTANTS
    Names = {1, 2, 3, 4}
    Passwords = {p1, p2}
    NoPassword = none
    Grants = {1}
    Calls = {c1, 1, 2, 3, 4}
    MaxFaults = 1
    NumBots = 4
    BidsPerBot = 1
    BotGrant = 1
    BatchSize = 2
    InitialConcurrency = 2
    MinConcurrency = 1
    MaxConcurrency = 2
    UpdateEvery = 1
SPECIFICATION FairLoadSpec
CHECK_DEADLOCK FALSE
INVARIANTS LoadTypeOK UniqueNames GrantHonoured TokenForPassword PoolFull
PROPERTY LoadTestEnds
