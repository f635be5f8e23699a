CONSTANTS
    Users = {u1, u2}
    Requests = {q1, q2}
    Workers = {w1}
    Amounts = {1, 2}
    InitialDeposit = 2
    MinBid = 1
    TotalGifts = 1
    TotalRounds = 2
    DirectFinalize = FALSE
SPECIFICATION Spec
CHECK_DEADLOCK FALSE
INVARIANT NoStrandedBid
