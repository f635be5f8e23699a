CONSTANTS
    Users = {u1, u2}
    Requests = {q1, q2, q3}
    Workers = {w1, w2}
    Amounts = {1, 2}
    InitialDeposit = 2
    MinBid = 1
    TotalGifts = 2
    TotalRounds = 3
    DirectFinalize = TRUE
SPECIFICATION Spec
SYMMETRY Symmetry
CHECK_DEADLOCK FALSE
INVARIANTS
    TypeOK
    OneActiveBid
    LockedIsActiveBid
    SettlementCovered
    SettledOnce
    GiftsNotOverAwarded
PROPERTIES
    BidLifecycle
    RefinesEscrow
    RefinesLifecycle
