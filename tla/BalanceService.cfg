CONSTANTS
    Users = {u1, u2}
    Calls = {c1, c2, c3}
    Amounts = {0, 2}
    InitialDeposit = 3
SPECIFICATION FairSpec
INVARIANTS
    TypeOK
    LedgerExplainsBalances
PROPERTY EveryCallAnswered
