CONSTANTS
    Attempts = {r1, r2, r3, r4}
    Items = {1, 2}
    Parts = 10
    Days = {1, 2}
    Requests <- AllRequests
    OldOrders <- TwoOrders
    CashSales <- ThreeInAll
SPECIFICATION Spec
SYMMETRY Symmetry
INVARIANTS
    TypeOK
    LedgersChain
    EffectMatchesStatus
    LastPriceFollows
    DeadlocksOnlyByAmend
PROPERTIES
    RetryNotRefused
