\* Debts promoted, invoices posted, edited and cancelled: three requests at once.
SPECIFICATION Spec
CONSTANTS
    v1 = v1
    v2 = v2
    v3 = v3
    purchases = purchases
    expenses = expenses
    Accounts <- AllAccounts
    Vaults <- AllVaults
    Opened <- TwoVaults
    Kinds <- ThreeKinds
    KindAccount <- AccountOf
    Clerks = {}
    Admins = {}
    PeriodIds = {p1}
    Days = {1, 2}
    Attempts = {r1, r2, r3}
    Requests <- AllRequests
    OldDebts <- TwoDebts
    OldRows <- OneRow
INVARIANTS SerialsGapless PromotedHasInvoice PromotionFoundAgain ApartEditsKeepBooks DeadlocksNeedDisorder
PROPERTIES PromotionIsFinal
SYMMETRY Symmetry
CHECK_DEADLOCK FALSE
