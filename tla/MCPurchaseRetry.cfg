\* A batch of expenses sent twice with its key.
SPECIFICATION Spec
CONSTANTS
    v1 = v1
    v2 = v2
    v3 = v3
    purchases = purchases
    expenses = expenses
    Accounts <- AllAccounts
    Vaults <- AllVaults
    Opened <- TwoVaults
    Kinds <- ThreeKinds
    KindAccount <- AccountOf
    Clerks = {}
    Admins = {}
    PeriodIds = {p1}
    Days = {1, 2}
    Attempts = {r1, r2}
    Requests <- RetryRequests
    OldDebts <- TwoDebts
    OldRows <- OneRow
INVARIANT BatchRecordedOnce
CHECK_DEADLOCK FALSE
