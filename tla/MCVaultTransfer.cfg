\* Concurrent requests, retries and collisions while a period closes.
SPECIFICATION Spec
CONSTANTS
    v1 = v1
    v2 = v2
    Vaults <- VaultAccounts
    Accounts <- VaultAccounts
    Days = {1, 2}
    PeriodIds = {p1}
    Admins = {a1}
    Clerks = {}
    Opened <- VaultAccounts
    Attempts = {r1, r2, r3}
    Requests <- MCRequests
    RetryMax = 2
INVARIANTS KeyAppliedOnce ReplyIsOwn ReversalsPaired BalancesMatchVouchers
PROPERTIES ImplementsBook
SYMMETRY Symmetry
CHECK_DEADLOCK FALSE
