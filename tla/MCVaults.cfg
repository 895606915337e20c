\* Two clerks open, archive and remove vaults while requests use them.
SPECIFICATION FairSpec
CONSTANTS
    v1 = v1
    v2 = v2
    Vaults <- VaultAccounts
    Accounts <- VaultAccounts
    Opened = {}
    Days = {1, 2}
    PeriodIds = {}
    Admins = {}
    Clerks = {c1, c2}
    Attempts = {r1, r2}
    Requests <- SmallRequests
    RetryMax = 2
PROPERTIES EveryRequestAnswered RemovalAloneIsSafe
CHECK_DEADLOCK FALSE
