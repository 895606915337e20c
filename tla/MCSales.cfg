\* Three requests interleave while a period is created and closed.
SPECIFICATION Spec
CONSTANTS
    v1 = v1
    v2 = v2
    revenue = revenue
    vat = vat
    Accounts <- SalesAccounts
    RevenueAccount = revenue
    VatAccount = vat
    Vaults = {v1, v2}
    Opened = {v1, v2}
    Clerks = {}
    Days = {1, 2}
    PeriodIds = {p1}
    Admins = {d1}
    Attempts = {a1, a2, a3}
    Requests <- SalesRequests
    RetryMax = 2
    VatRate = 50
INVARIANTS SalesNeverMissing InvoiceMirrorsSummary NumbersDistinct LedgerMatchesSales OneSummaryPerShift
SYMMETRY Symmetry
CHECK_DEADLOCK FALSE
