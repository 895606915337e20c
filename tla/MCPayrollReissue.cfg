\* The instance of MCPayroll.cfg: is an unpaid run one that can be paid?
SPECIFICATION Spec
CONSTANTS
    v1 = v1
    v2 = v2
    salaryExpense = salaryExpense
    payable = payable
    advanceAsset = advanceAsset
    Accounts <- AllAccounts
    Vaults <- AllVaults
    Opened <- OneVault
    SalaryExpense <- salaryExpense
    Payable <- payable
    AdvanceAsset <- advanceAsset
    Clerks = {}
    Admins = {}
    PeriodIds = {p1}
    Days = {1}
    Attempts = {r1, r2}
    Months = {1, 2}
    LastDay <- LastOfMonth
    Contents <- Deducting
    Drafts <- LargeDrafts
    Edits <- Changes
    Tokens = {7}
    Extras = {2}
    AdvanceTotals <- OneAdvance
    MaxRuns = 2
INVARIANT UnpaidCanBePaid
SYMMETRY Symmetry
CHECK_DEADLOCK FALSE
