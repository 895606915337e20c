\* Paying, reversing and converting, three requests at once, while an invoice
\* is cancelled, a period is created and closed and a vault is archived.
SPECIFICATION Spec
CONSTANTS
    v1 = v1
    loanAccount = loanAccount
    openingAccount = openingAccount
    expenseAccount = expenseAccount
    LoanAccount <- loanAccount
    OpeningAccount <- openingAccount
    ExpenseAccount <- expenseAccount
    Accounts <- AllAccounts
    Vaults <- OnlyVault
    Opened <- OnlyVault
    Clerks = {c1}
    Admins = {a1}
    PeriodIds = {p1}
    Days = {1, 2}
    Attempts = {r1, r2, r3}
    Requests <- AllRequests
    LegacyInvoices <- TwoInvoices
    Cancellable = {1}
INVARIANTS OutstandingIsOpeningLessPaid LedgerCarriesDebt OneOpeningEntry PaymentsRecordedOnce
PROPERTIES ConversionMovesNoMoney
SYMMETRY Symmetry
CHECK_DEADLOCK FALSE
