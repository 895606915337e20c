------------------------------- MODULE MCLoans -------------------------------
(***************************************************************************)
(* Bounded instances of Loans for TLC.                                     *)
(***************************************************************************)
EXTENDS Loans, TLC

CONSTANTS v1, loanAccount, openingAccount, expenseAccount

LoanOf(key, amount, day) == [op |-> "loan", key |-> key, amount |-> amount, day |-> day]
PayOf(key, loan, amount, day) ==
    [op |-> "pay", key |-> key, loan |-> loan, vault |-> v1, amount |-> amount, day |-> day]
ReverseOf(key, loan, payment, day) ==
    [op |-> "reverse", key |-> key, loan |-> loan, payment |-> payment, day |-> day]
MigrateTo(loan) == [op |-> "migrate", loan |-> loan]
Convert(loan)   == [op |-> "convert", loan |-> loan]

\* Payments that fit alone but not together, a key used twice with another
\* amount, reversals of the same payment under two keys.
PayRequests ==
    {LoanOf("k0", 3, 1), PayOf("k1", 1, 2, 2), PayOf("k1", 1, 1, 2), PayOf("k2", 1, 2, 1),
     ReverseOf("k3", 1, 1, 2), ReverseOf("k4", 1, 1, 1)}

\* Two loans, the same invoices claimed for either and converted.
ConvertRequests ==
    {LoanOf("k5", 1, 1), MigrateTo(1), MigrateTo(2), Convert(1)}

AllRequests == PayRequests \cup ConvertRequests

TwoInvoices == <<[vault |-> v1, amount |-> 1, day |-> 1],
                 [vault |-> v1, amount |-> 2, day |-> 2]>>
OnlyVault   == {v1}
AllAccounts == {v1, loanAccount, openingAccount, expenseAccount}
Symmetry    == Permutations(Attempts)

=============================================================================
