------------------------------ MODULE MCPayroll ------------------------------
(***************************************************************************)
(* Bounded instances of Payroll for TLC.                                   *)
(***************************************************************************)
EXTENDS Payroll, TLC

CONSTANTS v1, v2, salaryExpense, payable, advanceAsset

\* An advance of 3, from which a run deducts 2, or 1 after an edit.
OneAdvance    == <<3>>
Takes(amount) == [net |-> 1, takes |-> <<amount>>]
Deducting     == {Takes(1), Takes(2)}
LargeDrafts   == {1, 2} \X {Takes(2)}
Changes       == {[month |-> 2, content |-> Takes(1)]}
LastOfMonth   == [m \in {1, 2} |-> 1]
OneVault      == {v1}
AllVaults     == {v1, v2}
AllAccounts   == {v1, v2, salaryExpense, payable, advanceAsset}
Symmetry      == Permutations(Attempts)

=============================================================================
