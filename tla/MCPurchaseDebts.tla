--------------------------- MODULE MCPurchaseDebts ---------------------------
(***************************************************************************)
(* Bounded instances of PurchaseDebts for TLC.                             *)
(***************************************************************************)
EXTENDS PurchaseDebts, TLC

CONSTANTS v1, v2, v3, purchases, expenses

Promote(first, second, key) ==
    [op |-> "batch", key |-> key, day |-> 1,
     items |-> <<[debt |-> first, number |-> "", kind |-> "purchase", total |-> 0,
                  vault |-> v1, splits |-> <<>>],
                 [debt |-> second, number |-> "", kind |-> "purchase", total |-> 0,
                  vault |-> v1, splits |-> <<>>]>>]
Purchase(number, key) ==
    [op |-> "batch", key |-> key, day |-> 1,
     items |-> <<[debt |-> 0, number |-> number, kind |-> "purchase", total |-> 2,
                  vault |-> v1, splits |-> <<>>],
                 [debt |-> 0, number |-> "", kind |-> "expense", total |-> 3, vault |-> v1,
                  splits |-> <<[vault |-> v1, amount |-> 1], [vault |-> v2, amount |-> 2]>>]>>]
Rent(key) ==
    [op |-> "batch", key |-> key, day |-> 1,
     items |-> <<[debt |-> 0, number |-> "", kind |-> "fixed_expense", total |-> 1,
                  vault |-> v1, splits |-> <<>>]>>]
Edit(invoice, set) == [op |-> "edit", invoice |-> invoice, set |-> set]
Cancel(invoice)    == [op |-> "cancel", invoice |-> invoice]
Record(number)     == [op |-> "debts", items |-> <<[number |-> number, total |-> 1]>>]
Amend(debt, number) == [op |-> "amend", debt |-> debt, number |-> number, total |-> 3]
Withdrawn(debt)    == [op |-> "withdraw", debt |-> debt]
Restored(debt)     == [op |-> "restore", debt |-> debt]

\* Two debts promoted in both orders, under one key or another; a purchase
\* with the number of one of them and an expense; a rent, whose number is of
\* the same series as the expense's; edits of every field; cancellations.
AllRequests ==
    {Promote(1, 2, "k1"), Promote(2, 1, "k2"), Purchase("n1", "k3"), Rent(""), Cancel(1), Cancel(2),
     Edit(1, [total |-> 5]), Edit(1, [number |-> "n2", day |-> 2]),
     Edit(1, [kind |-> "expense"]), Edit(1, [vault |-> v2]), Edit(1, [status |-> "active"]),
     Record("n3"), Amend(1, "n3"), Withdrawn(1), Restored(1)}

\* One batch, sent again.
RetryRequests == {Purchase("", "k3")}

TwoDebts == <<[number |-> "n1", total |-> 1], [number |-> "n2", total |-> 2]>>
OneRow ==
    <<[serial |-> [prefix |-> "PUR", day |-> 1, seq |-> 1], kind |-> "purchase",
       number |-> "n0", dedupKey |-> "n0", total |-> 3, day |-> 1, status |-> "active",
       splits |-> <<[vault |-> v1, amount |-> 1], [vault |-> v3, amount |-> 2]>>]>>

Symmetry    == Permutations(Attempts)
TwoVaults   == {v1, v2}
AllVaults   == {v1, v2, v3}
AllAccounts == {v1, v2, v3, purchases, expenses}
ThreeKinds  == {"purchase", "expense", "fixed_expense"}
AccountOf   == [k \in ThreeKinds |-> IF k = "purchase" THEN purchases ELSE expenses]

=============================================================================
