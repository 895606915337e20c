------------------------------ MODULE MCOrders ------------------------------
(***************************************************************************)
(* Bounded instances of OrdersDocuments for TLC.                           *)
(***************************************************************************)
EXTENDS OrdersDocuments

Both(first, second)  == (1 :> first) @@ (2 :> second)
Only(item, line)     == item :> line
Buy(qty, price)   == [qty |-> qty, price |-> price]
Use(qty)            == [qty |-> qty]

Order(key, lines, date) ==
    [op |-> "order", key |-> key, lines |-> lines, method |-> "cash", fund |-> 0, date |-> date]
Register(key, kind, lines, date) ==
    [op |-> "register", key |-> key, kind |-> kind, lines |-> lines, date |-> date]
Receive(key, doc, lines, method, fund, date) ==
    [op |-> "receive", key |-> key, doc |-> doc, revision |-> 1, lines |-> lines,
     method |-> method, fund |-> fund, date |-> date]
Correct(key, doc, lines, method, date) ==
    [op |-> "correct", key |-> key, doc |-> doc, revision |-> 2, lines |-> lines,
     method |-> method, fund |-> 0, date |-> date]
ReverseDoc(key, doc) == [op |-> "reverse", key |-> key, doc |-> doc, date |-> 2]
Undo(key, doc)    == [op |-> "undo", key |-> key, doc |-> doc, date |-> 2]
Amend(key, doc, lines) ==
    [op |-> "amend", key |-> key, doc |-> doc, revision |-> 1, lines |-> lines, date |-> 1]
Count(key, lines) == [op |-> "count", key |-> key, lines |-> lines, date |-> 2]

\* Two orders, one received as of an earlier day than the other, and everything
\* that may happen to them; registrations on two days.
AllRequests ==
    {Order("k1", Only(1, Buy(1, 3)), 1),
     Receive("k2", 1, Both(Buy(2, 3), Buy(1, 2)), "custody", 5, 2),
     Receive("k11", 2, Only(1, Buy(3, 1)), "transfer", 0, 1),
     Correct("k3", 1, Only(1, Buy(3, 2)), "none", 1),
     ReverseDoc("k4", 1), Undo("k5", 1), ReverseDoc("k6", 3),
     Register("k7", "issue", Only(2, Use(3)), 2),
     Register("k8", "cancellation", Only(2, Use(1)), 1),
     Amend("k9", 3, Only(1, Use(1))),
     Count("k10", Both(Use(1), Use(0)))}

Prepared(key, lines, method) ==
    [Document("purchase", "prepared", Order(key, lines, 2), Key("document", [key |-> key]))
        EXCEPT !.lines = lines, !.method = method]

TwoOrders ==
    <<Prepared("k0", Only(1, Buy(2, 3)), "custody"), Prepared("k00", Only(1, Buy(3, 1)), "cash")>>

\* Each of the two orders alone uses all the cash sales.
CashRequests ==
    {Receive("k2", 1, Only(1, Buy(1, 3)), "cash", 0, 1),
     Receive("k3", 2, Only(1, Buy(3, 1)), "cash", 0, 1),
     ReverseDoc("k4", 1), Undo("k5", 1)}

ThreeInAll == [day \in Days |-> 3]

\* The requests of these instances have keys of their own, as the client draws them.
ASSUME RequestsHaveTheirKeys == KeysOfOneRequest

Symmetry == Permutations(Attempts)
=============================================================================
