---------------------------- MODULE MCSalesSummary ----------------------------
(***************************************************************************)
(* Bounded instances of SalesSummary for TLC.                              *)
(***************************************************************************)
EXTENDS SalesSummary, TLC

CONSTANTS v1, v2, revenue, vat

Take(a, b) == [v \in Vaults |-> IF v = v1 THEN a ELSE b]
ItemOf(shift, channels) == [shift |-> shift, channels |-> channels]

CreateOf(day, items) == [op |-> "create", day |-> day, items |-> items]
UpdateOf(id, day, shift, channels) ==
    [op |-> "update", id |-> id, day |-> day, shift |-> shift, channels |-> channels]
ShiftOf(id, shift) == [op |-> "shift", id |-> id, day |-> 0, shift |-> shift]
CancelOf(id) == [op |-> "cancel", id |-> id]

\* Amounts that round differently together and apart, two shifts at once,
\* the evening alone, an empty sale, updates that keep the day, leave the
\* shift or leave the day, and cancellations.
SalesRequests ==
    {CreateOf(1, <<ItemOf("morning", Take(4, 1)), ItemOf("evening", Take(3, 0))>>),
     CreateOf(1, <<ItemOf("evening", Take(0, 5))>>),
     CreateOf(2, <<ItemOf("all", Take(0, 0))>>),
     UpdateOf(1, 1, "evening", Take(0, 4)),
     UpdateOf(1, 0, "morning", Take(3, 3)),
     UpdateOf(2, 2, "evening", Take(5, 0)),
     ShiftOf(1, "evening"),
     CancelOf(1)}

SalesAccounts == {v1, v2, revenue, vat}
Symmetry == Permutations(Attempts)

=============================================================================
