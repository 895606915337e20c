----------------------------- MODULE StockLedger -----------------------------
(***************************************************************************)
(* The two ledgers of orders V4 and their arithmetic                       *)
(* (orders-v4-calculation.kernel.ts, orders-v4-funds.kernel.ts and the two *)
(* posting services).  An "item" stands for an item at a location.  Every  *)
(* row carries the balance after it, computed from the row before it; a    *)
(* posting is a fold of movements over the balances read under the locks.  *)
(* Decimals have fewer places here: quantities and money are integers, a   *)
(* unit cost counts Parts-ths of a unit of money, and a division rounds    *)
(* half away from zero as Prisma.Decimal does.                             *)
(***************************************************************************)
EXTENDS Integers, SequencesExt

CONSTANTS Items,   \* inventory keys, numbered in the order of their lock keys
          Parts    \* fractions of the unit of money kept in a unit cost

ASSUME StockConstants == Items \subseteq Nat /\ Parts \in Nat \ {0}

VARIABLES stock,   \* the table orders_v4_inventory_ledger, by sequence
          custody  \* the table orders_v4_custody_ledger, by sequence

Balances == [qty : Int, value : Int, cost : Nat]
Empty    == [qty |-> 0, value |-> 0, cost |-> 0]

MovementKinds ==
    {"receipt", "revaluation", "issue", "cancellation", "stocktake", "reversal"}

StockRows ==
    [item : Items, kind : MovementKinds, qty : Int, value : Int, cost : Nat,
     after : Balances, doc : Nat, reverses : Nat]
CustodyRows == [amount : Int, after : Int, doc : Nat, reverses : Nat]

LedgersTypeOK == stock \in Seq(StockRows) /\ custody \in Seq(CustodyRows)

-----------------------------------------------------------------------------
(* The calculation kernel. *)

Rounded(a, b) ==
    LET magnitude == (2 * (IF a < 0 THEN -a ELSE a) + (IF b < 0 THEN -b ELSE b))
                        \div (2 * (IF b < 0 THEN -b ELSE b))
    IN  IF (a < 0) = (b < 0) THEN magnitude ELSE -magnitude

\* Mutant of AverageCost: the sign of the quantity is lost.
AverageOfMagnitude(value, qty, fallback) ==
    IF qty = 0 THEN fallback ELSE Rounded(value * Parts, IF qty < 0 THEN -qty ELSE qty)

\* A quantity and a value of opposite signs have no average of their own.
AverageCost(value, qty, fallback) ==
    IF qty = 0 \/ value * qty < 0 THEN fallback ELSE Rounded(value * Parts, qty)

Moved(b, qty, value, fallback) ==
    [qty |-> b.qty + qty, value |-> b.value + value,
     cost |-> AverageCost(b.value + value, b.qty + qty, fallback)]

Row(m, kind, qty, value, cost, after) ==
    [item |-> m.item, kind |-> kind, qty |-> qty, value |-> value, cost |-> cost,
     after |-> after, doc |-> m.doc, reverses |-> m.reverses]

\* A negative balance is revalued at the cost of the receipt that meets it.
Revaluation(b, m, unit) ==
    LET value == Rounded(b.qty * unit, Parts)
    IN  IF b.qty >= 0 \/ (value = b.value /\ b.cost = unit) THEN <<>>
        ELSE <<Row(m, "revaluation", 0, value - b.value, unit,
                   [b EXCEPT !.value = value, !.cost = unit])>>

Receipt(b, m) ==
    LET unit == Rounded(m.value * Parts, m.qty)
        revalued == Revaluation(b, m, unit)
        base == IF revalued = <<>> THEN b ELSE revalued[1].after
    IN  Append(revalued, Row(m, "receipt", m.qty, m.value, unit,
                             Moved(base, m.qty, m.value, unit)))

\* Stock may go below zero; without an average the issue has m.cost.
Issue(b, m) ==
    LET unit == IF b.cost > 0 THEN b.cost ELSE m.cost
        value == -Rounded(m.qty * unit, Parts)
    IN  <<Row(m, m.kind, -m.qty, value, unit, Moved(b, -m.qty, value, unit))>>

\* No row when the count agrees.
Stocktake(b, m) ==
    LET qty == m.qty - b.qty
        value == Rounded(qty * b.cost, Parts)
    IN  IF qty = 0 THEN <<>>
        ELSE <<Row(m, "stocktake", qty, value, b.cost,
                   [qty |-> m.qty, value |-> b.value + value, cost |-> b.cost])>>

Reversal(b, m) ==
    LET original == stock[m.reverses]
    IN  <<Row(m, "reversal", -original.qty, -original.value, original.cost,
              Moved(b, -original.qty, -original.value, 0))>>

RowsOf(b, m) ==
    CASE m.kind = "receipt"                   -> Receipt(b, m)
      [] m.kind \in {"issue", "cancellation"} -> Issue(b, m)
      [] m.kind = "stocktake"                 -> Stocktake(b, m)
      [] m.kind = "reversal"                  -> Reversal(b, m)

-----------------------------------------------------------------------------
(* Posting. *)

BalanceOf(i) ==
    LET rows == {n \in DOMAIN stock : stock[n].item = i}
    IN  IF rows = {} THEN Empty ELSE stock[Max(rows)].after

FundsBalance == IF custody = <<>> THEN 0 ELSE custody[Len(custody)].after

\* The rows of the movements ms, the balances having been read as seen.
Posted(ms, seen) ==
    LET Post(done, m) ==
            LET rows == RowsOf(done.balance[m.item], m)
            IN  [rows |-> done.rows \o rows,
                 balance |-> IF rows = <<>> THEN done.balance
                             ELSE [done.balance EXCEPT ![m.item] = Last(rows).after]]
    IN  FoldLeft(Post, [rows |-> <<>>, balance |-> seen], ms).rows

\* The rows of the custody movements ms, the balance having been read as seen.
FundsPosted(ms, seen) ==
    LET Post(rows, m) ==
            Append(rows, [amount |-> m.amount, doc |-> m.doc, reverses |-> m.reverses,
                          after |-> m.amount +
                              (IF rows = <<>> THEN seen ELSE Last(rows).after)])
    IN  FoldLeft(Post, <<>>, ms)

\* Unique indexes: a row is reversed once.
ReversedOnce(ms, rows) ==
    \A n \in DOMAIN ms : ms[n].reverses # 0 =>
        /\ \A k \in DOMAIN rows : rows[k].reverses # ms[n].reverses
        /\ \A k \in DOMAIN ms \ {n} : ms[k].reverses # ms[n].reverses

-----------------------------------------------------------------------------
(* Predicates for the properties of the modules that post. *)

Before(n) == {k \in 1 .. n - 1 : stock[k].item = stock[n].item}
BalanceBefore(n) == IF Before(n) = {} THEN Empty ELSE stock[Max(Before(n))].after

\* The audit of the code (dataQuality): every row continues the row before
\* it, and no average cost is negative.
LedgersChain ==
    /\ \A n \in DOMAIN stock :
          /\ stock[n].after.qty = BalanceBefore(n).qty + stock[n].qty
          /\ stock[n].after.value = BalanceBefore(n).value + stock[n].value
          /\ stock[n].after.cost >= 0
    /\ \A n \in DOMAIN custody :
          custody[n].after = custody[n].amount + (IF n = 1 THEN 0 ELSE custody[n - 1].after)

\* The document a row's effect belongs to: of a reversal, that of what it reverses.
Owners(rows) ==
    LET owner[n \in DOMAIN rows] ==
            IF rows[n].reverses = 0 THEN rows[n].doc ELSE owner[rows[n].reverses]
    IN  owner

=============================================================================
