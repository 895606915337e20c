---------------------------- MODULE PurchaseDebts ----------------------------
(***************************************************************************)
(* Supplier invoices and the purchase debts that become invoices           *)
(* (invoice.service.ts, purchase-debts.service.ts).  A batch may name      *)
(* debts: it reserves their rows one by one, which locks them until it     *)
(* ends, posts the invoices and marks the debts promoted, in one           *)
(* transaction; cancelling such an invoice gives the debt back.  A         *)
(* request's reads are steps of their own and its writes one step; a check *)
(* that a write's condition or a unique index repeats is decided there.    *)
(***************************************************************************)
EXTENDS OutflowInvoices

CONSTANTS Attempts,   \* HTTP requests being served, retries included
          Requests,   \* the payloads the clients may send
          OldDebts,   \* debts recorded before: a sequence of numbers and totals
          OldRows     \* invoices posted before: a sequence of rows

NoKey == ""                  \* a batch sent without an idempotency key
Keys  == STRING \cup {NoKey}

Items == [debt : Nat, number : SupplierNumbers, kind : Kinds, total : Nat, vault : Vaults,
          splits : Splits]
DebtItems == [number : STRING, total : Nat \ {0}]

\* What the validation of the requests lets through: a batch names at least
\* one item; an edit sends some of the fields, and the status only to set it
\* active, because cancelling goes through cancelOperation.
Batches == [op : {"batch"}, key : Keys, day : Days, items : Seq(Items) \ {<<>>}]
EditFits(set) ==
    /\ DOMAIN set \subseteq {"total", "number", "day", "kind", "status", "vault", "splits"}
    /\ "total" \in DOMAIN set => set["total"] \in Nat \ {0}
    /\ "number" \in DOMAIN set => set["number"] \in SupplierNumbers
    /\ "day" \in DOMAIN set => set["day"] \in Days
    /\ "kind" \in DOMAIN set => set["kind"] \in Kinds
    /\ "status" \in DOMAIN set => set["status"] = "active"
    /\ "vault" \in DOMAIN set => set["vault"] \in Vaults
    /\ "splits" \in DOMAIN set => set["splits"] \in Splits
DebtRequests ==
    [op : {"debts"}, items : Seq(DebtItems)]
      \cup [op : {"amend"}, debt : Nat, number : STRING, total : Nat \ {0}]
      \cup [op : {"withdraw", "restore"}, debt : Nat]

ASSUME DebtConstants ==
    /\ "purchase" \in Kinds
    /\ OldDebts \in Seq(DebtItems)
    /\ OldRows \in Seq(InvoiceRows)
    /\ Gapless(OldRows) /\ NumberedOnce(OldRows)
    /\ \A i \in DOMAIN OldRows :
          /\ OldRows[i].status = "active" /\ OldRows[i].dedupKey = OldRows[i].number
          /\ SumOf(OldRows[i].splits) = OldRows[i].total
    /\ \A q \in Requests :
          \/ q \in Batches \/ q \in [op : {"cancel"}, invoice : Nat] \/ q \in DebtRequests
          \/ q.op = "edit" /\ q.invoice \in Nat /\ EditFits(q.set)

VARIABLES debts,      \* the table purchase_debt_records; a position is an id
          stored,     \* results kept under the key of a batch
          attempt,    \* what each request is doing
          apart,      \* history: no two changes of one invoice have overlapped
          revived     \* history: the cancelled invoices an edit has set active

tables == <<debts, invoices, ledger, stored>>
settings == <<vaultVars, periodVars>>
vars == <<tables, attempt, apart, revived, settings>>

NoDebt  == 0
Unsent  == [pc |-> "idle"]
Answers == Seq(Nat \ {0})

\* What a debt says of its promotion; the unpromoted have none.
Unpromoted == [invoice |-> 0, key |-> NoKey, batch |-> <<>>]

DebtRows ==
    [number : STRING, total : Nat \ {0}, status : {"pending", "promoted", "cancelled"},
     promotion : [invoice : Nat, key : Keys, batch : Answers]]

\* A request being served: the lines whose debts it has reserved, the rows
\* it has prepared or read, and its answer.
Served ==
    [pc : {"replay", "cached", "reserve", "items", "commit", "store", "again", "read",
           "write", "done", "failed"},
     request : Requests, held : SUBSET Nat, rows : Seq(InvoiceRows), reply : Answers]

TypeOK ==
    /\ OutflowTypeOK
    /\ debts \in Seq(DebtRows)
    /\ stored \subseteq [hash : [request : Requests, batch : Attempts], ids : Answers]
    /\ attempt \in [Attempts -> Served \cup {Unsent}]

-----------------------------------------------------------------------------

At(r, pc)    == attempt[r].pc = pc
Goto(r, pc)  == attempt' = [attempt EXCEPT ![r].pc = pc]
Fail(r)      == attempt' = [attempt EXCEPT ![r].pc = "failed", ![r].held = {}]
Done(r, ids) == attempt' = [attempt EXCEPT ![r].pc = "done", ![r].held = {}, ![r].reply = ids]

Doing(r, op, pc) == At(r, pc) /\ attempt[r].request.op = op

Unwritten == UNCHANGED <<tables, settings>>

\* The lines of a batch that name a debt, and these debts.
Naming(q)  == {n \in DOMAIN q.items : q.items[n].debt # NoDebt}
DebtsOf(q) == {q.items[n].debt : n \in Naming(q)}
NamedOnce(q) == \A n, m \in Naming(q) : q.items[n].debt = q.items[m].debt => n = m

Debtors(number) == {d \in DOMAIN debts : debts[d].number = number}

\* The rows reserved (status "promoting", uncommitted) are locked.
Held(r)   == IF At(r, "idle") THEN {}
             ELSE {attempt[r].request.items[n].debt : n \in attempt[r].held}
Locked(d) == \E r \in Attempts : d \in Held(r)

\* The vaults not in Opened are archived; a period may have been opened,
\* closed or locked before.
SettingsInit ==
    /\ vault = [v \in Vaults |-> [code |-> 1, active |-> TRUE, archived |-> v \notin Opened]]
    /\ clerk = [c \in Clerks |-> NoClerk]
    /\ \E first, last \in Days : first < last
          /\ periods \in [PeriodIds -> {NoRow} \cup
                            [status : {"open", "closed", "locked"}, first : {first}, last : {last}]]
    /\ admin = [a \in Admins |-> Idle]

NewDebt(item) ==
    [number |-> item.number, total |-> item.total, status |-> "pending",
     promotion |-> Unpromoted]

Init ==
    /\ debts = [d \in DOMAIN OldDebts |-> NewDebt(OldDebts[d])]
    /\ invoices = OldRows
    /\ ledger = FlattenSeq([i \in DOMAIN OldRows |->
                    EntriesFor(i, OldRows[i], KindAccount[OldRows[i].kind])])
    /\ stored = {}
    /\ attempt = [r \in Attempts |-> Unsent]
    /\ apart = TRUE
    /\ revived = {}
    /\ SettingsInit

FirstStep(q) ==
    IF q.op # "batch" THEN "read"
    ELSE IF q.key = NoKey THEN (IF DebtsOf(q) = {} THEN "items" ELSE "reserve")
    ELSE IF DebtsOf(q) = {} THEN "cached" ELSE "replay"

Submit(r, q) ==
    /\ attempt[r] = Unsent
    /\ attempt' = [attempt EXCEPT ![r] =
          [pc |-> FirstStep(q), request |-> q, held |-> {}, rows |-> <<>>, reply |-> <<>>]]
    /\ Unwritten

\* The connection or the process is lost: the transaction is rolled back.
Abort(r) ==
    /\ attempt[r].pc \notin {"idle", "done", "failed"}
    /\ Fail(r)
    /\ Unwritten

-----------------------------------------------------------------------------
(* createBatchWithLedger.                                                  *)

\* loadPurchaseDebtPromotionReplay: the batches the debts were promoted in
\* under this key; an empty batch stands for a debt that was not.
Promotions(q) ==
    {IF /\ d \in DOMAIN debts /\ debts[d].status = "promoted"
        /\ debts[d].promotion.key = q.key
     THEN debts[d].promotion.batch ELSE <<>> : d \in DebtsOf(q)}

FindPromotion(r) ==
    /\ attempt[r].pc \in {"replay", "again"}
    /\ LET q == attempt[r].request IN
       \/ \E batch \in Promotions(q) \ {<<>>} :
             Promotions(q) = {batch} /\ NamedOnce(q) /\ Done(r, batch)
       \/ /\ ~NamedOnce(q) \/ \A batch \in Promotions(q) \ {<<>>} : Promotions(q) # {batch}
          /\ IF At(r, "replay") THEN Goto(r, "reserve") ELSE Fail(r)
    /\ Unwritten

\* hashKey covers the batchId, which is drawn anew for every HTTP request.
Hash(r) == [request |-> attempt[r].request, batch |-> r]

FindCached(r) ==
    /\ At(r, "cached")
    /\ \/ \E s \in stored : s.hash = Hash(r) /\ Done(r, s.ids)
       \/ /\ \A s \in stored : s.hash # Hash(r)
          /\ Goto(r, "items")
    /\ Unwritten

\* The first line whose debt is not reserved yet.
NextLine(r) == Min(Naming(attempt[r].request) \ attempt[r].held)
Unreserved(r) == attempt[r].request.items[NextLine(r)].debt

\* Mutant of Reserve: the updates of the lines are issued together, and their
\* rows are locked in whatever order they are reached.
ReserveTogether(r) ==
    /\ At(r, "reserve")
    /\ \E n \in Naming(attempt[r].request) \ attempt[r].held :
          LET d == attempt[r].request.items[n].debt IN
          /\ d \in DOMAIN debts /\ debts[d].status = "pending" /\ ~Locked(d)
          /\ attempt' = [attempt EXCEPT ![r].held = @ \cup {n},
                ![r].pc = IF attempt[r].held \cup {n} = Naming(attempt[r].request)
                          THEN "items" ELSE "reserve"]
    /\ Unwritten

\* reserveAndHydratePurchaseDebtItems, one debt: the update locks the row ...
Reserve(r) ==
    /\ At(r, "reserve")
    /\ LET d == Unreserved(r) IN
       /\ d \in DOMAIN debts /\ debts[d].status = "pending" /\ ~Locked(d)
       /\ attempt' = [attempt EXCEPT ![r].held = @ \cup {NextLine(r)},
             ![r].pc = IF attempt[r].held \cup {NextLine(r)} = Naming(attempt[r].request)
                       THEN "items" ELSE "reserve"]
    /\ Unwritten

\* ... or changes nothing: with a key, another batch may have promoted it.
Conflict(r) ==
    /\ At(r, "reserve")
    /\ LET d == Unreserved(r) IN
       /\ d \notin DOMAIN debts \/ d \in Held(r) \/ debts[d].status # "pending"
       /\ IF d \in DOMAIN debts \ Held(r) /\ attempt[r].request.key # NoKey
          THEN attempt' = [attempt EXCEPT ![r].pc = "again", ![r].held = {}]
          ELSE Fail(r)
    /\ Unwritten

WaitsFor(r, s) == At(r, "reserve") /\ Unreserved(r) \in Held(s)

\* Batches that wait for each other in a circle: the database ends one.
Circle(S) == S # {} /\ \A s \in S : \E t \in S \ {s} : WaitsFor(s, t)
Deadlocked(r) == \E S \in SUBSET Attempts : r \in S /\ Circle(S)

BreakDeadlock(r) ==
    /\ Deadlocked(r)
    /\ Fail(r)
    /\ Unwritten

\* A debt brings its own number and amount, and is a purchase.
Hydrated(item) ==
    IF item.debt = NoDebt THEN item
    ELSE [item EXCEPT !.number = debts[item.debt].number,
                      !.total = debts[item.debt].total, !.kind = "purchase"]

\* One item of persistOutflowBatchInTransaction up to its inserts: the
\* transaction sees its own rows among the others.
PrepareItem(r) ==
    LET q == attempt[r].request
        rows == attempt[r].rows
        dto == Hydrated(q.items[Len(rows) + 1])
        row == [serial |-> Serial(invoices \o rows, dto.kind, q.day), kind |-> dto.kind,
                number |-> dto.number, dedupKey |-> DedupKey(dto.number, "active"),
                total |-> dto.total, day |-> q.day, splits |-> SplitsOf(dto),
                status |-> "active"]
    IN /\ At(r, "items")
       /\ IF /\ OpenOn(q.day)
             /\ CarriersOf(invoices \o rows, dto.number) = {}
             /\ Payable(row.splits, row.total)
          THEN attempt' = [attempt EXCEPT ![r].rows = Append(rows, row),
                  ![r].pc = IF Len(rows) + 1 = Len(q.items) THEN "commit" ELSE "items"]
          ELSE Fail(r)
       /\ Unwritten

\* Mutant of Promoted: a debt keeps the identifier of its own invoice only.
PromotedAlone(q, ids) ==
    [d \in DOMAIN debts |->
        IF d \in DebtsOf(q)
        THEN [debts[d] EXCEPT !.status = "promoted",
                 !.promotion = LET i == ids[CHOOSE n \in Naming(q) : q.items[n].debt = d]
                               IN [invoice |-> i, key |-> q.key, batch |-> <<i>>]]
        ELSE debts[d]]

\* completePurchaseDebtPromotion
Promoted(q, ids) ==
    [d \in DOMAIN debts |->
        IF d \in DebtsOf(q)
        THEN [debts[d] EXCEPT !.status = "promoted",
                 !.promotion = [invoice |-> ids[CHOOSE n \in Naming(q) : q.items[n].debt = d],
                                key |-> q.key, batch |-> ids]]
        ELSE debts[d]]

CommitBatch(r) ==
    LET q == attempt[r].request
        ids == [n \in DOMAIN attempt[r].rows |-> Len(invoices) + n]
    IN /\ At(r, "commit")
       /\ ~Collides(attempt[r].rows)
       /\ Insert(attempt[r].rows)
       /\ debts' = Promoted(q, ids)
       /\ IF q.key # NoKey /\ DebtsOf(q) = {}
          THEN attempt' = [attempt EXCEPT ![r].pc = "store", ![r].reply = ids]
          ELSE Done(r, ids)
       /\ UNCHANGED <<stored, settings>>

RefuseBatch(r) ==
    /\ At(r, "commit")
    /\ Collides(attempt[r].rows)
    /\ Fail(r)
    /\ Unwritten

StoreResult(r) ==
    /\ At(r, "store")
    /\ stored' = stored \cup {[hash |-> Hash(r), ids |-> attempt[r].reply]}
    /\ Done(r, attempt[r].reply)
    /\ UNCHANGED <<debts, invoices, ledger, settings>>

-----------------------------------------------------------------------------
(* updateInvoiceInTransaction.                                             *)

Merged(old, set, field) == IF field \in DOMAIN set THEN set[field] ELSE old[field]

\* The row as it is read first.
ReadOld(r) ==
    /\ Doing(r, "edit", "read")
    /\ LET q == attempt[r].request IN
       IF q.invoice \in DOMAIN invoices
       THEN attempt' = [attempt EXCEPT ![r].pc = "write", ![r].rows = <<invoices[q.invoice]>>]
       ELSE Fail(r)
    /\ Unwritten

\* What the update leaves in the row: the fields that came, and a key made of
\* the number and the status of the row as it was read.
Updated(old, cur, set) ==
    [cur EXCEPT !.total = Merged(cur, set, "total"), !.number = Merged(cur, set, "number"),
                !.day = Merged(cur, set, "day"), !.kind = Merged(cur, set, "kind"),
                !.status = Merged(cur, set, "status"),
                !.dedupKey = DedupKey(Merged(old, set, "number"), Merged(old, set, "status"))]

PaidAnew(set) ==
    "vault" \in DOMAIN set \/ ("splits" \in DOMAIN set /\ set["splits"] # <<>>)
KindChanged(old, set) == "kind" \in DOMAIN set /\ Merged(old, set, "kind") # old.kind

\* Mutant of Rebuilds: the kind is forgotten.
RebuildsOnTotal(old, new, set) == PaidAnew(set) \/ new.total # old.total

\* The entries are written anew: vaults came, or the row now differs in its
\* total or kind from the one that was read.
Rebuilds(old, new, set) == PaidAnew(set) \/ new.total # old.total \/ KindChanged(old, set)

\* The splits after the update: those that came, or the present ones scaled.
NewSplits(old, new, set) ==
    IF PaidAnew(set)
    THEN IF "splits" \in DOMAIN set /\ set["splits"] # <<>> THEN set["splits"]
         ELSE <<[vault |-> set["vault"], amount |-> new.total]>>
    ELSE IF Rebuilds(old, new, set) THEN Scaled(new.splits, new.total) ELSE new.splits

\* The update goes through: no other active row has the key, a new date is
\* not in a closed period, and a rebuild finds an active invoice, an open day
\* and usable vaults.
Editable(id, old, new, set) ==
    /\ new.status = "active" => CarriersOf(invoices, new.dedupKey) \subseteq {id}
    /\ "day" \in DOMAIN set =>
          \A p \in PeriodIds : Governs(p, new.day) => periods[p].status # "closed"
    /\ Rebuilds(old, new, set) => new.status = "active" /\ OpenOn(new.day)
    /\ PaidAnew(set) => Payable(NewSplits(old, new, set), new.total)

WriteEdit(r) ==
    LET q == attempt[r].request
        old == attempt[r].rows[1]
        new == Updated(old, invoices[q.invoice], q.set)
        row == [new EXCEPT !.splits = NewSplits(old, new, q.set)]
        account == IF KindChanged(old, q.set) THEN KindAccount[new.kind]
                   ELSE DebitOf(q.invoice, new.kind)
    IN /\ Doing(r, "edit", "write")
       /\ \/ /\ Editable(q.invoice, old, new, q.set)
             /\ invoices' = [invoices EXCEPT ![q.invoice] = row]
             /\ ledger' = IF Rebuilds(old, new, q.set) THEN Replaced(q.invoice, row, account)
                          ELSE IF "day" \in DOMAIN q.set THEN Redated(q.invoice, row.day)
                          ELSE ledger
             /\ Done(r, <<q.invoice>>)
          \/ /\ ~Editable(q.invoice, old, new, q.set)
             /\ Fail(r)
             /\ UNCHANGED <<invoices, ledger>>
       /\ UNCHANGED <<debts, stored, settings>>

-----------------------------------------------------------------------------
(* cancelOperation on an invoice.                                          *)

ReadActive(r) ==
    /\ Doing(r, "cancel", "read")
    /\ LET id == attempt[r].request.invoice IN
       IF id \in DOMAIN invoices /\ invoices[id].status = "active"
       THEN Goto(r, "write") ELSE Fail(r)
    /\ Unwritten

\* Mutant of Reopened: the debt stays promoted.
ReopenedNot(id) == debts

\* The debt the invoice came from is pending again.
Reopened(id) ==
    [d \in DOMAIN debts |->
        IF debts[d].status = "promoted" /\ debts[d].promotion.invoice = id
        THEN [debts[d] EXCEPT !.status = "pending", !.promotion = Unpromoted] ELSE debts[d]]

WriteCancel(r) ==
    LET id == attempt[r].request.invoice IN
    /\ Doing(r, "cancel", "write")
    /\ invoices' = [invoices EXCEPT ![id].status = "cancelled"]
    /\ debts' = Reopened(id)
    /\ CancelEntries(Ref("invoice", id))
    /\ Done(r, <<id>>)
    /\ UNCHANGED <<stored, settings>>

-----------------------------------------------------------------------------
(* purchase-debts.service.ts.                                              *)

\* create and createBatch: none of the numbers is on an active invoice, ...
CheckDebts(r) ==
    /\ Doing(r, "debts", "read")
    /\ LET items == attempt[r].request.items IN
       IF \A n \in DOMAIN items : CarriersOf(invoices, items[n].number) = {}
       THEN Goto(r, "write") ELSE Fail(r)
    /\ Unwritten

\* ... nor, by the unique index, on another debt of whatever status.
InsertDebts(r) ==
    LET items == attempt[r].request.items
        fresh == \A n, m \in DOMAIN items :
                    Debtors(items[n].number) = {} /\ (items[n].number = items[m].number => n = m)
    IN /\ Doing(r, "debts", "write")
       /\ \/ /\ fresh
             /\ debts' = debts \o [n \in DOMAIN items |-> NewDebt(items[n])]
             /\ Done(r, <<>>)
          \/ ~fresh /\ Fail(r) /\ UNCHANGED debts
       /\ UNCHANGED <<invoices, ledger, stored, settings>>

\* update: pending, and the number is not on an active invoice, ...
CheckAmend(r) ==
    /\ Doing(r, "amend", "read")
    /\ LET q == attempt[r].request IN
       IF /\ q.debt \in DOMAIN debts /\ debts[q.debt].status = "pending"
          /\ CarriersOf(invoices, q.number) = {}
       THEN Goto(r, "write") ELSE Fail(r)
    /\ Unwritten

\* Mutant of WriteAmend: the update names the row only.
WriteAmendBlindly(r) ==
    LET q == attempt[r].request IN
    /\ Doing(r, "amend", "write")
    /\ debts' = [debts EXCEPT ![q.debt].number = q.number, ![q.debt].total = q.total]
    /\ Done(r, <<>>)
    /\ UNCHANGED <<invoices, ledger, stored, settings>>

\* ... and still pending when it is written; a reserved row is waited for.
WriteAmend(r) ==
    LET q == attempt[r].request
        free == debts[q.debt].status = "pending" /\ Debtors(q.number) \subseteq {q.debt}
    IN /\ Doing(r, "amend", "write")
       /\ ~Locked(q.debt)
       /\ \/ /\ free
             /\ debts' = [debts EXCEPT ![q.debt].number = q.number, ![q.debt].total = q.total]
             /\ Done(r, <<>>)
          \/ ~free /\ Fail(r) /\ UNCHANGED debts
       /\ UNCHANGED <<invoices, ledger, stored, settings>>

\* cancel and restore: a conditional update between two statuses.
Turn(r, op, from, to) ==
    LET d == attempt[r].request.debt IN
    /\ Doing(r, op, "read")
    /\ ~Locked(d)
    /\ \/ /\ d \in DOMAIN debts /\ debts[d].status = from
          /\ debts' = [debts EXCEPT ![d].status = to]
          /\ Done(r, <<>>)
       \/ /\ d \notin DOMAIN debts \/ debts[d].status # from
          /\ Fail(r)
          /\ UNCHANGED debts
    /\ UNCHANGED <<invoices, ledger, stored, settings>>

Withdraw(r) == Turn(r, "withdraw", "pending", "cancelled")
Restore(r)  == Turn(r, "restore", "cancelled", "pending")

-----------------------------------------------------------------------------

Serve(r) ==
    \/ FindPromotion(r) \/ FindCached(r) \/ Reserve(r) \/ Conflict(r) \/ BreakDeadlock(r)
    \/ PrepareItem(r) \/ CommitBatch(r) \/ RefuseBatch(r) \/ StoreResult(r)
    \/ ReadOld(r) \/ WriteEdit(r) \/ ReadActive(r) \/ WriteCancel(r)
    \/ CheckDebts(r) \/ InsertDebts(r) \/ CheckAmend(r) \/ WriteAmend(r)
    \/ Withdraw(r) \/ Restore(r)

\* No two requests change the same invoice at a time.
EditsApart ==
    \A r, s \in Attempts :
        /\ At(r, "write") /\ At(s, "write")
        /\ attempt[r].request.op = "edit" /\ attempt[s].request.op \in {"edit", "cancel"}
        /\ attempt[r].request.invoice = attempt[s].request.invoice
        => r = s

Next ==
    /\ \E r \in Attempts : Serve(r) \/ Abort(r) \/ \E q \in Requests : Submit(r, q)
    /\ apart' = (apart /\ EditsApart')
    /\ revived' = revived \cup {id \in DOMAIN invoices :
                    invoices[id].status = "cancelled" /\ invoices'[id].status = "active"}

Spec == Init /\ [][Next]_vars

-----------------------------------------------------------------------------
(* Properties. *)

\* A promoted debt has an invoice that stands, no other debt has the same,
\* and no debt that is not promoted has one (the check constraint
\* promotion_consistent, and cancelOperation giving the debt back).
PromotedHasInvoice ==
    \A d \in DOMAIN debts :
        LET id == debts[d].promotion.invoice IN
        /\ id # 0 <=> debts[d].status = "promoted"
        /\ id # 0 => /\ invoices[id].status = "active"
                     /\ \A e \in DOMAIN debts : debts[e].promotion.invoice = id => e = d

\* A debt is given back by the cancellation of its invoice only, and while
\* it is promoted nothing of it changes (the conditional updates of
\* purchase-debts.service.ts against a promotion that commits in between).
PromotionIsFinal ==
    [][\A d \in DOMAIN debts :
          debts[d].status = "promoted" =>
             \/ debts'[d] = debts[d]
             \/ /\ debts'[d].status = "pending"
                /\ invoices'[debts[d].promotion.invoice].status = "cancelled"]_vars

\* What a batch of debts was answered is found again under its key while
\* its invoices stand, so that a retry, or the loser of a race, is given the
\* same invoices and pays no debt again (loadPurchaseDebtPromotionReplay).
\* An invoice that was cancelled and set active again has lost its debt.
PromotionFoundAgain ==
    \A r \in Attempts :
        /\ Doing(r, "batch", "done")
        /\ DebtsOf(attempt[r].request) # {} /\ attempt[r].request.key # NoKey
        /\ \A i \in ToSet(attempt[r].reply) : invoices[i].status = "active" /\ i \notin revived
        => Promotions(attempt[r].request) = {attempt[r].reply}

\* As long as the changes of an invoice do not overlap in time, the ledger
\* carries every invoice as its row says, through rebuilds, new dates and
\* cancellations, and a supplier's number is on one active invoice.  An edit
\* that sets a cancelled invoice active again posts nothing by itself
\* (updateInvoiceInTransaction): such an invoice is left out of the first part.
ApartEditsKeepBooks ==
    apart => (\A id \in DOMAIN invoices \ revived : PostedAs(id)) /\ NumbersActiveOnce

\* The lines of a batch name the debts there are in the order of a ranking.
Follows(q, rank) ==
    \A m, n \in Naming(q) :
        LET d == q.items[m].debt
            e == q.items[n].debt
        IN  m < n /\ d \in DOMAIN debts /\ e \in DOMAIN debts => rank[d] < rank[e]

\* Batches lock the debts they promote in the order of their lines, so those
\* that list common debts in a common order never end in a deadlock: however
\* debts are ranked, one batch of a circle lists them against the ranking
\* (reserveAndHydratePurchaseDebtItems awaits one update before the next).
DeadlocksNeedDisorder ==
    \A S \in SUBSET Attempts : Circle(S) =>
        \A rank \in [DOMAIN debts -> DOMAIN debts] :
            \E s \in S : ~Follows(attempt[s].request, rank)

\* A batch sent again with its key is recorded once ("the idempotency key of
\* the whole batch", financial-outflow.service.ts:116).
BatchRecordedOnce ==
    \A r, s \in Attempts :
        /\ At(r, "done") /\ At(s, "done") /\ attempt[r].request = attempt[s].request
        /\ attempt[r].request.op = "batch" /\ attempt[r].request.key # NoKey
        => attempt[r].reply = attempt[s].reply \/ DebtsOf(attempt[r].request) # {}

=============================================================================
