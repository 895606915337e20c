----------------------------- MODULE SalesSummary -----------------------------
(***************************************************************************)
(* Daily sales (financial-inflow.service.ts and the sales branch of        *)
(* financial-cancel.service.ts): a summary per day and shift, its sale     *)
(* invoice and its ledger entries, created alone or as a batch of shifts,  *)
(* rewritten, moved to another shift, cancelled.  The statements of a      *)
(* READ COMMITTED transaction see different committed states: the entries  *)
(* an update cancels are those its statement found, whatever is committed  *)
(* before it ends.                                                         *)
(***************************************************************************)
EXTENDS FiscalPeriods, Vaults, SequencesExt

CONSTANTS Attempts,        \* requests
          Requests,        \* the payloads the clients may send
          RetryMax,        \* RETRY_MAX
          VatRate,         \* the company's rate in percent
          RevenueAccount, VatAccount

Shifts   == {"morning", "evening", "all"}
Channels == [Vaults -> Nat]    \* the amounts taken per vault; 0: no channel

\* The two accounts are of different types (revenue, liability); day 0 stands
\* for a day the client leaves out.
ASSUME SalesConstants ==
    /\ {RevenueAccount, VatAccount} \subseteq Accounts \ Vaults
    /\ RevenueAccount # VatAccount
    /\ IsFiniteSet(Vaults) /\ 0 \notin Days
    /\ RetryMax \in Nat \ {0} /\ VatRate \in Nat
    /\ \A q \in Requests :
          \/ /\ q.op = "create" /\ q.day \in Days
             /\ q.items \in Seq([shift : Shifts, channels : Channels])
          \/ q.op = "update" /\ q.day \in Days \cup {0} /\ q.shift \in Shifts
                            /\ q.channels \in Channels
          \/ q.op = "shift" /\ q.day = 0 /\ q.shift \in Shifts
          \/ q.op = "cancel"

VARIABLES summaries,   \* daily_sales_summaries, each with its sale invoice
          attempt,     \* what each request is doing
          apart        \* history: no two requests at once touched one thing

vars == <<summaries, attempt, apart, ledger, vaultVars, periodVars>>

Statuses == {"active", "cancelled"}

Summaries ==
    [number : [day : Days, count : Nat \ {0}], day : Days, shift : Shifts,
     channels : Channels, status : Statuses,
     invoice : [status : Statuses, day : Days, total : Nat, tax : Nat]]

Unsent == [pc |-> "idle"]
Unread == [day |-> 0, shift |-> "all", numbers |-> <<>>, entries |-> {}]
Running == {"preread", "period", "find", "shift", "number", "entries", "write"}

TypeOK ==
    /\ LedgerTypeOK
    /\ summaries \in Seq(Summaries)
    /\ apart \in BOOLEAN
    /\ \A r \in Attempts :
          \/ attempt[r] = Unsent
          \/ /\ attempt[r].pc \in Running \cup {"done", "failed"}
             /\ attempt[r].request \in Requests
             /\ attempt[r].tries \in 1..RetryMax
             /\ attempt[r].seen.entries \subseteq DOMAIN ledger

-----------------------------------------------------------------------------
(* Money.                                                                  *)

Gross(channels) == MapThenSumSet(LAMBDA v : channels[v], Vaults)

\* splitTaxBalancedHalalas: the net is rounded half up to the halala, the
\* tax is what is left.
Net(gross) == (200 * gross + 100 + VatRate) \div (2 * (100 + VatRate))
Tax(gross, vat) == IF vat THEN gross - Net(gross) ELSE 0

\* Mutant of TaxOf: the tax of the total, not of each channel.
TaxOfTotal(channels, vat) == Tax(Gross(channels), vat)

TaxOf(channels, vat) == MapThenSumSet(LAMBDA v : Tax(channels[v], vat), Vaults)

\* createInflowSaleLedgerEntries: revenue and, if there is any, tax.
SaleEntries(id, channels, day, vat) ==
    LET paid == {v \in Vaults : channels[v] > 0}
        line(v, account, amount) == EntryOf(v, account, amount, day, Ref("sale", id))
    IN SetToSeq({line(v, RevenueAccount, channels[v] - Tax(channels[v], vat)) : v \in paid}
             \cup {line(v, VatAccount, Tax(channels[v], vat)) :
                     v \in {w \in paid : Tax(channels[w], vat) > 0}})

-----------------------------------------------------------------------------

At(r, pc)   == attempt[r].pc = pc
Goto(r, pc) == attempt' = [attempt EXCEPT ![r].pc = pc]
Fail(r)     == Goto(r, "failed")
Step(r, ok, pc) == Goto(r, IF ok THEN pc ELSE "failed")
Learn(r, seen, pc) == attempt' = [attempt EXCEPT ![r].pc = pc, ![r].seen = seen]

Unwritten == UNCHANGED <<summaries, ledger, vaultVars, periodVars>>

ActiveAt(day, shift) ==
    {i \in DOMAIN summaries : /\ summaries[i].status = "active"
                              /\ summaries[i].day = day
                              /\ summaries[i].shift = shift}

NumbersOf(day) == {i \in DOMAIN summaries : summaries[i].number.day = day}

\* The batch item being prepared: one number is drawn per item.
Item(r) == attempt[r].request.items[Len(attempt[r].seen.numbers) + 1]

\* assertValidInflowBatch: at most two shifts, different, none of them "all".
ValidBatch(items) ==
    /\ Len(items) \in 1..2
    /\ \A i \in DOMAIN items : Gross(items[i].channels) > 0
    /\ Len(items) = 2 => {items[1].shift, items[2].shift} = {"morning", "evening"}

FirstStep(q) ==
    CASE q.op = "create" -> IF ValidBatch(q.items) THEN "period" ELSE "failed"
      [] q.op = "update" -> IF Gross(q.channels) > 0 THEN "preread" ELSE "failed"
      [] q.op = "shift"  -> "preread"
      [] q.op = "cancel" -> "find"

Submit(r, q) ==
    /\ attempt[r] = Unsent
    /\ attempt' = [attempt EXCEPT ![r] =
          [pc |-> FirstStep(q), request |-> q, tries |-> 1, seen |-> Unread]]
    /\ Unwritten

\* updateSummary reads the row outside the transaction; a day the client
\* leaves out (0) is the one read here.  patchSummaryShift reads the day,
\* opens no transaction and asks no period.
Preread(r) ==
    /\ At(r, "preread")
    /\ LET q == attempt[r].request IN
       IF q.id \in DOMAIN summaries /\ summaries[q.id].status = "active"
       THEN Learn(r, [day |-> IF q.day = 0 THEN summaries[q.id].day ELSE q.day,
                      shift |-> q.shift, numbers |-> <<>>, entries |-> {}],
                  IF q.op = "update" THEN "period" ELSE "shift")
       ELSE Fail(r)
    /\ Unwritten

CheckPeriod(r) ==
    /\ At(r, "period")
    /\ LET q == attempt[r].request IN
       IF q.op = "create" THEN Step(r, OpenOn(q.day), "shift")
                          ELSE Step(r, OpenOn(attempt[r].seen.day), "find")
    /\ Unwritten

\* The summary is active; if it moves, its old day is open too.
Find(r) ==
    /\ At(r, "find")
    /\ LET q == attempt[r].request
           day == attempt[r].seen.day
           active == q.id \in DOMAIN summaries /\ summaries[q.id].status = "active"
       IN IF q.op = "cancel" THEN Step(r, active, "write")
          ELSE Step(r, active /\ (summaries[q.id].day # day => OpenOn(summaries[q.id].day)),
                    "shift")
    /\ Unwritten

\* Mutant of CheckShift: an update may move onto another summary's shift.
CheckShiftOfNew(r) ==
    /\ At(r, "shift")
    /\ LET q == attempt[r].request IN
       IF q.op = "create" THEN Step(r, ActiveAt(q.day, Item(r).shift) = {}, "number")
                          ELSE Goto(r, IF q.op = "update" THEN "entries" ELSE "write")
    /\ Unwritten

\* assertNoActiveSummaryForShift
CheckShift(r) ==
    /\ At(r, "shift")
    /\ LET q == attempt[r].request
           seen == attempt[r].seen
       IN IF q.op = "create" THEN Step(r, ActiveAt(q.day, Item(r).shift) = {}, "number")
          ELSE Step(r, ActiveAt(seen.day, seen.shift) \subseteq {q.id},
                    IF q.op = "update" THEN "entries" ELSE "write")
    /\ Unwritten

\* The number counts the day's numbers, its own batch included; then the
\* vaults are checked and the next item of the batch follows.
DrawNumber(r) ==
    /\ At(r, "number")
    /\ LET q == attempt[r].request
           drawn == Append(attempt[r].seen.numbers,
                      Cardinality(NumbersOf(q.day)) + Len(attempt[r].seen.numbers) + 1)
       IN IF \A v \in Vaults : Item(r).channels[v] > 0 => Usable(v)
          THEN Learn(r, [attempt[r].seen EXCEPT !.numbers = drawn],
                     IF Len(drawn) < Len(q.items) THEN "shift" ELSE "write")
          ELSE Fail(r)
    /\ Unwritten

\* Vaults checked, the statement that cancels the old entries finds them.
FindEntries(r) ==
    /\ At(r, "entries")
    /\ LET q == attempt[r].request IN
       IF \A v \in Vaults : q.channels[v] > 0 => Usable(v)
       THEN Learn(r, [attempt[r].seen EXCEPT
                        !.entries = EntriesOf(Ref("sale", q.id)) \cap ActiveEntries], "write")
       ELSE Fail(r)
    /\ Unwritten

-----------------------------------------------------------------------------
(* The commits.                                                            *)

\* Mutant of Taken: there is no unique index.
NeverTaken(r) == FALSE

\* The unique indexes on the summary number and on the invoice number.
Taken(r) ==
    LET q == attempt[r].request IN
    \E i \in NumbersOf(q.day), n \in DOMAIN attempt[r].seen.numbers :
        summaries[i].number.count = attempt[r].seen.numbers[n]

Row(day, item, count, vat) ==
    [number |-> [day |-> day, count |-> count], day |-> day, shift |-> item.shift,
     channels |-> item.channels, status |-> "active",
     invoice |-> [status |-> "active", day |-> day, total |-> Gross(item.channels),
                  tax |-> TaxOf(item.channels, vat)]]

\* The company may switch the tax on or off at any time.
CommitCreate(r, vat) ==
    LET q == attempt[r].request
        rows == [n \in DOMAIN q.items |->
                   Row(q.day, q.items[n], attempt[r].seen.numbers[n], vat)]
        entries(n) == SaleEntries(Len(summaries) + n, q.items[n].channels, q.day, vat)
    IN /\ At(r, "write") /\ q.op = "create"
       /\ ~Taken(r)
       /\ summaries' = summaries \o rows
       /\ ledger' = ledger \o FlattenSeq([n \in DOMAIN q.items |-> entries(n)])
       /\ Goto(r, "done")
       /\ UNCHANGED <<vaultVars, periodVars>>

\* P2002 is no P2034: the request fails without another run.
LoseNumber(r) ==
    /\ At(r, "write") /\ attempt[r].request.op = "create"
    /\ Taken(r)
    /\ Fail(r)
    /\ Unwritten

Cancelled(entries) ==
    [e \in DOMAIN ledger |->
        IF e \in entries THEN [ledger[e] EXCEPT !.status = "cancelled"] ELSE ledger[e]]

\* What an update writes of a summary and its invoice; the status of neither.
Revised(s, day, shift, channels, vat) ==
    [s EXCEPT !.day = day, !.shift = shift, !.channels = channels,
              !.invoice = [@ EXCEPT !.day = day, !.total = Gross(channels),
                                    !.tax = TaxOf(channels, vat)]]

\* Mutant of CommitUpdate: the old entries are cancelled after the new ones
\* were posted.
CommitUpdateSwapped(r, vat) ==
    LET q == attempt[r].request
        seen == attempt[r].seen
    IN /\ At(r, "write") /\ q.op = "update"
       /\ summaries' = [summaries EXCEPT ![q.id] =
                           Revised(@, seen.day, seen.shift, q.channels, vat)]
       /\ LET posted == ledger \o SaleEntries(q.id, q.channels, seen.day, vat) IN
          ledger' = [e \in DOMAIN posted |->
             IF posted[e].ref = Ref("sale", q.id)
             THEN [posted[e] EXCEPT !.status = "cancelled"] ELSE posted[e]]
       /\ Goto(r, "done")
       /\ UNCHANGED <<vaultVars, periodVars>>

\* The row is updated by its id, whatever its status is by now.
CommitUpdate(r, vat) ==
    LET q == attempt[r].request
        seen == attempt[r].seen
    IN /\ At(r, "write") /\ q.op = "update"
       /\ summaries' = [summaries EXCEPT ![q.id] =
                           Revised(@, seen.day, seen.shift, q.channels, vat)]
       /\ ledger' = Cancelled(seen.entries) \o SaleEntries(q.id, q.channels, seen.day, vat)
       /\ Goto(r, "done")
       /\ UNCHANGED <<vaultVars, periodVars>>

\* patchSummaryShift writes only a row that is still active.
CommitShift(r) ==
    LET q == attempt[r].request
        active == summaries[q.id].status = "active"
    IN /\ At(r, "write") /\ q.op = "shift"
       /\ summaries' = IF active THEN [summaries EXCEPT ![q.id].shift = q.shift] ELSE summaries
       /\ Step(r, active, "done")
       /\ UNCHANGED <<ledger, vaultVars, periodVars>>

\* Mutant of CommitCancel: the invoice stays active.
CommitCancelSummaryOnly(r) ==
    LET id == attempt[r].request.id IN
    /\ At(r, "write") /\ attempt[r].request.op = "cancel"
    /\ summaries' = [summaries EXCEPT ![id].status = "cancelled"]
    /\ CancelEntries(Ref("sale", id))
    /\ Goto(r, "done")
    /\ UNCHANGED <<vaultVars, periodVars>>

\* A summary cancelled with its invoice.
Struck(s) == [s EXCEPT !.status = "cancelled", !.invoice = [@ EXCEPT !.status = "cancelled"]]

\* cancelOperation takes the row of the summary before it looks for the
\* entries, and every update of the summary takes that row before it ends.
CommitCancel(r) ==
    LET id == attempt[r].request.id IN
    /\ At(r, "write") /\ attempt[r].request.op = "cancel"
    /\ summaries' = [summaries EXCEPT ![id] = Struck(@)]
    /\ CancelEntries(Ref("sale", id))
    /\ Goto(r, "done")
    /\ UNCHANGED <<vaultVars, periodVars>>

\* P2034: an update and a cancellation can deadlock and are not run again;
\* a creation is, RETRY_MAX times in all.
Conflict(r) ==
    /\ At(r, "write") /\ attempt[r].request.op # "shift"
    /\ IF attempt[r].request.op = "create" /\ attempt[r].tries < RetryMax
       THEN attempt' = [attempt EXCEPT ![r].pc = "period", ![r].tries = @ + 1,
                                       ![r].seen = Unread]
       ELSE Fail(r)
    /\ Unwritten

Serve(r) ==
    \/ Preread(r) \/ CheckPeriod(r) \/ Find(r) \/ CheckShift(r)
    \/ DrawNumber(r) \/ FindEntries(r)
    \/ \E vat \in BOOLEAN : CommitCreate(r, vat) \/ CommitUpdate(r, vat)
    \/ LoseNumber(r) \/ CommitShift(r) \/ CommitCancel(r) \/ Conflict(r)

\* Nothing was sold before; the vaults are fixed, any of them archived.
Init ==
    /\ summaries = <<>>
    /\ ledger = <<>>
    /\ attempt = [r \in Attempts |-> Unsent]
    /\ apart = TRUE
    /\ vault \in [Vaults -> [code : {1}, active : {TRUE}, archived : BOOLEAN]]
    /\ clerk = [c \in Clerks |-> NoClerk]
    /\ PeriodInit

\* What a running request depends on: the summary it changes, and the shifts
\* it was told to take, as far as it knows them.
Touches(r) ==
    LET q == attempt[r].request
        seen == attempt[r].seen
    IN IF attempt[r].pc \notin Running THEN {}
       ELSE IF q.op = "create" THEN {<<q.day, q.items[n].shift>> : n \in DOMAIN q.items}
       ELSE {<<q.id>>} \cup IF seen.day = 0 THEN {} ELSE {<<seen.day, seen.shift>>}

RequestsApart ==
    \A r, s \in Attempts : r # s => Touches(r) \cap Touches(s) = {}

Next ==
    /\ \/ \E r \in Attempts : Serve(r) \/ \E q \in Requests : Submit(r, q)
       \/ PeriodNext /\ UNCHANGED <<summaries, attempt, ledger, vaultVars>>
    /\ apart' = (apart /\ RequestsApart')

Spec == Init /\ [][Next]_vars

-----------------------------------------------------------------------------
(* Properties. *)

EntriesOfSale(i) == EntriesOf(Ref("sale", i)) \cap ActiveEntries

\* What the ledger still carries into a vault for a summary, tax included.
CarriedInto(i, v) == Total({e \in EntriesOfSale(i) : ledger[e].debit = v})

\* No sale of an active summary is missing from the ledger, whatever updates
\* and cancellations of the same summary interleave.
SalesNeverMissing ==
    \A i \in DOMAIN summaries, v \in Vaults :
        summaries[i].status = "active" => CarriedInto(i, v) >= summaries[i].channels[v]

\* A summary and its sale invoice say the same: cancelled together, the same
\* day, the same total (updateInflowSaleInvoiceWithAllocations and the sales
\* branch of cancelOperation).
InvoiceMirrorsSummary ==
    \A i \in DOMAIN summaries :
        LET s == summaries[i] IN
        /\ s.invoice.status = s.status
        /\ s.invoice.day = s.day
        /\ s.invoice.total = Gross(s.channels)

\* Two summaries never share a number, though numbers are counted and
\* summaries move to other days (buildDailySalesSummaryNumber).
NumbersDistinct ==
    \A i, j \in DOMAIN summaries : summaries[i].number = summaries[j].number => i = j

\* As long as no two requests at once touch one summary or one shift: the
\* ledger carries an active summary's sales exactly, tax apart, and nothing
\* of a cancelled one.  (Overlapping, an update that read a summary active
\* posts its entries after the summary was cancelled.)
LedgerMatchesSales ==
    apart => \A i \in DOMAIN summaries :
        LET s == summaries[i]
            stands == s.status = "active"
        IN /\ \A v \in Vaults : CarriedInto(i, v) = IF stands THEN s.channels[v] ELSE 0
           /\ Total({e \in EntriesOfSale(i) : ledger[e].credit = VatAccount})
                 = IF stands THEN s.invoice.tax ELSE 0

\* As long as no two requests at once touch one summary or one shift, a day
\* and shift has one active summary (assertNoActiveSummaryForShift): the check
\* of one is not disturbed by the other.
OneSummaryPerShift ==
    apart => \A i, j \in DOMAIN summaries :
        /\ summaries[i].status = "active" /\ summaries[j].status = "active"
        /\ summaries[i].day = summaries[j].day /\ summaries[i].shift = summaries[j].shift
        => i = j

=============================================================================
