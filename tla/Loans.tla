--------------------------------- MODULE Loans ---------------------------------
(***************************************************************************)
(* Loans (loans.service.ts): opening a loan, paying it, reversing a        *)
(* payment, and turning old expense invoices into payments.  A loan row    *)
(* carries its outstanding amount; the ledger carries the same debt on the *)
(* liability account.  Every request is one READ COMMITTED transaction:    *)
(* its reads are steps of their own, its writes are one step at the        *)
(* commit, where the row conditions and unique indexes are decided.        *)
(***************************************************************************)
EXTENDS FiscalPeriods, Vaults

CONSTANTS Attempts,        \* HTTP requests being served, retries included
          Requests,        \* the payloads the clients may send
          LegacyInvoices,  \* active expense invoices posted before: a sequence
          Cancellable,     \* those of them a user may cancel meanwhile
          LoanAccount, OpeningAccount, ExpenseAccount

Legacy == DOMAIN LegacyInvoices

ASSUME LoanConstants ==
    /\ LegacyInvoices \in Seq([vault : Vaults, amount : Nat \ {0}, day : Days])
    /\ Cancellable \subseteq Legacy
    /\ {LoanAccount, OpeningAccount, ExpenseAccount} \subseteq Accounts \ Vaults
    /\ LoanAccount \notin {OpeningAccount, ExpenseAccount}

ASSUME RequestsAssumption == \A q \in Requests :
    /\ q.op \in {"loan", "pay", "reverse", "migrate", "convert"}
    /\ q.op # "loan" => q.loan \in Nat \ {0}
    /\ q.op \in {"loan", "pay"} => q.amount \in Nat \ {0}
    /\ q.op \in {"loan", "pay", "reverse"} => q.key \in STRING /\ q.day \in Days
    /\ q.op = "pay" => q.vault \in Vaults
    /\ q.op = "reverse" => q.payment \in Nat

VARIABLES loans,     \* the table loans; a position is an id
          payments,  \* the table loan_payments; a position is an id
          invoice,   \* the legacy invoices: status, loan linked to, converted
          attempt    \* what each request is doing

loanVars == <<loans, payments, invoice>>
vars == <<loanVars, attempt, ledger, vaultVars, periodVars>>

Unsent == [pc |-> "idle"]
Running == {"key", "period", "vault", "original", "loan", "rows", "opening", "write",
            "collided"}
NothingSeen == [opening |-> 0, entry |-> 0, rows |-> {}]

\* The rows of a conversion carry no client's key.
LegacyKey == "legacy"

LoanRows ==
    [request : Requests, opening : Nat \ {0}, outstanding : Nat, entry : Nat]
PaymentRows ==
    [key : STRING \cup {LegacyKey}, request : Requests, loan : Nat \ {0}, vault : Vaults,
     amount : Nat \ {0}, day : Days, status : {"posted", "reversed"},
     of : Nat, source : Nat, entry : Nat]

TypeOK ==
    /\ LedgerTypeOK
    /\ loans \in Seq(LoanRows)
    /\ payments \in Seq(PaymentRows)
    /\ invoice \in [Legacy -> [status : {"active", "cancelled"}, loan : Nat,
                               converted : BOOLEAN]]
    /\ attempt \in [Attempts -> {Unsent} \cup
          [pc : Running \cup {"done", "failed"}, request : Requests, reply : Nat,
           seen : [opening : Nat, entry : Nat, rows : SUBSET Legacy]]]

-----------------------------------------------------------------------------

\* Mutant of PaymentsWithKey: neither looked up nor unique.
PaymentsWithKeyNone(k) == {}

LoansWithKey(k)    == {i \in DOMAIN loans : loans[i].request.key = k}
PaymentsWithKey(k) == {i \in DOMAIN payments : payments[i].key = k}

ReversedBy(i)    == {j \in DOMAIN payments : payments[j].of = i}
ConvertedFrom(e) == {j \in DOMAIN payments : payments[j].source = e}

\* The row an idempotency key already names, as a loan or as a payment.
Holders(q) == IF q.op = "loan" THEN LoansWithKey(q.key) ELSE PaymentsWithKey(q.key)
RequestOf(q, i) == IF q.op = "loan" THEN loans[i].request ELSE payments[i].request

At(r, pc)   == attempt[r].pc = pc
Goto(r, pc) == attempt' = [attempt EXCEPT ![r].pc = pc]
Fail(r)     == Goto(r, "failed")
Done(r, i)  == attempt' = [attempt EXCEPT ![r].pc = "done", ![r].reply = i]

\* ensureMatchingReplay
Replay(r, i) ==
    IF RequestOf(attempt[r].request, i) = attempt[r].request THEN Done(r, i) ELSE Fail(r)

Unwritten == UNCHANGED <<loanVars, ledger, vaultVars, periodVars>>

-----------------------------------------------------------------------------

\* The row a request opens, and its opening entry.
LoanRow(q, entry) ==
    [request |-> q, opening |-> q.amount, outstanding |-> q.amount, entry |-> entry]
OpeningOf(q, id) ==
    EntryOf(OpeningAccount, LoanAccount, q.amount, q.day, Ref("loan_opening", id))

\* The invoices have been posted; one loan may have been opened before.
LoansInit ==
    LET posted == [i \in Legacy |->
          EntryOf(ExpenseAccount, LegacyInvoices[i].vault, LegacyInvoices[i].amount,
                  LegacyInvoices[i].day, Ref("invoice", i))]
    IN /\ \/ loans = <<>> /\ ledger = posted
          \/ \E q \in Requests :
                /\ q.op = "loan"
                /\ loans = <<LoanRow(q, Len(posted) + 1)>>
                /\ ledger = Append(posted, OpeningOf(q, 1))
       /\ payments = <<>>
       /\ invoice = [i \in Legacy |-> [status |-> "active", loan |-> 0, converted |-> FALSE]]
       /\ attempt = [r \in Attempts |-> Unsent]

FirstStep(op) ==
    CASE op \in {"loan", "pay", "reverse"} -> "key"
      [] op = "migrate" -> "rows"
      [] op = "convert" -> "loan"

Submit(r, q) ==
    /\ attempt[r] = Unsent
    /\ attempt' = [attempt EXCEPT ![r] =
          [pc |-> FirstStep(q.op), request |-> q, reply |-> 0, seen |-> NothingSeen]]
    /\ Unwritten

-----------------------------------------------------------------------------
(* The reads of create, pay and reversePayment.                            *)

FindByKey(r) ==
    /\ At(r, "key")
    /\ LET q == attempt[r].request IN
       \/ \E i \in Holders(q) : Replay(r, i)
       \/ /\ Holders(q) = {}
          /\ Goto(r, IF q.op = "reverse" THEN "original" ELSE "period")
    /\ Unwritten

\* The payment of this loan exists, is no reversal, is posted, has no
\* reversal and is not dated after it.
Reversible(q) ==
    /\ q.payment \in DOMAIN payments
    /\ LET p == payments[q.payment] IN
       p.loan = q.loan /\ p.status = "posted" /\ p.of = 0 /\ p.day <= q.day
    /\ ReversedBy(q.payment) = {}

ReadOriginal(r) ==
    /\ At(r, "original")
    /\ Goto(r, IF Reversible(attempt[r].request) THEN "period" ELSE "failed")
    /\ Unwritten

CheckPeriod(r) ==
    /\ At(r, "period")
    /\ LET q == attempt[r].request IN
       Goto(r, IF ~OpenOn(q.day) THEN "failed"
               ELSE IF q.op = "pay" THEN "vault" ELSE "write")
    /\ Unwritten

CheckVault(r) ==
    /\ At(r, "vault")
    /\ LET q == attempt[r].request IN
       Goto(r, IF q.loan \in DOMAIN loans /\ Usable(q.vault) THEN "write" ELSE "failed")
    /\ Unwritten

-----------------------------------------------------------------------------
(* The writes and the commit.                                              *)

CommitLoan(r) ==
    LET q == attempt[r].request
        id == Len(loans) + 1
    IN /\ At(r, "write") /\ q.op = "loan"
       /\ LoansWithKey(q.key) = {}
       /\ loans' = Append(loans, LoanRow(q, Len(ledger) + 1))
       /\ Post(OpeningOf(q, id))
       /\ Done(r, id)
       /\ UNCHANGED <<payments, invoice, vaultVars, periodVars>>

\* Mutant of Covers: the balance is not part of the update's condition.
CoversOnce(loan, amount) == loans[loan].opening >= amount

\* updateMany ... where outstandingAmount >= amount: the row is changed and
\* tested in one statement.
Covers(loan, amount) == loans[loan].outstanding >= amount

\* The row a payment adds.
PaymentOf(q, entry) ==
    [key |-> q.key, request |-> q, loan |-> q.loan, vault |-> q.vault,
     amount |-> q.amount, day |-> q.day, status |-> "posted",
     of |-> 0, source |-> 0, entry |-> entry]

CommitPayment(r) ==
    LET q == attempt[r].request
        id == Len(payments) + 1
    IN /\ At(r, "write") /\ q.op = "pay"
       /\ Covers(q.loan, q.amount)
       /\ PaymentsWithKey(q.key) = {}
       /\ loans' = [loans EXCEPT ![q.loan].outstanding = @ - q.amount]
       /\ payments' = Append(payments, PaymentOf(q, Len(ledger) + 1))
       /\ Post(EntryOf(LoanAccount, q.vault, q.amount, q.day, Ref("loan_payment", id)))
       /\ Done(r, id)
       /\ UNCHANGED <<invoice, vaultVars, periodVars>>

\* The row a reversal adds; it repeats vault and amount of its original.
ReversalOf(q, entry) ==
    LET p == payments[q.payment] IN
    [key |-> q.key, request |-> q, loan |-> q.loan, vault |-> p.vault,
     amount |-> p.amount, day |-> q.day, status |-> "posted",
     of |-> q.payment, source |-> 0, entry |-> entry]

\* Mutant of CommitReversal: the outstanding amount is not put back.
CommitReversalForgetting(r) ==
    LET q == attempt[r].request
        p == payments[q.payment]
        id == Len(payments) + 1
    IN /\ At(r, "write") /\ q.op = "reverse"
       /\ PaymentsWithKey(q.key) = {} /\ ReversedBy(q.payment) = {}
       /\ payments' = Append([payments EXCEPT ![q.payment].status = "reversed"],
             ReversalOf(q, Len(ledger) + 1))
       /\ Post(EntryOf(p.vault, LoanAccount, p.amount, q.day,
                       Ref("loan_payment_reversal", id)))
       /\ Done(r, id)
       /\ UNCHANGED <<loans, invoice, vaultVars, periodVars>>

CommitReversal(r) ==
    LET q == attempt[r].request
        p == payments[q.payment]
        id == Len(payments) + 1
    IN /\ At(r, "write") /\ q.op = "reverse"
       /\ PaymentsWithKey(q.key) = {} /\ ReversedBy(q.payment) = {}
       /\ loans' = [loans EXCEPT ![q.loan].outstanding = @ + p.amount]
       /\ payments' = Append([payments EXCEPT ![q.payment].status = "reversed"],
             ReversalOf(q, Len(ledger) + 1))
       /\ Post(EntryOf(p.vault, LoanAccount, p.amount, q.day,
                       Ref("loan_payment_reversal", id)))
       /\ Done(r, id)
       /\ UNCHANGED <<invoice, vaultVars, periodVars>>

\* A unique index refuses the insert (P2002) ...
Collide(r) ==
    /\ At(r, "write")
    /\ LET q == attempt[r].request IN
       /\ q.op \in {"loan", "pay", "reverse"}
       /\ q.op = "pay" => Covers(q.loan, q.amount)
       /\ \/ Holders(q) # {}
          \/ q.op = "reverse" /\ ReversedBy(q.payment) # {}
    /\ Goto(r, "collided")
    /\ Unwritten

\* ... and the winner is looked up in a transaction of its own.
Resolve(r) ==
    /\ At(r, "collided")
    /\ LET winners == Holders(attempt[r].request) IN
       \/ \E i \in winners : Replay(r, i)
       \/ winners = {} /\ Fail(r)
    /\ Unwritten

\* The payment exceeds what is left of the loan.
Exceed(r) ==
    /\ At(r, "write")
    /\ LET q == attempt[r].request IN q.op = "pay" /\ ~Covers(q.loan, q.amount)
    /\ Fail(r)
    /\ Unwritten

-----------------------------------------------------------------------------
(* migrateLegacyInvoices: link the active invoices of an expense line.     *)

Unlinked == {i \in Legacy : invoice[i].status = "active" /\ invoice[i].loan = 0}

ReadInvoices(r) ==
    /\ At(r, "rows") /\ attempt[r].request.op = "migrate"
    /\ LET q == attempt[r].request
           active == {i \in Legacy : invoice[i].status = "active"}
       IN attempt' = [attempt EXCEPT
             ![r].seen.rows = Unlinked,
             ![r].pc = IF /\ q.loan \in DOMAIN loans
                          /\ active # {}
                          /\ \A i \in active : invoice[i].loan \in {0, q.loan}
                       THEN "write" ELSE "failed"]
    /\ Unwritten

CommitLinks(r) ==
    LET q == attempt[r].request
        rows == attempt[r].seen.rows
    IN /\ At(r, "write") /\ q.op = "migrate"
       /\ \/ /\ \A i \in rows : invoice[i].loan = 0
             /\ invoice' = [i \in Legacy |->
                   IF i \in rows THEN [invoice[i] EXCEPT !.loan = q.loan] ELSE invoice[i]]
             /\ Done(r, q.loan)
          \/ /\ \E i \in rows : invoice[i].loan # 0    \* unique invoiceId
             /\ Fail(r)
             /\ UNCHANGED invoice
       /\ UNCHANGED <<loans, payments, ledger, vaultVars, periodVars>>

-----------------------------------------------------------------------------
(* convertLegacyInvoicesToPayments.                                        *)

ReadLoan(r) ==
    /\ At(r, "loan")
    /\ LET l == attempt[r].request.loan IN
       IF l \in DOMAIN loans
       THEN attempt' = [attempt EXCEPT ![r].pc = "rows",
                            ![r].seen.opening = loans[l].opening,
                            ![r].seen.entry = loans[l].entry]
       ELSE Fail(r)
    /\ Unwritten

\* The rows not yet converted; their invoices are active and the active
\* entries behind them add up to them.
ReadRows(r) ==
    /\ At(r, "rows") /\ attempt[r].request.op = "convert"
    /\ LET l == attempt[r].request.loan
           rows == {i \in Legacy : invoice[i].loan = l /\ ~invoice[i].converted}
           whole(i) == Total(EntriesOf(Ref("invoice", i)) \cap ActiveEntries)
                         = LegacyInvoices[i].amount
       IN attempt' = [attempt EXCEPT
             ![r].seen.rows = rows,
             ![r].pc = IF rows = {} THEN "done"
                       ELSE IF \A i \in rows : invoice[i].status = "active" /\ whole(i)
                       THEN "opening" ELSE "failed"]
    /\ Unwritten

\* The opening entry read with the loan is still the active one.
ReadOpening(r) ==
    /\ At(r, "opening")
    /\ LET seen == attempt[r].seen IN
       Goto(r, IF /\ ledger[seen.entry].status = "active"
                  /\ ledger[seen.entry].amount = seen.opening
               THEN "write" ELSE "failed")
    /\ Unwritten

Sources(rows) == {e \in DOMAIN ledger : \E i \in rows : ledger[e].ref = Ref("invoice", i)}

\* Mutants of Cancelled: the opening entry, or the invoices' entries, are
\* left active.
CancelledInvoicesOnly(entries) ==
    [e \in DOMAIN ledger |->
        IF e \in entries /\ ledger[e].ref.type = "invoice"
        THEN [ledger[e] EXCEPT !.status = "cancelled"] ELSE ledger[e]]

CancelledOpeningOnly(entries) ==
    [e \in DOMAIN ledger |->
        IF e \in entries /\ ledger[e].ref.type # "invoice"
        THEN [ledger[e] EXCEPT !.status = "cancelled"] ELSE ledger[e]]

Cancelled(entries) ==
    [e \in DOMAIN ledger |->
        IF e \in entries THEN [ledger[e] EXCEPT !.status = "cancelled"] ELSE ledger[e]]

\* The row and the entry that take the place of a ledger entry.
ConversionOf(q, source, entry) ==
    LET e == ledger[source] IN
    [key |-> LegacyKey, request |-> q, loan |-> q.loan, vault |-> e.credit,
     amount |-> e.amount, day |-> e.day, status |-> "posted", of |-> 0,
     source |-> source, entry |-> entry]
PaymentEntryOf(source, id) ==
    LET e == ledger[source] IN
    EntryOf(LoanAccount, e.credit, e.amount, e.day, Ref("loan_payment", id))

\* The entries of the invoices, one after another; in which order does not
\* matter.
InOrder(entries) == CHOOSE s \in Bijection(1..Cardinality(entries), entries) : TRUE

\* The opening entry is replaced by one raised by the total, the invoices
\* and their entries are cancelled and a payment takes each entry's place;
\* the outstanding amount stays.
CommitConversion(r) ==
    LET q == attempt[r].request
        seen == attempt[r].seen
        sources == InOrder(Sources(seen.rows))
        opening == seen.opening + Total(Sources(seen.rows))
    IN /\ At(r, "write") /\ q.op = "convert"
       /\ \A e \in Sources(seen.rows) : ConvertedFrom(e) = {}
       /\ ledger' = Append(Cancelled({seen.entry} \cup Sources(seen.rows)),
                           EntryOf(OpeningAccount, LoanAccount, opening,
                                   ledger[seen.entry].day, Ref("loan_opening", q.loan)))
                      \o [n \in DOMAIN sources |->
                            PaymentEntryOf(sources[n], Len(payments) + n)]
       /\ payments' = payments \o [n \in DOMAIN sources |->
                            ConversionOf(q, sources[n], Len(ledger) + 1 + n)]
       /\ loans' = [loans EXCEPT ![q.loan].opening = opening,
                                 ![q.loan].entry = Len(ledger) + 1]
       /\ invoice' = [i \in Legacy |->
             IF i \in seen.rows
             THEN [invoice[i] EXCEPT !.status = "cancelled", !.converted = TRUE]
             ELSE invoice[i]]
       /\ Done(r, q.loan)
       /\ UNCHANGED <<vaultVars, periodVars>>

\* Another conversion took one of the entries first: the transaction fails.
LoseConversion(r) ==
    /\ At(r, "write") /\ attempt[r].request.op = "convert"
    /\ \E e \in Sources(attempt[r].seen.rows) : ConvertedFrom(e) # {}
    /\ Fail(r)
    /\ Unwritten

-----------------------------------------------------------------------------

\* A legacy invoice is cancelled by its user (financial-cancel.service.ts).
CancelInvoice(i) ==
    /\ i \in Cancellable
    /\ invoice[i].status = "active"
    /\ invoice' = [invoice EXCEPT ![i].status = "cancelled"]
    /\ CancelEntries(Ref("invoice", i))
    /\ UNCHANGED <<loans, payments, attempt, vaultVars, periodVars>>

Serve(r) ==
    \/ FindByKey(r) \/ ReadOriginal(r) \/ CheckPeriod(r) \/ CheckVault(r)
    \/ CommitLoan(r) \/ CommitPayment(r) \/ CommitReversal(r)
    \/ Collide(r) \/ Resolve(r) \/ Exceed(r)
    \/ ReadInvoices(r) \/ CommitLinks(r)
    \/ ReadLoan(r) \/ ReadRows(r) \/ ReadOpening(r)
    \/ CommitConversion(r) \/ LoseConversion(r)

Init == LoansInit /\ VaultInit /\ PeriodInit

Next ==
    \/ \E r \in Attempts : Serve(r) \/ \E q \in Requests : Submit(r, q)
    \/ \E i \in Legacy : CancelInvoice(i)
    \/ VaultNext /\ UNCHANGED <<loanVars, attempt, ledger, periodVars>>
    \/ PeriodNext /\ UNCHANGED <<loanVars, attempt, ledger, vaultVars>>

Spec == Init /\ [][Next]_vars

-----------------------------------------------------------------------------
(* Properties. *)

\* The payments of a loan that stand.
PaidWith(l) ==
    {i \in DOMAIN payments : payments[i].loan = l /\ payments[i].of = 0
                               /\ payments[i].status = "posted"}
PaidOff(l) ==
    SumFunctionOnSet([i \in DOMAIN payments |-> payments[i].amount], PaidWith(l))

\* What is left of a loan is its opening amount less the payments that
\* stand, and never negative, through payments racing each other, replays,
\* reversals and conversions (the decrement, increment and absolute update
\* of three handlers).
OutstandingIsOpeningLessPaid ==
    \A l \in DOMAIN loans :
        /\ loans[l].outstanding = loans[l].opening - PaidOff(l)
        /\ loans[l].outstanding >= 0

\* The ledger carries the same debt: the credit balance of the liability
\* account is the outstanding amounts together.
LedgerCarriesDebt ==
    Balance(LoanAccount) =
        -SumFunctionOnSet([l \in DOMAIN loans |-> loans[l].outstanding], DOMAIN loans)

\* Each loan has one active opening entry, the one its row names, for the
\* opening amount of the row (replaceLoanOpeningLedger).
OneOpeningEntry ==
    \A l \in DOMAIN loans :
        /\ EntriesOf(Ref("loan_opening", l)) \cap ActiveEntries = {loans[l].entry}
        /\ ledger[loans[l].entry].amount = loans[l].opening

\* No payment is recorded twice: under its key, as the reversal of another,
\* or in place of a legacy entry.
PaymentsRecordedOnce ==
    \A i, j \in DOMAIN payments :
        \/ i = j
        \/ /\ payments[i].key = payments[j].key => payments[i].key = LegacyKey
           /\ payments[i].of = payments[j].of => payments[i].of = 0
           /\ payments[i].source = payments[j].source => payments[i].source = 0

\* Turning invoices into payments moves no money: every vault's balance and
\* every outstanding amount stay ("no additional vault movement",
\* loans.service.ts:148), unless an invoice was cancelled by its user after
\* the conversion had read it.
ConversionMovesNoMoney ==
    [][\A r \in Attempts :
          /\ CommitConversion(r)
          /\ \A i \in attempt[r].seen.rows : invoice[i].status = "active"
          => /\ \A v \in Vaults : Balance(v)' = Balance(v)
             /\ \A l \in DOMAIN loans : loans'[l].outstanding = loans[l].outstanding]_vars

=============================================================================
