--------------------------- MODULE OutflowInvoices ---------------------------
(***************************************************************************)
(* The table invoices and what the financial core does to it and to the    *)
(* ledger: numbering, inserting, rebuilding the entries of a changed       *)
(* invoice (financial-outflow.service.ts and its helpers).  The requests   *)
(* that call these operations are in PurchaseDebts.                        *)
(***************************************************************************)
EXTENDS FiscalPeriods, Vaults, SequencesExt

CONSTANTS Kinds,        \* kinds of invoice that carry a supplier's number
          KindAccount   \* Kinds -> the expense account the kind is posted to

ASSUME OutflowConstants == KindAccount \in [Kinds -> Accounts \ Vaults]

VARIABLE invoices       \* the table; a position is an id

NoNumber        == ""   \* no supplier number on the document
SupplierNumbers == STRING \cup {NoNumber}

\* The prefix of a kind's invoice numbers; two kinds may share one.
PREFIX_BY_KIND ==
    [purchase |-> "PUR", expense |-> "EXP", fixed_expense |-> "EXP", hr_expense |-> "HR",
     salary |-> "SAL", advance |-> "ADV", sale |-> "SAL"]

PrefixOf(kind) == IF kind \in DOMAIN PREFIX_BY_KIND THEN PREFIX_BY_KIND[kind] ELSE "INV"

SerialPrefixes == {PrefixOf(kind) : kind \in Kinds}
Serials  == [prefix : SerialPrefixes, day : Days, seq : Nat \ {0}]

\* Scaling rounds every split but the last, which may be left below zero.
Splits == Seq([vault : Vaults, amount : Int])

InvoiceRows ==
    [serial : Serials, kind : Kinds, number : SupplierNumbers, dedupKey : SupplierNumbers,
     total : Nat \ {0}, day : Days, splits : Splits, status : {"active", "cancelled"}]

\* The entries of this table are deleted too: a deleted one keeps its
\* position, which is the id of the others, and is never read again.
Postings ==
    [debit : Accounts, credit : Accounts, amount : Int, day : Nat,
     ref : References, status : {"active", "cancelled", "deleted"}]

OutflowTypeOK == ledger \in Seq(Postings) /\ invoices \in Seq(InvoiceRows)

-----------------------------------------------------------------------------

\* The rows whose number starts with a prefix and a day, of whatever kind.
InSeries(rows, prefix, day) ==
    {i \in DOMAIN rows : rows[i].serial.prefix = prefix /\ rows[i].serial.day = day}

\* generateInvoiceSerial: the numbers of that prefix and day, counted, plus one.
Serial(rows, kind, day) ==
    [prefix |-> PrefixOf(kind), day |-> day,
     seq |-> Cardinality(InSeries(rows, PrefixOf(kind), day)) + 1]

\* Only an active row has a deduplication key (computeSupplierInvoiceDedupKey...).
DedupKey(number, status) == IF status = "active" THEN number ELSE NoNumber

\* The active rows that carry a key.
CarriersOf(rows, key) ==
    {i \in DOMAIN rows : rows[i].status = "active" /\ rows[i].dedupKey = key /\ key # NoNumber}

SumOf(splits) == SumFunction([n \in DOMAIN splits |-> splits[n].amount])

\* resolveOutflowVaultSplits: the split given, or the whole to one vault.
SplitsOf(dto) ==
    IF dto.splits # <<>> THEN dto.splits ELSE <<[vault |-> dto.vault, amount |-> dto.total]>>

Payable(splits, total) ==
    /\ SumOf(splits) = total
    /\ \A n \in DOMAIN splits : splits[n].amount > 0 /\ Usable(splits[n].vault)

\* scaleVaultAllocationsToTotal: in proportion, rounded half up; the last
\* split takes what is left.
Scaled(splits, total) ==
    LET share(n) == (2 * splits[n].amount * total + SumOf(splits)) \div (2 * SumOf(splits))
        others == SumFunction([n \in 1..(Len(splits) - 1) |-> share(n)])
    IN [n \in DOMAIN splits |->
          [vault |-> splits[n].vault,
           amount |-> IF n = Len(splits) THEN total - others ELSE share(n)]]

\* The ledger entries of an invoice, one for each split.
EntriesFor(id, row, account) ==
    [n \in DOMAIN row.splits |->
        EntryOf(account, row.splits[n].vault, row.splits[n].amount, row.day, Ref("invoice", id))]

-----------------------------------------------------------------------------
(* The writes.                                                             *)

\* Mutant of Collides: no unique index on the invoice number.
CollidesByKey(rows) ==
    \E n \in DOMAIN rows : CarriersOf(invoices, rows[n].dedupKey) # {}

\* A unique index refuses one of the rows: the number, or the partial index
\* on the key of active rows.
Collides(rows) ==
    \E n \in DOMAIN rows :
        \/ \E i \in DOMAIN invoices : invoices[i].serial = rows[n].serial
        \/ CarriersOf(invoices, rows[n].dedupKey) # {}

\* persistOutflowInvoiceWithLedger, for all the rows of a transaction.
Insert(rows) ==
    /\ invoices' = invoices \o rows
    /\ ledger' = ledger \o FlattenSeq([n \in DOMAIN rows |->
          EntriesFor(Len(invoices) + n, rows[n], KindAccount[rows[n].kind])])

\* replaceOutflowInvoiceLedgerAndAllocations: the active entries are deleted
\* and new ones appended.
Replaced(id, row, account) ==
    [e \in DOMAIN ledger |->
        IF ledger[e].ref = Ref("invoice", id) /\ ledger[e].status = "active"
        THEN [ledger[e] EXCEPT !.status = "deleted"] ELSE ledger[e]]
      \o EntriesFor(id, row, account)

\* syncActiveLedgerTransactionDateForOutflowInvoice
Redated(id, day) ==
    [e \in DOMAIN ledger |->
        IF ledger[e].ref = Ref("invoice", id) /\ ledger[e].status = "active"
        THEN [ledger[e] EXCEPT !.day = day] ELSE ledger[e]]

\* The account the active entries of an invoice debit, or the kind's.
DebitOf(id, kind) ==
    LET active == EntriesOf(Ref("invoice", id)) \cap ActiveEntries
    IN IF active = {} THEN KindAccount[kind] ELSE ledger[Min(active)].debit

-----------------------------------------------------------------------------
(* What the table and the ledger say of each other.                        *)

\* The numbers of a prefix and a day are 1, 2, ... without a gap or a
\* repetition, whichever of the kinds that share the prefix they were drawn
\* for and however many transactions counted at once (generateInvoiceSerial
\* against the unique index on the number).
Gapless(rows) ==
    \A prefix \in SerialPrefixes, day \in Days :
        LET series == InSeries(rows, prefix, day)
        IN {rows[i].serial.seq : i \in series} = 1..Cardinality(series)

SerialsGapless == Gapless(invoices)

\* An active invoice has the entries of its splits, for its total, on its
\* day and its kind's account; a cancelled one has none.
PostedAs(id) ==
    LET active == EntriesOf(Ref("invoice", id)) \cap ActiveEntries
        row == invoices[id]
    IN IF row.status = "active"
       THEN /\ Total(active) = row.total
            /\ SumOf(row.splits) = row.total
            /\ \A n \in DOMAIN row.splits : \E e \in active :
                   /\ ledger[e].credit = row.splits[n].vault
                   /\ ledger[e].amount = row.splits[n].amount
            /\ \A e \in active : ledger[e].day = row.day
                                   /\ ledger[e].debit = KindAccount[row.kind]
       ELSE active = {}

\* A supplier's number is on one active invoice only, by the number itself
\* and not by the key kept beside it.
NumberedOnce(rows) ==
    \A i, j \in DOMAIN rows :
        /\ rows[i].status = "active" /\ rows[j].status = "active"
        /\ rows[i].number = rows[j].number /\ rows[i].number # NoNumber
        => i = j

NumbersActiveOnce == NumberedOnce(invoices)

=============================================================================
