-------------------------------- MODULE Ledger --------------------------------
(***************************************************************************)
(* The double-entry book every financial service posts to: the table       *)
(* ledger_entries, read back by vault-balance.service.ts.  Rows are only   *)
(* ever appended or moved from "active" to "cancelled"; an entry's         *)
(* position in the sequence is its id.                                     *)
(***************************************************************************)
EXTENDS Integers, Sequences, Functions

CONSTANT Accounts     \* chart of accounts; a vault is named by its account

VARIABLE ledger

\* What an entry is about: referenceType and referenceId.
References == [type : {"transfer", "invoice", "sale", "salary", "advance",
                        "payroll_accrual", "loan_opening", "loan_payment",
                        "loan_payment_reversal"}, id : Nat]

Ref(type, id) == [type |-> type, id |-> id]

Entries == [debit : Accounts, credit : Accounts, amount : Nat, day : Nat,
            ref : References, status : {"active", "cancelled"}]

LedgerTypeOK == ledger \in Seq(Entries)

EntryOf(debit, credit, amount, day, ref) ==
    [debit |-> debit, credit |-> credit, amount |-> amount, day |-> day,
     ref |-> ref, status |-> "active"]

\* ledgerEntry.create
Post(entry) == ledger' = Append(ledger, entry)

EntriesOf(ref) == {i \in DOMAIN ledger : ledger[i].ref = ref}
ActiveEntries  == {i \in DOMAIN ledger : ledger[i].status = "active"}

\* ledgerEntry.updateMany: the active entries of one document are cancelled.
CancelEntries(ref) ==
    ledger' = [i \in DOMAIN ledger |->
                 IF ledger[i].ref = ref /\ ledger[i].status = "active"
                 THEN [ledger[i] EXCEPT !.status = "cancelled"] ELSE ledger[i]]

Amounts == [i \in DOMAIN ledger |-> ledger[i].amount]

Total(entries) == SumFunctionOnSet(Amounts, entries)

\* getVaultBalance: active debits less active credits of the vault's account.
Balance(account) ==
    Total({i \in ActiveEntries : ledger[i].debit = account})
      - Total({i \in ActiveEntries : ledger[i].credit = account})

\* Mutant of HasMovement: only entries that take money out are counted.
HasMovementOut(account) == \E i \in DOMAIN ledger : account = ledger[i].credit

\* ledgerEntry.count of vaults.service.ts: cancelled movements count too.
HasMovement(account) ==
    \E i \in DOMAIN ledger : account \in {ledger[i].debit, ledger[i].credit}

=============================================================================
