---------------------------- MODULE VaultTransfer ----------------------------
(***************************************************************************)
(* Internal transfers between vaults (financial-transfer.service.ts): a    *)
(* request either posts one voucher with one ledger entry, or reverses an  *)
(* earlier voucher with an opposite voucher and entry.  Each request runs  *)
(* in one READ COMMITTED transaction: its reads see whatever has been      *)
(* committed when they execute, and its writes become visible together at  *)
(* the commit, where the unique indexes on (companyId, idempotencyKey) and *)
(* reversalOfId decide between concurrent requests.  The fiscal calendar   *)
(* and the vault settings change at any moment in between.                 *)
(***************************************************************************)
EXTENDS FiscalPeriods, Vaults

CONSTANTS Attempts,   \* HTTP requests being served, a client's retries included
          Requests,   \* the payloads the clients may send
          RetryMax    \* RETRY_MAX: runs of one transaction under withRetry

Keys == {q.key : q \in Requests}

Transfers == {q \in Requests : q.op = "transfer"}
Reversals == {q \in Requests : q.op = "reversal"}

ASSUME RequestsAssumption ==
    /\ \A q \in Requests : q.op \in {"transfer", "reversal"} /\ q.day \in Days
    /\ \A q \in Transfers : q.from \in Vaults /\ q.to \in Vaults /\ q.amount \in Nat
    /\ \A q \in Reversals : q.of \in Nat \ {0}

ASSUME RetryMaxAssumption == RetryMax \in Nat \ {0}

VARIABLES vouchers,   \* the table vault_transfers; a position is an id
          attempt     \* what each request is doing

vars == <<vouchers, attempt, ledger, vault, clerk, periods, admin>>

\* "request" stands for the idempotency key and the request hash together.
Vouchers ==
    [request : Requests, from : Vaults, to : Vaults, amount : Nat, day : Days,
     status : {"posted", "reversed"}, of : Nat, entry : Nat]

Unsent == [pc |-> "idle"]
InTransaction == {"key", "original", "period", "endpoints", "write"}
Running == InTransaction \cup {"collided"}

TransferTypeOK ==
    /\ LedgerTypeOK
    /\ vouchers \in Seq(Vouchers)
    /\ attempt \in [Attempts ->
         {Unsent} \cup [pc : Running \cup {"done", "failed"}, request : Requests,
                        tries : 1..RetryMax, reply : Nat]]

-----------------------------------------------------------------------------

\* prepareTransfer and prepareReversal; the key is never empty here.
WellFormed(q) == q.op = "transfer" => q.from # q.to /\ q.amount > 0

WithKey(k)    == {i \in DOMAIN vouchers : vouchers[i].request.key = k}
ReversedBy(i) == {j \in DOMAIN vouchers : vouchers[j].of = i}

At(r, pc)   == attempt[r].pc = pc
Goto(r, pc) == attempt' = [attempt EXCEPT ![r].pc = pc]
Fail(r)     == Goto(r, "failed")

\* Mutant of Replay: the request hash is not compared.
ReplayAny(r, i) ==
    /\ i \in DOMAIN vouchers
    /\ attempt' = [attempt EXCEPT ![r].pc = "done", ![r].reply = i]

\* assertSameRequest: the stored voucher answers the same request only.
Replay(r, i) ==
    \/ /\ vouchers[i].request = attempt[r].request
       /\ attempt' = [attempt EXCEPT ![r].pc = "done", ![r].reply = i]
    \/ /\ vouchers[i].request # attempt[r].request
       /\ Fail(r)

-----------------------------------------------------------------------------
(* One request.                                                            *)

TransferInit ==
    /\ ledger = <<>>
    /\ vouchers = <<>>
    /\ attempt = [r \in Attempts |-> Unsent]

Submit(r, q) ==
    /\ attempt[r] = Unsent
    /\ attempt' = [attempt EXCEPT ![r] =
          [pc |-> IF WellFormed(q) THEN "key" ELSE "failed",
           request |-> q, tries |-> 1, reply |-> 0]]

\* The voucher already posted under this key answers the request.
FindByKey(r) ==
    /\ At(r, "key")
    /\ LET q == attempt[r].request IN
       \/ \E i \in WithKey(q.key) : Replay(r, i)
       \/ /\ WithKey(q.key) = {}
          /\ Goto(r, IF q.op = "transfer" THEN "period" ELSE "original")

\* The voucher to reverse exists, is no reversal, is not reversed yet and
\* is not dated after the reversal.
Reversible(i, day) ==
    /\ i \in DOMAIN vouchers
    /\ vouchers[i].of = 0
    /\ vouchers[i].status = "posted"
    /\ ReversedBy(i) = {}
    /\ vouchers[i].day <= day

ReadOriginal(r) ==
    /\ At(r, "original")
    /\ LET q == attempt[r].request IN
       Goto(r, IF Reversible(q.of, q.day) THEN "period" ELSE "failed")

CheckPeriod(r) ==
    /\ At(r, "period")
    /\ Goto(r, IF OpenOn(attempt[r].request.day) THEN "endpoints" ELSE "failed")

\* A reversal stays possible when an endpoint was archived or removed.
CheckEndpoints(r) ==
    /\ At(r, "endpoints")
    /\ LET q == attempt[r].request IN
       Goto(r, IF q.op = "transfer" => Usable(q.from) /\ Usable(q.to)
               THEN "write" ELSE "failed")

\* Mutant of VoucherOf: a reversal repeats its original instead of swapping
\* the vaults.
VoucherOfUnswapped(q) ==
    LET o == vouchers[q.of]
        row(from, to, amount, of) ==
          [request |-> q, from |-> from, to |-> to, amount |-> amount, day |-> q.day,
           status |-> "posted", of |-> of, entry |-> Len(ledger) + 1]
    IN IF q.op = "transfer" THEN row(q.from, q.to, q.amount, 0)
                            ELSE row(o.from, o.to, o.amount, q.of)

\* The voucher a request creates; a reversal swaps its original's vaults.
VoucherOf(q) ==
    LET o == vouchers[q.of]
        row(from, to, amount, of) ==
          [request |-> q, from |-> from, to |-> to, amount |-> amount, day |-> q.day,
           status |-> "posted", of |-> of, entry |-> Len(ledger) + 1]
    IN IF q.op = "transfer" THEN row(q.from, q.to, q.amount, 0)
                            ELSE row(o.to, o.from, o.amount, q.of)

\* Mutants of Duplicate: one of the two unique indexes is missing.
DuplicateByOriginal(q) == q.op = "reversal" /\ ReversedBy(q.of) # {}
DuplicateByKey(q)      == WithKey(q.key) # {}

\* The inserts would break one of the two unique indexes.
Duplicate(q) == WithKey(q.key) # {} \/ (q.op = "reversal" /\ ReversedBy(q.of) # {})

Commit(r) ==
    LET q == attempt[r].request
        v == VoucherOf(q)
    IN /\ At(r, "write")
       /\ ~Duplicate(q)
       /\ vouchers' = Append(
             IF q.op = "reversal" THEN [vouchers EXCEPT ![q.of].status = "reversed"]
                                  ELSE vouchers, v)
       /\ Post(EntryOf(v.to, v.from, v.amount, v.day, Ref("transfer", Len(vouchers) + 1)))
       /\ attempt' = [attempt EXCEPT ![r].pc = "done", ![r].reply = Len(vouchers) + 1]

\* P2002: the transaction rolls back and the winner is looked up.
Collide(r) ==
    /\ At(r, "write")
    /\ Duplicate(attempt[r].request)
    /\ Goto(r, "collided")

Resolve(r) ==
    /\ At(r, "collided")
    /\ LET winners == WithKey(attempt[r].request.key) IN
       \/ \E i \in winners : Replay(r, i)
       \/ winners = {} /\ Fail(r)

\* Mutant of Conflict: the runs are not counted.
ConflictForever(r) ==
    /\ At(r, "write")
    /\ attempt' = [attempt EXCEPT ![r].pc = "key"]

\* P2034, a deadlock: only the writes wait for locks.  withRetry runs the
\* transaction again.
Conflict(r) ==
    /\ At(r, "write")
    /\ IF attempt[r].tries < RetryMax
       THEN attempt' = [attempt EXCEPT ![r].pc = "key", ![r].tries = @ + 1]
       ELSE Fail(r)

\* The server stops or the transaction times out: nothing is committed.
Crash(r) == attempt[r].pc \in Running /\ Fail(r)

Serve(r) ==
    \/ /\ \/ FindByKey(r) \/ ReadOriginal(r) \/ CheckPeriod(r) \/ CheckEndpoints(r)
          \/ Collide(r) \/ Resolve(r)
       /\ UNCHANGED <<vouchers, ledger, vaultVars, periodVars>>
    \/ Commit(r) /\ UNCHANGED <<vaultVars, periodVars>>

Disturb(r) ==
    /\ \/ \E q \in Requests : Submit(r, q)
       \/ Conflict(r)
       \/ Crash(r)
    /\ UNCHANGED <<vouchers, ledger, vaultVars, periodVars>>

Init == TransferInit /\ VaultInit /\ PeriodInit

Next ==
    \/ \E r \in Attempts : Serve(r) \/ Disturb(r)
    \/ VaultNext /\ UNCHANGED <<vouchers, attempt, ledger, periodVars>>
    \/ PeriodNext /\ UNCHANGED <<vouchers, attempt, ledger, vaultVars>>

\* The server keeps serving a request it has accepted; nothing makes a
\* client send one or an administrator act.
Fairness == \A r \in Attempts : WF_vars(Serve(r))

Spec == Init /\ [][Next]_vars
FairSpec == Spec /\ Fairness

-----------------------------------------------------------------------------
(* Properties. *)

TypeOK == TransferTypeOK /\ VaultTypeOK /\ PeriodTypeOK

\* Whatever requests are retried, raced or crash, a key posts one voucher at
\* most (postTransfer, postReversal and their P2002 paths).
KeyAppliedOnce ==
    \A i, j \in DOMAIN vouchers :
        vouchers[i].request.key = vouchers[j].request.key => i = j

\* A request answered with success names a voucher posted for that very
\* request, also when a concurrent winner's voucher was replayed to it.
ReplyIsOwn ==
    \A r \in Attempts : attempt[r].pc = "done" =>
        /\ attempt[r].reply \in DOMAIN vouchers
        /\ vouchers[attempt[r].reply].request = attempt[r].request

\* A voucher is marked reversed exactly when one other voucher reverses it,
\* and that voucher undoes it: opposite vaults, same amount, no earlier
\* date, itself neither reversed nor the reversal of a reversal.
ReversalsPaired ==
    /\ \A i \in DOMAIN vouchers :
          (vouchers[i].status = "reversed") <=> (ReversedBy(i) # {})
    /\ \A i, j \in DOMAIN vouchers :
          vouchers[i].of = vouchers[j].of /\ vouchers[i].of # 0 => i = j
    /\ \A j \in DOMAIN vouchers : vouchers[j].of # 0 =>
          /\ vouchers[j].of \in DOMAIN vouchers \ {j}
          /\ LET o == vouchers[vouchers[j].of] IN
             /\ o.of = 0
             /\ vouchers[j].from = o.to /\ vouchers[j].to = o.from
             /\ vouchers[j].amount = o.amount
             /\ o.day <= vouchers[j].day

\* The vault balances read from the ledger are what the transfers still
\* standing (posted, not reversals) amount to: a reversal cancels its
\* original to the last unit, a replayed request moves nothing.
Standing == {i \in DOMAIN vouchers : vouchers[i].of = 0 /\ vouchers[i].status = "posted"}

StandingNet(v) ==
    LET amounts == [i \in DOMAIN vouchers |-> vouchers[i].amount]
        sum(S)  == SumFunctionOnSet(amounts, S)
    IN sum({i \in Standing : vouchers[i].to = v}) - sum({i \in Standing : vouchers[i].from = v})

BalancesMatchVouchers == \A v \in Vaults : Balance(v) = StandingNet(v)

\* A posted voucher never changes again, except that it is marked reversed
\* once, and is never deleted (the "immutable" voucher of the service).
VouchersImmutable ==
    [][\A i \in DOMAIN vouchers :
          /\ i \in DOMAIN vouchers'
          /\ \/ vouchers'[i] = vouchers[i]
             \/ /\ vouchers[i].status = "posted"
                /\ vouchers'[i] = [vouchers[i] EXCEPT !.status = "reversed"]]_vars

\* As long as no request is being served between the count and the write of a
\* removal, a removed vault holds no movement (remove in vaults.service.ts
\* tells the user to archive a vault that does).
RemovalAlone ==
    \A c \in Clerks, r \in Attempts :
        clerk[c].pc = "removing" => attempt[r].pc \notin Running

RemovalAloneIsSafe == []RemovalAlone => []RemovedHoldsNothing

\* Every accepted request is answered, however often it was run again.
EveryRequestAnswered ==
    \A r \in Attempts :
        attempt[r].pc \in Running ~> attempt[r].pc \in {"done", "failed"}

\* The abstract promise: per key what took effect, and the balances.
Effect(k) ==
    IF WithKey(k) = {} THEN [kind |-> "none"]
    ELSE LET v == vouchers[CHOOSE i \in WithKey(k) : TRUE] IN
         IF v.of # 0 THEN [kind |-> "undoing", target |-> vouchers[v.of].request.key]
         ELSE [kind |-> IF v.status = "posted" THEN "moved" ELSE "undone",
               from |-> v.from, to |-> v.to, amount |-> v.amount]

Book == INSTANCE TransferBook WITH
            Names <- Keys, Places <- Vaults, Sums <- {q.amount : q \in Transfers},
            movement <- [k \in Keys |-> Effect(k)],
            balance <- [v \in Vaults |-> Balance(v)]

\* Every step of the service is one movement of the abstract book or none
\* (what processTransfer and reverseTransfer promise their callers).
ImplementsBook == Book!BookSpec

=============================================================================
