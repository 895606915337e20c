--------------------------- MODULE OrdersDocuments ---------------------------
(***************************************************************************)
(* The documents of orders V4: purchase orders that are prepared, received,*)
(* corrected, reversed and restored, internal registrations, and           *)
(* stocktakes (orders-v4-documents.service.ts and the services it calls).  *)
(* A transaction takes advisory locks one by one and keeps them until it   *)
(* ends; what it reads between two groups of locks is a step of its own    *)
(* and its writes are one step.  The client gives a document its date,     *)
(* which need not follow the order in which the documents are written.  A  *)
(* registration names the components its recipe consumes.                  *)
(***************************************************************************)
EXTENDS StockLedger

CONSTANTS Attempts,   \* HTTP requests being served, retries included
          Requests,   \* the payloads the clients may send
          OldOrders,  \* orders prepared before: a sequence of documents
          Days,       \* the dates a document may carry
          CashSales   \* the shop's cash sales up to a day, which another module keeps

VARIABLES docs,       \* the table orders_v4_documents; a position is an id
          counts,     \* the table orders_v4_stocktakes
          prices,     \* the price history, oldest first
          lastPrice,  \* the price of an item's order unit, NoPrice for none
          replies,    \* answers kept under the key of an operation
          lock,       \* the holder of each advisory lock
          attempt     \* what each request is doing

tables == <<stock, custody, docs, counts, prices, lastPrice, replies>>
vars == <<tables, lock, attempt>>

NoDoc   == 0
NoPrice == -1
Nobody  == "nobody"
Window  == <<"purchase window", 0>>
Custody == <<"custody", 0>>
Section(day) == <<"section", day>>
StockOf(i)   == <<"stock", i>>
Locks == {Window, Custody} \cup {Section(day) : day \in Days} \cup {StockOf(i) : i \in Items}
Unsent == [pc |-> "idle"]

\* What a request reads under the window lock, and under those of the ledgers.
NothingRead == [method |-> "none", fund |-> 0, rows |-> {}, owed |-> {}, head |-> NoDoc]
NothingSeen == [balance |-> [i \in Items |-> Empty], funds |-> 0, cost |-> <<>>]

Key(tag, q) == [tag |-> tag, key |-> q.key]

\* The lines of a document or a request, by item.
Bought == [qty : Nat \ {0}, price : Nat]
Used   == [qty : Nat \ {0}]
IsLines(lines, L) ==
    /\ IsFiniteSet(DOMAIN lines) /\ DOMAIN lines \subseteq Items
    /\ lines \in [DOMAIN lines -> L]

Methods == {"none", "custody", "cash", "transfer"}
Tags == {"document", "receive", "amend", "reversal", "replacement"}
Keys == {Key(t, q) : t \in Tags, q \in Requests}

IsDocument(d) ==
    /\ IsLines(d.lines, Bought) \/ IsLines(d.lines, Used)
    /\ d \in [type : {"purchase", "issue", "cancellation"},
              status : {"prepared", "received", "reversed"}, method : Methods, fund : Nat,
              lines : {d.lines}, of : Nat,
              key : Keys \cup {OldOrders[n].key : n \in DOMAIN OldOrders},
              request : Requests \cup {OldOrders[n].request : n \in DOMAIN OldOrders},
              receipt : Requests \cup {Unsent}, revision : Nat, corrected : BOOLEAN]

ASSUME OrdersConstants ==
    /\ IsFiniteSet(Attempts) /\ Nobody \notin Attempts /\ Unsent \notin Requests
    /\ Days \subseteq Nat /\ CashSales \in [Days -> Nat]
    /\ \A q \in Requests : q.date \in Days
    /\ \A q \in Requests :
          \/ /\ q.op \in {"order", "receive", "correct"}
             /\ IsLines(q.lines, Bought) /\ q.method \in Methods /\ q.fund \in Nat
          \/ /\ q.op = "register"
             /\ IsLines(q.lines, Used) /\ q.kind \in {"issue", "cancellation"}
          \/ q.op = "amend" /\ IsLines(q.lines, Used)
          \/ q.op = "count" /\ IsLines(q.lines, [qty : Nat])
          \/ q.op \in {"reverse", "undo"}

ASSUME OldOrdersPrepared ==
    /\ OldOrders \in Seq(Range(OldOrders))
    /\ \A m, n \in DOMAIN OldOrders : OldOrders[m].key = OldOrders[n].key => m = n
    /\ \A n \in DOMAIN OldOrders :
          LET d == OldOrders[n]
          IN  /\ IsDocument(d) /\ IsLines(d.lines, Bought)
              /\ d.type = "purchase" /\ d.status = "prepared"
              /\ d.of = NoDoc /\ d.receipt = Unsent /\ d.request.date \in Days

TypeOK ==
    /\ LedgersTypeOK
    /\ docs \in Seq(Range(docs))
    /\ \A d \in DOMAIN docs : IsDocument(docs[d]) /\ docs[d].of < d
    /\ counts \in Seq(Requests)
    /\ prices \in Seq([item : Items, doc : DOMAIN docs, price : Nat, date : Days])
    /\ lastPrice \in [Items -> Nat \cup {NoPrice}]
    /\ replies \subseteq [key : Keys, request : Requests, doc : DOMAIN docs]
    /\ lock \in [Locks -> Attempts \cup {Nobody}]
    /\ \A r \in Attempts : attempt[r] # Unsent => attempt[r].request \in Requests

-----------------------------------------------------------------------------

\* A finite set of numbers in ascending and in descending order.
Upwards(S) ==
    [n \in 1 .. Cardinality(S) |-> CHOOSE i \in S : Cardinality({j \in S : j < i}) = n - 1]
Downwards(S) ==
    [n \in 1 .. Cardinality(S) |-> CHOOSE i \in S : Cardinality({j \in S : j > i}) = n - 1]

\* The sum of f over its domain.
SumOf(f) == SumFunctionOnSet(f, DOMAIN f)

Each(sequence, Op(_)) == [n \in DOMAIN sequence |-> Op(sequence[n])]

At(r, pc)    == attempt[r].pc = pc
Doing(r, op) == attempt[r] # Unsent /\ attempt[r].request.op = op
Release(r)   == lock' = [k \in Locks |-> IF lock[k] = r THEN Nobody ELSE lock[k]]
Unwritten    == UNCHANGED tables

Ended(r, pc, reply) ==
    /\ attempt' = [attempt EXCEPT ![r] =
                      [pc |-> pc, request |-> attempt[r].request, reply |-> reply]]
    /\ Release(r)

Answered(r, d) == Ended(r, "done", d) /\ Unwritten
Refused(r)     == Ended(r, "refused", NoDoc) /\ Unwritten

\* Mutant of KeysInOrder: a stocktake is computed without the locks of its items.
KeysOfOthers(S, q) == IF q.op = "count" THEN <<>> ELSE Each(Upwards(S), StockOf)

\* Mutant of KeysInOrder: a stocktake locks its items in the order of its lines.
KeysAsListed(S, q) == Each(IF q.op = "count" THEN Downwards(S) ELSE Upwards(S), StockOf)

\* The inventory keys of a transaction are locked in their own order, all first.
KeysInOrder(S, q) == Each(Upwards(S), StockOf)

\* Locks to take, in this order, before the step next.
Lock(r, locks, next, read) ==
    /\ attempt' = [attempt EXCEPT ![r] =
                      [pc |-> IF locks = <<>> THEN next ELSE "lock", request |-> attempt[r].request,
                       todo |-> locks, next |-> next, read |-> read, seen |-> NothingSeen]]
    /\ UNCHANGED lock

Acquire(r) ==
    /\ At(r, "lock")
    /\ LET k == Head(attempt[r].todo)
           rest == Tail(attempt[r].todo)
       IN  /\ lock[k] \in {Nobody, r}
           /\ lock' = [lock EXCEPT ![k] = r]
           /\ attempt' = [attempt EXCEPT ![r].todo = rest,
                             ![r].pc = IF rest = <<>> THEN attempt[r].next ELSE "lock"]
    /\ Unwritten

Waiting(r, S) == At(r, "lock") /\ lock[Head(attempt[r].todo)] \in S \ {r}
Deadlocked(S) == S # {} /\ \A r \in S : Waiting(r, S)

\* The database aborts a transaction of a cycle.
BreakDeadlock(r) ==
    /\ \E S \in SUBSET Attempts : r \in S /\ Deadlocked(S)
    /\ Ended(r, "failed", NoDoc)
    /\ Unwritten

\* The connection or the process is lost: the transaction is rolled back.
Abort(r) ==
    /\ attempt[r].pc \notin {"idle", "done", "refused", "failed"}
    /\ Ended(r, "failed", NoDoc)
    /\ Unwritten

\* Unlocked reads of a registration or a stocktake come first; the other
\* operations take the window lock first.
Submit(r, q) ==
    /\ attempt[r] = Unsent
    /\ attempt' = [attempt EXCEPT ![r] =
          [pc |-> IF q.op \in {"register", "count", "amend"} THEN "start" ELSE "lock",
           request |-> q, todo |-> <<Window>>, next |-> "read",
           read |-> NothingRead, seen |-> NothingSeen]]
    /\ UNCHANGED lock
    /\ Unwritten

-----------------------------------------------------------------------------
(* What the operations read. *)

WithKey(key) == {d \in DOMAIN docs : docs[d].key = key}

Amount(lines) == SumOf([i \in DOMAIN lines |-> lines[i].qty * lines[i].price])

\* The date of a document: that of its receipt, before that the one the request
\* that wrote it gave.  A reversal is given the day it is served.
DateOf(d) == IF docs[d].receipt # Unsent THEN docs[d].receipt.date ELSE docs[d].request.date

\* A cash purchase may use the sales up to its day that the received cash
\* purchases up to that day left.
CashUsed(but, day) ==
    SumOf([d \in {e \in DOMAIN docs \ {but} :
                   docs[e].status = "received" /\ docs[e].method = "cash" /\ DateOf(e) <= day} |->
            Amount(docs[d].lines)])
CashAvailable(but, day) == CashSales[day] - CashUsed(but, day)

\* The document that carries the effect of d: the end of its chain of reversals.
EffectHead(d) ==
    LET head[e \in DOMAIN docs] ==
            IF \E f \in DOMAIN docs : docs[f].of = e
            THEN head[CHOOSE f \in DOMAIN docs : docs[f].of = e] ELSE e
    IN  head[d]

\* A correction also holds the reversal of what it corrects, which is not its
\* own effect; a document of a chain of reversals holds nothing else.
Owned(rows, head) ==
    {n \in DOMAIN rows : /\ rows[n].doc = head
                         /\ docs[head].of # NoDoc \/ rows[n].reverses = 0}

ItemsOf(rows) == {stock[n].item : n \in rows}

Priced(i) == {n \in DOMAIN prices : prices[n].item = i /\ docs[prices[n].doc].status = "received"}

\* Prices are taken by the date they took effect, then in the order of writing.
Newer(m, n) ==
    \/ prices[m].date > prices[n].date
    \/ prices[m].date = prices[n].date /\ m > n

\* The newest of the rows S of the price history t.
Latest(S, t) ==
    LET day == Max({t[n].date : n \in S})
    IN  Max({n \in S : t[n].date = day})

\* The mean of the last five prices of received purchases, in Parts-ths.
LastFive(i) ==
    LET recent == {n \in Priced(i) : Cardinality({m \in Priced(i) : Newer(m, n)}) < 5}
    IN  Rounded(SumOf([n \in recent |-> prices[n].price * Parts]), Cardinality(recent))

-----------------------------------------------------------------------------
(* What the operations write. *)

Movement(d, kind, i, qty, value, cost, row) ==
    [doc |-> d, kind |-> kind, item |-> i, qty |-> qty, value |-> value, cost |-> cost,
     reverses |-> row]

Receipts(d, lines) ==
    Each(Upwards(DOMAIN lines), LAMBDA i :
        Movement(d, "receipt", i, lines[i].qty, lines[i].qty * lines[i].price, 0, 0))
Issues(d, kind, lines, cost) ==
    Each(Upwards(DOMAIN lines), LAMBDA i :
        Movement(d, kind, i, lines[i].qty, 0, cost[i], 0))
Stocktakes(lines) ==
    Each(Upwards(DOMAIN lines), LAMBDA i : Movement(NoDoc, "stocktake", i, lines[i].qty, 0, 0, 0))
Reversals(d, rows) ==
    Each(Downwards(rows), LAMBDA n : Movement(d, "reversal", stock[n].item, 0, 0, 0, n))

Funds(d, amount, row) == [doc |-> d, amount |-> amount, reverses |-> row]
FundsReversals(d, rows) == Each(Upwards(rows), LAMBDA n : Funds(d, -custody[n].amount, n))
FundsPurchase(d, method, fund, lines) ==
    IF method # "custody" THEN <<>>
    ELSE (IF fund > 0 THEN <<Funds(d, fund, 0)>> ELSE <<>>)
            \o <<Funds(d, -Amount(lines), 0)>>

\* The two ledgers after the movements of attempt r.
Post(r, ms, fs) ==
    /\ ReversedOnce(ms, stock) /\ ReversedOnce(fs, custody)
    /\ stock' = stock \o Posted(ms, attempt[r].seen.balance)
    /\ custody' = custody \o FundsPosted(fs, attempt[r].seen.funds)

NewPrices(d, lines, day) ==
    Each(Upwards(DOMAIN lines), LAMBDA i :
        [item |-> i, doc |-> d, price |-> lines[i].price, date |-> day])

\* Mutant of Refreshed: the price of the reversed purchase stays.
Unrefreshed(items, old) == old

\* The last price of the items is that of the latest purchase still received,
\* in the documents and the price history as they will be.  (Only reversals and
\* corrections ask for it; a receipt writes its own prices whatever its date is.)
Refreshed(items, old) ==
    [i \in Items |->
        LET left == {n \in DOMAIN prices' : /\ prices'[n].item = i
                                            /\ docs'[prices'[n].doc].status = "received"}
        IN  IF i \notin items THEN old[i]
            ELSE IF left = {} THEN NoPrice ELSE prices'[Latest(left, prices')].price]

Document(type, status, q, key) ==
    [type |-> type, status |-> status, method |-> "none", fund |-> 0, lines |-> <<>>,
     of |-> NoDoc, key |-> key, request |-> q, receipt |-> Unsent, revision |-> 1,
     corrected |-> FALSE]

\* Unique indexes of the documents: the key, and the document reversed.
Insertable(doc) ==
    \A d \in DOMAIN docs : docs[d].key # doc.key /\ (doc.of # NoDoc => docs[d].of # doc.of)

ReplyTo(key) == {p \in replies : p.key = key}

-----------------------------------------------------------------------------
(* Preparing a purchase order: no balance is read. *)

Prepare(r) ==
    /\ Doing(r, "order") /\ At(r, "read")
    /\ LET q == attempt[r].request
           same == WithKey(Key("document", q))
       IN  \/ /\ \E d \in same : docs[d].request = q
              /\ Answered(r, CHOOSE d \in same : TRUE)
           \/ /\ \/ \E d \in same : docs[d].request # q
                 \/ same = {} /\ \E i \in DOMAIN q.lines : lastPrice[i] = NoPrice
              /\ Refused(r)
           \/ /\ same = {} /\ \A i \in DOMAIN q.lines : lastPrice[i] # NoPrice
              /\ docs' = Append(docs, [Document("purchase", "prepared", q, Key("document", q))
                                          EXCEPT !.lines = q.lines, !.method = q.method,
                                                 !.fund = q.fund])
              /\ Ended(r, "done", Len(docs'))
              /\ UNCHANGED <<stock, custody, counts, prices, lastPrice, replies>>

(* Registrations and stocktakes look up their key before any lock. *)

StartRegistration(r) ==
    /\ Doing(r, "register") /\ At(r, "start")
    /\ LET q == attempt[r].request
           same == WithKey(Key("document", q))
           section == IF q.kind = "cancellation" THEN <<Section(q.date)>> ELSE <<>>
       IN  IF same # {}
           THEN \E d \in same : IF docs[d].request = q THEN Answered(r, d) ELSE Refused(r)
           ELSE /\ Lock(r, section \o KeysInOrder(DOMAIN q.lines, q), "balances", NothingRead)
                /\ Unwritten

StartCount(r) ==
    /\ Doing(r, "count") /\ At(r, "start")
    /\ LET q == attempt[r].request
           same == {n \in DOMAIN counts : counts[n].key = q.key}
       IN  IF same # {}
           THEN \E n \in same : IF counts[n] = q THEN Answered(r, n) ELSE Refused(r)
           ELSE /\ Lock(r, KeysInOrder(DOMAIN q.lines, q), "balances", NothingRead)
                /\ Unwritten

\* So does the correction of a registration, before the window lock.
StartAmend(r) ==
    /\ Doing(r, "amend") /\ At(r, "start")
    /\ LET q == attempt[r].request
           kept == ReplyTo(Key("amend", q))
       IN  IF kept # {}
           THEN \E p \in kept : IF p.request = q THEN Answered(r, p.doc) ELSE Refused(r)
           ELSE /\ Lock(r, <<Window>>, "read", NothingRead)
                /\ Unwritten

-----------------------------------------------------------------------------
(* Reads under the window lock; then the locks of the ledgers. *)

IsPurchase(d) == d \in DOMAIN docs /\ docs[d].type = "purchase" /\ docs[d].of = NoDoc

ReceivedUnder(d, key) == docs[d].receipt # Unsent /\ docs[d].receipt.key = key

MethodOf(q, inherited) == IF q.method # "none" THEN q.method ELSE inherited

LedgerLocks(q, rows, funds, method) ==
    KeysInOrder(DOMAIN q.lines \cup ItemsOf(rows), q)
        \o (IF method = "custody" \/ funds # {} THEN <<Custody>> ELSE <<>>)

\* Mutant of KeptReply: the answers of receipts are not kept.
NoKeptReply(q) == {}

\* A replay is looked up under the lock, and answers before anything is read.
KeptReply(q) == ReplyTo(Key("receive", q))

AnswerReplay(r) ==
    /\ (Doing(r, "receive") \/ Doing(r, "correct")) /\ At(r, "read")
    /\ \E p \in KeptReply(attempt[r].request) :
          IF p.request = attempt[r].request THEN Answered(r, p.doc) ELSE Refused(r)

ReadReceipt(r) ==
    /\ Doing(r, "receive") /\ At(r, "read")
    /\ LET q == attempt[r].request
           d == q.doc
           method == MethodOf(q, "custody")
           again == IsPurchase(d) /\ docs[d].status = "received" /\ ReceivedUnder(d, q.key)
           fresh == /\ IsPurchase(d) /\ docs[d].status = "prepared"
                    /\ docs[d].revision = q.revision
                    /\ method = "cash" => Amount(q.lines) <= CashAvailable(NoDoc, q.date)
       IN  /\ KeptReply(q) = {}
           /\ \/ /\ again /\ docs[d].receipt = q
                 /\ replies' = replies \cup
                       {[key |-> Key("receive", q), request |-> q, doc |-> d]}
                 /\ Ended(r, "done", d)
                 /\ UNCHANGED <<stock, custody, docs, counts, prices, lastPrice>>
              \/ /\ IF again THEN docs[d].receipt # q ELSE ~fresh
                 /\ Refused(r)
              \/ /\ ~again /\ fresh
                 /\ Lock(r, LedgerLocks(q, {}, {}, method), "balances",
                         [NothingRead EXCEPT !.method = method, !.fund = q.fund])
                 /\ Unwritten

ReadCorrection(r) ==
    /\ Doing(r, "correct") /\ At(r, "read")
    /\ LET q == attempt[r].request
           d == q.doc
           same == WithKey(Key("document", q))
           fresh == IsPurchase(d) /\ docs[d].status = "received" /\ docs[d].revision = q.revision
       IN  /\ KeptReply(q) = {}
           /\ \/ /\ same # {}
                 /\ \E e \in same : IF docs[e].request = q THEN Answered(r, e) ELSE Refused(r)
              \/ /\ same = {} /\ ~fresh
                 /\ Refused(r)
              \/ /\ same = {} /\ fresh
                 /\ LET method == MethodOf(q, docs[d].method)
                        head  == EffectHead(d)
                        rows  == Owned(stock, head)
                        funds == Owned(custody, head)
                    IN  IF method = "cash" /\ Amount(q.lines) > CashAvailable(d, q.date)
                        THEN Refused(r)
                        ELSE /\ Lock(r, LedgerLocks(q, rows, funds, method), "balances",
                                [NothingRead EXCEPT !.method = method, !.rows = rows,
                                    !.owed = funds,
                                    !.fund = IF q.fund > 0 THEN q.fund ELSE docs[d].fund])
                             /\ Unwritten

\* Mutant of Togglable: a document is reversed whatever its status is.
TogglableTwice(d, undo) == d \in DOMAIN docs /\ docs[d].of = NoDoc

\* An undo restores a reversed document, whatever the cash available is now,
\* unless a correction has replaced it.
Togglable(d, undo) ==
    /\ d \in DOMAIN docs /\ docs[d].of = NoDoc
    /\ docs[d].status = IF undo THEN "reversed" ELSE "received"
    /\ undo => ~docs[d].corrected

ReadToggle(r) ==
    /\ (Doing(r, "reverse") \/ Doing(r, "undo")) /\ At(r, "read")
    /\ LET q == attempt[r].request
           d == q.doc
           same == WithKey(Key("document", q))
       IN  \/ /\ same # {}
              /\ \E e \in same : IF docs[e].request = q THEN Answered(r, e) ELSE Refused(r)
           \/ /\ same = {} /\ ~Togglable(d, q.op = "undo")
              /\ Refused(r)
           \/ /\ same = {} /\ Togglable(d, q.op = "undo")
              /\ LET head  == EffectHead(d)
                     rows  == Owned(stock, head)
                     funds == Owned(custody, head)
                     section == IF docs[d].type = "purchase" THEN <<>>
                                ELSE <<Section(DateOf(d))>>
                 IN  Lock(r, section \o KeysInOrder(ItemsOf(rows), q)
                                \o (IF funds = {} THEN <<>> ELSE <<Custody>>),
                          "balances", [NothingRead EXCEPT !.rows = rows, !.owed = funds,
                                                          !.head = head])
              /\ Unwritten

\* The locks of the reversal first, then those of the replacement.
ReadAmend(r) ==
    /\ Doing(r, "amend") /\ At(r, "read")
    /\ LET q == attempt[r].request
           d == q.doc
       IN  IF /\ d \in DOMAIN docs /\ docs[d].type = "issue" /\ docs[d].of = NoDoc
              /\ docs[d].status = "received" /\ docs[d].revision = q.revision
           THEN /\ LET head == EffectHead(d)
                       rows == Owned(stock, head)
                   IN  Lock(r, <<Section(DateOf(d))>> \o KeysInOrder(ItemsOf(rows), q)
                                  \o KeysInOrder(DOMAIN q.lines, q),
                            "balances", [NothingRead EXCEPT !.rows = rows, !.head = head])
                /\ Unwritten
           ELSE Refused(r)

\* The balances the rows will be computed from, read under the locks.  A
\* component without a received price stops a registration.
ReadBalances(r) ==
    /\ At(r, "balances")
    /\ LET q == attempt[r].request
           uses == IF q.op \in {"register", "amend"} THEN DOMAIN q.lines ELSE {}
       IN  IF \E i \in uses : Priced(i) = {} THEN Refused(r)
           ELSE /\ attempt' = [attempt EXCEPT ![r].pc = "commit", ![r].seen =
                      [balance |-> [i \in Items |-> BalanceOf(i)], funds |-> FundsBalance,
                       cost |-> [i \in uses |-> LastFive(i)]]]
                /\ UNCHANGED lock
                /\ Unwritten

-----------------------------------------------------------------------------
(* The writes of a transaction. *)

CommitRegistration(r) ==
    /\ Doing(r, "register") /\ At(r, "commit")
    /\ LET q == attempt[r].request
           doc == [Document(q.kind, "received", q, Key("document", q)) EXCEPT !.lines = q.lines]
       IN  /\ Insertable(doc)
           /\ docs' = Append(docs, doc)
           /\ Post(r, Issues(Len(docs'), q.kind, q.lines, attempt[r].seen.cost), <<>>)
           /\ Ended(r, "done", Len(docs'))
           /\ UNCHANGED <<counts, prices, lastPrice, replies>>

CommitCount(r) ==
    /\ Doing(r, "count") /\ At(r, "commit")
    /\ LET q == attempt[r].request
       IN  /\ \A n \in DOMAIN counts : counts[n].key # q.key
           /\ counts' = Append(counts, q)
           /\ Post(r, Stocktakes(q.lines), <<>>)
           /\ Ended(r, "done", Len(counts'))
           /\ UNCHANGED <<docs, prices, lastPrice, replies>>

CommitReceipt(r) ==
    /\ Doing(r, "receive") /\ At(r, "commit")
    /\ LET q == attempt[r].request
           d == q.doc
           a == attempt[r].read
           fund == IF a.method = "custody" THEN a.fund ELSE 0
       IN  /\ docs' = [docs EXCEPT ![d] = [docs[d] EXCEPT !.status = "received",
                             !.lines = q.lines, !.method = a.method, !.fund = fund,
                             !.revision = docs[d].revision + 1, !.receipt = q]]
           /\ Post(r, Receipts(d, q.lines), FundsPurchase(d, a.method, fund, q.lines))
           /\ prices' = prices \o NewPrices(d, q.lines, q.date)
           /\ lastPrice' = [i \in Items |-> IF i \in DOMAIN q.lines THEN q.lines[i].price
                                            ELSE lastPrice[i]]
           /\ replies' = replies \cup {[key |-> Key("receive", q), request |-> q, doc |-> d]}
           /\ Ended(r, "done", d)
           /\ UNCHANGED counts

\* The original is reversed and its replacement received in one step.
CommitCorrection(r) ==
    /\ Doing(r, "correct") /\ At(r, "commit")
    /\ LET q == attempt[r].request
           a == attempt[r].read
           new == Len(docs) + 1
           fund == IF a.method = "custody" THEN a.fund ELSE 0
           doc == [Document("purchase", "received", q, Key("document", q))
                      EXCEPT !.lines = q.lines, !.method = a.method, !.fund = fund,
                             !.receipt = q, !.revision = 2]
       IN  /\ Insertable(doc)
           /\ docs' = Append([docs EXCEPT ![q.doc].status = "reversed",
                                          ![q.doc].corrected = TRUE], doc)
           /\ Post(r, Reversals(new, a.rows) \o Receipts(new, q.lines),
                   FundsReversals(new, a.owed) \o FundsPurchase(new, a.method, fund, q.lines))
           /\ prices' = prices \o NewPrices(new, q.lines, q.date)
           /\ lastPrice' = Refreshed(DOMAIN docs[q.doc].lines,
                  [i \in Items |-> IF i \in DOMAIN q.lines THEN q.lines[i].price
                                   ELSE lastPrice[i]])
           /\ replies' = replies \cup {[key |-> Key("receive", q), request |-> q, doc |-> new]}
           /\ Ended(r, "done", new)
           /\ UNCHANGED counts

CommitToggle(r) ==
    /\ (Doing(r, "reverse") \/ Doing(r, "undo")) /\ At(r, "commit")
    /\ LET q == attempt[r].request
           d == q.doc
           a == attempt[r].read
           new == Len(docs) + 1
           doc == [Document(docs[d].type, "reversed", q, Key("document", q))
                      EXCEPT !.method = docs[d].method, !.of = a.head]
       IN  /\ Insertable(doc)
           /\ docs' = Append([docs EXCEPT ![d].status =
                                 IF q.op = "undo" THEN "received" ELSE "reversed"], doc)
           /\ Post(r, Reversals(new, a.rows), FundsReversals(new, a.owed))
           /\ UNCHANGED prices
           /\ lastPrice' = IF docs[d].type = "purchase"
                           THEN Refreshed(DOMAIN docs[d].lines, lastPrice) ELSE lastPrice
           /\ Ended(r, "done", new)
           /\ UNCHANGED <<counts, replies>>

CommitAmend(r) ==
    /\ Doing(r, "amend") /\ At(r, "commit")
    /\ LET q == attempt[r].request
           d == q.doc
           a == attempt[r].read
           undone == Len(docs) + 1
           new == Len(docs) + 2
           reversal == [Document("issue", "reversed", q, Key("reversal", q))
                           EXCEPT !.of = a.head]
           doc == [Document("issue", "received", q, Key("replacement", q))
                      EXCEPT !.lines = q.lines]
       IN  /\ Insertable(reversal) /\ Insertable(doc)
           /\ docs' = [docs EXCEPT ![d].status = "reversed", ![d].corrected = TRUE]
                         \o <<reversal, doc>>
           /\ Post(r, Reversals(undone, a.rows)
                         \o Issues(new, "issue", q.lines, attempt[r].seen.cost), <<>>)
           /\ replies' = replies \cup {[key |-> Key("amend", q), request |-> q, doc |-> new]}
           /\ Ended(r, "done", new)
           /\ UNCHANGED <<counts, prices, lastPrice>>

\* A unique index refuses the writes: the key of a request that was being
\* served at the same time, or a row reversed before.
Collide(r) ==
    /\ At(r, "commit")
    /\ LET q == attempt[r].request
       IN  \/ q.op \in {"register", "correct", "reverse", "undo"}
              /\ WithKey(Key("document", q)) # {}
           \/ q.op = "amend" /\ WithKey(Key("reversal", q)) # {}
           \/ q.op = "count" /\ \E n \in DOMAIN counts : counts[n].key = q.key
           \/ q.op \in {"correct", "reverse", "undo", "amend"}
              /\ \E n \in DOMAIN stock : stock[n].reverses \in attempt[r].read.rows
    /\ Ended(r, "failed", NoDoc)
    /\ Unwritten

\* Answers are kept for a day.
Expire ==
    /\ \E p \in replies : replies' = replies \ {p}
    /\ UNCHANGED <<stock, custody, docs, counts, prices, lastPrice, lock, attempt>>

-----------------------------------------------------------------------------

Init ==
    /\ docs = OldOrders
    /\ stock = <<>> /\ custody = <<>> /\ counts = <<>> /\ prices = <<>> /\ replies = {}
    /\ lastPrice = [i \in Items |-> 1]
    /\ lock = [k \in Locks |-> Nobody]
    /\ attempt = [r \in Attempts |-> Unsent]

\* The system is at rest when every request has been answered.
Finished ==
    /\ \A r \in Attempts : attempt[r].pc \in {"done", "refused", "failed"}
    /\ UNCHANGED vars

Next ==
    \/ \E r \in Attempts :
          \/ \E q \in Requests : Submit(r, q)
          \/ Acquire(r) \/ BreakDeadlock(r) \/ Abort(r) \/ Collide(r)
          \/ Prepare(r) \/ StartRegistration(r) \/ StartCount(r) \/ StartAmend(r)
          \/ AnswerReplay(r) \/ ReadReceipt(r) \/ ReadCorrection(r)
          \/ ReadToggle(r) \/ ReadAmend(r) \/ ReadBalances(r)
          \/ CommitRegistration(r) \/ CommitCount(r) \/ CommitReceipt(r)
          \/ CommitCorrection(r) \/ CommitToggle(r) \/ CommitAmend(r)
    \/ Expire
    \/ Finished

Spec == Init /\ [][Next]_vars

-----------------------------------------------------------------------------
(* Properties. *)

\* What a received document moves of an item.
Moves(d, i) ==
    IF i \notin DOMAIN docs[d].lines THEN 0
    ELSE IF docs[d].type = "purchase" THEN docs[d].lines[i].qty ELSE -docs[d].lines[i].qty

\* What it moves of the custody.
Spends(d) ==
    IF docs[d].method # "custody" THEN 0 ELSE docs[d].fund - Amount(docs[d].lines)

\* However often a document is received again, corrected, reversed and restored,
\* by whom and in which order, the ledgers hold its effect once while it is
\* received and not at all otherwise.
EffectMatchesStatus ==
    LET stockOwner == Owners(stock)
        fundOwner == Owners(custody)
    IN  \A d \in {e \in DOMAIN docs : docs[e].of = NoDoc} :
          LET mine == {n \in DOMAIN stock : stockOwner[n] = d}
              received == docs[d].status = "received"
          IN  /\ \A i \in Items :
                    LET rows == {n \in mine : stock[n].item = i}
                    IN  /\ SumOf([n \in rows |-> stock[n].qty])
                              = IF received THEN Moves(d, i) ELSE 0
                        /\ received \/ SumOf([n \in rows |-> stock[n].value]) = 0
              /\ SumOf([n \in {m \in DOMAIN custody : fundOwner[m] = d} |-> custody[n].amount])
                    = IF received THEN Spends(d) ELSE 0

\* The locks are always taken in one order, except by the correction of a
\* registration, which takes those of its replacement after the old ones: no
\* cycle of waiting transactions arises without one.
DeadlocksOnlyByAmend ==
    \A S \in SUBSET Attempts : Deadlocked(S) => \E r \in S : Doing(r, "amend")

\* A client makes up a new key for each receipt or correction, and sends a key
\* again only with the request it was made for.
KeysOfOneRequest ==
    \A p, q \in Requests :
        p.op \in {"receive", "correct"} /\ q.op \in {"receive", "correct"} /\ p.key = q.key
            => p = q

\* A purchase request that was carried out is not refused when it is sent again,
\* whatever has become of the document since; once the answer of a receipt is
\* no longer kept, only while the document is still received.
RetryNotRefused ==
    [][\A r, s \in Attempts :
          LET q == attempt[s].request
          IN  /\ attempt[s].pc = "done" /\ q.op \notin {"register", "count", "amend"}
              /\ attempt[r].pc = "read" /\ attempt[r].request = q
              /\ attempt'[r].pc = "refused"
              => /\ q.op = "receive"
                 /\ ReplyTo(Key("receive", q)) = {}
                 /\ docs[q.doc].status # "received"]_vars

\* The price offered for the next order is that of a purchase that is still
\* received: of the latest by date, or of the last one written; and there is none
\* when all of them were reversed.
LastPriceFollows ==
    \A i \in Items :
        (\E n \in DOMAIN prices : prices[n].item = i) =>
            IF Priced(i) = {} THEN lastPrice[i] = NoPrice
            ELSE lastPrice[i] \in {prices[Latest(Priced(i), prices)].price,
                                  prices[Max(Priced(i))].price}

\* "prevents exceeding the available cash" (docs/ORDERS_V4_IMPLEMENTATION.md:92):
\* on no day have the received cash purchases used more than the cash sales.
CashWithinSales == \A day \in Days : CashUsed(NoDoc, day) <= CashSales[day]

=============================================================================
