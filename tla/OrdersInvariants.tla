--------------------------- MODULE OrdersInvariants ---------------------------
(***************************************************************************)
(* The inductive invariants of OrdersDocuments, and the terms in which     *)
(* OrdersDocumentsProofs states its lemmas: what the tables and the        *)
(* records of a request are (TypeInv), what is true of the locks           *)
(* (LocksInv, WindowInv), of the balances and the documents a transaction  *)
(* has read (InformedInv, SureInv), of the price history (PricesInv), and  *)
(* of the effects of the documents in the ledgers (EffectInv).  Nothing    *)
(* here adds to the model.                                                 *)
(***************************************************************************)
EXTENDS OrdersDocuments

Family(C, S) == C # {} /\ C \in SUBSET SUBSET S

-----------------------------------------------------------------------------
(* Sets of numbers in order.                                               *)

\* The sequences of a set in order list it once each.
Lists(s, S) ==
    /\ DOMAIN s = 1 .. Cardinality(S) /\ Cardinality(S) \in Nat
    /\ \A n \in DOMAIN s : s[n] \in S
    /\ \A i \in S : \E n \in DOMAIN s : s[n] = i
    /\ \A m, n \in DOMAIN s : s[m] = s[n] => m = n

\* s takes the elements of S by the number of those before them, in a strict order.
Sorted(s, S, before) ==
    /\ DOMAIN s = 1 .. Cardinality(S)
    /\ \A n \in DOMAIN s : (\E i \in S : Cardinality(before[i]) = n - 1)
                            => s[n] \in S /\ Cardinality(before[s[n]]) = n - 1
    /\ \A i \in S : before[i] \subseteq S \ {i}
    /\ \A i, j \in S : i # j => i \in before[j] \/ j \in before[i]
    /\ \A i, j \in S : i \in before[j] => before[i] \subseteq before[j]

-----------------------------------------------------------------------------
(* Recursive functions: the folds of the postings, and the chains of        *)
(* reversals.                                                                *)

\* One step of the posting of stock movements, and of custody movements.
StockStep(done, m) ==
    LET rows == RowsOf(done.balance[m.item], m)
    IN  [rows |-> done.rows \o rows,
         balance |-> IF rows = <<>> THEN done.balance
                     ELSE [done.balance EXCEPT ![m.item] = Last(rows).after]]

FundsStep(seen, rows, m) ==
    Append(rows, [amount |-> m.amount, doc |-> m.doc, reverses |-> m.reverses,
                  after |-> m.amount + (IF rows = <<>> THEN seen ELSE Last(rows).after)])

\* The step of a recursion: of a posting, or of a chain, which only passes on.
StepOf(kind, seen, done, m) ==
    CASE kind = "stock" -> StockStep(done, m)
      [] kind = "funds" -> FundsStep(seen, done, m)
      [] kind = "chain" -> done

\* g is defined on D by the step from its value at next[x], from stop on.
Recursion(g, kind, seen, D, stop, end, next, m) ==
    g = [x \in D |-> IF x \in stop THEN end[x]
                     ELSE StepOf(kind, seen, g[next[x]], m[x])]

Falls(D, stop, next, rank) ==
    \A x \in D : rank[x] \in Nat
                 /\ (x \notin stop => next[x] \in D /\ rank[next[x]] < rank[x])

\* What the recursive functions of the two postings are, over the sets of the
\* positions of the movements.
StockFold(g, ms, seen) ==
    g = [s \in SUBSET DOMAIN ms |-> IF s = {} THEN [rows |-> <<>>, balance |-> seen]
                                    ELSE StockStep(g[s \ {Max(s)}], ms[Max(s)])]
FundsFold(g, ms, seen) ==
    g = [s \in SUBSET DOMAIN ms |-> IF s = {} THEN <<>>
                                    ELSE FundsStep(seen, g[s \ {Max(s)}], ms[Max(s)])]

\* The two postings one movement after another.
StockRun(acc, ms, seen, n) ==
    /\ acc[0] = [rows |-> <<>>, balance |-> seen]
    /\ \A k \in 1 .. n : acc[k] = StockStep(acc[k - 1], ms[k])
FundsRun(acc, ms, seen, n) ==
    /\ acc[0] = <<>>
    /\ \A k \in 1 .. n : acc[k] = FundsStep(seen, acc[k - 1], ms[k])

-----------------------------------------------------------------------------
(* The chains of reversals.                                                  *)

\* The document after d in its chain, and the end of the chain.
Successor(d) == CHOOSE f \in DOMAIN docs : docs[f].of = d
Undone(d)    == \E f \in DOMAIN docs : docs[f].of = d

\* A document reverses an earlier one.
OfEarlier ==
    /\ Len(docs) \in Nat /\ DOMAIN docs = 1 .. Len(docs)
    /\ \A d \in DOMAIN docs : docs[d].of \in Nat /\ docs[d].of < d

\* The end of the chain of a document is a document that nothing reverses.
HeadOf(d) ==
    /\ EffectHead(d) \in DOMAIN docs /\ ~Undone(EffectHead(d)) /\ d <= EffectHead(d)
    /\ EffectHead(d) = IF Undone(d) THEN EffectHead(Successor(d)) ELSE d
    /\ Undone(d) => Successor(d) \in DOMAIN docs /\ docs[Successor(d)].of = d
                    /\ d < Successor(d)

-----------------------------------------------------------------------------
(* Movements and the rows they become.                                       *)

MoveKinds == {"receipt", "issue", "cancellation", "stocktake", "reversal"}

\* A movement of the operations; a reversal names a row.
IsMove(m) ==
    /\ m.item \in Items /\ m.kind \in MoveKinds /\ m.doc \in Nat
    /\ m.qty \in Int /\ m.value \in Int /\ m.reverses \in Nat
    /\ m.kind = "receipt" => m.qty \in Nat \ {0} /\ m.value \in Nat
    /\ m.kind \in {"issue", "cancellation"} => m.cost \in Nat
    /\ IF m.kind = "reversal" THEN m.reverses \in DOMAIN stock ELSE m.reverses = 0

\* A row that continues the balance b with the movement m.
Continues(row, b, m) ==
    /\ row \in StockRows
    /\ row.item = m.item /\ row.doc = m.doc /\ row.reverses = m.reverses
    /\ row.after.qty = b.qty + row.qty /\ row.after.value = b.value + row.value

\* What the rows of a movement add to the balance.
Adds(row, m) ==
    CASE m.kind = "receipt"                   -> row.qty = m.qty
      [] m.kind \in {"issue", "cancellation"} -> row.qty = -m.qty
      [] m.kind = "stocktake"                 -> TRUE
      [] m.kind = "reversal"                  -> row.qty = -stock[m.reverses].qty
                                                 /\ row.value = -stock[m.reverses].value

\* No row, one, or the revaluation of a negative balance and a receipt.
NoRow(rows, b, m)  == rows = <<>> /\ m.kind = "stocktake"
OneRow(rows, b, m) == /\ \E row : rows = <<row>> /\ Continues(row, b, m) /\ Adds(row, m)
TwoRows(rows, b, m) ==
    /\ m.kind = "receipt"
    /\ rows \in Seq(StockRows) /\ Len(rows) = 2
    /\ \E row, base : /\ rows[1] = base /\ rows[2] = row
                      /\ Continues(base, b, m) /\ base.qty = 0
                      /\ Continues(row, base.after, m) /\ Adds(row, m)

RowsFollow(rows, b, m) == NoRow(rows, b, m) \/ OneRow(rows, b, m) \/ TwoRows(rows, b, m)

-----------------------------------------------------------------------------
(* The rows of a posting have their types.                                   *)

MoveList(ms, n) == DOMAIN ms = 1 .. n /\ n \in Nat /\ \A k \in 1 .. n : IsMove(ms[k])

Typed(done) == /\ done.rows \in Seq(StockRows) /\ done.balance \in [Items -> Balances]
               /\ done = [rows |-> done.rows, balance |-> done.balance]

\* The rows added by one movement.
Adding(rows, done, after, m) ==
    /\ RowsFollow(rows, done.balance[m.item], m) /\ rows \in Seq(StockRows)
    /\ after.rows = done.rows \o rows
    /\ \/ rows = <<>> /\ after.balance = done.balance
       \/ /\ rows # <<>> /\ Len(rows) \in 1 .. 2
          /\ after.balance = [done.balance EXCEPT ![m.item] = rows[Len(rows)].after]

\* Custody movements and their rows.
IsFund(f)     == f.amount \in Int /\ f.doc \in Nat /\ f.reverses \in Nat
FundList(fs, n) == DOMAIN fs = 1 .. n /\ n \in Nat /\ \A k \in 1 .. n : IsFund(fs[k])

\* The rows after one custody movement: one more, that continues the balance.
FundAdded(rows, after, f, seen) ==
    /\ after \in Seq(CustodyRows) /\ Len(after) = Len(rows) + 1 /\ Len(rows) \in Nat
    /\ \A j \in 1 .. Len(rows) : after[j] = rows[j]
    /\ after[Len(rows) + 1] = [amount |-> f.amount, doc |-> f.doc, reverses |-> f.reverses,
           after |-> f.amount + (IF rows = <<>> THEN seen ELSE rows[Len(rows)].after)]

\* The two ledgers only grow, by rows of their types.
Grown(t, u, Rows) ==
    /\ u \in Seq(Rows) /\ Len(t) \in Nat /\ Len(u) \in Nat /\ Len(t) <= Len(u)
    /\ \A n \in 1 .. Len(t) : u[n] = t[n]

-----------------------------------------------------------------------------
(* Types.                                                                    *)

Closed  == {"done", "refused", "failed"}
ByDocument == {"receive", "correct", "reverse", "undo", "amend"}
WithLines  == {"order", "receive", "correct", "register", "amend", "count"}

\* What was read names rows and documents that exist.
ReadOK(read) ==
    /\ read = [method |-> read.method, fund |-> read.fund, rows |-> read.rows,
               owed |-> read.owed, head |-> read.head]
    /\ read.method \in Methods /\ read.fund \in Nat
    /\ read.rows \subseteq DOMAIN stock /\ read.owed \subseteq DOMAIN custody
    /\ read.head \in 0 .. Len(docs)

\* A request whose locks of the ledgers are being taken or were taken.
Past(a) == a.pc \in {"balances", "commit"} \/ (a.pc = "lock" /\ a.next = "balances")

SeenOK(a) ==
    /\ a.seen.balance \in [Items -> Balances] /\ a.seen.funds \in Int
    /\ a.pc = "commit" /\ a.request.op \in {"register", "amend"}
          => \A i \in DOMAIN a.request.lines : a.seen.cost[i] \in Nat

IsActive(a) ==
    /\ a = [pc |-> a.pc, request |-> a.request, todo |-> a.todo, next |-> a.next,
            read |-> a.read, seen |-> a.seen]
    /\ a.pc \in {"start", "lock", "read", "balances", "commit"}
    /\ a.next \in {"read", "balances"} /\ a.todo \in Seq(Locks)
    /\ a.pc = "lock" => a.todo # <<>>
    /\ a.pc = "start" => a.request.op \in {"register", "count", "amend"}
    /\ ReadOK(a.read) /\ SeenOK(a)
    /\ Past(a) /\ a.request.op \in ByDocument => a.request.doc \in DOMAIN docs

AttemptOK(a) ==
    \/ a = Unsent
    \/ a.request \in Requests /\ (a.pc \in Closed \/ IsActive(a))

AttemptsOK == /\ attempt = [r \in Attempts |-> attempt[r]]
              /\ \A r \in Attempts : AttemptOK(attempt[r])

DocsOK == /\ docs \in Seq(Range(docs))
          /\ \A d \in DOMAIN docs : IsDocument(docs[d]) /\ docs[d].of < d

TablesOK ==
    /\ counts \in Seq(Requests)
    /\ prices \in Seq([item : Items, doc : DOMAIN docs, price : Nat, date : Days])
    /\ lastPrice \in [Items -> Nat \cup {NoPrice}]
    /\ replies \subseteq [key : Keys, request : Requests, doc : DOMAIN docs]

LockOK == lock \in [Locks -> Attempts \cup {Nobody}]

TypeInv == LedgersTypeOK /\ DocsOK /\ TablesOK /\ LockOK /\ AttemptsOK

-----------------------------------------------------------------------------
(* The locks and their order.                                                *)

Class(k) == CASE k[1] = "purchase window" -> 0
              [] k[1] = "section"         -> 1
              [] k[1] = "stock"           -> 2
              [] k[1] = "custody"         -> 3

Precedes(k, l) == Class(k) < Class(l) \/ (Class(k) = Class(l) /\ k[2] < l[2])

\* Locks in the order in which all transactions but one kind take them.
Ordered(locks) ==
    \A m, n \in DOMAIN locks : m < n => Precedes(locks[m], locks[n])

\* Locks that are those of the items S, and of the custody when c.
Covers(locks, S, c) ==
    /\ \A i \in S : \E n \in DOMAIN locks : locks[n] = StockOf(i)
    /\ c => \E n \in DOMAIN locks : locks[n] = Custody

\* A registration or the reversal of one locks its section on its day first.
Sections == {<<>>} \cup {<<Section(day)>> : day \in Days}

NoWindow(locks) == \A n \in DOMAIN locks : locks[n] # Window

\* The sequence of the stock locks of a set of items.
KeyLocks(locks, S) ==
    /\ locks \in Seq(Locks)
    /\ \A n \in DOMAIN locks : \E i \in S : locks[n] = StockOf(i)
    /\ \A i \in S : \E n \in DOMAIN locks : locks[n] = StockOf(i)
    /\ Ordered(locks)

-----------------------------------------------------------------------------
(* What the steps that only read do: they end, or take locks.                *)

\* The items whose balances, and whether the custody's, a request will post to.
Touched(q, read) ==
    (IF q.op \in WithLines THEN DOMAIN q.lines ELSE {}) \cup ItemsOf(read.rows)
TouchesFunds(q, read) ==
    (q.op \in {"receive", "correct"} /\ read.method = "custody") \/ read.owed # {}

\* What a request about a document has found out about the document.
Standing(q) ==
    /\ q.doc \in DOMAIN docs /\ docs[q.doc].of = NoDoc
    /\ q.op = "receive" => docs[q.doc].type = "purchase" /\ docs[q.doc].status = "prepared"
    /\ q.op = "correct" => docs[q.doc].type = "purchase" /\ docs[q.doc].status = "received"
    /\ q.op = "reverse" => docs[q.doc].status = "received"
    /\ q.op = "undo"    => docs[q.doc].status = "reversed" /\ ~docs[q.doc].corrected
    /\ q.op = "amend"   => docs[q.doc].type = "issue" /\ docs[q.doc].status = "received"

\* And about its effect, from the end of its chain of reversals.
HeadRead(q, read, head) ==
    /\ q.op # "receive" => read.rows = Owned(stock, head)
    /\ q.op \in {"correct", "reverse", "undo"} => read.owed = Owned(custody, head)
    /\ q.op \in {"reverse", "undo", "amend"} => read.head = head

Certified(q, read) == Standing(q) /\ HeadRead(q, read, EffectHead(q.doc))

LocksFor(q, locks, next, read) ==
    /\ locks \in Seq(Locks) /\ ReadOK(read)
    /\ \/ next = "read" /\ locks = <<Window>> /\ q.op = "amend"
       \/ /\ next = "balances" /\ NoWindow(locks)
          /\ q.op # "amend" => Ordered(locks)
          /\ Covers(locks, Touched(q, read), TouchesFunds(q, read))
          /\ q.op \in ByDocument => q.doc \in DOMAIN docs /\ Certified(q, read)

EndsQuietly(r) == \E pc, reply : pc \in Closed /\ Ended(r, pc, reply) /\ Unwritten

\* The registrations, the stocktakes and the amendments have no locks before
\* this step; the others have the window's.
TakesLocks(r, locks, next, read) ==
    /\ Lock(r, locks, next, read) /\ Unwritten
    /\ attempt[r].pc = IF attempt[r].request.op \in {"register", "count"} \/ next = "read"
                       THEN "start" ELSE "read"
    /\ LocksFor(attempt[r].request, locks, next, read)

ReadsOnly(r) == EndsQuietly(r) \/ \E locks, next, read : TakesLocks(r, locks, next, read)

LedgerLocksOK(q, rows, funds, method, locks) ==
    /\ locks \in Seq(Locks) /\ Ordered(locks) /\ NoWindow(locks)
    /\ Covers(locks, DOMAIN q.lines \cup ItemsOf(rows), method = "custody" \/ funds # {})

ReadFields == {"method", "fund", "rows", "owed", "head"}

CorrectionRead(method, fund, rows, owed) ==
    [NothingRead EXCEPT !.method = method, !.rows = rows, !.owed = owed, !.fund = fund]

-----------------------------------------------------------------------------
(* The documents.                                                            *)

DocFields == {"type", "status", "method", "fund", "lines", "of", "key", "request", "receipt",
              "revision", "corrected"}

DocKeys     == Keys \cup {OldOrders[n].key : n \in DOMAIN OldOrders}
DocRequests == Requests \cup {OldOrders[n].request : n \in DOMAIN OldOrders}

\* The fields of a document have their types.
FieldsOK(doc) ==
    /\ doc.type \in {"purchase", "issue", "cancellation"}
    /\ doc.status \in {"prepared", "received", "reversed"}
    /\ doc.method \in Methods /\ doc.fund \in Nat
    /\ IsLines(doc.lines, Bought) \/ IsLines(doc.lines, Used)
    /\ doc.of \in Nat /\ doc.key \in DocKeys /\ doc.request \in DocRequests
    /\ doc.receipt \in Requests \cup {Unsent} /\ doc.revision \in Nat /\ doc.corrected \in BOOLEAN

\* A table of documents.
DocTable(t) ==
    /\ t \in Seq(Range(t))
    /\ \A d \in DOMAIN t : IsDocument(t[d]) /\ t[d].of < d

-----------------------------------------------------------------------------
(* The movements of the operations.                                          *)

\* A list of movements of items in S.
MovesOver(ms, n, S) ==
    MoveList(ms, n) /\ ms \in Seq(Range(ms)) /\ \A k \in 1 .. n : ms[k].item \in S

-----------------------------------------------------------------------------
(* The movements of the custody, and the costs of the components.            *)

\* A list of movements of the custody, empty unless c.
FundsOver(fs, n, c) == FundList(fs, n) /\ fs \in Seq(Range(fs)) /\ (n # 0 => c)

\* A list of some length.
SomeFunds(fs, c) == \E n \in Nat : FundsOver(fs, n, c)
SomeMoves(ms, S) == \E n \in Nat : MovesOver(ms, n, S)

-----------------------------------------------------------------------------
(* What the writes leave.                                                    *)

\* The tables only grow.
Wider ==
    /\ DOMAIN stock \subseteq DOMAIN stock' /\ DOMAIN custody \subseteq DOMAIN custody'
    /\ DOMAIN docs \subseteq DOMAIN docs' /\ 0 .. Len(docs) \subseteq 0 .. Len(docs')

PriceRows(D) == [item : Items, doc : D, price : Nat, date : Days]
Prices == [Items -> Nat \cup {NoPrice}]

-----------------------------------------------------------------------------
(* The documents that are written.                                           *)

\* The fields of a new document.
DocIs(doc, type, status, q, tag, lines, method, fund, of, receipt, revision) ==
    /\ doc = [i \in DocFields |-> doc[i]]
    /\ doc.type = type /\ doc.status = status /\ doc.method = method /\ doc.fund = fund
    /\ doc.lines = lines /\ doc.of = of /\ doc.key = Key(tag, q) /\ doc.request = q
    /\ doc.receipt = receipt /\ doc.revision = revision /\ doc.corrected = FALSE

\* A document that changes keeps the fields that are not named.
Restated(doc, old) ==
    /\ doc = [i \in DocFields |-> doc[i]]
    /\ doc.type = old.type /\ doc.of = old.of /\ doc.key = old.key /\ doc.request = old.request

ReceivedAs(old, q, method, fund) ==
    [old EXCEPT !.status = "received", !.lines = q.lines, !.method = method,
                !.fund = fund, !.revision = old.revision + 1, !.receipt = q]

-----------------------------------------------------------------------------
(* The steps that write.                                                     *)

DocsGrow ==
    /\ DocsOK' /\ DOMAIN docs \subseteq DOMAIN docs'
    /\ Len(docs) \in Nat /\ Len(docs') \in Nat /\ Len(docs) <= Len(docs')

Records(r) ==
    /\ attempt[r] # Unsent /\ \E d : Ended(r, "done", d)
    /\ DocsGrow /\ TablesOK'

WritesOnly(r) == Records(r) /\ attempt[r].pc = "read" /\ UNCHANGED <<stock, custody>>

\* Only what was read about is posted to.
Posts(r, ms, S, fs, c) ==
    /\ SomeMoves(ms, S) /\ S \subseteq Touched(attempt[r].request, attempt[r].read)
    /\ SomeFunds(fs, c) /\ (c => TouchesFunds(attempt[r].request, attempt[r].read))
    /\ Post(r, ms, fs)

Commits(r) ==
    /\ Records(r) /\ attempt[r].pc = "commit"
    /\ \E ms, S, fs, c : Posts(r, ms, S, fs, c)

\* The table t with one document of another status.
TurnedTo(u, t, d, status, corrected) ==
    /\ DocTable(u) /\ DOMAIN u = DOMAIN t /\ Len(u) = Len(t)
    /\ \A e \in DOMAIN t : e # d => u[e] = t[e]
    /\ Restated(u[d], t[d]) /\ u[d].status = status /\ u[d].corrected = corrected
    /\ \A i \in DocFields \ {"status", "corrected"} : u[d][i] = t[d][i]

TurnedRecord(x, old, status, corrected) ==
    /\ x = [i \in DocFields |-> x[i]] /\ x.status = status /\ x.corrected = corrected
    /\ \A i \in DocFields \ {"status", "corrected"} : x[i] = old[i]
    /\ status \in {"prepared", "received", "reversed"} /\ corrected \in BOOLEAN

-----------------------------------------------------------------------------
(* The kinds of steps.                                                       *)

Sees(r) ==
    /\ attempt[r].pc = "balances" /\ attempt[r].request \in Requests /\ IsActive(attempt[r])
    /\ UNCHANGED lock /\ Unwritten
    /\ \E seen : /\ attempt' = [attempt EXCEPT ![r].pc = "commit", ![r].seen = seen]
                 /\ seen.balance = [i \in Items |-> BalanceOf(i)] /\ seen.funds = FundsBalance
                 /\ attempt[r].request.op \in {"register", "amend"}
                       => \A i \in DOMAIN attempt[r].request.lines : seen.cost[i] \in Nat

\* An attempt that was sent ends without having written anything.
GivesUp(r) == attempt[r] # Unsent /\ EndsQuietly(r)

\* The actions that write more than an answer.
books == <<stock, custody, docs, prices, lastPrice>>
Writes(r) ==
    \/ Prepare(r) \/ CommitRegistration(r) \/ CommitCount(r) \/ CommitReceipt(r)
    \/ CommitCorrection(r) \/ CommitToggle(r) \/ CommitAmend(r)

\* The actions of a request.
Acts(r) ==
    \/ \E q \in Requests : Submit(r, q)
    \/ Acquire(r) \/ BreakDeadlock(r) \/ Abort(r) \/ Collide(r)
    \/ Prepare(r) \/ StartRegistration(r) \/ StartCount(r) \/ StartAmend(r)
    \/ AnswerReplay(r) \/ ReadReceipt(r) \/ ReadCorrection(r)
    \/ ReadToggle(r) \/ ReadAmend(r) \/ ReadBalances(r)
    \/ CommitRegistration(r) \/ CommitCount(r) \/ CommitReceipt(r)
    \/ CommitCorrection(r) \/ CommitToggle(r) \/ CommitAmend(r)

StepKind(r) ==
    \/ \E q \in Requests : Submit(r, q)
    \/ Acquire(r) \/ GivesUp(r) \/ Sees(r)
    \/ (WritesOnly(r) \/ Commits(r)) /\ (Writes(r) \/ UNCHANGED books)
    \/ \E locks, next, read : TakesLocks(r, locks, next, read)

-----------------------------------------------------------------------------
(* Every step keeps the types.                                               *)

AttemptFields == {"pc", "request", "todo", "next", "read", "seen"}

-----------------------------------------------------------------------------
(* The locks a request holds, and those it will still take.                  *)

HoldsNone(r) == \A k \in Locks : lock[k] # r

\* A lock that the request holds, or is still to take.
Reserved(r, a, k) == lock[k] = r \/ (a.pc = "lock" /\ \E n \in DOMAIN a.todo : a.todo[n] = k)

\* A request that takes its locks in order.
InOrder(r, a) ==
    /\ Ordered(a.todo)
    /\ \A k \in Locks : lock[k] = r => \A n \in DOMAIN a.todo : Precedes(k, a.todo[n])

Guards(r, a) ==
    /\ \A i \in Touched(a.request, a.read) : Reserved(r, a, StockOf(i))
    /\ TouchesFunds(a.request, a.read) => Reserved(r, a, Custody)

\* What r holds while its attempt is a.
HoldsOK(r, a) ==
    /\ a = Unsent \/ a.pc \in Closed \cup {"start"} => HoldsNone(r)
    /\ a.pc = "read" => \A k \in Locks : lock[k] = r => k = Window
    /\ a.pc = "lock" /\ a.next = "read" => a.todo = <<Window>> /\ HoldsNone(r)
    /\ a.pc = "lock" /\ a.next = "balances" /\ a.request.op # "amend" => InOrder(r, a)
    /\ a # Unsent /\ a.pc \notin Closed /\ Past(a) => Guards(r, a)

LocksInv == \A r \in Attempts : HoldsOK(r, attempt[r])

\* What a step of s leaves alone.
LeavesOthers(s) ==
    \A r \in Attempts : r # s =>
        attempt'[r] = attempt[r] /\ \A k \in Locks : (lock'[k] = r) <=> (lock[k] = r)

StockGrows == Grown(stock, stock', StockRows)

\* What is left of a sequence of locks once its head is taken.
Splits(s, k, t) == s \in Seq(Locks) /\ s # <<>> /\ k = Head(s) /\ t = Tail(s)

\* The attempt b after a step that gives a other locks to take.
Becomes(a, b, pc, todo) ==
    /\ b.pc = pc /\ b.todo = todo /\ b.request = a.request /\ b.next = a.next /\ b.read = a.read

Acquires(r, a, k, rest, pc) ==
    /\ a = attempt[r] /\ k = Head(a.todo) /\ rest = Tail(a.todo)
    /\ pc = IF rest = <<>> THEN a.next ELSE "lock"

WaitsFor(r) == Head(attempt[r].todo)

OrdersInv == TypeInv /\ LocksInv

-----------------------------------------------------------------------------
(* The chain of balances of a ledger, and what a posting adds to it.         *)

RowsAt(t, i, n) == {k \in 1 .. n : t[k].item = i}
AfterLast(t, S) == IF S = {} THEN Empty ELSE t[Max(S)].after

\* The balance of item i after the first n rows of t.
BalanceIn(t, i, n) == AfterLast(t, RowsAt(t, i, n))

Continued(row, b) ==
    row.after.qty = b.qty + row.qty /\ row.after.value = b.value + row.value

StockChain(t) == \A n \in 1 .. Len(t) : Continued(t[n], BalanceIn(t, t[n].item, n - 1))

FundsChain(t) ==
    \A n \in 1 .. Len(t) :
        t[n].after = t[n].amount + (IF n = 1 THEN 0 ELSE t[n - 1].after)

\* u is t and the rows after it.
Joins(t, rows, u) ==
    /\ t \in Seq(StockRows) /\ u \in Seq(StockRows)
    /\ Len(t) \in Nat /\ Len(rows) \in Nat /\ Len(u) = Len(t) + Len(rows)
    /\ \A n \in 1 .. Len(t) : u[n] = t[n]
    /\ \A n \in 1 .. Len(rows) : u[Len(t) + n] = rows[n]

\* A ledger with the balances b of the items S, those of the others as before the posting.
Carries(t, b, S) ==
    /\ t \in Seq(StockRows) /\ StockChain(t)
    /\ \A i \in S : b[i] = BalanceIn(t, i, Len(t))
    /\ \A i : i \notin S => BalanceIn(t, i, Len(t)) = BalanceOf(i)

\* A ledger that takes up the rows of a posting, after some of its movements.
Taken(done, S) == Carries(stock \o done.rows, done.balance, S)

-----------------------------------------------------------------------------
(* The custody ledger.                                                       *)

FundsIn(t) == IF t = <<>> THEN 0 ELSE t[Len(t)].after

\* The custody ledger after some movements of a posting.
TakenFunds(rows, seen) ==
    /\ custody \o rows \in Seq(CustodyRows) /\ FundsChain(custody \o rows)
    /\ FundsIn(custody \o rows) = IF rows = <<>> THEN seen ELSE rows[Len(rows)].after

-----------------------------------------------------------------------------
(* Both ledgers are continued by a posting whose balances are current.       *)

ChainsInv == StockChain(stock) /\ FundsChain(custody)

\* What the request has seen of what it will post to is still current.
SeenCurrent(a) ==
    a.pc = "commit" =>
        /\ \A i \in Touched(a.request, a.read) : a.seen.balance[i] = BalanceOf(i)
        /\ TouchesFunds(a.request, a.read) => a.seen.funds = FundsBalance

SeenInv == \A r \in Attempts : SeenCurrent(attempt[r])

-----------------------------------------------------------------------------
(* The window lock, which the requests about a document hold from their      *)
(* reads to their writes.                                                    *)

HasWindow(r, a) ==
    a.pc = "read" \/ (Past(a) /\ a.request.op \in ByDocument) => lock[Window] = r

WindowInv == \A r \in Attempts : HasWindow(r, attempt[r])

-----------------------------------------------------------------------------
(* What the actions that write do to the documents.                          *)

\* The documents that exist already, but for D, stay as they are; X are new.
KeepsBut(D) == \A e \in DOMAIN docs : e \notin D => docs'[e] = docs[e]
NewIds(X) == DOMAIN docs' = DOMAIN docs \cup X /\ \A x \in X : x \notin DOMAIN docs

Appended(x, tag, q, type, status, of, lines, method, fund) ==
    /\ docs'[x].key = Key(tag, q) /\ docs'[x].request = q
    /\ docs'[x].type = type /\ docs'[x].status = status /\ docs'[x].of = of
    /\ docs'[x].lines = lines /\ docs'[x].method = method /\ docs'[x].fund = fund
    /\ docs'[x].corrected = FALSE

\* The rest of a document, by which it is found again.
Refiled(d) == docs'[d].key = docs[d].key /\ docs'[d].request = docs[d].request

Turned(d, status, corrected) ==
    /\ Refiled(d) /\ docs'[d].receipt = docs[d].receipt
    /\ docs'[d].type = docs[d].type /\ docs'[d].of = docs[d].of
    /\ docs'[d].lines = docs[d].lines /\ docs'[d].method = docs[d].method
    /\ docs'[d].fund = docs[d].fund
    /\ docs'[d].status = status /\ docs'[d].corrected = corrected

Received(d, q, method, fund) ==
    /\ Refiled(d) /\ docs'[d].receipt = q
    /\ docs'[d].type = docs[d].type /\ docs'[d].of = docs[d].of
    /\ docs'[d].corrected = docs[d].corrected /\ docs'[d].status = "received"
    /\ docs'[d].lines = q.lines /\ docs'[d].method = method /\ docs'[d].fund = fund

\* The unique index on the keys lets the document in.
Unused(tag, q) == \A d \in DOMAIN docs : docs[d].key # Key(tag, q)

OrderDocs(q) ==
    /\ Unused("document", q) /\ KeepsBut({}) /\ NewIds({Len(docs) + 1})
    /\ Appended(Len(docs) + 1, "document", q, "purchase", "prepared", NoDoc, q.lines, q.method, q.fund)

RegistrationDocs(q) ==
    /\ Unused("document", q) /\ KeepsBut({}) /\ NewIds({Len(docs) + 1}) /\ Len(docs') = Len(docs) + 1
    /\ Appended(Len(docs) + 1, "document", q, q.kind, "received", NoDoc, q.lines, "none", 0)

\* The money a purchase takes from the fund it was given.
FundOf(a) == IF a.method = "custody" THEN a.fund ELSE 0
Offered(lines) == [i \in Items |-> IF i \in DOMAIN lines THEN lines[i].price ELSE lastPrice[i]]

ReceiptDocs(q, a) ==
    /\ KeepsBut({q.doc}) /\ NewIds({}) /\ Received(q.doc, q, a.method, FundOf(a))

CorrectionDocs(q, a) ==
    /\ Unused("document", q) /\ KeepsBut({q.doc}) /\ NewIds({Len(docs) + 1}) /\ Turned(q.doc, "reversed", TRUE)
    /\ Appended(Len(docs) + 1, "document", q, "purchase", "received", NoDoc, q.lines, a.method, FundOf(a))

ToggledTo(q) == IF q.op = "undo" THEN "received" ELSE "reversed"

ToggleDocs(q, a) ==
    /\ Unused("document", q) /\ KeepsBut({q.doc}) /\ NewIds({Len(docs) + 1})
    /\ Turned(q.doc, ToggledTo(q), docs[q.doc].corrected)
    /\ Appended(Len(docs) + 1, "document", q, docs[q.doc].type, "reversed", a.head, <<>>, docs[q.doc].method, 0)

AmendDocs(q, a) ==
    /\ Unused("reversal", q) /\ Unused("replacement", q) /\ KeepsBut({q.doc}) /\ NewIds({Len(docs) + 1, Len(docs) + 2})
    /\ Turned(q.doc, "reversed", TRUE)
    /\ Appended(Len(docs) + 1, "reversal", q, "issue", "reversed", a.head, <<>>, "none", 0)
    /\ Appended(Len(docs) + 2, "replacement", q, "issue", "received", NoDoc, q.lines, "none", 0)

-----------------------------------------------------------------------------
(* What a request about a document found stays true until it writes.         *)

Informed(a) == Past(a) /\ a.request.op \in ByDocument => Standing(a.request)
InformedInv == \A r \in Attempts : Informed(attempt[r])

-----------------------------------------------------------------------------
(* The last price of an item follows the purchases.                          *)

\* The price of the latest purchase of item i that is still received, and that
\* of the last one written.
Offer(i) == IF Priced(i) = {} THEN NoPrice ELSE prices[Latest(Priced(i), prices)].price
LastWritten(i) == prices[Max(Priced(i))].price
PriceFollows(i) == lastPrice[i] = Offer(i) \/ (Priced(i) # {} /\ lastPrice[i] = LastWritten(i))

\* The price history only names the lines of purchases that were received.
Supported(n) ==
    LET d == prices[n].doc
    IN  /\ docs[d].type = "purchase" /\ docs[d].status # "prepared"
        /\ prices[n].item \in DOMAIN docs[d].lines
HistoryInv == \A n \in DOMAIN prices : Supported(n)

PricesInv == HistoryInv /\ LastPriceFollows

\* New prices are those of the lines of document x.
PriceOf(row, x, lines) ==
    row.doc = x /\ row.item \in DOMAIN lines /\ row.price = lines[row.item].price

Extends(x, lines) ==
    /\ DOMAIN prices \subseteq DOMAIN prices'
    /\ \A n \in DOMAIN prices : prices'[n] = prices[n]
    /\ \A n \in DOMAIN prices' : n \notin DOMAIN prices =>
          /\ \A m \in DOMAIN prices : m < n
          /\ PriceOf(prices'[n], x, lines)
    /\ \A i \in DOMAIN lines : \E n \in DOMAIN prices' :
          n \notin DOMAIN prices /\ prices'[n].item = i

\* What a step does to the documents that have prices: those of the items D
\* are read again from the history.
Restates(n, D) ==
    LET d == prices[n].doc
    IN  /\ d \in DOMAIN docs' /\ docs'[d].type = docs[d].type /\ docs'[d].lines = docs[d].lines
        /\ docs'[d].status # "prepared"
        /\ prices[n].item \notin D => docs'[d].status = docs[d].status

Repriced(x, lines, D) ==
    /\ Extends(x, lines)
    /\ DOMAIN lines # {} => /\ docs'[x].type = "purchase" /\ docs'[x].status = "received"
                            /\ docs'[x].lines = lines
    /\ \A n \in DOMAIN prices : Restates(n, D)
    /\ \A i \in Items : lastPrice'[i] = IF i \in D THEN Offer(i)'
                                        ELSE IF i \in DOMAIN lines THEN lines[i].price
                                        ELSE lastPrice[i]

\* A step that leaves the documents of the price history, and the prices.
Leaves(D) == \A e \in DOMAIN docs : e \notin D => e \in DOMAIN docs' /\ docs'[e] = docs[e]

DocumentsInv == TypeInv /\ LocksInv /\ WindowInv /\ InformedInv

-----------------------------------------------------------------------------
(* How the chains of reversals grow.                                         *)

Roots == {d \in DOMAIN docs : docs[d].of = NoDoc}

\* A document is reversed by one document.
Unforked ==
    \A d, e \in DOMAIN docs : docs[d].of # NoDoc /\ docs[d].of = docs[e].of => d = e

\* Among the new documents, x alone reverses one: h, the end of a chain.
OfsMove(h, x) ==
    /\ DOMAIN docs \subseteq DOMAIN docs'
    /\ \A f \in DOMAIN docs : docs'[f].of = docs[f].of
    /\ \A f \in DOMAIN docs' : f \notin DOMAIN docs =>
          docs'[f].of = NoDoc \/ (f = x /\ docs'[f].of = h /\ h # NoDoc)
    /\ h # NoDoc => /\ h \in DOMAIN docs /\ ~Undone(h)
                    /\ x \in DOMAIN docs' /\ x \notin DOMAIN docs /\ docs'[x].of = h

HeadsFollow(h, x) ==
    /\ \A e \in DOMAIN docs : EffectHead(e)' = IF EffectHead(e) = h THEN x ELSE EffectHead(e)
    /\ \A e \in DOMAIN docs' : e \notin DOMAIN docs => EffectHead(e)' = e

-----------------------------------------------------------------------------
(* What rows are worth together: sums over sets of rows.                     *)

Worth(w, S)  == SumFunctionOnSet(w, S)
Weighs(w, S) == IsFiniteSet(S) /\ \A n \in S : w[n] \in Int

Opposite(w, v, S) == \A n \in S : v[n] \in Int /\ v[n] + w[n] = 0

\* Rows worth the opposite of those of S, each at a place of its own.
Opposed(w, v, S, place) ==
    /\ \A n \in S : v[place[n]] \in Int /\ v[place[n]] + w[n] = 0
    /\ \A m, n \in S : place[m] = place[n] => m = n

Places(place, S) == {place[n] : n \in S}

-----------------------------------------------------------------------------
(* Whose rows a posting adds, and what they are worth.                       *)

\* A row reverses an earlier one, or none.
Numbered(rows) ==
    /\ DOMAIN rows = 1 .. Len(rows) /\ Len(rows) \in Nat
    /\ \A n \in DOMAIN rows : rows[n].reverses \in Nat /\ rows[n].reverses < n

OwnersFollow(rows) ==
    \A n \in DOMAIN rows :
        Owners(rows)[n] = IF rows[n].reverses = 0 THEN rows[n].doc
                          ELSE Owners(rows)[rows[n].reverses]

Prolongs(rows, new) ==
    DOMAIN rows \subseteq DOMAIN new /\ \A n \in DOMAIN rows : new[n] = rows[n]

OwnedBy(rows, d) == {n \in DOMAIN rows : Owners(rows)[n] = d}
Effect(rows, w, d) == Worth(w, OwnedBy(rows, d))

Reversing(rows, new) == {n \in DOMAIN new : n \notin DOMAIN rows /\ new[n].reverses # 0}
Fresh(rows, new)     == {n \in DOMAIN new : n \notin DOMAIN rows /\ new[n].reverses = 0}

\* The new rows reverse those of R for the document x, or are worth total and y's.
Posting(rows, new, w, v, R, x, y, total) ==
    /\ Prolongs(rows, new)
    /\ \A n \in DOMAIN rows : v[n] = w[n] /\ w[n] \in Int
    /\ \A n \in DOMAIN new : v[n] \in Int
    /\ R \in SUBSET DOMAIN rows
    /\ \A n \in Reversing(rows, new) : new[n].doc = x /\ new[n].reverses \in R
    /\ \A n \in Fresh(rows, new) : new[n].doc = y
    /\ Worth(v, Reversing(rows, new)) + Worth(w, R) = 0
    /\ Worth(v, Fresh(rows, new)) = total

PostedOwners(rows, new, d, y) ==
    /\ \A n \in DOMAIN rows : Owners(new)[n] = Owners(rows)[n]
    /\ \A n \in Reversing(rows, new) : Owners(new)[n] = d
    /\ \A n \in Fresh(rows, new) : Owners(new)[n] = y

AllOwned(R, rows, d) == \A n \in R : Owners(rows)[n] = d

\* What the posting changes of the effect of a document.
Adjusts(rows, new, w, v, e, reversing, fresh) ==
    Effect(new, v, e) = Effect(rows, w, e)
        + (IF reversing THEN Worth(v, Reversing(rows, new)) ELSE 0)
        + (IF fresh THEN Worth(v, Fresh(rows, new)) ELSE 0)

-----------------------------------------------------------------------------
(* A ledger beside a table of documents D whose chains end at the heads H.   *)

IsRoot(D, e) == e \in DOMAIN D /\ D[e].of = NoDoc

\* The rows that carry an effect, as Owned has them.
HeadRows(D, rows, h) ==
    {n \in DOMAIN rows : rows[n].doc = h /\ (D[h].of # NoDoc \/ rows[n].reverses = 0)}

Carried(D, H, rows, w, e) == Worth(w, HeadRows(D, rows, H[e]))

HeadsGood(D, H) ==
    /\ DOMAIN D = 1 .. Len(D) /\ Len(D) \in Nat
    /\ \A e : IsRoot(D, e) =>
          /\ H[e] \in DOMAIN D
          /\ H[e] = e \/ D[H[e]].of # NoDoc
          /\ D[e].status = "prepared" => H[e] = e
          /\ D[e].type # "purchase" => D[e].method = "none"
          /\ \A f : IsRoot(D, f) /\ H[f] = H[e] => f = e

RowsGood(D, H, rows) ==
    /\ Numbered(rows)
    /\ \A n \in DOMAIN rows : rows[n].doc \in 0 .. Len(D) /\ Owners(rows)[n] \in 0 .. Len(D)
    /\ \A e : IsRoot(D, e) => AllOwned(HeadRows(D, rows, H[e]), rows, e)

\* A step changes the document d, moves the head h to the new document x when
\* h is not NoDoc, and adds the root y.
Change(D, E, H, K, d, h, x, y) ==
    /\ DOMAIN E = 1 .. Len(E) /\ Len(E) \in Nat /\ DOMAIN D \subseteq DOMAIN E
    /\ d = NoDoc \/ IsRoot(D, d)
    /\ \A e \in DOMAIN D : E[e].of = D[e].of /\ (e # d => E[e] = D[e])
    /\ \A e \in DOMAIN D : K[e] = IF H[e] = h THEN x ELSE H[e]
    /\ \A e \in DOMAIN E : e \notin DOMAIN D => K[e] = e /\ e \in {x, y}
    /\ IF h = NoDoc THEN x \in {NoDoc, y}
       ELSE /\ d # NoDoc /\ h = H[d]
            /\ x \in DOMAIN E /\ x \notin DOMAIN D /\ x # y /\ E[x].of # NoDoc
    /\ y # NoDoc => IsRoot(E, y) /\ (y \in DOMAIN D => y = d /\ h = NoDoc /\ H[y] = y)

\* The figures of a root that the step does not concern, of the one it turns,
\* of the one it adds and of the one it receives.
Same(D, E, H, K, rows, new, w, v, e) ==
    /\ Effect(new, v, e) = Effect(rows, w, e)
    /\ Carried(E, K, new, v, e) = Carried(D, H, rows, w, e)
TurnedBy(D, E, H, K, rows, new, w, v, e, moves) ==
    LET r == Worth(v, Reversing(rows, new))
    IN  /\ Effect(new, v, e) = Effect(rows, w, e) + r
        /\ Carried(E, K, new, v, e) = IF moves THEN r ELSE Carried(D, H, rows, w, e)
AddedWith(E, K, new, v, e, total) ==
    Effect(new, v, e) = total /\ Carried(E, K, new, v, e) = total
RaisedBy(D, E, H, K, rows, new, w, v, e, total) ==
    /\ Effect(new, v, e) = Effect(rows, w, e) + total
    /\ Carried(E, K, new, v, e) = Carried(D, H, rows, w, e) + total

Figures(D, E, H, K, rows, new, w, v, d, h, y, total) ==
    /\ \A e : IsRoot(D, e) /\ e # d => Same(D, E, H, K, rows, new, w, v, e)
    /\ IsRoot(D, d) /\ d # y => TurnedBy(D, E, H, K, rows, new, w, v, d, h # NoDoc)
    /\ y # NoDoc /\ y \notin DOMAIN D => AddedWith(E, K, new, v, y, total)
    /\ IsRoot(D, y) /\ y = d /\ Worth(v, Reversing(rows, new)) = 0
          => RaisedBy(D, E, H, K, rows, new, w, v, y, total)

\* A ledger before and after a step.
Stepped(D, E, H, K, d, h, rows, new, w, v, R, x, y, total) ==
    /\ HeadsGood(D, H) /\ RowsGood(D, H, rows) /\ Change(D, E, H, K, d, h, x, y)
    /\ Numbered(new) /\ Posting(rows, new, w, v, R, x, y, total)
    /\ AllOwned(R, rows, d)

\* The effect a document has, by its status, and what carries it.
Settled(D, H, rows, w) ==
    \A e : IsRoot(D, e) =>
        /\ D[e].status = "received" => Effect(rows, w, e) = Carried(D, H, rows, w, e)
        /\ D[e].status # "received" => Effect(rows, w, e) = 0
        /\ D[e].status = "prepared" => Carried(D, H, rows, w, e) = 0

\* What carries it is worth what the document says, or takes just that back.
Exact(D, H, rows, w, t) ==
    \A e : IsRoot(D, e) =>
        /\ D[e].status = "received" => Carried(D, H, rows, w, e) = t[e]
        /\ D[e].status = "reversed" /\ ~D[e].corrected => Carried(D, H, rows, w, e) + t[e] = 0

\* How a step turns d: its effect is taken back, given again, or comes up.
Turns(D, E, H, d, h, rows, w, R, y) ==
    \/ d = NoDoc
    \/ /\ d # y /\ D[d].status = "received" /\ E[d].status = "reversed"
       /\ \/ R = HeadRows(D, rows, H[d]) /\ (h # NoDoc \/ E[d].corrected)
          \/ R = {} /\ Carried(D, H, rows, w, d) = 0 /\ E[d].corrected
    \/ /\ d # y /\ D[d].status = "reversed" /\ ~D[d].corrected /\ E[d].status = "received"
       /\ R = HeadRows(D, rows, H[d]) /\ h # NoDoc
    \/ d = y /\ D[d].status = "prepared" /\ E[d].status = "received" /\ R = {}

Starts(E, y, total) ==
    y # NoDoc => /\ E[y].status \in {"prepared", "received"}
                 /\ E[y].status = "prepared" => total = 0

\* What a document says: only y says something else than before.
Says(D, E, y, t, u, total) ==
    /\ \A e \in DOMAIN D : e # y => u[e] = t[e] /\ t[e] \in Int
    /\ y # NoDoc /\ E[y].status = "received" => u[y] = total

\* What a step may make of the documents themselves.
Sound(D, E, d, y) ==
    /\ d # NoDoc => /\ E[d].status # "prepared" /\ E[d].type = D[d].type
                    /\ E[d].type = "purchase" \/ E[d].method = D[d].method
    /\ y # NoDoc /\ y # d => E[y].type = "purchase" \/ E[y].method = "none"

-----------------------------------------------------------------------------
(* A posting row by row: which entry of a list each new row is for.          *)

\* New rows for the n entries of ms: the row p is for the entry src[p]; for an
\* entry that reverses a row there is one, main[k].
Added(rows, new, ms, n, src, main) ==
    /\ Prolongs(rows, new)
    /\ \A p \in DOMAIN new : p \notin DOMAIN rows =>
          /\ src[p] \in 1 .. n
          /\ new[p].doc = ms[src[p]].doc /\ new[p].reverses = ms[src[p]].reverses
          /\ new[p].reverses # 0 => p = main[src[p]]
    /\ \A k \in 1 .. n : ms[k].reverses # 0 =>
          main[k] \in DOMAIN new /\ main[k] \notin DOMAIN rows /\ src[main[k]] = k

\* The entries reverse the rows of R for the document x, or belong to y.
Backs(ms, n, R, x, y) ==
    /\ \A k \in 1 .. n : IF ms[k].reverses = 0 THEN ms[k].doc = y
                         ELSE ms[k].doc = x /\ ms[k].reverses \in R
    /\ \A m \in R : \E k \in 1 .. n : ms[k].reverses = m

\* The weights before and after, a row being worth the opposite of what it reverses.
Weighed(rows, new, w, v) ==
    /\ \A n \in DOMAIN rows : v[n] = w[n] /\ w[n] \in Int
    /\ \A n \in DOMAIN new : v[n] \in Int
    /\ \A n \in Reversing(rows, new) : v[n] + w[new[n].reverses] = 0

Once(ms, n) ==
    \A j, k \in 1 .. n : ms[j].reverses = ms[k].reverses /\ ms[j].reverses # 0 => j = k

\* The rows of the stock's movements: the row main[k] is the movement itself,
\* another one is of a count, or the revaluation before a receipt.
FromMove(row, m) == row.item = m.item /\ row.doc = m.doc /\ row.reverses = m.reverses
Aside(row, m) == m.kind = "stocktake" \/ (m.kind = "receipt" /\ row.qty = 0)

Traced(rows, new, ms, n, src, main) ==
    /\ Prolongs(rows, new)
    /\ \A p \in DOMAIN new : p \notin DOMAIN rows =>
          /\ src[p] \in 1 .. n /\ FromMove(new[p], ms[src[p]])
          /\ p = main[src[p]] \/ Aside(new[p], ms[src[p]])
    /\ \A k \in 1 .. n : ms[k].kind # "stocktake" =>
          /\ main[k] \in DOMAIN new /\ main[k] \notin DOMAIN rows /\ src[main[k]] = k
          /\ Adds(new[main[k]], ms[k])

LastAdds(more, m) ==
    /\ Len(more) \in Nat
    /\ \A j \in 1 .. Len(more) : /\ FromMove(more[j], m)
                                 /\ j = Len(more) \/ Aside(more[j], m)
    /\ m.kind # "stocktake" => Len(more) # 0 /\ Adds(more[Len(more)], m)

QtyIn(t, i)   == [n \in DOMAIN t |-> IF t[n].item = i THEN t[n].qty ELSE 0]
ValueIn(t, i) == [n \in DOMAIN t |-> IF t[n].item = i THEN t[n].value ELSE 0]
AmountIn(t)   == [n \in DOMAIN t |-> t[n].amount]

Counted(rows, new, w, v, R, x, y) == Posting(rows, new, w, v, R, x, y, Worth(v, Fresh(rows, new)))
StockCounted(rows, new, R, x, y) ==
    \A i : /\ Counted(rows, new, QtyIn(rows, i), QtyIn(new, i), R, x, y)
           /\ Counted(rows, new, ValueIn(rows, i), ValueIn(new, i), R, x, y)

\* A reversal is of the item of the row it reverses.
InPlace(ms, n) ==
    \A k \in 1 .. n : ms[k].reverses # 0 => ms[k].item = stock[ms[k].reverses].item

\* The other movements are one of each item of the lines.
Bears(ms, n, lines, kind) ==
    /\ kind \in {"receipt", "issue", "cancellation"}
    /\ \A k \in 1 .. n : ms[k].reverses = 0 =>
          /\ ms[k].kind = kind /\ ms[k].item \in DOMAIN lines
          /\ ms[k].qty = lines[ms[k].item].qty /\ ms[k].qty \in Nat
    /\ \A i \in DOMAIN lines : \E k \in 1 .. n : ms[k].reverses = 0 /\ ms[k].item = i
    /\ \A j, k \in 1 .. n :
          ms[j].reverses = 0 /\ ms[k].reverses = 0 /\ ms[j].item = ms[k].item => j = k

Shipped(lines, kind, i) ==
    IF i \notin DOMAIN lines THEN 0
    ELSE IF kind = "receipt" THEN lines[i].qty ELSE -lines[i].qty
Ships(rows, new, lines, kind) ==
    \A i \in Items : Worth(QtyIn(new, i), Fresh(rows, new)) = Shipped(lines, kind, i)

\* The rows of a custody posting are its movements, one by one.
FundRow(row, f) == row.amount = f.amount /\ row.doc = f.doc /\ row.reverses = f.reverses
FundRows(t, fs, n) == Len(t) = n /\ \A k \in 1 .. n : FundRow(t[k], fs[k])

\* The movements that reverse a row take its amount back; the others are the
\* last ones, two at most, and come to total.
TakesBack(fs, n) ==
    \A k \in 1 .. n : fs[k].reverses # 0 => fs[k].amount + custody[fs[k].reverses].amount = 0
ReverseBut(fs, n, S) == \A k \in 1 .. n : (fs[k].reverses = 0) <=> k \in S
Bills(fs, n, total) ==
    \/ ReverseBut(fs, n, {}) /\ total = 0
    \/ n # 0 /\ ReverseBut(fs, n, {n}) /\ total = fs[n].amount
    \/ /\ n # 0 /\ n - 1 # 0 /\ ReverseBut(fs, n, {n - 1, n})
       /\ total = fs[n - 1].amount + fs[n].amount

FreshIs(t, new, fs, n) ==
    \A p : p \in Fresh(t, new) <=> \E k \in 1 .. n : p = Len(t) + k /\ fs[k].reverses = 0
AmountsAre(t, new, fs, n) == \A k \in 1 .. n : AmountIn(new)[Len(t) + k] = fs[k].amount

-----------------------------------------------------------------------------
(* The lists the operations post: those that take rows back, and the rest.   *)

TakesAllBack(ms, n, R, x) ==
    /\ \A k \in 1 .. n : ms[k].doc = x /\ ms[k].reverses \in R /\ ms[k].reverses # 0
    /\ \A m \in R : \E k \in 1 .. n : ms[k].reverses = m
Onward(ms, n, y) == \A k \in 1 .. n : ms[k].doc = y /\ ms[k].reverses = 0

\* u is s, of length m, followed by t, of length n.
Follows(u, s, m, t, n) ==
    /\ \A k \in 1 .. m : u[k] = s[k] /\ k \in 1 .. m + n
    /\ \A k \in 1 .. n : u[m + k] = t[k] /\ m + k \in 1 .. m + n /\ m + k \notin 1 .. m
    /\ \A k \in 1 .. m + n : k \in 1 .. m \/ \E j \in 1 .. n : k = m + j

\* What a list of lines becomes, one movement for each.
Lined(ms, c, lines, d, kind) ==
    \E up : /\ Lists(up, DOMAIN lines) /\ DOMAIN up = 1 .. c
            /\ \A k \in 1 .. c : /\ ms[k].doc = d /\ ms[k].reverses = 0 /\ ms[k].kind = kind
                                 /\ ms[k].item = up[k] /\ ms[k].qty = lines[up[k]].qty

\* The custody movements of a purchase come to its bill.
Bill(method, fund, lines) == IF method # "custody" THEN 0 ELSE fund - Amount(lines)
Billed(fs, n, d, total, c) == FundsOver(fs, n, c) /\ Onward(fs, n, d) /\ Bills(fs, n, total)

-----------------------------------------------------------------------------
(* Both ledgers and the documents together.                                  *)

\* What a document says it moves of an item, and of the custody.
MovesIn(D, i) ==
    [e \in DOMAIN D |-> IF i \notin DOMAIN D[e].lines THEN 0
                        ELSE IF D[e].type = "purchase" THEN D[e].lines[i].qty
                        ELSE -D[e].lines[i].qty]
SpendsIn(D) ==
    [e \in DOMAIN D |-> IF D[e].of # NoDoc THEN 0 ELSE Bill(D[e].method, D[e].fund, D[e].lines)]

\* The lines have their types, and those of a purchase their prices.
LinesGood(D) ==
    \A e \in DOMAIN D : /\ IsLines(D[e].lines, Bought) \/ IsLines(D[e].lines, Used)
                        /\ D[e].fund \in Nat
                        /\ D[e].of = NoDoc /\ D[e].type = "purchase" => IsLines(D[e].lines, Bought)

BooksGood(D, H, s, c) ==
    /\ HeadsGood(D, H) /\ LinesGood(D) /\ RowsGood(D, H, s) /\ RowsGood(D, H, c)
    /\ \A i \in Items : /\ Settled(D, H, s, QtyIn(s, i)) /\ Settled(D, H, s, ValueIn(s, i))
                        /\ Exact(D, H, s, QtyIn(s, i), MovesIn(D, i))
    /\ Settled(D, H, c, AmountIn(c)) /\ Exact(D, H, c, AmountIn(c), SpendsIn(D))

\* The way the changed document goes, and the rows that are taken back for it.
Course(D, E, d, h, y) ==
    \/ d = NoDoc
    \/ /\ d # y /\ D[d].status = "received" /\ E[d].status = "reversed"
       /\ h # NoDoc \/ E[d].corrected
    \/ /\ d # y /\ D[d].status = "reversed" /\ ~D[d].corrected /\ E[d].status = "received"
       /\ h # NoDoc
    \/ d = y /\ D[d].status = "prepared" /\ E[d].status = "received"
Takes(D, H, d, rows, R, y) == IF d \in {NoDoc, y} THEN R = {} ELSE R = HeadRows(D, rows, H[d])
Spared(D, E, d, R, y) ==
    /\ R = {} /\ d # NoDoc /\ d # y /\ D[d].method # "custody"
    /\ D[d].status = "received" /\ E[d].status = "reversed" /\ E[d].corrected

Steady(D, E, y) ==
    \A e \in DOMAIN D : e # y => /\ E[e].lines = D[e].lines /\ E[e].type = D[e].type
                                 /\ E[e].method = D[e].method /\ E[e].fund = D[e].fund
                                 /\ E[e].of = D[e].of
Begins(E, y, s, t, c, u) ==
    y # NoDoc =>
        /\ E[y].status \in {"prepared", "received"}
        /\ E[y].status = "prepared" => Fresh(s, t) = {} /\ Fresh(c, u) = {}
        /\ E[y].status = "received" =>
              /\ \A i \in Items : MovesIn(E, i)[y] = Worth(QtyIn(t, i), Fresh(s, t))
              /\ SpendsIn(E)[y] = Worth(AmountIn(u), Fresh(c, u))

BooksStep(D, E, H, K, d, h, x, y, s, t, R, c, u, Q) ==
    /\ Change(D, E, H, K, d, h, x, y) /\ Sound(D, E, d, y) /\ Steady(D, E, y) /\ LinesGood(E)
    /\ Course(D, E, d, h, y) /\ Begins(E, y, s, t, c, u)
    /\ Numbered(t) /\ StockCounted(s, t, R, x, y) /\ Takes(D, H, d, s, R, y)
    /\ Numbered(u) /\ Counted(c, u, AmountIn(c), AmountIn(u), Q, x, y)
    /\ Takes(D, H, d, c, Q, y) \/ Spared(D, E, d, Q, y)

-----------------------------------------------------------------------------
(* The lists as they are posted.                                             *)

Entries(ms, n, R, x, y)     == MoveList(ms, n) /\ InPlace(ms, n) /\ Backs(ms, n, R, x, y)
FundEntries(fs, k, Q, x, y) == FundList(fs, k) /\ TakesBack(fs, k) /\ Backs(fs, k, Q, x, y)

\* What both ledgers hold after a posting.
Posts2(R, Q, x, y) ==
    /\ Numbered(stock') /\ StockCounted(stock, stock', R, x, y)
    /\ Numbered(custody')
    /\ Counted(custody, custody', AmountIn(custody), AmountIn(custody'), Q, x, y)
Shipment(lines, kind, total) ==
    /\ Ships(stock, stock', lines, kind)
    /\ Worth(AmountIn(custody'), Fresh(custody, custody')) = total

-----------------------------------------------------------------------------
(* The invariant behind the effects, and a step that changes it.             *)

Heads     == [d \in DOMAIN docs |-> EffectHead(d)]
EffectInv == Unforked /\ BooksGood(docs, Heads, stock, custody)

\* The head of d passes to x when h is one, and documents x and y are new or,
\* in the case of y, received for the first time.
Alters(d, h, x, y) ==
    /\ h \in Nat /\ OfsMove(h, x) /\ (d = NoDoc \/ IsRoot(docs, d)) /\ KeepsBut({d})
    /\ \A f \in DOMAIN docs' : f \notin DOMAIN docs => f \in {x, y}
    /\ IF h = NoDoc THEN x \in {NoDoc, y} ELSE d # NoDoc /\ h = EffectHead(d) /\ x # y
    /\ y # NoDoc => /\ y \in DOMAIN docs' /\ docs'[y].of = NoDoc
                    /\ y \in DOMAIN docs => y = d /\ h = NoDoc /\ EffectHead(y) = y

\* What the documents are then.
Outcome(d, y, status) ==
    /\ d # NoDoc /\ d # y => \E corrected : Turned(d, status, corrected) /\ status # "prepared"
    /\ d # NoDoc /\ d = y => /\ docs'[d].type = docs[d].type /\ docs'[d].type = "purchase"
                             /\ docs'[d].status = "received"
    /\ y # NoDoc => \/ docs'[y].type = "purchase" /\ IsLines(docs'[y].lines, Bought)
                    \/ docs'[y].type # "purchase" /\ docs'[y].method = "none"

\* A step of the documents and of both ledgers.
Rows2(d, y, R, Q) ==
    /\ Takes(docs, Heads, d, stock, R, y)
    /\ Takes(docs, Heads, d, custody, Q, y) \/ Spared(docs, docs', d, Q, y)
Whole(y) == Begins(docs', y, stock, stock', custody, custody')

-----------------------------------------------------------------------------
(* The effects after the writes of each operation.                           *)

\* A document that is received with its lines says what was posted.
KindOf(type, kind) == kind = "receipt" <=> type = "purchase"

\* The documents and the ledgers only gain: document y and rows of it, or, where
\* y is NoDoc, rows of none.
Gains(y) ==
    /\ Alters(NoDoc, NoDoc, y, y) /\ Posts2({}, {}, y, y)
    /\ Outcome(NoDoc, y, "received") /\ Whole(y)

\* What a request about a document has read when it writes.
Knows(q, a, d) ==
    /\ d \in DOMAIN docs /\ IsRoot(docs, d) /\ d = q.doc /\ d # NoDoc /\ ReadOK(a)
    /\ EffectHead(d) \in DOMAIN docs /\ EffectHead(d) # NoDoc /\ EffectHead(d) \in Nat
    /\ ~Undone(EffectHead(d))
    /\ a.rows = HeadRows(docs, stock, Heads[d]) /\ a.rows \in SUBSET DOMAIN stock
    /\ a.owed \in SUBSET DOMAIN custody
    /\ q.op # "amend" => a.owed = HeadRows(docs, custody, Heads[d])
    /\ q.op # "correct" => a.head = EffectHead(d)

-----------------------------------------------------------------------------
(* What a request has read of the effect of its document stays true until it *)
(* writes.                                                                   *)

Sure(a) ==
    Past(a) /\ a.request.op \in ByDocument
        => HeadRead(a.request, a.read, EffectHead(a.request.doc))
SureInv == \A r \in Attempts : Sure(attempt[r])

\* A step that only adds leaves the head of every document, and its rows.
HeadStays(d) ==
    /\ EffectHead(d)' = EffectHead(d)
    /\ Owned(stock, EffectHead(d))' = Owned(stock, EffectHead(d))
    /\ Owned(custody, EffectHead(d))' = Owned(custody, EffectHead(d))

\* A step only adds, or writes what a request about a document asks for.
Rewrites(r) == CommitReceipt(r) \/ CommitCorrection(r) \/ CommitToggle(r) \/ CommitAmend(r)

EffectsInv == DocumentsInv /\ EffectInv /\ SureInv

-----------------------------------------------------------------------------
(* What a request that was carried out is recognised by when it comes again. *)

Filed(q)    == \E d \in DOMAIN docs : docs[d].key = Key("document", q) /\ docs[d].request = q
Accepted(q) ==
    IsPurchase(q.doc) /\ docs[q.doc].status # "prepared" /\ docs[q.doc].receipt = q
CarriedOut(q) ==
    /\ q.op \in {"order", "correct", "reverse", "undo"} => Filed(q)
    /\ q.op = "receive" => Accepted(q)

KeysInv    == \A d, e \in DOMAIN docs : docs[d].key = docs[e].key => d = e
RepliesInv ==
    \A p \in replies :
        /\ CarriedOut(p.request)
        /\ p.key.tag = "receive" => p.request.op \in {"receive", "correct"}
                                    /\ p.key = Key("receive", p.request)
DoneInv    == \A r \in Attempts : attempt[r].pc = "done" => CarriedOut(attempt[r].request)
RetryInv   == DocumentsInv /\ KeysInv /\ RepliesInv /\ DoneInv

\* A document keeps what it is recognised by.
Remains(d) ==
    /\ d \in DOMAIN docs' /\ Refiled(d)
    /\ docs'[d].type = docs[d].type /\ docs'[d].of = docs[d].of
    /\ docs[d].status # "prepared"
          => docs'[d].status # "prepared" /\ docs'[d].receipt = docs[d].receipt

Ends(r, pc) == \E reply : Ended(r, pc, reply)
Excused(q)  == q.op = "receive" /\ ReplyTo(Key("receive", q)) = {}
               /\ docs[q.doc].status # "received"

\* How a step treats the request q of r.
Treats(r, q) ==
    \/ Ends(r, "done") /\ CarriedOut(q)'
    \/ Ends(r, "failed")
    \/ /\ Ends(r, "refused")
       /\ attempt[r].pc = "read" /\ q.op # "amend" /\ CarriedOut(q) => Excused(q)
    \/ attempt'[r].pc \in {"start", "lock", "read", "balances", "commit"}

=============================================================================
