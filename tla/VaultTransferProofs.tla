------------------------ MODULE VaultTransferProofs ------------------------
(***************************************************************************)
(* Proofs about the transfer requests and the fiscal calendar they are     *)
(* checked against, for any number of requests, clients, vaults, clerks,   *)
(* days, rows and, unless said otherwise, administrators.                  *)
(***************************************************************************)
EXTENDS VaultTransfer, LedgerProofs

-----------------------------------------------------------------------------
(* The fiscal calendar.                                                    *)

\* A status write aims at a stored row that is not locked: the read found it
\* so, and no step removes a row or locks it.
TargetsUnlocked ==
    \A a \in Admins : admin[a].pc \in {"closing", "reopening"} =>
        admin[a].id \in Stored /\ periods[admin[a].id].status # "locked"

\* The unique index on (companyId, startDate).
StartsUnique ==
    \A p, q \in Stored : periods[p].first = periods[q].first => p = q

PeriodInv == PeriodTypeOK /\ TargetsUnlocked /\ StartsUnique

-----------------------------------------------------------------------------
(* The inductive invariant.                                                *)

LEMMA PeriodInitInv == PeriodInit => PeriodInv
  BY DaysAssumption
  DEF PeriodInit, PeriodInv, PeriodTypeOK, TargetsUnlocked, StartsUnique,
      Stored, Rows, NoRow, Idle, Writes

\* A status write changes one stored row, in its status only.
LEMMA StatusWriteEffect ==
    ASSUME PeriodInv, NEW a \in Admins, StatusWrite(a)
    PROVE  /\ periods' \in [PeriodIds -> Rows \cup {NoRow}]
           /\ Stored' = Stored
           /\ \A p \in Stored : /\ periods'[p].first = periods[p].first
                                /\ periods'[p].last = periods[p].last
                                /\ periods[p].status = "locked" => periods'[p] = periods[p]
                                /\ periods'[p].status = "locked" => periods[p].status = "locked"
<1> DEFINE id == admin[a].id
<1>1. id \in Stored /\ id \in PeriodIds /\ periods[id] \in Rows /\ periods[id].status # "locked"
  BY DEF PeriodInv, PeriodTypeOK, TargetsUnlocked, StatusWrite, Stored
<1>2. PICK s \in {"open", "closed"} : periods' = [periods EXCEPT ![id].status = s]
  BY DEF StatusWrite
<1>3. /\ periods'[id] \in Rows
      /\ periods'[id].status = s
      /\ periods'[id].first = periods[id].first
      /\ periods'[id].last = periods[id].last
      /\ periods'[id] # NoRow
  BY <1>1, <1>2 DEF PeriodInv, PeriodTypeOK, Rows, NoRow
<1>4. \A p \in PeriodIds \ {id} : periods'[p] = periods[p]
  BY <1>1, <1>2 DEF PeriodInv, PeriodTypeOK
<1>5. periods' \in [PeriodIds -> Rows \cup {NoRow}]
  BY <1>1, <1>2, <1>3 DEF PeriodInv, PeriodTypeOK
<1> HIDE DEF id
<1> QED
  BY <1>1, <1>3, <1>4, <1>5 DEF Stored

\* An insert adds one row, under a start day no other row has, or nothing.
LEMMA CreateWriteEffect ==
    ASSUME PeriodInv, NEW a \in Admins, CreateWrite(a)
    PROVE  \/ UNCHANGED periods
           \/ \E p \in PeriodIds \ Stored, row \in Rows :
                 /\ periods' = [periods EXCEPT ![p] = row]
                 /\ row.status = "open"
                 /\ row.first = admin[a].first /\ row.last = admin[a].last
                 /\ \A q \in Stored : periods[q].first # row.first
  BY DEF PeriodInv, PeriodTypeOK, CreateWrite, Rows, Writes, Idle

LEMMA PeriodNextInv == PeriodInv /\ [PeriodNext]_periodVars => PeriodInv'
<1> SUFFICES ASSUME PeriodInv, [PeriodNext]_periodVars
             PROVE  PeriodInv'
  OBVIOUS
<1>1. ASSUME NEW a \in Admins, NEW first \in Days, NEW last \in Days,
             CreateCheck(a, first, last)
      PROVE  PeriodInv'
  BY <1>1 DEF CreateCheck, PeriodInv, PeriodTypeOK, TargetsUnlocked, StartsUnique,
              Stored, Writes, Idle
<1>2. ASSUME NEW a \in Admins, CreateWrite(a)
      PROVE  PeriodInv'
  <2>1. admin' \in [Admins -> Writes \cup {Idle}]
        /\ \A b \in Admins : admin'[b] = admin[b] \/ admin'[b] = Idle
    BY <1>2 DEF CreateWrite, PeriodInv, PeriodTypeOK
  <2>2. CASE UNCHANGED periods
    BY <2>1, <2>2 DEF PeriodInv, PeriodTypeOK, TargetsUnlocked, StartsUnique, Stored, Idle
  <2>3. CASE ~UNCHANGED periods
    <3>1. PICK p \in PeriodIds \ Stored, row \in Rows :
              /\ periods' = [periods EXCEPT ![p] = row]
              /\ row.status = "open"
              /\ \A q \in Stored : periods[q].first # row.first
      BY <1>2, <2>3, CreateWriteEffect
    <3>2. row # NoRow /\ Stored' = Stored \cup {p}
      BY <3>1 DEF Stored, PeriodInv, PeriodTypeOK, Rows, NoRow
    <3>3. PeriodTypeOK'
      BY <2>1, <3>1 DEF PeriodInv, PeriodTypeOK
    <3>4. TargetsUnlocked'
      BY <2>1, <3>1, <3>2 DEF PeriodInv, PeriodTypeOK, TargetsUnlocked, Idle, Stored
    <3>5. StartsUnique'
      BY <3>1, <3>2 DEF PeriodInv, PeriodTypeOK, StartsUnique, Stored
    <3> QED
      BY <3>3, <3>4, <3>5 DEF PeriodInv
  <2> QED
    BY <2>2, <2>3
<1>3. ASSUME NEW a \in Admins, NEW p \in PeriodIds, CloseRead(a, p) \/ ReopenRead(a, p)
      PROVE  PeriodInv'
  BY <1>3 DEF CloseRead, ReopenRead, PeriodInv, PeriodTypeOK, TargetsUnlocked,
              StartsUnique, Stored, Rows, NoRow, Writes, Idle
<1>4. ASSUME NEW a \in Admins, StatusWrite(a)
      PROVE  PeriodInv'
  <2>1. admin' \in [Admins -> Writes \cup {Idle}]
        /\ \A b \in Admins : admin'[b] = admin[b] \/ admin'[b] = Idle
    BY <1>4 DEF StatusWrite, PeriodInv, PeriodTypeOK
  <2> QED
    BY <1>4, <2>1, StatusWriteEffect
    DEF PeriodInv, PeriodTypeOK, TargetsUnlocked, StartsUnique, Idle
<1>5. CASE UNCHANGED periodVars
  BY <1>5 DEF periodVars, PeriodInv, PeriodTypeOK, TargetsUnlocked, StartsUnique, Stored
<1> QED
  BY <1>1, <1>2, <1>3, <1>4, <1>5 DEF PeriodNext

LEMMA PeriodInvAlways == PeriodSpec => []PeriodInv
  BY PeriodInitInv, PeriodNextInv, PTL DEF PeriodSpec

-----------------------------------------------------------------------------
(* The theorems.                                                           *)

\* The table and the requests keep their types (fiscal-period.service.ts).
THEOREM PeriodTypesHold == PeriodSpec => []PeriodTypeOK
<1>1. PeriodInv => PeriodTypeOK
  BY DEF PeriodInv
<1> QED
  BY <1>1, PeriodInvAlways, PTL

\* Whatever the administrators interleave, one period at most decides
\* whether a day is open (the first row assertPeriodOpenForDate finds).
THEOREM OneGovernorHolds == PeriodSpec => []OneGovernor
<1>1. ASSUME PeriodInv PROVE OneGovernor
  <2> SUFFICES ASSUME NEW d \in Days, NEW p \in PeriodIds, NEW q \in PeriodIds,
                      Governs(p, d), Governs(q, d)
               PROVE  p = q
    BY DEF OneGovernor
  <2>1. p \in Stored /\ q \in Stored
    BY DEF Governs
  <2>2. periods[p].first \in Nat /\ periods[q].first \in Nat
    BY <1>1, <2>1, DaysAssumption DEF PeriodInv, PeriodTypeOK, Stored, Rows
  <2>3. periods[p].first <= periods[q].first /\ periods[q].first <= periods[p].first
    BY DEF Governs
  <2>4. periods[p].first = periods[q].first
    BY <2>2, <2>3
  <2> QED
    BY <1>1, <2>1, <2>4 DEF PeriodInv, StartsUnique
<1> QED
  BY <1>1, PeriodInvAlways, PTL

\* Locked periods are never moved, and no request changes a period's dates
\* or removes it (closePeriod, reopenPeriod).
THEOREM LockedAndDatesHold == PeriodSpec => LockedAndDatesStay
<1> DEFINE Kept ==
      \A p \in Stored :
          /\ periods[p].status = "locked" => periods'[p] = periods[p]
          /\ periods'[p].first = periods[p].first
          /\ periods'[p].last = periods[p].last
<1>1. ASSUME PeriodInv, [PeriodNext]_periodVars PROVE [Kept]_periodVars
  <2>1. ASSUME NEW a \in Admins, CreateWrite(a) PROVE Kept
    <3>1. CASE UNCHANGED periods
      BY <3>1
    <3>2. CASE \E p \in PeriodIds \ Stored, row \in Rows :
                   periods' = [periods EXCEPT ![p] = row]
      <4>1. PICK p \in PeriodIds \ Stored, row \in Rows :
                periods' = [periods EXCEPT ![p] = row]
        BY <3>2
      <4>2. \A q \in Stored : periods'[q] = periods[q]
        BY <1>1, <4>1 DEF PeriodInv, PeriodTypeOK, Stored
      <4> QED
        BY <4>2
    <3> QED
      BY <1>1, <2>1, <3>1, <3>2, CreateWriteEffect
  <2>2. ASSUME NEW a \in Admins, StatusWrite(a) PROVE Kept
    BY <1>1, <2>2, StatusWriteEffect
  <2>3. ASSUME UNCHANGED periods PROVE Kept
    BY <2>3
  <2> QED
    BY <1>1, <2>1, <2>2, <2>3
    DEF PeriodNext, periodVars, CreateCheck, CloseRead, ReopenRead
<1> QED
  BY <1>1, PeriodInvAlways, PTL DEF PeriodSpec, LockedAndDatesStay

-----------------------------------------------------------------------------
(* One administrator at a time.                                            *)

\* What the check of a pending insert established is still true.
PendingFits ==
    \A a \in Admins : admin[a].pc = "creating" =>
        \A p \in Stored : ~Overlap(periods[p], admin[a].first, admin[a].last)

LEMMA SequentialNext ==
    ASSUME OneAtATime, OneAtATime', PeriodInv, NoOverlap, PendingFits,
           [PeriodNext]_periodVars
    PROVE  NoOverlap' /\ PendingFits'
<1>1. ASSUME NEW a \in Admins, NEW first \in Days, NEW last \in Days,
             CreateCheck(a, first, last)
      PROVE  NoOverlap' /\ PendingFits'
  BY <1>1 DEF CreateCheck, PeriodInv, PeriodTypeOK, NoOverlap, PendingFits,
              Stored, Overlap
<1>2. ASSUME NEW a \in Admins, CreateWrite(a)
      PROVE  NoOverlap' /\ PendingFits'
  <2>1. PendingFits'
    BY <1>2 DEF CreateWrite, PendingFits, OneAtATime, Idle, PeriodInv, PeriodTypeOK
  <2>2. CASE UNCHANGED periods
    BY <2>1, <2>2 DEF NoOverlap, Stored, Overlap
  <2>3. CASE ~UNCHANGED periods
    <3>1. PICK p \in PeriodIds \ Stored, row \in Rows :
              /\ periods' = [periods EXCEPT ![p] = row]
              /\ row.first = admin[a].first /\ row.last = admin[a].last
      BY <1>2, <2>3, CreateWriteEffect
    <3>2. row # NoRow /\ Stored' = Stored \cup {p}
      BY <3>1 DEF Stored, PeriodInv, PeriodTypeOK, Rows, NoRow
    <3>3. /\ periods'[p] = row
          /\ \A q \in Stored : periods'[q] = periods[q]
      BY <3>1 DEF Stored, PeriodInv, PeriodTypeOK
    <3>4. \A q \in Stored : ~Overlap(periods[q], row.first, row.last)
      BY <1>2, <3>1 DEF PendingFits, CreateWrite
    <3>5. \A q \in Stored : ~Overlap(row, periods[q].first, periods[q].last)
      <4>1. TAKE q \in Stored
      <4>2. periods[q] \in Rows
        BY DEF Stored, PeriodInv, PeriodTypeOK
      <4> QED
        BY <3>4, <4>2, DaysAssumption DEF Overlap, Rows
    <3> QED
      BY <2>1, <3>2, <3>3, <3>4, <3>5 DEF NoOverlap
  <2> QED
    BY <2>2, <2>3
<1>3. ASSUME NEW a \in Admins, NEW p \in PeriodIds, CloseRead(a, p) \/ ReopenRead(a, p)
      PROVE  NoOverlap' /\ PendingFits'
  BY <1>3 DEF CloseRead, ReopenRead, PeriodInv, PeriodTypeOK, NoOverlap, PendingFits,
              Stored, Overlap
<1>4. ASSUME NEW a \in Admins, StatusWrite(a)
      PROVE  NoOverlap' /\ PendingFits'
  <2>1. \A b \in Admins : admin'[b] = admin[b] \/ admin'[b] = Idle
    BY <1>4 DEF StatusWrite, PeriodInv, PeriodTypeOK
  <2> QED
    BY <1>4, <2>1, StatusWriteEffect DEF NoOverlap, PendingFits, Overlap, Idle
<1>5. CASE UNCHANGED periodVars
  BY <1>5 DEF periodVars, NoOverlap, PendingFits, Stored, Overlap
<1> QED
  BY <1>1, <1>2, <1>3, <1>4, <1>5 DEF PeriodNext

LEMMA SequentialInv ==
    PeriodSpec /\ []OneAtATime => [](NoOverlap /\ PendingFits)
<1>1. PeriodInit => NoOverlap /\ PendingFits
  BY DEF PeriodInit, NoOverlap, PendingFits, Stored, NoRow, Idle
<1>2. OneAtATime /\ OneAtATime' /\ PeriodInv /\ NoOverlap /\ PendingFits
        /\ [PeriodNext]_periodVars => (NoOverlap /\ PendingFits)'
  BY SequentialNext
<1> QED
  BY <1>1, <1>2, PeriodInvAlways, PTL DEF PeriodSpec

\* As long as administrator requests do not overlap in time, stored periods
\* never share a day, whatever the number of periods and administrators: the
\* check of assertNoOverlap is enough then.  Two creations that interleave both
\* pass it before either inserts.
THEOREM SequentialNoOverlapHolds == PeriodSpec => SequentialNoOverlap
<1>1. NoOverlap /\ PendingFits => NoOverlap
  OBVIOUS
<1> QED
  BY <1>1, SequentialInv, PTL DEF SequentialNoOverlap

\* As long as administrator requests do not overlap in time, closing a period
\* shuts each of its days to assertPeriodOpenForDate.
THEOREM SequentialClosingShutsHolds == PeriodSpec => SequentialClosingShuts
<1>1. ASSUME PeriodInv, NoOverlap PROVE ClosingShutsEveryDay
  <2> SUFFICES ASSUME NEW p \in Stored, periods[p].status # "open",
                      NEW d \in Days, Spans(periods[p], d)
               PROVE  ~OpenOn(d)
    BY DEF ClosingShutsEveryDay
  <2>1. ASSUME NEW q \in Stored, Spans(periods[q], d) PROVE q = p
    <3>1. periods[p] \in Rows /\ periods[q] \in Rows
      BY <1>1 DEF PeriodInv, PeriodTypeOK, Stored
    <3>2. /\ periods[p].first \in Nat /\ periods[p].last \in Nat
          /\ periods[q].first \in Nat /\ periods[q].last \in Nat
          /\ d \in Nat
      BY <3>1, DaysAssumption DEF Rows
    <3>3. /\ periods[p].first <= d /\ d <= periods[p].last
          /\ periods[q].first <= d /\ d <= periods[q].last
      BY <2>1 DEF Spans
    <3>4. Overlap(periods[p], periods[q].first, periods[q].last)
      BY <3>2, <3>3 DEF Overlap
    <3> QED
      BY <1>1, <3>4 DEF NoOverlap
  <2>2. periods[p].first \in Nat
    BY <1>1, DaysAssumption DEF PeriodInv, PeriodTypeOK, Stored, Rows
  <2>3. Governs(p, d)
    BY <2>1, <2>2 DEF Governs
  <2> QED
    BY <2>3 DEF OpenOn, Stored
<1> QED
  BY <1>1, SequentialInv, PeriodInvAlways, PTL DEF SequentialClosingShuts

-----------------------------------------------------------------------------
(* The requests.                                                           *)

Checked == {"period", "endpoints", "write"}

\* What ReadOriginal established of the voucher to reverse is still true when
\* the reversal is committed, except that a concurrent reversal may have won.
OriginalsKept ==
    \A r \in Attempts :
        attempt[r].pc \in Checked /\ attempt[r].request.op = "reversal" =>
            LET q == attempt[r].request IN
            /\ q.of \in DOMAIN vouchers
            /\ vouchers[q.of].of = 0
            /\ vouchers[q.of].day <= q.day

RequestInv ==
    TransferTypeOK /\ OriginalsKept /\ KeyAppliedOnce /\ ReplyIsOwn /\ ReversalsPaired

-----------------------------------------------------------------------------
(* One commit.                                                             *)

\* The voucher a request creates is well-typed and faces its original.
LEMMA VoucherOfFacts ==
    ASSUME RequestInv, NEW r \in Attempts, At(r, "write")
    PROVE  LET q == attempt[r].request
               v == VoucherOf(q)
               o == vouchers[q.of]
           IN /\ q \in Requests
              /\ v \in Vouchers
              /\ v.request = q /\ v.day = q.day /\ v.status = "posted"
              /\ q.op = "transfer" => v.of = 0
              /\ q.op # "transfer" =>
                    /\ q.op = "reversal"
                    /\ q.of \in DOMAIN vouchers
                    /\ v.of = q.of
                    /\ o.of = 0 /\ o.day <= v.day
                    /\ v.from = o.to /\ v.to = o.from /\ v.amount = o.amount
<1> DEFINE q == attempt[r].request
           v == VoucherOf(q)
           o == vouchers[q.of]
<1>1. q \in Requests /\ attempt[r].pc = "write"
  BY DEF RequestInv, TransferTypeOK, At, Unsent
<1>2. q.op \in {"transfer", "reversal"} /\ q.day \in Days
  BY <1>1, RequestsAssumption
<1>3. ledger \in Seq(Entries) /\ Len(ledger) + 1 \in Nat
  BY DEF RequestInv, TransferTypeOK, LedgerTypeOK
<1>4. CASE q.op = "transfer"
  <2>1. q \in Transfers
    BY <1>1, <1>4 DEF Transfers
  <2>2. q.from \in Vaults /\ q.to \in Vaults /\ q.amount \in Nat
    BY <2>1, RequestsAssumption
  <2>3. v = [request |-> q, from |-> q.from, to |-> q.to, amount |-> q.amount,
             day |-> q.day, status |-> "posted", of |-> 0, entry |-> Len(ledger) + 1]
    BY <1>4 DEF VoucherOf
  <2> HIDE DEF q, v
  <2> QED
    BY <1>1, <1>2, <1>3, <1>4, <2>2, <2>3 DEF Vouchers, q, v
<1>5. CASE q.op = "reversal"
  <2>1. q.of \in DOMAIN vouchers /\ o.of = 0 /\ o.day <= q.day
    BY <1>1, <1>5 DEF RequestInv, OriginalsKept, Checked
  <2>2. o \in Vouchers
    BY <2>1 DEF RequestInv, TransferTypeOK
  <2>3. q.of \in Nat
    BY <2>1 DEF RequestInv, TransferTypeOK
  <2>4. v = [request |-> q, from |-> o.to, to |-> o.from, amount |-> o.amount,
             day |-> q.day, status |-> "posted", of |-> q.of, entry |-> Len(ledger) + 1]
    BY <1>5 DEF VoucherOf
  <2> HIDE DEF q, v, o
  <2> QED
    BY <1>1, <1>2, <1>3, <1>5, <2>1, <2>2, <2>3, <2>4 DEF Vouchers, q, v, o
<1> QED
  BY <1>2, <1>4, <1>5

\* A commit appends that voucher and marks the one it reverses.
LEMMA CommitEffect ==
    ASSUME RequestInv, NEW r \in Attempts, Commit(r)
    PROVE  LET q == attempt[r].request
               v == VoucherOf(q)
               n == Len(vouchers)
           IN /\ n \in Nat
              /\ DOMAIN vouchers = 1..n /\ DOMAIN vouchers' = 1..(n + 1)
              /\ vouchers' \in Seq(Vouchers)
              /\ vouchers'[n + 1] = v
              /\ \A i \in 1..n :
                    vouchers'[i] = IF q.op = "reversal" /\ i = q.of
                                   THEN [vouchers[i] EXCEPT !.status = "reversed"]
                                   ELSE vouchers[i]
<1> DEFINE q == attempt[r].request
           v == VoucherOf(q)
           n == Len(vouchers)
           marked == IF q.op = "reversal" THEN [vouchers EXCEPT ![q.of].status = "reversed"]
                                          ELSE vouchers
<1>1. vouchers \in Seq(Vouchers) /\ n \in Nat /\ DOMAIN vouchers = 1..n
  BY DEF RequestInv, TransferTypeOK
<1>2. v \in Vouchers /\ (q.op = "reversal" => q.of \in DOMAIN vouchers)
  BY VoucherOfFacts DEF Commit
<1>3. vouchers' = Append(marked, v)
  BY DEF Commit
<1> HIDE DEF q, v
<1>4. /\ \A i \in 1..n :
            /\ vouchers[i] \in Vouchers
            /\ marked[i] = IF q.op = "reversal" /\ i = q.of
                           THEN [vouchers[i] EXCEPT !.status = "reversed"]
                           ELSE vouchers[i]
      /\ DOMAIN marked = 1..n
  BY <1>1, <1>2
<1>5. \A i \in 1..n : [vouchers[i] EXCEPT !.status = "reversed"] \in Vouchers
  BY <1>4 DEF Vouchers
<1>6. marked \in Seq(Vouchers) /\ Len(marked) = n
  BY <1>1, <1>2, <1>4, <1>5
<1> HIDE DEF marked
<1>7. /\ vouchers' \in Seq(Vouchers) /\ DOMAIN vouchers' = 1..(n + 1)
      /\ vouchers'[n + 1] = v /\ \A i \in 1..n : vouchers'[i] = marked[i]
  BY <1>1, <1>2, <1>3, <1>6
<1> QED
  BY <1>1, <1>4, <1>7 DEF q, v

-----------------------------------------------------------------------------
(* The inductive invariant of the requests.                                *)

LEMMA RequestInitInv == TransferInit => RequestInv
  BY DEF TransferInit, RequestInv, TransferTypeOK, LedgerTypeOK, OriginalsKept,
         KeyAppliedOnce, ReplyIsOwn, ReversalsPaired, ReversedBy, Unsent, Checked

\* A commit keeps the invariant.
LEMMA CommitInv ==
    ASSUME RequestInv, NEW r \in Attempts, Commit(r)
    PROVE  RequestInv'
<1> DEFINE q == attempt[r].request
           v == VoucherOf(q)
           n == Len(vouchers)
<1>1. /\ n \in Nat
      /\ DOMAIN vouchers = 1..n /\ DOMAIN vouchers' = 1..(n + 1)
      /\ vouchers' \in Seq(Vouchers)
      /\ vouchers'[n + 1] = v
      /\ \A i \in 1..n :
            vouchers'[i] = IF q.op = "reversal" /\ i = q.of
                           THEN [vouchers[i] EXCEPT !.status = "reversed"]
                           ELSE vouchers[i]
  BY CommitEffect
<1>2. /\ q \in Requests
      /\ v \in Vouchers
      /\ v.request = q /\ v.day = q.day /\ v.status = "posted"
      /\ q.op = "transfer" => v.of = 0
      /\ q.op # "transfer" =>
            /\ q.op = "reversal"
            /\ q.of \in 1..n
            /\ v.of = q.of
            /\ vouchers[q.of].of = 0 /\ vouchers[q.of].day <= v.day
            /\ v.from = vouchers[q.of].to /\ v.to = vouchers[q.of].from
            /\ v.amount = vouchers[q.of].amount
  BY <1>1, VoucherOfFacts DEF Commit
<1>3. /\ WithKey(q.key) = {}
      /\ q.op = "reversal" => ReversedBy(q.of) = {}
  BY DEF Commit, Duplicate
<1>4. /\ Post(EntryOf(v.to, v.from, v.amount, v.day, Ref("transfer", n + 1)))
      /\ attempt' = [attempt EXCEPT ![r].pc = "done", ![r].reply = n + 1]
      /\ attempt[r].pc = "write"
  BY DEF Commit, At
<1> HIDE DEF q, v, n
<1>5. \A i \in 1..n :
          /\ vouchers[i] \in Vouchers
          /\ vouchers'[i].request = vouchers[i].request
          /\ vouchers'[i].from = vouchers[i].from
          /\ vouchers'[i].to = vouchers[i].to
          /\ vouchers'[i].amount = vouchers[i].amount
          /\ vouchers'[i].day = vouchers[i].day
          /\ vouchers'[i].of = vouchers[i].of
          /\ vouchers'[i].status =
                IF q.op = "reversal" /\ i = q.of THEN "reversed" ELSE vouchers[i].status
  <2>1. \A i \in 1..n : vouchers[i] \in Vouchers
    BY <1>1 DEF RequestInv, TransferTypeOK
  <2> QED
    BY <1>1, <2>1 DEF Vouchers
<1>6. TransferTypeOK'
  <2>1. EntryOf(v.to, v.from, v.amount, v.day, Ref("transfer", n + 1)) \in Entries
    BY <1>1, <1>2, VaultsAssumption, DaysAssumption
    DEF EntryOf, Ref, Entries, References, Vouchers
  <2>2. LedgerTypeOK'
    BY <1>4, <2>1 DEF Post, LedgerTypeOK, RequestInv, TransferTypeOK
  <2>3. attempt' \in [Attempts -> {Unsent} \cup
            [pc : Running \cup {"done", "failed"}, request : Requests,
             tries : 1..RetryMax, reply : Nat]]
    <3>1. attempt[r] \in [pc : Running \cup {"done", "failed"}, request : Requests,
                          tries : 1..RetryMax, reply : Nat]
      BY <1>4 DEF RequestInv, TransferTypeOK, Unsent
    <3>2. attempt'[r] = [pc |-> "done", request |-> attempt[r].request,
                         tries |-> attempt[r].tries, reply |-> n + 1]
      BY <1>4, <3>1 DEF RequestInv, TransferTypeOK
    <3>3. attempt'[r] \in [pc : Running \cup {"done", "failed"}, request : Requests,
                           tries : 1..RetryMax, reply : Nat]
      BY <1>1, <3>1, <3>2
    <3> QED
      BY <1>4, <3>3 DEF RequestInv, TransferTypeOK
  <2> QED
    BY <1>1, <2>2, <2>3 DEF TransferTypeOK
<1>7. \A s \in Attempts :
          /\ s # r => attempt'[s] = attempt[s]
          /\ s = r => attempt'[s].pc = "done" /\ attempt'[s].reply = n + 1
                      /\ attempt'[s].request = q
  BY <1>4 DEF RequestInv, TransferTypeOK, Unsent, q
<1>8. OriginalsKept'
  BY <1>1, <1>5, <1>7 DEF RequestInv, OriginalsKept, Checked
<1>9. KeyAppliedOnce'
  <2>1. \A i \in 1..n : vouchers[i].request.key # q.key
    BY <1>1, <1>3 DEF WithKey
  <2> QED
    BY <1>1, <1>2, <1>5, <2>1 DEF RequestInv, KeyAppliedOnce
<1>10. ReplyIsOwn'
  BY <1>1, <1>2, <1>5, <1>7 DEF RequestInv, ReplyIsOwn
<1>11. ReversalsPaired'
  <2>1. /\ \A i \in 1..n : (vouchers[i].status = "reversed")
                              <=> (\E j \in 1..n : vouchers[j].of = i)
        /\ \A i, j \in 1..n : vouchers[i].of = vouchers[j].of /\ vouchers[i].of # 0 => i = j
        /\ \A j \in 1..n : vouchers[j].of # 0 =>
              /\ vouchers[j].of \in 1..n \ {j}
              /\ vouchers[vouchers[j].of].of = 0
              /\ vouchers[j].from = vouchers[vouchers[j].of].to
              /\ vouchers[j].to = vouchers[vouchers[j].of].from
              /\ vouchers[j].amount = vouchers[vouchers[j].of].amount
              /\ vouchers[vouchers[j].of].day <= vouchers[j].day
    BY <1>1 DEF RequestInv, ReversalsPaired, ReversedBy
  <2>2. q.op = "reversal" => \A j \in 1..n : vouchers[j].of # q.of
    BY <1>1, <1>3 DEF ReversedBy
  <2>3. \A i \in 1..(n + 1) : i \in 1..n \/ i = n + 1
    BY <1>1
  <2>4. \A i \in 1..(n + 1) : (vouchers'[i].status = "reversed")
                                 <=> (\E j \in 1..(n + 1) : vouchers'[j].of = i)
    <3>1. ASSUME NEW i \in 1..n
          PROVE  (vouchers'[i].status = "reversed")
                    <=> (\E j \in 1..(n + 1) : vouchers'[j].of = i)
      <4>1. (\E j \in 1..(n + 1) : vouchers'[j].of = i)
              <=> (\E j \in 1..n : vouchers[j].of = i) \/ v.of = i
        BY <1>1, <1>5
      <4> QED
        BY <1>1, <1>2, <1>5, <2>1, <4>1
    <3>2. \A j \in 1..(n + 1) : vouchers'[j].of # n + 1
      BY <1>1, <1>2, <1>5, <2>1, <2>3
    <3> QED
      BY <1>1, <1>2, <2>3, <3>1, <3>2
  <2>5. \A i, j \in 1..(n + 1) :
            vouchers'[i].of = vouchers'[j].of /\ vouchers'[i].of # 0 => i = j
    BY <1>1, <1>2, <1>5, <2>1, <2>2, <2>3
  <2>6. ASSUME NEW j \in 1..(n + 1), vouchers'[j].of # 0
        PROVE  /\ vouchers'[j].of \in 1..(n + 1) \ {j}
               /\ vouchers'[vouchers'[j].of].of = 0
               /\ vouchers'[j].from = vouchers'[vouchers'[j].of].to
               /\ vouchers'[j].to = vouchers'[vouchers'[j].of].from
               /\ vouchers'[j].amount = vouchers'[vouchers'[j].of].amount
               /\ vouchers'[vouchers'[j].of].day <= vouchers'[j].day
    <3>1. CASE j \in 1..n
      BY <1>1, <1>5, <2>1, <2>6, <3>1
    <3>2. CASE j = n + 1
      <4>1. vouchers'[j] = v /\ q.op # "transfer" /\ v.of = q.of /\ q.of \in 1..n
        BY <1>1, <1>2, <2>6, <3>2
      <4> QED
        BY <1>1, <1>2, <1>5, <3>2, <4>1
    <3> QED
      BY <2>3, <3>1, <3>2
  <2> QED
    BY <1>1, <2>4, <2>5, <2>6 DEF ReversalsPaired, ReversedBy
<1> QED
  BY <1>6, <1>8, <1>9, <1>10, <1>11 DEF RequestInv

\* What is left to show of a step that moves one request, r, and writes no
\* row.
LEMMA MoveInv ==
    ASSUME RequestInv, UNCHANGED <<vouchers, ledger>>, NEW r \in Attempts,
           attempt' = [s \in Attempts |-> attempt'[s]],
           \A s \in Attempts \ {r} : attempt'[s] = attempt[s],
           attempt'[r] \in [pc : Running \cup {"done", "failed"}, request : Requests,
                            tries : 1..RetryMax, reply : Nat],
           attempt'[r].pc \in Checked /\ attempt'[r].request.op = "reversal" =>
               /\ attempt'[r].request.of \in DOMAIN vouchers
               /\ vouchers[attempt'[r].request.of].of = 0
               /\ vouchers[attempt'[r].request.of].day <= attempt'[r].request.day,
           attempt'[r].pc = "done" =>
               /\ attempt'[r].reply \in DOMAIN vouchers
               /\ vouchers[attempt'[r].reply].request = attempt'[r].request
    PROVE  RequestInv'
<1>1. TransferTypeOK'
  BY DEF RequestInv, TransferTypeOK, LedgerTypeOK
<1>2. OriginalsKept'
  BY DEF RequestInv, OriginalsKept
<1>3. KeyAppliedOnce' /\ ReversalsPaired'
  BY DEF RequestInv, KeyAppliedOnce, ReversalsPaired, ReversedBy
<1>4. ReplyIsOwn'
  BY DEF RequestInv, ReplyIsOwn
<1> QED
  BY <1>1, <1>2, <1>3, <1>4 DEF RequestInv

\* A request in its transaction that moves on, fails or starts again.
LEMMA GotoInv ==
    ASSUME RequestInv, UNCHANGED <<vouchers, ledger>>, NEW r \in Attempts,
           attempt[r].pc \in Running,
           NEW pc \in Running \cup {"failed"}, Goto(r, pc),
           pc \in Checked /\ attempt[r].request.op = "reversal" =>
               \/ attempt[r].pc \in Checked
               \/ Reversible(attempt[r].request.of, attempt[r].request.day)
    PROVE  RequestInv'
<1>1. attempt[r] \in [pc : Running \cup {"done", "failed"}, request : Requests,
                      tries : 1..RetryMax, reply : Nat]
  BY DEF RequestInv, TransferTypeOK, Unsent, Running, InTransaction
<1>2. /\ attempt' = [s \in Attempts |-> attempt'[s]]
      /\ \A s \in Attempts \ {r} : attempt'[s] = attempt[s]
  BY DEF Goto, RequestInv, TransferTypeOK
<1>3. attempt'[r] = [pc |-> pc, request |-> attempt[r].request,
                     tries |-> attempt[r].tries, reply |-> attempt[r].reply]
  BY <1>1 DEF Goto, RequestInv, TransferTypeOK
<1>4. attempt'[r] \in [pc : Running \cup {"done", "failed"}, request : Requests,
                       tries : 1..RetryMax, reply : Nat]
  BY <1>1, <1>3
<1>5. attempt'[r].pc = pc /\ attempt'[r].request = attempt[r].request
  BY <1>3
<1>6. attempt'[r].pc \in Checked /\ attempt'[r].request.op = "reversal" =>
          /\ attempt'[r].request.of \in DOMAIN vouchers
          /\ vouchers[attempt'[r].request.of].of = 0
          /\ vouchers[attempt'[r].request.of].day <= attempt'[r].request.day
  BY <1>5 DEF RequestInv, OriginalsKept, Reversible
<1>7. attempt'[r].pc # "done"
  BY <1>5 DEF Running, InTransaction
<1> QED
  BY <1>2, <1>4, <1>6, <1>7, MoveInv

\* A replayed answer is the voucher of the same request.
LEMMA ReplayInv ==
    ASSUME RequestInv, UNCHANGED <<vouchers, ledger>>, NEW r \in Attempts,
           attempt[r].pc \in Running, NEW i \in DOMAIN vouchers, Replay(r, i)
    PROVE  RequestInv'
<1>1. CASE vouchers[i].request = attempt[r].request
           /\ attempt' = [attempt EXCEPT ![r].pc = "done", ![r].reply = i]
  <2>1. attempt[r] \in [pc : Running \cup {"done", "failed"}, request : Requests,
                        tries : 1..RetryMax, reply : Nat]
    BY DEF RequestInv, TransferTypeOK, Unsent, Running, InTransaction
  <2>2. /\ attempt' = [s \in Attempts |-> attempt'[s]]
        /\ \A s \in Attempts \ {r} : attempt'[s] = attempt[s]
    BY <1>1 DEF RequestInv, TransferTypeOK
  <2>3. attempt'[r] = [pc |-> "done", request |-> attempt[r].request,
                       tries |-> attempt[r].tries, reply |-> i]
    BY <1>1, <2>1 DEF RequestInv, TransferTypeOK
  <2>4. i \in Nat
    BY DEF RequestInv, TransferTypeOK
  <2>5. attempt'[r] \in [pc : Running \cup {"done", "failed"}, request : Requests,
                         tries : 1..RetryMax, reply : Nat]
    BY <2>1, <2>3, <2>4
  <2>6. /\ attempt'[r].pc = "done" /\ attempt'[r].request = attempt[r].request
        /\ attempt'[r].reply = i
    BY <2>3
  <2>7. attempt'[r].pc \notin Checked
    BY <2>6 DEF Checked
  <2> QED
    BY <1>1, <2>2, <2>5, <2>6, <2>7, MoveInv
<1>2. CASE Fail(r)
  BY <1>2, GotoInv DEF Fail, Checked
<1> QED
  BY <1>1, <1>2 DEF Replay

-----------------------------------------------------------------------------
(* Every step of a request.                                                *)

LEMMA SubmitInv ==
    ASSUME RequestInv, UNCHANGED <<vouchers, ledger>>, NEW r \in Attempts,
           NEW q \in Requests, Submit(r, q)
    PROVE  RequestInv'
<1> DEFINE pc == IF WellFormed(q) THEN "key" ELSE "failed"
<1>1. attempt' = [attempt EXCEPT ![r] =
                    [pc |-> pc, request |-> q, tries |-> 1, reply |-> 0]]
  BY DEF Submit
<1>2. pc \in {"key", "failed"}
  OBVIOUS
<1> HIDE DEF pc
<1>3. /\ attempt' = [s \in Attempts |-> attempt'[s]]
      /\ \A s \in Attempts \ {r} : attempt'[s] = attempt[s]
      /\ attempt'[r] = [pc |-> pc, request |-> q, tries |-> 1, reply |-> 0]
  BY <1>1 DEF RequestInv, TransferTypeOK
<1>4. 1 \in 1..RetryMax
  BY RetryMaxAssumption
<1>5. attempt'[r] \in [pc : Running \cup {"done", "failed"}, request : Requests,
                       tries : 1..RetryMax, reply : Nat]
  BY <1>2, <1>3, <1>4 DEF Running, InTransaction
<1>6. attempt'[r].pc \notin Checked \cup {"done"}
  BY <1>2, <1>3 DEF Checked
<1> QED
  BY <1>3, <1>5, <1>6, MoveInv

LEMMA ConflictInv ==
    ASSUME RequestInv, UNCHANGED <<vouchers, ledger>>, NEW r \in Attempts, Conflict(r)
    PROVE  RequestInv'
<1>1. attempt[r] \in [pc : Running \cup {"done", "failed"}, request : Requests,
                      tries : 1..RetryMax, reply : Nat]
      /\ attempt[r].pc = "write"
  BY DEF Conflict, At, RequestInv, TransferTypeOK, Unsent
<1>2. CASE attempt[r].tries < RetryMax
           /\ attempt' = [attempt EXCEPT ![r].pc = "key", ![r].tries = @ + 1]
  <2>1. /\ attempt' = [s \in Attempts |-> attempt'[s]]
        /\ \A s \in Attempts \ {r} : attempt'[s] = attempt[s]
    BY <1>2 DEF RequestInv, TransferTypeOK
  <2>2. attempt'[r] = [pc |-> "key", request |-> attempt[r].request,
                       tries |-> attempt[r].tries + 1, reply |-> attempt[r].reply]
    BY <1>1, <1>2 DEF RequestInv, TransferTypeOK
  <2>3. attempt[r].tries + 1 \in 1..RetryMax
    BY <1>1, <1>2, RetryMaxAssumption
  <2>4. attempt'[r] \in [pc : Running \cup {"done", "failed"}, request : Requests,
                         tries : 1..RetryMax, reply : Nat]
    BY <1>1, <2>2, <2>3 DEF Running, InTransaction
  <2>5. attempt'[r].pc \notin Checked \cup {"done"}
    BY <2>2 DEF Checked
  <2> QED
    BY <2>1, <2>4, <2>5, MoveInv
<1>3. CASE Fail(r)
  BY <1>1, <1>3, GotoInv DEF Fail, Checked, Running, InTransaction
<1> QED
  BY <1>2, <1>3 DEF Conflict

\* The steps of a request that only read.
LEMMA ReadInv ==
    ASSUME RequestInv, UNCHANGED <<vouchers, ledger>>, NEW r \in Attempts,
           \/ FindByKey(r) \/ ReadOriginal(r) \/ CheckPeriod(r) \/ CheckEndpoints(r)
           \/ Collide(r) \/ Resolve(r)
    PROVE  RequestInv'
<1>1. CASE FindByKey(r)
  <2>1. attempt[r].pc \in Running
    BY <1>1 DEF FindByKey, At, Running, InTransaction
  <2>2. CASE \E i \in WithKey(attempt[r].request.key) : Replay(r, i)
    BY <2>1, <2>2, ReplayInv DEF WithKey
  <2>3. CASE Goto(r, IF attempt[r].request.op = "transfer" THEN "period" ELSE "original")
    <3>1. CASE attempt[r].request.op = "transfer"
      BY <2>1, <2>3, <3>1, GotoInv DEF Running, InTransaction
    <3>2. CASE attempt[r].request.op # "transfer"
      BY <2>1, <2>3, <3>2, GotoInv DEF Running, InTransaction, Checked
    <3> QED
      BY <3>1, <3>2
  <2> QED
    BY <1>1, <2>2, <2>3 DEF FindByKey
<1>2. CASE ReadOriginal(r)
  <2>1. attempt[r].pc \in Running
    BY <1>2 DEF ReadOriginal, At, Running, InTransaction
  <2>2. CASE Reversible(attempt[r].request.of, attempt[r].request.day)
    BY <1>2, <2>1, <2>2, GotoInv DEF ReadOriginal, Running, InTransaction
  <2>3. CASE ~Reversible(attempt[r].request.of, attempt[r].request.day)
    BY <1>2, <2>1, <2>3, GotoInv DEF ReadOriginal, Checked
  <2> QED
    BY <2>2, <2>3
<1>3. CASE CheckPeriod(r)
  <2>1. attempt[r].pc \in Running /\ attempt[r].pc \in Checked
    BY <1>3 DEF CheckPeriod, At, Running, InTransaction, Checked
  <2>2. CASE OpenOn(attempt[r].request.day)
    BY <1>3, <2>1, <2>2, GotoInv DEF CheckPeriod, Running, InTransaction
  <2>3. CASE ~OpenOn(attempt[r].request.day)
    BY <1>3, <2>1, <2>3, GotoInv DEF CheckPeriod
  <2> QED
    BY <2>2, <2>3
<1>4. CASE CheckEndpoints(r)
  <2> DEFINE q == attempt[r].request
  <2>1. attempt[r].pc \in Running /\ attempt[r].pc \in Checked
    BY <1>4 DEF CheckEndpoints, At, Running, InTransaction, Checked
  <2>2. CASE q.op = "transfer" => Usable(q.from) /\ Usable(q.to)
    BY <1>4, <2>1, <2>2, GotoInv DEF CheckEndpoints, Running, InTransaction
  <2>3. CASE ~(q.op = "transfer" => Usable(q.from) /\ Usable(q.to))
    BY <1>4, <2>1, <2>3, GotoInv DEF CheckEndpoints
  <2> QED
    BY <2>2, <2>3
<1>5. CASE Collide(r)
  <2>1. attempt[r].pc \in Running
    BY <1>5 DEF Collide, At, Running, InTransaction
  <2> QED
    BY <1>5, <2>1, GotoInv DEF Collide, Running, Checked
<1>6. CASE Resolve(r)
  <2>1. attempt[r].pc \in Running
    BY <1>6 DEF Resolve, At, Running
  <2>2. CASE \E i \in WithKey(attempt[r].request.key) : Replay(r, i)
    BY <2>1, <2>2, ReplayInv DEF WithKey
  <2>3. CASE Fail(r)
    BY <2>1, <2>3, GotoInv DEF Fail, Checked
  <2> QED
    BY <1>6, <2>2, <2>3 DEF Resolve
<1> QED
  BY <1>1, <1>2, <1>3, <1>4, <1>5, <1>6

LEMMA RequestNextInv == RequestInv /\ [Next]_vars => RequestInv'
<1> SUFFICES ASSUME RequestInv, [Next]_vars PROVE RequestInv'
  OBVIOUS
<1>1. ASSUME NEW r \in Attempts, Serve(r) PROVE RequestInv'
  BY <1>1, CommitInv, ReadInv DEF Serve
<1>2. ASSUME NEW r \in Attempts, Disturb(r) PROVE RequestInv'
  <2>1. CASE Crash(r)
    BY <1>2, <2>1, GotoInv DEF Crash, Fail, Disturb, Checked
  <2> QED
    BY <1>2, <2>1, SubmitInv, ConflictInv DEF Disturb
<1>3. ASSUME UNCHANGED <<vouchers, attempt, ledger>> PROVE RequestInv'
  BY <1>3 DEF RequestInv, TransferTypeOK, LedgerTypeOK, OriginalsKept, KeyAppliedOnce,
              ReplyIsOwn, ReversalsPaired, ReversedBy
<1> QED
  BY <1>1, <1>2, <1>3 DEF Next, vars

-----------------------------------------------------------------------------
(* The vault settings and the calendar next to the requests.               *)

VaultInv == VaultTypeOK /\ CodesDistinct

LEMMA VaultInitInv == VaultInit => VaultInv
<1> SUFFICES ASSUME VaultInit PROVE VaultInv
  OBVIOUS
<1>1. PICK code \in [Opened -> 1..Cardinality(Opened)] :
          /\ \A v, w \in Opened : code[v] = code[w] => v = w
          /\ vault = [v \in Vaults |->
                IF v \in Opened THEN [code |-> code[v], active |-> TRUE, archived |-> FALSE]
                                ELSE Unopened]
  BY DEF VaultInit
<1>2. \A v \in Opened : code[v] \in Nat
  BY <1>1
<1>3. \A v \in Vaults :
          vault[v] = IF v \in Opened THEN [code |-> code[v], active |-> TRUE, archived |-> FALSE]
                                     ELSE Unopened
  BY <1>1
<1>4. ASSUME NEW v \in Vaults
      PROVE  vault[v] \in [code : Nat, active : BOOLEAN, archived : BOOLEAN]
  <2>1. CASE v \in Opened
    <3>1. vault[v] = [code |-> code[v], active |-> TRUE, archived |-> FALSE]
      BY <1>3, <2>1
    <3>2. code[v] \in Nat /\ TRUE \in BOOLEAN /\ FALSE \in BOOLEAN
      BY <1>2, <2>1
    <3> QED
      BY <3>1, <3>2
  <2>2. CASE v \notin Opened
    <3>1. vault[v] = [code |-> 0, active |-> FALSE, archived |-> FALSE]
      BY <1>3, <2>2 DEF Unopened
    <3>2. 0 \in Nat /\ FALSE \in BOOLEAN
      OBVIOUS
    <3> QED
      BY <3>1, <3>2
  <2> QED
    BY <2>1, <2>2
<1>5. VaultTypeOK
  BY <1>1, <1>4 DEF VaultTypeOK, VaultInit
<1>6. CodesDistinct
  BY <1>1, <1>2, <1>3 DEF CodesDistinct, Exists, Unopened
<1> QED
  BY <1>5, <1>6 DEF VaultInv

LEMMA VaultNextInv == VaultInv /\ [VaultNext]_vaultVars => VaultInv'
<1> SUFFICES ASSUME VaultInv, [VaultNext]_vaultVars PROVE VaultInv'
  OBVIOUS
<1>1. ASSUME NEW c \in Clerks, OpenRead(c) PROVE VaultInv'
  <2>1. PICK top \in {vault[v].code : v \in Vaults} :
            clerk' = [clerk EXCEPT ![c] = [pc |-> "opening", code |-> top + 1]]
    BY <1>1 DEF OpenRead
  <2>2. top + 1 \in Nat
    BY DEF VaultInv, VaultTypeOK
  <2> QED
    BY <1>1, <2>1, <2>2 DEF OpenRead, VaultInv, VaultTypeOK, CodesDistinct, Exists
<1>2. ASSUME NEW c \in Clerks, OpenWrite(c) PROVE VaultInv'
  <2>1. clerk' = [clerk EXCEPT ![c] = NoClerk]
    BY <1>2 DEF OpenWrite
  <2>2. CASE UNCHANGED vault
    BY <2>1, <2>2 DEF VaultInv, VaultTypeOK, CodesDistinct, Exists
  <2>3. CASE /\ \A v \in Vaults : vault[v].code # clerk[c].code
             /\ \E v \in Vaults :
                   /\ ~Exists(v)
                   /\ vault' = [vault EXCEPT ![v] =
                         [code |-> clerk[c].code, active |-> TRUE, archived |-> FALSE]]
    <3>1. clerk[c].code \in Nat
      BY <1>2 DEF OpenWrite, VaultInv, VaultTypeOK, NoClerk
    <3> QED
      BY <2>1, <2>3, <3>1 DEF VaultInv, VaultTypeOK, CodesDistinct, Exists
  <2> QED
    BY <1>2, <2>2, <2>3 DEF OpenWrite
<1>3. ASSUME NEW c \in Clerks, NEW v \in Vaults, ArchiveRead(c, v) \/ RemoveCount(c, v)
      PROVE  VaultInv'
  BY <1>3 DEF ArchiveRead, RemoveCount, VaultInv, VaultTypeOK, CodesDistinct, Exists
<1>4. ASSUME NEW c \in Clerks, ArchiveWrite(c) \/ RemoveWrite(c) PROVE VaultInv'
  <2>1. clerk' = [clerk EXCEPT ![c] = NoClerk]
    BY <1>4 DEF ArchiveWrite, RemoveWrite
  <2>2. PICK v \in Vaults : v = clerk[c].vault
    BY <1>4 DEF ArchiveWrite, RemoveWrite, VaultInv, VaultTypeOK, NoClerk
  <2>3. /\ vault' = [w \in Vaults |-> vault'[w]]
        /\ \A w \in Vaults \ {v} : vault'[w] = vault[w]
    BY <1>4, <2>2 DEF ArchiveWrite, RemoveWrite, VaultInv, VaultTypeOK
  <2>4. /\ vault'[v] \in [code : Nat, active : BOOLEAN, archived : BOOLEAN]
        /\ vault'[v].code = vault[v].code
    <3>1. CASE ArchiveWrite(c)
      <4>1. clerk[c].seen \in BOOLEAN
        BY <3>1 DEF ArchiveWrite, VaultInv, VaultTypeOK, NoClerk
      <4> QED
        BY <2>2, <3>1, <4>1 DEF ArchiveWrite, VaultInv, VaultTypeOK
    <3>2. CASE RemoveWrite(c)
      BY <2>2, <3>2 DEF RemoveWrite, VaultInv, VaultTypeOK
    <3> QED
      BY <1>4, <3>1, <3>2
  <2>5. VaultTypeOK'
    BY <2>1, <2>3, <2>4 DEF VaultInv, VaultTypeOK
  <2>6. CodesDistinct'
    BY <2>3, <2>4 DEF VaultInv, CodesDistinct, Exists
  <2> QED
    BY <2>5, <2>6 DEF VaultInv
<1>5. CASE UNCHANGED vaultVars
  BY <1>5 DEF vaultVars, VaultInv, VaultTypeOK, CodesDistinct, Exists
<1> QED
  BY <1>1, <1>2, <1>3, <1>4, <1>5 DEF VaultNext

TransferInv == RequestInv /\ VaultInv /\ PeriodInv

LEMMA TransferInvAlways == Spec => []TransferInv
<1>1. Init => TransferInv
  BY RequestInitInv, VaultInitInv, PeriodInitInv DEF Init, TransferInv
<1>2. TransferInv /\ [Next]_vars => TransferInv'
  <2> SUFFICES ASSUME TransferInv, [Next]_vars PROVE TransferInv'
    OBVIOUS
  <2>1. [VaultNext]_vaultVars /\ [PeriodNext]_periodVars
    BY DEF Next, vars, Serve, Disturb, vaultVars, periodVars
  <2> QED
    BY <2>1, RequestNextInv, VaultNextInv, PeriodNextInv DEF TransferInv
<1> QED
  BY <1>1, <1>2, PTL DEF Spec

-----------------------------------------------------------------------------
(* The balances.                                                           *)

VoucherAmounts == [i \in DOMAIN vouchers |-> vouchers[i].amount]
Inflows(a)  == {i \in Standing : vouchers[i].to = a}
Outflows(a) == {i \in Standing : vouchers[i].from = a}

LEMMA StandingFacts ==
    ASSUME RequestInv, NEW a
    PROVE  /\ IsFiniteSet(Inflows(a)) /\ IsFiniteSet(Outflows(a))
           /\ \A i \in DOMAIN vouchers :
                 VoucherAmounts[i] = vouchers[i].amount /\ VoucherAmounts[i] \in Int
           /\ SumFunctionOnSet(VoucherAmounts, Inflows(a)) \in Int
           /\ SumFunctionOnSet(VoucherAmounts, Outflows(a)) \in Int
<1>1. vouchers \in Seq(Vouchers)
  BY DEF RequestInv, TransferTypeOK
<1>2. Len(vouchers) \in Nat /\ DOMAIN vouchers = 1..Len(vouchers)
  BY <1>1
<1>3. IsFiniteSet(DOMAIN vouchers)
  BY <1>2, FS_Interval
<1>4. Inflows(a) \subseteq DOMAIN vouchers /\ Outflows(a) \subseteq DOMAIN vouchers
  BY DEF Inflows, Outflows, Standing
<1>5. IsFiniteSet(Inflows(a)) /\ IsFiniteSet(Outflows(a))
  BY <1>3, <1>4, FS_Subset
<1>6. \A i \in DOMAIN vouchers :
          VoucherAmounts[i] = vouchers[i].amount /\ VoucherAmounts[i] \in Int
  <2>1. \A i \in DOMAIN vouchers : vouchers[i] \in Vouchers
    BY <1>1
  <2>2. \A i \in DOMAIN vouchers : vouchers[i].amount \in Int
    BY <2>1 DEF Vouchers
  <2> QED BY <2>2 DEF VoucherAmounts
<1>7. /\ SumFunctionOnSet(VoucherAmounts, Inflows(a)) \in Int
      /\ SumFunctionOnSet(VoucherAmounts, Outflows(a)) \in Int
  BY <1>4, <1>5, <1>6, SumType
<1> QED BY <1>5, <1>6, <1>7

\* A commit moves what stands by the amount of its voucher, whether it adds
\* a transfer or takes the one it reverses away.
LEMMA CommitMovesStanding ==
    ASSUME RequestInv, NEW r \in Attempts, Commit(r), NEW a
    PROVE  LET v == VoucherOf(attempt[r].request)
           IN StandingNet(a)' = StandingNet(a) + (IF v.to = a THEN v.amount ELSE 0)
                                               - (IF v.from = a THEN v.amount ELSE 0)
<1> DEFINE q == attempt[r].request
           v == VoucherOf(q)
           n == Len(vouchers)
<1>1. /\ n \in Nat
      /\ DOMAIN vouchers = 1..n /\ DOMAIN vouchers' = 1..(n + 1)
      /\ vouchers'[n + 1] = v
      /\ \A i \in 1..n :
            vouchers'[i] = IF q.op = "reversal" /\ i = q.of
                           THEN [vouchers[i] EXCEPT !.status = "reversed"]
                           ELSE vouchers[i]
  BY CommitEffect
<1>2. /\ v \in Vouchers /\ v.status = "posted"
      /\ q.op = "transfer" => v.of = 0
      /\ q.op # "transfer" =>
            /\ q.op = "reversal"
            /\ q.of \in 1..n
            /\ v.of = q.of
            /\ vouchers[q.of].of = 0
            /\ v.from = vouchers[q.of].to /\ v.to = vouchers[q.of].from
            /\ v.amount = vouchers[q.of].amount
  BY <1>1, VoucherOfFacts DEF Commit
<1>3. q.op = "reversal" => ReversedBy(q.of) = {}
  BY DEF Commit, Duplicate
<1>4. \A i \in 1..n : vouchers[i] \in Vouchers
  BY <1>1 DEF RequestInv, TransferTypeOK
<1> HIDE DEF q, v, n
<1>5. \A i \in 1..n :
          /\ vouchers'[i].from = vouchers[i].from
          /\ vouchers'[i].to = vouchers[i].to
          /\ vouchers'[i].amount = vouchers[i].amount
          /\ vouchers'[i].of = vouchers[i].of
          /\ vouchers'[i].status =
                IF q.op = "reversal" /\ i = q.of THEN "reversed" ELSE vouchers[i].status
  BY <1>1, <1>4 DEF Vouchers
<1>6. PICK f : f = VoucherAmounts
  OBVIOUS
<1>7. PICK g : g = VoucherAmounts'
  OBVIOUS
<1>8. PICK I : I = Inflows(a)'
  OBVIOUS
<1>9. PICK O : O = Outflows(a)'
  OBVIOUS
<1>10. PICK J : J = Inflows(a)
  OBVIOUS
<1>11. PICK P : P = Outflows(a)
  OBVIOUS
<1>12. /\ StandingNet(a) = SumFunctionOnSet(f, J) - SumFunctionOnSet(f, P)
       /\ StandingNet(a)' = SumFunctionOnSet(g, I) - SumFunctionOnSet(g, O)
  BY <1>6, <1>7, <1>8, <1>9, <1>10, <1>11
  DEF StandingNet, VoucherAmounts, Inflows, Outflows
<1>13. /\ J = {i \in 1..n : vouchers[i].of = 0 /\ vouchers[i].status = "posted"
                            /\ vouchers[i].to = a}
       /\ P = {i \in 1..n : vouchers[i].of = 0 /\ vouchers[i].status = "posted"
                            /\ vouchers[i].from = a}
  BY <1>1, <1>10, <1>11 DEF Inflows, Outflows, Standing
<1>14. /\ I = {i \in 1..(n + 1) : vouchers'[i].of = 0 /\ vouchers'[i].status = "posted"
                                  /\ vouchers'[i].to = a}
       /\ O = {i \in 1..(n + 1) : vouchers'[i].of = 0 /\ vouchers'[i].status = "posted"
                                  /\ vouchers'[i].from = a}
  BY <1>1, <1>8, <1>9 DEF Inflows, Outflows, Standing
<1>15. /\ IsFiniteSet(J) /\ IsFiniteSet(P)
       /\ \A i \in 1..n : f[i] \in Int /\ f[i] = vouchers[i].amount /\ g[i] = f[i]
       /\ SumFunctionOnSet(f, J) \in Int /\ SumFunctionOnSet(f, P) \in Int
  <2>1. /\ IsFiniteSet(J) /\ IsFiniteSet(P)
        /\ \A i \in 1..n : f[i] \in Int /\ f[i] = vouchers[i].amount
        /\ SumFunctionOnSet(f, J) \in Int /\ SumFunctionOnSet(f, P) \in Int
    BY <1>1, <1>6, <1>10, <1>11, StandingFacts
  <2>2. \A i \in 1..n : g[i] = vouchers'[i].amount
    BY <1>1, <1>7 DEF VoucherAmounts
  <2> QED BY <2>1, <2>2, <1>5
<1>16. g[n + 1] = v.amount /\ v.amount \in Int
  BY <1>1, <1>2, <1>7 DEF VoucherAmounts, Vouchers
<1>17. CASE q.op = "transfer"
  <2>1. \A i \in 1..(n + 1) : i \in 1..n \/ i = n + 1
    BY <1>1
  <2>2. n + 1 \notin 1..n /\ n + 1 \in 1..(n + 1) /\ 1..n \subseteq 1..(n + 1)
    BY <1>1
  <2>3. /\ v.to = a => I = J \cup {n + 1}
        /\ v.to # a => I = J
        /\ v.from = a => O = P \cup {n + 1}
        /\ v.from # a => O = P
    BY <1>1, <1>2, <1>5, <1>13, <1>14, <1>17, <2>1, <2>2
  <2>4. /\ n + 1 \notin J /\ n + 1 \notin P
        /\ \A i \in J : f[i] \in Int /\ g[i] = f[i]
        /\ \A i \in P : f[i] \in Int /\ g[i] = f[i]
    BY <1>13, <1>15, <2>2
  <2>5. SumFunctionOnSet(g, I) = SumFunctionOnSet(f, J) + (IF v.to = a THEN g[n + 1] ELSE 0)
    <3>1. CASE v.to = a
      BY <1>15, <1>16, <2>3, <2>4, <3>1, SumGrows
    <3>2. CASE v.to # a
      <4>1. SumFunctionOnSet(g, I) = SumFunctionOnSet(f, J)
        BY <1>15, <1>16, <2>3, <2>4, <3>2, SumSame
      <4> QED BY <1>15, <3>2, <4>1
    <3> QED BY <3>1, <3>2
  <2>6. SumFunctionOnSet(g, O) = SumFunctionOnSet(f, P) + (IF v.from = a THEN g[n + 1] ELSE 0)
    <3>1. CASE v.from = a
      BY <1>15, <1>16, <2>3, <2>4, <3>1, SumGrows
    <3>2. CASE v.from # a
      <4>1. SumFunctionOnSet(g, O) = SumFunctionOnSet(f, P)
        BY <1>15, <1>16, <2>3, <2>4, <3>2, SumSame
      <4> QED BY <1>15, <3>2, <4>1
    <3> QED BY <3>1, <3>2
  <2>7. StandingNet(a)' = StandingNet(a) + (IF v.to = a THEN v.amount ELSE 0)
                                         - (IF v.from = a THEN v.amount ELSE 0)
    BY <1>12, <1>15, <1>16, <2>5, <2>6
  <2> QED BY <2>7 DEF q, v
<1>18. CASE q.op # "transfer"
  <2>1. /\ q.op = "reversal" /\ q.of \in 1..n /\ v.of = q.of /\ q.of # 0
        /\ vouchers[q.of].of = 0
        /\ v.from = vouchers[q.of].to /\ v.to = vouchers[q.of].from
        /\ v.amount = vouchers[q.of].amount
    BY <1>1, <1>2, <1>18
  <2>2. vouchers[q.of].status = "posted"
    <3>1. vouchers[q.of].status # "reversed"
      BY <1>1, <1>3, <2>1 DEF RequestInv, ReversalsPaired
    <3> QED BY <1>4, <2>1, <3>1 DEF Vouchers
  <2>3. \A i \in 1..(n + 1) : i \in 1..n \/ i = n + 1
    BY <1>1
  <2>4. 1..n \subseteq 1..(n + 1)
    BY <1>1
  <2>5. /\ v.from = a => I = J \ {q.of}
        /\ v.from # a => I = J
        /\ v.to = a => O = P \ {q.of}
        /\ v.to # a => O = P
    BY <1>1, <1>5, <1>13, <1>14, <2>1, <2>3, <2>4
  <2>6. /\ v.from = a => q.of \in J
        /\ v.to = a => q.of \in P
        /\ \A i \in J : f[i] \in Int /\ g[i] = f[i]
        /\ \A i \in P : f[i] \in Int /\ g[i] = f[i]
    BY <1>13, <1>15, <2>1, <2>2
  <2>7. SumFunctionOnSet(g, I) = SumFunctionOnSet(f, J) - (IF v.from = a THEN f[q.of] ELSE 0)
    <3>1. CASE v.from = a
      <4>1. PICK y \in J : y = q.of
        BY <2>6, <3>1
      <4>2. IsFiniteSet(J) /\ \A x \in J : f[x] \in Int /\ g[x] = f[x]
        BY <1>15, <2>6
      <4>3. SumFunctionOnSet(f, J) = SumFunctionOnSet(g, J) /\ g[y] = f[y]
        BY <4>1, <4>2, SumSame
      <4>4. SumFunctionOnSet(g, J \ {y}) = SumFunctionOnSet(g, J) - g[y]
        BY <4>1, <4>2, SumShrinks
      <4> QED BY <2>5, <3>1, <4>1, <4>3, <4>4
    <3>2. CASE v.from # a
      <4>1. SumFunctionOnSet(g, I) = SumFunctionOnSet(f, J)
        BY <1>15, <2>5, <2>6, <3>2, SumSame
      <4> QED BY <1>15, <3>2, <4>1
    <3> QED BY <3>1, <3>2
  <2>8. SumFunctionOnSet(g, O) = SumFunctionOnSet(f, P) - (IF v.to = a THEN f[q.of] ELSE 0)
    <3>1. CASE v.to = a
      <4>1. PICK y \in P : y = q.of
        BY <2>6, <3>1
      <4>2. IsFiniteSet(P) /\ \A x \in P : f[x] \in Int /\ g[x] = f[x]
        BY <1>15, <2>6
      <4>3. SumFunctionOnSet(f, P) = SumFunctionOnSet(g, P) /\ g[y] = f[y]
        BY <4>1, <4>2, SumSame
      <4>4. SumFunctionOnSet(g, P \ {y}) = SumFunctionOnSet(g, P) - g[y]
        BY <4>1, <4>2, SumShrinks
      <4> QED BY <2>5, <3>1, <4>1, <4>3, <4>4
    <3>2. CASE v.to # a
      <4>1. SumFunctionOnSet(g, O) = SumFunctionOnSet(f, P)
        BY <1>15, <2>5, <2>6, <3>2, SumSame
      <4> QED BY <1>15, <3>2, <4>1
    <3> QED BY <3>1, <3>2
  <2>9. f[q.of] = v.amount
    BY <1>15, <2>1
  <2>10. StandingNet(a)' = StandingNet(a) + (IF v.to = a THEN v.amount ELSE 0)
                                          - (IF v.from = a THEN v.amount ELSE 0)
    BY <1>12, <1>15, <1>16, <2>7, <2>8, <2>9
  <2> QED BY <2>10 DEF q, v
<1> QED BY <1>17, <1>18

\* A commit moves the ledger's balances by that amount too.
LEMMA CommitMovesBalance ==
    ASSUME RequestInv, NEW r \in Attempts, Commit(r), NEW a
    PROVE  LET v == VoucherOf(attempt[r].request)
           IN Balance(a)' = Balance(a) + (IF v.to = a THEN v.amount ELSE 0)
                                       - (IF v.from = a THEN v.amount ELSE 0)
<1> DEFINE v == VoucherOf(attempt[r].request)
           e == EntryOf(v.to, v.from, v.amount, v.day, Ref("transfer", Len(vouchers) + 1))
<1>1. v \in Vouchers
  BY VoucherOfFacts DEF Commit
<1>2. Post(e) /\ LedgerTypeOK /\ Len(vouchers) \in Nat
  BY DEF Commit, RequestInv, TransferTypeOK
<1> HIDE DEF v
<1>3. e \in Entries
  <2>1. /\ v.to \in Accounts /\ v.from \in Accounts /\ v.amount \in Nat /\ v.day \in Nat
    BY <1>1, VaultsAssumption, DaysAssumption DEF Vouchers
  <2>2. Len(vouchers) + 1 \in Nat
    BY <1>2
  <2> QED BY <2>1, <2>2 DEF EntryOf, Ref, Entries, References
<1>5. e.status = "active" /\ e.debit = v.to /\ e.credit = v.from /\ e.amount = v.amount
  BY DEF EntryOf
<1> HIDE DEF e
<1>4. Balance(a)' = Balance(a) + (IF e.debit = a THEN e.amount ELSE 0)
                               - (IF e.credit = a THEN e.amount ELSE 0)
  BY <1>2, <1>3, <1>5, PostMovesBalance
<1> QED BY <1>4, <1>5 DEF v

\* Every request in progress passed prepareTransfer or prepareReversal.
RunningWellFormed ==
    \A r \in Attempts : attempt[r].pc \in Running => WellFormed(attempt[r].request)

BookInv == TransferInv /\ BalancesMatchVouchers /\ RunningWellFormed

\* Only a well-formed request starts, and a request keeps its payload.
LEMMA RunningNext ==
    ASSUME RequestInv, RunningWellFormed, [Next]_vars
    PROVE  RunningWellFormed'
<1> SUFFICES ASSUME NEW s \in Attempts, attempt'[s].pc \in Running
             PROVE  WellFormed(attempt'[s].request)
  BY DEF RunningWellFormed, WellFormed
<1>1. attempt[s].pc \in Running => WellFormed(attempt[s].request)
  BY DEF RunningWellFormed
<1>2. ASSUME NEW r \in Attempts, NEW q \in Requests, Submit(r, q)
      PROVE  WellFormed(attempt'[s].request)
  <2>1. CASE s = r
    <3>1. attempt'[s] = [pc |-> IF WellFormed(q) THEN "key" ELSE "failed",
                         request |-> q, tries |-> 1, reply |-> 0]
      BY <1>2, <2>1 DEF Submit, RequestInv, TransferTypeOK
    <3>2. attempt'[s].request = q /\ attempt'[s].pc = IF WellFormed(q) THEN "key" ELSE "failed"
      BY <3>1
    <3> QED BY <3>2 DEF Running, InTransaction
  <2>2. CASE s # r
    <3>1. attempt'[s] = attempt[s]
      BY <1>2, <2>2 DEF Submit, RequestInv, TransferTypeOK
    <3> QED BY <1>1, <3>1
  <2> QED BY <2>1, <2>2
<1>3. ASSUME NEW r \in Attempts, attempt[r].pc \in Running,
             \A u \in Attempts \ {r} : attempt'[u] = attempt[u],
             attempt'[r].request = attempt[r].request
      PROVE  WellFormed(attempt'[s].request)
  BY <1>1, <1>3
<1>4. ASSUME NEW r \in Attempts, attempt[r].pc \in Running
      PROVE  attempt[r] \in [pc : Running \cup {"done", "failed"}, request : Requests,
                             tries : 1..RetryMax, reply : Nat]
  BY <1>4 DEF RequestInv, TransferTypeOK, Unsent, Running, InTransaction
<1>5. ASSUME NEW r \in Attempts, attempt[r].pc \in Running
      PROVE  /\ \A pc : Goto(r, pc) => WellFormed(attempt'[s].request)
             /\ \A i : Replay(r, i) => WellFormed(attempt'[s].request)
  <2>1. attempt[r] \in [pc : Running \cup {"done", "failed"}, request : Requests,
                        tries : 1..RetryMax, reply : Nat]
    BY <1>4, <1>5
  <2>2. ASSUME NEW pc, Goto(r, pc) PROVE WellFormed(attempt'[s].request)
    <3>1. \A u \in Attempts \ {r} : attempt'[u] = attempt[u]
      BY <2>2 DEF Goto, RequestInv, TransferTypeOK
    <3>2. attempt'[r] = [pc |-> pc, request |-> attempt[r].request,
                         tries |-> attempt[r].tries, reply |-> attempt[r].reply]
      BY <2>1, <2>2 DEF Goto, RequestInv, TransferTypeOK
    <3>3. attempt'[r].request = attempt[r].request
      BY <3>2
    <3> QED BY <1>3, <1>5, <3>1, <3>3
  <2>3. ASSUME NEW i, attempt' = [attempt EXCEPT ![r].pc = "done", ![r].reply = i]
        PROVE  WellFormed(attempt'[s].request)
    <3>1. \A u \in Attempts \ {r} : attempt'[u] = attempt[u]
      BY <2>3 DEF RequestInv, TransferTypeOK
    <3>2. attempt'[r] = [pc |-> "done", request |-> attempt[r].request,
                         tries |-> attempt[r].tries, reply |-> i]
      BY <2>1, <2>3 DEF RequestInv, TransferTypeOK
    <3>3. attempt'[r].request = attempt[r].request
      BY <3>2
    <3> QED BY <1>3, <1>5, <3>1, <3>3
  <2> QED BY <2>2, <2>3 DEF Replay, Fail
<1>6. ASSUME NEW r \in Attempts, Commit(r) PROVE WellFormed(attempt'[s].request)
  <2>1. attempt[r].pc \in Running
    BY <1>6 DEF Commit, At, Running, InTransaction
  <2>2. PICK n : attempt' = [attempt EXCEPT ![r].pc = "done", ![r].reply = n]
    BY <1>6 DEF Commit
  <2>3. \A u \in Attempts \ {r} : attempt'[u] = attempt[u]
    BY <2>2 DEF RequestInv, TransferTypeOK
  <2>4. attempt'[r] = [pc |-> "done", request |-> attempt[r].request,
                       tries |-> attempt[r].tries, reply |-> n]
    BY <1>4, <2>1, <2>2 DEF RequestInv, TransferTypeOK
  <2>5. attempt'[r].request = attempt[r].request
    BY <2>4
  <2> QED BY <1>3, <2>1, <2>3, <2>5
<1>7. ASSUME NEW r \in Attempts, Conflict(r) PROVE WellFormed(attempt'[s].request)
  <2>1. attempt[r].pc \in Running
    BY <1>7 DEF Conflict, At, Running, InTransaction
  <2>2. CASE attempt' = [attempt EXCEPT ![r].pc = "key", ![r].tries = @ + 1]
    <3>1. \A u \in Attempts \ {r} : attempt'[u] = attempt[u]
      BY <2>2 DEF RequestInv, TransferTypeOK
    <3>2. attempt'[r] = [pc |-> "key", request |-> attempt[r].request,
                         tries |-> attempt[r].tries + 1, reply |-> attempt[r].reply]
      BY <1>4, <2>1, <2>2 DEF RequestInv, TransferTypeOK
    <3>3. attempt'[r].request = attempt[r].request
      BY <3>2
    <3> QED BY <1>3, <2>1, <3>1, <3>3
  <2> QED BY <1>5, <1>7, <2>1, <2>2 DEF Conflict, Fail
<1>8. ASSUME NEW r \in Attempts,
             \/ FindByKey(r) \/ ReadOriginal(r) \/ CheckPeriod(r) \/ CheckEndpoints(r)
             \/ Collide(r) \/ Resolve(r) \/ Crash(r)
      PROVE  WellFormed(attempt'[s].request)
  <2>1. attempt[r].pc \in Running
    BY <1>8 DEF FindByKey, ReadOriginal, CheckPeriod, CheckEndpoints, Collide, Resolve,
                Crash, At, Running, InTransaction
  <2> QED
    BY <1>5, <1>8, <2>1 DEF FindByKey, ReadOriginal, CheckPeriod, CheckEndpoints, Collide,
                Resolve, Crash, Fail
<1>9. CASE UNCHANGED attempt
  BY <1>1, <1>9
<1> QED BY <1>2, <1>6, <1>7, <1>8, <1>9 DEF Next, Serve, Disturb, vars

LEMMA BookInvInit == Init => BookInv
<1> SUFFICES ASSUME Init PROVE BookInv
  OBVIOUS
<1>1. TransferInv
  BY RequestInitInv, VaultInitInv, PeriodInitInv DEF Init, TransferInv
<1>2. RunningWellFormed
  BY DEF Init, TransferInit, RunningWellFormed, Unsent, Running, InTransaction
<1>3. \A a : Balance(a) = 0 /\ StandingNet(a) = 0
  <2>1. ledger = <<>> /\ vouchers = <<>>
    BY DEF Init, TransferInit
  <2>2. ActiveEntries = {} /\ Standing = {}
    BY <2>1 DEF ActiveEntries, Standing
  <2> QED BY <2>2, SumEmpty DEF Balance, Total, StandingNet
<1> QED BY <1>1, <1>2, <1>3 DEF BookInv, BalancesMatchVouchers

LEMMA BookInvNext == BookInv /\ [Next]_vars => BookInv'
<1> SUFFICES ASSUME BookInv, [Next]_vars PROVE BookInv'
  OBVIOUS
<1>1. TransferInv'
  <2>1. [VaultNext]_vaultVars /\ [PeriodNext]_periodVars
    BY DEF Next, vars, Serve, Disturb, vaultVars, periodVars
  <2> QED
    BY <2>1, RequestNextInv, VaultNextInv, PeriodNextInv DEF BookInv, TransferInv
<1>2. RunningWellFormed'
  BY RunningNext DEF BookInv, TransferInv
<1>3. BalancesMatchVouchers'
  <2>1. ASSUME NEW r \in Attempts, Commit(r) PROVE BalancesMatchVouchers'
    <3> SUFFICES ASSUME NEW a \in Vaults PROVE Balance(a)' = StandingNet(a)'
      BY DEF BalancesMatchVouchers
    <3>1. Balance(a) = StandingNet(a)
      BY DEF BookInv, BalancesMatchVouchers
    <3> QED BY <2>1, <3>1, CommitMovesBalance, CommitMovesStanding DEF BookInv, TransferInv
  <2>2. ASSUME UNCHANGED <<vouchers, ledger>> PROVE BalancesMatchVouchers'
    BY <2>2 DEF BookInv, BalancesMatchVouchers, Balance, Total, Amounts, ActiveEntries,
                StandingNet, Standing
  <2> QED BY <2>1, <2>2 DEF Next, vars, Serve, Disturb
<1> QED BY <1>1, <1>2, <1>3 DEF BookInv

LEMMA BookInvAlways == Spec => []BookInv
BY BookInvInit, BookInvNext, PTL DEF Spec

-----------------------------------------------------------------------------
(* The theorems.                                                           *)

\* Vouchers, ledger entries, requests, vaults and periods keep their types,
\* whatever the requests, clerks and administrators interleave.
THEOREM TransferTypesHold == Spec => []TypeOK
<1>1. TransferInv => TypeOK
  BY DEF TransferInv, RequestInv, VaultInv, PeriodInv, TypeOK
<1> QED
  BY <1>1, TransferInvAlways, PTL

\* However a transfer or a reversal is retried, raced or repeated after a
\* crash, its idempotency key posts one voucher at most.
THEOREM KeyAppliedOnceHolds == Spec => []KeyAppliedOnce
<1>1. TransferInv => KeyAppliedOnce
  BY DEF TransferInv, RequestInv
<1> QED
  BY <1>1, TransferInvAlways, PTL

\* A request that succeeds is answered with the voucher posted for it, never
\* with another request's (assertSameRequest on every replay path).
THEOREM ReplyIsOwnHolds == Spec => []ReplyIsOwn
<1>1. TransferInv => ReplyIsOwn
  BY DEF TransferInv, RequestInv
<1> QED
  BY <1>1, TransferInvAlways, PTL

\* Reversals pair off with their originals: a voucher is reversed once at
\* most, by its exact opposite, and is marked so if and only if it is.
THEOREM ReversalsPairedHolds == Spec => []ReversalsPaired
<1>1. TransferInv => ReversalsPaired
  BY DEF TransferInv, RequestInv
<1> QED
  BY <1>1, TransferInvAlways, PTL

\* Two vaults never share an account code, though both clerks may have read
\* the same largest code (create in vaults.service.ts).
THEOREM CodesDistinctHolds == Spec => []CodesDistinct
<1>1. TransferInv => CodesDistinct
  BY DEF TransferInv, VaultInv
<1> QED
  BY <1>1, TransferInvAlways, PTL

\* A posted voucher is never deleted or changed, except that it is marked
\* reversed once (postReversal).
THEOREM VouchersImmutableHolds == Spec => VouchersImmutable
<1> DEFINE Kept ==
      \A i \in DOMAIN vouchers :
          /\ i \in DOMAIN vouchers'
          /\ \/ vouchers'[i] = vouchers[i]
             \/ /\ vouchers[i].status = "posted"
                /\ vouchers'[i] = [vouchers[i] EXCEPT !.status = "reversed"]
<1>1. ASSUME TransferInv, [Next]_vars PROVE [Kept]_vars
  <2>1. ASSUME NEW r \in Attempts, Commit(r) PROVE Kept
    <3> DEFINE q == attempt[r].request
               n == Len(vouchers)
    <3>1. /\ n \in Nat
          /\ DOMAIN vouchers = 1..n /\ DOMAIN vouchers' = 1..(n + 1)
          /\ \A i \in 1..n :
                vouchers'[i] = IF q.op = "reversal" /\ i = q.of
                               THEN [vouchers[i] EXCEPT !.status = "reversed"]
                               ELSE vouchers[i]
      BY <1>1, <2>1, CommitEffect DEF TransferInv
    <3>2. ASSUME q.op = "reversal", q.of \in 1..n PROVE vouchers[q.of].status = "posted"
      <4>1. ReversedBy(q.of) = {}
        BY <2>1, <3>2 DEF Commit, Duplicate
      <4>2. vouchers[q.of].status # "reversed"
        BY <1>1, <3>1, <3>2, <4>1 DEF TransferInv, RequestInv, ReversalsPaired
      <4>3. vouchers[q.of] \in Vouchers
        BY <1>1, <3>1, <3>2 DEF TransferInv, RequestInv, TransferTypeOK
      <4> QED
        BY <4>2, <4>3 DEF Vouchers
    <3> HIDE DEF q, n
    <3> QED
      BY <3>1, <3>2
  <2>2. ASSUME UNCHANGED vouchers PROVE Kept
    BY <2>2
  <2> QED
    BY <1>1, <2>1, <2>2 DEF Next, vars, Serve, Disturb
<1> QED
  BY <1>1, TransferInvAlways, PTL DEF Spec, VouchersImmutable

\* The balance of every vault is what the standing transfers amount to:
\* postTransfer and postReversal move both tables by the same amount, and a
\* reversal takes away exactly what its original brought.
THEOREM BalancesMatchVouchersHolds == Spec => []BalancesMatchVouchers
<1>1. BookInv => BalancesMatchVouchers
  BY DEF BookInv
<1> QED
  BY <1>1, BookInvAlways, PTL

-----------------------------------------------------------------------------
(* The service implements the abstract book.                               *)

\* Effect, of any table of vouchers.
EffectIn(table, k) ==
    LET W == {i \in DOMAIN table : table[i].request.key = k} IN
    IF W = {} THEN [kind |-> "none"]
    ELSE LET v == table[CHOOSE i \in W : TRUE] IN
         IF v.of # 0 THEN [kind |-> "undoing", target |-> table[v.of].request.key]
         ELSE [kind |-> IF v.status = "posted" THEN "moved" ELSE "undone",
               from |-> v.from, to |-> v.to, amount |-> v.amount]

LEMMA EffectIsIn ==
    /\ \A k : Effect(k) = EffectIn(vouchers, k)
    /\ \A k : Effect(k)' = EffectIn(vouchers', k)
BY DEF Effect, EffectIn, WithKey

\* The one voucher posted under a key says what took effect.
LEMMA EffectAt ==
    ASSUME NEW table, NEW k, NEW i \in DOMAIN table, table[i].request.key = k,
           \A j \in DOMAIN table : table[j].request.key = k => j = i
    PROVE  EffectIn(table, k) =
             IF table[i].of # 0
             THEN [kind |-> "undoing", target |-> table[table[i].of].request.key]
             ELSE [kind |-> IF table[i].status = "posted" THEN "moved" ELSE "undone",
                   from |-> table[i].from, to |-> table[i].to, amount |-> table[i].amount]
<1> DEFINE W == {j \in DOMAIN table : table[j].request.key = k}
<1>1. W = {i}
  OBVIOUS
<1>2. (CHOOSE j \in W : TRUE) = i
  BY <1>1
<1> QED BY <1>1, <1>2 DEF EffectIn

LEMMA EffectNone ==
    ASSUME NEW table, NEW k, \A j \in DOMAIN table : table[j].request.key # k
    PROVE  EffectIn(table, k) = [kind |-> "none"]
BY DEF EffectIn

\* A commit is a movement of the abstract book.
LEMMA CommitIsMovement ==
    ASSUME BookInv, NEW r \in Attempts, Commit(r)
    PROVE  Book!BookNext
<1> DEFINE q == attempt[r].request
           v == VoucherOf(q)
           n == Len(vouchers)
<1>1. /\ n \in Nat
      /\ DOMAIN vouchers = 1..n /\ DOMAIN vouchers' = 1..(n + 1)
      /\ vouchers'[n + 1] = v
      /\ \A i \in 1..n :
            vouchers'[i] = IF q.op = "reversal" /\ i = q.of
                           THEN [vouchers[i] EXCEPT !.status = "reversed"]
                           ELSE vouchers[i]
  BY CommitEffect DEF BookInv, TransferInv
<1>2. /\ q \in Requests
      /\ v \in Vouchers
      /\ v.request = q /\ v.status = "posted"
      /\ q.op = "transfer" => v.of = 0
      /\ q.op # "transfer" =>
            /\ q.op = "reversal"
            /\ q.of \in 1..n
            /\ v.of = q.of
            /\ vouchers[q.of].of = 0
            /\ v.from = vouchers[q.of].to /\ v.to = vouchers[q.of].from
            /\ v.amount = vouchers[q.of].amount
  BY <1>1, VoucherOfFacts DEF Commit, BookInv, TransferInv
<1>3. /\ WithKey(q.key) = {}
      /\ q.op = "reversal" => ReversedBy(q.of) = {}
  BY DEF Commit, Duplicate
<1>4. /\ vouchers \in Seq(Vouchers)
      /\ \A i \in 1..n : vouchers[i] \in Vouchers
      /\ \A i \in 1..n : vouchers[i].of # 0 => vouchers[i].of \in 1..n
      /\ \A i, j \in 1..n : vouchers[i].request.key = vouchers[j].request.key => i = j
  BY <1>1 DEF BookInv, TransferInv, RequestInv, TransferTypeOK, ReversalsPaired, KeyAppliedOnce
<1>5. WellFormed(q)
  BY DEF BookInv, RunningWellFormed, Commit, At, Running, InTransaction
<1>6. q.op = "transfer" => /\ v.from = q.from /\ v.to = q.to /\ v.amount = q.amount
                           /\ q \in Transfers
  BY <1>2 DEF VoucherOf, Transfers
<1>7. \A a : Balance(a)' = Balance(a) + (IF a = v.to THEN v.amount ELSE 0)
                                      - (IF a = v.from THEN v.amount ELSE 0)
  BY CommitMovesBalance DEF BookInv, TransferInv
<1> HIDE DEF q, v, n
<1>8. \A i \in 1..n :
          /\ vouchers'[i].request = vouchers[i].request
          /\ vouchers'[i].from = vouchers[i].from
          /\ vouchers'[i].to = vouchers[i].to
          /\ vouchers'[i].amount = vouchers[i].amount
          /\ vouchers'[i].of = vouchers[i].of
          /\ vouchers'[i].status =
                IF q.op = "reversal" /\ i = q.of THEN "reversed" ELSE vouchers[i].status
  <2>1. \A i \in 1..n : vouchers[i] \in Vouchers
    BY <1>4
  <2> QED BY <1>1, <2>1 DEF Vouchers
<1>9. /\ \A i \in 1..(n + 1) : i \in 1..n \/ i = n + 1
      /\ 1..n \subseteq 1..(n + 1) /\ n + 1 \in 1..(n + 1)
  BY <1>1
<1>10. \A i \in 1..n : vouchers[i].request.key # q.key
  BY <1>1, <1>3 DEF WithKey
<1>11. q.key \in Keys /\ \A i \in 1..n : vouchers[i].request.key \in Keys
  BY <1>2, <1>4 DEF Keys, Vouchers
\* What took effect under the other keys.
<1>12. ASSUME NEW k \in Keys, k # q.key,
              q.op = "transfer" \/ k # vouchers[q.of].request.key
       PROVE  EffectIn(vouchers', k) = EffectIn(vouchers, k)
  <2>1. CASE \E i \in 1..n : vouchers[i].request.key = k
    <3>1. PICK i \in 1..n : vouchers[i].request.key = k
      BY <2>1
    <3>2. \A j \in 1..n : vouchers[j].request.key = k => j = i
      BY <1>4, <3>1
    <3>3. \A j \in 1..(n + 1) : vouchers'[j].request.key = k => j = i
      BY <1>1, <1>2, <1>8, <1>9, <1>12, <3>2
    <3>4. /\ vouchers'[i].request.key = k
          /\ vouchers'[i].of = vouchers[i].of /\ vouchers'[i].status = vouchers[i].status
          /\ vouchers'[i].from = vouchers[i].from /\ vouchers'[i].to = vouchers[i].to
          /\ vouchers'[i].amount = vouchers[i].amount
          /\ vouchers[i].of # 0 =>
                vouchers'[vouchers[i].of].request = vouchers[vouchers[i].of].request
      BY <1>2, <1>4, <1>8, <1>12, <3>1
    <3>5. EffectIn(vouchers, k) =
             IF vouchers[i].of # 0
             THEN [kind |-> "undoing", target |-> vouchers[vouchers[i].of].request.key]
             ELSE [kind |-> IF vouchers[i].status = "posted" THEN "moved" ELSE "undone",
                   from |-> vouchers[i].from, to |-> vouchers[i].to,
                   amount |-> vouchers[i].amount]
      BY <1>1, <3>1, <3>2, EffectAt
    <3>6. EffectIn(vouchers', k) =
             IF vouchers'[i].of # 0
             THEN [kind |-> "undoing", target |-> vouchers'[vouchers'[i].of].request.key]
             ELSE [kind |-> IF vouchers'[i].status = "posted" THEN "moved" ELSE "undone",
                   from |-> vouchers'[i].from, to |-> vouchers'[i].to,
                   amount |-> vouchers'[i].amount]
      <4>1. i \in DOMAIN vouchers' /\ vouchers'[i].request.key = k
            /\ \A j \in DOMAIN vouchers' : vouchers'[j].request.key = k => j = i
        BY <1>1, <1>9, <3>3, <3>4
      <4> QED BY <4>1, EffectAt
    <3> QED BY <3>4, <3>5, <3>6
  <2>2. CASE \A i \in 1..n : vouchers[i].request.key # k
    <3>1. \A j \in 1..(n + 1) : vouchers'[j].request.key # k
      BY <1>1, <1>2, <1>8, <1>9, <1>12, <2>2
    <3> QED BY <1>1, <2>2, <3>1, EffectNone
  <2> QED BY <2>1, <2>2
<1>13. EffectIn(vouchers, q.key) = [kind |-> "none"]
  BY <1>1, <1>10, EffectNone
<1>14. EffectIn(vouchers', q.key) =
          IF v.of # 0 THEN [kind |-> "undoing", target |-> vouchers'[v.of].request.key]
          ELSE [kind |-> "moved", from |-> v.from, to |-> v.to, amount |-> v.amount]
  <2>1. \A j \in 1..(n + 1) : vouchers'[j].request.key = q.key => j = n + 1
    BY <1>8, <1>9, <1>10
  <2>2. EffectIn(vouchers', q.key) =
             IF vouchers'[n + 1].of # 0
             THEN [kind |-> "undoing", target |-> vouchers'[vouchers'[n + 1].of].request.key]
             ELSE [kind |-> IF vouchers'[n + 1].status = "posted" THEN "moved" ELSE "undone",
                   from |-> vouchers'[n + 1].from, to |-> vouchers'[n + 1].to,
                   amount |-> vouchers'[n + 1].amount]
    BY <1>1, <1>2, <1>9, <2>1, EffectAt
  <2> QED BY <1>1, <1>2, <2>2
<1> DEFINE M == [k \in Keys |-> EffectIn(vouchers, k)]
           N == [k \in Keys |-> EffectIn(vouchers', k)]
<1>15. [k \in Keys |-> Effect(k)] = M /\ [k \in Keys |-> Effect(k)]' = N
  BY EffectIsIn
<1>16. M[q.key] = [kind |-> "none"] /\ N[q.key] # [kind |-> "none"]
  <2>1. N[q.key] = EffectIn(vouchers', q.key) /\ M[q.key] = EffectIn(vouchers, q.key)
    BY <1>11
  <2>2. N[q.key].kind # "none"
    BY <1>14, <2>1
  <2> QED BY <1>13, <2>1, <2>2
<1>17. CASE q.op = "transfer"
  <2>1. N = [M EXCEPT ![q.key] = [kind |-> "moved", from |-> v.from, to |-> v.to,
                                  amount |-> v.amount]]
    BY <1>2, <1>11, <1>12, <1>14, <1>17
  <2>2. v.from # v.to /\ v.from \in Vaults /\ v.to \in Vaults
        /\ v.amount \in {t.amount : t \in Transfers}
    BY <1>2, <1>5, <1>6, <1>17 DEF WellFormed, Vouchers
  <2> HIDE DEF M, N
  <2>3. Book!Move(q.key, v.from, v.to, v.amount)
    BY <1>7, <1>15, <2>1, <2>2 DEF Book!Move, Book!Shift
  <2> QED
    BY <1>11, <1>15, <1>16, <2>2, <2>3 DEF Book!BookNext, Book!Nothing
<1>18. CASE q.op # "transfer"
  <2>1. PICK t : t = vouchers[q.of].request.key
    OBVIOUS
  <2>2. /\ q.op = "reversal" /\ q.of \in 1..n /\ q.of # 0 /\ v.of = q.of
        /\ vouchers[q.of].of = 0 /\ vouchers[q.of].request.key = t
        /\ t \in Keys /\ t # q.key
    BY <1>1, <1>2, <1>10, <1>11, <1>18, <2>1
  <2>3. vouchers[q.of].status = "posted"
    <3>1. vouchers[q.of].status # "reversed"
      BY <1>1, <1>3, <2>2 DEF BookInv, TransferInv, RequestInv, ReversalsPaired
    <3> QED BY <1>4, <2>2, <3>1 DEF Vouchers
  <2>4. EffectIn(vouchers, t) =
            [kind |-> "moved", from |-> vouchers[q.of].from, to |-> vouchers[q.of].to,
             amount |-> vouchers[q.of].amount]
    <3>1. \A j \in 1..n : vouchers[j].request.key = t => j = q.of
      BY <1>4, <2>2
    <3>2. EffectIn(vouchers, t) =
             IF vouchers[q.of].of # 0
             THEN [kind |-> "undoing", target |-> vouchers[vouchers[q.of].of].request.key]
             ELSE [kind |-> IF vouchers[q.of].status = "posted" THEN "moved" ELSE "undone",
                   from |-> vouchers[q.of].from, to |-> vouchers[q.of].to,
                   amount |-> vouchers[q.of].amount]
      BY <1>1, <2>2, <3>1, EffectAt
    <3> QED BY <2>2, <2>3, <3>2
  <2>5. EffectIn(vouchers', t) =
            [kind |-> "undone", from |-> vouchers[q.of].from, to |-> vouchers[q.of].to,
             amount |-> vouchers[q.of].amount]
    <3>1. \A j \in 1..(n + 1) : vouchers'[j].request.key = t => j = q.of
      BY <1>1, <1>2, <1>4, <1>8, <1>9, <2>2
    <3>2. /\ vouchers'[q.of].request.key = t /\ vouchers'[q.of].of = 0
          /\ vouchers'[q.of].status = "reversed"
          /\ vouchers'[q.of].from = vouchers[q.of].from
          /\ vouchers'[q.of].to = vouchers[q.of].to
          /\ vouchers'[q.of].amount = vouchers[q.of].amount
      BY <1>8, <2>2
    <3>3. EffectIn(vouchers', t) =
             IF vouchers'[q.of].of # 0
             THEN [kind |-> "undoing", target |-> vouchers'[vouchers'[q.of].of].request.key]
             ELSE [kind |-> IF vouchers'[q.of].status = "posted" THEN "moved" ELSE "undone",
                   from |-> vouchers'[q.of].from, to |-> vouchers'[q.of].to,
                   amount |-> vouchers'[q.of].amount]
      <4>1. q.of \in DOMAIN vouchers' /\ vouchers'[q.of].request.key = t
            /\ \A j \in DOMAIN vouchers' : vouchers'[j].request.key = t => j = q.of
        BY <1>1, <1>9, <2>2, <3>1, <3>2
      <4> QED BY <4>1, EffectAt
    <3> QED BY <3>2, <3>3
  <2>6. EffectIn(vouchers', q.key) = [kind |-> "undoing", target |-> t]
    BY <1>8, <1>14, <2>2
  <2>7. /\ M[t] = [kind |-> "moved", from |-> v.to, to |-> v.from, amount |-> v.amount]
        /\ N[t] = [kind |-> "undone", from |-> v.to, to |-> v.from, amount |-> v.amount]
        /\ N[q.key] = [kind |-> "undoing", target |-> t]
        /\ \A k \in Keys \ {q.key, t} : N[k] = M[k]
    BY <1>2, <1>11, <1>12, <1>18, <2>2, <2>4, <2>5, <2>6
  <2>8. M = [k \in Keys |-> M[k]] /\ N = [k \in Keys |-> N[k]]
    OBVIOUS
  <2> HIDE DEF M, N
  <2>9. N = [M EXCEPT ![q.key] = [kind |-> "undoing", target |-> t], ![t].kind = "undone"]
    <3>1. PICK A : A = [M EXCEPT ![q.key] = [kind |-> "undoing", target |-> t]]
      OBVIOUS
    <3>2. A = [k \in Keys |-> A[k]] /\ A[q.key] = [kind |-> "undoing", target |-> t]
          /\ \A k \in Keys \ {q.key} : A[k] = M[k]
      BY <1>11, <2>8, <3>1
    <3>3. [A[t] EXCEPT !.kind = "undone"] = N[t]
      BY <2>2, <2>7, <3>2
    <3>4. N = [A EXCEPT ![t] = N[t]]
      BY <2>2, <2>7, <2>8, <3>2
    <3> QED BY <3>1, <3>3, <3>4
  <2>10. Book!Undo(q.key, t)
    <3>1. M[t].kind = "moved" /\ M[t].to = v.from /\ M[t].from = v.to /\ M[t].amount = v.amount
      BY <2>7
    <3> QED BY <1>7, <1>15, <2>9, <3>1 DEF Book!Undo, Book!Shift
  <2> QED
    BY <1>11, <1>15, <1>16, <2>2, <2>10 DEF Book!BookNext, Book!Nothing
<1> QED BY <1>17, <1>18

\* Every step of the requests, of the clerks and of the administrators is one
\* movement of the abstract book or none: what processTransfer and
\* reverseTransfer promise their callers.
THEOREM ImplementsBookHolds == Spec => ImplementsBook
<1>1. Init => Book!BookInit
  <2> SUFFICES ASSUME Init PROVE Book!BookInit
    OBVIOUS
  <2>1. ledger = <<>> /\ vouchers = <<>>
    BY DEF Init, TransferInit
  <2>2. ActiveEntries = {}
    BY <2>1 DEF ActiveEntries
  <2>3. \A a : Balance(a) = 0
    BY <2>2, SumEmpty DEF Balance, Total
  <2>4. \A k : Effect(k) = [kind |-> "none"]
    BY <2>1 DEF Effect, WithKey
  <2> QED BY <2>3, <2>4 DEF Book!BookInit, Book!Nothing
<1>2. BookInv /\ [Next]_vars =>
          [Book!BookNext]_<<[k \in Keys |-> Effect(k)], [v \in Vaults |-> Balance(v)]>>
  <2> DEFINE movement == [k \in Keys |-> Effect(k)]
             balance  == [v \in Vaults |-> Balance(v)]
  <2> SUFFICES ASSUME BookInv, [Next]_vars PROVE Book!BookNext \/ UNCHANGED <<movement, balance>>
    OBVIOUS
  <2>1. ASSUME NEW r \in Attempts, Commit(r) PROVE Book!BookNext
    BY <2>1, CommitIsMovement
  <2>2. ASSUME UNCHANGED <<vouchers, ledger>> PROVE UNCHANGED <<movement, balance>>
    <3>1. UNCHANGED movement
      BY <2>2, EffectIsIn
    <3>2. UNCHANGED balance
      BY <2>2 DEF Balance, Total, Amounts, ActiveEntries
    <3> QED BY <3>1, <3>2
  <2> HIDE DEF movement, balance
  <2> QED BY <2>1, <2>2 DEF Next, vars, Serve, Disturb
<1> QED
  BY <1>1, <1>2, BookInvAlways, PTL DEF Spec, ImplementsBook, Book!BookSpec

-----------------------------------------------------------------------------
(* Removals that no request runs into.                                     *)

VouchersMoved ==
    \A i \in DOMAIN vouchers : HasMovement(vouchers[i].from) /\ HasMovement(vouchers[i].to)

\* As long as no request runs while a removal is between its count and its
\* write: a vault about to be removed holds nothing, the vaults of a transfer
\* about to be written are not removed, and those of a voucher hold something.
RemovalsSafe ==
    /\ RemovedHoldsNothing
    /\ \A c \in Clerks : clerk[c].pc = "removing" => ~HasMovement(clerk[c].vault)
    /\ \A r \in Attempts :
          LET q == attempt[r].request IN
          At(r, "write") /\ q.op = "transfer" => vault[q.from].active /\ vault[q.to].active
    /\ VouchersMoved

\* A commit moves money in vaults that are not removed, or held some before.
LEMMA CommitRemoval ==
    ASSUME TransferInv, RemovalAlone, RemovalsSafe, NEW r \in Attempts, Commit(r),
           UNCHANGED vaultVars
    PROVE  RemovalsSafe'
<1> DEFINE q == attempt[r].request
           v == VoucherOf(q)
           n == Len(vouchers)
           e == EntryOf(v.to, v.from, v.amount, v.day, Ref("transfer", n + 1))
<1>1. RequestInv /\ At(r, "write")
  BY DEF TransferInv, Commit
<1>2. /\ ledger \in Seq(Entries) /\ Post(e)
      /\ attempt' = [attempt EXCEPT ![r].pc = "done", ![r].reply = n + 1]
      /\ attempt \in [Attempts -> {Unsent} \cup [pc : Running \cup {"done", "failed"},
                request : Requests, tries : 1..RetryMax, reply : Nat]]
  BY <1>1 DEF Commit, RequestInv, TransferTypeOK, LedgerTypeOK
<1>3. /\ q.op = "transfer" => v.from = q.from /\ v.to = q.to
      /\ q.op # "transfer" => /\ q.of \in DOMAIN vouchers
                              /\ v.from = vouchers[q.of].to /\ v.to = vouchers[q.of].from
  <2>1. q.op = "transfer" => v.from = q.from /\ v.to = q.to
    BY DEF VoucherOf
  <2> HIDE DEF q, v
  <2>2. q.op # "transfer" => /\ q.of \in DOMAIN vouchers
                             /\ v.from = vouchers[q.of].to /\ v.to = vouchers[q.of].from
    BY <1>1, VoucherOfFacts DEF q, v
  <2> QED BY <2>1, <2>2
<1>4. e.debit = v.to /\ e.credit = v.from
  BY DEF EntryOf
<1>5. e \in Entries
  BY <1>1, VoucherOfFacts, CommitEffect, VaultsAssumption, DaysAssumption
     DEF EntryOf, Entries, References, Ref, Vouchers
<1> HIDE DEF e
<1>6. /\ DOMAIN ledger' = DOMAIN ledger \cup {Len(ledger) + 1}
      /\ ledger'[Len(ledger) + 1] = e
      /\ \A i \in DOMAIN ledger : ledger'[i] = ledger[i]
  BY <1>2, <1>5, Appended DEF Post
<1> HIDE DEF v, q
<1>7. \A a : HasMovement(a)' <=> HasMovement(a) \/ a = v.from \/ a = v.to
  <2>1. \A a : HasMovement(a)' <=> \E i \in DOMAIN ledger' : a = ledger'[i].debit
                                                               \/ a = ledger'[i].credit
    BY DEF HasMovement
  <2>2. \A a : HasMovement(a) <=> \E i \in DOMAIN ledger : a = ledger[i].debit
                                                             \/ a = ledger[i].credit
    BY DEF HasMovement
  <2> QED BY <1>4, <1>6, <2>1, <2>2
<1>8. \A c \in Clerks : clerk[c].pc # "removing"
  BY <1>1 DEF RemovalAlone, At, Running, InTransaction
<1>9. vault' = vault /\ clerk' = clerk
  BY DEF vaultVars
<1>10. ASSUME NEW w \in Vaults, Exists(w)', ~vault'[w].active PROVE ~HasMovement(w)'
  <2>1. ~HasMovement(w) /\ ~vault[w].active
    BY <1>9, <1>10 DEF RemovalsSafe, RemovedHoldsNothing, Exists
  <2>2. w # v.from /\ w # v.to
    <3>1. CASE q.op = "transfer"
      <4>1. vault[q.from].active /\ vault[q.to].active
        BY <1>1, <3>1 DEF RemovalsSafe, q
      <4> QED BY <1>3, <2>1, <3>1, <4>1
    <3>2. CASE q.op # "transfer"
      BY <1>3, <2>1, <3>2 DEF RemovalsSafe, VouchersMoved
    <3> QED BY <3>1, <3>2
  <2> QED BY <1>7, <2>1, <2>2
<1>11. ASSUME NEW s \in Attempts, attempt'[s].pc = "write", attempt'[s].request.op = "transfer"
       PROVE  /\ vault'[attempt'[s].request.from].active
              /\ vault'[attempt'[s].request.to].active
  <2>1. s # r /\ attempt'[s] = attempt[s]
    <3>1. attempt[r] \in [pc : Running \cup {"done", "failed"}, request : Requests,
                          tries : 1..RetryMax, reply : Nat]
      BY <1>1, <1>2 DEF At, Unsent
    <3>2. attempt'[r].pc = "done"
      BY <1>2, <3>1
    <3> QED BY <1>2, <1>11, <3>2
  <2> QED BY <1>9, <1>11, <2>1 DEF RemovalsSafe, At
<1>12. VouchersMoved'
  <2> SUFFICES ASSUME NEW i \in DOMAIN vouchers', NEW a,
                      a = vouchers'[i].from \/ a = vouchers'[i].to
               PROVE  HasMovement(a)'
    BY DEF VouchersMoved, HasMovement
  <2>1. /\ n \in Nat /\ DOMAIN vouchers = 1..n /\ DOMAIN vouchers' = 1..(n + 1)
        /\ vouchers'[n + 1] = v
        /\ \A j \in 1..n : vouchers'[j] = IF q.op = "reversal" /\ j = q.of
                                          THEN [vouchers[j] EXCEPT !.status = "reversed"]
                                          ELSE vouchers[j]
        /\ \A j \in 1..n : vouchers[j] \in Vouchers
    <3>1. vouchers \in Seq(Vouchers)
      BY <1>1 DEF RequestInv, TransferTypeOK
    <3>2. \A j \in 1..n : vouchers[j] \in Vouchers
      BY <3>1
    <3> QED BY <1>1, <3>2, CommitEffect DEF q, v
  <2>2. CASE i = n + 1
    BY <1>7, <2>1, <2>2
  <2>3. CASE i # n + 1
    <3>1. i \in DOMAIN vouchers /\ i \in 1..n
      BY <2>1, <2>3
    <3>2. vouchers'[i].from = vouchers[i].from /\ vouchers'[i].to = vouchers[i].to
      BY <2>1, <3>1 DEF Vouchers
    <3>3. HasMovement(vouchers[i].from) /\ HasMovement(vouchers[i].to)
      BY <3>1 DEF RemovalsSafe, VouchersMoved
    <3> QED BY <1>7, <3>2, <3>3
  <2> QED BY <2>2, <2>3
<1>13. RemovedHoldsNothing'
  BY <1>10 DEF RemovedHoldsNothing
<1>14. \A c \in Clerks : clerk'[c].pc # "removing"
  BY <1>8, <1>9
<1> QED BY <1>11, <1>12, <1>13, <1>14 DEF RemovalsSafe, At

\* A clerk's step: a removal is written when nobody is being served.
LEMMA ClerkRemoval ==
    ASSUME TransferInv, RemovalAlone, RemovalsSafe, VaultNext,
           UNCHANGED <<vouchers, attempt, ledger>>
    PROVE  RemovalsSafe'
<1>1. VaultTypeOK /\ TransferTypeOK
  BY DEF TransferInv, VaultInv, RequestInv
<1>2. \A a : HasMovement(a)' <=> HasMovement(a)
  BY DEF HasMovement
<1>3. ASSUME /\ \A w \in Vaults : Exists(w)' /\ ~vault'[w].active => ~HasMovement(w)
             /\ \A c \in Clerks : clerk'[c].pc = "removing" => ~HasMovement(clerk'[c].vault)
             /\ \A w \in Vaults, r \in Attempts :
                   attempt[r].pc = "write" /\ vault[w].active => vault'[w].active
      PROVE  RemovalsSafe'
  <2>1. RemovedHoldsNothing'
    BY <1>2, <1>3 DEF RemovedHoldsNothing
  <2>2. (\A c \in Clerks : clerk[c].pc = "removing" => ~HasMovement(clerk[c].vault))'
    BY <1>3 DEF HasMovement
  <2>3. VouchersMoved'
    BY DEF RemovalsSafe, VouchersMoved, HasMovement
  <2>4. ASSUME NEW r \in Attempts, attempt[r].pc = "write", attempt[r].request.op = "transfer"
        PROVE  /\ vault'[attempt[r].request.from].active
               /\ vault'[attempt[r].request.to].active
    <3>1. attempt[r].request \in Transfers
      BY <1>1, <2>4 DEF TransferTypeOK, Unsent, Transfers
    <3>2. attempt[r].request.from \in Vaults /\ attempt[r].request.to \in Vaults
      BY <3>1, RequestsAssumption
    <3> QED BY <1>3, <2>4, <3>2 DEF RemovalsSafe, At
  <2> QED BY <2>1, <2>2, <2>3, <2>4 DEF RemovalsSafe, At
<1>4. PICK c \in Clerks : \/ OpenRead(c) \/ OpenWrite(c) \/ ArchiveWrite(c) \/ RemoveWrite(c)
                          \/ \E v \in Vaults : ArchiveRead(c, v) \/ RemoveCount(c, v)
  BY DEF VaultNext
<1>5. \A w \in Vaults : vault[w] \in [code : Nat, active : BOOLEAN, archived : BOOLEAN]
  BY <1>1 DEF VaultTypeOK
<1>6. CASE OpenRead(c)
  <2>1. vault' = vault /\ \E k : clerk' = [clerk EXCEPT ![c] = [pc |-> "opening", code |-> k]]
    BY <1>6 DEF OpenRead
  <2>2. \A d \in Clerks : clerk'[d].pc = "removing" => clerk'[d] = clerk[d]
    BY <1>1, <2>1 DEF VaultTypeOK
  <2> QED BY <1>3, <2>1, <2>2 DEF RemovalsSafe, RemovedHoldsNothing, Exists
<1>7. CASE \E v \in Vaults : ArchiveRead(c, v)
  <2>1. /\ vault' = vault
        /\ \E v, b : clerk' = [clerk EXCEPT ![c] = [pc |-> "archiving", vault |-> v, seen |-> b]]
    BY <1>7 DEF ArchiveRead
  <2>2. \A d \in Clerks : clerk'[d].pc = "removing" => clerk'[d] = clerk[d]
    BY <1>1, <2>1 DEF VaultTypeOK
  <2> QED BY <1>3, <2>1, <2>2 DEF RemovalsSafe, RemovedHoldsNothing, Exists
<1>8. CASE \E v \in Vaults : RemoveCount(c, v)
  <2>1. PICK v \in Vaults : RemoveCount(c, v)
    BY <1>8
  <2>2. /\ vault' = vault /\ ~HasMovement(v)
        /\ clerk' = [clerk EXCEPT ![c] = [pc |-> "removing", vault |-> v]]
    BY <2>1 DEF RemoveCount
  <2>3. clerk'[c].vault = v /\ \A d \in Clerks \ {c} : clerk'[d] = clerk[d]
    BY <1>1, <2>2 DEF VaultTypeOK
  <2> QED BY <1>3, <2>2, <2>3 DEF RemovalsSafe, RemovedHoldsNothing, Exists
<1>9. ASSUME clerk' = [clerk EXCEPT ![c] = NoClerk]
      PROVE  \A d \in Clerks : clerk'[d].pc = "removing" => ~HasMovement(clerk'[d].vault)
  BY <1>1, <1>9 DEF VaultTypeOK, NoClerk, RemovalsSafe
<1>10. CASE OpenWrite(c)
  <2>1. clerk' = [clerk EXCEPT ![c] = NoClerk]
    BY <1>10 DEF OpenWrite
  <2>2. \A w \in Vaults : vault'[w] = vault[w] \/ vault'[w].active
    BY <1>1, <1>10 DEF OpenWrite, VaultTypeOK
  <2>3. \A w \in Vaults : Exists(w)' /\ ~vault'[w].active => ~HasMovement(w)
    BY <2>2 DEF RemovalsSafe, RemovedHoldsNothing, Exists
  <2> QED BY <1>3, <1>9, <2>1, <2>2, <2>3
<1>11. CASE ArchiveWrite(c)
  <2>1. clerk' = [clerk EXCEPT ![c] = NoClerk]
    BY <1>11 DEF ArchiveWrite
  <2>2. \A w \in Vaults : vault'[w].active = vault[w].active /\ vault'[w].code = vault[w].code
    BY <1>1, <1>5, <1>11 DEF ArchiveWrite, VaultTypeOK
  <2>3. \A w \in Vaults : Exists(w)' /\ ~vault'[w].active => ~HasMovement(w)
    BY <2>2 DEF RemovalsSafe, RemovedHoldsNothing, Exists
  <2> QED BY <1>3, <1>9, <2>1, <2>2, <2>3
<1>12. CASE RemoveWrite(c)
  <2>1. /\ clerk[c].pc = "removing" /\ clerk' = [clerk EXCEPT ![c] = NoClerk]
        /\ vault' = [vault EXCEPT ![clerk[c].vault].active = FALSE]
    BY <1>12 DEF RemoveWrite
  <2>2. ~HasMovement(clerk[c].vault) /\ \A r \in Attempts : attempt[r].pc # "write"
    BY <2>1 DEF RemovalsSafe, RemovalAlone, Running, InTransaction
  <2>3. \A w \in Vaults : w # clerk[c].vault => vault'[w] = vault[w]
    BY <1>1, <2>1 DEF VaultTypeOK
  <2>4. \A w \in Vaults : Exists(w)' /\ ~vault'[w].active => ~HasMovement(w)
    BY <2>2, <2>3 DEF RemovalsSafe, RemovedHoldsNothing, Exists
  <2> QED BY <1>3, <1>9, <2>1, <2>2, <2>4
<1> QED BY <1>4, <1>6, <1>7, <1>8, <1>10, <1>11, <1>12

\* A request comes to its write past the check of its vaults.
LEMMA RequestRemoval ==
    ASSUME TransferInv, RemovalsSafe, NEW r \in Attempts,
           \/ FindByKey(r) \/ ReadOriginal(r) \/ CheckPeriod(r) \/ CheckEndpoints(r)
           \/ Collide(r) \/ Resolve(r) \/ Conflict(r) \/ Crash(r)
           \/ \E q \in Requests : Submit(r, q),
           UNCHANGED <<vouchers, ledger, vault, clerk>>
    PROVE  RemovalsSafe'
<1>1. attempt \in [Attempts -> {Unsent} \cup [pc : Running \cup {"done", "failed"},
                request : Requests, tries : 1..RetryMax, reply : Nat]]
  BY DEF TransferInv, RequestInv, TransferTypeOK
<1>2. \A s \in Attempts \ {r} : attempt'[s] = attempt[s]
  BY <1>1 DEF FindByKey, ReadOriginal, CheckPeriod, CheckEndpoints, Collide, Resolve, Conflict,
              Crash, Submit, Goto, Fail, Replay
<1>3. \/ attempt'[r].pc # "write"
      \/ CheckEndpoints(r) /\ attempt' = [attempt EXCEPT ![r].pc = "write"]
           /\ (attempt[r].request.op = "transfer"
                  => Usable(attempt[r].request.from) /\ Usable(attempt[r].request.to))
  <2>1. CASE CheckEndpoints(r)
    <3>1. attempt' = [attempt EXCEPT ![r].pc = "write"] \/ attempt' = [attempt EXCEPT ![r].pc = "failed"]
      BY <2>1 DEF CheckEndpoints, Goto
    <3>2. CASE attempt' = [attempt EXCEPT ![r].pc = "failed"]
      BY <1>1, <2>1, <3>2 DEF CheckEndpoints, At, Unsent
    <3>3. CASE attempt' # [attempt EXCEPT ![r].pc = "failed"]
      BY <2>1, <3>1, <3>3 DEF CheckEndpoints, Goto
    <3> QED BY <3>2, <3>3
  <2>2. CASE \E q \in Requests : Submit(r, q)
    <3>1. PICK q \in Requests : Submit(r, q)
      BY <2>2
    <3>2. attempt'[r].pc \in {"key", "failed"}
      BY <1>1, <3>1 DEF Submit
    <3> QED BY <3>2
  <2>3. ASSUME \/ FindByKey(r) \/ ReadOriginal(r) \/ CheckPeriod(r)
               \/ Collide(r) \/ Resolve(r) \/ Conflict(r) \/ Crash(r)
        PROVE  attempt'[r].pc # "write"
    <3>1. attempt[r] \in [pc : Running \cup {"done", "failed"}, request : Requests,
                          tries : 1..RetryMax, reply : Nat]
      BY <1>1, <2>3 DEF FindByKey, ReadOriginal, CheckPeriod, Collide, Resolve, Conflict, Crash,
                        At, Unsent, Running, InTransaction
    <3>2. ASSUME NEW pc, Goto(r, pc) PROVE attempt'[r].pc = pc
      BY <1>1, <3>1, <3>2 DEF Goto
    <3>3. ASSUME NEW i, attempt' = [attempt EXCEPT ![r].pc = "done", ![r].reply = i]
          PROVE  attempt'[r].pc = "done"
      BY <1>1, <3>1, <3>3
    <3>4. ASSUME attempt' = [attempt EXCEPT ![r].pc = "key", ![r].tries = @ + 1]
          PROVE  attempt'[r].pc = "key"
      BY <1>1, <3>1, <3>4
    <3>5. \A i : Replay(r, i) => attempt'[r].pc # "write"
      BY <3>2, <3>3 DEF Replay, Fail
    <3> QED BY <2>3, <3>2, <3>4, <3>5
               DEF FindByKey, ReadOriginal, CheckPeriod, Collide, Resolve, Conflict, Crash, Fail
  <2> QED BY <2>1, <2>2, <2>3
<1>4. ASSUME NEW s \in Attempts, attempt'[s].pc = "write", attempt'[s].request.op = "transfer"
      PROVE  /\ vault'[attempt'[s].request.from].active
             /\ vault'[attempt'[s].request.to].active
  <2>1. CASE s # r
    BY <1>2, <1>4, <2>1 DEF RemovalsSafe, At
  <2>2. CASE s = r
    <3>1. /\ attempt' = [attempt EXCEPT ![r].pc = "write"] /\ At(r, "endpoints")
          /\ attempt[r].request.op = "transfer"
                => Usable(attempt[r].request.from) /\ Usable(attempt[r].request.to)
      BY <1>3, <1>4, <2>2 DEF CheckEndpoints
    <3>2. attempt[r] \in [pc : Running \cup {"done", "failed"}, request : Requests,
                          tries : 1..RetryMax, reply : Nat]
      BY <1>1, <3>1 DEF At, Unsent
    <3>3. attempt'[r].request = attempt[r].request
      BY <1>1, <3>1, <3>2
    <3> QED BY <1>4, <2>2, <3>1, <3>3 DEF Usable
  <2> QED BY <2>1, <2>2
<1>5. \A a : HasMovement(a)' <=> HasMovement(a)
  BY DEF HasMovement
<1>6. VouchersMoved'
  BY <1>5 DEF RemovalsSafe, VouchersMoved
<1> QED BY <1>4, <1>5, <1>6 DEF RemovalsSafe, RemovedHoldsNothing, Exists, At

\* As long as no request is being served between the count and the write of a
\* removal, a removed vault holds no movement.
THEOREM RemovalAloneIsSafeHolds == Spec => RemovalAloneIsSafe
<1>1. Init => RemovalsSafe
  <2> SUFFICES ASSUME Init PROVE RemovalsSafe
    OBVIOUS
  <2>1. ledger = <<>> /\ vouchers = <<>> /\ \A r \in Attempts : attempt[r].pc = "idle"
    BY DEF Init, TransferInit, Unsent
  <2>2. \A c \in Clerks : clerk[c].pc = "idle"
    BY DEF Init, VaultInit, NoClerk
  <2> QED BY <2>1, <2>2 DEF RemovalsSafe, RemovedHoldsNothing, VouchersMoved, HasMovement, At
<1>2. TransferInv /\ RemovalAlone /\ RemovalsSafe /\ [Next]_vars => RemovalsSafe'
  <2> SUFFICES ASSUME TransferInv, RemovalAlone, RemovalsSafe, [Next]_vars PROVE RemovalsSafe'
    OBVIOUS
  <2>1. CASE UNCHANGED vars
    BY <2>1 DEF vars, RemovalsSafe, RemovedHoldsNothing, VouchersMoved, HasMovement, Exists, At
  <2>2. ASSUME NEW r \in Attempts, Serve(r) PROVE RemovalsSafe'
    BY <2>2, CommitRemoval, RequestRemoval DEF Serve, vaultVars
  <2>3. ASSUME NEW r \in Attempts, Disturb(r) PROVE RemovalsSafe'
    BY <2>3, RequestRemoval DEF Disturb, vaultVars
  <2>4. CASE VaultNext /\ UNCHANGED <<vouchers, attempt, ledger, periodVars>>
    BY <2>4, ClerkRemoval
  <2>5. CASE PeriodNext /\ UNCHANGED <<vouchers, attempt, ledger, vaultVars>>
    BY <2>5 DEF vaultVars, RemovalsSafe, RemovedHoldsNothing, VouchersMoved, HasMovement, Exists, At
  <2> QED BY <2>1, <2>2, <2>3, <2>4, <2>5 DEF Next
<1>3. RemovalsSafe => RemovedHoldsNothing
  BY DEF RemovalsSafe
<1> QED BY <1>1, <1>2, <1>3, TransferInvAlways, PTL DEF Spec, RemovalAloneIsSafe

=============================================================================
