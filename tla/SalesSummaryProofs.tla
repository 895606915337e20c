--------------------------- MODULE SalesSummaryProofs ---------------------------
(***************************************************************************)
(* Daily sales, for any number of requests, vaults, days, batches, amounts *)
(* and periods: summaries keep their numbers apart and their invoices in   *)
(* step (IInv); no sale of an active summary is missing from the ledger    *)
(* (Booked); while no two requests touch one thing at once, a day and      *)
(* shift has one summary and the ledger carries exactly the sales (Told).  *)
(***************************************************************************)
EXTENDS SalesSummary, LedgerProofs

\* The rows, whatever the sums over their channels are.
Totals == {Gross(c) : c \in Channels}
Taxes  == {TaxOf(c, vat) : c \in Channels, vat \in BOOLEAN}
SummaryRows ==
    [number : [day : Days, count : Nat], day : Days, shift : Shifts,
     channels : Channels, status : Statuses,
     invoice : [status : Statuses, day : Days, total : Totals, tax : Taxes]]

\* A request, whatever entries it has found.
Records(r) ==
    [pc : Running \cup {"done", "failed"}, request : Requests, tries : Nat,
     seen : [day : Days \cup {0}, shift : Shifts, numbers : Seq(Nat),
             entries : {attempt[r].seen.entries}]]

Shapes ==
    /\ summaries \in Seq(SummaryRows)
    /\ attempt = [r \in Attempts |-> attempt[r]]
    /\ \A r \in Attempts : attempt[r].pc = "idle" \/ attempt[r] \in Records(r)

\* The numbers a batch has drawn increase, and none is further ahead of the
\* day's count than its place in the batch: what committed since can only
\* have raised the count.
Drawn(a) ==
    LET q == a.request
        numbers == a.seen.numbers
    IN /\ a.pc \in {"period", "shift", "number", "write"}
       /\ \A n \in DOMAIN numbers : numbers[n] <= Cardinality(NumbersOf(q.day)) + n
       /\ \A m, n \in DOMAIN numbers : m < n => numbers[m] < numbers[n]
       /\ a.pc = "period" => Len(q.items) > 0 /\ Len(numbers) = 0
       /\ a.pc \in {"shift", "number"} => Len(numbers) < Len(q.items)
       /\ a.pc = "write" => Len(numbers) = Len(q.items) /\ Len(q.items) > 0

Ready(a) ==
    a.pc \in Running =>
        /\ a.request.op = "create" => Drawn(a)
        /\ a.pc = "preread" => a.request.op \in {"update", "shift"}
        /\ a.request.op = "update" /\ a.pc # "preread" => a.seen.day \in Days

IInv ==
    /\ Shapes
    /\ \A r \in Attempts : Ready(attempt[r])
    /\ NumbersDistinct
    /\ InvoiceMirrorsSummary

-----------------------------------------------------------------------------
(* What the requests are, and how one of them moves.                       *)

LEMMA RequestIsRecord ==
    ASSUME Shapes, NEW r \in Attempts, attempt[r].pc # "idle"
    PROVE  attempt[r] \in Records(r)
BY DEF Shapes

\* The record a request becomes: its step, its tries, what it has seen.
Next4(r, pc, tries, seen) ==
    [pc |-> pc, request |-> attempt[r].request, tries |-> tries, seen |-> seen]

Moves(r, new) == attempt' = [s \in Attempts |-> IF s = r THEN new ELSE attempt[s]]

LEMMA GotoMoves ==
    ASSUME Shapes, NEW r \in Attempts, attempt[r].pc # "idle", NEW pc, Goto(r, pc)
    PROVE  Moves(r, Next4(r, pc, attempt[r].tries, attempt[r].seen))
<1>1. attempt[r] \in Records(r)
  BY RequestIsRecord
<1>2. [attempt[r] EXCEPT !.pc = pc] = Next4(r, pc, attempt[r].tries, attempt[r].seen)
  BY <1>1 DEF Records, Next4
<1>3. attempt' = [s \in Attempts |-> IF s = r THEN [attempt[r] EXCEPT !.pc = pc] ELSE attempt[s]]
  BY DEF Goto, Shapes
<1> QED BY <1>2, <1>3 DEF Moves

\* The shapes survive any move that writes a fitting record.
Fits(new) ==
    new \in [pc : Running \cup {"done", "failed"}, request : Requests, tries : Nat,
             seen : [day : Days \cup {0}, shift : Shifts, numbers : Seq(Nat),
                     entries : {new.seen.entries}]]

LEMMA GotoFits ==
    ASSUME Shapes, NEW r \in Attempts, attempt[r].pc # "idle",
           NEW pc \in Running \cup {"done", "failed"}
    PROVE  Fits(Next4(r, pc, attempt[r].tries, attempt[r].seen))
BY RequestIsRecord DEF Records, Next4, Fits

LEMMA ShapesKept ==
    ASSUME Shapes, NEW r \in Attempts, NEW new, Moves(r, new), summaries' \in Seq(SummaryRows),
           Fits(new)
    PROVE  Shapes'
<1>1. attempt' = [s \in Attempts |-> attempt'[s]]
  BY DEF Moves
<1>2. \A s \in Attempts : attempt'[s].pc = "idle" \/ attempt'[s] \in Records(s)'
  <2> TAKE s \in Attempts
  <2>1. CASE s = r
    <3>1. attempt'[s] = new
      BY <2>1 DEF Moves
    <3> QED BY <3>1 DEF Records, Fits
  <2>2. CASE s # r
    <3>1. attempt'[s] = attempt[s]
      BY <2>2 DEF Moves
    <3> QED BY <3>1 DEF Records, Shapes
  <2> QED BY <2>1, <2>2
<1> QED BY <1>1, <1>2 DEF Shapes

\* A step that writes no summary: it is enough to look at the one record.
LEMMA MoveKeeps ==
    ASSUME IInv, NEW r \in Attempts, NEW new, Moves(r, new), Fits(new), Ready(new),
           UNCHANGED summaries
    PROVE  IInv'
<1>1. Shapes'
  BY ShapesKept DEF IInv, Shapes
<1>2. \A s \in Attempts : Ready(attempt[s])'
  BY DEF IInv, Moves, Ready, Drawn, NumbersOf
<1>3. NumbersDistinct' /\ InvoiceMirrorsSummary'
  BY DEF IInv, NumbersDistinct, InvoiceMirrorsSummary
<1> QED BY <1>1, <1>2, <1>3 DEF IInv

\* ... and if it only goes to another step, at that step's promise.
LEMMA GotoKeeps ==
    ASSUME IInv, NEW r \in Attempts, attempt[r].pc # "idle",
           NEW pc \in Running \cup {"done", "failed"}, Goto(r, pc), UNCHANGED summaries,
           pc \in Running => Ready(Next4(r, pc, attempt[r].tries, attempt[r].seen))
    PROVE  IInv'
<1> DEFINE new == Next4(r, pc, attempt[r].tries, attempt[r].seen)
<1>1. Moves(r, new) /\ Fits(new)
  BY GotoMoves, GotoFits DEF IInv
<1>2. Ready(new)
  BY DEF Ready, Next4
<1> QED BY <1>1, <1>2, MoveKeeps

LEMMA InitIInv == Init => IInv
<1> SUFFICES ASSUME Init PROVE IInv
  OBVIOUS
<1>1. attempt = [r \in Attempts |-> Unsent] /\ summaries = <<>>
  BY DEF Init
<1>2. summaries \in Seq(SummaryRows) /\ DOMAIN summaries = {}
  BY <1>1
<1>3. Shapes
  BY <1>1, <1>2 DEF Shapes, Unsent
<1>4. \A r \in Attempts : Ready(attempt[r])
  BY <1>1 DEF Ready, Unsent, Running
<1>5. NumbersDistinct /\ InvoiceMirrorsSummary
  BY <1>2 DEF NumbersDistinct, InvoiceMirrorsSummary
<1> QED BY <1>3, <1>4, <1>5 DEF IInv

-----------------------------------------------------------------------------
(* The statements before the commit.                                       *)

LEMMA SubmitKeeps ==
    ASSUME IInv, NEW r \in Attempts, NEW q \in Requests, Submit(r, q)
    PROVE  IInv'
<1> DEFINE new == [pc |-> FirstStep(q), request |-> q, tries |-> 1, seen |-> Unread]
<1>1. Moves(r, new) /\ UNCHANGED summaries
  BY DEF Submit, Unwritten, Moves, IInv, Shapes
<1>2. FirstStep(q) \in {"period", "preread", "find", "failed"}
  BY SalesConstants DEF FirstStep
<1>3. Unread \in [day : Days \cup {0}, shift : Shifts, numbers : Seq(Nat),
                  entries : {Unread.entries}]
  BY DEF Unread, Shifts
<1>4. Fits(new)
  BY <1>2, <1>3 DEF Fits, Running
<1>5. Ready(new)
  <2>1. CASE q.op = "create" /\ new.pc \in Running
    <3>1. new.pc = "period" /\ ValidBatch(q.items) /\ q.items \in Seq([shift : Shifts, channels : Channels])
      BY <2>1, SalesConstants DEF FirstStep, Running
    <3>2. Len(q.items) > 0 /\ Unread.numbers = <<>>
      BY <3>1 DEF ValidBatch, Unread
    <3> QED BY <2>1, <3>1, <3>2 DEF Ready, Drawn
  <2>2. CASE q.op # "create"
    BY <2>2, SalesConstants DEF Ready, FirstStep, Running
  <2>3. CASE new.pc \notin Running
    BY <2>3 DEF Ready
  <2> QED BY <2>1, <2>2, <2>3
<1> QED BY <1>1, <1>4, <1>5, MoveKeeps

LEMMA LearnMoves ==
    ASSUME Shapes, NEW r \in Attempts, attempt[r].pc # "idle", NEW seen, NEW pc,
           Learn(r, seen, pc)
    PROVE  Moves(r, Next4(r, pc, attempt[r].tries, seen))
<1>1. attempt[r] \in Records(r)
  BY RequestIsRecord
<1>2. [[attempt[r] EXCEPT !.pc = pc] EXCEPT !.seen = seen] = Next4(r, pc, attempt[r].tries, seen)
  <2> DEFINE a == Next4(r, pc, attempt[r].tries, attempt[r].seen)
  <2>1. [attempt[r] EXCEPT !.pc = pc] = a
    BY <1>1 DEF Records, Next4
  <2>2. [a EXCEPT !.seen = seen] = Next4(r, pc, attempt[r].tries, seen)
    BY DEF Next4
  <2> HIDE DEF a
  <2> QED BY <2>1, <2>2
<1> QED BY <1>2 DEF Learn, Shapes, Moves

LEMMA PrereadKeeps ==
    ASSUME IInv, NEW r \in Attempts, Preread(r)
    PROVE  IInv'
<1> DEFINE q == attempt[r].request
           day == IF q.day = 0 THEN summaries[q.id].day ELSE q.day
           pc == IF q.op = "update" THEN "period" ELSE "shift"
           seen == [day |-> day, shift |-> q.shift, numbers |-> <<>>, entries |-> {}]
           new == Next4(r, pc, attempt[r].tries, seen)
<1>1. attempt[r] \in Records(r) /\ attempt[r].pc = "preread" /\ UNCHANGED summaries
  BY RequestIsRecord DEF IInv, Preread, At, Unwritten
<1>2. q.op # "create"
  BY <1>1 DEF IInv, Ready, Drawn, Running
<1>3. CASE ~(q.id \in DOMAIN summaries /\ summaries[q.id].status = "active")
  BY <1>1, <1>3, GotoKeeps DEF Preread, Fail, Running
<1>4. CASE q.id \in DOMAIN summaries /\ summaries[q.id].status = "active"
  <2>0. q.op \in {"update", "shift"}
    BY <1>1 DEF IInv, Ready, Running
  <2>1. q \in Requests /\ q.shift \in Shifts /\ q.day \in Days \cup {0}
    BY <1>1, <2>0, SalesConstants DEF Records
  <2>a. summaries[q.id] \in SummaryRows
    BY <1>4 DEF IInv, Shapes
  <2>2. day \in Days
    BY <2>a, <2>1 DEF SummaryRows
  <2>3. Learn(r, seen, pc)
    BY <1>4 DEF Preread
  <2>5. Moves(r, new)
    BY <1>1, <2>3, LearnMoves DEF IInv
  <2>6. Fits(new) /\ Ready(new)
    BY <1>1, <1>2, <2>0, <2>1, <2>2 DEF Fits, Ready, Next4, Records, Running
  <2> QED BY <1>1, <2>5, <2>6, MoveKeeps
<1> QED BY <1>3, <1>4

\* The checks that only decide whether the request goes on.
LEMMA ChecksKeep ==
    ASSUME IInv, NEW r \in Attempts, CheckPeriod(r) \/ Find(r) \/ CheckShift(r)
    PROVE  IInv'
<1> DEFINE q == attempt[r].request
           to(pc) == Next4(r, pc, attempt[r].tries, attempt[r].seen)
<1>1. attempt[r].pc \in {"period", "find", "shift"} /\ UNCHANGED summaries
  BY DEF CheckPeriod, Find, CheckShift, At, Unwritten
<1>2. attempt[r] \in Records(r) /\ q \in Requests
  BY <1>1, RequestIsRecord DEF IInv, Records
<1>3. Ready(attempt[r])
  BY DEF IInv
<1>4. PICK pc \in {"shift", "find", "write", "number", "entries", "failed"} :
          /\ Goto(r, pc)
          /\ pc # "failed" /\ attempt[r].pc = "period" =>
                pc = IF q.op = "create" THEN "shift" ELSE "find"
          /\ pc # "failed" /\ attempt[r].pc = "find" =>
                pc = IF q.op = "cancel" THEN "write" ELSE "shift"
          /\ pc # "failed" /\ attempt[r].pc = "shift" =>
                pc = IF q.op = "create" THEN "number"
                     ELSE IF q.op = "update" THEN "entries" ELSE "write"
  BY DEF CheckPeriod, Find, CheckShift, Step, At
<1>5. pc \in Running => Ready(to(pc))
  <2>1. CASE q.op = "create"
    BY <1>1, <1>2, <1>3, <1>4, <2>1 DEF Ready, Drawn, Next4, Running
  <2>2. CASE q.op # "create"
    BY <1>1, <1>2, <1>3, <1>4, <2>2 DEF Ready, Next4, Running
  <2> QED BY <2>1, <2>2
<1> QED BY <1>1, <1>4, <1>5, GotoKeeps DEF Running

\* The requests that end, or begin again, without a write.
LEMMA EndsKeep ==
    ASSUME IInv, NEW r \in Attempts, attempt[r].pc # "idle", Goto(r, "failed") \/ Goto(r, "done"),
           UNCHANGED summaries
    PROVE  IInv'
BY GotoKeeps DEF Running

LEMMA ConflictKeeps ==
    ASSUME IInv, NEW r \in Attempts, Conflict(r)
    PROVE  IInv'
<1> DEFINE q == attempt[r].request
           new == Next4(r, "period", attempt[r].tries + 1, Unread)
<1>1. attempt[r].pc = "write" /\ attempt[r] \in Records(r) /\ UNCHANGED summaries
  BY RequestIsRecord DEF IInv, Conflict, At, Unwritten
<1>2. CASE Fail(r)
  BY <1>1, <1>2, EndsKeep DEF Fail
<1>3. CASE ~ Fail(r)
  <2>1. q.op = "create" /\ attempt' = [attempt EXCEPT ![r].pc = "period", ![r].tries = @ + 1,
                                                    ![r].seen = Unread]
    BY <1>3 DEF Conflict
  <2>2. Moves(r, new)
    <3> DEFINE a == Next4(r, "period", attempt[r].tries, attempt[r].seen)
               b == Next4(r, "period", attempt[r].tries + 1, attempt[r].seen)
    <3>1. [attempt[r] EXCEPT !.pc = "period"] = a
      BY <1>1 DEF Records, Next4
    <3>2. [a EXCEPT !.tries = @ + 1] = b
      BY DEF Next4
    <3>3. [b EXCEPT !.seen = Unread] = new
      BY DEF Next4
    <3> HIDE DEF a, b, new
    <3> QED BY <2>1, <3>1, <3>2, <3>3 DEF Moves, IInv, Shapes
  <2>3. Unread \in [day : Days \cup {0}, shift : Shifts, numbers : Seq(Nat),
                    entries : {Unread.entries}]
    BY DEF Unread, Shifts
  <2>4. Fits(new)
    BY <1>1, <2>3 DEF Fits, Next4, Records, Running
  <2>5. Ready(new)
    <3>1. Len(attempt[r].seen.numbers) = Len(q.items) /\ q.items \in Seq([shift : Shifts, channels : Channels])
      BY <1>1, <2>1, SalesConstants DEF IInv, Ready, Drawn, Running, Records
    <3>2. Len(q.items) > 0
      BY <1>1, <2>1 DEF IInv, Ready, Drawn, Running
    <3>3. Len(Unread.numbers) = 0 /\ DOMAIN Unread.numbers = {}
      BY DEF Unread
    <3> QED BY <2>1, <3>2, <3>3 DEF Ready, Drawn, Next4
  <2> QED BY <1>1, <2>2, <2>4, <2>5, MoveKeeps
<1> QED BY <1>2, <1>3

\* A number is drawn: one more than the day's count and the batch so far.
LEMMA DrawKeeps ==
    ASSUME IInv, NEW r \in Attempts, DrawNumber(r)
    PROVE  IInv'
<1> DEFINE q == attempt[r].request
           numbers == attempt[r].seen.numbers
           count == Cardinality(NumbersOf(q.day))
           drawn == Append(numbers, count + Len(numbers) + 1)
           pc == IF Len(drawn) < Len(q.items) THEN "shift" ELSE "write"
           seen == [day |-> attempt[r].seen.day, shift |-> attempt[r].seen.shift,
                    numbers |-> drawn, entries |-> attempt[r].seen.entries]
           new == Next4(r, pc, attempt[r].tries, seen)
<1>1. attempt[r].pc = "number" /\ attempt[r] \in Records(r) /\ UNCHANGED summaries
  BY RequestIsRecord DEF IInv, DrawNumber, At, Unwritten
<1>2. CASE Fail(r)
  BY <1>1, <1>2, EndsKeep DEF Fail
<1>3. CASE ~ Fail(r)
  <2>1. Learn(r, [attempt[r].seen EXCEPT !.numbers = drawn], pc)
    BY <1>3 DEF DrawNumber
  <2>2. [attempt[r].seen EXCEPT !.numbers = drawn] = seen
    <3>1. attempt[r].seen \in [day : Days \cup {0}, shift : Shifts, numbers : Seq(Nat),
                               entries : {attempt[r].seen.entries}]
      BY <1>1 DEF Records
    <3> HIDE DEF drawn
    <3> QED BY <3>1
  <2>3. Moves(r, new)
    BY <1>1, <2>1, <2>2, LearnMoves DEF IInv
  <2>4. numbers \in Seq(Nat) /\ count \in Nat
    <3>1. summaries \in Seq(SummaryRows) /\ NumbersOf(q.day) \subseteq 1..Len(summaries)
      BY DEF IInv, Shapes, NumbersOf
    <3>2. IsFiniteSet(NumbersOf(q.day))
      BY <3>1, FS_Interval, FS_Subset
    <3> QED BY <1>1, <3>2, FS_CardinalityType DEF Records
  <2>5. /\ drawn \in Seq(Nat) /\ Len(drawn) = Len(numbers) + 1
        /\ \A n \in DOMAIN numbers : drawn[n] = numbers[n]
        /\ drawn[Len(drawn)] = count + Len(drawn)
        /\ DOMAIN numbers = 1..Len(numbers) /\ DOMAIN drawn = 1..Len(drawn)
        /\ Len(numbers) \in Nat
    <3> DEFINE x == count + Len(numbers) + 1
    <3>1. x \in Nat
      BY <2>4
    <3> HIDE DEF count, x, numbers
    <3>2. Append(numbers, x) \in Seq(Nat) /\ Len(Append(numbers, x)) = Len(numbers) + 1
      BY <2>4, <3>1
    <3> QED BY <2>4, <3>1, <3>2 DEF x
  <2>6. Fits(new)
    BY <1>1, <2>5 DEF Fits, Next4, Records, Running
  <2>7. ASSUME q.op = "create" PROVE Drawn(new)
    <3>1. Drawn(attempt[r]) /\ Len(numbers) < Len(q.items)
      BY <1>1, <2>7 DEF IInv, Ready, Drawn, Running
    <3>2. Len(q.items) \in Nat
      BY <1>1, <2>7, SalesConstants DEF Records
    <3> HIDE DEF drawn, count
    <3>a. \A n \in DOMAIN drawn : n \in DOMAIN numbers \/ n = Len(drawn)
      <4> HIDE DEF numbers
      <4> QED BY <2>5
    <3>3. \A n \in DOMAIN drawn : drawn[n] <= count + n
      <4> TAKE n \in DOMAIN drawn
      <4>1. CASE n \in DOMAIN numbers
        BY <2>5, <3>1, <4>1 DEF Drawn, count
      <4>2. CASE n = Len(drawn)
        <5>1. drawn[n] = count + n /\ n \in Nat
          BY <2>5, <4>2
        <5> QED BY <2>4, <5>1
      <4> QED BY <3>a, <4>1, <4>2
    <3>4. \A m, n \in DOMAIN drawn : m < n => drawn[m] < drawn[n]
      <4> SUFFICES ASSUME NEW m \in DOMAIN drawn, NEW n \in DOMAIN drawn, m < n
                   PROVE  drawn[m] < drawn[n]
        OBVIOUS
      <4>1. m \in DOMAIN numbers
        BY <2>5
      <4>2. numbers[m] \in Nat /\ numbers[m] <= count + m
        BY <2>4, <3>1, <4>1 DEF Drawn, count
      <4>3. CASE n \in DOMAIN numbers
        BY <2>5, <3>1, <4>1, <4>3 DEF Drawn
      <4>4. CASE n = Len(drawn)
        <5>1. drawn[n] = count + n /\ n \in Nat /\ m \in Nat /\ drawn[m] = numbers[m]
          BY <2>5, <4>1, <4>4
        <5> QED BY <2>4, <4>2, <5>1
      <4> QED BY <3>a, <4>3, <4>4
    <3>b. Len(drawn) \in Nat /\ Len(drawn) > 0 /\ Len(drawn) <= Len(q.items)
      <4>1. Len(drawn) = Len(numbers) + 1 /\ Len(numbers) \in Nat /\ Len(numbers) < Len(q.items)
        BY <2>5, <3>1
      <4> HIDE DEF numbers, q
      <4> QED BY <3>2, <4>1
    <3>5. pc \in {"shift", "write"} /\ (pc = "shift" => Len(drawn) < Len(q.items))
          /\ (pc = "write" => Len(drawn) = Len(q.items) /\ Len(q.items) > 0)
      <4> HIDE DEF q
      <4> QED BY <3>2, <3>b
    <3> HIDE DEF pc
    <3> QED BY <3>3, <3>4, <3>5 DEF Drawn, Next4, count
  <2>8. Ready(new)
    BY <1>1, <2>7 DEF Ready, Next4, IInv, Running
  <2> QED BY <1>1, <2>3, <2>6, <2>8, MoveKeeps
<1> QED BY <1>2, <1>3

LEMMA EntriesKeep ==
    ASSUME IInv, NEW r \in Attempts, FindEntries(r)
    PROVE  IInv'
<1> DEFINE q == attempt[r].request
           found == EntriesOf(Ref("sale", q.id)) \cap ActiveEntries
           seen == [day |-> attempt[r].seen.day, shift |-> attempt[r].seen.shift,
                    numbers |-> attempt[r].seen.numbers, entries |-> found]
           new == Next4(r, "write", attempt[r].tries, seen)
<1>1. attempt[r].pc = "entries" /\ attempt[r] \in Records(r) /\ UNCHANGED summaries
  BY RequestIsRecord DEF IInv, FindEntries, At, Unwritten
<1>2. CASE Fail(r)
  BY <1>1, <1>2, EndsKeep DEF Fail
<1>3. CASE ~ Fail(r)
  <2>1. Learn(r, [attempt[r].seen EXCEPT !.entries = found], "write")
    BY <1>3 DEF FindEntries
  <2>2. [attempt[r].seen EXCEPT !.entries = found] = seen
    <3>1. attempt[r].seen \in [day : Days \cup {0}, shift : Shifts, numbers : Seq(Nat),
                               entries : {attempt[r].seen.entries}]
      BY <1>1 DEF Records
    <3> HIDE DEF found
    <3> QED BY <3>1
  <2>3. Moves(r, new)
    BY <1>1, <2>1, <2>2, LearnMoves DEF IInv
  <2>4. Fits(new)
    BY <1>1 DEF Fits, Next4, Records, Running
  <2>5. Ready(new)
    BY <1>1 DEF Ready, Next4, IInv, Running, Drawn
  <2> QED BY <1>1, <2>3, <2>4, <2>5, MoveKeeps
<1> QED BY <1>2, <1>3

-----------------------------------------------------------------------------
(* The commits.                                                            *)

\* Rows are added or rewritten, never renumbered: every count only grows.
LEMMA WriteKeeps ==
    ASSUME IInv, NEW r \in Attempts, NEW new, Moves(r, new), Fits(new), new.pc \notin Running,
           summaries' \in Seq(SummaryRows), Len(summaries) <= Len(summaries'),
           \A i \in DOMAIN summaries : summaries'[i].number = summaries[i].number,
           NumbersDistinct', InvoiceMirrorsSummary'
    PROVE  IInv'
<1>1. Shapes'
  BY ShapesKept DEF IInv
<1>2. summaries \in Seq(SummaryRows)
  BY DEF IInv, Shapes
<1>3. \A day : Cardinality(NumbersOf(day)) <= Cardinality(NumbersOf(day)')
               /\ Cardinality(NumbersOf(day)) \in Nat /\ Cardinality(NumbersOf(day)') \in Nat
  <2> TAKE day
  <2>1. NumbersOf(day) \subseteq NumbersOf(day)'
    BY <1>2 DEF NumbersOf
  <2>2. NumbersOf(day)' \subseteq 1..Len(summaries')
    BY DEF NumbersOf
  <2>3. IsFiniteSet(NumbersOf(day)')
    <3>1. Len(summaries') \in Int
      OBVIOUS
    <3>2. IsFiniteSet(1..Len(summaries'))
      BY <3>1, FS_Interval
    <3> QED BY <2>2, <3>2, FS_Subset
  <2> QED BY <2>1, <2>3, FS_Subset, FS_CardinalityType
<1>4. \A s \in Attempts : Ready(attempt[s])'
  <2> TAKE s \in Attempts
  <2>1. CASE s = r
    BY <2>1 DEF Moves, Ready
  <2>2. CASE s # r
    <3>1. attempt'[s] = attempt[s]
      BY <2>2 DEF Moves
    <3>2. ASSUME attempt[s].pc \in Running, attempt[s].request.op = "create"
          PROVE  Drawn(attempt[s])'
      <4> DEFINE numbers == attempt[s].seen.numbers
                 day == attempt[s].request.day
      <4>1. attempt[s] \in Records(s)
        BY <3>2 DEF IInv, Shapes, Running
      <4>2. numbers \in Seq(Nat)
        BY <4>1 DEF Records
      <4>3. Drawn(attempt[s])
        BY <3>2 DEF IInv, Ready
      <4>4. PICK d : d = day
        OBVIOUS
      <4>5. \A n \in DOMAIN numbers : numbers[n] <= Cardinality(NumbersOf(d)') + n
        <5> TAKE n \in DOMAIN numbers
        <5>1. numbers[n] <= Cardinality(NumbersOf(d)) + n
          BY <4>3, <4>4 DEF Drawn
        <5>2. numbers[n] \in Nat /\ n \in Nat
          BY <4>2
        <5>3. /\ Cardinality(NumbersOf(d)) <= Cardinality(NumbersOf(d)')
              /\ Cardinality(NumbersOf(d)) \in Nat /\ Cardinality(NumbersOf(d)') \in Nat
          BY <1>3
        <5> HIDE DEF day, numbers
        <5> QED BY <5>1, <5>2, <5>3
      <4>6. attempt'[s].request.day = d
        BY <3>1, <4>4
      <4> QED BY <3>1, <4>3, <4>5, <4>6 DEF Drawn
    <3> QED BY <3>1, <3>2 DEF Ready, IInv
  <2> QED BY <2>1, <2>2
<1> QED BY <1>1, <1>4 DEF IInv

\* The end of a request.
LEMMA EndMoves ==
    ASSUME IInv, NEW r \in Attempts, attempt[r].pc # "idle", NEW pc \in {"done", "failed"},
           Goto(r, pc)
    PROVE  LET new == Next4(r, pc, attempt[r].tries, attempt[r].seen)
           IN Moves(r, new) /\ Fits(new) /\ new.pc \notin Running
BY GotoMoves, GotoFits DEF IInv, Next4, Running

\* The rows of a batch are new, and differ from each other: they increase.
LEMMA CreateKeeps ==
    ASSUME IInv, NEW r \in Attempts, NEW vat \in BOOLEAN, CommitCreate(r, vat)
    PROVE  IInv'
<1> DEFINE q == attempt[r].request
           numbers == attempt[r].seen.numbers
           rows == [n \in DOMAIN q.items |-> Row(q.day, q.items[n], numbers[n], vat)]
           old == Len(summaries)
<1>1. /\ attempt[r].pc = "write" /\ q.op = "create" /\ ~ Taken(r) /\ Goto(r, "done")
      /\ summaries' = summaries \o rows
  BY DEF CommitCreate, At
<1>2. attempt[r] \in Records(r) /\ summaries \in Seq(SummaryRows)
  BY <1>1 DEF IInv, Shapes
<1>3. /\ q \in Requests /\ q.day \in Days /\ q.items \in Seq([shift : Shifts, channels : Channels])
      /\ numbers \in Seq(Nat)
  BY <1>1, <1>2, SalesConstants DEF Records
<1>4. Drawn(attempt[r]) /\ Len(numbers) = Len(q.items)
  BY <1>1 DEF IInv, Ready, Drawn, Running
<1>5. \A n \in DOMAIN q.items :
          /\ rows[n] \in SummaryRows
          /\ rows[n].number.day = q.day /\ rows[n].number.count = numbers[n]
          /\ rows[n].invoice.status = rows[n].status /\ rows[n].invoice.day = rows[n].day
          /\ rows[n].invoice.total = Gross(rows[n].channels)
  <2> TAKE n \in DOMAIN q.items
  <2> DEFINE item == q.items[n]
  <2>0. n \in DOMAIN numbers
    BY <1>3, <1>4
  <2>1. item \in [shift : Shifts, channels : Channels] /\ numbers[n] \in Nat
    <3>1. q.items[n] \in [shift : Shifts, channels : Channels]
      BY <1>3, ElementOf, Zenon
    <3>2. numbers[n] \in Nat
      BY <1>3, <2>0
    <3> QED BY <3>1, <3>2
  <2>2. Gross(item.channels) \in Totals /\ TaxOf(item.channels, vat) \in Taxes
    BY <2>1 DEF Totals, Taxes
  <2>3. rows[n] = Row(q.day, item, numbers[n], vat)
    OBVIOUS
  <2> HIDE DEF item, rows, q, numbers
  <2> QED BY <1>3, <2>1, <2>2, <2>3 DEF Row, SummaryRows, Statuses, q
<1>6. rows \in Seq(SummaryRows) /\ Len(rows) = Len(q.items) /\ DOMAIN rows = DOMAIN q.items
  <2>1. DOMAIN q.items = 1..Len(q.items) /\ Len(q.items) \in Nat
    BY <1>3
  <2> HIDE DEF q
  <2>2. rows \in [1..Len(q.items) -> SummaryRows]
    BY <1>5, <2>1
  <2> QED BY <2>1, <2>2
<1> HIDE DEF rows
<1>7. /\ summaries' \in Seq(SummaryRows) /\ Len(summaries') = old + Len(rows)
      /\ \A i \in DOMAIN summaries : summaries'[i] = summaries[i]
      /\ \A i \in DOMAIN summaries' : i \notin DOMAIN summaries
            => i - old \in DOMAIN rows /\ summaries'[i] = rows[i - old]
      /\ old \in Nat /\ Len(rows) \in Nat
  <2>1. /\ summaries \o rows \in Seq(SummaryRows) /\ Len(summaries \o rows) = old + Len(rows)
        /\ \A i \in DOMAIN summaries : (summaries \o rows)[i] = summaries[i]
        /\ \A i \in DOMAIN (summaries \o rows) : i \notin DOMAIN summaries
            => i - old \in DOMAIN rows /\ (summaries \o rows)[i] = rows[i - old]
        /\ old \in Nat /\ Len(rows) \in Nat
    <3>1. summaries \in Seq(SummaryRows) /\ rows \in Seq(SummaryRows)
      BY <1>2, <1>6
    <3> QED BY <3>1, Joined, Zenon
  <2> HIDE DEF old
  <2> QED BY <1>1, <2>1
<1>8. InvoiceMirrorsSummary'
  <2> SUFFICES ASSUME NEW i \in DOMAIN summaries'
               PROVE  /\ summaries'[i].invoice.status = summaries'[i].status
                      /\ summaries'[i].invoice.day = summaries'[i].day
                      /\ summaries'[i].invoice.total = Gross(summaries'[i].channels)
    BY DEF InvoiceMirrorsSummary
  <2>1. CASE i \in DOMAIN summaries
    BY <1>7, <2>1 DEF IInv, InvoiceMirrorsSummary
  <2>2. CASE i \notin DOMAIN summaries
    BY <1>5, <1>6, <1>7, <2>2
  <2> QED BY <2>1, <2>2
<1>9. \A n \in DOMAIN rows, i \in DOMAIN summaries : rows[n].number # summaries[i].number
  <2> SUFFICES ASSUME NEW n \in DOMAIN rows, NEW i \in DOMAIN summaries,
                      rows[n].number = summaries[i].number
               PROVE  FALSE
    OBVIOUS
  <2>1. summaries[i].number.day = q.day /\ summaries[i].number.count = numbers[n]
    BY <1>5, <1>6
  <2>2. n \in DOMAIN numbers
    BY <1>3, <1>4, <1>6
  <2> QED BY <1>1, <2>1, <2>2 DEF Taken, NumbersOf
<1>10. \A m, n \in DOMAIN rows : rows[m].number = rows[n].number => m = n
  <2> SUFFICES ASSUME NEW m \in DOMAIN rows, NEW n \in DOMAIN rows,
                      rows[m].number = rows[n].number
               PROVE  m = n
    OBVIOUS
  <2>1. m \in DOMAIN numbers /\ n \in DOMAIN numbers /\ m \in Nat /\ n \in Nat
    BY <1>3, <1>4, <1>6
  <2>2. numbers[m] = numbers[n] /\ numbers[m] \in Nat
    BY <1>3, <1>5, <1>6, <2>1, SMTT(30)
  <2>3. ~ (m < n) /\ ~ (n < m)
    BY <1>4, <2>1, <2>2 DEF Drawn
  <2> QED BY <2>1, <2>3
<1>11. NumbersDistinct'
  <2> SUFFICES ASSUME NEW i \in DOMAIN summaries', NEW j \in DOMAIN summaries',
                      summaries'[i].number = summaries'[j].number
               PROVE  i = j
    BY DEF NumbersDistinct
  <2>1. CASE i \in DOMAIN summaries /\ j \in DOMAIN summaries
    BY <1>7, <2>1 DEF IInv, NumbersDistinct
  <2>2. CASE i \in DOMAIN summaries /\ j \notin DOMAIN summaries
    BY <1>7, <1>9, <2>2
  <2>3. CASE i \notin DOMAIN summaries /\ j \in DOMAIN summaries
    BY <1>7, <1>9, <2>3
  <2>4. CASE i \notin DOMAIN summaries /\ j \notin DOMAIN summaries
    <3>1. i - old = j - old
      BY <1>7, <1>10, <2>4
    <3> QED BY <1>7, <3>1
  <2> QED BY <2>1, <2>2, <2>3, <2>4
<1>12. LET new == Next4(r, "done", attempt[r].tries, attempt[r].seen)
       IN Moves(r, new) /\ Fits(new) /\ new.pc \notin Running
  BY <1>1, EndMoves
<1>13. Len(summaries) <= Len(summaries')
  BY <1>7
<1> QED BY <1>7, <1>8, <1>11, <1>12, <1>13, WriteKeeps

\* The row an update writes.
LEMMA RevisedRow ==
    ASSUME NEW s \in SummaryRows, NEW day, NEW shift, NEW channels, NEW vat
    PROVE  Revised(s, day, shift, channels, vat)
             = [number |-> s.number, day |-> day, shift |-> shift, channels |-> channels,
                status |-> s.status,
                invoice |-> [status |-> s.invoice.status, day |-> day,
                             total |-> Gross(channels), tax |-> TaxOf(channels, vat)]]
<1> DEFINE row(d, sh, c, i) == [number |-> s.number, day |-> d, shift |-> sh, channels |-> c,
                                status |-> s.status, invoice |-> i]
           inv(d, t, x) == [status |-> s.invoice.status, day |-> d, total |-> t, tax |-> x]
           total == Gross(channels)
           tax == TaxOf(channels, vat)
           i0 == s.invoice
           i1 == inv(day, i0.total, i0.tax)
           i2 == inv(day, total, i0.tax)
           i3 == inv(day, total, tax)
           s1 == row(day, s.shift, s.channels, i0)
           s2 == row(day, shift, s.channels, i0)
           s3 == row(day, shift, channels, i0)
           s4 == row(day, shift, channels, i3)
<1>1. i0 \in [status : Statuses, day : Days, total : Totals, tax : Taxes]
  BY DEF SummaryRows
<1>2. [i0 EXCEPT !.day = day] = i1
  BY <1>1
<1>3. [i1 EXCEPT !.total = total] = i2
  OBVIOUS
<1>4. [i2 EXCEPT !.tax = tax] = i3
  OBVIOUS
<1>5. [s EXCEPT !.day = day] = s1
  BY DEF SummaryRows
<1>6. [s1 EXCEPT !.shift = shift] = s2
  OBVIOUS
<1>7. [s2 EXCEPT !.channels = channels] = s3
  OBVIOUS
<1>8. s3.invoice = i0 /\ [s3 EXCEPT !.invoice = i3] = s4
  OBVIOUS
<1>9. [s3 EXCEPT !.invoice = [@ EXCEPT !.day = day, !.total = total, !.tax = tax]] = s4
  <2> HIDE DEF i0, i1, i2, i3, s1, s2, s3, s4
  <2>1. [s3 EXCEPT !.invoice = [@ EXCEPT !.day = day, !.total = total, !.tax = tax]]
          = [s3 EXCEPT !.invoice =
              [[[s3.invoice EXCEPT !.day = day] EXCEPT !.total = total] EXCEPT !.tax = tax]]
    OBVIOUS
  <2> QED BY <1>2, <1>3, <1>4, <1>8, <2>1
<1>10. Revised(s, day, shift, channels, vat) = s4
  <2> HIDE DEF i0, i1, i2, i3, s1, s2, s3, s4
  <2> QED BY <1>5, <1>6, <1>7, <1>9 DEF Revised
<1> QED BY <1>10

\* One row is rewritten: its number stays, its invoice mirrors it.
LEMMA RewriteKeeps ==
    ASSUME IInv, NEW r \in Attempts, attempt[r].pc # "idle", NEW pc \in {"done", "failed"},
           Goto(r, pc), NEW id, NEW row,
           summaries' = [summaries EXCEPT ![id] = row],
           id \in DOMAIN summaries =>
              /\ row \in SummaryRows /\ row.number = summaries[id].number
              /\ row.invoice.status = row.status /\ row.invoice.day = row.day
              /\ row.invoice.total = Gross(row.channels)
    PROVE  IInv'
<1>1. summaries \in Seq(SummaryRows)
  BY DEF IInv, Shapes
<1>2. /\ summaries' \in Seq(SummaryRows) /\ Len(summaries') = Len(summaries)
      /\ DOMAIN summaries' = DOMAIN summaries
      /\ \A i \in DOMAIN summaries : summaries'[i] = IF i = id THEN row ELSE summaries[i]
  BY <1>1, Rewritten
<1>3. \A i \in DOMAIN summaries : summaries'[i].number = summaries[i].number
  BY <1>2
<1>4. NumbersDistinct'
  BY <1>2, <1>3 DEF IInv, NumbersDistinct
<1>5. InvoiceMirrorsSummary'
  BY <1>2 DEF IInv, InvoiceMirrorsSummary
<1>6. LET new == Next4(r, pc, attempt[r].tries, attempt[r].seen)
      IN Moves(r, new) /\ Fits(new) /\ new.pc \notin Running
  BY EndMoves
<1>7. Len(summaries) <= Len(summaries')
  BY <1>1, <1>2
<1> QED BY <1>2, <1>3, <1>4, <1>5, <1>6, <1>7, WriteKeeps

LEMMA UpdateKeeps ==
    ASSUME IInv, NEW r \in Attempts, NEW vat \in BOOLEAN, CommitUpdate(r, vat)
    PROVE  IInv'
<1> DEFINE q == attempt[r].request
           day == attempt[r].seen.day
           shift == attempt[r].seen.shift
           s == summaries[q.id]
           total == Gross(q.channels)
           tax == TaxOf(q.channels, vat)
           row == [number |-> s.number, day |-> day, shift |-> shift, channels |-> q.channels,
                   status |-> s.status,
                   invoice |-> [status |-> s.invoice.status, day |-> day, total |-> total,
                                tax |-> tax]]
<1>1. attempt[r].pc = "write" /\ q.op = "update" /\ Goto(r, "done")
  BY DEF CommitUpdate, At
<1>2. attempt[r] \in Records(r) /\ day \in Days
  BY <1>1, RequestIsRecord DEF IInv, Ready, Running
<1>3. q.channels \in Channels /\ shift \in Shifts
  BY <1>1, <1>2, SalesConstants DEF Records
<1>4. summaries' = [summaries EXCEPT ![q.id] = Revised(s, day, shift, q.channels, vat)]
  BY DEF CommitUpdate
<1>5. ASSUME q.id \in DOMAIN summaries
      PROVE  /\ row \in SummaryRows /\ row.number = s.number
             /\ row.invoice.status = row.status /\ row.invoice.day = row.day
             /\ row.invoice.total = Gross(row.channels)
             /\ summaries' = [summaries EXCEPT ![q.id] = row]
  <2>1. s \in SummaryRows /\ s.invoice.status = s.status
    BY <1>5 DEF IInv, Shapes, InvoiceMirrorsSummary
  <2>2. total \in Totals /\ tax \in Taxes
    BY <1>3 DEF Totals, Taxes
  <2>3. Revised(s, day, shift, q.channels, vat) = row
    BY <2>1, RevisedRow
  <2>4. row \in SummaryRows
    BY <1>2, <1>3, <2>1, <2>2 DEF SummaryRows
  <2>5. summaries' = [summaries EXCEPT ![q.id] = row]
    BY <1>4, <2>3
  <2> QED BY <2>1, <2>4, <2>5
<1>6. CASE q.id \in DOMAIN summaries
  BY <1>1, <1>5, <1>6, RewriteKeeps
<1>7. CASE q.id \notin DOMAIN summaries
  <2>1. UNCHANGED summaries
    BY <1>4, <1>7 DEF IInv, Shapes
  <2> QED BY <1>1, <2>1, EndsKeep
<1> QED BY <1>6, <1>7

LEMMA StruckRow ==
    ASSUME NEW s \in SummaryRows
    PROVE  Struck(s) = [number |-> s.number, day |-> s.day, shift |-> s.shift,
                        channels |-> s.channels, status |-> "cancelled",
                        invoice |-> [status |-> "cancelled", day |-> s.invoice.day,
                                     total |-> s.invoice.total, tax |-> s.invoice.tax]]
<1> DEFINE i0 == s.invoice
           i1 == [status |-> "cancelled", day |-> i0.day, total |-> i0.total, tax |-> i0.tax]
           row(i) == [number |-> s.number, day |-> s.day, shift |-> s.shift,
                      channels |-> s.channels, status |-> "cancelled", invoice |-> i]
           s1 == row(i0)
           s2 == row(i1)
<1>1. i0 \in [status : Statuses, day : Days, total : Totals, tax : Taxes]
  BY DEF SummaryRows
<1>2. [i0 EXCEPT !.status = "cancelled"] = i1
  BY <1>1
<1>3. [s EXCEPT !.status = "cancelled"] = s1
  BY DEF SummaryRows
<1>4. s1.invoice = i0 /\ [s1 EXCEPT !.invoice = i1] = s2
  OBVIOUS
<1>5. Struck(s) = s2
  <2> HIDE DEF i0, i1, s1, s2
  <2> QED BY <1>2, <1>3, <1>4 DEF Struck
<1> QED BY <1>5

LEMMA CancelKeeps ==
    ASSUME IInv, NEW r \in Attempts, CommitCancel(r)
    PROVE  IInv'
<1> DEFINE id == attempt[r].request.id
           row == Struck(summaries[id])
<1>1. /\ attempt[r].pc = "write" /\ Goto(r, "done")
      /\ summaries' = [summaries EXCEPT ![id] = row]
  BY DEF CommitCancel, At
<1>2. ASSUME id \in DOMAIN summaries
      PROVE  /\ row \in SummaryRows /\ row.number = summaries[id].number
             /\ row.invoice.status = row.status /\ row.invoice.day = row.day
             /\ row.invoice.total = Gross(row.channels)
  <2> DEFINE s == summaries[id]
  <2>1. s \in SummaryRows /\ s.invoice.day = s.day /\ s.invoice.total = Gross(s.channels)
    BY <1>2 DEF IInv, Shapes, InvoiceMirrorsSummary
  <2>2. row = [number |-> s.number, day |-> s.day, shift |-> s.shift,
               channels |-> s.channels, status |-> "cancelled",
               invoice |-> [status |-> "cancelled", day |-> s.invoice.day,
                            total |-> s.invoice.total, tax |-> s.invoice.tax]]
    BY <2>1, StruckRow
  <2> HIDE DEF s, row
  <2>3. row \in SummaryRows
    BY <2>1, <2>2 DEF SummaryRows, Statuses
  <2> QED BY <2>1, <2>2, <2>3 DEF s
<1> QED BY <1>1, <1>2, RewriteKeeps

LEMMA ShiftKeeps ==
    ASSUME IInv, NEW r \in Attempts, CommitShift(r)
    PROVE  IInv'
<1> DEFINE q == attempt[r].request
           s == summaries[q.id]
           row == [s EXCEPT !.shift = q.shift]
<1>1. attempt[r].pc = "write" /\ q.op = "shift"
  BY DEF CommitShift, At
<1>2. q.shift \in Shifts
  BY <1>1, RequestIsRecord, SalesConstants DEF IInv, Records
<1>3. CASE s.status = "active"
  <2>1. Goto(r, "done") /\ summaries' = [summaries EXCEPT ![q.id] = row]
    BY <1>3 DEF CommitShift, Step
  <2>2. ASSUME q.id \in DOMAIN summaries
        PROVE  /\ row \in SummaryRows /\ row.number = summaries[q.id].number
               /\ row.invoice.status = row.status /\ row.invoice.day = row.day
               /\ row.invoice.total = Gross(row.channels)
    <3>1. s \in SummaryRows /\ s.invoice.day = s.day /\ s.invoice.total = Gross(s.channels)
          /\ s.invoice.status = s.status
      BY <2>2 DEF IInv, Shapes, InvoiceMirrorsSummary
    <3>2. row = [number |-> s.number, day |-> s.day, shift |-> q.shift,
                 channels |-> s.channels, status |-> s.status, invoice |-> s.invoice]
      BY <3>1 DEF SummaryRows
    <3> HIDE DEF s, row
    <3>3. row \in SummaryRows
      BY <1>2, <3>1, <3>2 DEF SummaryRows
    <3> QED BY <3>1, <3>2, <3>3 DEF s
  <2> QED BY <1>1, <2>1, <2>2, RewriteKeeps
<1>4. CASE s.status # "active"
  <2>1. Goto(r, "failed") /\ UNCHANGED summaries
    BY <1>4 DEF CommitShift, Step
  <2> QED BY <1>1, <2>1, EndsKeep
<1> QED BY <1>3, <1>4

LEMMA NextIInv == IInv /\ [Next]_vars => IInv'
<1> SUFFICES ASSUME IInv, [Next]_vars PROVE IInv'
  OBVIOUS
<1>1. ASSUME NEW r \in Attempts, Serve(r)
      PROVE  IInv'
  <2>1. CASE LoseNumber(r)
    BY <2>1, EndsKeep DEF LoseNumber, Fail, At, Unwritten
  <2>2. ASSUME NEW vat \in BOOLEAN, CommitCreate(r, vat) \/ CommitUpdate(r, vat)
        PROVE  IInv'
    BY <2>2, CreateKeeps, UpdateKeeps
  <2> QED BY <1>1, <2>1, <2>2, PrereadKeeps, ChecksKeep, DrawKeeps, EntriesKeep, ShiftKeeps,
             CancelKeeps, ConflictKeeps DEF Serve
<1>2. ASSUME NEW r \in Attempts, NEW q \in Requests, Submit(r, q)
      PROVE  IInv'
  BY <1>2, SubmitKeeps
<1>3. CASE UNCHANGED <<summaries, attempt>>
  BY <1>3 DEF IInv, Shapes, Records, Ready, Drawn, NumbersOf, NumbersDistinct,
              InvoiceMirrorsSummary
<1> QED BY <1>1, <1>2, <1>3 DEF Next, vars

LEMMA IInvAlways == Spec => []IInv
BY InitIInv, NextIInv, PTL DEF Spec

\* No two summaries ever share a number.
THEOREM NumbersDistinctHolds == Spec => []NumbersDistinct
<1>1. IInv => NumbersDistinct
  BY DEF IInv
<1> QED BY <1>1, IInvAlways, PTL

\* Summary and invoice say the same, whatever interleaves.
THEOREM InvoiceMirrorsSummaryHolds == Spec => []InvoiceMirrorsSummary
<1>1. IInv => InvoiceMirrorsSummary
  BY DEF IInv
<1> QED BY <1>1, IInvAlways, PTL

-----------------------------------------------------------------------------
(* Money: the tax of an amount, and sums over vaults.                      *)

\* A sum of nothing but zeros.
LEMMA SumOfZeros ==
    ASSUME NEW f, NEW S, IsFiniteSet(S), \A x \in S : f[x] = 0
    PROVE  SumFunctionOnSet(f, S) = 0
<1> DEFINE C == {V \in SUBSET S : SumFunctionOnSet(f, V) # 0}
<1>1. SUFFICES ASSUME C # {} PROVE FALSE
  OBVIOUS
<1>2. \A V \in C : V \subseteq S /\ IsFiniteSet(V)
  BY FS_Subset
<1>3. PICK V \in C : \A W \in C : W \subseteq V => W = V
  <2>1. C \in SUBSET SUBSET S
    OBVIOUS
  <2> HIDE DEF C
  <2> QED BY <1>1, <2>1, SmallestSet
<1>4. V # {}
  BY SumEmpty
<1>5. PICK x \in V : TRUE
  BY <1>4
<1>6. /\ V \ {x} \subseteq S /\ V \ {x} # V
      /\ SumFunctionOnSet(f, V) = f[x] + SumFunctionOnSet(f, V \ {x})
  BY <1>2, SumRemove
<1>7. SumFunctionOnSet(f, V \ {x}) = 0
  BY <1>3, <1>6
<1> QED BY <1>2, <1>6, <1>7

\* The net is part of the gross, and so is the tax.
LEMMA TaxWithin ==
    ASSUME NEW gross \in Nat, NEW vat \in BOOLEAN
    PROVE  /\ Tax(gross, vat) \in Nat /\ Tax(gross, vat) <= gross
           /\ gross = 0 => Tax(gross, vat) = 0
<1> DEFINE d == 2 * (100 + VatRate)
           n == 200 * gross + 100 + VatRate
           k == n \div d
<1>1. VatRate \in Nat
  BY SalesConstants
<1>2. d \in Nat /\ d > 0 /\ n \in Nat /\ d = 200 + 2 * VatRate
  BY <1>1
<1>3. k \in Nat /\ d * k <= n
  <2> HIDE DEF d, n
  <2> QED BY <1>2
<1>4. k <= gross
  <2> SUFFICES ASSUME k >= gross + 1 PROVE FALSE
    BY <1>3
  <2>1. PICK m \in Nat : k = gross + 1 + m
    <3>1. k - (gross + 1) \in Nat /\ k = gross + 1 + (k - (gross + 1))
      <4> HIDE DEF k
      <4> QED BY <1>3
    <3> QED BY <3>1
  <2>2. d * k = 200 * gross + 200 + 2 * VatRate + 2 * (VatRate * gross) + d * m
    BY <1>1, <2>1
  <2>3. VatRate * gross \in Nat /\ d * m \in Nat
    <3> HIDE DEF d
    <3> QED BY <1>1, <1>2
  <2> HIDE DEF d, k
  <2> QED BY <1>1, <1>3, <2>2, <2>3
<1>5. Net(gross) = k
  BY DEF Net
<1> HIDE DEF k
<1> QED BY <1>3, <1>4, <1>5 DEF Tax

\* The sum the code's fold computes over the vaults.
LEMMA FoldIsSum ==
    ASSUME NEW channels \in Channels, NEW vat \in BOOLEAN
    PROVE  /\ Gross(channels) = SumFunctionOnSet(channels, Vaults)
           /\ TaxOf(channels, vat)
                = SumFunctionOnSet([v \in Vaults |-> Tax(channels[v], vat)], Vaults)
<1>1. Gross(channels) = SumFunctionOnSet(channels, Vaults)
  BY DEF Gross, MapThenSumSet, SumFunctionOnSet, FoldFunctionOnSet
<1>2. TaxOf(channels, vat)
                = SumFunctionOnSet([v \in Vaults |-> Tax(channels[v], vat)], Vaults)
  <2> DEFINE f == [v \in Vaults |-> Tax(channels[v], vat)]
             step(g) == [s \in SUBSET Vaults |->
                           IF s = {} THEN 0
                           ELSE Tax(channels[First(s)], vat) + g[s \ {First(s)}]]
             g == CHOOSE h : h = step(h)
  <2>1. IsFiniteSet(Vaults)
    BY SalesConstants
  <2>2. \A h : Sums(h, f, Vaults) <=> h = step(h)
    <3> TAKE h
    <3>1. \A s \in SUBSET Vaults : s # {} => f[First(s)] = Tax(channels[First(s)], vat)
      BY FirstIn
    <3>2. step(h) = [s \in SUBSET Vaults |-> IF s = {} THEN 0 ELSE f[First(s)] + h[s \ {First(s)}]]
      <4> HIDE DEF f
      <4> QED BY <3>1
    <3> QED BY <3>2 DEF Sums
  <2>3. \E h : h = step(h)
    BY <2>1, <2>2, SumsExist
  <2>4. Sums(g, f, Vaults)
    <3>1. g = step(g)
      BY <2>3
    <3> QED BY <2>2, <3>1
  <2>5. TaxOf(channels, vat) = g[Vaults]
    BY DEF TaxOf, MapThenSumSet, MapThenFoldSet, First
  <2>6. PICK h : h = CHOOSE i : Sums(i, f, Vaults)
    OBVIOUS
  <2>7. Sums(h, f, Vaults) /\ SumFunctionOnSet(f, Vaults) = h[Vaults]
    BY <2>1, <2>6, SumsExist, SumIsChoice
  <2> HIDE DEF g, f
  <2> QED BY <2>1, <2>4, <2>5, <2>7, SumsAgree DEF f
<1> QED BY <1>1, <1>2

\* A finite set as a sequence without repetitions.
LEMMA SetAsSequence ==
    ASSUME NEW S, IsFiniteSet(S)
    PROVE  /\ SetToSeq(S) \in Seq(S)
           /\ \A i, j \in DOMAIN SetToSeq(S) : SetToSeq(S)[i] = SetToSeq(S)[j] => i = j
           /\ S = {SetToSeq(S)[i] : i \in DOMAIN SetToSeq(S)}
<1> DEFINE n == Cardinality(S)
           t == CHOOSE f \in [1..n -> S] : IsInjective(f)
           R == {t[i] : i \in 1..n}
<1>1. n \in Nat /\ ExistsBijection(1..n, S)
  BY FS_CardinalityType
<1>2. PICK b : b \in [1..n -> S] /\ IsInjective(b)
  BY <1>1 DEF ExistsBijection, Bijection, Injection, IsInjective
<1>3. t \in [1..n -> S] /\ IsInjective(t)
  BY <1>2
<1> HIDE DEF t
<1>4. \A i, j \in 1..n : t[i] = t[j] => i = j
  BY <1>3 DEF IsInjective
<1>5. t \in Bijection(1..n, R)
  BY <1>3, <1>4 DEF Bijection, Injection, Surjection, IsInjective
<1>6. IsFiniteSet(1..n) /\ Cardinality(1..n) = n
  BY <1>1, FS_Interval
<1>7. Cardinality(R) = n
  BY <1>5, <1>6, FS_Bijection DEF ExistsBijection
<1>8. R \subseteq S
  BY <1>3
<1>9. R = S
  BY <1>7, <1>8, FS_Subset
<1>10. SetToSeq(S) = t
  BY DEF SetToSeq, t
<1>11. t \in Seq(S) /\ DOMAIN t = 1..n
  BY <1>1, <1>3
<1> QED BY <1>4, <1>9, <1>10, <1>11

\* The entries of a sale: a line of revenue per vault that takes money, and a
\* line of tax where there is some.
Line(id, day, v, account, amount) == EntryOf(v, account, amount, day, Ref("sale", id))

Paying(channels) == {v \in Vaults : channels[v] > 0}
Taxed(channels, vat) == {v \in Paying(channels) : Tax(channels[v], vat) > 0}

RevenueLine(id, channels, day, vat, v) ==
    Line(id, day, v, RevenueAccount, channels[v] - Tax(channels[v], vat))
TaxLine(id, channels, day, vat, v) ==
    Line(id, day, v, VatAccount, Tax(channels[v], vat))

Lines(id, channels, day, vat) ==
    {RevenueLine(id, channels, day, vat, v) : v \in Paying(channels)}
      \cup {TaxLine(id, channels, day, vat, v) : v \in Taxed(channels, vat)}

\* Each line is an entry of the sale.
LEMMA LinesAreEntries ==
    ASSUME NEW id \in Nat, NEW channels \in Channels, NEW day \in Days, NEW vat \in BOOLEAN
    PROVE  /\ IsFiniteSet(Lines(id, channels, day, vat))
           /\ \A x \in Lines(id, channels, day, vat) :
                 x \in Entries /\ x.ref = Ref("sale", id) /\ x.status = "active"
<1> DEFINE R == {RevenueLine(id, channels, day, vat, v) : v \in Paying(channels)}
           T == {TaxLine(id, channels, day, vat, v) : v \in Taxed(channels, vat)}
<1>1. Paying(channels) \subseteq Vaults /\ Taxed(channels, vat) \subseteq Vaults
  BY DEF Paying, Taxed
<1>2. IsFiniteSet(Paying(channels)) /\ IsFiniteSet(Taxed(channels, vat))
  BY <1>1, SalesConstants, FS_Subset
<1>3. IsFiniteSet(R) /\ IsFiniteSet(T)
  <2> DEFINE f == [v \in Paying(channels) |-> RevenueLine(id, channels, day, vat, v)]
             g == [v \in Taxed(channels, vat) |-> TaxLine(id, channels, day, vat, v)]
  <2>1. f \in Surjection(Paying(channels), R) /\ g \in Surjection(Taxed(channels, vat), T)
    BY DEF Surjection
  <2> HIDE DEF f, g, R, T
  <2> QED BY <1>2, <2>1, FS_Surjection
<1>4. \A v \in Vaults : /\ channels[v] \in Nat /\ Tax(channels[v], vat) \in Nat
                        /\ channels[v] - Tax(channels[v], vat) \in Nat
  BY TaxWithin DEF Channels
<1>5. Ref("sale", id) \in References /\ day \in Nat
  BY DaysAssumption DEF Ref, References
<1>6. \A v \in Vaults, account \in {RevenueAccount, VatAccount}, amount \in Nat :
         LET x == Line(id, day, v, account, amount)
         IN x \in Entries /\ x.ref = Ref("sale", id) /\ x.status = "active"
  BY <1>5, SalesConstants, VaultsAssumption DEF Line, EntryOf, Entries
<1>7. ASSUME NEW x \in R \cup T
      PROVE  x \in Entries /\ x.ref = Ref("sale", id) /\ x.status = "active"
  BY <1>1, <1>4, <1>6 DEF RevenueLine, TaxLine
<1>8. IsFiniteSet(R \cup T)
  BY <1>3, FS_Union
<1> QED BY <1>7, <1>8 DEF Lines

LEMMA SaleEntriesAreLines ==
    ASSUME NEW id, NEW channels, NEW day, NEW vat
    PROVE  SaleEntries(id, channels, day, vat) = SetToSeq(Lines(id, channels, day, vat))
<1>1. {v \in {w \in Vaults : channels[w] > 0} : Tax(channels[v], vat) > 0}
         = {v \in Vaults : channels[v] > 0 /\ Tax(channels[v], vat) > 0}
  OBVIOUS
<1> QED
  BY DEF SaleEntries, Lines, Paying, Taxed, RevenueLine, TaxLine, Line

\* What a sequence of entries puts into a vault, and what it books as tax.
AmountsOf(t) == [k \in DOMAIN t |-> t[k].amount]
PaidInto(t, v) == SumFunctionOnSet(AmountsOf(t), {k \in DOMAIN t : t[k].debit = v})
TaxIn(t) == SumFunctionOnSet(AmountsOf(t), {k \in DOMAIN t : t[k].credit = VatAccount})

\* Positions of a sequence without repetitions stand for its elements.
LEMMA SumOverLines ==
    ASSUME NEW L, IsFiniteSet(L), \A x \in L : x.amount \in Nat, NEW M \in SUBSET L
    PROVE  SumFunctionOnSet(AmountsOf(SetToSeq(L)), {k \in DOMAIN SetToSeq(L) : SetToSeq(L)[k] \in M})
             = SumFunctionOnSet([x \in L |-> x.amount], M)
<1>1. PICK t : t = SetToSeq(L)
  OBVIOUS
<1>2. /\ t \in Seq(L) /\ L = {t[i] : i \in DOMAIN t}
      /\ \A i, j \in DOMAIN t : t[i] = t[j] => i = j
  BY <1>1, SetAsSequence
<1> DEFINE f == AmountsOf(t)
           g == [x \in L |-> x.amount]
           K == {k \in DOMAIN t : t[k] \in M}
<1>3. IsFiniteSet(K)
  <2>1. Len(t) \in Int /\ K \subseteq 1..Len(t)
    BY <1>2
  <2>2. IsFiniteSet(1..Len(t))
    BY <2>1, FS_Interval
  <2> QED BY <2>1, <2>2, FS_Subset
<1>4. \A k \in K : f[k] \in Int /\ g[t[k]] = f[k]
  BY <1>2 DEF AmountsOf
<1>5. M = {t[k] : k \in K}
  BY <1>2
<1>6. \A i, j \in K : t[i] = t[j] => i = j
  BY <1>2
<1>7. SumFunctionOnSet(g, {t[k] : k \in K}) = SumFunctionOnSet(f, K)
  <2> HIDE DEF f, g, K
  <2> QED BY <1>3, <1>4, <1>6, SumRenamed
<1> QED BY <1>1, <1>5, <1>7

\* The lines of one vault add up to what it takes.
LEMMA LinesPay ==
    ASSUME NEW id \in Nat, NEW channels \in Channels, NEW day \in Days, NEW vat \in BOOLEAN,
           NEW v \in Vaults, NEW L, L = Lines(id, channels, day, vat)
    PROVE  SumFunctionOnSet([x \in L |-> x.amount], {x \in L : x.debit = v}) = channels[v]
<1> DEFINE g == [x \in L |-> x.amount]
           M == {x \in L : x.debit = v}
           a == RevenueLine(id, channels, day, vat, v)
           b == TaxLine(id, channels, day, vat, v)
<1>1. /\ channels[v] \in Nat /\ Tax(channels[v], vat) \in Nat
      /\ Tax(channels[v], vat) <= channels[v]
  BY TaxWithin DEF Channels
<1>2. \A w : /\ RevenueLine(id, channels, day, vat, w).debit = w
             /\ TaxLine(id, channels, day, vat, w).debit = w
  BY DEF RevenueLine, TaxLine, Line, EntryOf
<1>3. /\ a.amount = channels[v] - Tax(channels[v], vat) /\ a.credit = RevenueAccount
      /\ b.amount = Tax(channels[v], vat) /\ b.credit = VatAccount
      /\ a # b
  BY SalesConstants DEF RevenueLine, TaxLine, Line, EntryOf
<1>4. M = {x \in {a} : v \in Paying(channels)} \cup {x \in {b} : v \in Taxed(channels, vat)}
  BY <1>2 DEF Lines
<1>5. CASE v \notin Paying(channels)
  <2>1. M = {} /\ channels[v] = 0
    BY <1>1, <1>4, <1>5 DEF Paying, Taxed
  <2> QED BY <2>1, SumEmpty
<1>6. CASE v \in Paying(channels) /\ v \notin Taxed(channels, vat)
  <2>1. M = {a} /\ Tax(channels[v], vat) = 0 /\ a \in L
    BY <1>1, <1>4, <1>6 DEF Taxed, Lines
  <2>2. g[a] = channels[v]
    BY <1>1, <1>3, <2>1
  <2> HIDE DEF g, a
  <2> QED BY <1>1, <2>1, <2>2, SumSingle DEF g
<1>7. CASE v \in Paying(channels) /\ v \in Taxed(channels, vat)
  <2>1. M = {a} \cup {b} /\ a \in L /\ b \in L
    BY <1>4, <1>7 DEF Lines
  <2>2. g[a] = channels[v] - Tax(channels[v], vat) /\ g[b] = Tax(channels[v], vat)
    BY <1>3, <2>1
  <2>3. SumFunctionOnSet(g, {a}) = g[a] /\ IsFiniteSet({a})
    <3>1. g[a] \in Nat
      BY <1>1, <2>2
    <3> HIDE DEF g, a
    <3> QED BY <3>1, SumSingle, FS_Singleton
  <2>4. SumFunctionOnSet(g, {a} \cup {b}) = SumFunctionOnSet(g, {a}) + g[b]
    <3>1. g[a] \in Int /\ g[b] \in Int
      BY <1>1, <2>2
    <3> HIDE DEF g, a, b
    <3> QED BY <1>3, <2>3, <3>1, SumAdd
  <2>5. SumFunctionOnSet(g, M) = channels[v]
    <3>1. SumFunctionOnSet(g, M) = SumFunctionOnSet(g, {a}) + g[b]
      <4> HIDE DEF g, a, b, M
      <4> QED BY <2>1, <2>4, Zenon
    <3>2. SumFunctionOnSet(g, M) = g[a] + g[b]
      <4> HIDE DEF g, a, b, M
      <4> QED BY <2>3, <3>1, Zenon
    <3>3. SumFunctionOnSet(g, M) = (channels[v] - Tax(channels[v], vat)) + Tax(channels[v], vat)
      <4> HIDE DEF g, a, b, M
      <4> QED BY <2>2, <3>2, Zenon
    <3>4. \A c, d \in Nat : (c - d) + d = c
      OBVIOUS
    <3> HIDE DEF g, a, b, M
    <3> QED BY <1>1, <3>3, <3>4, Zenon
  <2> QED BY <2>5
<1> QED BY <1>5, <1>6, <1>7

\* The lines of tax add up to the tax of the sale.
LEMMA LinesTax ==
    ASSUME NEW id \in Nat, NEW channels \in Channels, NEW day \in Days, NEW vat \in BOOLEAN,
           NEW L, L = Lines(id, channels, day, vat)
    PROVE  SumFunctionOnSet([x \in L |-> x.amount], {x \in L : x.credit = VatAccount})
             = TaxOf(channels, vat)
<1> DEFINE g == [x \in L |-> x.amount]
           M == {x \in L : x.credit = VatAccount}
           T == Taxed(channels, vat)
           f == [v \in Vaults |-> Tax(channels[v], vat)]
           h == [v \in Vaults |-> TaxLine(id, channels, day, vat, v)]
<1>1. \A v \in Vaults : channels[v] \in Nat /\ f[v] \in Nat /\ (channels[v] = 0 => f[v] = 0)
  BY TaxWithin DEF Channels
<1>2. \A v \in Vaults : h[v].amount = f[v] /\ h[v].credit = VatAccount /\ h[v].debit = v
  BY DEF TaxLine, Line, EntryOf
<1>3. \A v \in Vaults : RevenueLine(id, channels, day, vat, v).credit # VatAccount
  BY SalesConstants DEF RevenueLine, Line, EntryOf
<1>4. T \subseteq Vaults /\ Paying(channels) \subseteq Vaults
  BY DEF Taxed, Paying
<1>5. M = {h[v] : v \in T}
  <2>1. \A v \in T : h[v] \in M
    BY <1>2, <1>4 DEF Lines
  <2>2. ASSUME NEW x \in M PROVE x \in {h[v] : v \in T}
    BY <1>3, <1>4 DEF Lines
  <2> HIDE DEF M, h, T
  <2> QED BY <2>1, <2>2
<1>6. \A v \in Vaults \ T : f[v] = 0
  BY <1>1 DEF Taxed, Paying
<1>7. IsFiniteSet(Vaults) /\ IsFiniteSet(T) /\ IsFiniteSet(Vaults \ T)
  BY <1>4, SalesConstants, FS_Subset
<1>8. \A v \in T : g[h[v]] = f[v]
  BY <1>2, <1>4 DEF Lines
<1>9. SumFunctionOnSet(g, {h[v] : v \in T}) = SumFunctionOnSet(f, T)
  <2>1. \A v, w \in T : h[v] = h[w] => v = w
    BY <1>2, <1>4
  <2>2. \A v \in T : f[v] \in Int
    BY <1>1, <1>4
  <2> HIDE DEF f, g, h, T
  <2> QED BY <1>7, <1>8, <2>1, <2>2, SumRenamed
<1>10. SumFunctionOnSet(f, Vaults)
         = SumFunctionOnSet(f, T) + SumFunctionOnSet(f, Vaults \ T)
  <2>1. Vaults = T \cup (Vaults \ T) /\ T \cap (Vaults \ T) = {}
    BY <1>4
  <2>2. \A v \in T \cup (Vaults \ T) : f[v] \in Int
    BY <1>1, <1>4
  <2> HIDE DEF f, T
  <2> QED BY <1>7, <2>1, <2>2, SumOfUnion
<1>11. SumFunctionOnSet(f, Vaults \ T) = 0
  <2> HIDE DEF f, T
  <2> QED BY <1>6, <1>7, SumOfZeros
<1>12. SumFunctionOnSet(f, T) \in Nat
  <2>1. \A v \in T : f[v] \in Nat
    BY <1>1, <1>4
  <2> HIDE DEF f, T
  <2> QED BY <1>7, <2>1, SumType
<1>13. SumFunctionOnSet(f, Vaults) = TaxOf(channels, vat)
  BY FoldIsSum
<1>14. SumFunctionOnSet(g, M) = TaxOf(channels, vat)
  <2> HIDE DEF f, g, h, T, M
  <2> QED BY <1>5, <1>9, <1>10, <1>11, <1>12, <1>13
<1> QED BY <1>14

\* What the entries of a sale book.
Books(t, id, channels, day, vat) ==
    /\ t \in Seq(Entries)
    /\ \A k \in DOMAIN t : t[k].ref = Ref("sale", id) /\ t[k].status = "active"
    /\ \A v \in Vaults : PaidInto(t, v) = channels[v]
    /\ TaxIn(t) = TaxOf(channels, vat)

LEMMA SaleIsBooked ==
    ASSUME NEW id \in Nat, NEW channels \in Channels, NEW day \in Days, NEW vat \in BOOLEAN
    PROVE  Books(SaleEntries(id, channels, day, vat), id, channels, day, vat)
<1>1. PICK L : L = Lines(id, channels, day, vat)
  OBVIOUS
<1>2. PICK t : t = SetToSeq(L)
  OBVIOUS
<1>3. SaleEntries(id, channels, day, vat) = t
  BY <1>1, <1>2, SaleEntriesAreLines
<1>4. /\ IsFiniteSet(L)
      /\ \A x \in L : x \in Entries /\ x.ref = Ref("sale", id) /\ x.status = "active"
  BY <1>1, LinesAreEntries
<1>5. \A x \in L : x.amount \in Nat
  BY <1>4 DEF Entries
<1>6. t \in Seq(L) /\ \A k \in DOMAIN t : t[k] \in L
  BY <1>2, <1>4, SetAsSequence
<1>7. \A M \in SUBSET L : SumFunctionOnSet(AmountsOf(t), {k \in DOMAIN t : t[k] \in M})
                            = SumFunctionOnSet([x \in L |-> x.amount], M)
  BY <1>2, <1>4, <1>5, SumOverLines
<1>8. ASSUME NEW v \in Vaults PROVE PaidInto(t, v) = channels[v]
  <2>1. {k \in DOMAIN t : t[k].debit = v} = {k \in DOMAIN t : t[k] \in {x \in L : x.debit = v}}
    BY <1>6
  <2>2. PICK M \in SUBSET L : M = {x \in L : x.debit = v}
    OBVIOUS
  <2>3. PaidInto(t, v) = SumFunctionOnSet([x \in L |-> x.amount], M)
    BY <1>7, <2>1, <2>2 DEF PaidInto
  <2> QED BY <1>1, <2>2, <2>3, LinesPay
<1>9. TaxIn(t) = TaxOf(channels, vat)
  <2>1. {k \in DOMAIN t : t[k].credit = VatAccount}
          = {k \in DOMAIN t : t[k] \in {x \in L : x.credit = VatAccount}}
    BY <1>6
  <2>2. PICK M \in SUBSET L : M = {x \in L : x.credit = VatAccount}
    OBVIOUS
  <2>3. TaxIn(t) = SumFunctionOnSet([x \in L |-> x.amount], M)
    BY <1>7, <2>1, <2>2 DEF TaxIn
  <2> QED BY <1>1, <2>2, <2>3, LinesTax
<1>10. t \in Seq(Entries)
  BY <1>4, <1>6
<1> QED BY <1>3, <1>4, <1>6, <1>8, <1>9, <1>10 DEF Books

-----------------------------------------------------------------------------
(* What a ledger carries of a sale, entry by entry.                        *)

OfSale(l, i) == {e \in DOMAIN l : l[e].ref = Ref("sale", i) /\ l[e].status = "active"}

Paid(l, i, v) == SumFunctionOnSet(AmountsOf(l), {e \in OfSale(l, i) : l[e].debit = v})
TaxPaid(l, i) == SumFunctionOnSet(AmountsOf(l), {e \in OfSale(l, i) : l[e].credit = VatAccount})

\* The model says the same of its ledger.
LEMMA LedgerCarries ==
    ASSUME NEW i
    PROVE  /\ EntriesOfSale(i) = OfSale(ledger, i)
           /\ \A v : CarriedInto(i, v) = Paid(ledger, i, v)
           /\ Total({e \in EntriesOfSale(i) : ledger[e].credit = VatAccount}) = TaxPaid(ledger, i)
<1>1. EntriesOfSale(i) = OfSale(ledger, i)
  BY DEF EntriesOfSale, EntriesOf, ActiveEntries, OfSale
<1>2. Amounts = AmountsOf(ledger)
  BY DEF Amounts, AmountsOf
<1>3. ASSUME NEW v PROVE CarriedInto(i, v) = Paid(ledger, i, v)
  <2>1. PICK S : S = {e \in OfSale(ledger, i) : ledger[e].debit = v}
    OBVIOUS
  <2>2. CarriedInto(i, v) = Total(S)
    BY <1>1, <2>1 DEF CarriedInto
  <2> QED BY <1>2, <2>1, <2>2 DEF Total, Paid
<1>4. Total({e \in EntriesOfSale(i) : ledger[e].credit = VatAccount}) = TaxPaid(ledger, i)
  BY <1>1, <1>2 DEF Total, TaxPaid
<1> QED BY <1>1, <1>3, <1>4

\* Sums over positions of a table of entries are natural numbers.
LEMMA TableSums ==
    ASSUME NEW l \in Seq(Entries)
    PROVE  /\ Len(l) \in Nat /\ DOMAIN l = 1..Len(l)
           /\ \A k \in DOMAIN l : AmountsOf(l)[k] = l[k].amount /\ AmountsOf(l)[k] \in Nat
           /\ \A K \in SUBSET DOMAIN l : /\ IsFiniteSet(K)
                                         /\ SumFunctionOnSet(AmountsOf(l), K) \in Nat
<1>1. Len(l) \in Nat /\ DOMAIN l = 1..Len(l)
  OBVIOUS
<1>2. IsFiniteSet(DOMAIN l)
  BY <1>1, FS_Interval
<1>3. \A k \in DOMAIN l : AmountsOf(l)[k] = l[k].amount /\ AmountsOf(l)[k] \in Nat
  <2> TAKE k \in DOMAIN l
  <2>1. l[k] \in Entries
    BY ElementOf
  <2> QED BY <2>1 DEF AmountsOf, Entries
<1>4. ASSUME NEW K \in SUBSET DOMAIN l
      PROVE  IsFiniteSet(K) /\ SumFunctionOnSet(AmountsOf(l), K) \in Nat
  <2>1. IsFiniteSet(K)
    BY <1>2, FS_Subset
  <2>2. \A k \in K : AmountsOf(l)[k] \in Nat
    BY <1>3
  <2> QED BY <2>1, <2>2, SumType
<1> QED BY <1>1, <1>3, <1>4

\* The positions of the second part of a joined table.
Shifted(n, K) == {n + k : k \in K}

\* A set of positions of a joined table is made of positions of its parts.
Consists(A, D, S, n, E, K) ==
    /\ S \subseteq D /\ K \subseteq E
    /\ \A e \in A : e \in D \/ \E k \in E : e = n + k
    /\ \A e \in D : e \in A <=> e \in S
    /\ \A k \in E : n + k \in A <=> k \in K

LEMMA PartsMakeSet ==
    ASSUME NEW A, NEW D, NEW S, NEW n, NEW E, NEW K, Consists(A, D, S, n, E, K)
    PROVE  A = S \cup Shifted(n, K)
BY Zenon DEF Consists, Shifted

\* Numbers under other names, and their sum.
Renames(f, S, g, h) ==
    /\ IsFiniteSet(S)
    /\ \A x \in S : f[x] \in Int /\ g[h[x]] = f[x]
    /\ \A x, y \in S : h[x] = h[y] => x = y

SameSum(f, S, g, h) ==
    /\ IsFiniteSet({h[x] : x \in S})
    /\ SumFunctionOnSet(g, {h[x] : x \in S}) = SumFunctionOnSet(f, S)

LEMMA RenamedSum ==
    ASSUME NEW f, NEW S, NEW g, NEW h, Renames(f, S, g, h)
    PROVE  SameSum(f, S, g, h)
<1>1. /\ IsFiniteSet(S)
      /\ \A x \in S : f[x] \in Int /\ g[h[x]] = f[x]
      /\ \A x, y \in S : h[x] = h[y] => x = y
  BY DEF Renames
<1>2. /\ IsFiniteSet({h[x] : x \in S})
      /\ SumFunctionOnSet(g, {h[x] : x \in S}) = SumFunctionOnSet(f, S)
  BY <1>1, SumRenamed, SMTT(30)
<1> QED BY <1>2 DEF SameSum

\* A sum over two parts under a common naming.
SumsUp(h, f, S, n, g, K) ==
    SumFunctionOnSet(h, S \cup Shifted(n, K))
      = SumFunctionOnSet(f, S) + SumFunctionOnSet(g, K)

Pieces(h, f, S, n, g, K) ==
    /\ IsFiniteSet(S) /\ IsFiniteSet(K) /\ K \subseteq Int /\ n \in Int
    /\ \A e \in S : f[e] \in Int /\ h[e] = f[e]
    /\ \A k \in K : g[k] \in Int /\ h[n + k] = g[k]
    /\ \A e \in S, k \in K : e # n + k

LEMMA SumOfPieces ==
    ASSUME NEW f, NEW g, NEW h, NEW S, NEW K, NEW n, Pieces(h, f, S, n, g, K)
    PROVE  SumsUp(h, f, S, n, g, K)
<1>1. /\ IsFiniteSet(S) /\ IsFiniteSet(K) /\ K \subseteq Int /\ n \in Int
      /\ \A e \in S : f[e] \in Int /\ h[e] = f[e]
      /\ \A k \in K : g[k] \in Int /\ h[n + k] = g[k]
      /\ \A e \in S, k \in K : e # n + k
  BY DEF Pieces
<1>2. PICK up : up = [k \in K |-> n + k]
  OBVIOUS
<1>3. \A k \in K : up[k] = n + k
  BY <1>2
<1>4. PICK T : T = {up[k] : k \in K}
  OBVIOUS
<1>5. Shifted(n, K) = T
  BY <1>3, <1>4 DEF Shifted
<1>6. IsFiniteSet(T) /\ SumFunctionOnSet(h, T) = SumFunctionOnSet(g, K)
  <2>1. Renames(g, K, h, up)
    BY <1>1, <1>3 DEF Renames
  <2>2. SameSum(g, K, h, up)
    BY <2>1, RenamedSum
  <2> QED BY <1>4, <2>2 DEF SameSum
<1>7. SumFunctionOnSet(h, S) = SumFunctionOnSet(f, S)
  BY <1>1, SumSame
<1>8. S \cap T = {} /\ \A e \in S \cup T : h[e] \in Int
  BY <1>1, <1>3, <1>4
<1>9. SumFunctionOnSet(h, S \cup T) = SumFunctionOnSet(h, S) + SumFunctionOnSet(h, T)
  BY <1>1, <1>6, <1>8, SumOfUnion
<1> QED BY <1>5, <1>6, <1>7, <1>9 DEF SumsUp

\* A sum over positions of a joined table is the sum over its parts.
LEMMA SumOfParts ==
    ASSUME NEW l \in Seq(Entries), NEW t \in Seq(Entries), NEW m, m = l \o t,
           NEW S \in SUBSET DOMAIN l, NEW K \in SUBSET DOMAIN t
    PROVE  SumsUp(AmountsOf(m), AmountsOf(l), S, Len(l), AmountsOf(t), K)
<1>1. PICK n \in Nat : n = Len(l)
  OBVIOUS
<1>2. /\ m \in Seq(Entries) /\ DOMAIN l = 1..n /\ DOMAIN m = 1..(n + Len(t))
      /\ DOMAIN t = 1..Len(t) /\ Len(t) \in Nat
      /\ \A e \in DOMAIN l : e \in DOMAIN m /\ m[e] = l[e]
      /\ \A k \in DOMAIN t : n + k \in DOMAIN m /\ m[n + k] = t[k]
  BY <1>1
<1>3. PICK f : f = AmountsOf(l)
  OBVIOUS
<1>4. PICK g : g = AmountsOf(t)
  OBVIOUS
<1>5. PICK h : h = AmountsOf(m)
  OBVIOUS
<1>6. /\ \A e \in DOMAIN l : f[e] \in Nat /\ h[e] = f[e]
      /\ \A k \in DOMAIN t : g[k] \in Nat /\ h[n + k] = g[k]
  BY <1>2, <1>3, <1>4, <1>5, TableSums DEF AmountsOf
<1>7. Pieces(h, f, S, n, g, K)
  <2>1. IsFiniteSet(S) /\ IsFiniteSet(K)
    BY TableSums
  <2> QED BY <1>2, <1>6, <2>1 DEF Pieces
<1>8. SumsUp(h, f, S, n, g, K)
  BY <1>7, SumOfPieces
<1> QED BY <1>1, <1>3, <1>4, <1>5, <1>8

\* What two tables carry joined is what each of them carries.
CarriesBoth(m, l, t, i) ==
    /\ OfSale(m, i) = OfSale(l, i) \cup Shifted(Len(l), OfSale(t, i))
    /\ TaxPaid(m, i) = TaxPaid(l, i) + TaxPaid(t, i)
    /\ \A v : Paid(m, i, v) = Paid(l, i, v) + Paid(t, i, v)

LEMMA JoinedCarries ==
    ASSUME NEW l \in Seq(Entries), NEW t \in Seq(Entries), NEW m, m = l \o t, NEW i
    PROVE  CarriesBoth(m, l, t, i)
<1>1. PICK n \in Nat : n = Len(l)
  OBVIOUS
<1>2. /\ m \in Seq(Entries) /\ DOMAIN l = 1..n /\ DOMAIN m = 1..(n + Len(t))
      /\ DOMAIN t = 1..Len(t) /\ Len(t) \in Nat
      /\ \A e \in DOMAIN l : e \in DOMAIN m /\ m[e] = l[e]
      /\ \A k \in DOMAIN t : n + k \in DOMAIN m /\ m[n + k] = t[k]
      /\ \A e \in DOMAIN m : e \notin DOMAIN l => e - n \in DOMAIN t /\ n + (e - n) = e
  BY <1>1
<1>3. \A e \in DOMAIN m : e \in DOMAIN l \/ \E k \in DOMAIN t : e = n + k
  <2> SUFFICES ASSUME NEW e \in DOMAIN m, e \notin DOMAIN l
               PROVE  \E k \in DOMAIN t : e = n + k
    OBVIOUS
  <2>1. PICK k \in DOMAIN t : k = e - n /\ e = n + k
    BY <1>2
  <2> QED BY <2>1
<1>4. OfSale(m, i) = OfSale(l, i) \cup Shifted(n, OfSale(t, i))
  <2>1. /\ \A e \in DOMAIN l : e \in OfSale(m, i) <=> e \in OfSale(l, i)
        /\ \A k \in DOMAIN t : n + k \in OfSale(m, i) <=> k \in OfSale(t, i)
        /\ OfSale(m, i) \subseteq DOMAIN m
        /\ OfSale(l, i) \subseteq DOMAIN l /\ OfSale(t, i) \subseteq DOMAIN t
    BY <1>2, Zenon DEF OfSale
  <2>2. \A e \in OfSale(m, i) : e \in DOMAIN l \/ \E k \in DOMAIN t : e = n + k
    BY <1>3, <2>1, Zenon
  <2>3. Consists(OfSale(m, i), DOMAIN l, OfSale(l, i), n, DOMAIN t, OfSale(t, i))
    BY <2>1, <2>2, Zenon DEF Consists
  <2> QED BY <2>3, PartsMakeSet
<1>5. ASSUME NEW v PROVE Paid(m, i, v) = Paid(l, i, v) + Paid(t, i, v)
  <2>1. PICK S \in SUBSET DOMAIN l : S = {e \in OfSale(l, i) : l[e].debit = v}
    BY DEF OfSale
  <2>2. PICK K \in SUBSET DOMAIN t : K = {k \in OfSale(t, i) : t[k].debit = v}
    BY DEF OfSale
  <2>3. PICK A \in SUBSET DOMAIN m : A = {e \in OfSale(m, i) : m[e].debit = v}
    BY DEF OfSale
  <2>4. /\ \A e \in DOMAIN l : e \in A <=> e \in S
        /\ \A k \in DOMAIN t : n + k \in A <=> k \in K
    BY <1>2, <2>1, <2>2, <2>3, Zenon DEF OfSale
  <2>5. A = S \cup Shifted(n, K)
    <3>1. \A e \in A : e \in DOMAIN l \/ \E k \in DOMAIN t : e = n + k
      BY <1>3
    <3>2. Consists(A, DOMAIN l, S, n, DOMAIN t, K)
      BY <2>4, <3>1, Zenon DEF Consists
    <3> QED BY <3>2, PartsMakeSet
  <2>6. SumFunctionOnSet(AmountsOf(m), A)
          = SumFunctionOnSet(AmountsOf(l), S) + SumFunctionOnSet(AmountsOf(t), K)
    <3>1. SumsUp(AmountsOf(m), AmountsOf(l), S, Len(l), AmountsOf(t), K)
      BY SumOfParts
    <3> QED BY <1>1, <2>5, <3>1 DEF SumsUp
  <2> QED BY <2>1, <2>2, <2>3, <2>6 DEF Paid
<1>6. TaxPaid(m, i) = TaxPaid(l, i) + TaxPaid(t, i)
  <2>1. PICK S \in SUBSET DOMAIN l : S = {e \in OfSale(l, i) : l[e].credit = VatAccount}
    BY DEF OfSale
  <2>2. PICK K \in SUBSET DOMAIN t : K = {k \in OfSale(t, i) : t[k].credit = VatAccount}
    BY DEF OfSale
  <2>3. PICK A \in SUBSET DOMAIN m : A = {e \in OfSale(m, i) : m[e].credit = VatAccount}
    BY DEF OfSale
  <2>4. /\ \A e \in DOMAIN l : e \in A <=> e \in S
        /\ \A k \in DOMAIN t : n + k \in A <=> k \in K
    BY <1>2, <2>1, <2>2, <2>3, Zenon DEF OfSale
  <2>5. A = S \cup Shifted(n, K)
    <3>1. \A e \in A : e \in DOMAIN l \/ \E k \in DOMAIN t : e = n + k
      BY <1>3
    <3>2. Consists(A, DOMAIN l, S, n, DOMAIN t, K)
      BY <2>4, <3>1, Zenon DEF Consists
    <3> QED BY <3>2, PartsMakeSet
  <2>6. SumFunctionOnSet(AmountsOf(m), A)
          = SumFunctionOnSet(AmountsOf(l), S) + SumFunctionOnSet(AmountsOf(t), K)
    <3>1. SumsUp(AmountsOf(m), AmountsOf(l), S, Len(l), AmountsOf(t), K)
      BY SumOfParts
    <3> QED BY <1>1, <2>5, <3>1 DEF SumsUp
  <2> QED BY <2>1, <2>2, <2>3, <2>6 DEF TaxPaid
<1> QED BY <1>1, <1>4, <1>5, <1>6 DEF CarriesBoth

\* A table with some of its entries cancelled.
Without(l, gone) ==
    [e \in DOMAIN l |-> IF e \in gone THEN [l[e] EXCEPT !.status = "cancelled"] ELSE l[e]]

\* What the cancellation of entries does to a table.
Loses(l, gone, m) ==
    /\ m \in Seq(Entries) /\ DOMAIN m = DOMAIN l /\ Len(m) = Len(l)
    /\ \A e \in DOMAIN l : m[e].ref = l[e].ref
    /\ \A i : OfSale(m, i) = OfSale(l, i) \ gone

LEMMA CancelledLoses ==
    ASSUME NEW l \in Seq(Entries), NEW gone
    PROVE  Loses(l, gone, Without(l, gone))
<1>1. PICK m : m = Without(l, gone)
  OBVIOUS
<1>2. DOMAIN m = DOMAIN l /\ DOMAIN l = 1..Len(l) /\ Len(l) \in Nat
  BY <1>1 DEF Without
<1>3. ASSUME NEW e \in DOMAIN l
      PROVE  /\ m[e] \in Entries /\ m[e].ref = l[e].ref /\ m[e].debit = l[e].debit
             /\ m[e].credit = l[e].credit /\ m[e].amount = l[e].amount
             /\ m[e].status = IF e \in gone THEN "cancelled" ELSE l[e].status
  <2>1. l[e] \in Entries
    BY ElementOf
  <2>2. m[e] = IF e \in gone THEN [l[e] EXCEPT !.status = "cancelled"] ELSE l[e]
    BY <1>1 DEF Without
  <2> QED BY <2>1, <2>2 DEF Entries
<1>4. m \in Seq(Entries) /\ Len(m) = Len(l)
  <2>1. m \in [1..Len(l) -> Entries]
    BY <1>1, <1>2, <1>3 DEF Without
  <2> QED BY <1>2, <2>1
<1>5. ASSUME NEW i PROVE OfSale(m, i) = OfSale(l, i) \ gone
  BY <1>2, <1>3 DEF OfSale
<1> QED BY <1>1, <1>2, <1>3, <1>4, <1>5 DEF Loses

\* What a ledger carries of a sale is natural, nothing without entries, and
\* it stays when the sale's entries do.
CarriesNat(l, i) == TaxPaid(l, i) \in Nat /\ \A v : Paid(l, i, v) \in Nat
CarriesSame(m, l, i) == TaxPaid(m, i) = TaxPaid(l, i) /\ \A v : Paid(m, i, v) = Paid(l, i, v)
CarriesNone(l, i) == TaxPaid(l, i) = 0 /\ \A v : Paid(l, i, v) = 0

LEMMA CarriedIsNatural == ASSUME NEW l \in Seq(Entries), NEW i PROVE CarriesNat(l, i)
<1>1. \A K \in SUBSET DOMAIN l : SumFunctionOnSet(AmountsOf(l), K) \in Nat
  BY TableSums
<1>2. \A v : {e \in OfSale(l, i) : l[e].debit = v} \in SUBSET DOMAIN l
  BY DEF OfSale
<1>3. {e \in OfSale(l, i) : l[e].credit = VatAccount} \in SUBSET DOMAIN l
  BY DEF OfSale
<1>4. \A v : Paid(l, i, v) \in Nat
  BY <1>1, <1>2 DEF Paid
<1>5. TaxPaid(l, i) \in Nat
  BY <1>1, <1>3 DEF TaxPaid
<1> QED BY <1>4, <1>5 DEF CarriesNat

LEMMA NothingCarried == ASSUME NEW l, NEW i, OfSale(l, i) = {} PROVE CarriesNone(l, i)
<1>1. \A v : {e \in OfSale(l, i) : l[e].debit = v} = {}
  OBVIOUS
<1>2. {e \in OfSale(l, i) : l[e].credit = VatAccount} = {}
  OBVIOUS
<1>3. \A v : Paid(l, i, v) = 0
  BY <1>1, SumEmpty DEF Paid
<1>4. TaxPaid(l, i) = 0
  BY <1>2, SumEmpty DEF TaxPaid
<1> QED BY <1>3, <1>4 DEF CarriesNone

LEMMA CancellationSpares ==
    ASSUME NEW l \in Seq(Entries), NEW gone, NEW i, OfSale(l, i) \cap gone = {}
    PROVE  CarriesSame(Without(l, gone), l, i)
<1>1. PICK m : m = Without(l, gone)
  OBVIOUS
<1>2. OfSale(m, i) = OfSale(l, i)
  <2>1. Loses(l, gone, m)
    BY <1>1, CancelledLoses
  <2>2. OfSale(m, i) = OfSale(l, i) \ gone
    BY <2>1 DEF Loses
  <2> QED BY <2>2
<1>3. \A e \in OfSale(l, i) : m[e] = l[e]
  BY <1>1 DEF OfSale, Without
<1>4. ASSUME NEW K \in SUBSET OfSale(l, i)
      PROVE  SumFunctionOnSet(AmountsOf(m), K) = SumFunctionOnSet(AmountsOf(l), K)
  <2>1. K \in SUBSET DOMAIN l /\ IsFiniteSet(K)
    <3>1. K \in SUBSET DOMAIN l
      BY DEF OfSale
    <3> QED BY <3>1, TableSums
  <2>2. \A e \in K : AmountsOf(m)[e] = AmountsOf(l)[e]
    BY <1>1, <1>3, <2>1 DEF AmountsOf, Without
  <2> QED BY <2>1, <2>2, SumSame
<1>5. ASSUME NEW v PROVE Paid(m, i, v) = Paid(l, i, v)
  <2>1. PICK K \in SUBSET OfSale(l, i) : K = {e \in OfSale(l, i) : l[e].debit = v}
    OBVIOUS
  <2>2. K = {e \in OfSale(m, i) : m[e].debit = v}
    BY <1>2, <1>3, <2>1
  <2> QED BY <1>4, <2>1, <2>2 DEF Paid
<1>6. TaxPaid(m, i) = TaxPaid(l, i)
  <2>1. PICK K \in SUBSET OfSale(l, i) : K = {e \in OfSale(l, i) : l[e].credit = VatAccount}
    OBVIOUS
  <2>2. K = {e \in OfSale(m, i) : m[e].credit = VatAccount}
    BY <1>2, <1>3, <2>1
  <2> QED BY <1>4, <2>1, <2>2 DEF TaxPaid
<1> QED BY <1>1, <1>5, <1>6 DEF CarriesSame

\* The entries of one sale carry that sale and no other.
Carries(l, i, channels, tax) ==
    TaxPaid(l, i) = tax /\ \A v \in Vaults : Paid(l, i, v) = channels[v]

LEMMA BookedCarries ==
    ASSUME NEW t, NEW id \in Nat, NEW channels, NEW day, NEW vat,
           Books(t, id, channels, day, vat)
    PROVE  /\ Carries(t, id, channels, TaxOf(channels, vat))
           /\ \A i \in Nat : i # id => CarriesNone(t, i)
<1>1. \A k \in DOMAIN t : t[k].ref = Ref("sale", id) /\ t[k].status = "active"
  BY DEF Books
<1>2. OfSale(t, id) = DOMAIN t
  BY <1>1 DEF OfSale
<1>3. ASSUME NEW i \in Nat, i # id PROVE CarriesNone(t, i)
  <2>1. Ref("sale", i) # Ref("sale", id)
    BY <1>3 DEF Ref
  <2>2. OfSale(t, i) = {}
    BY <1>1, <2>1 DEF OfSale
  <2> QED BY <2>2, NothingCarried
<1>4. /\ \A v : Paid(t, id, v) = PaidInto(t, v)
      /\ TaxPaid(t, id) = TaxIn(t)
  BY <1>2 DEF Paid, PaidInto, TaxPaid, TaxIn
<1>5. Carries(t, id, channels, TaxOf(channels, vat))
  BY <1>4 DEF Books, Carries
<1> QED BY <1>3, <1>5

\* The entries of one or two new sales, one after the other.
LEMMA FlattenOne ==
    ASSUME NEW s, DOMAIN s = 1..1, Len(s) = 1
    PROVE  FlattenSeq(s) = s[1]
<1> DEFINE step(f) == [i \in 1..1 |-> IF i = 1 THEN s[i] ELSE f[i - 1] \o s[i]]
           g == CHOOSE f : f = step(f)
<1>1. \E f : f = step(f)
  <2>1. PICK f : f = [i \in 1..1 |-> s[i]]
    OBVIOUS
  <2>2. f = step(f)
    BY <2>1
  <2> QED BY <2>2
<1>2. g = step(g)
  BY <1>1
<1>3. g[1] = s[1]
  <2>1. step(g)[1] = s[1]
    OBVIOUS
  <2> HIDE DEF g, step
  <2> QED BY <1>2, <2>1
<1>4. FlattenSeq(s) = g[1]
  BY DEF FlattenSeq
<1> HIDE DEF g
<1> QED BY <1>3, <1>4

LEMMA FlattenTwo ==
    ASSUME NEW s, DOMAIN s = 1..2, Len(s) = 2
    PROVE  FlattenSeq(s) = s[1] \o s[2]
<1> DEFINE step(f) == [i \in 1..2 |-> IF i = 1 THEN s[i] ELSE f[i - 1] \o s[i]]
           g == CHOOSE f : f = step(f)
<1>1. \E f : f = step(f)
  <2>1. PICK f : f = [i \in 1..2 |-> IF i = 1 THEN s[1] ELSE s[1] \o s[2]]
    OBVIOUS
  <2>2. f[1] = s[1] /\ f[2] = s[1] \o s[2]
    BY <2>1
  <2>3. \A i \in 1..2 : f[i] = IF i = 1 THEN s[i] ELSE f[i - 1] \o s[i]
    <3>1. \A i \in 1..2 : i = 1 \/ (i = 2 /\ i - 1 = 1)
      OBVIOUS
    <3> QED BY <2>2, <3>1
  <2>4. f = step(f)
    BY <2>1, <2>3
  <2> QED BY <2>4
<1>2. g = step(g)
  BY <1>1
<1>3. g[1] = s[1] /\ g[2] = g[1] \o s[2]
  <2>1. step(g)[1] = s[1] /\ step(g)[2] = g[1] \o s[2]
    BY SMTT(30)
  <2> HIDE DEF g, step
  <2> QED BY <1>2, <2>1
<1>4. FlattenSeq(s) = g[2]
  BY DEF FlattenSeq
<1> HIDE DEF g
<1> QED BY <1>3, <1>4

\* What a batch of entries posted for the sales from + 1, ... books.
BooksBatch(t, items, from, vat) ==
    /\ t \in Seq(Entries)
    /\ \A k \in DOMAIN t : \E n \in DOMAIN items : t[k].ref = Ref("sale", from + n)
    /\ \A n \in DOMAIN items :
          Carries(t, from + n, items[n].channels, TaxOf(items[n].channels, vat))
    /\ \A i \in Nat : (\A n \in DOMAIN items : i # from + n) => CarriesNone(t, i)

Items == Seq([shift : Shifts, channels : Channels])

BatchEntries(items, from, day, vat) ==
    FlattenSeq([n \in DOMAIN items |-> SaleEntries(from + n, items[n].channels, day, vat)])

LEMMA BatchIsBooked ==
    ASSUME NEW items \in Items, Len(items) \in 1..2, NEW from \in Nat, NEW day \in Days,
           NEW vat \in BOOLEAN
    PROVE  BooksBatch(BatchEntries(items, from, day, vat), items, from, vat)
<1>1. PICK s : s = [n \in DOMAIN items |-> SaleEntries(from + n, items[n].channels, day, vat)]
  OBVIOUS
<1>2. \A n \in DOMAIN items : items[n].channels \in Channels /\ from + n \in Nat
  <2>1. /\ \A n \in DOMAIN items : items[n] \in [shift : Shifts, channels : Channels]
        /\ DOMAIN items = 1..Len(items)
    <3>1. PICK R : R = [shift : Shifts, channels : Channels]
      OBVIOUS
    <3>2. items \in Seq(R)
      BY <3>1 DEF Items
    <3>3. \A n \in DOMAIN items : items[n] \in R
      BY <3>2, ElementOf
    <3> QED BY <3>1, <3>2, <3>3
  <2> QED BY <2>1
<1>3. \A n \in DOMAIN items : Books(s[n], from + n, items[n].channels, day, vat)
  BY <1>1, <1>2, SaleIsBooked
<1>4. \A n \in DOMAIN items :
         /\ s[n] \in Seq(Entries)
         /\ \A k \in DOMAIN s[n] : s[n][k].ref = Ref("sale", from + n)
         /\ Carries(s[n], from + n, items[n].channels, TaxOf(items[n].channels, vat))
         /\ \A i \in Nat : i # from + n => CarriesNone(s[n], i)
  BY <1>2, <1>3, BookedCarries DEF Books
<1>5. BatchEntries(items, from, day, vat) = FlattenSeq(s)
  BY <1>1 DEF BatchEntries
<1>6. CASE Len(items) = 1
  <2>1. DOMAIN items = 1..1 /\ DOMAIN s = 1..1 /\ Len(s) = 1 /\ 1 \in DOMAIN items
    BY <1>1, <1>6 DEF Items
  <2>2. FlattenSeq(s) = s[1]
    BY <2>1, FlattenOne
  <2>3. DOMAIN items = {1}
    BY <2>1
  <2>4. PICK t : t = s[1]
    OBVIOUS
  <2>5. BooksBatch(t, items, from, vat)
    BY <1>4, <2>3, <2>4, Zenon DEF BooksBatch
  <2> QED BY <1>5, <2>2, <2>4, <2>5
<1>7. CASE Len(items) = 2
  <2>1. DOMAIN items = 1..2 /\ DOMAIN s = 1..2 /\ Len(s) = 2
    BY <1>1, <1>7 DEF Items
  <2>2. FlattenSeq(s) = s[1] \o s[2]
    BY <2>1, FlattenTwo
  <2>3. DOMAIN items = {1, 2} /\ 1 \in DOMAIN items /\ 2 \in DOMAIN items
    BY <2>1
  <2>4. PICK a : a = s[1]
    OBVIOUS
  <2>5. PICK b : b = s[2]
    OBVIOUS
  <2>6. PICK t : t = a \o b
    OBVIOUS
  <2>7. a \in Seq(Entries) /\ b \in Seq(Entries)
    BY <1>4, <2>3, <2>4, <2>5
  <2>8. /\ t \in Seq(Entries)
        /\ \A i : /\ \A v : Paid(t, i, v) = Paid(a, i, v) + Paid(b, i, v)
                  /\ TaxPaid(t, i) = TaxPaid(a, i) + TaxPaid(b, i)
    <3>1. \A i : CarriesBoth(t, a, b, i)
      BY <2>6, <2>7, JoinedCarries
    <3>2. t \in Seq(Entries)
      BY <2>6, <2>7
    <3> QED BY <3>1, <3>2 DEF CarriesBoth
  <2>9. \A i : CarriesNat(a, i) /\ CarriesNat(b, i)
    BY <2>7, CarriedIsNatural
  <2>10. from + 1 \in Nat /\ from + 2 \in Nat /\ from + 1 # from + 2
    OBVIOUS
  <2>11. ASSUME NEW n \in DOMAIN items
         PROVE  Carries(t, from + n, items[n].channels, TaxOf(items[n].channels, vat))
    <3>1. CASE n = 1
      <4>1. /\ Carries(a, from + 1, items[1].channels, TaxOf(items[1].channels, vat))
            /\ CarriesNone(b, from + 1)
        BY <1>4, <2>3, <2>4, <2>5, <2>10
      <4>2. CarriesNat(a, from + 1)
        BY <2>9
      <4> QED BY <2>8, <3>1, <4>1, <4>2 DEF Carries, CarriesNone, CarriesNat
    <3>2. CASE n = 2
      <4>1. /\ Carries(b, from + 2, items[2].channels, TaxOf(items[2].channels, vat))
            /\ CarriesNone(a, from + 2)
        BY <1>4, <2>3, <2>4, <2>5, <2>10
      <4>2. CarriesNat(b, from + 2)
        BY <2>9
      <4> QED BY <2>8, <3>2, <4>1, <4>2 DEF Carries, CarriesNone, CarriesNat
    <3> QED BY <2>3, <3>1, <3>2
  <2>12. ASSUME NEW i \in Nat, \A n \in DOMAIN items : i # from + n
         PROVE  CarriesNone(t, i)
    <3>1. CarriesNone(a, i) /\ CarriesNone(b, i)
      BY <1>4, <2>3, <2>4, <2>5, <2>12
    <3> QED BY <2>8, <3>1 DEF CarriesNone
  <2>13. ASSUME NEW k \in DOMAIN t
         PROVE  \E n \in DOMAIN items : t[k].ref = Ref("sale", from + n)
    <3>1. \/ k \in DOMAIN a /\ t[k] = a[k]
          \/ k - Len(a) \in DOMAIN b /\ t[k] = b[k - Len(a)]
      BY <2>6, <2>7
    <3>2. CASE k \in DOMAIN a /\ t[k] = a[k]
      BY <1>4, <2>3, <2>4, <3>2
    <3>3. CASE k - Len(a) \in DOMAIN b /\ t[k] = b[k - Len(a)]
      <4>1. PICK j \in DOMAIN b : t[k] = b[j]
        BY <3>3
      <4>2. b[j].ref = Ref("sale", from + 2)
        BY <1>4, <2>3, <2>5
      <4> QED BY <2>3, <4>1, <4>2
    <3> QED BY <3>1, <3>2, <3>3
  <2>14. BooksBatch(t, items, from, vat)
    BY <2>8, <2>11, <2>12, <2>13 DEF BooksBatch
  <2> QED BY <1>5, <2>2, <2>4, <2>5, <2>6, <2>14
<1> QED BY <1>6, <1>7

-----------------------------------------------------------------------------
(* What requests know of the ledger, however they interleave.              *)

\* What a request has found, and what it may rely on whoever else writes.
Knows(a) ==
    LET q == a.request IN
    /\ a.pc # "idle" /\ a.tries \in 1..RetryMax
    /\ q.op = "create" \/ a.seen.numbers = <<>>
    /\ a.seen.entries \subseteq IF q.op = "update" THEN EntriesOf(Ref("sale", q.id)) ELSE {}
    /\ q.op = "create" => ValidBatch(q.items) \/ a.pc = "failed"
    /\ \A n \in DOMAIN a.seen.numbers : a.seen.numbers[n] > 0
    /\ a.pc \in {"shift", "entries", "write"} /\ q.op \in {"update", "shift"} =>
          q.id \in DOMAIN summaries
    /\ a.pc = "write" /\ q.op = "cancel" => q.id \in DOMAIN summaries
    /\ a.pc = "entries" => q.op = "update"
    /\ a.pc = "find" => q.op \in {"update", "cancel"}
    /\ a.pc = "period" => q.op \in {"create", "update"}
    /\ a.pc = "number" => q.op = "create"
    /\ a.pc = "shift" => q.op # "cancel"
    /\ a.pc = "preread" => a.seen = Unread
    /\ q.op = "shift" /\ a.pc \in {"shift", "write"} => a.seen.day \in Days /\ a.seen.shift = q.shift

\* The ledger is about the sales there are, and none of an active one is missing.
Booked ==
    /\ LedgerTypeOK
    /\ \A e \in DOMAIN ledger : \E i \in DOMAIN summaries : ledger[e].ref = Ref("sale", i)
    /\ \A i \in DOMAIN summaries : summaries[i].number.count > 0
    /\ \A r \in Attempts : attempt[r] = Unsent \/ Knows(attempt[r])
    /\ apart \in BOOLEAN
    /\ SalesNeverMissing

-----------------------------------------------------------------------------
(* What a request knows stays so.                                          *)

\* Summaries and entries are added, none is taken back.
Grows ==
    /\ DOMAIN summaries \subseteq DOMAIN summaries'
    /\ \A e \in DOMAIN ledger : e \in DOMAIN ledger' /\ ledger'[e].ref = ledger[e].ref

LEMMA KnowsGrows ==
    ASSUME NEW a, Knows(a), Grows
    PROVE  Knows(a)'
<1>1. \A ref : EntriesOf(ref) \subseteq EntriesOf(ref)'
  BY DEF Grows, EntriesOf
<1>2. a.seen.entries \subseteq IF a.request.op = "update"
                              THEN EntriesOf(Ref("sale", a.request.id))' ELSE {}
  BY <1>1 DEF Knows
<1> QED BY <1>2 DEF Knows, Grows

LEMMA AllKnow ==
    ASSUME IInv, Booked, NEW r \in Attempts, NEW new, Moves(r, new), Grows, Knows(new)'
    PROVE  \A s \in Attempts : (attempt[s] = Unsent \/ Knows(attempt[s]))'
<1> TAKE s \in Attempts
<1>1. CASE s = r
  BY <1>1 DEF Moves
<1>2. CASE s # r
  <2>1. PICK a : a = attempt[s]
    OBVIOUS
  <2>2. attempt'[s] = a
    BY <1>2, <2>1 DEF Moves
  <2>3. a = Unsent \/ Knows(a)
    BY <2>1 DEF Booked
  <2>4. a = Unsent \/ Knows(a)'
    BY <2>3, KnowsGrows
  <2> QED BY <2>2, <2>4 DEF Unsent
<1> QED BY <1>1, <1>2

\* A step that writes nothing.
LEMMA MoveBooks ==
    ASSUME IInv, Booked, NEW r \in Attempts, NEW new, Moves(r, new), Knows(new),
           UNCHANGED <<summaries, ledger>>, apart' \in BOOLEAN
    PROVE  Booked'
<1>1. Grows
  BY DEF Grows
<1>2. Knows(new)'
  BY <1>1, KnowsGrows
<1>3. \A s \in Attempts : (attempt[s] = Unsent \/ Knows(attempt[s]))'
  BY <1>1, <1>2, AllKnow
<1>4. SalesNeverMissing' /\ LedgerTypeOK'
  BY ZenonT(30) DEF Booked, SalesNeverMissing, CarriedInto, EntriesOfSale, EntriesOf, ActiveEntries,
         Total, Amounts, LedgerTypeOK
<1>5. /\ \A e \in DOMAIN ledger' : \E i \in DOMAIN summaries' : ledger'[e].ref = Ref("sale", i)
      /\ \A i \in DOMAIN summaries' : summaries'[i].number.count > 0
  BY DEF Booked
<1> QED BY <1>3, <1>4, <1>5 DEF Booked

LEMMA GotoBooks ==
    ASSUME IInv, Booked, NEW r \in Attempts, attempt[r].pc # "idle", NEW pc, Goto(r, pc),
           Knows(Next4(r, pc, attempt[r].tries, attempt[r].seen)),
           UNCHANGED <<summaries, ledger>>, apart' \in BOOLEAN
    PROVE  Booked'
<1>1. PICK new : new = Next4(r, pc, attempt[r].tries, attempt[r].seen)
  OBVIOUS
<1>2. Moves(r, new)
  BY <1>1, GotoMoves DEF IInv
<1> QED BY <1>1, <1>2, MoveBooks

\* What a request knows when it ends.
LEMMA EndKnows ==
    ASSUME Booked, NEW r \in Attempts, attempt[r].pc # "idle", NEW pc \in {"done", "failed"},
           pc = "done" => attempt[r].pc # "failed"
    PROVE  Knows(Next4(r, pc, attempt[r].tries, attempt[r].seen))
<1>1. Knows(attempt[r])
  BY DEF Booked, Unsent
<1> QED BY <1>1 DEF Knows, Next4

LEMMA EndBooks ==
    ASSUME IInv, Booked, NEW r \in Attempts, attempt[r].pc \in Running, Fail(r),
           UNCHANGED <<summaries, ledger>>, apart' \in BOOLEAN
    PROVE  Booked'
BY EndKnows, GotoBooks DEF Fail, Running

LEMMA SubmitBooks ==
    ASSUME IInv, Booked, NEW r \in Attempts, NEW q \in Requests, Submit(r, q), apart' \in BOOLEAN
    PROVE  Booked'
<1>1. PICK new : new = [pc |-> FirstStep(q), request |-> q, tries |-> 1, seen |-> Unread]
  OBVIOUS
<1>2. Moves(r, new) /\ UNCHANGED <<summaries, ledger>>
  BY <1>1 DEF Submit, Unwritten, Moves, IInv, Shapes
<1>3. Knows(new)
  <2>1. q.op \in {"create", "update", "shift", "cancel"} /\ 1 \in 1..RetryMax
    BY SalesConstants
  <2>2. /\ q.op = "create" => /\ new.pc \in {"period", "failed"}
                              /\ ValidBatch(q.items) \/ new.pc = "failed"
        /\ q.op = "update" => new.pc \in {"preread", "failed"}
        /\ q.op = "shift" => new.pc = "preread"
        /\ q.op = "cancel" => new.pc = "find"
    BY <1>1, <2>1 DEF FirstStep
  <2> QED BY <1>1, <2>1, <2>2 DEF Knows, Unread
<1> QED BY <1>2, <1>3, MoveBooks

LEMMA PrereadBooks ==
    ASSUME IInv, Booked, NEW r \in Attempts, Preread(r), apart' \in BOOLEAN
    PROVE  Booked'
<1> DEFINE q == attempt[r].request
           day == IF q.day = 0 THEN summaries[q.id].day ELSE q.day
           pc == IF q.op = "update" THEN "period" ELSE "shift"
           seen == [day |-> day, shift |-> q.shift, numbers |-> <<>>, entries |-> {}]
<1>1. /\ attempt[r] \in Records(r) /\ attempt[r].pc = "preread" /\ Knows(attempt[r])
      /\ UNCHANGED <<summaries, ledger>>
  BY RequestIsRecord DEF IInv, Booked, Preread, At, Unwritten, Unsent
<1>2. CASE ~(q.id \in DOMAIN summaries /\ summaries[q.id].status = "active")
  BY <1>1, <1>2, EndBooks DEF Preread, Running
<1>3. CASE q.id \in DOMAIN summaries /\ summaries[q.id].status = "active"
  <2>1. q.op \in {"update", "shift"} /\ q \in Requests
    BY <1>1 DEF IInv, Ready, Running, Records
  <2>2. summaries[q.id].day \in Days
    <3>1. summaries[q.id] \in SummaryRows
      BY <1>3 DEF IInv, Shapes
    <3> QED BY <3>1 DEF SummaryRows
  <2>3. q.op = "shift" => day \in Days
    BY <2>1, <2>2, SalesConstants
  <2>4. Learn(r, seen, pc)
    BY <1>3 DEF Preread
  <2>5. PICK new : new = Next4(r, pc, attempt[r].tries, seen)
    OBVIOUS
  <2>6. Moves(r, new)
    BY <1>1, <2>4, <2>5, LearnMoves DEF IInv
  <2>7. Knows(new)
    <3> HIDE DEF day
    <3> QED BY <1>1, <1>3, <2>1, <2>3, <2>5 DEF Knows, Next4
  <2> QED BY <1>1, <2>6, <2>7, MoveBooks
<1> QED BY <1>2, <1>3

LEMMA ChecksBook ==
    ASSUME IInv, Booked, NEW r \in Attempts, CheckPeriod(r) \/ Find(r) \/ CheckShift(r),
           apart' \in BOOLEAN
    PROVE  Booked'
<1> DEFINE q == attempt[r].request
<1>1. attempt[r].pc \in {"period", "find", "shift"} /\ UNCHANGED <<summaries, ledger>>
  BY DEF CheckPeriod, Find, CheckShift, At, Unwritten
<1>2. q \in Requests /\ Knows(attempt[r])
  BY <1>1, RequestIsRecord DEF IInv, Records, Booked, Unsent
<1>3. CASE Fail(r)
  BY <1>1, <1>3, EndBooks DEF Running
<1>4. CASE ~Fail(r)
  <2>1. PICK pc :
          /\ Goto(r, pc)
          /\ attempt[r].pc = "period" => pc = IF q.op = "create" THEN "shift" ELSE "find"
          /\ attempt[r].pc = "find" => /\ pc = IF q.op = "cancel" THEN "write" ELSE "shift"
                                       /\ q.id \in DOMAIN summaries
          /\ attempt[r].pc = "shift" =>
                pc = IF q.op = "create" THEN "number"
                     ELSE IF q.op = "update" THEN "entries" ELSE "write"
    <3>1. CASE CheckPeriod(r)
      BY <1>4, <3>1 DEF CheckPeriod, Step, At, Fail
    <3>2. CASE Find(r)
      BY <1>4, <3>2 DEF Find, Step, At, Fail
    <3>3. CASE CheckShift(r)
      BY <1>4, <3>3 DEF CheckShift, Step, At, Fail
    <3> QED BY <3>1, <3>2, <3>3
  <2>2. q.op \in {"create", "update", "shift", "cancel"}
    BY <1>2, SalesConstants
  <2>3. Knows(Next4(r, pc, attempt[r].tries, attempt[r].seen))
    <3>1. CASE attempt[r].pc = "period"
      BY <1>2, <2>1, <2>2, <3>1 DEF Knows, Next4
    <3>2. CASE attempt[r].pc = "find"
      BY <1>2, <2>1, <2>2, <3>2 DEF Knows, Next4
    <3>3. CASE attempt[r].pc = "shift"
      BY <1>2, <2>1, <2>2, <3>3 DEF Knows, Next4
    <3> QED BY <1>1, <3>1, <3>2, <3>3
  <2> QED BY <1>1, <2>1, <2>3, GotoBooks
<1> QED BY <1>3, <1>4

LEMMA CountIsNatural ==
    ASSUME Shapes, NEW day
    PROVE  Cardinality(NumbersOf(day)) \in Nat
<1>1. NumbersOf(day) \subseteq 1..Len(summaries) /\ Len(summaries) \in Nat
  BY DEF Shapes, NumbersOf
<1>2. IsFiniteSet(NumbersOf(day))
  <2>1. Len(summaries) \in Int
    BY <1>1
  <2>2. IsFiniteSet(1..Len(summaries))
    BY <2>1, FS_Interval
  <2> QED BY <1>1, <2>2, FS_Subset
<1> QED BY <1>2, FS_CardinalityType

LEMMA DrawBooks ==
    ASSUME IInv, Booked, NEW r \in Attempts, DrawNumber(r), apart' \in BOOLEAN
    PROVE  Booked'
<1> DEFINE q == attempt[r].request
           numbers == attempt[r].seen.numbers
           count == Cardinality(NumbersOf(q.day))
           drawn == Append(numbers, count + Len(numbers) + 1)
           pc == IF Len(drawn) < Len(q.items) THEN "shift" ELSE "write"
           seen == [attempt[r].seen EXCEPT !.numbers = drawn]
<1>1. /\ attempt[r].pc = "number" /\ attempt[r] \in Records(r) /\ Knows(attempt[r])
      /\ UNCHANGED <<summaries, ledger>>
  BY RequestIsRecord DEF IInv, Booked, DrawNumber, At, Unwritten, Unsent
<1>2. CASE Fail(r)
  BY <1>1, <1>2, EndBooks DEF Running
<1>3. CASE ~ Fail(r)
  <2>1. Learn(r, seen, pc)
    BY <1>3 DEF DrawNumber
  <2>2. PICK new : new = Next4(r, pc, attempt[r].tries, seen)
    OBVIOUS
  <2>3. Moves(r, new)
    BY <1>1, <2>1, <2>2, LearnMoves DEF IInv
  <2>4. /\ seen.day = attempt[r].seen.day /\ seen.shift = attempt[r].seen.shift
        /\ seen.entries = attempt[r].seen.entries /\ seen.numbers = drawn
    <3>1. attempt[r].seen \in [day : Days \cup {0}, shift : Shifts, numbers : Seq(Nat),
                               entries : {attempt[r].seen.entries}]
      BY <1>1 DEF Records
    <3> HIDE DEF drawn
    <3> QED BY <3>1
  <2>5. numbers \in Seq(Nat) /\ count \in Nat
    BY <1>1, CountIsNatural DEF IInv, Records
  <2>6. \A n \in DOMAIN drawn : drawn[n] > 0
    <3>1. PICK x \in Nat : x = count + Len(numbers) + 1 /\ x > 0
      BY <2>5
    <3>2. \A n \in DOMAIN numbers : numbers[n] > 0
      BY <1>1 DEF Knows
    <3>3. drawn = Append(numbers, x)
      BY <3>1
    <3> HIDE DEF drawn, count, numbers
    <3>4. \A n \in DOMAIN Append(numbers, x) :
             n \in DOMAIN numbers \/ n = Len(numbers) + 1
      BY <2>5
    <3>5. /\ Append(numbers, x)[Len(numbers) + 1] = x
          /\ \A n \in DOMAIN numbers : Append(numbers, x)[n] = numbers[n]
      BY <2>5
    <3> QED BY <3>1, <3>2, <3>3, <3>4, <3>5
  <2>7. Knows(new)
    <3>1. pc \in {"shift", "write"} /\ q.op = "create"
      BY <1>1 DEF Knows
    <3> HIDE DEF pc, seen, drawn
    <3> QED BY <1>1, <2>2, <2>4, <2>6, <3>1 DEF Knows, Next4
  <2> QED BY <1>1, <2>3, <2>7, MoveBooks
<1> QED BY <1>2, <1>3

LEMMA EntriesBook ==
    ASSUME IInv, Booked, NEW r \in Attempts, FindEntries(r), apart' \in BOOLEAN
    PROVE  Booked'
<1> DEFINE q == attempt[r].request
           found == EntriesOf(Ref("sale", q.id)) \cap ActiveEntries
           seen == [attempt[r].seen EXCEPT !.entries = found]
<1>1. /\ attempt[r].pc = "entries" /\ attempt[r] \in Records(r) /\ Knows(attempt[r])
      /\ UNCHANGED <<summaries, ledger>>
  BY RequestIsRecord DEF IInv, Booked, FindEntries, At, Unwritten, Unsent
<1>2. CASE Fail(r)
  BY <1>1, <1>2, EndBooks DEF Running
<1>3. CASE ~ Fail(r)
  <2>1. Learn(r, seen, "write")
    BY <1>3 DEF FindEntries
  <2>2. PICK new : new = Next4(r, "write", attempt[r].tries, seen)
    OBVIOUS
  <2>3. Moves(r, new)
    BY <1>1, <2>1, <2>2, LearnMoves DEF IInv
  <2>4. /\ seen.day = attempt[r].seen.day /\ seen.shift = attempt[r].seen.shift
        /\ seen.entries = found /\ seen.numbers = attempt[r].seen.numbers
    <3>1. attempt[r].seen \in [day : Days \cup {0}, shift : Shifts, numbers : Seq(Nat),
                               entries : {attempt[r].seen.entries}]
      BY <1>1 DEF Records
    <3> HIDE DEF found
    <3> QED BY <3>1
  <2>5. Knows(new)
    <3>1. q.op = "update" /\ found \subseteq EntriesOf(Ref("sale", q.id))
      BY <1>1 DEF Knows
    <3> HIDE DEF seen, found
    <3> QED BY <1>1, <2>2, <2>4, <3>1 DEF Knows, Next4
  <2> QED BY <1>1, <2>3, <2>5, MoveBooks
<1> QED BY <1>2, <1>3

\* The record a creation begins again with.
LEMMA RetryMoves ==
    ASSUME IInv, NEW r \in Attempts, attempt[r].pc = "write",
           attempt' = [attempt EXCEPT ![r].pc = "period", ![r].tries = @ + 1, ![r].seen = Unread]
    PROVE  Moves(r, Next4(r, "period", attempt[r].tries + 1, Unread))
<1> DEFINE a == Next4(r, "period", attempt[r].tries, attempt[r].seen)
           b == Next4(r, "period", attempt[r].tries + 1, attempt[r].seen)
           new == Next4(r, "period", attempt[r].tries + 1, Unread)
<1>0. attempt[r] \in Records(r)
  BY RequestIsRecord DEF IInv
<1>1. [attempt[r] EXCEPT !.pc = "period"] = a
  BY <1>0 DEF Records, Next4
<1>2. [a EXCEPT !.tries = @ + 1] = b
  BY DEF Next4
<1>3. [b EXCEPT !.seen = Unread] = new
  BY DEF Next4
<1> HIDE DEF a, b, new
<1>4. Moves(r, new)
  BY <1>1, <1>2, <1>3 DEF Moves, IInv, Shapes
<1> QED BY <1>4 DEF new

LEMMA ConflictBooks ==
    ASSUME IInv, Booked, NEW r \in Attempts, Conflict(r), apart' \in BOOLEAN
    PROVE  Booked'
<1>1. /\ attempt[r].pc = "write" /\ Knows(attempt[r]) /\ attempt[r] \in Records(r)
      /\ UNCHANGED <<summaries, ledger>>
  BY RequestIsRecord DEF IInv, Booked, Conflict, At, Unwritten, Unsent
<1>2. CASE Fail(r)
  BY <1>1, <1>2, EndBooks DEF Running
<1>3. CASE ~ Fail(r)
  <2>1. /\ attempt[r].request.op = "create" /\ attempt[r].tries < RetryMax
        /\ attempt' = [attempt EXCEPT ![r].pc = "period", ![r].tries = @ + 1,
                                      ![r].seen = Unread]
    BY <1>3 DEF Conflict
  <2>2. PICK new : new = Next4(r, "period", attempt[r].tries + 1, Unread)
    OBVIOUS
  <2>3. Moves(r, new)
    BY <1>1, <2>1, <2>2, RetryMoves
  <2>4. Knows(new)
    <3>1. attempt[r].tries + 1 \in 1..RetryMax
      BY <1>1, <2>1, SalesConstants DEF Knows
    <3> QED BY <1>1, <2>1, <2>2, <3>1 DEF Knows, Next4, Unread
  <2> QED BY <1>1, <2>3, <2>4, MoveBooks
<1> QED BY <1>2, <1>3

\* The periods, and steps that change nothing here.
LEMMA StillBooked ==
    ASSUME Booked, UNCHANGED <<summaries, attempt, ledger>>, apart' \in BOOLEAN
    PROVE  Booked'
<1>1. \A s \in Attempts : (attempt[s] = Unsent \/ Knows(attempt[s]))'
  <2> TAKE s \in Attempts
  <2>1. PICK a : a = attempt[s]
    OBVIOUS
  <2>2. a = Unsent \/ Knows(a)'
    BY <2>1, KnowsGrows DEF Booked, Grows
  <2> QED BY <2>1, <2>2 DEF Unsent
<1>2. SalesNeverMissing' /\ LedgerTypeOK'
  BY ZenonT(30) DEF Booked, SalesNeverMissing, CarriedInto, EntriesOfSale, EntriesOf, ActiveEntries,
         Total, Amounts, LedgerTypeOK
<1>3. /\ \A e \in DOMAIN ledger' : \E i \in DOMAIN summaries' : ledger'[e].ref = Ref("sale", i)
      /\ \A i \in DOMAIN summaries' : summaries'[i].number.count > 0
  BY DEF Booked
<1> QED BY <1>1, <1>2, <1>3 DEF Booked

LEMMA InitBooked == Init => Booked
<1> SUFFICES ASSUME Init PROVE Booked
  OBVIOUS
<1>1. /\ summaries = <<>> /\ ledger = <<>> /\ attempt = [r \in Attempts |-> Unsent]
      /\ apart = TRUE /\ DOMAIN summaries = {} /\ DOMAIN ledger = {}
  BY DEF Init
<1>2. LedgerTypeOK
  BY <1>1 DEF LedgerTypeOK
<1> QED BY <1>1, <1>2 DEF Booked, SalesNeverMissing

-----------------------------------------------------------------------------
(* The commits.                                                            *)

\* A row the ledger covers, and one it carries exactly.
Covered(l, s, i) == s.status = "active" => \A v \in Vaults : Paid(l, i, v) >= s.channels[v]
Settled(l, s, i) == IF s.status = "active" THEN Carries(l, i, s.channels, s.invoice.tax)
                                           ELSE CarriesNone(l, i)

LEMMA MissingIsUncovered ==
    /\ SalesNeverMissing <=> \A i \in DOMAIN summaries : Covered(ledger, summaries[i], i)
    /\ SalesNeverMissing' <=> \A i \in DOMAIN summaries' : Covered(ledger', summaries'[i], i)
<1>1. SalesNeverMissing <=> \A i \in DOMAIN summaries : Covered(ledger, summaries[i], i)
  <2>1. \A i, v : CarriedInto(i, v) = Paid(ledger, i, v)
    BY LedgerCarries
  <2> QED BY <2>1 DEF SalesNeverMissing, Covered
<1>2. (SalesNeverMissing <=> \A i \in DOMAIN summaries : Covered(ledger, summaries[i], i))'
  BY <1>1, PTL
<1>3. \A i : Covered(ledger, summaries[i], i)' <=> Covered(ledger', summaries'[i], i)
  BY DEF Covered, Paid, OfSale, AmountsOf
<1> QED BY <1>1, <1>2, <1>3

\* What a commit leaves alone of a summary.
Spares(i) ==
    /\ summaries'[i] = summaries[i]
    /\ OfSale(ledger', i) = OfSale(ledger, i)
    /\ CarriesSame(ledger', ledger, i)

\* A commit writes the summaries W, and books of no others.
Commits(W) ==
    /\ Grows
    /\ ledger' \in Seq(Entries)
    /\ \A e \in DOMAIN ledger' : \E i \in DOMAIN summaries' : ledger'[e].ref = Ref("sale", i)
    /\ \A i \in DOMAIN summaries' : summaries'[i].number.count > 0
    /\ \A i \in DOMAIN summaries : i \notin W => Spares(i)
    /\ \A i \in DOMAIN summaries' :
          i \in W \/ i \notin DOMAIN summaries => Covered(ledger', summaries'[i], i)

LEMMA CommitBooks ==
    ASSUME IInv, Booked, NEW r \in Attempts, attempt[r].pc \in Running, NEW pc \in {"done", "failed"},
           Goto(r, pc), NEW W, Commits(W), apart' \in BOOLEAN
    PROVE  Booked'
<1>1. PICK new : new = Next4(r, pc, attempt[r].tries, attempt[r].seen)
  OBVIOUS
<1>2. attempt[r].pc # "idle" /\ attempt[r].pc # "failed"
  BY DEF Running
<1>3. Moves(r, new)
  BY <1>1, <1>2, GotoMoves DEF IInv
<1>4. Knows(new)'
  BY <1>1, <1>2, EndKnows, KnowsGrows DEF Commits
<1>5. \A s \in Attempts : (attempt[s] = Unsent \/ Knows(attempt[s]))'
  BY <1>3, <1>4, AllKnow DEF Commits
<1>6. \A i \in DOMAIN summaries' : Covered(ledger', summaries'[i], i)
  <2> SUFFICES ASSUME NEW i \in DOMAIN summaries', i \in DOMAIN summaries, i \notin W
               PROVE  Covered(ledger', summaries'[i], i)
    BY DEF Commits
  <2>1. Covered(ledger, summaries[i], i)
    BY MissingIsUncovered DEF Booked
  <2> QED BY <2>1 DEF Commits, Spares, CarriesSame, Covered
<1>7. SalesNeverMissing'
  BY <1>6, MissingIsUncovered
<1> QED BY <1>5, <1>7 DEF Booked, Commits, LedgerTypeOK

\* Rows of a table that is only rewritten, or only grows, keep their place.
LEMMA KnownEntries ==
    ASSUME Booked, IInv, NEW i, i \notin DOMAIN summaries
    PROVE  OfSale(ledger, i) = {}
<1> SUFFICES ASSUME NEW e \in OfSale(ledger, i) PROVE FALSE
  OBVIOUS
<1>1. e \in DOMAIN ledger /\ ledger[e].ref = Ref("sale", i)
  BY DEF OfSale
<1>2. PICK j \in DOMAIN summaries : ledger[e].ref = Ref("sale", j)
  BY <1>1 DEF Booked
<1>3. i = j
  BY <1>1, <1>2 DEF Ref
<1> QED BY <1>2, <1>3

\* Entries about other sales change nothing for a sale.
Foreign(t, i) == \A k \in DOMAIN t : t[k].ref # Ref("sale", i)

LEMMA OthersEntries ==
    ASSUME NEW t \in Seq(Entries), NEW i, Foreign(t, i)
    PROVE  OfSale(t, i) = {} /\ CarriesNone(t, i)
<1>1. OfSale(t, i) = {}
  BY DEF OfSale, Foreign
<1> QED BY <1>1, NothingCarried

LEMMA JoinedSpares ==
    ASSUME NEW l \in Seq(Entries), NEW t \in Seq(Entries), NEW m, NEW i,
           CarriesBoth(m, l, t, i), Foreign(t, i)
    PROVE  OfSale(m, i) = OfSale(l, i) /\ CarriesSame(m, l, i)
<1>1. OfSale(t, i) = {} /\ CarriesNone(t, i)
  BY OthersEntries
<1>2. CarriesBoth(m, l, t, i)
  OBVIOUS
<1>3. CarriesNat(l, i)
  BY CarriedIsNatural
<1>4. OfSale(m, i) = OfSale(l, i)
  <2>1. Shifted(Len(l), OfSale(t, i)) = {}
    BY <1>1 DEF Shifted
  <2> QED BY <1>2, <2>1 DEF CarriesBoth
<1>5. CarriesSame(m, l, i)
  BY <1>1, <1>2, <1>3 DEF CarriesBoth, CarriesNone, CarriesNat, CarriesSame
<1> QED BY <1>4, <1>5

\* A table that carries nothing of a sale carries what is added.
LEMMA JoinedSettles ==
    ASSUME NEW l \in Seq(Entries), NEW t \in Seq(Entries), NEW m, NEW i,
           CarriesBoth(m, l, t, i), NEW channels, NEW tax, Carries(t, i, channels, tax)
    PROVE  /\ \A v \in Vaults : Paid(m, i, v) >= channels[v]
           /\ OfSale(l, i) = {} => Carries(m, i, channels, tax)
<1>1. CarriesBoth(m, l, t, i) /\ CarriesNat(l, i) /\ CarriesNat(t, i)
  BY CarriedIsNatural
<1>2. \A v \in Vaults : Paid(m, i, v) >= channels[v]
  BY <1>1 DEF CarriesBoth, CarriesNat, Carries
<1>3. ASSUME OfSale(l, i) = {} PROVE Carries(m, i, channels, tax)
  <2>1. CarriesNone(l, i)
    BY <1>3, NothingCarried
  <2> QED BY <1>1, <2>1 DEF CarriesBoth, CarriesNone, CarriesNat, Carries
<1> QED BY <1>2, <1>3

-----------------------------------------------------------------------------
(* A batch of new sales.                                                   *)

\* A row a commit adds: the sale of one item, and the ledger carries it.
Added(q, numbers, old, vat, i) ==
    \E n \in DOMAIN q.items :
        /\ i = old + n
        /\ summaries'[i] = Row(q.day, q.items[n], numbers[n], vat)
        /\ Carries(ledger', i, q.items[n].channels, TaxOf(q.items[n].channels, vat))

Creation(q, numbers, old, vat) ==
    \A i \in DOMAIN summaries' : i \notin DOMAIN summaries => Added(q, numbers, old, vat, i)

\* The entries a creation posts are those of its batch.
LEMMA CreatePosts ==
    ASSUME NEW r \in Attempts, NEW vat \in BOOLEAN, CommitCreate(r, vat),
           NEW q, q = attempt[r].request
    PROVE  ledger' = ledger \o BatchEntries(q.items, Len(summaries), q.day, vat)
BY DEF CommitCreate, BatchEntries

\* What a batch adds at the end of the tables.
LEMMA CreateAdds ==
    ASSUME IInv, Booked, NEW r \in Attempts, NEW vat \in BOOLEAN, CommitCreate(r, vat)
    PROVE  Commits({}) /\ Creation(attempt[r].request, attempt[r].seen.numbers,
                                   Len(summaries), vat)
<1>1. PICK q : q = attempt[r].request
  OBVIOUS
<1>2. PICK numbers : numbers = attempt[r].seen.numbers
  OBVIOUS
<1>3. PICK old : old = Len(summaries)
  OBVIOUS
<1>4. PICK rows : rows = [n \in DOMAIN q.items |-> Row(q.day, q.items[n], numbers[n], vat)]
  OBVIOUS
<1>5. PICK t : t = BatchEntries(q.items, old, q.day, vat)
  OBVIOUS
<1>6. /\ attempt[r].pc = "write" /\ q.op = "create"
      /\ summaries' = summaries \o rows
  BY <1>1, <1>2, <1>4 DEF CommitCreate, At
<1>7. ledger' = ledger \o t
  BY <1>1, <1>3, <1>5, CreatePosts
<1>8. /\ attempt[r] \in Records(r) /\ summaries \in Seq(SummaryRows)
      /\ Knows(attempt[r]) /\ Ready(attempt[r])
  BY <1>6, RequestIsRecord DEF IInv, Shapes, Booked, Unsent
<1>9. /\ q \in Requests /\ q.day \in Days /\ q.items \in Items
      /\ numbers \in Seq(Nat)
  BY <1>1, <1>2, <1>6, <1>8, SalesConstants DEF Records, Items
<1>10. Len(q.items) \in 1..2 /\ Len(numbers) = Len(q.items)
  <2>1. ValidBatch(q.items)
    BY <1>1, <1>6, <1>8 DEF Knows
  <2> QED BY <1>1, <1>2, <1>6, <1>8, <2>1 DEF ValidBatch, Ready, Drawn, Running
<1>11. /\ old \in Nat /\ DOMAIN summaries = 1..old
       /\ DOMAIN q.items = 1..Len(q.items) /\ DOMAIN numbers = DOMAIN q.items
       /\ DOMAIN rows = DOMAIN q.items /\ Len(rows) = Len(q.items)
  <2>1. DOMAIN q.items = 1..Len(q.items) /\ DOMAIN numbers = 1..Len(numbers)
    BY <1>9 DEF Items
  <2>2. DOMAIN rows = 1..Len(q.items) /\ Len(rows) = Len(q.items)
    BY <1>4, <1>10, <2>1
  <2> QED BY <1>3, <1>8, <1>10, <2>1, <2>2
<1>12. BooksBatch(t, q.items, old, vat)
  BY <1>5, <1>9, <1>10, <1>11, BatchIsBooked
<1>13. t \in Seq(Entries) /\ ledger \in Seq(Entries)
  BY <1>12 DEF BooksBatch, Booked, LedgerTypeOK
<1>14. /\ DOMAIN summaries' = 1..(old + Len(q.items))
       /\ \A i \in DOMAIN summaries : i \in DOMAIN summaries' /\ summaries'[i] = summaries[i]
       /\ \A n \in DOMAIN q.items : old + n \in DOMAIN summaries' /\ summaries'[old + n] = rows[n]
       /\ \A i \in DOMAIN summaries' : i \notin DOMAIN summaries =>
             i - old \in DOMAIN q.items /\ i = old + (i - old)
  <2>1. PICK R : R = {rows[n] : n \in DOMAIN rows}
    OBVIOUS
  <2>2. PICK k \in Nat : k = Len(q.items)
    BY <1>10
  <2>3. rows \in Seq(R)
    <3>1. rows \in [1..k -> R]
      BY <1>4, <1>11, <2>1, <2>2
    <3> QED BY <2>2, <3>1
  <2>4. summaries \in Seq(SummaryRows \cup R) /\ rows \in Seq(SummaryRows \cup R)
    BY <1>8, <2>3
  <2>5. /\ Len(summaries \o rows) = old + k
        /\ summaries \o rows \in Seq(SummaryRows \cup R)
        /\ \A i \in DOMAIN summaries : (summaries \o rows)[i] = summaries[i]
        /\ \A i \in DOMAIN (summaries \o rows) : i \notin DOMAIN summaries
              => i - old \in DOMAIN rows /\ (summaries \o rows)[i] = rows[i - old]
    <3>1. PICK S : S = SummaryRows \cup R
      OBVIOUS
    <3>2. /\ summaries \o rows \in Seq(S)
          /\ Len(summaries \o rows) = Len(summaries) + Len(rows)
          /\ \A i \in DOMAIN summaries : (summaries \o rows)[i] = summaries[i]
          /\ \A i \in DOMAIN (summaries \o rows) : i \notin DOMAIN summaries
               => i - Len(summaries) \in DOMAIN rows
                  /\ (summaries \o rows)[i] = rows[i - Len(summaries)]
      BY <2>4, <3>1, Joined
    <3> QED BY <1>3, <1>11, <2>2, <3>1, <3>2
  <2>6. DOMAIN summaries' = 1..(old + k)
    BY <1>6, <2>5
  <2>7. ASSUME NEW n \in DOMAIN q.items
        PROVE  old + n \in DOMAIN summaries' /\ summaries'[old + n] = rows[n]
    <3>1. /\ n \in 1..k /\ old + n \in 1..(old + k) /\ old + n \notin 1..old
          /\ (old + n) - old = n
      BY <1>11, <2>2
    <3> QED BY <1>6, <1>11, <2>5, <2>6, <3>1
  <2>8. \A i \in DOMAIN summaries : i \in DOMAIN summaries' /\ summaries'[i] = summaries[i]
    BY <1>6, <1>11, <2>2, <2>5, <2>6
  <2>9. ASSUME NEW i \in DOMAIN summaries', i \notin DOMAIN summaries
        PROVE  i - old \in DOMAIN q.items /\ i = old + (i - old)
    BY <1>11, <2>2, <2>6, <2>9
  <2> QED BY <2>2, <2>6, <2>7, <2>8, <2>9
<1>15. /\ DOMAIN ledger \subseteq DOMAIN ledger' /\ ledger' \in Seq(Entries)
       /\ \A e \in DOMAIN ledger : ledger'[e] = ledger[e]
       /\ \A e \in DOMAIN ledger' : e \notin DOMAIN ledger =>
             e - Len(ledger) \in DOMAIN t /\ ledger'[e] = t[e - Len(ledger)]
  BY <1>7, <1>13
<1>16. Grows
  BY <1>14, <1>15 DEF Grows
<1>17. ASSUME NEW e \in DOMAIN ledger'
       PROVE  \E i \in DOMAIN summaries' : ledger'[e].ref = Ref("sale", i)
  <2>1. CASE e \in DOMAIN ledger
    BY <1>14, <1>15, <2>1 DEF Booked
  <2>2. CASE e \notin DOMAIN ledger
    <3>1. PICK n \in DOMAIN q.items : ledger'[e].ref = Ref("sale", old + n)
      BY <1>12, <1>15, <2>2 DEF BooksBatch
    <3> QED BY <1>14, <3>1
  <2> QED BY <2>1, <2>2
<1>18. ASSUME NEW i \in DOMAIN summaries
       PROVE  Spares(i)
  <2>1. i \in Nat /\ \A n \in DOMAIN q.items : i # old + n
    BY <1>11
  <2>2. Foreign(t, i)
    <3> SUFFICES ASSUME NEW k \in DOMAIN t PROVE t[k].ref # Ref("sale", i)
      BY DEF Foreign
    <3>1. PICK n \in DOMAIN q.items : t[k].ref = Ref("sale", old + n)
      BY <1>12 DEF BooksBatch
    <3>2. i # old + n
      BY <2>1
    <3> QED BY <3>1, <3>2 DEF Ref
  <2>3. OfSale(ledger', i) = OfSale(ledger, i) /\ CarriesSame(ledger', ledger, i)
    <3>1. PICK l \in Seq(Entries) : l = ledger
      BY <1>13
    <3>2. PICK m : m = ledger'
      OBVIOUS
    <3>3. m = l \o t
      BY <1>7, <3>1, <3>2
    <3>4. CarriesBoth(m, l, t, i)
      BY <1>13, <3>3, JoinedCarries
    <3>5. OfSale(m, i) = OfSale(l, i) /\ CarriesSame(m, l, i)
      BY <1>13, <2>2, <3>4, JoinedSpares
    <3> QED BY <3>1, <3>2, <3>5
  <2> QED BY <1>14, <2>3 DEF Spares
<1>19. ASSUME NEW i \in DOMAIN summaries', i \notin DOMAIN summaries
       PROVE  Added(q, numbers, old, vat, i)
  <2>1. PICK n \in DOMAIN q.items : i = old + n /\ summaries'[i] = rows[n]
    BY <1>14, <1>19
  <2>2. OfSale(ledger, i) = {}
    BY <1>19, KnownEntries
  <2>3. Carries(t, i, q.items[n].channels, TaxOf(q.items[n].channels, vat))
    BY <1>12, <2>1 DEF BooksBatch
  <2>4. Carries(ledger', i, q.items[n].channels, TaxOf(q.items[n].channels, vat))
    <3>1. CarriesBoth(ledger', ledger, t, i)
      BY <1>7, <1>13, JoinedCarries
    <3> QED BY <1>13, <2>2, <2>3, <3>1, JoinedSettles
  <2> QED BY <1>4, <2>1, <2>4 DEF Added
<1>20. Creation(q, numbers, old, vat)
  BY <1>19 DEF Creation
<1>21. ASSUME NEW i \in DOMAIN summaries', i \notin DOMAIN summaries
       PROVE  Covered(ledger', summaries'[i], i) /\ summaries'[i].number.count > 0
  <2>1. PICK n \in DOMAIN q.items :
           /\ summaries'[i] = Row(q.day, q.items[n], numbers[n], vat)
           /\ Carries(ledger', i, q.items[n].channels, TaxOf(q.items[n].channels, vat))
    BY <1>19, <1>21 DEF Added
  <2>2. summaries'[i].channels = q.items[n].channels /\ summaries'[i].number.count = numbers[n]
    BY <2>1 DEF Row
  <2>3. numbers[n] > 0
    BY <1>2, <1>8, <1>11 DEF Knows
  <2>4. \A v \in Vaults : Paid(ledger', i, v) = summaries'[i].channels[v]
    BY <2>1, <2>2 DEF Carries
  <2>5. \A v \in Vaults : Paid(ledger', i, v) \in Nat
    BY <1>15, CarriedIsNatural DEF CarriesNat
  <2>6. \A v \in Vaults : Paid(ledger', i, v) >= summaries'[i].channels[v]
    BY <2>4, <2>5
  <2> QED BY <2>2, <2>3, <2>6 DEF Covered
<1>22. Commits({})
  <2>1. \A i \in DOMAIN summaries' : summaries'[i].number.count > 0
    BY <1>14, <1>21 DEF Booked
  <2> QED BY <1>15, <1>16, <1>17, <1>18, <1>21, <2>1 DEF Commits
<1> QED BY <1>1, <1>2, <1>3, <1>20, <1>22

-----------------------------------------------------------------------------
(* A sale rewritten, cancelled or moved.                                   *)

\* What a cancelled entry leaves of a sale it was not about.
LEMMA LossSpares ==
    ASSUME NEW l \in Seq(Entries), NEW gone, NEW m, m = Without(l, gone), NEW i,
           OfSale(l, i) \cap gone = {}
    PROVE  OfSale(m, i) = OfSale(l, i) /\ CarriesSame(m, l, i)
<1>1. Loses(l, gone, m)
  BY CancelledLoses
<1>2. OfSale(m, i) = OfSale(l, i) \ gone
  BY <1>1 DEF Loses
<1>3. CarriesSame(m, l, i)
  BY CancellationSpares
<1> QED BY <1>2, <1>3

\* One row rewritten, with a number that counts.
LEMMA RowRewritten ==
    ASSUME IInv, Booked, NEW id \in DOMAIN summaries, NEW row \in SummaryRows,
           row.number = summaries[id].number, summaries' = [summaries EXCEPT ![id] = row]
    PROVE  /\ DOMAIN summaries' = DOMAIN summaries /\ summaries'[id] = row
           /\ \A i \in DOMAIN summaries : i # id => summaries'[i] = summaries[i]
           /\ \A i \in DOMAIN summaries' : summaries'[i].number.count > 0
<1>1. summaries \in Seq(SummaryRows)
  BY DEF IInv, Shapes
<1>2. /\ DOMAIN summaries' = DOMAIN summaries
      /\ \A i \in DOMAIN summaries : summaries'[i] = IF i = id THEN row ELSE summaries[i]
  BY <1>1, Rewritten
<1> QED BY <1>2 DEF Booked

\* What an update writes of the summary id.
Revision(id, day, shift, channels, vat) ==
    /\ DOMAIN summaries' = DOMAIN summaries
    /\ summaries'[id] =
          [number |-> summaries[id].number, day |-> day, shift |-> shift,
           channels |-> channels, status |-> summaries[id].status,
           invoice |-> [status |-> summaries[id].invoice.status, day |-> day,
                        total |-> Gross(channels), tax |-> TaxOf(channels, vat)]]

\* The row an update writes is a row.
LEMMA UpdateWrites ==
    ASSUME IInv, Booked, NEW r \in Attempts, NEW vat \in BOOLEAN, CommitUpdate(r, vat),
           NEW q, q = attempt[r].request, NEW seen, seen = attempt[r].seen
    PROVE  /\ q.id \in DOMAIN summaries /\ q.channels \in Channels /\ seen.day \in Days
           /\ Revision(q.id, seen.day, seen.shift, q.channels, vat)
           /\ \A i \in DOMAIN summaries : i # q.id => summaries'[i] = summaries[i]
           /\ \A i \in DOMAIN summaries' : summaries'[i].number.count > 0
<1>1. attempt[r].pc = "write" /\ q.op = "update"
  BY DEF CommitUpdate, At
<1>2. attempt[r] \in Records(r) /\ seen.day \in Days
  BY <1>1, RequestIsRecord DEF IInv, Ready, Running
<1>3. q \in Requests /\ q.channels \in Channels /\ seen.shift \in Shifts
  BY <1>1, <1>2, SalesConstants DEF Records
<1>4. q.id \in DOMAIN summaries
  BY <1>1 DEF Booked, Knows, Unsent
<1>5. PICK s : s = summaries[q.id]
  OBVIOUS
<1>6. PICK total \in Totals : total = Gross(q.channels)
  BY <1>3 DEF Totals
<1>7. PICK tax \in Taxes : tax = TaxOf(q.channels, vat)
  BY <1>3 DEF Taxes
<1>8. PICK row : row = [number |-> s.number, day |-> seen.day, shift |-> seen.shift,
                        channels |-> q.channels, status |-> s.status,
                        invoice |-> [status |-> s.invoice.status, day |-> seen.day,
                                     total |-> total, tax |-> tax]]
  OBVIOUS
<1>9. s \in SummaryRows
  BY <1>4, <1>5 DEF IInv, Shapes
<1>10. row \in SummaryRows /\ row.number = s.number
  BY <1>2, <1>3, <1>8, <1>9 DEF SummaryRows
<1>11. summaries' = [summaries EXCEPT ![q.id] = row]
  <2>1. summaries' = [summaries EXCEPT ![q.id] = Revised(s, seen.day, seen.shift, q.channels, vat)]
    BY <1>5 DEF CommitUpdate
  <2>2. Revised(s, seen.day, seen.shift, q.channels, vat) = row
    BY <1>6, <1>7, <1>8, <1>9, RevisedRow
  <2> QED BY <2>1, <2>2
<1>12. /\ DOMAIN summaries' = DOMAIN summaries /\ summaries'[q.id] = row
       /\ \A i \in DOMAIN summaries : i # q.id => summaries'[i] = summaries[i]
       /\ \A i \in DOMAIN summaries' : summaries'[i].number.count > 0
  BY <1>4, <1>5, <1>10, <1>11, RowRewritten
<1>13. Revision(q.id, seen.day, seen.shift, q.channels, vat)
  BY <1>5, <1>6, <1>7, <1>8, <1>12 DEF Revision
<1> QED BY <1>2, <1>3, <1>4, <1>12, <1>13

\* The entries of an update replace those it found.
Replaced(id, seen, channels, vat) ==
    seen.entries = OfSale(ledger, id) => Carries(ledger', id, channels, TaxOf(channels, vat))

LEMMA UpdateCommits ==
    ASSUME IInv, Booked, NEW r \in Attempts, NEW vat \in BOOLEAN, CommitUpdate(r, vat),
           NEW q, q = attempt[r].request, NEW seen, seen = attempt[r].seen
    PROVE  Commits({q.id}) /\ Replaced(q.id, seen, q.channels, vat)
<1>1. attempt[r].pc = "write" /\ q.op = "update"
  BY DEF CommitUpdate, At
<1>2. /\ q.id \in DOMAIN summaries /\ q.channels \in Channels /\ seen.day \in Days
      /\ Revision(q.id, seen.day, seen.shift, q.channels, vat)
      /\ \A i \in DOMAIN summaries : i # q.id => summaries'[i] = summaries[i]
      /\ \A i \in DOMAIN summaries' : summaries'[i].number.count > 0
  BY UpdateWrites
<1>3. PICK id : id = q.id
  OBVIOUS
<1>4. PICK gone : gone = seen.entries
  OBVIOUS
<1>5. PICK l \in Seq(Entries) : l = ledger
  BY DEF Booked, LedgerTypeOK
<1>6. PICK t : t = SaleEntries(id, q.channels, seen.day, vat)
  OBVIOUS
<1>7. PICK k : k = Without(l, gone)
  OBVIOUS
<1>8. PICK m : m = k \o t
  OBVIOUS
<1>9. ledger' = m
  BY <1>3, <1>4, <1>5, <1>6, <1>7, <1>8 DEF CommitUpdate, Cancelled, Without
<1>10. id \in Nat /\ DOMAIN summaries \subseteq Nat
  BY <1>2, <1>3 DEF IInv, Shapes
<1>11. Books(t, id, q.channels, seen.day, vat)
  BY <1>2, <1>6, <1>10, SaleIsBooked
<1>12. /\ t \in Seq(Entries) /\ \A n \in DOMAIN t : t[n].ref = Ref("sale", id)
       /\ Carries(t, id, q.channels, TaxOf(q.channels, vat))
  BY <1>10, <1>11, BookedCarries DEF Books
<1>13. gone \subseteq EntriesOf(Ref("sale", id))
  BY <1>1, <1>3, <1>4 DEF Booked, Knows, Unsent
<1>14. Loses(l, gone, k)
  BY <1>7, CancelledLoses
<1>15. k \in Seq(Entries) /\ DOMAIN k = DOMAIN l /\ \A e \in DOMAIN l : k[e].ref = l[e].ref
  BY <1>14 DEF Loses
<1>16. /\ m \in Seq(Entries)
       /\ \A e \in DOMAIN k : e \in DOMAIN m /\ m[e] = k[e]
       /\ \A e \in DOMAIN m : e \notin DOMAIN k => e - Len(k) \in DOMAIN t /\ m[e] = t[e - Len(k)]
  BY <1>8, <1>12, <1>15
<1>17. Grows
  BY <1>2, <1>5, <1>9, <1>15, <1>16 DEF Grows, Revision
<1>18. ASSUME NEW e \in DOMAIN ledger'
       PROVE  \E i \in DOMAIN summaries' : ledger'[e].ref = Ref("sale", i)
  <2>1. CASE e \in DOMAIN k
    <3>1. e \in DOMAIN ledger /\ ledger'[e].ref = ledger[e].ref
      BY <1>5, <1>9, <1>15, <1>16, <2>1
    <3>2. PICK i \in DOMAIN summaries : ledger[e].ref = Ref("sale", i)
      BY <3>1 DEF Booked
    <3> QED BY <1>2, <3>1, <3>2 DEF Revision
  <2>2. CASE e \notin DOMAIN k
    <3>1. ledger'[e].ref = Ref("sale", id)
      BY <1>9, <1>12, <1>16, <2>2
    <3> QED BY <1>2, <1>3, <3>1 DEF Revision
  <2> QED BY <2>1, <2>2
<1>19. ASSUME NEW i \in DOMAIN summaries, i # id
       PROVE  Spares(i)
  <2>1. Ref("sale", i) # Ref("sale", id)
    BY <1>19 DEF Ref
  <2>2. Foreign(t, i)
    BY <1>12, <2>1 DEF Foreign
  <2>3. OfSale(l, i) \cap gone = {}
    BY <1>5, <1>13, <2>1 DEF OfSale, EntriesOf
  <2>4. OfSale(k, i) = OfSale(l, i) /\ CarriesSame(k, l, i)
    BY <1>7, <2>3, LossSpares
  <2>5. CarriesBoth(m, k, t, i)
    BY <1>8, <1>12, <1>15, JoinedCarries
  <2>6. OfSale(m, i) = OfSale(k, i) /\ CarriesSame(m, k, i)
    BY <1>12, <1>15, <2>2, <2>5, JoinedSpares
  <2>7. CarriesSame(m, l, i)
    BY <2>4, <2>6 DEF CarriesSame
  <2> QED BY <1>2, <1>3, <1>5, <1>9, <1>19, <2>4, <2>6, <2>7 DEF Spares
<1>20. /\ \A v \in Vaults : Paid(m, id, v) >= q.channels[v]
       /\ OfSale(k, id) = {} => Carries(m, id, q.channels, TaxOf(q.channels, vat))
  <2>1. CarriesBoth(m, k, t, id)
    BY <1>8, <1>12, <1>15, JoinedCarries
  <2> QED BY <1>12, <1>15, <2>1, JoinedSettles
<1>21. Covered(ledger', summaries'[id], id)
  <2>1. summaries'[id].channels = q.channels
    BY <1>2, <1>3 DEF Revision
  <2> QED BY <1>9, <1>20, <2>1 DEF Covered
<1>22. Replaced(id, seen, q.channels, vat)
  <2>1. SUFFICES ASSUME gone = OfSale(l, id) PROVE OfSale(k, id) = {}
    BY <1>4, <1>5, <1>9, <1>20 DEF Replaced
  <2>2. OfSale(k, id) = OfSale(l, id) \ gone
    BY <1>14 DEF Loses
  <2> QED BY <2>1, <2>2
<1>23. Commits({id})
  <2>1. DOMAIN summaries' = DOMAIN summaries
    BY <1>2 DEF Revision
  <2>2. \A i \in DOMAIN summaries : i \notin {id} => Spares(i)
    BY <1>19
  <2>3. \A i \in DOMAIN summaries' : i \in {id} \/ i \notin DOMAIN summaries
           => Covered(ledger', summaries'[i], i)
    BY <1>21, <2>1
  <2>4. ledger' \in Seq(Entries)
    BY <1>9, <1>16
  <2> QED BY <1>2, <1>17, <1>18, <2>2, <2>3, <2>4 DEF Commits
<1> QED BY <1>3, <1>22, <1>23

\* What a cancellation leaves of the summary id.
Cancellation(id) ==
    /\ DOMAIN summaries' = DOMAIN summaries
    /\ summaries'[id].status = "cancelled"
    /\ CarriesNone(ledger', id)

LEMMA CancelCommits ==
    ASSUME IInv, Booked, NEW r \in Attempts, CommitCancel(r),
           NEW id, id = attempt[r].request.id
    PROVE  id \in DOMAIN summaries /\ Commits({id}) /\ Cancellation(id)
<1>1. attempt[r].pc = "write" /\ attempt[r].request.op = "cancel"
  BY DEF CommitCancel, At
<1>2. id \in DOMAIN summaries
  BY <1>1 DEF Booked, Knows, Unsent
<1>3. PICK s \in SummaryRows : s = summaries[id]
  BY <1>2 DEF IInv, Shapes
<1>4. PICK row : row = Struck(s)
  OBVIOUS
<1>5. row \in SummaryRows /\ row.number = s.number /\ row.status = "cancelled"
  <2>1. row = [number |-> s.number, day |-> s.day, shift |-> s.shift,
               channels |-> s.channels, status |-> "cancelled",
               invoice |-> [status |-> "cancelled", day |-> s.invoice.day,
                            total |-> s.invoice.total, tax |-> s.invoice.tax]]
    BY <1>4, StruckRow
  <2> QED BY <1>3, <2>1 DEF SummaryRows, Statuses
<1>6. summaries' = [summaries EXCEPT ![id] = row]
  BY <1>3, <1>4 DEF CommitCancel
<1>7. /\ DOMAIN summaries' = DOMAIN summaries /\ summaries'[id] = row
      /\ \A i \in DOMAIN summaries : i # id => summaries'[i] = summaries[i]
      /\ \A i \in DOMAIN summaries' : summaries'[i].number.count > 0
  BY <1>2, <1>3, <1>5, <1>6, RowRewritten
<1>8. PICK l \in Seq(Entries) : l = ledger
  BY DEF Booked, LedgerTypeOK
<1>9. PICK gone : gone = OfSale(l, id)
  OBVIOUS
<1>10. PICK m : m = Without(l, gone)
  OBVIOUS
<1>11. ledger' = m
  <2>1. \A e \in DOMAIN l : e \in gone <=> l[e].ref = Ref("sale", id) /\ l[e].status = "active"
    BY <1>9 DEF OfSale
  <2> QED BY <1>8, <1>10, <2>1 DEF CommitCancel, CancelEntries, Without
<1>12. Loses(l, gone, m)
  BY <1>10, CancelledLoses
<1>13. /\ m \in Seq(Entries) /\ DOMAIN m = DOMAIN l
       /\ \A e \in DOMAIN l : m[e].ref = l[e].ref
       /\ OfSale(m, id) = {}
  BY <1>9, <1>12 DEF Loses
<1>14. CarriesNone(m, id)
  BY <1>13, NothingCarried
<1>15. ASSUME NEW i \in DOMAIN summaries, i # id
       PROVE  Spares(i)
  <2>1. Ref("sale", i) # Ref("sale", id)
    BY <1>15 DEF Ref
  <2>2. OfSale(l, i) \cap gone = {}
    BY <1>9, <2>1 DEF OfSale
  <2>3. OfSale(m, i) = OfSale(l, i) /\ CarriesSame(m, l, i)
    BY <1>10, <2>2, LossSpares
  <2> QED BY <1>7, <1>8, <1>11, <1>15, <2>3 DEF Spares
<1>16. Commits({id})
  <2>1. Grows
    BY <1>7, <1>8, <1>11, <1>13 DEF Grows
  <2>2. ASSUME NEW e \in DOMAIN ledger'
        PROVE  \E i \in DOMAIN summaries' : ledger'[e].ref = Ref("sale", i)
    <3>1. e \in DOMAIN ledger /\ ledger'[e].ref = ledger[e].ref
      BY <1>8, <1>11, <1>13
    <3> QED BY <1>7, <3>1 DEF Booked
  <2>3. Covered(ledger', summaries'[id], id)
    BY <1>5, <1>7 DEF Covered
  <2>4. \A i \in DOMAIN summaries : i \notin {id} => Spares(i)
    BY <1>15
  <2>5. \A i \in DOMAIN summaries' : i \in {id} \/ i \notin DOMAIN summaries
           => Covered(ledger', summaries'[i], i)
    BY <1>7, <2>3
  <2>6. ledger' \in Seq(Entries)
    BY <1>11, <1>13
  <2> QED BY <1>7, <2>1, <2>2, <2>4, <2>5, <2>6 DEF Commits
<1> QED BY <1>2, <1>5, <1>7, <1>11, <1>14, <1>16 DEF Cancellation

\* What a move to another shift leaves of the summary id.
Move(id, shift) ==
    /\ DOMAIN summaries' = DOMAIN summaries
    /\ summaries'[id] = [number |-> summaries[id].number, day |-> summaries[id].day,
                         shift |-> shift, channels |-> summaries[id].channels,
                         status |-> summaries[id].status, invoice |-> summaries[id].invoice]
    /\ UNCHANGED ledger

LEMMA ShiftCommits ==
    ASSUME IInv, Booked, NEW r \in Attempts, CommitShift(r),
           NEW q, q = attempt[r].request, summaries[q.id].status = "active"
    PROVE  /\ q.id \in DOMAIN summaries /\ Goto(r, "done") /\ Commits({q.id})
           /\ Move(q.id, q.shift)
<1>1. attempt[r].pc = "write" /\ q.op = "shift" /\ Goto(r, "done") /\ UNCHANGED ledger
  BY DEF CommitShift, At, Step
<1>2. q.id \in DOMAIN summaries
  BY <1>1 DEF Booked, Knows, Unsent
<1>3. q.shift \in Shifts
  BY <1>1, RequestIsRecord, SalesConstants DEF IInv, Records
<1>4. PICK s \in SummaryRows : s = summaries[q.id]
  BY <1>2 DEF IInv, Shapes
<1>5. PICK row : row = [number |-> s.number, day |-> s.day, shift |-> q.shift,
                        channels |-> s.channels, status |-> s.status, invoice |-> s.invoice]
  OBVIOUS
<1>6. row = [s EXCEPT !.shift = q.shift] /\ row \in SummaryRows
  BY <1>3, <1>4, <1>5 DEF SummaryRows
<1>7. summaries' = [summaries EXCEPT ![q.id] = row]
  BY <1>4, <1>6 DEF CommitShift
<1>8. /\ DOMAIN summaries' = DOMAIN summaries /\ summaries'[q.id] = row
      /\ \A i \in DOMAIN summaries : i # q.id => summaries'[i] = summaries[i]
      /\ \A i \in DOMAIN summaries' : summaries'[i].number.count > 0
  BY <1>2, <1>4, <1>5, <1>6, <1>7, RowRewritten
<1>9. Move(q.id, q.shift)
  BY <1>1, <1>4, <1>5, <1>8 DEF Move
<1>10. Commits({q.id})
  <2>1. Covered(ledger', summaries'[q.id], q.id)
    <3>1. Covered(ledger, s, q.id)
      BY <1>2, <1>4, MissingIsUncovered DEF Booked
    <3> QED BY <1>1, <1>5, <1>8, <3>1 DEF Covered
  <2>2. \A i \in DOMAIN summaries : i \notin {q.id} => Spares(i)
    BY <1>1, <1>8 DEF Spares, CarriesSame
  <2>3. \A i \in DOMAIN summaries' : i \in {q.id} \/ i \notin DOMAIN summaries
           => Covered(ledger', summaries'[i], i)
    BY <1>8, <2>1
  <2>4. \A e \in DOMAIN ledger' : \E i \in DOMAIN summaries' : ledger'[e].ref = Ref("sale", i)
    BY <1>1, <1>8 DEF Booked
  <2>5. Grows /\ ledger' \in Seq(Entries)
    BY <1>1, <1>8 DEF Grows, Booked, LedgerTypeOK
  <2> QED BY <1>8, <2>2, <2>3, <2>4, <2>5 DEF Commits
<1> QED BY <1>1, <1>2, <1>9, <1>10

LEMMA CommitsBook ==
    ASSUME IInv, Booked, NEW r \in Attempts, NEW vat \in BOOLEAN, apart' \in BOOLEAN,
           \/ CommitCreate(r, vat) \/ CommitUpdate(r, vat) \/ CommitShift(r) \/ CommitCancel(r)
    PROVE  Booked'
<1>1. CASE CommitCreate(r, vat)
  <2>1. attempt[r].pc \in Running /\ Goto(r, "done")
    BY <1>1 DEF CommitCreate, At, Running
  <2> QED BY <1>1, <2>1, CreateAdds, CommitBooks
<1>2. CASE CommitUpdate(r, vat)
  <2>1. attempt[r].pc \in Running /\ Goto(r, "done")
    BY <1>2 DEF CommitUpdate, At, Running
  <2> QED BY <1>2, <2>1, UpdateCommits, CommitBooks
<1>3. CASE CommitCancel(r)
  <2>1. attempt[r].pc \in Running /\ Goto(r, "done")
    BY <1>3 DEF CommitCancel, At, Running
  <2> QED BY <1>3, <2>1, CancelCommits, CommitBooks
<1>4. CASE CommitShift(r)
  <2>1. attempt[r].pc \in Running
    BY <1>4 DEF CommitShift, At, Running
  <2>2. CASE summaries[attempt[r].request.id].status = "active"
    BY <1>4, <2>1, <2>2, ShiftCommits, CommitBooks
  <2>3. CASE summaries[attempt[r].request.id].status # "active"
    <3>1. Fail(r) /\ UNCHANGED <<summaries, ledger>>
      BY <1>4, <2>3 DEF CommitShift, Step, Fail
    <3> QED BY <2>1, <3>1, EndBooks
  <2> QED BY <2>2, <2>3
<1> QED BY <1>1, <1>2, <1>3, <1>4

LEMMA NextBooked == IInv /\ Booked /\ [Next]_vars => Booked'
<1> SUFFICES ASSUME IInv, Booked, [Next]_vars PROVE Booked'
  OBVIOUS
<1>0. apart' \in BOOLEAN
  <2>1. CASE Next
    <3>1. apart' = (apart /\ RequestsApart')
      BY <2>1 DEF Next
    <3> QED BY <3>1
  <2>2. CASE UNCHANGED vars
    BY <2>2 DEF vars, Booked
  <2> QED BY <2>1, <2>2
<1>1. ASSUME NEW r \in Attempts, Serve(r)
      PROVE  Booked'
  <2>1. CASE LoseNumber(r)
    <3>1. attempt[r].pc \in Running /\ Fail(r) /\ UNCHANGED <<summaries, ledger>>
      BY <2>1 DEF LoseNumber, At, Running, Unwritten
    <3> QED BY <1>0, <3>1, EndBooks
  <2>2. ASSUME NEW vat \in BOOLEAN, CommitCreate(r, vat) \/ CommitUpdate(r, vat)
        PROVE  Booked'
    BY <1>0, <2>2, CommitsBook
  <2>3. CASE CommitShift(r) \/ CommitCancel(r)
    <3>1. TRUE \in BOOLEAN
      OBVIOUS
    <3> QED BY <1>0, <2>3, <3>1, CommitsBook
  <2> QED BY <1>0, <1>1, <2>1, <2>2, <2>3, PrereadBooks, ChecksBook, DrawBooks, EntriesBook,
             ConflictBooks DEF Serve
<1>2. ASSUME NEW r \in Attempts, NEW q \in Requests, Submit(r, q)
      PROVE  Booked'
  BY <1>0, <1>2, SubmitBooks
<1>3. CASE UNCHANGED <<summaries, attempt, ledger>>
  BY <1>0, <1>3, StillBooked
<1> QED BY <1>1, <1>2, <1>3 DEF Next, vars

LEMMA BookedAlways == Spec => [](IInv /\ Booked)
BY InitIInv, NextIInv, InitBooked, NextBooked, PTL DEF Spec

\* No sale of an active summary is missing from the ledger, for any number
\* of requests, vaults, batches and amounts.
THEOREM SalesNeverMissingHolds == Spec => []SalesNeverMissing
<1>1. Booked => SalesNeverMissing
  BY DEF Booked
<1> QED BY <1>1, BookedAlways, PTL

\* The sums over the channels of a sale are natural numbers.
LEMMA SumsAreNatural == Totals \subseteq Nat /\ Taxes \subseteq Nat
<1>0. IsFiniteSet(Vaults)
  BY SalesConstants
<1>1. ASSUME NEW c \in Channels PROVE Gross(c) \in Nat
  <2>1. \A v \in Vaults : c[v] \in Nat
    BY DEF Channels
  <2>2. TRUE \in BOOLEAN
    OBVIOUS
  <2>3. SumFunctionOnSet(c, Vaults) \in Nat
    BY <1>0, <2>1, SumType
  <2> QED BY <2>2, <2>3, FoldIsSum
<1>2. ASSUME NEW c \in Channels, NEW vat \in BOOLEAN PROVE TaxOf(c, vat) \in Nat
  <2>1. PICK f : f = [v \in Vaults |-> Tax(c[v], vat)]
    OBVIOUS
  <2>2. ASSUME NEW v \in Vaults PROVE f[v] \in Nat
    <3>1. c[v] \in Nat
      BY DEF Channels
    <3> QED BY <2>1, <3>1, TaxWithin
  <2>3. SumFunctionOnSet(f, Vaults) \in Nat
    BY <1>0, <2>2, SumType
  <2> QED BY <2>1, <2>3, FoldIsSum
<1> QED BY <1>1, <1>2 DEF Totals, Taxes

LEMMA BookedIsTyped == IInv /\ Booked => TypeOK
<1> SUFFICES ASSUME IInv, Booked PROVE TypeOK
  OBVIOUS
<1>1. ASSUME NEW i \in DOMAIN summaries PROVE summaries[i] \in Summaries
  <2>1. summaries[i] \in SummaryRows /\ summaries[i].number.count > 0
    BY DEF IInv, Shapes, Booked
  <2>2. /\ summaries[i].number.count \in Nat \ {0}
        /\ summaries[i].invoice.total \in Nat /\ summaries[i].invoice.tax \in Nat
    <3>1. /\ summaries[i].number.count \in Nat
          /\ summaries[i].invoice.total \in Totals /\ summaries[i].invoice.tax \in Taxes
      BY <2>1 DEF SummaryRows
    <3>2. summaries[i].number.count # 0
      BY <2>1
    <3> QED BY <3>1, <3>2, SumsAreNatural
  <2> QED BY <2>1, <2>2 DEF SummaryRows, Summaries
<1>2. summaries \in Seq(Summaries)
  <2>1. /\ DOMAIN summaries = 1..Len(summaries) /\ Len(summaries) \in Nat
        /\ summaries = [i \in 1..Len(summaries) |-> summaries[i]]
    BY DEF IInv, Shapes
  <2>2. summaries \in [1..Len(summaries) -> Summaries]
    BY <1>1, <2>1
  <2> QED BY <2>1, <2>2
<1>3. ASSUME NEW r \in Attempts
      PROVE  \/ attempt[r] = Unsent
             \/ /\ attempt[r].pc \in Running \cup {"done", "failed"}
                /\ attempt[r].request \in Requests
                /\ attempt[r].tries \in 1..RetryMax
                /\ attempt[r].seen.entries \subseteq DOMAIN ledger
  <2>1. CASE attempt[r] = Unsent
    BY <2>1
  <2>2. CASE attempt[r] # Unsent
    <3>1. Knows(attempt[r])
      BY <2>2 DEF Booked
    <3>2. attempt[r] \in Records(r)
      BY <3>1, RequestIsRecord DEF IInv, Knows
    <3> QED BY <3>1, <3>2 DEF Records, Knows, EntriesOf
  <2> QED BY <2>1, <2>2
<1> QED BY <1>2, <1>3 DEF TypeOK, Booked

\* Every summary, request and entry has its type: what a request has found
\* are entries of the ledger, and no creation runs more than RETRY_MAX times.
THEOREM SalesTypesHold == Spec => []TypeOK
BY BookedIsTyped, BookedAlways, PTL

-----------------------------------------------------------------------------
(* What holds besides while requests are apart.                            *)

\* The items whose shift a creation has found free.
Checked(a) == Len(a.seen.numbers) + (IF a.pc = "number" THEN 1 ELSE 0)

StillActive(i) == i \in DOMAIN summaries /\ summaries[i].status = "active"

\* What a request read is still so.
Trusts(a) ==
    LET q == a.request IN
    /\ q.op = "create" => \A n \in 1..Checked(a) : ActiveAt(q.day, q.items[n].shift) = {}
    /\ q.op = "update" /\ a.pc \in {"shift", "entries", "write"} => StillActive(q.id)
    /\ q.op = "shift" /\ a.pc \in {"shift", "write"} =>
          StillActive(q.id) /\ summaries[q.id].day = a.seen.day
    /\ \/ q.op = "update" /\ a.pc \in {"entries", "write"}
       \/ q.op = "shift" /\ a.pc = "write"
       => ActiveAt(a.seen.day, a.seen.shift) \subseteq {q.id}
    /\ q.op = "update" /\ a.pc = "write" => a.seen.entries = EntriesOfSale(q.id)

\* The shifts with one active summary, and the ledger with what it should.
OneEach(s) ==
    \A i, j \in DOMAIN s :
        /\ s[i].status = "active" /\ s[j].status = "active"
        /\ s[i].day = s[j].day /\ s[i].shift = s[j].shift
        => i = j
AllSettled(l, s) == \A i \in DOMAIN s : Settled(l, s[i], i)

Told ==
    apart =>
       /\ RequestsApart
       /\ \A r \in Attempts : attempt[r].pc \in Running => Trusts(attempt[r])
       /\ OneEach(summaries)
       /\ AllSettled(ledger, summaries)

\* What the invariant says of the properties.
LEMMA ToldTells == Told => OneSummaryPerShift /\ LedgerMatchesSales
<1> SUFFICES ASSUME Told PROVE OneSummaryPerShift /\ LedgerMatchesSales
  OBVIOUS
<1>1. OneSummaryPerShift
  BY DEF Told, OneEach, OneSummaryPerShift
<1>2. ASSUME apart, NEW i \in DOMAIN summaries
      PROVE  LET s == summaries[i]
                 stands == s.status = "active"
             IN /\ \A v \in Vaults : CarriedInto(i, v) = IF stands THEN s.channels[v] ELSE 0
                /\ Total({e \in EntriesOfSale(i) : ledger[e].credit = VatAccount})
                      = IF stands THEN s.invoice.tax ELSE 0
  <2>1. Settled(ledger, summaries[i], i)
    BY <1>2 DEF Told, AllSettled
  <2>2. /\ \A v : CarriedInto(i, v) = Paid(ledger, i, v)
        /\ Total({e \in EntriesOfSale(i) : ledger[e].credit = VatAccount}) = TaxPaid(ledger, i)
    BY LedgerCarries
  <2> QED BY <2>1, <2>2 DEF Settled, Carries, CarriesNone
<1>3. LedgerMatchesSales
  BY <1>2 DEF LedgerMatchesSales
<1> QED BY <1>1, <1>3

\* The places a step may disturb.
PlaceAfter(i) == <<summaries'[i].day, summaries'[i].shift>>

Aside(r) ==
    /\ DOMAIN summaries \subseteq DOMAIN summaries'
    /\ \A i \in DOMAIN summaries : <<i>> \notin Touches(r) =>
          summaries'[i] = summaries[i] /\ OfSale(ledger', i) = OfSale(ledger, i)
    /\ \A i \in DOMAIN summaries' :
          summaries'[i].status = "active" /\ PlaceAfter(i) \notin Touches(r) =>
             i \in DOMAIN summaries /\ summaries'[i] = summaries[i]

\* A shift no step of r may touch: what is active there was so before.
LEMMA AsideShift ==
    ASSUME NEW r, Aside(r), NEW day, NEW shift, <<day, shift>> \notin Touches(r)
    PROVE  ActiveAt(day, shift)' \subseteq ActiveAt(day, shift)
BY DEF Aside, PlaceAfter, ActiveAt

\* What another request trusts is left alone.
LEMMA TrustsStays ==
    ASSUME IInv, Booked, NEW r \in Attempts, NEW s \in Attempts, r # s,
           Touches(r) \cap Touches(s) = {}, Aside(r),
           attempt[s].pc \in Running, NEW a, a = attempt[s], Trusts(a)
    PROVE  Trusts(a)'
<1> DEFINE q == a.request
<1>0. Ready(a) /\ Knows(a) /\ a \in Records(s)
  BY RequestIsRecord DEF IInv, Booked, Unsent, Running
<1>1. CASE q.op = "create"
  <2>1. ASSUME NEW n \in 1..Checked(a) PROVE ActiveAt(q.day, q.items[n].shift)' = {}
    <3>1. n \in DOMAIN q.items
      <4>1. q.items \in Seq([shift : Shifts, channels : Channels]) /\ a.seen.numbers \in Seq(Nat)
        BY <1>0, <1>1, SalesConstants DEF Records
      <4>2. PICK k \in Nat : k = Len(a.seen.numbers)
        BY <4>1
      <4>3. PICK m \in Nat : m = Len(q.items) /\ DOMAIN q.items = 1..m
        BY <4>1
      <4>4. Drawn(a)
        BY <1>0, <1>1 DEF Ready
      <4>5. CASE a.pc = "number"
        <5>1. k < m /\ Checked(a) = k + 1
          BY <4>2, <4>3, <4>4, <4>5 DEF Drawn, Checked
        <5> QED BY <4>3, <5>1
      <4>6. CASE a.pc # "number"
        <5>1. k <= m
          BY <4>2, <4>3, <4>4, <4>6 DEF Drawn
        <5>2. Checked(a) = k
          BY <4>2, <4>6 DEF Checked
        <5> QED BY <4>3, <5>1, <5>2
      <4> QED BY <4>5, <4>6
    <3>2. <<q.day, q.items[n].shift>> \in Touches(s)
      BY <1>1, <3>1 DEF Touches
    <3>3. ActiveAt(q.day, q.items[n].shift)' \subseteq ActiveAt(q.day, q.items[n].shift)
      BY <3>2, AsideShift
    <3> QED BY <1>1, <3>3 DEF Trusts
  <2> QED BY <1>1, <2>1 DEF Trusts, Checked
<1>2. CASE q.op \in {"update", "shift"}
  <2>1. <<q.id>> \in Touches(s)
    BY <1>2 DEF Touches
  <2>2. StillActive(q.id) => /\ StillActive(q.id)' /\ summaries'[q.id] = summaries[q.id]
                             /\ OfSale(ledger', q.id) = OfSale(ledger, q.id)
    BY <2>1 DEF StillActive, Aside
  <2>3. EntriesOfSale(q.id) = OfSale(ledger, q.id) /\ EntriesOfSale(q.id)' = OfSale(ledger', q.id)
    BY DEF EntriesOfSale, EntriesOf, ActiveEntries, OfSale
  <2>4. ASSUME \/ q.op = "update" /\ a.pc \in {"entries", "write"}
               \/ q.op = "shift" /\ a.pc = "write"
        PROVE  ActiveAt(a.seen.day, a.seen.shift)' \subseteq {q.id}
    <3>1. a.seen.day \in Days /\ a.seen.day # 0
      BY <1>0, <2>4, SalesConstants DEF Ready, Knows, Running
    <3>2. <<a.seen.day, a.seen.shift>> \in Touches(s)
      BY <1>2, <3>1 DEF Touches
    <3>3. ActiveAt(a.seen.day, a.seen.shift)' \subseteq ActiveAt(a.seen.day, a.seen.shift)
      BY <3>2, AsideShift
    <3> QED BY <2>4, <3>3 DEF Trusts
  <2> QED BY <1>2, <2>2, <2>3, <2>4 DEF Trusts
<1>3. CASE q.op = "cancel"
  BY <1>3 DEF Trusts
<1>4. q.op \in {"create", "update", "shift", "cancel"}
  BY <1>0, SalesConstants DEF Records
<1> QED BY <1>1, <1>2, <1>3, <1>4

\* The history of a step: the requests were apart, and are.
StayApart == apart' => apart /\ RequestsApart'

LEMMA TrustsQuietly ==
    ASSUME NEW a, Trusts(a), UNCHANGED <<summaries, ledger>>
    PROVE  Trusts(a)'
BY DEF Trusts, StillActive, ActiveAt, EntriesOfSale, EntriesOf, ActiveEntries, Checked

\* A step that writes nothing: it is enough to look at what the request
\* itself now trusts.
LEMMA MoveTells ==
    ASSUME Told, NEW r \in Attempts, NEW new, Moves(r, new),
           apart /\ new.pc \in Running => Trusts(new),
           UNCHANGED <<summaries, ledger>>, StayApart
    PROVE  Told'
<1> SUFFICES ASSUME apart'
             PROVE  /\ RequestsApart'
                    /\ \A s \in Attempts : (attempt[s].pc \in Running => Trusts(attempt[s]))'
                    /\ OneEach(summaries)'
                    /\ AllSettled(ledger, summaries)'
  BY DEF Told
<1>1. apart /\ RequestsApart'
  BY DEF StayApart
<1>2. ASSUME NEW s \in Attempts
      PROVE  (attempt[s].pc \in Running => Trusts(attempt[s]))'
  <2>1. CASE s = r
    <3>1. attempt'[s] = new
      BY <2>1 DEF Moves
    <3>2. new.pc \in Running => Trusts(new)'
      BY <1>1, TrustsQuietly
    <3> QED BY <3>1, <3>2 DEF Running
  <2>2. CASE s # r
    <3>1. PICK a : a = attempt[s]
      OBVIOUS
    <3>2. attempt'[s] = a
      BY <2>2, <3>1 DEF Moves
    <3>3. a.pc \in Running => Trusts(a)'
      BY <1>1, <3>1, TrustsQuietly DEF Told
    <3> QED BY <3>2, <3>3 DEF Running
  <2> QED BY <2>1, <2>2
<1>3. OneEach(summaries)' /\ AllSettled(ledger, summaries)'
  <2>1. OneEach(summaries) /\ AllSettled(ledger, summaries)
    BY <1>1 DEF Told
  <2> QED BY <2>1
<1> QED BY <1>1, <1>2, <1>3

LEMMA GotoTells ==
    ASSUME IInv, Told, NEW r \in Attempts, attempt[r].pc # "idle", NEW pc, Goto(r, pc),
           apart /\ pc \in Running => Trusts(Next4(r, pc, attempt[r].tries, attempt[r].seen)),
           UNCHANGED <<summaries, ledger>>, StayApart
    PROVE  Told'
<1>1. PICK new : new = Next4(r, pc, attempt[r].tries, attempt[r].seen)
  OBVIOUS
<1>2. Moves(r, new)
  BY <1>1, GotoMoves DEF IInv
<1>3. new.pc = pc
  BY <1>1 DEF Next4
<1> QED BY <1>1, <1>2, <1>3, MoveTells

LEMMA EndTells ==
    ASSUME IInv, Told, NEW r \in Attempts, attempt[r].pc \in Running, Fail(r),
           UNCHANGED <<summaries, ledger>>, StayApart
    PROVE  Told'
BY GotoTells DEF Fail, Running

LEMMA SubmitTells ==
    ASSUME IInv, Told, NEW r \in Attempts, NEW q \in Requests, Submit(r, q), StayApart
    PROVE  Told'
<1>1. PICK new : new = [pc |-> FirstStep(q), request |-> q, tries |-> 1, seen |-> Unread]
  OBVIOUS
<1>2. Moves(r, new) /\ UNCHANGED <<summaries, ledger>>
  BY <1>1 DEF Submit, Unwritten, Moves, IInv, Shapes
<1>3. Trusts(new)
  <2>1. q.op \in {"create", "update", "shift", "cancel"}
    BY SalesConstants
  <2>2. new.pc \in {"period", "failed", "preread", "find"} /\ Len(new.seen.numbers) = 0
    BY <1>1, <2>1 DEF FirstStep, Unread
  <2>3. 1..Checked(new) = {}
    BY <2>2 DEF Checked
  <2> QED BY <1>1, <2>2, <2>3 DEF Trusts
<1> QED BY <1>2, <1>3, MoveTells

LEMMA PrereadTells ==
    ASSUME IInv, Booked, Told, NEW r \in Attempts, Preread(r), StayApart
    PROVE  Told'
<1> DEFINE q == attempt[r].request
           day == IF q.day = 0 THEN summaries[q.id].day ELSE q.day
           pc == IF q.op = "update" THEN "period" ELSE "shift"
           seen == [day |-> day, shift |-> q.shift, numbers |-> <<>>, entries |-> {}]
<1>1. /\ attempt[r] \in Records(r) /\ attempt[r].pc = "preread"
      /\ UNCHANGED <<summaries, ledger>>
  BY RequestIsRecord DEF IInv, Preread, At, Unwritten
<1>2. CASE ~(q.id \in DOMAIN summaries /\ summaries[q.id].status = "active")
  BY <1>1, <1>2, EndTells DEF Preread, Running
<1>3. CASE q.id \in DOMAIN summaries /\ summaries[q.id].status = "active"
  <2>1. q.op \in {"update", "shift"} /\ q \in Requests
    BY <1>1 DEF IInv, Ready, Running, Records
  <2>2. q.op = "shift" => q.day = 0
    BY <2>1, SalesConstants
  <2>3. Learn(r, seen, pc)
    BY <1>3 DEF Preread
  <2>4. PICK new : new = Next4(r, pc, attempt[r].tries, seen)
    OBVIOUS
  <2>5. Moves(r, new)
    BY <1>1, <2>3, <2>4, LearnMoves DEF IInv
  <2>6. Trusts(new)
    <3>1. /\ new.request = q /\ new.pc = pc /\ new.seen.day = day
          /\ pc = IF q.op = "update" THEN "period" ELSE "shift"
          /\ q.op = "shift" => day = summaries[q.id].day
      BY <2>2, <2>4 DEF Next4
    <3> HIDE DEF q, day, pc
    <3> QED BY <1>3, <2>1, <3>1 DEF Trusts, StillActive
  <2> QED BY <1>1, <2>5, <2>6, MoveTells
<1> QED BY <1>2, <1>3

LEMMA PeriodTells ==
    ASSUME IInv, Booked, Told, NEW r \in Attempts, CheckPeriod(r), StayApart
    PROVE  Told'
<1> DEFINE q == attempt[r].request
<1>1. /\ attempt[r].pc = "period" /\ UNCHANGED <<summaries, ledger>> /\ Knows(attempt[r])
      /\ Ready(attempt[r])
  BY DEF CheckPeriod, At, Unwritten, Booked, Unsent, IInv
<1>2. CASE Fail(r)
  BY <1>1, <1>2, EndTells DEF Running
<1>3. CASE ~Fail(r)
  <2>1. PICK pc : Goto(r, pc) /\ pc = IF q.op = "create" THEN "shift" ELSE "find"
    BY <1>3 DEF CheckPeriod, Step, Fail
  <2>2. PICK new : new = Next4(r, pc, attempt[r].tries, attempt[r].seen)
    OBVIOUS
  <2>3. Trusts(new)
    <3>1. q.op \in {"create", "update"}
      BY <1>1 DEF Knows
    <3>2. CASE q.op = "create"
      <4>1. Len(attempt[r].seen.numbers) = 0
        BY <1>1, <3>2 DEF Ready, Drawn, Running
      <4>2. 1..Checked(new) = {}
        BY <2>1, <2>2, <3>2, <4>1 DEF Checked, Next4
      <4> QED BY <2>2, <3>2, <4>2 DEF Trusts, Next4
    <3>3. CASE q.op = "update"
      BY <2>1, <2>2, <3>3 DEF Trusts, Next4
    <3> QED BY <3>1, <3>2, <3>3
  <2> QED BY <1>1, <2>1, <2>2, <2>3, GotoTells
<1> QED BY <1>2, <1>3

LEMMA FindTells ==
    ASSUME IInv, Booked, Told, NEW r \in Attempts, Find(r), StayApart
    PROVE  Told'
<1> DEFINE q == attempt[r].request
<1>1. /\ attempt[r].pc = "find" /\ UNCHANGED <<summaries, ledger>> /\ Knows(attempt[r])
  BY DEF Find, At, Unwritten, Booked, Unsent
<1>2. CASE Fail(r)
  BY <1>1, <1>2, EndTells DEF Running
<1>3. CASE ~Fail(r)
  <2>1. PICK pc : Goto(r, pc) /\ pc = IF q.op = "cancel" THEN "write" ELSE "shift"
    BY <1>3 DEF Find, Step, Fail
  <2>2. StillActive(q.id)
    BY <1>3 DEF Find, Step, Fail, StillActive
  <2>3. PICK new : new = Next4(r, pc, attempt[r].tries, attempt[r].seen)
    OBVIOUS
  <2>4. Trusts(new)
    <3>1. q.op \in {"cancel", "update"}
      BY <1>1 DEF Knows
    <3> QED BY <2>1, <2>2, <2>3, <3>1 DEF Trusts, Next4
  <2> QED BY <1>1, <2>1, <2>3, <2>4, GotoTells
<1> QED BY <1>2, <1>3

LEMMA ShiftCheckTells ==
    ASSUME IInv, Booked, Told, NEW r \in Attempts, CheckShift(r), StayApart
    PROVE  Told'
<1> DEFINE q == attempt[r].request
           seen == attempt[r].seen
<1>1. /\ attempt[r].pc = "shift" /\ UNCHANGED <<summaries, ledger>> /\ Knows(attempt[r])
      /\ attempt[r] \in Records(r)
  BY RequestIsRecord DEF CheckShift, At, Unwritten, Booked, Unsent, IInv
<1>2. CASE Fail(r)
  BY <1>1, <1>2, EndTells DEF Running
<1>3. CASE ~Fail(r)
  <2>1. PICK pc : /\ Goto(r, pc)
                  /\ pc = IF q.op = "create" THEN "number"
                          ELSE IF q.op = "update" THEN "entries" ELSE "write"
    BY <1>3 DEF CheckShift, Step, Fail
  <2>2. IF q.op = "create" THEN ActiveAt(q.day, Item(r).shift) = {}
                           ELSE ActiveAt(seen.day, seen.shift) \subseteq {q.id}
    BY <1>3 DEF CheckShift, Step, Fail
  <2>3. PICK new : new = Next4(r, pc, attempt[r].tries, seen)
    OBVIOUS
  <2>4. ASSUME apart PROVE Trusts(new)
    <3>1. Trusts(attempt[r])
      BY <1>1, <2>4 DEF Told, Running
    <3>2. CASE q.op = "create"
      <4>1. PICK k \in Nat : k = Len(seen.numbers)
        BY <1>1 DEF Records
      <4>2. Checked(attempt[r]) = k /\ Checked(new) = k + 1
        BY <1>1, <2>1, <2>3, <3>2, <4>1 DEF Checked, Next4
      <4>3. \A n \in 1..k : ActiveAt(q.day, q.items[n].shift) = {}
        BY <3>1, <3>2, <4>2 DEF Trusts
      <4>4. ActiveAt(q.day, q.items[k + 1].shift) = {}
        BY <2>2, <3>2, <4>1 DEF Item
      <4>5. \A n \in 1..(k + 1) : n \in 1..k \/ n = k + 1
        OBVIOUS
      <4>6. \A n \in 1..Checked(new) : ActiveAt(q.day, q.items[n].shift) = {}
        BY <4>2, <4>3, <4>4, <4>5
      <4> QED BY <2>3, <3>2, <4>6 DEF Trusts, Next4
    <3>3. CASE q.op # "create"
      <4>1. q.op \in {"update", "shift"}
        BY <1>1, <3>3, SalesConstants DEF Knows, Records
      <4> QED BY <1>1, <2>1, <2>2, <2>3, <3>1, <4>1 DEF Trusts, Next4
    <3> QED BY <3>2, <3>3
  <2> QED BY <1>1, <2>1, <2>3, <2>4, GotoTells
<1> QED BY <1>2, <1>3

LEMMA DrawTells ==
    ASSUME IInv, Booked, Told, NEW r \in Attempts, DrawNumber(r), StayApart
    PROVE  Told'
<1> DEFINE q == attempt[r].request
           numbers == attempt[r].seen.numbers
           count == Cardinality(NumbersOf(q.day))
           drawn == Append(numbers, count + Len(numbers) + 1)
           pc == IF Len(drawn) < Len(q.items) THEN "shift" ELSE "write"
           seen == [attempt[r].seen EXCEPT !.numbers = drawn]
<1>1. /\ attempt[r].pc = "number" /\ attempt[r] \in Records(r) /\ Knows(attempt[r])
      /\ UNCHANGED <<summaries, ledger>>
  BY RequestIsRecord DEF IInv, Booked, DrawNumber, At, Unwritten, Unsent
<1>2. CASE Fail(r)
  BY <1>1, <1>2, EndTells DEF Running
<1>3. CASE ~ Fail(r)
  <2>1. Learn(r, seen, pc)
    BY <1>3 DEF DrawNumber
  <2>2. PICK new : new = Next4(r, pc, attempt[r].tries, seen)
    OBVIOUS
  <2>3. Moves(r, new)
    BY <1>1, <2>1, <2>2, LearnMoves DEF IInv
  <2>4. numbers \in Seq(Nat) /\ count \in Nat
    BY <1>1, CountIsNatural DEF IInv, Records
  <2>5. seen.numbers = drawn
    <3>1. attempt[r].seen \in [day : Days \cup {0}, shift : Shifts, numbers : Seq(Nat),
                               entries : {attempt[r].seen.entries}]
      BY <1>1 DEF Records
    <3> HIDE DEF drawn
    <3> QED BY <3>1
  <2>6. Len(drawn) = Len(numbers) + 1
    BY <2>4
  <2>7. Checked(new) = Checked(attempt[r])
    <3>1. pc \in {"shift", "write"} /\ new.pc = pc /\ new.seen.numbers = drawn
      BY <2>2, <2>5 DEF Next4
    <3>2. Checked(new) = Len(drawn) + 0
      BY <3>1 DEF Checked
    <3>3. Checked(attempt[r]) = Len(numbers) + 1
      BY <1>1 DEF Checked
    <3> HIDE DEF drawn, numbers
    <3>4. Len(numbers) \in Nat
      BY <2>4
    <3> QED BY <2>6, <3>2, <3>3, <3>4
  <2>8. ASSUME apart PROVE Trusts(new)
    <3>1. Trusts(attempt[r])
      BY <1>1, <2>8 DEF Told, Running
    <3>2. q.op = "create" /\ new.request = q
      BY <1>1, <2>2 DEF Knows, Next4
    <3> HIDE DEF q
    <3> QED BY <2>7, <3>1, <3>2 DEF Trusts, q
  <2> QED BY <1>1, <2>3, <2>8, MoveTells
<1> QED BY <1>2, <1>3

LEMMA EntriesTell ==
    ASSUME IInv, Booked, Told, NEW r \in Attempts, FindEntries(r), StayApart
    PROVE  Told'
<1> DEFINE q == attempt[r].request
           found == EntriesOf(Ref("sale", q.id)) \cap ActiveEntries
           seen == [attempt[r].seen EXCEPT !.entries = found]
<1>1. /\ attempt[r].pc = "entries" /\ attempt[r] \in Records(r) /\ Knows(attempt[r])
      /\ UNCHANGED <<summaries, ledger>>
  BY RequestIsRecord DEF IInv, Booked, FindEntries, At, Unwritten, Unsent
<1>2. CASE Fail(r)
  BY <1>1, <1>2, EndTells DEF Running
<1>3. CASE ~ Fail(r)
  <2>1. Learn(r, seen, "write")
    BY <1>3 DEF FindEntries
  <2>2. PICK new : new = Next4(r, "write", attempt[r].tries, seen)
    OBVIOUS
  <2>3. Moves(r, new)
    BY <1>1, <2>1, <2>2, LearnMoves DEF IInv
  <2>4. /\ seen.day = attempt[r].seen.day /\ seen.shift = attempt[r].seen.shift
        /\ seen.entries = found
    <3>1. attempt[r].seen \in [day : Days \cup {0}, shift : Shifts, numbers : Seq(Nat),
                               entries : {attempt[r].seen.entries}]
      BY <1>1 DEF Records
    <3> HIDE DEF found
    <3> QED BY <3>1
  <2>5. found = EntriesOfSale(q.id)
    BY DEF EntriesOfSale
  <2>6. ASSUME apart PROVE Trusts(new)
    <3>1. Trusts(attempt[r])
      BY <1>1, <2>6 DEF Told, Running
    <3>2. q.op = "update" /\ new.request = q /\ new.pc = "write" /\ new.seen = seen
      BY <1>1, <2>2 DEF Knows, Next4
    <3> HIDE DEF seen, found
    <3> QED BY <1>1, <2>4, <2>5, <3>1, <3>2 DEF Trusts
  <2> QED BY <1>1, <2>3, <2>6, MoveTells
<1> QED BY <1>2, <1>3

LEMMA ConflictTells ==
    ASSUME IInv, Booked, Told, NEW r \in Attempts, Conflict(r), StayApart
    PROVE  Told'
<1>1. attempt[r].pc = "write" /\ UNCHANGED <<summaries, ledger>>
  BY DEF Conflict, At, Unwritten
<1>2. CASE Fail(r)
  BY <1>1, <1>2, EndTells DEF Running
<1>3. CASE ~ Fail(r)
  <2>1. /\ attempt[r].request.op = "create"
        /\ attempt' = [attempt EXCEPT ![r].pc = "period", ![r].tries = @ + 1,
                                      ![r].seen = Unread]
    BY <1>3 DEF Conflict
  <2>2. PICK new : new = Next4(r, "period", attempt[r].tries + 1, Unread)
    OBVIOUS
  <2>3. Moves(r, new)
    BY <1>1, <2>1, <2>2, RetryMoves
  <2>4. Trusts(new)
    <3>1. new.request.op = "create" /\ new.pc = "period" /\ Len(new.seen.numbers) = 0
      BY <2>1, <2>2 DEF Next4, Unread
    <3>2. 1..Checked(new) = {}
      BY <3>1 DEF Checked
    <3> QED BY <3>1, <3>2 DEF Trusts
  <2> QED BY <1>1, <2>3, <2>4, MoveTells
<1> QED BY <1>2, <1>3

\* The periods.
LEMMA StillTold ==
    ASSUME Told, UNCHANGED <<summaries, attempt, ledger>>, StayApart
    PROVE  Told'
<1> SUFFICES ASSUME apart'
             PROVE  /\ RequestsApart'
                    /\ \A s \in Attempts : (attempt[s].pc \in Running => Trusts(attempt[s]))'
                    /\ OneEach(summaries)'
                    /\ AllSettled(ledger, summaries)'
  BY DEF Told
<1>1. apart /\ RequestsApart'
  BY DEF StayApart
<1>2. ASSUME NEW s \in Attempts
      PROVE  (attempt[s].pc \in Running => Trusts(attempt[s]))'
  <2>1. PICK a : a = attempt[s]
    OBVIOUS
  <2>2. a.pc \in Running => Trusts(a)'
    BY <1>1, <2>1, TrustsQuietly DEF Told
  <2> QED BY <2>1, <2>2 DEF Running
<1>3. OneEach(summaries) /\ AllSettled(ledger, summaries)
  BY <1>1 DEF Told
<1> QED BY <1>1, <1>2, <1>3

LEMMA InitTold == Init => Told
<1> SUFFICES ASSUME Init PROVE Told
  OBVIOUS
<1>1. /\ summaries = <<>> /\ DOMAIN summaries = {}
      /\ \A r \in Attempts : attempt[r] = Unsent
  BY DEF Init
<1>2. \A r \in Attempts : Touches(r) = {} /\ attempt[r].pc \notin Running
  BY <1>1 DEF Touches, Unsent, Running
<1>3. RequestsApart
  BY <1>2 DEF RequestsApart
<1> QED BY <1>1, <1>2, <1>3 DEF Told, OneEach, AllSettled

\* What a commit leaves, as long as the requests are apart.
Leaves(r) ==
    /\ Aside(r)
    /\ OneEach(summaries')
    /\ AllSettled(ledger', summaries')

LEMMA CommitTells ==
    ASSUME IInv, Booked, Told, NEW r \in Attempts, attempt[r].pc \in Running,
           NEW pc \in {"done", "failed"}, Goto(r, pc), StayApart, apart => Leaves(r)
    PROVE  Told'
<1> SUFFICES ASSUME apart'
             PROVE  /\ RequestsApart'
                    /\ \A s \in Attempts : (attempt[s].pc \in Running => Trusts(attempt[s]))'
                    /\ OneEach(summaries)'
                    /\ AllSettled(ledger, summaries)'
  BY DEF Told
<1>1. apart /\ RequestsApart' /\ Leaves(r)
  BY DEF StayApart
<1>2. PICK new : new = Next4(r, pc, attempt[r].tries, attempt[r].seen)
  OBVIOUS
<1>3. Moves(r, new) /\ new.pc \notin Running
  BY <1>2, GotoMoves DEF IInv, Next4, Running
<1>4. ASSUME NEW s \in Attempts
      PROVE  (attempt[s].pc \in Running => Trusts(attempt[s]))'
  <2>1. CASE s = r
    BY <1>3, <2>1 DEF Moves, Running
  <2>2. CASE s # r
    <3>1. PICK a : a = attempt[s]
      OBVIOUS
    <3>2. attempt'[s] = a
      BY <1>3, <2>2, <3>1 DEF Moves
    <3>3. ASSUME a.pc \in Running PROVE Trusts(a)'
      <4>1. Trusts(a) /\ Touches(r) \cap Touches(s) = {}
        BY <1>1, <2>2, <3>1, <3>3 DEF Told, RequestsApart
      <4>2. r # s
        BY <2>2
      <4> QED BY <1>1, <3>1, <3>3, <4>1, <4>2, TrustsStays DEF Leaves
    <3> QED BY <3>2, <3>3 DEF Running
  <2> QED BY <2>1, <2>2
<1> QED BY <1>1, <1>4 DEF Leaves

\* A summary a commit spares is settled as before.
LEMMA SparedSettled ==
    ASSUME NEW i, Spares(i), Settled(ledger, summaries[i], i)
    PROVE  Settled(ledger', summaries'[i], i)
BY DEF Spares, CarriesSame, Settled, Carries, CarriesNone

\* One summary is rewritten, and takes at most a place that was free.
Rewrites(r, id) ==
    /\ Commits({id}) /\ id \in DOMAIN summaries
    /\ DOMAIN summaries' = DOMAIN summaries
    /\ <<id>> \in Touches(r)
    /\ Settled(ledger', summaries'[id], id)
    /\ summaries'[id].status = "active" =>
          /\ PlaceAfter(id) \in Touches(r)
          /\ ActiveAt(summaries'[id].day, summaries'[id].shift) \subseteq {id}

LEMMA RowLeaves ==
    ASSUME NEW r, NEW id, Rewrites(r, id), OneEach(summaries), AllSettled(ledger, summaries)
    PROVE  Leaves(r)
<1>1. \A i \in DOMAIN summaries : i # id => Spares(i)
  BY DEF Rewrites, Commits
<1>2. Aside(r)
  <2>1. \A i \in DOMAIN summaries : <<i>> \notin Touches(r) =>
          summaries'[i] = summaries[i] /\ OfSale(ledger', i) = OfSale(ledger, i)
    BY <1>1 DEF Rewrites, Spares
  <2>2. \A i \in DOMAIN summaries' :
          summaries'[i].status = "active" /\ PlaceAfter(i) \notin Touches(r) =>
             i \in DOMAIN summaries /\ summaries'[i] = summaries[i]
    BY <1>1 DEF Rewrites, Spares
  <2>3. DOMAIN summaries \subseteq DOMAIN summaries'
    BY DEF Rewrites
  <2> QED BY <2>1, <2>2, <2>3 DEF Aside
<1>3. OneEach(summaries')
  <2> SUFFICES ASSUME NEW i \in DOMAIN summaries', NEW j \in DOMAIN summaries',
                      summaries'[i].status = "active", summaries'[j].status = "active",
                      summaries'[i].day = summaries'[j].day,
                      summaries'[i].shift = summaries'[j].shift
               PROVE  i = j
    BY DEF OneEach
  <2>0. i \in DOMAIN summaries /\ j \in DOMAIN summaries
    BY DEF Rewrites
  <2>1. CASE i # id /\ j # id
    BY <1>1, <2>0, <2>1 DEF Spares, OneEach
  <2>2. CASE i = id /\ j # id
    <3>1. j \in ActiveAt(summaries'[id].day, summaries'[id].shift)
      BY <1>1, <2>0, <2>2 DEF Spares, ActiveAt
    <3> QED BY <2>2, <3>1 DEF Rewrites
  <2>3. CASE i # id /\ j = id
    <3>1. i \in ActiveAt(summaries'[id].day, summaries'[id].shift)
      BY <1>1, <2>0, <2>3 DEF Spares, ActiveAt
    <3> QED BY <2>3, <3>1 DEF Rewrites
  <2>4. CASE i = id /\ j = id
    BY <2>4
  <2> QED BY <2>1, <2>2, <2>3, <2>4
<1>4. AllSettled(ledger', summaries')
  <2> SUFFICES ASSUME NEW i \in DOMAIN summaries' PROVE Settled(ledger', summaries'[i], i)
    BY DEF AllSettled
  <2>1. CASE i = id
    BY <2>1 DEF Rewrites
  <2>2. CASE i # id
    <3>1. Spares(i) /\ Settled(ledger, summaries[i], i)
      BY <1>1, <2>2 DEF Rewrites, AllSettled
    <3> QED BY <3>1, SparedSettled
  <2> QED BY <2>1, <2>2
<1> QED BY <1>2, <1>3, <1>4 DEF Leaves

LEMMA UpdateLeaves ==
    ASSUME IInv, Booked, Told, apart, NEW r \in Attempts, NEW vat \in BOOLEAN,
           CommitUpdate(r, vat)
    PROVE  Leaves(r)
<1>1. PICK q : q = attempt[r].request
  OBVIOUS
<1>2. PICK seen : seen = attempt[r].seen
  OBVIOUS
<1>3. attempt[r].pc = "write" /\ q.op = "update"
  BY <1>1 DEF CommitUpdate, At
<1>4. Trusts(attempt[r]) /\ OneEach(summaries) /\ AllSettled(ledger, summaries)
  BY <1>3 DEF Told, Running
<1>5. /\ StillActive(q.id) /\ ActiveAt(seen.day, seen.shift) \subseteq {q.id}
      /\ seen.entries = OfSale(ledger, q.id)
  BY <1>1, <1>2, <1>3, <1>4 DEF Trusts, EntriesOfSale, EntriesOf, ActiveEntries, OfSale
<1>6. /\ q.id \in DOMAIN summaries /\ seen.day \in Days
      /\ Revision(q.id, seen.day, seen.shift, q.channels, vat)
  BY <1>1, <1>2, UpdateWrites
<1>7. Commits({q.id}) /\ Carries(ledger', q.id, q.channels, TaxOf(q.channels, vat))
  BY <1>1, <1>2, <1>5, UpdateCommits DEF Replaced
<1>8. /\ summaries'[q.id].status = "active" /\ summaries'[q.id].day = seen.day
      /\ summaries'[q.id].shift = seen.shift /\ summaries'[q.id].channels = q.channels
      /\ summaries'[q.id].invoice.tax = TaxOf(q.channels, vat)
  BY <1>5, <1>6 DEF Revision, StillActive
<1>9. Settled(ledger', summaries'[q.id], q.id)
  BY <1>7, <1>8 DEF Settled
<1>10. seen.day # 0
  BY <1>6, SalesConstants
<1>11. <<q.id>> \in Touches(r) /\ <<seen.day, seen.shift>> \in Touches(r)
  BY <1>1, <1>2, <1>3, <1>10 DEF Touches, Running
<1>12. Rewrites(r, q.id)
  BY <1>5, <1>6, <1>7, <1>8, <1>9, <1>11 DEF Rewrites, Revision, PlaceAfter
<1> QED BY <1>4, <1>12, RowLeaves

LEMMA CancelLeaves ==
    ASSUME IInv, Booked, Told, apart, NEW r \in Attempts, CommitCancel(r)
    PROVE  Leaves(r)
<1>1. PICK q : q = attempt[r].request
  OBVIOUS
<1>2. attempt[r].pc = "write" /\ q.op = "cancel"
  BY <1>1 DEF CommitCancel, At
<1>3. OneEach(summaries) /\ AllSettled(ledger, summaries)
  BY DEF Told
<1>4. q.id \in DOMAIN summaries /\ Commits({q.id}) /\ Cancellation(q.id)
  BY <1>1, CancelCommits
<1>5. Settled(ledger', summaries'[q.id], q.id)
  BY <1>4 DEF Cancellation, Settled
<1>6. <<q.id>> \in Touches(r)
  BY <1>1, <1>2 DEF Touches, Running
<1>7. Rewrites(r, q.id)
  BY <1>4, <1>5, <1>6 DEF Rewrites, Cancellation
<1> QED BY <1>3, <1>7, RowLeaves

LEMMA ShiftLeaves ==
    ASSUME IInv, Booked, Told, apart, NEW r \in Attempts, CommitShift(r)
    PROVE  Leaves(r) /\ Goto(r, "done")
<1>1. PICK q : q = attempt[r].request
  OBVIOUS
<1>2. PICK seen : seen = attempt[r].seen
  OBVIOUS
<1>3. attempt[r].pc = "write" /\ q.op = "shift"
  BY <1>1 DEF CommitShift, At
<1>4. Trusts(attempt[r]) /\ OneEach(summaries) /\ AllSettled(ledger, summaries)
  BY <1>3 DEF Told, Running
<1>5. /\ StillActive(q.id) /\ summaries[q.id].day = seen.day
      /\ ActiveAt(seen.day, seen.shift) \subseteq {q.id}
  BY <1>1, <1>2, <1>3, <1>4 DEF Trusts
<1>6. Knows(attempt[r])
  BY <1>3 DEF Booked, Unsent
<1>7. seen.day \in Days /\ seen.shift = q.shift /\ seen.day # 0
  BY <1>1, <1>2, <1>3, <1>6, SalesConstants DEF Knows
<1>8. q.id \in DOMAIN summaries /\ Commits({q.id}) /\ Move(q.id, q.shift) /\ Goto(r, "done")
  BY <1>1, <1>5, ShiftCommits DEF StillActive
<1>9. /\ summaries'[q.id].status = "active" /\ summaries'[q.id].day = seen.day
      /\ summaries'[q.id].shift = seen.shift
      /\ summaries'[q.id].channels = summaries[q.id].channels
      /\ summaries'[q.id].invoice = summaries[q.id].invoice
      /\ ledger' = ledger
  BY <1>5, <1>7, <1>8 DEF Move, StillActive
<1>10. Settled(ledger', summaries'[q.id], q.id)
  <2>1. Settled(ledger, summaries[q.id], q.id)
    BY <1>4, <1>8 DEF AllSettled
  <2> QED BY <1>5, <1>9, <2>1 DEF Settled, StillActive
<1>11. <<q.id>> \in Touches(r) /\ <<seen.day, seen.shift>> \in Touches(r)
  BY <1>1, <1>2, <1>3, <1>7 DEF Touches, Running
<1>12. Rewrites(r, q.id)
  BY <1>5, <1>8, <1>9, <1>10, <1>11 DEF Rewrites, Move, PlaceAfter
<1> QED BY <1>4, <1>8, <1>12, RowLeaves

\* The items of a batch are of different shifts.
LEMMA ShiftsDiffer ==
    ASSUME NEW items \in Items, ValidBatch(items), NEW m \in DOMAIN items, NEW n \in DOMAIN items,
           items[m].shift = items[n].shift
    PROVE  m = n
<1>1. DOMAIN items = 1..Len(items) /\ Len(items) \in 1..2
  BY DEF Items, ValidBatch
<1>2. CASE Len(items) = 1
  BY <1>1, <1>2
<1>3. CASE Len(items) = 2
  <2>1. items[1].shift # items[2].shift
    <3>1. {items[1].shift, items[2].shift} = {"morning", "evening"}
      BY <1>3 DEF ValidBatch
    <3> QED BY <3>1
  <2>2. m \in {1, 2} /\ n \in {1, 2}
    BY <1>1, <1>3
  <2> QED BY <2>1, <2>2
<1> QED BY <1>1, <1>2, <1>3

LEMMA CreateLeaves ==
    ASSUME IInv, Booked, Told, apart, NEW r \in Attempts, NEW vat \in BOOLEAN,
           CommitCreate(r, vat)
    PROVE  Leaves(r)
<1>1. PICK q : q = attempt[r].request
  OBVIOUS
<1>2. PICK numbers : numbers = attempt[r].seen.numbers
  OBVIOUS
<1>3. PICK old : old = Len(summaries)
  OBVIOUS
<1>4. attempt[r].pc = "write" /\ q.op = "create"
  BY <1>1 DEF CommitCreate, At
<1>5. /\ Trusts(attempt[r]) /\ OneEach(summaries) /\ AllSettled(ledger, summaries)
      /\ Ready(attempt[r]) /\ Knows(attempt[r]) /\ attempt[r] \in Records(r)
  BY <1>4, RequestIsRecord DEF Told, Running, IInv, Booked, Unsent
<1>6. q \in Requests /\ q.items \in Items /\ ValidBatch(q.items)
  BY <1>1, <1>4, <1>5, SalesConstants DEF Records, Items, Knows
<1>7. Commits({}) /\ Creation(q, numbers, old, vat)
  BY <1>1, <1>2, <1>3, CreateAdds
<1>8. \A i \in DOMAIN summaries : Spares(i)
  BY <1>7 DEF Commits
<1>9. \A n \in DOMAIN q.items :
         /\ ActiveAt(q.day, q.items[n].shift) = {}
         /\ <<q.day, q.items[n].shift>> \in Touches(r)
  <2>1. PICK k \in Nat : k = Len(q.items) /\ DOMAIN q.items = 1..k /\ Len(numbers) = k
    BY <1>1, <1>2, <1>4, <1>5, <1>6 DEF Items, Ready, Drawn, Running
  <2>2. Checked(attempt[r]) = k
    BY <1>2, <1>4, <2>1 DEF Checked
  <2>3. \A n \in 1..k : ActiveAt(q.day, q.items[n].shift) = {}
    BY <1>1, <1>4, <1>5, <2>2 DEF Trusts
  <2>4. \A n \in DOMAIN q.items : <<q.day, q.items[n].shift>> \in Touches(r)
    BY <1>1, <1>4 DEF Touches, Running
  <2> QED BY <2>1, <2>3, <2>4
<1>10. ASSUME NEW i \in DOMAIN summaries', i \notin DOMAIN summaries
       PROVE  \E n \in DOMAIN q.items :
                 /\ i = old + n /\ summaries'[i].status = "active"
                 /\ summaries'[i].day = q.day /\ summaries'[i].shift = q.items[n].shift
                 /\ Settled(ledger', summaries'[i], i)
  <2>1. PICK n \in DOMAIN q.items :
           /\ i = old + n /\ summaries'[i] = Row(q.day, q.items[n], numbers[n], vat)
           /\ Carries(ledger', i, q.items[n].channels, TaxOf(q.items[n].channels, vat))
    BY <1>7, <1>10 DEF Creation, Added
  <2>2. /\ summaries'[i].status = "active" /\ summaries'[i].day = q.day
        /\ summaries'[i].shift = q.items[n].shift
        /\ summaries'[i].channels = q.items[n].channels
        /\ summaries'[i].invoice.tax = TaxOf(q.items[n].channels, vat)
    BY <2>1 DEF Row
  <2> QED BY <2>1, <2>2 DEF Settled
<1>11. Aside(r)
  <2>1. ASSUME NEW i \in DOMAIN summaries', PlaceAfter(i) \notin Touches(r)
        PROVE  i \in DOMAIN summaries /\ summaries'[i] = summaries[i]
    <3>1. i \in DOMAIN summaries
      BY <1>9, <1>10, <2>1 DEF PlaceAfter
    <3> QED BY <1>8, <3>1 DEF Spares
  <2>2. DOMAIN summaries \subseteq DOMAIN summaries'
    BY <1>7 DEF Commits, Grows
  <2> QED BY <1>8, <2>1, <2>2 DEF Aside, Spares
<1>12. OneEach(summaries')
  <2>1. ASSUME NEW i \in DOMAIN summaries', NEW j \in DOMAIN summaries',
               summaries'[i].status = "active", summaries'[j].status = "active",
               summaries'[i].day = summaries'[j].day, summaries'[i].shift = summaries'[j].shift,
               i \notin DOMAIN summaries
        PROVE  i = j
    <3>1. PICK n \in DOMAIN q.items :
             /\ i = old + n /\ summaries'[i].day = q.day
             /\ summaries'[i].shift = q.items[n].shift
      BY <1>10, <2>1
    <3>2. CASE j \in DOMAIN summaries
      <4>1. j \in ActiveAt(q.day, q.items[n].shift)
        BY <1>8, <2>1, <3>1, <3>2 DEF Spares, ActiveAt
      <4> QED BY <1>9, <4>1
    <3>3. CASE j \notin DOMAIN summaries
      <4>1. PICK m \in DOMAIN q.items : j = old + m /\ summaries'[j].shift = q.items[m].shift
        BY <1>10, <3>3
      <4>2. m = n
        BY <1>6, <2>1, <3>1, <4>1, ShiftsDiffer
      <4> QED BY <3>1, <4>1, <4>2
    <3> QED BY <3>2, <3>3
  <2>2. ASSUME NEW i \in DOMAIN summaries, NEW j \in DOMAIN summaries,
               summaries'[i].status = "active", summaries'[j].status = "active",
               summaries'[i].day = summaries'[j].day, summaries'[i].shift = summaries'[j].shift
        PROVE  i = j
    BY <1>5, <1>8, <2>2 DEF Spares, OneEach
  <2> QED BY <2>1, <2>2 DEF OneEach
<1>13. AllSettled(ledger', summaries')
  <2> SUFFICES ASSUME NEW i \in DOMAIN summaries' PROVE Settled(ledger', summaries'[i], i)
    BY DEF AllSettled
  <2>1. CASE i \in DOMAIN summaries
    <3>1. Spares(i) /\ Settled(ledger, summaries[i], i)
      BY <1>5, <1>8, <2>1 DEF AllSettled
    <3> QED BY <3>1, SparedSettled
  <2>2. CASE i \notin DOMAIN summaries
    BY <1>10, <2>2
  <2> QED BY <2>1, <2>2
<1> QED BY <1>11, <1>12, <1>13 DEF Leaves

LEMMA CommitsTell ==
    ASSUME IInv, Booked, Told, apart, NEW r \in Attempts, NEW vat \in BOOLEAN, StayApart,
           \/ CommitCreate(r, vat) \/ CommitUpdate(r, vat) \/ CommitShift(r) \/ CommitCancel(r)
    PROVE  Told'
<1>1. attempt[r].pc \in Running
  BY DEF CommitCreate, CommitUpdate, CommitShift, CommitCancel, At, Running
<1>2. Leaves(r) /\ Goto(r, "done")
  <2>1. CASE CommitCreate(r, vat)
    BY <2>1, CreateLeaves DEF CommitCreate
  <2>2. CASE CommitUpdate(r, vat)
    BY <2>2, UpdateLeaves DEF CommitUpdate
  <2>3. CASE CommitShift(r)
    BY <2>3, ShiftLeaves
  <2>4. CASE CommitCancel(r)
    BY <2>4, CancelLeaves DEF CommitCancel
  <2> QED BY <2>1, <2>2, <2>3, <2>4
<1> QED BY <1>1, <1>2, CommitTells

LEMMA NextTold == IInv /\ Booked /\ Told /\ [Next]_vars => Told'
<1> SUFFICES ASSUME IInv, Booked, Told, [Next]_vars PROVE Told'
  OBVIOUS
<1>1. CASE UNCHANGED vars
  <2>1. apart' => apart
    BY <1>1 DEF vars
  <2>2. RequestsApart => RequestsApart'
    BY <1>1 DEF vars, RequestsApart, Touches
  <2>3. StayApart
    BY <2>1, <2>2 DEF StayApart, Told
  <2> QED BY <1>1, <2>3, StillTold DEF vars
<1>2. CASE Next
  <2>1. StayApart
    BY <1>2 DEF Next, StayApart
  <2>2. CASE ~ apart
    BY <2>1, <2>2 DEF StayApart, Told
  <2>3. CASE apart
    <3>1. ASSUME NEW r \in Attempts, Serve(r)
          PROVE  Told'
      <4>1. CASE LoseNumber(r)
        <5>1. attempt[r].pc \in Running /\ Fail(r) /\ UNCHANGED <<summaries, ledger>>
          BY <4>1 DEF LoseNumber, At, Running, Unwritten
        <5> QED BY <2>1, <5>1, EndTells
      <4>2. ASSUME NEW vat \in BOOLEAN, CommitCreate(r, vat) \/ CommitUpdate(r, vat)
            PROVE  Told'
        BY <2>1, <2>3, <4>2, CommitsTell
      <4>3. CASE CommitShift(r) \/ CommitCancel(r)
        <5>1. TRUE \in BOOLEAN
          OBVIOUS
        <5> QED BY <2>1, <2>3, <4>3, <5>1, CommitsTell
      <4> QED BY <2>1, <3>1, <4>1, <4>2, <4>3, PrereadTells, PeriodTells, FindTells,
                 ShiftCheckTells, DrawTells, EntriesTell, ConflictTells DEF Serve
    <3>2. ASSUME NEW r \in Attempts, NEW q \in Requests, Submit(r, q)
          PROVE  Told'
      BY <2>1, <3>2, SubmitTells
    <3>3. CASE UNCHANGED <<summaries, attempt, ledger>>
      BY <2>1, <3>3, StillTold
    <3> QED BY <1>2, <3>1, <3>2, <3>3 DEF Next
  <2> QED BY <2>2, <2>3
<1> QED BY <1>1, <1>2

LEMMA ToldAlways == Spec => [](IInv /\ Booked /\ Told)
BY InitIInv, NextIInv, InitBooked, NextBooked, InitTold, NextTold, PTL DEF Spec

\* As long as no two requests at once touch one summary or one shift, a day
\* and shift has one active summary.
THEOREM OneSummaryPerShiftHolds == Spec => []OneSummaryPerShift
BY ToldTells, ToldAlways, PTL

\* As long as no two requests at once touch one summary or one shift, the
\* ledger carries an active summary's sales and tax exactly, and nothing of a
\* cancelled one.
THEOREM LedgerMatchesSalesHolds == Spec => []LedgerMatchesSales
BY ToldTells, ToldAlways, PTL

=============================================================================
