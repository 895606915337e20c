---------------------------- MODULE PayrollProofs ----------------------------
(***************************************************************************)
(* Payroll, for any number of runs, requests and advances: a run is        *)
(* accrued, paid and settled once however requests overlap, no advance is  *)
(* settled beyond its amount, and as long as no two requests at once       *)
(* depend on one run or advance the books say what the tables say.         *)
(***************************************************************************)
EXTENDS Payroll, LedgerProofs, SequenceTheorems

-----------------------------------------------------------------------------
(* What holds however requests overlap.                                    *)

\* The numbers of the runs that stand, and what settlements name of them.
RunsNumbered ==
    \A i, j \in Standing : runs[i].number = runs[j].number => i = j
SettlementsKnown ==
    /\ IsFiniteSet(settlements)
    /\ \A row \in settlements :
          row.run \in DOMAIN runs /\ row.number = runs[row.run].number

\* One active invoice pays a run.
PaidOnce ==
    /\ \A s \in DOMAIN salaries : salaries[s].run \in DOMAIN runs
    /\ \A s, t \in DOMAIN salaries :
          /\ salaries[s].run = salaries[t].run
          /\ salaries[s].status = "active" /\ salaries[t].status = "active"
          => s = t

\* An active entry pays an active salary or an active advance, or accrues a
\* run that is no draft.
SalaryEntry(x) ==
    LET s == x.ref.id
    IN  /\ x.ref.type = "salary" /\ s \in DOMAIN salaries /\ salaries[s].status = "active"
        /\ x.debit = Payable /\ x.credit \in Vaults /\ x.amount = salaries[s].total
AdvanceEntry(x) ==
    LET a == x.ref.id
    IN  /\ x.ref.type = "advance" /\ a \in Advances /\ advances[a].status = "active"
        /\ x.debit = AdvanceAsset /\ x.credit \in Vaults /\ x.amount = AdvanceTotals[a]
AccrualEntry(x) ==
    LET i == x.ref.id
    IN  /\ x.ref.type = "payroll_accrual" /\ i \in DOMAIN runs /\ runs[i].status # "draft"
        /\ x.debit = SalaryExpense /\ x.credit \in {Payable, AdvanceAsset}

EntriesTold ==
    \A e \in ActiveEntries :
        SalaryEntry(ledger[e]) \/ AdvanceEntry(ledger[e]) \/ AccrualEntry(ledger[e])

\* No two of them are about the same.
SameSubject(x, y) ==
    x.ref = y.ref /\ (x.ref.type = "payroll_accrual" => x.credit = y.credit)
EntriesSingle ==
    \A e, f \in ActiveEntries : SameSubject(ledger[e], ledger[f]) => e = f

\* What is paid has its entry.
Entered(ref) == \E e \in ActiveEntries : ledger[e].ref = ref
EntriesStand ==
    /\ \A s \in DOMAIN salaries : salaries[s].status = "active" => Entered(Ref("salary", s))
    /\ \A a \in Advances : advances[a].status = "active" => Entered(Ref("advance", a))

\* What a request in progress knows for certain.
OnRun == {"editing", "approving", "accruing", "paying", "posting", "dropping", "listing",
          "finishing", "cancelling", "reversing"}
Knows(b) ==
    /\ b.pc \in OnRun => b.run \in DOMAIN runs
    /\ b.pc = "cancelling" => b.salary \in DOMAIN salaries /\ salaries[b.salary].run = b.run
    /\ b.pc = "accruing" =>
          \A a \in Taken(b.content) : b.table[a].settled + b.content.takes[a] <= AdvanceTotals[a]
    /\ b.pc = "reversing" =>
          IsFiniteSet(b.rows) /\ \A a \in Advances : b.table[a].settled <= AdvanceTotals[a]
    /\ b.pc = "adding" => Taken(b.content) = {}

Certain ==
    /\ TypeOK /\ SettledWithinAdvance
    /\ RunsNumbered /\ SettlementsKnown /\ PaidOnce
    /\ EntriesTold /\ EntriesSingle /\ EntriesStand
    /\ \A r \in Attempts : Knows(attempt[r])

-----------------------------------------------------------------------------
(* What holds as long as requests are apart.                               *)

Deductions(i) == {row \in settlements : row.run = i /\ row.status = "active"}

\* What a request read is still so.
Sees(b) ==
    /\ b.pc \in {"editing", "dropping", "approving", "accruing"} => runs[b.run].status = "draft"
    /\ b.pc \in {"approving", "accruing"} => b.content = runs[b.run].content
    /\ b.pc = "accruing" =>
          \A a \in Taken(b.content) : b.table[a] = advances[a] /\ advances[a].status = "active"
    /\ b.pc \in {"paying", "posting", "listing", "cancelling", "finishing", "reversing"} =>
          runs[b.run].status = "completed"
    /\ b.pc \in {"finishing", "reversing"} => PaidBy(b.run) = {}
    /\ b.pc = "reversing" =>
          /\ b.rows = Deductions(b.run)
          /\ \A row \in b.rows : b.table[row.advance] = advances[row.advance]
    /\ b.pc = "waiving" =>
          advances[b.advance].status = "active" /\ advances[b.advance].settled = 0

\* The accrual of a completed run is that of its content.
Against(i, account) == {e \in Accrual(i) : ledger[e].credit = account}
Accrued(i, account, amount) ==
    /\ amount = 0 => Against(i, account) = {}
    /\ amount # 0 => \E e \in Against(i, account) : ledger[e].amount = amount

RunTold(i) ==
    LET content == runs[i].content
    IN  IF runs[i].status = "completed"
        THEN /\ Accrued(i, Payable, content.net)
             /\ Accrued(i, AdvanceAsset, Deducted(content))
             /\ {row.advance : row \in Deductions(i)} = Taken(content)
             /\ \A row \in Deductions(i) : row.amount = content.takes[row.advance]
        ELSE Accrual(i) = {} /\ PaidBy(i) = {} /\ Deductions(i) = {}

\* Advances and runs agree on what was settled.
Standings == {row \in settlements : row.status = "active"}
Completed == {i \in DOMAIN runs : runs[i].status = "completed"}
Settled   == [a \in Advances |-> advances[a].settled]
Deducts   == [i \in DOMAIN runs |-> Deducted(runs[i].content)]

AdvancesTold ==
    /\ \A row \in settlements : row.deduction <=> row.status = "active"
    /\ \A a \in Advances :
          /\ advances[a].settled = Given(Standings, a)
          /\ advances[a].status = "cancelled" => advances[a].settled = 0
    /\ SumFunctionOnSet(Settled, Advances) = SumFunctionOnSet(Deducts, Completed)

Told ==
    /\ RequestsApart
    /\ \A r \in Attempts : Sees(attempt[r])
    /\ \A i \in DOMAIN runs : RunTold(i)
    /\ AdvancesTold

PayrollInv == Certain /\ (apart => Told)

-----------------------------------------------------------------------------
(* Types.                                                                  *)

\* What a request holds, by where it is.
LEMMA Fields ==
    ASSUME NEW b \in Busy \cup {Free}
    PROVE  /\ b.pc \in OnRun => b.run \in Nat
           /\ b.pc \in {"counting", "inserting", "approving", "accruing", "adding"} =>
                 b.month \in Months
           /\ b.pc \in {"counting", "inserting"} => b.content \in Contents
           /\ b.pc \in {"approving", "accruing", "adding"} => b.content \in Payments
           /\ b.pc \in {"inserting", "adding"} => b.number \in Numbers
           /\ b.pc = "editing" => b.set \in Edits
           /\ b.pc \in {"accruing", "reversing"} => b.table \in AdvanceTables
           /\ b.pc \in {"paying", "posting"} => b.total \in Nat
           /\ b.pc \in {"paying", "posting", "adding"} => b.vault \in Vaults /\ b.day \in Days
           /\ b.pc = "cancelling" => b.salary \in Nat
           /\ b.pc = "reversing" => b.rows \subseteq Settlements
           /\ b.pc = "waiving" => b.advance \in Advances
           /\ b.pc # "free" => b \in Busy
BY DEF Busy, Free, OnRun

\* Where a request is decides which fields it has.
LEMMA OnRunFields ==
    ASSUME NEW b \in Busy \cup {Free}
    PROVE  b.pc \in OnRun <=> "run" \in DOMAIN b
BY DEF Busy, Free, OnRun

\* The requests after one of them has moved.
LEMMA RequestsTyped ==
    ASSUME TypeOK, NEW r \in Attempts, NEW b \in Busy \cup {Free}, Goes(r, b)
    PROVE  /\ attempt' \in [Attempts -> Busy \cup {Free}]
           /\ attempt'[r] = b
           /\ \A s \in Attempts \ {r} : attempt'[s] = attempt[s]
BY DEF TypeOK, Goes

\* No row is taken away, and what a salary pays stays.
RowsKept ==
    /\ DOMAIN runs \subseteq DOMAIN runs'
    /\ DOMAIN salaries \subseteq DOMAIN salaries'
    /\ \A s \in DOMAIN salaries : salaries'[s].run = salaries[s].run

LEMMA KnowsKept ==
    ASSUME RowsKept, NEW b \in Busy \cup {Free}, Knows(b)
    PROVE  Knows(b)'
BY DEF RowsKept, Knows, Taken

LEMMA KnowsAll ==
    ASSUME TypeOK, RowsKept, NEW r \in Attempts, NEW b \in Busy \cup {Free}, Goes(r, b),
           Knows(b), \A s \in Attempts : Knows(attempt[s])
    PROVE  \A s \in Attempts : Knows(attempt[s])'
<1>1. SUFFICES ASSUME NEW s \in Attempts PROVE Knows(attempt[s])'
  OBVIOUS
<1>2. PICK c : c = attempt'[s]
  OBVIOUS
<1>3. c \in Busy \cup {Free} /\ Knows(c)
  BY <1>2, RequestsTyped DEF TypeOK
<1>4. Knows(c)'
  BY <1>3, KnowsKept
<1> QED BY <1>2, <1>4 DEF Knows

-----------------------------------------------------------------------------
(* Reads.                                                                  *)

LEMMA ReadKeepsCertain ==
    ASSUME Certain, UNCHANGED <<tables, settings>>, apart' \in BOOLEAN,
           NEW r \in Attempts, NEW b \in Busy \cup {Free}, Goes(r, b), Knows(b)
    PROVE  Certain'
<1>1. /\ runs' = runs /\ advances' = advances /\ settlements' = settlements
      /\ salaries' = salaries /\ ledger' = ledger
  BY DEF tables
<1>2. RowsKept
  BY <1>1 DEF RowsKept
<1>3. \A s \in Attempts : Knows(attempt[s])'
  BY <1>2, KnowsAll DEF Certain
<1>4. TypeOK'
  BY <1>1, RequestsTyped DEF Certain, TypeOK, LedgerTypeOK
<1>5. SettledWithinAdvance' /\ RunsNumbered' /\ SettlementsKnown' /\ PaidOnce'
  BY <1>1 DEF Certain, SettledWithinAdvance, RunsNumbered, SettlementsKnown, PaidOnce, Standing
<1>6. EntriesTold' /\ EntriesSingle' /\ EntriesStand'
  BY <1>1 DEF Certain, EntriesTold, EntriesSingle, EntriesStand, ActiveEntries, SameSubject,
       Entered, SalaryEntry, AdvanceEntry, AccrualEntry
<1> QED BY <1>3, <1>4, <1>5, <1>6 DEF Certain

LEMMA ReadKeepsTold ==
    ASSUME TypeOK, Told, UNCHANGED <<tables, settings>>, RequestsApart',
           NEW r \in Attempts, NEW b \in Busy \cup {Free}, Goes(r, b), Sees(b)
    PROVE  Told'
<1>1. /\ runs' = runs /\ advances' = advances /\ settlements' = settlements
      /\ salaries' = salaries /\ ledger' = ledger
  BY DEF tables
<1>2. ASSUME NEW s \in Attempts PROVE Sees(attempt[s])'
  <2>1. PICK c : c = attempt'[s]
    OBVIOUS
  <2>2. Sees(c)
    BY <2>1, RequestsTyped DEF Told
  <2>3. Sees(c)'
    BY <1>1, <2>2 DEF Sees, Taken, PaidBy, Deductions
  <2> QED BY <2>1, <2>3 DEF Sees
<1>3. \A i \in DOMAIN runs : Accrual(i)' = Accrual(i) /\ PaidBy(i)' = PaidBy(i)
          /\ Deductions(i)' = Deductions(i)
  BY <1>1 DEF Accrual, PaidBy, Deductions, EntriesOf, ActiveEntries
<1>4. \A i \in DOMAIN runs' : RunTold(i)'
  BY <1>1, <1>3 DEF Told, RunTold, Accrued, Against
<1>5. AdvancesTold'
  <2>1. Settled' = Settled /\ Deducts' = Deducts /\ Completed' = Completed /\ Standings' = Standings
    BY <1>1 DEF Settled, Deducts, Completed, Standings
  <2> QED BY <1>1, <2>1 DEF Told, AdvancesTold
<1> QED BY <1>2, <1>4, <1>5 DEF Told

\* What a run pays and deducts.
LEMMA ContentTyped ==
    ASSUME NEW c \in Payments
    PROVE  c.net \in Nat /\ c.takes \in [Advances -> Nat]
BY PayrollConstants DEF Payments, Supplement

LEMMA RunTyped ==
    ASSUME TypeOK, NEW i \in DOMAIN runs
    PROVE  /\ i \in Nat \ {0} /\ runs[i] \in Runs
           /\ runs[i].number \in Numbers /\ runs[i].month \in Months
           /\ runs[i].content \in Payments
           /\ runs[i].status \in {"draft", "completed", "deleted"}
<1>1. runs[i] \in Runs
  BY ElementOf DEF TypeOK
<1>2. i \in Nat \ {0}
  BY DEF TypeOK
<1> QED BY <1>1, <1>2 DEF Runs

LEMMA AdvanceTyped ==
    ASSUME NEW table \in AdvanceTables, NEW a \in Advances
    PROVE  /\ table[a].settled \in Nat /\ table[a].status \in {"active", "cancelled"}
           /\ AdvanceTotals[a] \in Nat \ {0}
BY PayrollConstants DEF AdvanceTables, Advances

LEMMA CheckCreateReads ==
    ASSUME Certain, NEW r \in Attempts, NEW draft \in Drafts,
           CheckCreate(r, draft[1], draft[2])
    PROVE  \E b \in Busy \cup {Free} : Goes(r, b) /\ Knows(b) /\ Sees(b)
<1> DEFINE b == [pc |-> "counting", month |-> draft[1], content |-> draft[2]]
<1>1. draft[1] \in Months /\ draft[2] \in Contents
  BY PayrollConstants
<1>2. b \in Busy
  BY <1>1 DEF Busy
<1>3. Goes(r, b)
  BY DEF CheckCreate
<1>4. Knows(b) /\ Sees(b)
  BY DEF Knows, Sees, OnRun
<1> QED BY <1>2, <1>3, <1>4

LEMMA CountRunsReads ==
    ASSUME Certain, NEW r \in Attempts, CountRuns(r)
    PROVE  \E b \in Busy \cup {Free} : Goes(r, b) /\ Knows(b) /\ Sees(b)
<1> DEFINE S == {i \in Standing : runs[i].number[1] = "PR"}
           b == [pc |-> "inserting", month |-> attempt[r].month,
                 content |-> attempt[r].content, number |-> <<"PR", Cardinality(S) + 1>>]
<1>1. Cardinality(S) \in Nat
  <2>1. Len(runs) \in Nat /\ DOMAIN runs = 1..Len(runs)
    BY DEF Certain, TypeOK
  <2>2. IsFiniteSet(1..Len(runs)) /\ S \subseteq 1..Len(runs)
    BY <2>1, FS_Interval DEF Standing
  <2> QED BY <2>2, FS_Subset, FS_CardinalityType
<1>2. attempt[r] \in Busy \cup {Free} /\ attempt[r].pc = "counting"
  BY DEF Certain, TypeOK, CountRuns
<1>3. attempt[r].month \in Months /\ attempt[r].content \in Contents
  BY <1>2, Fields
<1>4. <<"PR", Cardinality(S) + 1>> \in Numbers
  BY <1>1 DEF Numbers
<1>5. b \in Busy
  BY <1>3, <1>4 DEF Busy
<1>6. Goes(r, b)
  BY DEF CountRuns
<1>7. Knows(b) /\ Sees(b)
  BY DEF Knows, Sees, OnRun
<1> QED BY <1>5, <1>6, <1>7

LEMMA ReadEditReads ==
    ASSUME Certain, NEW r \in Attempts, NEW i \in Standing, NEW set \in Edits,
           ReadEdit(r, i, set)
    PROVE  \E b \in Busy \cup {Free} : Goes(r, b) /\ Knows(b) /\ Sees(b)
<1> DEFINE b == [pc |-> "editing", run |-> i, set |-> set]
<1>1. i \in DOMAIN runs /\ i \in Nat /\ runs[i].status = "draft"
  BY RunTyped DEF Standing, ReadEdit, Certain
<1>2. b \in Busy
  BY <1>1 DEF Busy
<1>3. Goes(r, b)
  BY DEF ReadEdit
<1>4. Knows(b) /\ Sees(b)
  BY <1>1 DEF Knows, Sees, OnRun
<1> QED BY <1>2, <1>3, <1>4

LEMMA ReadApprovalReads ==
    ASSUME Certain, NEW r \in Attempts, NEW i \in Standing, ReadApproval(r, i)
    PROVE  \E b \in Busy \cup {Free} : Goes(r, b) /\ Knows(b) /\ Sees(b)
<1> DEFINE b == [pc |-> "approving", run |-> i, month |-> runs[i].month,
                 content |-> runs[i].content]
<1>1. /\ i \in DOMAIN runs /\ i \in Nat /\ runs[i].status = "draft"
      /\ runs[i].month \in Months /\ runs[i].content \in Payments
  BY RunTyped DEF Standing, ReadApproval, Certain
<1>2. b \in Busy
  BY <1>1 DEF Busy
<1>3. Goes(r, b)
  BY DEF ReadApproval
<1>4. Knows(b) /\ Sees(b)
  BY <1>1 DEF Knows, Sees, OnRun
<1> QED BY <1>2, <1>3, <1>4

LEMMA ReadAdvancesReads ==
    ASSUME Certain, NEW r \in Attempts, ReadAdvances(r)
    PROVE  \E b \in Busy \cup {Free} :
              Goes(r, b) /\ Knows(b) /\ (Sees(attempt[r]) => Sees(b))
<1> DEFINE c == attempt[r]
           b == [pc |-> "accruing", run |-> c.run, month |-> c.month,
                 content |-> c.content, table |-> advances]
<1>1. c \in Busy \cup {Free} /\ c.pc = "approving" /\ Knows(c)
  BY DEF Certain, TypeOK, ReadAdvances
<1>2. /\ c.run \in Nat /\ c.run \in DOMAIN runs /\ c.month \in Months
      /\ c.content \in Payments /\ advances \in AdvanceTables
  BY <1>1, Fields DEF OnRun, Knows, Certain, TypeOK
<1>3. b \in Busy
  BY <1>2 DEF Busy
<1>4. Goes(r, b)
  BY DEF ReadAdvances
<1>5. ASSUME NEW a \in Taken(c.content)
      PROVE  /\ advances[a].settled + c.content.takes[a] <= AdvanceTotals[a]
             /\ advances[a].status = "active"
  <2>1. a \in Advances /\ c.content.takes[a] \in Nat /\ c.content.takes[a] > 0
    BY <1>2, ContentTyped DEF Taken
  <2>2. c.content.takes[a] <= Remaining(advances, a) /\ advances[a].status = "active"
    BY DEF ReadAdvances, Selectable
  <2>3. advances[a].settled \in Nat /\ AdvanceTotals[a] \in Nat
    BY <1>2, <2>1, AdvanceTyped
  <2> QED BY <2>1, <2>2, <2>3 DEF Remaining
<1>6. Knows(b)
  BY <1>2, <1>5 DEF Knows
<1>7. Sees(c) => Sees(b)
  BY <1>1, <1>5 DEF Sees
<1> QED BY <1>3, <1>4, <1>6, <1>7

LEMMA ReadIssueReads ==
    ASSUME Certain, NEW r \in Attempts, NEW i \in Standing, NEW v \in Vaults, NEW d \in Days,
           ReadIssue(r, i, v, d)
    PROVE  \E b \in Busy \cup {Free} : Goes(r, b) /\ Knows(b) /\ Sees(b)
<1> DEFINE b == [pc |-> "paying", run |-> i, total |-> runs[i].content.net,
                 vault |-> v, day |-> d]
<1>1. /\ i \in DOMAIN runs /\ i \in Nat /\ runs[i].status = "completed"
      /\ runs[i].content.net \in Nat
  BY RunTyped, ContentTyped DEF Standing, ReadIssue, Certain
<1>2. b \in Busy
  BY <1>1 DEF Busy
<1>3. Goes(r, b)
  BY DEF ReadIssue
<1>4. Knows(b) /\ Sees(b)
  BY <1>1 DEF Knows, Sees, OnRun
<1> QED BY <1>2, <1>3, <1>4

LEMMA CheckRunReads ==
    ASSUME Certain, NEW r \in Attempts, CheckRun(r)
    PROVE  \E b \in Busy \cup {Free} :
              Goes(r, b) /\ Knows(b) /\ (Sees(attempt[r]) => Sees(b))
<1> DEFINE c == attempt[r]
           b == [c EXCEPT !.pc = "posting"]
<1>1. c \in Busy \cup {Free} /\ c.pc = "paying" /\ Knows(c)
  BY DEF Certain, TypeOK, CheckRun
<1>2. c \in [pc : {"paying", "posting"}, run : Nat, total : Nat, vault : Vaults, day : Days]
  BY <1>1 DEF Busy, Free
<1>3. /\ b \in [pc : {"paying", "posting"}, run : Nat, total : Nat, vault : Vaults, day : Days]
      /\ b.pc = "posting" /\ b.run = c.run
  BY <1>2
<1>4. b \in Busy
  BY <1>3 DEF Busy
<1>5. Goes(r, b)
  BY DEF CheckRun
<1>6. Knows(b)
  BY <1>1, <1>3 DEF Knows, OnRun
<1>7. Sees(c) => Sees(b)
  BY <1>1, <1>3 DEF Sees
<1> QED BY <1>4, <1>5, <1>6, <1>7

LEMMA FindSupplementaryReads ==
    ASSUME Certain, NEW r \in Attempts, NEW token \in Tokens, NEW month \in Months,
           NEW extra \in Extras, NEW v \in Vaults, NEW d \in Days,
           FindSupplementary(r, token, month, extra, v, d)
    PROVE  \E b \in Busy \cup {Free} : Goes(r, b) /\ Knows(b) /\ Sees(b)
<1> DEFINE b == [pc |-> "adding", number |-> <<"SUP", <<month, token>>>>, month |-> month,
                 content |-> Supplement(extra), vault |-> v, day |-> d]
<1>1. <<"SUP", <<month, token>>>> \in Numbers /\ Supplement(extra) \in Payments
  BY DEF Numbers, Payments
<1>2. b \in Busy
  BY <1>1 DEF Busy
<1>3. Goes(r, b)
  BY DEF FindSupplementary
<1>4. Taken(Supplement(extra)) = {}
  BY DEF Taken, Supplement
<1>5. Knows(b) /\ Sees(b)
  BY <1>4 DEF Knows, Sees, OnRun
<1> QED BY <1>2, <1>3, <1>5

LEMMA ReadDeleteReads ==
    ASSUME Certain, NEW r \in Attempts, NEW i \in Standing, ReadDelete(r, i)
    PROVE  \E b \in Busy \cup {Free} : Goes(r, b) /\ Knows(b) /\ Sees(b)
<1> DEFINE b == [pc |-> IF runs[i].status = "draft" THEN "dropping" ELSE "listing", run |-> i]
<1>1. /\ i \in DOMAIN runs /\ i \in Nat /\ runs[i].status \in {"draft", "completed"}
  BY RunTyped DEF Standing, Certain
<1>2. b \in Busy
  BY <1>1 DEF Busy
<1>3. Goes(r, b)
  BY DEF ReadDelete
<1>4. Knows(b) /\ Sees(b)
  BY <1>1 DEF Knows, Sees, OnRun
<1> QED BY <1>2, <1>3, <1>4

LEMMA ListSalariesReads ==
    ASSUME Certain, NEW r \in Attempts, ListSalaries(r)
    PROVE  \E b \in Busy \cup {Free} :
              Goes(r, b) /\ Knows(b) /\ (Sees(attempt[r]) => Sees(b))
<1> DEFINE c == attempt[r]
<1>1. c \in Busy \cup {Free} /\ c.pc = "listing" /\ Knows(c)
  BY DEF Certain, TypeOK, ListSalaries
<1>2. c.run \in Nat /\ c.run \in DOMAIN runs
  BY <1>1, Fields DEF OnRun, Knows
<1>3. CASE PaidBy(c.run) = {} /\ Goes(r, [pc |-> "finishing", run |-> c.run])
  <2> DEFINE b == [pc |-> "finishing", run |-> c.run]
  <2>1. b \in Busy
    BY <1>2 DEF Busy
  <2>2. Knows(b)
    BY <1>2 DEF Knows
  <2>3. Sees(c) => Sees(b)
    BY <1>1, <1>3 DEF Sees
  <2> QED BY <1>3, <2>1, <2>2, <2>3
<1>4. ASSUME NEW s \in PaidBy(c.run),
             Goes(r, [pc |-> "cancelling", run |-> c.run, salary |-> s])
      PROVE  \E b \in Busy \cup {Free} : Goes(r, b) /\ Knows(b) /\ (Sees(c) => Sees(b))
  <2> DEFINE b == [pc |-> "cancelling", run |-> c.run, salary |-> s]
  <2>1. s \in DOMAIN salaries /\ s \in Nat /\ salaries[s].run = c.run
    BY DEF PaidBy, Certain, TypeOK
  <2>2. b \in Busy
    BY <1>2, <2>1 DEF Busy
  <2>3. Knows(b)
    BY <1>2, <2>1 DEF Knows
  <2>4. Sees(c) => Sees(b)
    BY <1>1 DEF Sees
  <2> QED BY <1>4, <2>2, <2>3, <2>4
<1> QED BY <1>3, <1>4 DEF ListSalaries

\* The deductions that carry the number of a run are those of the run.
LEMMA ReadSettlementsReads ==
    ASSUME Certain, NEW r \in Attempts, ReadSettlements(r)
    PROVE  \E b \in Busy \cup {Free} : Goes(r, b) /\ Knows(b) /\ (Told => Sees(b))
<1> DEFINE c == attempt[r]
           rows == {row \in settlements : row.deduction /\ row.number = runs[c.run].number}
           b == [pc |-> "reversing", run |-> c.run, table |-> advances, rows |-> rows]
<1>1. c \in Busy \cup {Free} /\ c.pc = "finishing" /\ Knows(c)
  BY DEF Certain, TypeOK, ReadSettlements
<1>2. c.run \in Nat /\ c.run \in DOMAIN runs /\ advances \in AdvanceTables
  BY <1>1, Fields DEF OnRun, Knows, Certain, TypeOK
<1>3. rows \subseteq Settlements /\ IsFiniteSet(rows)
  BY FS_Subset DEF Certain, TypeOK, SettlementsKnown
<1>4. b \in Busy
  BY <1>2, <1>3 DEF Busy
<1>5. Goes(r, b)
  BY DEF ReadSettlements
<1>6. \A a \in Advances : advances[a].settled <= AdvanceTotals[a]
  BY DEF Certain, SettledWithinAdvance
<1>7. Knows(b)
  BY <1>2, <1>3, <1>6 DEF Knows
<1>8. ASSUME Told PROVE Sees(b)
  <2>1. runs[c.run].status = "completed" /\ PaidBy(c.run) = {}
    BY <1>1, <1>8 DEF Told, Sees
  <2>2. \A row \in settlements : row.deduction <=> row.status = "active"
    BY <1>8 DEF Told, AdvancesTold
  <2>3. ASSUME NEW row \in settlements, row.status = "active",
               row.number = runs[c.run].number
        PROVE  row.run = c.run
    <3>1. row.run \in DOMAIN runs /\ row.number = runs[row.run].number
      BY DEF Certain, SettlementsKnown
    <3>2. row \in Deductions(row.run)
      BY <2>3 DEF Deductions
    <3>3. runs[row.run].status = "completed"
      BY <1>8, <3>1, <3>2 DEF Told, RunTold
    <3> QED BY <1>2, <2>1, <2>3, <3>1, <3>3 DEF Certain, RunsNumbered, Standing
  <2>4. rows = Deductions(c.run)
    <3>1. \A row \in settlements : row.run = c.run => row.number = runs[c.run].number
      BY DEF Certain, SettlementsKnown
    <3> QED BY <2>2, <2>3, <3>1 DEF Deductions
  <2> QED BY <2>1, <2>4 DEF Sees
<1> QED BY <1>4, <1>5, <1>7, <1>8

LEMMA ReadAdvanceReads ==
    ASSUME Certain, NEW r \in Attempts, NEW a \in Advances, ReadAdvance(r, a)
    PROVE  \E b \in Busy \cup {Free} : Goes(r, b) /\ Knows(b) /\ Sees(b)
<1> DEFINE b == [pc |-> "waiving", advance |-> a]
<1>1. b \in Busy
  BY DEF Busy
<1>2. Goes(r, b)
  BY DEF ReadAdvance
<1>3. Knows(b) /\ Sees(b)
  BY DEF Knows, Sees, OnRun, ReadAdvance
<1> QED BY <1>1, <1>2, <1>3

-----------------------------------------------------------------------------
(* What the writes do to the ledger.                                       *)

Tells(x) == SalaryEntry(x) \/ AdvanceEntry(x) \/ AccrualEntry(x)

LEMMA AppendIs ==
    ASSUME LedgerTypeOK, NEW es \in Seq(Entries), ledger' = ledger \o es,
           \A n \in DOMAIN es : es[n].status = "active"
    PROVE  /\ LedgerTypeOK' /\ Len(ledger) \in Nat
           /\ \A e \in DOMAIN ledger : e \in DOMAIN ledger' /\ ledger'[e] = ledger[e]
           /\ ActiveEntries \subseteq ActiveEntries'
           /\ \A e \in ActiveEntries' : e \notin ActiveEntries =>
                 e - Len(ledger) \in DOMAIN es /\ ledger'[e] = es[e - Len(ledger)]
           /\ \A n \in DOMAIN es :
                 /\ Len(ledger) + n \in ActiveEntries'
                 /\ Len(ledger) + n \notin ActiveEntries
                 /\ ledger'[Len(ledger) + n] = es[n]
<1>1. /\ ledger \o es \in Seq(Entries) /\ Len(ledger \o es) = Len(ledger) + Len(es)
      /\ Len(ledger) \in Nat /\ Len(es) \in Nat
      /\ \A i \in DOMAIN ledger : (ledger \o es)[i] = ledger[i]
      /\ \A i \in DOMAIN (ledger \o es) : i \notin DOMAIN ledger
            => i - Len(ledger) \in DOMAIN es /\ (ledger \o es)[i] = es[i - Len(ledger)]
  BY Joined DEF LedgerTypeOK
<1>2. /\ DOMAIN ledger = 1..Len(ledger) /\ DOMAIN es = 1..Len(es)
      /\ DOMAIN ledger' = 1..(Len(ledger) + Len(es))
  BY <1>1 DEF LedgerTypeOK
<1>3. ASSUME NEW n \in DOMAIN es
      PROVE  /\ Len(ledger) + n \in DOMAIN ledger' /\ Len(ledger) + n \notin DOMAIN ledger
             /\ ledger'[Len(ledger) + n] = es[n]
  <2>1. Len(ledger) + n \in DOMAIN ledger' /\ Len(ledger) + n \notin DOMAIN ledger
    BY <1>1, <1>2
  <2>2. ledger'[Len(ledger) + n] = es[(Len(ledger) + n) - Len(ledger)]
    BY <1>1, <2>1
  <2>3. (Len(ledger) + n) - Len(ledger) = n
    BY <1>1, <1>2
  <2> QED BY <2>1, <2>2, <2>3
<1> QED BY <1>1, <1>2, <1>3 DEF LedgerTypeOK, ActiveEntries

LEMMA CancelIs ==
    ASSUME LedgerTypeOK, NEW ref, CancelEntries(ref)
    PROVE  /\ LedgerTypeOK' /\ DOMAIN ledger' = DOMAIN ledger
           /\ ActiveEntries' = ActiveEntries \ EntriesOf(ref)
           /\ \A e \in ActiveEntries' : ledger'[e] = ledger[e]
<1>1. /\ DOMAIN ledger' = DOMAIN ledger
      /\ \A e \in DOMAIN ledger : ledger'[e] =
            IF ledger[e].ref = ref /\ ledger[e].status = "active"
            THEN [ledger[e] EXCEPT !.status = "cancelled"] ELSE ledger[e]
  BY DEF CancelEntries
<1>2. ASSUME NEW e \in DOMAIN ledger
      PROVE  /\ ledger'[e] \in Entries
             /\ ledger'[e].status = "active" <=> ledger[e].status = "active" /\ ledger[e].ref # ref
             /\ ledger'[e].status = "active" => ledger'[e] = ledger[e]
  <2>1. ledger[e] \in Entries
    BY ElementOf DEF LedgerTypeOK
  <2> QED BY <1>1, <2>1 DEF Entries
<1>3. ledger' \in Seq(Entries)
  <2>1. ledger' = [e \in DOMAIN ledger |-> ledger'[e]]
    BY DEF CancelEntries
  <2> QED BY <1>2, <2>1, Mapped DEF LedgerTypeOK
<1>4. ActiveEntries' = ActiveEntries \ EntriesOf(ref)
  BY <1>1, <1>2 DEF ActiveEntries, EntriesOf
<1> QED BY <1>1, <1>2, <1>3, <1>4 DEF LedgerTypeOK, ActiveEntries

\* Entries about something new are told and single.
LEMMA EntriesAdded ==
    ASSUME LedgerTypeOK, EntriesTold, EntriesSingle,
           NEW es \in Seq(Entries), ledger' = ledger \o es,
           \A n \in DOMAIN es : es[n].status = "active" /\ Tells(es[n])',
           \A e \in ActiveEntries : Tells(ledger[e])',
           \A e \in ActiveEntries, n \in DOMAIN es :
               ~SameSubject(ledger[e], es[n]) /\ ~SameSubject(es[n], ledger[e]),
           \A m, n \in DOMAIN es : SameSubject(es[m], es[n]) => m = n
    PROVE  EntriesTold' /\ EntriesSingle'
<1> DEFINE L == Len(ledger)
<1>1. /\ L \in Nat
      /\ \A e \in ActiveEntries : e \in ActiveEntries' /\ ledger'[e] = ledger[e]
      /\ \A e \in ActiveEntries' : e \notin ActiveEntries =>
             e - L \in DOMAIN es /\ ledger'[e] = es[e - L]
  BY AppendIs DEF ActiveEntries
<1>2. ActiveEntries' \subseteq Nat
  BY AppendIs DEF ActiveEntries, LedgerTypeOK
<1>3. ASSUME NEW e \in ActiveEntries' PROVE Tells(ledger[e])'
  <2>1. PICK x : x = ledger'[e]
    OBVIOUS
  <2>2. CASE e \in ActiveEntries
    <3>1. x = ledger[e]
      BY <1>1, <2>1, <2>2
    <3>2. PICK y : y = ledger[e]
      OBVIOUS
    <3> QED BY <2>1, <2>2, <1>1
  <2>3. CASE e \notin ActiveEntries
    <3>1. e - L \in DOMAIN es /\ ledger'[e] = es[e - L]
      BY <1>1, <2>3
    <3> HIDE DEF L
    <3> QED BY <3>1
  <2> QED BY <2>2, <2>3
<1>4. EntriesTold'
  BY <1>3 DEF EntriesTold, Tells
<1>5. ASSUME NEW e \in ActiveEntries', NEW f \in ActiveEntries',
             SameSubject(ledger'[e], ledger'[f])
      PROVE  e = f
  <2>1. CASE e \in ActiveEntries /\ f \in ActiveEntries
    BY <1>1, <1>5, <2>1 DEF EntriesSingle
  <2>2. CASE e \in ActiveEntries /\ f \notin ActiveEntries
    BY <1>1, <1>5, <2>2
  <2>3. CASE e \notin ActiveEntries /\ f \in ActiveEntries
    BY <1>1, <1>5, <2>3
  <2>4. CASE e \notin ActiveEntries /\ f \notin ActiveEntries
    <3>1. e - L = f - L
      BY <1>1, <1>5, <2>4
    <3> HIDE DEF L
    <3> QED BY <1>1, <1>2, <3>1
  <2> QED BY <2>1, <2>2, <2>3, <2>4
<1>6. EntriesSingle'
  BY <1>5 DEF EntriesSingle, SameSubject
<1> QED BY <1>4, <1>6

\* Entries that are cancelled leave the others.
LEMMA EntriesRemoved ==
    ASSUME LedgerTypeOK, EntriesSingle, NEW ref, CancelEntries(ref),
           \A e \in ActiveEntries : ledger[e].ref # ref => Tells(ledger[e])'
    PROVE  EntriesTold' /\ EntriesSingle'
<1>1. /\ ActiveEntries' = ActiveEntries \ EntriesOf(ref)
      /\ \A e \in ActiveEntries' : ledger'[e] = ledger[e]
  BY CancelIs
<1>2. \A e \in ActiveEntries' : e \in ActiveEntries /\ ledger[e].ref # ref
  BY <1>1 DEF EntriesOf, ActiveEntries
<1>3. ASSUME NEW e \in ActiveEntries' PROVE Tells(ledger[e])'
  BY <1>1, <1>2
<1>4. EntriesTold'
  BY <1>3 DEF EntriesTold, Tells
<1>5. EntriesSingle'
  BY <1>1, <1>2 DEF EntriesSingle, SameSubject
<1> QED BY <1>4, <1>5

-----------------------------------------------------------------------------
(* Sums and sets of the tables.                                            *)

LEMMA ImageFinite ==
    ASSUME NEW S, IsFiniteSet(S), NEW f
    PROVE  IsFiniteSet({f[x] : x \in S})
<1> DEFINE T == {f[x] : x \in S}
           g == [x \in S |-> f[x]]
<1>1. g \in Surjection(S, T)
  BY DEF Surjection
<1> QED BY <1>1, FS_Surjection

LEMMA AdvancesFinite == IsFiniteSet(Advances)
<1>1. Len(AdvanceTotals) \in Nat /\ Advances = 1..Len(AdvanceTotals)
  BY PayrollConstants DEF Advances
<1> QED BY <1>1, FS_Interval

LEMMA DeductedType ==
    ASSUME NEW c \in Payments
    PROVE  Deducted(c) \in Nat
<1>1. \A a \in Advances : c.takes[a] \in Nat
  BY ContentTyped
<1> QED BY <1>1, AdvancesFinite, SumType DEF Deducted

LEMMA GivenType ==
    ASSUME NEW rows, IsFiniteSet(rows), rows \subseteq Settlements, NEW a
    PROVE  Given(rows, a) \in Nat
<1> DEFINE f == [row \in rows |-> row.amount]
           S == {row \in rows : row.advance = a}
<1>1. IsFiniteSet(S)
  BY FS_Subset
<1>2. \A row \in S : f[row] \in Nat
  BY DEF Settlements
<1>3. SumFunctionOnSet(f, S) \in Nat
  <2> HIDE DEF f, S
  <2> QED BY <1>1, <1>2, SumType
<1> QED BY <1>3 DEF Given

\* A sum of nothing but zeros.
LEMMA SumOfZeros ==
    ASSUME NEW f, NEW S, IsFiniteSet(S), \A x \in S : f[x] = 0
    PROVE  SumFunctionOnSet(f, S) = 0
<1> DEFINE C == {V \in SUBSET S : SumFunctionOnSet(f, V) # 0}
<1>1. SUFFICES ASSUME C # {} PROVE FALSE
  OBVIOUS
<1>2. \A V \in C : V \subseteq S /\ IsFiniteSet(V)
  BY FS_Subset
<1>3. PICK V \in C : \A W \in C : W \subseteq V => W = V
  <2>1. C \in SUBSET SUBSET S
    OBVIOUS
  <2> HIDE DEF C
  <2> QED BY <1>1, <2>1, SmallestSet
<1>4. V # {}
  BY SumEmpty
<1>5. PICK x \in V : TRUE
  BY <1>4
<1>6. /\ V \ {x} \subseteq S /\ V \ {x} # V
      /\ SumFunctionOnSet(f, V) = f[x] + SumFunctionOnSet(f, V \ {x})
  BY <1>2, SumRemove
<1>7. SumFunctionOnSet(f, V \ {x}) = 0
  BY <1>3, <1>6
<1> QED BY <1>2, <1>6, <1>7

-----------------------------------------------------------------------------
(* Writes to the runs alone.                                               *)

LEMMA RunsOnlyCertain ==
    ASSUME Certain, UNCHANGED <<advances, settlements, salaries, ledger, settings>>,
           apart' \in BOOLEAN, runs' \in Seq(Runs), RunsNumbered',
           \A i \in DOMAIN runs :
               /\ i \in DOMAIN runs' /\ runs'[i].number = runs[i].number
               /\ runs[i].status # "draft" => runs'[i].status # "draft",
           NEW r \in Attempts, Goes(r, Free)
    PROVE  Certain'
<1>1. RowsKept
  BY DEF RowsKept
<1>2. Free \in Busy \cup {Free} /\ Knows(Free)
  BY DEF Knows, Free, OnRun
<1>3. \A s \in Attempts : Knows(attempt[s])'
  BY <1>1, <1>2, KnowsAll DEF Certain
<1>4. TypeOK'
  BY <1>2, RequestsTyped DEF Certain, TypeOK, LedgerTypeOK
<1>5. SettledWithinAdvance' /\ SettlementsKnown' /\ PaidOnce'
  BY DEF Certain, SettledWithinAdvance, SettlementsKnown, PaidOnce
<1>6. EntriesTold' /\ EntriesSingle' /\ EntriesStand'
  BY DEF Certain, EntriesTold, EntriesSingle, EntriesStand, ActiveEntries, SameSubject,
       Entered, SalaryEntry, AdvanceEntry, AccrualEntry
<1> QED BY <1>3, <1>4, <1>5, <1>6 DEF Certain

LEMMA InsertRunIs ==
    ASSUME Certain, NEW r \in Attempts, InsertRun(r)
    PROVE  /\ runs' \in Seq(Runs) /\ RunsNumbered'
           /\ Len(runs) \in Nat /\ DOMAIN runs' = DOMAIN runs \cup {Len(runs) + 1}
           /\ Len(runs) + 1 \notin DOMAIN runs
           /\ \A i \in DOMAIN runs : runs'[i] = runs[i]
           /\ runs'[Len(runs) + 1].status = "draft"
<1> DEFINE b == attempt[r]
           x == [number |-> b.number, month |-> b.month, content |-> b.content,
                 status |-> "draft"]
<1>1. b \in Busy \cup {Free} /\ b.pc = "inserting"
  BY DEF InsertRun, Certain, TypeOK
<1>2. x \in Runs
  BY <1>1, Fields DEF Runs, Payments
<1>3. runs' = Append(runs, x) /\ NumberFree(b.number)
  BY DEF InsertRun
<1>4. /\ Append(runs, x) \in Seq(Runs) /\ Len(runs) \in Nat
      /\ DOMAIN Append(runs, x) = DOMAIN runs \cup {Len(runs) + 1}
      /\ Len(runs) + 1 \notin DOMAIN runs
      /\ Append(runs, x)[Len(runs) + 1] = x
      /\ \A i \in DOMAIN runs : Append(runs, x)[i] = runs[i]
  BY <1>2, Appended DEF Certain, TypeOK
<1>5. RunsNumbered'
  BY <1>3, <1>4 DEF Certain, RunsNumbered, Standing, NumberFree
<1> QED BY <1>3, <1>4, <1>5

LEMMA InsertRunCertain ==
    ASSUME Certain, NEW r \in Attempts, InsertRun(r), UNCHANGED settings, apart' \in BOOLEAN
    PROVE  Certain'
<1>1. UNCHANGED <<advances, settlements, salaries, ledger, settings>> /\ Goes(r, Free)
  BY DEF InsertRun, Ends, Goes
<1> QED BY <1>1, InsertRunIs, RunsOnlyCertain

LEMMA EditedIs ==
    ASSUME NEW row \in Runs, NEW set \in Edits
    PROVE  /\ Edited(row, set) \in Runs
           /\ Edited(row, set).number = row.number
           /\ Edited(row, set).status = row.status
<1>1. DOMAIN row = {"number", "month", "content", "status"}
  BY DEF Runs
<1>2. /\ "number" \notin DOMAIN set /\ "status" \notin DOMAIN set
      /\ "month" \in DOMAIN set => set.month \in Months
      /\ "content" \in DOMAIN set => set.content \in Contents
  <2>1. set \in [month : Months] \cup [content : Contents] \cup [month : Months, content : Contents]
    BY PayrollConstants
  <2> QED BY <2>1
<1>3. row.number \in Numbers /\ row.month \in Months /\ row.content \in Payments
      /\ row.status \in {"draft", "completed", "deleted"}
  BY DEF Runs
<1>4. Edited(row, set) =
        [number |-> row.number,
         month |-> IF "month" \in DOMAIN set THEN set.month ELSE row.month,
         content |-> IF "content" \in DOMAIN set THEN set.content ELSE row.content,
         status |-> row.status]
  BY <1>1, <1>2 DEF Edited
<1>5. (IF "content" \in DOMAIN set THEN set.content ELSE row.content) \in Payments
  BY <1>2, <1>3 DEF Payments
<1>6. (IF "month" \in DOMAIN set THEN set.month ELSE row.month) \in Months
  BY <1>2, <1>3
<1> QED BY <1>3, <1>4, <1>5, <1>6 DEF Runs

LEMMA WriteEditIs ==
    ASSUME Certain, NEW r \in Attempts, WriteEdit(r)
    PROVE  LET i == attempt[r].run
           IN  /\ runs' \in Seq(Runs) /\ RunsNumbered' /\ DOMAIN runs' = DOMAIN runs
               /\ i \in DOMAIN runs
               /\ \A j \in DOMAIN runs : j # i => runs'[j] = runs[j]
               /\ runs'[i].number = runs[i].number /\ runs'[i].status = runs[i].status
<1> DEFINE b == attempt[r]
           i == b.run
           x == Edited(runs[i], b.set)
<1>1. b \in Busy \cup {Free} /\ b.pc = "editing"
  BY DEF WriteEdit, Certain, TypeOK
<1>2. b.set \in Edits /\ i \in DOMAIN runs
  BY <1>1, Fields DEF WriteEdit, Standing
<1>3. x \in Runs /\ x.number = runs[i].number /\ x.status = runs[i].status
  BY <1>2, EditedIs, RunTyped DEF Certain
<1>4. runs' = [runs EXCEPT ![i] = x]
  BY DEF WriteEdit
<1>5. /\ [runs EXCEPT ![i] = x] \in Seq(Runs)
      /\ DOMAIN [runs EXCEPT ![i] = x] = DOMAIN runs
      /\ \A j \in DOMAIN runs : [runs EXCEPT ![i] = x][j] = IF j = i THEN x ELSE runs[j]
  BY <1>3, Rewritten DEF Certain, TypeOK
<1> HIDE DEF x
<1>6. RunsNumbered'
  BY <1>2, <1>3, <1>4, <1>5 DEF Certain, RunsNumbered, Standing
<1> QED BY <1>2, <1>3, <1>4, <1>5, <1>6

LEMMA WriteEditCertain ==
    ASSUME Certain, NEW r \in Attempts, WriteEdit(r), UNCHANGED settings, apart' \in BOOLEAN
    PROVE  Certain'
<1>1. UNCHANGED <<advances, settlements, salaries, ledger, settings>> /\ Goes(r, Free)
  BY DEF WriteEdit, Ends, Goes
<1>2. \A i \in DOMAIN runs :
          /\ i \in DOMAIN runs' /\ runs'[i].number = runs[i].number
          /\ runs[i].status # "draft" => runs'[i].status # "draft"
  BY WriteEditIs
<1>3. runs' \in Seq(Runs) /\ RunsNumbered'
  BY WriteEditIs
<1> QED BY <1>1, <1>2, <1>3, RunsOnlyCertain

\* A run whose status alone changes.
LEMMA StatusIs ==
    ASSUME Certain, NEW i \in DOMAIN runs, NEW status \in {"completed", "deleted"},
           i \in Standing, runs' = [runs EXCEPT ![i].status = status]
    PROVE  /\ runs' \in Seq(Runs) /\ RunsNumbered' /\ DOMAIN runs' = DOMAIN runs
           /\ \A j \in DOMAIN runs : j # i => runs'[j] = runs[j]
           /\ runs'[i].number = runs[i].number /\ runs'[i].content = runs[i].content
           /\ runs'[i].status = status
<1> DEFINE x == [runs[i] EXCEPT !.status = status]
<1>1. runs[i] \in Runs
  BY RunTyped DEF Certain
<1>2. /\ x \in Runs /\ x.number = runs[i].number /\ x.content = runs[i].content
      /\ x.status = status
  BY <1>1 DEF Runs
<1>3. runs' = [runs EXCEPT ![i] = x]
  OBVIOUS
<1>4. /\ [runs EXCEPT ![i] = x] \in Seq(Runs)
      /\ DOMAIN [runs EXCEPT ![i] = x] = DOMAIN runs
      /\ \A j \in DOMAIN runs : [runs EXCEPT ![i] = x][j] = IF j = i THEN x ELSE runs[j]
  BY <1>2, Rewritten DEF Certain, TypeOK
<1> HIDE DEF x
<1>5. RunsNumbered'
  BY <1>2, <1>3, <1>4 DEF Certain, RunsNumbered, Standing
<1> QED BY <1>2, <1>3, <1>4, <1>5

LEMMA DropDraftIs ==
    ASSUME Certain, NEW r \in Attempts, DropDraft(r)
    PROVE  LET i == attempt[r].run
           IN  /\ runs' \in Seq(Runs) /\ RunsNumbered' /\ DOMAIN runs' = DOMAIN runs
               /\ i \in DOMAIN runs /\ runs'[i].status = "deleted"
               /\ \A j \in DOMAIN runs : j # i => runs'[j] = runs[j]
               /\ runs'[i].number = runs[i].number
<1>1. attempt[r].run \in Standing /\ attempt[r].run \in DOMAIN runs
  BY DEF DropDraft, Standing
<1>2. runs' = [runs EXCEPT ![attempt[r].run].status = "deleted"]
  BY DEF DropDraft
<1> QED BY <1>1, <1>2, StatusIs

LEMMA DropDraftCertain ==
    ASSUME Certain, NEW r \in Attempts, DropDraft(r), UNCHANGED settings, apart' \in BOOLEAN
    PROVE  Certain'
<1>1. UNCHANGED <<advances, settlements, salaries, ledger, settings>> /\ Goes(r, Free)
  BY DEF DropDraft, Ends, Goes
<1>2. \A i \in DOMAIN runs :
          /\ i \in DOMAIN runs' /\ runs'[i].number = runs[i].number
          /\ runs[i].status # "draft" => runs'[i].status # "draft"
  BY DropDraftIs
<1>3. runs' \in Seq(Runs) /\ RunsNumbered'
  BY DropDraftIs
<1> QED BY <1>1, <1>2, <1>3, RunsOnlyCertain

-----------------------------------------------------------------------------
(* Entries that are posted.                                                *)

LEMMA EntryTyped ==
    ASSUME NEW d \in Accounts, NEW c \in Accounts, NEW amount \in Nat, NEW day \in Days,
           NEW ref \in References
    PROVE  LET x == EntryOf(d, c, amount, day, ref)
           IN  /\ x \in Entries /\ x.status = "active" /\ x.ref = ref
               /\ x.debit = d /\ x.credit = c /\ x.amount = amount
BY DaysAssumption DEF EntryOf, Entries

LEMMA AccountsApart ==
    /\ {SalaryExpense, Payable, AdvanceAsset} \subseteq Accounts \ Vaults
    /\ SalaryExpense # Payable /\ SalaryExpense # AdvanceAsset /\ Payable # AdvanceAsset
    /\ Vaults \subseteq Accounts
<1>1. Cardinality({SalaryExpense, Payable, AdvanceAsset}) = 3
  BY PayrollConstants
<1>2. ASSUME NEW x, NEW y, {SalaryExpense, Payable, AdvanceAsset} = {x, y} PROVE FALSE
  <2>1. IsFiniteSet({x}) /\ Cardinality({x}) = 1
    BY FS_Singleton
  <2>2. Cardinality({x} \cup {y}) = IF y \in {x} THEN 1 ELSE 2
    BY <2>1, FS_AddElement
  <2>3. {x} \cup {y} = {x, y}
    OBVIOUS
  <2> QED BY <1>1, <1>2, <2>2, <2>3
<1>3. SalaryExpense # Payable
  <2>1. SUFFICES ASSUME SalaryExpense = Payable PROVE FALSE
    OBVIOUS
  <2>2. {SalaryExpense, Payable, AdvanceAsset} = {Payable, AdvanceAsset}
    BY <2>1
  <2> QED BY <1>2, <2>2
<1>4. SalaryExpense # AdvanceAsset
  <2>1. SUFFICES ASSUME SalaryExpense = AdvanceAsset PROVE FALSE
    OBVIOUS
  <2>2. {SalaryExpense, Payable, AdvanceAsset} = {Payable, AdvanceAsset}
    BY <2>1
  <2> QED BY <1>2, <2>2
<1>5. Payable # AdvanceAsset
  <2>1. SUFFICES ASSUME Payable = AdvanceAsset PROVE FALSE
    OBVIOUS
  <2>2. {SalaryExpense, Payable, AdvanceAsset} = {SalaryExpense, AdvanceAsset}
    BY <2>1
  <2> QED BY <1>2, <2>2
<1> QED BY <1>3, <1>4, <1>5, PayrollConstants, VaultsAssumption

LEMMA PairIs ==
    ASSUME NEW S, NEW x \in S, NEW y \in S, NEW s, s = <<x>> \o <<y>>
    PROVE  s \in Seq(S) /\ DOMAIN s = {1, 2} /\ s[1] = x /\ s[2] = y
<1>1. <<x>> \in Seq(S) /\ <<y>> \in Seq(S) /\ Len(<<x>>) = 1 /\ Len(<<y>>) = 1
  OBVIOUS
<1>2. DOMAIN <<x>> = {1} /\ <<x>>[1] = x /\ DOMAIN <<y>> = {1} /\ <<y>>[1] = y
  OBVIOUS
<1>3. /\ s \in Seq(S) /\ Len(s) = 2
      /\ \A i \in DOMAIN <<x>> : s[i] = <<x>>[i]
      /\ \A i \in DOMAIN s : i \notin DOMAIN <<x>> => s[i] = <<y>>[i - 1]
  BY <1>1, Joined
<1>4. DOMAIN s = 1..2
  BY <1>3
<1> QED BY <1>2, <1>3, <1>4

\* The entry of an accrual against an account.
AccrualEntryOf(i, account, amount, x) ==
    /\ x \in Entries /\ x.status = "active" /\ x.ref = Ref("payroll_accrual", i)
    /\ x.debit = SalaryExpense /\ x.credit = account /\ x.amount = amount

\* The entries of an accrual.
Accrues(i, content, es) ==
    /\ es \in Seq(Entries)
    /\ \A n \in DOMAIN es :
          \/ content.net # 0 /\ AccrualEntryOf(i, Payable, content.net, es[n])
          \/ /\ Deducted(content) # 0
             /\ AccrualEntryOf(i, AdvanceAsset, Deducted(content), es[n])
    /\ \A m, n \in DOMAIN es : es[m].credit = es[n].credit => m = n
    /\ content.net # 0 =>
          \E n \in DOMAIN es : AccrualEntryOf(i, Payable, content.net, es[n])
    /\ Deducted(content) # 0 =>
          \E n \in DOMAIN es : AccrualEntryOf(i, AdvanceAsset, Deducted(content), es[n])

LEMMA AccrualOfIs ==
    ASSUME NEW i \in Nat, NEW month \in Months, NEW content \in Payments,
           NEW es, es = AccrualOf(i, month, content)
    PROVE  Accrues(i, content, es)
<1> DEFINE ref == Ref("payroll_accrual", i)
           x == EntryOf(SalaryExpense, Payable, content.net, LastDay[month], ref)
           y == EntryOf(SalaryExpense, AdvanceAsset, Deducted(content), LastDay[month], ref)
<1>1. content.net \in Nat /\ Deducted(content) \in Nat
  BY ContentTyped, DeductedType
<1>2. ref \in References /\ LastDay[month] \in Days
  BY PayrollConstants DEF Ref, References
<1>3. AccrualEntryOf(i, Payable, content.net, x)
  BY <1>1, <1>2, EntryTyped, AccountsApart DEF AccrualEntryOf
<1>4. AccrualEntryOf(i, AdvanceAsset, Deducted(content), y)
  BY <1>1, <1>2, EntryTyped, AccountsApart DEF AccrualEntryOf
<1>5. es = (IF content.net = 0 THEN <<>> ELSE <<x>>) \o (IF Deducted(content) = 0 THEN <<>> ELSE <<y>>)
  BY DEF AccrualOf
<1>6. x \in Entries /\ y \in Entries /\ x.credit = Payable /\ y.credit = AdvanceAsset
  BY <1>3, <1>4 DEF AccrualEntryOf
<1> HIDE DEF x, y
<1>7. CASE content.net = 0 /\ Deducted(content) = 0
  BY <1>5, <1>7 DEF Accrues
<1>8. CASE content.net # 0 /\ Deducted(content) = 0
  <2>1. es = <<x>>
    BY <1>5, <1>6, <1>8
  <2>2. es \in Seq(Entries) /\ DOMAIN es = {1} /\ es[1] = x
    BY <1>6, <2>1
  <2> QED BY <1>3, <1>8, <2>2 DEF Accrues
<1>9. CASE content.net = 0 /\ Deducted(content) # 0
  <2>1. es = <<y>>
    BY <1>5, <1>6, <1>9
  <2>2. es \in Seq(Entries) /\ DOMAIN es = {1} /\ es[1] = y
    BY <1>6, <2>1
  <2> QED BY <1>4, <1>9, <2>2 DEF Accrues
<1>10. CASE content.net # 0 /\ Deducted(content) # 0
  <2>1. es = <<x>> \o <<y>>
    BY <1>5, <1>10
  <2>2. es \in Seq(Entries) /\ DOMAIN es = {1, 2} /\ es[1] = x /\ es[2] = y
    BY <1>6, <2>1, PairIs
  <2>3. \A m, n \in DOMAIN es : es[m].credit = es[n].credit => m = n
    BY <1>6, <2>2, AccountsApart
  <2> QED BY <1>3, <1>4, <1>10, <2>2, <2>3 DEF Accrues
<1> QED BY <1>7, <1>8, <1>9, <1>10

-----------------------------------------------------------------------------
(* Paying.                                                                 *)

\* What has the number of a row has an entry about it at most.
LEMMA ToldIds ==
    ASSUME Certain, NEW e \in ActiveEntries
    PROVE  /\ ledger[e] \in Entries
           /\ ledger[e].ref.type \in {"salary", "advance", "payroll_accrual"}
           /\ ledger[e].ref.type = "salary" => SalaryEntry(ledger[e])
           /\ ledger[e].ref.type = "advance" => AdvanceEntry(ledger[e])
           /\ ledger[e].ref.type = "payroll_accrual" => AccrualEntry(ledger[e])
<1>1. e \in DOMAIN ledger
  BY DEF ActiveEntries
<1>2. ledger[e] \in Entries
  BY <1>1, ElementOf DEF Certain, TypeOK, LedgerTypeOK
<1>3. SalaryEntry(ledger[e]) \/ AdvanceEntry(ledger[e]) \/ AccrualEntry(ledger[e])
  BY DEF Certain, EntriesTold
<1> QED BY <1>2, <1>3 DEF SalaryEntry, AdvanceEntry, AccrualEntry

Salaries == [number : Numbers, run : Nat, total : Nat, status : {"active", "cancelled"}]

\* The row and the entry of a payment, for a run that has none.
Pays(s, x, i, total, v) ==
    /\ salaries' \in Seq(Salaries) /\ s \in Nat
    /\ DOMAIN salaries' = DOMAIN salaries \cup {s} /\ s \notin DOMAIN salaries
    /\ \A t \in DOMAIN salaries : salaries'[t] = salaries[t]
    /\ salaries'[s].run = i /\ salaries'[s].status = "active" /\ salaries'[s].total = total
    /\ PaidBy(i) = {}
    /\ x \in Entries /\ x.status = "active" /\ x.ref = Ref("salary", s)
    /\ x.debit = Payable /\ x.credit \in Vaults /\ x.amount = total

LEMMA PaymentIs ==
    ASSUME Certain, NEW i \in Nat, PaidBy(i) = {}, NEW total \in Nat, NEW v \in Vaults,
           NEW d \in Days, NEW number \in Numbers, NEW s, s = Len(salaries) + 1,
           NEW x, x = PaymentOf(s, total, v, d),
           salaries' = Append(salaries, [number |-> number, run |-> i, total |-> total,
                                         status |-> "active"])
    PROVE  Pays(s, x, i, total, v)
<1>1. PICK row : row = [number |-> number, run |-> i, total |-> total, status |-> "active"]
  OBVIOUS
<1>2. row \in Salaries /\ row.run = i /\ row.status = "active" /\ row.total = total
  BY <1>1 DEF Salaries
<1>3. salaries \in Seq(Salaries)
  BY DEF Certain, TypeOK, Salaries
<1>4. /\ salaries' \in Seq(Salaries) /\ Len(salaries) \in Nat
      /\ DOMAIN salaries' = DOMAIN salaries \cup {s} /\ s \notin DOMAIN salaries
      /\ salaries'[s] = row
      /\ \A t \in DOMAIN salaries : salaries'[t] = salaries[t]
  BY <1>1, <1>2, <1>3, Appended
<1>5. s \in Nat /\ Ref("salary", s) \in References
  BY <1>4 DEF Ref, References
<1>6. /\ x \in Entries /\ x.status = "active" /\ x.ref = Ref("salary", s)
      /\ x.debit = Payable /\ x.credit = v /\ x.amount = total
  BY <1>5, EntryTyped, AccountsApart DEF PaymentOf
<1> QED BY <1>2, <1>4, <1>5, <1>6 DEF Pays

\* A payment leaves what is certain.
LEMMA PaymentKeeps ==
    ASSUME Certain, NEW s, NEW x, NEW i, NEW total, NEW v, Pays(s, x, i, total, v), RowsKept,
           i \in DOMAIN runs', NEW r \in Attempts, Goes(r, Free)
    PROVE  /\ \A t \in Attempts : Knows(attempt[t])'
           /\ attempt' \in [Attempts -> Busy \cup {Free}]
           /\ PaidOnce'
           /\ Tells(x)'
           /\ x.ref.type = "salary"
           /\ \A e \in ActiveEntries : ledger[e].ref # x.ref
<1>1. Free \in Busy \cup {Free} /\ Knows(Free)
  BY DEF Knows, Free, OnRun
<1>2. \A t \in Attempts : Knows(attempt[t])'
  BY <1>1, KnowsAll DEF Certain
<1>3. attempt' \in [Attempts -> Busy \cup {Free}]
  BY <1>1, RequestsTyped DEF Certain
<1>4. PaidOnce'
  <2>1. \A t \in DOMAIN salaries' : salaries'[t].run \in DOMAIN runs'
    BY DEF Certain, PaidOnce, Pays, RowsKept
  <2>2. \A t \in DOMAIN salaries : salaries[t].run = i => salaries[t].status # "active"
    BY DEF Pays, PaidBy
  <2> QED BY <2>1, <2>2 DEF Certain, PaidOnce, Pays
<1>5. x.ref.type = "salary" /\ x.ref.id = s
  BY DEF Pays, Ref
<1>6. Tells(x)'
  BY <1>5 DEF Tells, SalaryEntry, Pays
<1>7. \A e \in ActiveEntries : ledger[e].ref # x.ref
  BY <1>5, ToldIds DEF SalaryEntry, Pays
<1> QED BY <1>2, <1>3, <1>4, <1>5, <1>6, <1>7

\* What was told stays told while its rows stay as they are.
RowsStand ==
    /\ \A s \in DOMAIN salaries : s \in DOMAIN salaries' /\ salaries'[s] = salaries[s]
    /\ \A i \in DOMAIN runs :
          i \in DOMAIN runs' /\ (runs[i].status # "draft" => runs'[i].status # "draft")
    /\ \A a \in Advances : advances'[a].status = advances[a].status

LEMMA StillTold ==
    ASSUME RowsStand, NEW x, Tells(x)
    PROVE  Tells(x)'
BY DEF RowsStand, Tells, SalaryEntry, AdvanceEntry, AccrualEntry

\* Entries about something new are posted.
LEMMA Posted ==
    ASSUME Certain, RowsStand, NEW es \in Seq(Entries), ledger' = ledger \o es,
           \A n \in DOMAIN es : es[n].status = "active" /\ Tells(es[n])',
           \A e \in ActiveEntries, n \in DOMAIN es : ~SameSubject(ledger[e], es[n]),
           \A m, n \in DOMAIN es : SameSubject(es[m], es[n]) => m = n
    PROVE  /\ LedgerTypeOK' /\ EntriesTold' /\ EntriesSingle'
           /\ \A ref : Entered(ref) => Entered(ref)'
           /\ \A n \in DOMAIN es : Entered(es[n].ref)'
<1>1. LedgerTypeOK /\ EntriesTold /\ EntriesSingle
  BY DEF Certain, TypeOK
<1>2. /\ LedgerTypeOK'
      /\ \A e \in ActiveEntries : e \in ActiveEntries' /\ ledger'[e] = ledger[e]
      /\ \A n \in DOMAIN es : \E e \in ActiveEntries' : ledger'[e] = es[n]
  BY <1>1, AppendIs DEF ActiveEntries
<1>3. ASSUME NEW e \in ActiveEntries PROVE Tells(ledger[e])'
  <2>1. PICK y : y = ledger[e]
    OBVIOUS
  <2>2. Tells(y)
    BY <1>1, <2>1 DEF EntriesTold, Tells
  <2>3. Tells(y)'
    BY <2>2, StillTold
  <2> QED BY <1>2, <2>1, <2>3
<1>4. \A e \in ActiveEntries, n \in DOMAIN es : ~SameSubject(es[n], ledger[e])
  BY DEF SameSubject
<1>5. EntriesTold' /\ EntriesSingle'
  BY <1>1, <1>3, <1>4, EntriesAdded
<1>6. \A ref : Entered(ref) => Entered(ref)'
  BY <1>2 DEF Entered
<1>7. \A n \in DOMAIN es : Entered(es[n].ref)'
  BY <1>2 DEF Entered
<1> QED BY <1>2, <1>5, <1>6, <1>7

LEMMA CommitIssueIs ==
    ASSUME Certain, NEW r \in Attempts, CommitIssue(r)
    PROVE  /\ attempt[r].run \in DOMAIN runs /\ attempt[r].pc = "posting"
           /\ \E s, x :
                 /\ Pays(s, x, attempt[r].run, attempt[r].total, attempt[r].vault)
                 /\ <<x>> \in Seq(Entries) /\ ledger' = ledger \o <<x>>
<1>1. PICK b : b = attempt[r]
  OBVIOUS
<1>2. PICK s : s = Len(salaries) + 1
  OBVIOUS
<1>3. PICK x : x = PaymentOf(s, b.total, b.vault, b.day)
  OBVIOUS
<1>4. b \in Busy \cup {Free} /\ b.pc = "posting" /\ Knows(b)
  BY <1>1 DEF CommitIssue, Certain, TypeOK
<1>5. /\ b.run \in DOMAIN runs /\ b.run \in Nat /\ b.total \in Nat
      /\ b.vault \in Vaults /\ b.day \in Days
  BY <1>4, Fields DEF Knows, OnRun
<1>6. runs[b.run].number \in Numbers
  BY <1>5, RunTyped DEF Certain
<1>7. /\ salaries' = Append(salaries, [number |-> runs[b.run].number, run |-> b.run,
                                      total |-> b.total, status |-> "active"])
      /\ ledger' = Append(ledger, x) /\ PaidBy(b.run) = {}
  BY <1>1, <1>2, <1>3 DEF CommitIssue, Post, Billable
<1>8. Pays(s, x, b.run, b.total, b.vault)
  BY <1>2, <1>3, <1>5, <1>6, <1>7, PaymentIs
<1>9. ledger' = ledger \o <<x>> /\ <<x>> \in Seq(Entries)
  BY <1>7, <1>8 DEF Certain, TypeOK, LedgerTypeOK, Pays
<1> QED BY <1>1, <1>4, <1>5, <1>8, <1>9

LEMMA CommitIssueCertain ==
    ASSUME Certain, NEW r \in Attempts, CommitIssue(r), UNCHANGED settings, apart' \in BOOLEAN
    PROVE  Certain'
<1>1. PICK i, total, v : i = attempt[r].run /\ total = attempt[r].total /\ v = attempt[r].vault
  OBVIOUS
<1>2. /\ i \in DOMAIN runs
      /\ \E s, x : Pays(s, x, i, total, v) /\ <<x>> \in Seq(Entries) /\ ledger' = ledger \o <<x>>
  BY <1>1, CommitIssueIs
<1>3. PICK s, x : Pays(s, x, i, total, v) /\ <<x>> \in Seq(Entries) /\ ledger' = ledger \o <<x>>
  BY <1>2
<1>4. PICK es : es = <<x>>
  OBVIOUS
<1>5. UNCHANGED <<runs, advances, settlements, settings>> /\ Goes(r, Free)
  BY DEF CommitIssue, Ends, Goes
<1>6. RowsKept
  BY <1>3, <1>5 DEF RowsKept, Pays
<1>7. /\ \A t \in Attempts : Knows(attempt[t])'
      /\ attempt' \in [Attempts -> Busy \cup {Free}]
      /\ PaidOnce'
      /\ Tells(x)'
      /\ x.ref.type = "salary"
      /\ \A e \in ActiveEntries : ledger[e].ref # x.ref
  BY <1>2, <1>3, <1>5, <1>6, PaymentKeeps
<1>8. DOMAIN es = {1} /\ es[1] = x
  BY <1>4
<1>9. /\ es \in Seq(Entries) /\ ledger' = ledger \o es
      /\ \A n \in DOMAIN es : es[n].status = "active" /\ Tells(es[n])'
  BY <1>3, <1>4, <1>7, <1>8 DEF Pays
<1>10. /\ \A e \in ActiveEntries, n \in DOMAIN es : ~SameSubject(ledger[e], es[n])
       /\ \A m, n \in DOMAIN es : SameSubject(es[m], es[n]) => m = n
  BY <1>7, <1>8 DEF SameSubject
<1>11. RowsStand
  BY <1>3, <1>5 DEF RowsStand, Pays
<1>12. /\ LedgerTypeOK' /\ EntriesTold' /\ EntriesSingle'
       /\ \A ref : Entered(ref) => Entered(ref)'
       /\ \A n \in DOMAIN es : Entered(es[n].ref)'
  BY <1>9, <1>10, <1>11, Posted
<1>13. EntriesStand'
  <2>1. Entered(Ref("salary", s))'
    <3>1. 1 \in DOMAIN es /\ es[1].ref = Ref("salary", s)
      BY <1>3, <1>8 DEF Pays
    <3>2. PICK ref : ref = es[1].ref
      OBVIOUS
    <3>3. Entered(ref)'
      BY <1>12, <3>1, <3>2
    <3> QED BY <3>1, <3>2, <3>3
  <2> QED BY <1>3, <1>5, <1>12, <2>1 DEF Certain, EntriesStand, Pays
<1>14. TypeOK'
  BY <1>3, <1>5, <1>7, <1>12 DEF Certain, TypeOK, Salaries, Pays
<1>15. SettledWithinAdvance' /\ RunsNumbered' /\ SettlementsKnown'
  BY <1>5 DEF Certain, SettledWithinAdvance, RunsNumbered, SettlementsKnown, Standing
<1> QED BY <1>7, <1>12, <1>13, <1>14, <1>15 DEF Certain

-----------------------------------------------------------------------------
(* Approving.                                                              *)

\* The entries of an accrual of a run that has none.
LEMMA AccruedKeeps ==
    ASSUME Certain, RowsStand, NEW i, NEW content, NEW es, Accrues(i, content, es),
           i \in DOMAIN runs => runs[i].status = "draft",
           i \in DOMAIN runs' /\ runs'[i].status # "draft"
    PROVE  /\ \A n \in DOMAIN es : es[n].status = "active" /\ Tells(es[n])'
           /\ \A e \in ActiveEntries, n \in DOMAIN es : ~SameSubject(ledger[e], es[n])
           /\ \A m, n \in DOMAIN es : SameSubject(es[m], es[n]) => m = n
<1>1. ASSUME NEW n \in DOMAIN es
      PROVE  /\ es[n].status = "active" /\ es[n].ref = Ref("payroll_accrual", i)
             /\ es[n].debit = SalaryExpense /\ es[n].credit \in {Payable, AdvanceAsset}
             /\ es[n].ref.type = "payroll_accrual" /\ es[n].ref.id = i
  BY DEF Accrues, AccrualEntryOf, Ref
<1>2. \A n \in DOMAIN es : Tells(es[n])'
  BY <1>1 DEF Tells, AccrualEntry
<1>3. \A e \in ActiveEntries, n \in DOMAIN es : ~SameSubject(ledger[e], es[n])
  <2>1. SUFFICES ASSUME NEW e \in ActiveEntries, NEW n \in DOMAIN es,
                        SameSubject(ledger[e], es[n])
                 PROVE  FALSE
    OBVIOUS
  <2>2. ledger[e].ref.type = "payroll_accrual" /\ ledger[e].ref.id = i
    BY <1>1, <2>1 DEF SameSubject
  <2>3. AccrualEntry(ledger[e])
    BY <2>2, ToldIds
  <2> QED BY <2>2, <2>3 DEF AccrualEntry
<1>4. \A m, n \in DOMAIN es : SameSubject(es[m], es[n]) => m = n
  BY <1>1 DEF SameSubject, Accrues
<1> QED BY <1>1, <1>2, <1>3, <1>4

\* What settling makes of the advances.
LEMMA SettleIs ==
    ASSUME TypeOK, SettledWithinAdvance, NEW table \in AdvanceTables,
           NEW content \in Payments, advances' = Settle(table, content.takes),
           \A a \in Taken(content) : table[a].settled + content.takes[a] <= AdvanceTotals[a]
    PROVE  /\ advances' \in AdvanceTables /\ SettledWithinAdvance'
           /\ \A a \in Advances :
                 /\ advances'[a].status = advances[a].status
                 /\ a \in Taken(content) =>
                       advances'[a].settled = table[a].settled + content.takes[a]
                 /\ a \notin Taken(content) => advances'[a] = advances[a]
<1>1. advances \in AdvanceTables
  BY DEF TypeOK
<1>2. ASSUME NEW a \in Advances
      PROVE  /\ advances[a] \in [settled : Nat, status : {"active", "cancelled"}]
             /\ table[a].settled \in Nat /\ content.takes[a] \in Nat
             /\ AdvanceTotals[a] \in Nat
  BY <1>1, AdvanceTyped, ContentTyped DEF AdvanceTables
<1>3. ASSUME NEW a \in Advances
      PROVE  advances'[a] = IF content.takes[a] > 0
                            THEN [advances[a] EXCEPT !.settled = table[a].settled + content.takes[a]]
                            ELSE advances[a]
  BY DEF Settle
<1>4. ASSUME NEW a \in Advances
      PROVE  /\ advances'[a] \in [settled : Nat, status : {"active", "cancelled"}]
             /\ advances'[a].status = advances[a].status
             /\ a \in Taken(content) =>
                   advances'[a].settled = table[a].settled + content.takes[a]
             /\ a \notin Taken(content) => advances'[a] = advances[a]
  <2>1. PICK n, m, x : n = table[a].settled /\ m = content.takes[a] /\ x = advances[a]
    OBVIOUS
  <2>2. /\ n \in Nat /\ m \in Nat /\ n + m \in Nat
        /\ x \in [settled : Nat, status : {"active", "cancelled"}]
        /\ advances'[a] = IF m > 0 THEN [x EXCEPT !.settled = n + m] ELSE x
        /\ a \in Taken(content) <=> m > 0
    BY <1>2, <1>3, <2>1 DEF Taken
  <2>3. CASE m > 0
    BY <2>1, <2>2, <2>3
  <2>4. CASE ~(m > 0)
    BY <2>1, <2>2, <2>4
  <2> QED BY <2>3, <2>4
<1>5. advances' \in AdvanceTables
  BY <1>4 DEF AdvanceTables, Settle
<1>6. SettledWithinAdvance'
  BY <1>4 DEF SettledWithinAdvance
<1> QED BY <1>4, <1>5, <1>6

\* The settlements of an approval.
LEMMA SettlementsOf ==
    ASSUME NEW i \in Nat, NEW number \in Numbers, NEW content \in Payments, NEW new,
           new = {[run |-> i, number |-> number, advance |-> a, amount |-> content.takes[a],
                   status |-> "active", deduction |-> TRUE] : a \in Taken(content)}
    PROVE  /\ IsFiniteSet(new) /\ new \subseteq Settlements
           /\ \A row \in new :
                 /\ row.run = i /\ row.number = number /\ row.advance \in Taken(content)
                 /\ row.amount = content.takes[row.advance]
                 /\ row.status = "active" /\ row.deduction
           /\ \A a \in Taken(content) : \E row \in new : row.advance = a
           /\ \A p, q \in new : p.advance = q.advance => p = q
<1> DEFINE f == [a \in Taken(content) |->
                   [run |-> i, number |-> number, advance |-> a, amount |-> content.takes[a],
                    status |-> "active", deduction |-> TRUE]]
<1>1. new = {f[a] : a \in Taken(content)}
  OBVIOUS
<1>2. IsFiniteSet(Taken(content))
  BY AdvancesFinite, FS_Subset DEF Taken
<1>3. IsFiniteSet(new)
  <2> HIDE DEF f
  <2> QED BY <1>1, <1>2, ImageFinite
<1>4. new \subseteq Settlements
  <2>1. ASSUME NEW row \in new PROVE row \in Settlements
    <3>1. PICK a \in Taken(content) :
            row = [run |-> i, number |-> number, advance |-> a, amount |-> content.takes[a],
                   status |-> "active", deduction |-> TRUE]
      OBVIOUS
    <3>2. a \in DOMAIN AdvanceTotals /\ content.takes[a] \in Nat
      BY ContentTyped DEF Taken, Advances
    <3> QED BY <3>1, <3>2 DEF Settlements
  <2> QED BY <2>1
<1>5. ASSUME NEW row \in new
      PROVE  /\ row.run = i /\ row.number = number /\ row.advance \in Taken(content)
             /\ row.amount = content.takes[row.advance]
             /\ row.status = "active" /\ row.deduction
  OBVIOUS
<1>6. ASSUME NEW a \in Taken(content) PROVE \E row \in new : row.advance = a
  <2>1. PICK row : row = [run |-> i, number |-> number, advance |-> a,
                          amount |-> content.takes[a], status |-> "active", deduction |-> TRUE]
    OBVIOUS
  <2>2. row \in new /\ row.advance = a
    BY <2>1
  <2> QED BY <2>2
<1>7. ASSUME NEW x \in new, NEW y \in new, x.advance = y.advance PROVE x = y
  <2>1. PICK a \in Taken(content) :
          x = [run |-> i, number |-> number, advance |-> a, amount |-> content.takes[a],
               status |-> "active", deduction |-> TRUE]
    OBVIOUS
  <2>2. PICK c \in Taken(content) :
          y = [run |-> i, number |-> number, advance |-> c, amount |-> content.takes[c],
               status |-> "active", deduction |-> TRUE]
    OBVIOUS
  <2>3. a = c
    BY <1>7, <2>1, <2>2
  <2> QED BY <2>1, <2>2, <2>3
<1> QED BY <1>3, <1>4, <1>5, <1>6, <1>7

\* What an approval does to run i, with the content it read.
Approves(i, content, table) ==
    /\ i \in Standing /\ runs[i].status = "draft"
    /\ runs' \in Seq(Runs) /\ RunsNumbered' /\ DOMAIN runs' = DOMAIN runs
    /\ \A j \in DOMAIN runs : j # i => runs'[j] = runs[j]
    /\ runs'[i].number = runs[i].number /\ runs'[i].content = runs[i].content
    /\ runs'[i].status = "completed"
    /\ advances' \in AdvanceTables /\ SettledWithinAdvance'
    /\ \A a \in Advances :
          /\ advances'[a].status = advances[a].status
          /\ a \in Taken(content) => advances'[a].settled = table[a].settled + content.takes[a]
          /\ a \notin Taken(content) => advances'[a] = advances[a]
    /\ \E new :
          /\ settlements' = settlements \cup new
          /\ IsFiniteSet(new) /\ new \subseteq Settlements
          /\ \A row \in new :
                /\ row.run = i /\ row.number = runs[i].number /\ row.advance \in Taken(content)
                /\ row.amount = content.takes[row.advance]
                /\ row.status = "active" /\ row.deduction
          /\ \A a \in Taken(content) : \E row \in new : row.advance = a
          /\ \A p, q \in new : p.advance = q.advance => p = q
    /\ \E es : Accrues(i, content, es) /\ ledger' = ledger \o es
    /\ salaries' = salaries

LEMMA CommitApprovalIs ==
    ASSUME Certain, NEW r \in Attempts, CommitApproval(r)
    PROVE  /\ attempt[r].pc = "accruing" /\ attempt[r].content \in Payments
           /\ Approves(attempt[r].run, attempt[r].content, attempt[r].table)
<1>1. PICK b : b = attempt[r]
  OBVIOUS
<1>2. b \in Busy \cup {Free} /\ b.pc = "accruing" /\ Knows(b)
  BY <1>1 DEF Certain, TypeOK, CommitApproval
<1>3. /\ b.run \in Nat /\ b.run \in DOMAIN runs /\ b.month \in Months /\ b.content \in Payments
      /\ b.table \in AdvanceTables
      /\ \A a \in Taken(b.content) : b.table[a].settled + b.content.takes[a] <= AdvanceTotals[a]
  BY <1>2, Fields DEF Knows, OnRun
<1>4. PICK i, content, table : i = b.run /\ content = b.content /\ table = b.table
  OBVIOUS
<1>5. /\ i \in Standing /\ i \in DOMAIN runs /\ runs[i].status = "draft"
      /\ runs' = [runs EXCEPT ![i].status = "completed"]
      /\ advances' = Settle(table, content.takes)
      /\ settlements' = settlements \cup
              {[run |-> i, number |-> runs[i].number, advance |-> a,
                amount |-> content.takes[a], status |-> "active", deduction |-> TRUE] :
                  a \in Taken(content)}
      /\ ledger' = ledger \o AccrualOf(i, b.month, content)
      /\ salaries' = salaries
  BY <1>1, <1>3, <1>4 DEF CommitApproval, Claimed
<1>6. /\ runs' \in Seq(Runs) /\ RunsNumbered' /\ DOMAIN runs' = DOMAIN runs
      /\ \A j \in DOMAIN runs : j # i => runs'[j] = runs[j]
      /\ runs'[i].number = runs[i].number /\ runs'[i].content = runs[i].content
      /\ runs'[i].status = "completed"
  BY <1>5, StatusIs
<1>7. /\ advances' \in AdvanceTables /\ SettledWithinAdvance'
      /\ \A a \in Advances :
            /\ advances'[a].status = advances[a].status
            /\ a \in Taken(content) => advances'[a].settled = table[a].settled + content.takes[a]
            /\ a \notin Taken(content) => advances'[a] = advances[a]
  BY <1>3, <1>4, <1>5, SettleIs DEF Certain
<1>8. PICK new :
        new = {[run |-> i, number |-> runs[i].number, advance |-> a,
                amount |-> content.takes[a], status |-> "active", deduction |-> TRUE] :
                  a \in Taken(content)}
  OBVIOUS
<1>9. /\ IsFiniteSet(new) /\ new \subseteq Settlements
      /\ \A row \in new :
            /\ row.run = i /\ row.number = runs[i].number /\ row.advance \in Taken(content)
            /\ row.amount = content.takes[row.advance]
            /\ row.status = "active" /\ row.deduction
      /\ \A a \in Taken(content) : \E row \in new : row.advance = a
      /\ \A p, q \in new : p.advance = q.advance => p = q
  <2>1. PICK number : number = runs[i].number
    OBVIOUS
  <2>2. number \in Numbers /\ i \in Nat /\ content \in Payments
    BY <1>3, <1>4, <2>1, RunTyped DEF Certain
  <2>3. new = {[run |-> i, number |-> number, advance |-> a, amount |-> content.takes[a],
                status |-> "active", deduction |-> TRUE] : a \in Taken(content)}
    BY <1>8, <2>1
  <2>4. /\ IsFiniteSet(new) /\ new \subseteq Settlements
        /\ \A row \in new :
              /\ row.run = i /\ row.number = number /\ row.advance \in Taken(content)
              /\ row.amount = content.takes[row.advance]
              /\ row.status = "active" /\ row.deduction
        /\ \A a \in Taken(content) : \E row \in new : row.advance = a
        /\ \A p, q \in new : p.advance = q.advance => p = q
    BY <2>2, <2>3, SettlementsOf
  <2> QED BY <2>1, <2>4
<1>10. settlements' = settlements \cup new
  BY <1>5, <1>8
<1>11. PICK es : es = AccrualOf(i, b.month, content)
  OBVIOUS
<1>12. Accrues(i, content, es) /\ ledger' = ledger \o es
  BY <1>3, <1>4, <1>5, <1>11, AccrualOfIs
<1>13. Approves(i, content, table)
  BY <1>5, <1>6, <1>7, <1>9, <1>10, <1>12 DEF Approves
<1> QED BY <1>1, <1>2, <1>3, <1>4, <1>13

LEMMA CommitApprovalCertain ==
    ASSUME Certain, NEW r \in Attempts, CommitApproval(r), UNCHANGED settings, apart' \in BOOLEAN
    PROVE  Certain'
<1>1. PICK i, content, table :
        i = attempt[r].run /\ content = attempt[r].content /\ table = attempt[r].table
  OBVIOUS
<1>2. Approves(i, content, table)
  BY <1>1, CommitApprovalIs
<1>3. PICK new :
        /\ settlements' = settlements \cup new
        /\ IsFiniteSet(new) /\ new \subseteq Settlements
        /\ \A row \in new :
              row.run = i /\ row.number = runs[i].number
  BY <1>2 DEF Approves
<1>4. PICK es : Accrues(i, content, es) /\ ledger' = ledger \o es
  BY <1>2 DEF Approves
<1>5. Goes(r, Free) /\ UNCHANGED <<salaries, settings>>
  BY DEF CommitApproval, Ends, Goes
<1>6. i \in DOMAIN runs
  BY <1>2 DEF Approves, Standing
<1>7. RowsStand /\ RowsKept
  BY <1>2, <1>5, <1>6 DEF RowsStand, RowsKept, Approves
<1>8. /\ \A n \in DOMAIN es : es[n].status = "active" /\ Tells(es[n])'
      /\ \A e \in ActiveEntries, n \in DOMAIN es : ~SameSubject(ledger[e], es[n])
      /\ \A m, n \in DOMAIN es : SameSubject(es[m], es[n]) => m = n
  <2>1. runs[i].status = "draft" /\ i \in DOMAIN runs' /\ runs'[i].status # "draft"
    BY <1>2, <1>6 DEF Approves
  <2> QED BY <1>4, <1>7, <2>1, AccruedKeeps
<1>9. es \in Seq(Entries)
  BY <1>4 DEF Accrues
<1>10. /\ LedgerTypeOK' /\ EntriesTold' /\ EntriesSingle'
       /\ \A ref : Entered(ref) => Entered(ref)'
  BY <1>4, <1>7, <1>8, <1>9, Posted
<1>11. EntriesStand'
  BY <1>5, <1>7, <1>10 DEF Certain, EntriesStand, RowsStand
<1>12. SettlementsKnown'
  <2>1. IsFiniteSet(settlements')
    BY <1>3, FS_Union DEF Certain, SettlementsKnown
  <2>2. \A row \in settlements' : row.run \in DOMAIN runs /\ row.number = runs[row.run].number
    BY <1>3, <1>6 DEF Certain, SettlementsKnown
  <2>3. \A j \in DOMAIN runs : runs'[j].number = runs[j].number /\ j \in DOMAIN runs'
    BY <1>2 DEF Approves
  <2> QED BY <2>1, <2>2, <2>3 DEF SettlementsKnown
<1>13. Free \in Busy \cup {Free} /\ Knows(Free)
  BY DEF Knows, Free, OnRun
<1>14. \A s \in Attempts : Knows(attempt[s])'
  BY <1>5, <1>7, <1>13, KnowsAll DEF Certain
<1>15. TypeOK'
  BY <1>2, <1>3, <1>5, <1>10, <1>13, RequestsTyped DEF Certain, TypeOK, Approves
<1>16. SettledWithinAdvance' /\ RunsNumbered' /\ PaidOnce'
  <2>1. SettledWithinAdvance' /\ RunsNumbered'
    BY <1>2 DEF Approves
  <2>2. PaidOnce'
    BY <1>5, <1>7 DEF Certain, PaidOnce, RowsKept
  <2> QED BY <2>1, <2>2
<1> QED BY <1>10, <1>11, <1>12, <1>14, <1>15, <1>16 DEF Certain

-----------------------------------------------------------------------------
(* Supplementary payments.                                                 *)

\* What a supplementary payment adds: run i, with its accrual and its payment.
Adds(i, content, v) ==
    /\ i = Len(runs) + 1 /\ i \notin DOMAIN runs /\ DOMAIN runs' = DOMAIN runs \cup {i}
    /\ runs' \in Seq(Runs) /\ RunsNumbered'
    /\ \A j \in DOMAIN runs : runs'[j] = runs[j]
    /\ runs'[i].content = content /\ runs'[i].status = "completed"
    /\ \E s, x, es :
          /\ Pays(s, x, i, content.net, v) /\ Accrues(i, content, es)
          /\ Append(es, x) \in Seq(Entries) /\ ledger' = ledger \o Append(es, x)
    /\ UNCHANGED <<advances, settlements>>

LEMMA CommitSupplementaryIs ==
    ASSUME Certain, NEW r \in Attempts, CommitSupplementary(r)
    PROVE  /\ attempt[r].content \in Payments /\ Taken(attempt[r].content) = {}
           /\ Adds(Len(runs) + 1, attempt[r].content, attempt[r].vault)
<1>1. PICK b : b = attempt[r]
  OBVIOUS
<1>2. b \in Busy \cup {Free} /\ b.pc = "adding" /\ Knows(b)
  BY <1>1 DEF Certain, TypeOK, CommitSupplementary
<1>3. /\ b.number \in Numbers /\ b.month \in Months /\ b.content \in Payments
      /\ b.vault \in Vaults /\ b.day \in Days /\ Taken(b.content) = {} /\ b.content.net \in Nat
  BY <1>2, Fields, ContentTyped DEF Knows
<1>4. PICK i, s, x, es, row :
        /\ i = Len(runs) + 1 /\ s = Len(salaries) + 1
        /\ x = PaymentOf(s, b.content.net, b.vault, b.day)
        /\ es = AccrualOf(i, b.month, b.content)
        /\ row = [number |-> b.number, month |-> b.month, content |-> b.content,
                  status |-> "completed"]
  OBVIOUS
<1>5. /\ NumberFree(b.number) /\ PaidBy(i) = {}
      /\ runs' = Append(runs, row)
      /\ salaries' = Append(salaries, [number |-> b.number, run |-> i,
                                       total |-> b.content.net, status |-> "active"])
      /\ ledger' = ledger \o es \o <<x>>
      /\ UNCHANGED <<advances, settlements>>
  BY <1>1, <1>4 DEF CommitSupplementary, Billable
<1>6. row \in Runs /\ row.content = b.content /\ row.status = "completed" /\ row.number = b.number
  BY <1>3, <1>4 DEF Runs
<1>7. /\ runs' \in Seq(Runs) /\ i \in Nat /\ i \notin DOMAIN runs
      /\ DOMAIN runs' = DOMAIN runs \cup {i} /\ runs'[i] = row
      /\ \A j \in DOMAIN runs : runs'[j] = runs[j]
  BY <1>4, <1>5, <1>6, Appended DEF Certain, TypeOK
<1>8. RunsNumbered'
  BY <1>5, <1>6, <1>7 DEF Certain, RunsNumbered, Standing, NumberFree
<1>9. Pays(s, x, i, b.content.net, b.vault)
  BY <1>3, <1>4, <1>5, <1>7, PaymentIs
<1>10. Accrues(i, b.content, es)
  BY <1>3, <1>4, <1>7, AccrualOfIs
<1>11. /\ es \in Seq(Entries) /\ x \in Entries /\ <<x>> \in Seq(Entries)
       /\ ledger \in Seq(Entries) /\ Append(es, x) \in Seq(Entries)
  BY <1>9, <1>10 DEF Pays, Accrues, Certain, TypeOK, LedgerTypeOK
<1>12. Append(es, x) = es \o <<x>>
  BY <1>11
<1>13. ledger' = ledger \o Append(es, x)
  BY <1>5, <1>11, <1>12, ConcatAssociative
<1>14. Adds(i, b.content, b.vault)
  BY <1>4, <1>5, <1>6, <1>7, <1>8, <1>9, <1>10, <1>11, <1>13 DEF Adds
<1> QED BY <1>1, <1>3, <1>4, <1>14

LEMMA CommitSupplementaryCertain ==
    ASSUME Certain, NEW r \in Attempts, CommitSupplementary(r), UNCHANGED settings,
           apart' \in BOOLEAN
    PROVE  Certain'
<1>1. PICK i, content, v :
        i = Len(runs) + 1 /\ content = attempt[r].content /\ v = attempt[r].vault
  OBVIOUS
<1>2. Adds(i, content, v)
  BY <1>1, CommitSupplementaryIs
<1>3. PICK s, x, es :
        /\ Pays(s, x, i, content.net, v) /\ Accrues(i, content, es)
        /\ Append(es, x) \in Seq(Entries) /\ ledger' = ledger \o Append(es, x)
  BY <1>2 DEF Adds
<1>4. UNCHANGED <<advances, settlements, settings>> /\ Goes(r, Free)
  BY DEF CommitSupplementary, Ends, Goes
<1>5. /\ i \notin DOMAIN runs /\ DOMAIN runs' = DOMAIN runs \cup {i}
      /\ \A j \in DOMAIN runs : runs'[j] = runs[j]
      /\ runs'[i].status = "completed"
  BY <1>2 DEF Adds
<1>6. RowsKept /\ RowsStand
  BY <1>3, <1>4, <1>5 DEF RowsKept, RowsStand, Pays
<1>7. /\ \A t \in Attempts : Knows(attempt[t])'
      /\ attempt' \in [Attempts -> Busy \cup {Free}]
      /\ PaidOnce'
      /\ Tells(x)'
      /\ x.ref.type = "salary"
      /\ \A e \in ActiveEntries : ledger[e].ref # x.ref
  BY <1>3, <1>4, <1>5, <1>6, PaymentKeeps
<1>8. /\ \A n \in DOMAIN es : es[n].status = "active" /\ Tells(es[n])'
      /\ \A e \in ActiveEntries, n \in DOMAIN es : ~SameSubject(ledger[e], es[n])
      /\ \A m, n \in DOMAIN es : SameSubject(es[m], es[n]) => m = n
  <2>1. i \in DOMAIN runs' /\ runs'[i].status # "draft"
    BY <1>5
  <2> QED BY <1>3, <1>5, <1>6, <2>1, AccruedKeeps
<1>9. PICK cs : cs = Append(es, x)
  OBVIOUS
<1>10. /\ es \in Seq(Entries) /\ x \in Entries /\ x.status = "active"
       /\ cs \in Seq(Entries) /\ ledger' = ledger \o cs
  BY <1>3, <1>9 DEF Accrues, Pays
<1>11. /\ DOMAIN cs = DOMAIN es \cup {Len(es) + 1} /\ cs[Len(es) + 1] = x
       /\ \A n \in DOMAIN es : cs[n] = es[n]
  BY <1>9, <1>10, Appended
<1>12. \A n \in DOMAIN es : es[n].ref.type = "payroll_accrual"
  BY <1>3 DEF Accrues, AccrualEntryOf, Ref
<1>13. /\ \A n \in DOMAIN cs : cs[n].status = "active" /\ Tells(cs[n])'
       /\ \A e \in ActiveEntries, n \in DOMAIN cs : ~SameSubject(ledger[e], cs[n])
       /\ \A m, n \in DOMAIN cs : SameSubject(cs[m], cs[n]) => m = n
  <2>1. ASSUME NEW n \in DOMAIN cs PROVE cs[n].status = "active" /\ Tells(cs[n])'
    <3>1. CASE n \in DOMAIN es
      <4>1. PICK y : y = es[n]
        OBVIOUS
      <4>2. cs[n] = y /\ Tells(y)' /\ y.status = "active"
        BY <1>8, <1>11, <3>1, <4>1
      <4> QED BY <4>2
    <3>2. CASE n \notin DOMAIN es
      <4>1. cs[n] = x
        BY <1>11, <3>2
      <4> QED BY <1>7, <1>10, <4>1
    <3> QED BY <3>1, <3>2
  <2>2. \A e \in ActiveEntries, n \in DOMAIN cs : ~SameSubject(ledger[e], cs[n])
    BY <1>7, <1>8, <1>11 DEF SameSubject
  <2>3. \A m, n \in DOMAIN cs : SameSubject(cs[m], cs[n]) => m = n
    BY <1>7, <1>8, <1>11, <1>12 DEF SameSubject
  <2> QED BY <2>1, <2>2, <2>3
<1>14. /\ LedgerTypeOK' /\ EntriesTold' /\ EntriesSingle'
       /\ \A ref : Entered(ref) => Entered(ref)'
       /\ \A n \in DOMAIN cs : Entered(cs[n].ref)'
  BY <1>6, <1>10, <1>13, Posted
<1>15. EntriesStand'
  <2>1. Entered(Ref("salary", s))'
    <3>1. PICK n \in DOMAIN cs : cs[n] = x
      BY <1>11
    <3>2. PICK ref : ref = x.ref
      OBVIOUS
    <3>3. Entered(ref)' /\ ref = Ref("salary", s)
      BY <1>3, <1>14, <3>1, <3>2 DEF Pays
    <3> QED BY <3>3
  <2> QED BY <1>3, <1>4, <1>14, <2>1 DEF Certain, EntriesStand, Pays
<1>16. TypeOK'
  <2>1. runs' \in Seq(Runs)
    BY <1>2 DEF Adds
  <2> QED BY <1>3, <1>4, <1>7, <1>14, <2>1 DEF Certain, TypeOK, Salaries, Pays
<1>17. SettledWithinAdvance' /\ RunsNumbered' /\ SettlementsKnown'
  <2>1. RunsNumbered'
    BY <1>2 DEF Adds
  <2> QED BY <1>4, <1>5, <2>1 DEF Certain, SettledWithinAdvance, SettlementsKnown
<1> QED BY <1>7, <1>14, <1>15, <1>16, <1>17 DEF Certain

-----------------------------------------------------------------------------
(* Cancelling.                                                             *)

\* The entries about other things stay.
LEMMA StillEntered ==
    ASSUME LedgerTypeOK, NEW ref, CancelEntries(ref)
    PROVE  \A other : other # ref /\ Entered(other) => Entered(other)'
<1>1. /\ ActiveEntries' = ActiveEntries \ EntriesOf(ref)
      /\ \A e \in ActiveEntries' : ledger'[e] = ledger[e]
  BY CancelIs
<1>2. SUFFICES ASSUME NEW other, other # ref, Entered(other) PROVE Entered(other)'
  OBVIOUS
<1>3. PICK e \in ActiveEntries : ledger[e].ref = other
  BY <1>2 DEF Entered
<1>4. e \in ActiveEntries' /\ ledger'[e] = ledger[e]
  BY <1>1, <1>2, <1>3 DEF EntriesOf
<1> QED BY <1>3, <1>4 DEF Entered

LEMMA CancelledSalaryIs ==
    ASSUME Certain, NEW s \in DOMAIN salaries, CancelledSalary(s)
    PROVE  /\ salaries' \in Seq(Salaries) /\ DOMAIN salaries' = DOMAIN salaries
           /\ \A t \in DOMAIN salaries : t # s => salaries'[t] = salaries[t]
           /\ \A t \in DOMAIN salaries : salaries'[t].run = salaries[t].run
           /\ salaries'[s].total = salaries[s].total
           /\ salaries[s].status = "active" /\ salaries'[s].status = "cancelled"
           /\ CancelEntries(Ref("salary", s))
<1>1. PICK x : x = [salaries[s] EXCEPT !.status = "cancelled"]
  OBVIOUS
<1>2. salaries \in Seq(Salaries)
  BY DEF Certain, TypeOK, Salaries
<1>3. salaries[s] \in Salaries
  BY <1>2, ElementOf
<1>4. /\ x \in Salaries /\ x.run = salaries[s].run /\ x.total = salaries[s].total
      /\ x.status = "cancelled"
  BY <1>1, <1>3 DEF Salaries
<1>5. salaries' = [salaries EXCEPT ![s] = x]
  BY <1>1 DEF CancelledSalary
<1>6. /\ salaries' \in Seq(Salaries) /\ DOMAIN salaries' = DOMAIN salaries
      /\ \A t \in DOMAIN salaries : salaries'[t] = IF t = s THEN x ELSE salaries[t]
  BY <1>2, <1>4, <1>5, Rewritten
<1> QED BY <1>4, <1>6 DEF CancelledSalary

\* A salary is cancelled with its entry.
LEMMA CancelSalaryKeeps ==
    ASSUME Certain, NEW s \in DOMAIN salaries, CancelledSalary(s),
           UNCHANGED <<runs, advances, settlements, settings>>, apart' \in BOOLEAN,
           NEW r \in Attempts, NEW b \in Busy \cup {Free}, Knows(b), Goes(r, b)
    PROVE  Certain'
<1>1. /\ salaries' \in Seq(Salaries) /\ DOMAIN salaries' = DOMAIN salaries
      /\ \A t \in DOMAIN salaries : t # s => salaries'[t] = salaries[t]
      /\ \A t \in DOMAIN salaries : salaries'[t].run = salaries[t].run
      /\ salaries[s].status = "active" /\ salaries'[s].status = "cancelled"
      /\ CancelEntries(Ref("salary", s))
  BY CancelledSalaryIs
<1>2. PICK ref : ref = Ref("salary", s)
  OBVIOUS
<1>3. LedgerTypeOK /\ EntriesSingle /\ EntriesTold
  BY DEF Certain, TypeOK
<1>4. LedgerTypeOK'
  BY <1>1, <1>3, CancelIs
<1>5. RowsKept
  BY <1>1 DEF RowsKept
<1>6. \A t \in Attempts : Knows(attempt[t])'
  BY <1>5, KnowsAll DEF Certain
<1>7. TypeOK'
  BY <1>1, <1>4, RequestsTyped DEF Certain, TypeOK, Salaries
<1>8. ASSUME NEW e \in ActiveEntries, ledger[e].ref # ref PROVE Tells(ledger[e])'
  <2>1. PICK y : y = ledger[e]
    OBVIOUS
  <2>2. Tells(y) /\ y.ref # ref
    BY <1>3, <1>8, <2>1 DEF EntriesTold, Tells
  <2>3. y \in Entries
    BY <2>1, ToldIds
  <2>4. y.ref.type = "salary" => y.ref.id # s
    BY <1>2, <2>2, <2>3 DEF Entries, References, Ref
  <2>5. Tells(y)'
    BY <1>1, <2>2, <2>4 DEF Tells, SalaryEntry, AdvanceEntry, AccrualEntry
  <2>6. ActiveEntries \subseteq DOMAIN ledger /\ ledger'[e] = y
    BY <1>1, <1>2, <1>3, <1>8, <2>1, CancelIs DEF ActiveEntries, EntriesOf
  <2> QED BY <2>5, <2>6
<1>9. EntriesTold' /\ EntriesSingle'
  BY <1>1, <1>2, <1>3, <1>8, EntriesRemoved
<1>10. EntriesStand'
  <2>1. \A other : other # ref /\ Entered(other) => Entered(other)'
    BY <1>1, <1>2, <1>3, StillEntered
  <2>2. \A t \in DOMAIN salaries : t # s => Ref("salary", t) # ref
    BY <1>2 DEF Ref
  <2>3. \A a \in Advances : Ref("advance", a) # ref
    BY <1>2 DEF Ref
  <2> QED BY <1>1, <2>1, <2>2, <2>3 DEF Certain, EntriesStand
<1>11. SettledWithinAdvance' /\ RunsNumbered' /\ SettlementsKnown' /\ PaidOnce'
  <2>1. PaidOnce'
    BY <1>1 DEF Certain, PaidOnce
  <2> QED BY <2>1 DEF Certain, SettledWithinAdvance, RunsNumbered, SettlementsKnown, Standing
<1> QED BY <1>6, <1>7, <1>9, <1>10, <1>11 DEF Certain

LEMMA CancelOfRunCertain ==
    ASSUME Certain, NEW r \in Attempts, CancelOfRun(r), UNCHANGED settings, apart' \in BOOLEAN
    PROVE  Certain'
<1>1. PICK c : c = attempt[r]
  OBVIOUS
<1>2. c \in Busy \cup {Free} /\ c.pc = "cancelling" /\ Knows(c)
  BY <1>1 DEF Certain, TypeOK, CancelOfRun
<1>3. c.run \in Nat /\ c.run \in DOMAIN runs /\ c.salary \in DOMAIN salaries
  BY <1>2, Fields DEF OnRun, Knows
<1>4. PICK b : b = [pc |-> "finishing", run |-> c.run]
  OBVIOUS
<1>5. b \in Busy
  BY <1>3, <1>4 DEF Busy
<1>6. Knows(b)
  BY <1>3, <1>4 DEF Knows
<1>7. Goes(r, b) /\ CancelledSalary(c.salary) /\ UNCHANGED <<runs, advances, settlements>>
  BY <1>1, <1>4 DEF CancelOfRun
<1> QED BY <1>3, <1>5, <1>6, <1>7, CancelSalaryKeeps

LEMMA CancelSalaryCertain ==
    ASSUME Certain, NEW r \in Attempts, NEW s \in DOMAIN salaries, CancelSalary(r, s),
           UNCHANGED settings, apart' \in BOOLEAN
    PROVE  Certain'
<1>1. PICK b : b = attempt[r]
  OBVIOUS
<1>2. b \in Busy \cup {Free} /\ Knows(b)
  BY <1>1 DEF Certain, TypeOK
<1>3. Goes(r, b)
  BY <1>1 DEF CancelSalary, Goes, Certain, TypeOK
<1>4. CancelledSalary(s) /\ UNCHANGED <<runs, advances, settlements>>
  BY DEF CancelSalary
<1> QED BY <1>2, <1>3, <1>4, CancelSalaryKeeps

LEMMA WriteAdvanceIs ==
    ASSUME Certain, NEW r \in Attempts, WriteAdvance(r)
    PROVE  LET a == attempt[r].advance
           IN  /\ a \in Advances /\ attempt[r].pc = "waiving"
               /\ advances' \in AdvanceTables
               /\ \A c \in Advances : c # a => advances'[c] = advances[c]
               /\ advances'[a].settled = advances[a].settled
               /\ advances'[a].status = "cancelled"
               /\ CancelEntries(Ref("advance", a))
<1>1. PICK b : b = attempt[r]
  OBVIOUS
<1>2. b \in Busy \cup {Free} /\ b.pc = "waiving"
  BY <1>1 DEF Certain, TypeOK, WriteAdvance
<1>3. b.advance \in Advances
  BY <1>2, Fields
<1>4. PICK a : a = b.advance
  OBVIOUS
<1>5. advances' = [advances EXCEPT ![a].status = "cancelled"] /\ CancelEntries(Ref("advance", a))
  BY <1>1, <1>4 DEF WriteAdvance
<1>6. advances \in [Advances -> [settled : Nat, status : {"active", "cancelled"}]]
  BY DEF Certain, TypeOK, AdvanceTables
<1>7. /\ advances' \in AdvanceTables
      /\ \A c \in Advances : c # a => advances'[c] = advances[c]
      /\ advances'[a].settled = advances[a].settled
      /\ advances'[a].status = "cancelled"
  BY <1>3, <1>4, <1>5, <1>6 DEF AdvanceTables
<1> QED BY <1>1, <1>2, <1>3, <1>4, <1>5, <1>7

LEMMA WriteAdvanceCertain ==
    ASSUME Certain, NEW r \in Attempts, WriteAdvance(r), UNCHANGED settings, apart' \in BOOLEAN
    PROVE  Certain'
<1>1. PICK a : a = attempt[r].advance
  OBVIOUS
<1>2. /\ a \in Advances /\ advances' \in AdvanceTables
      /\ \A c \in Advances : c # a => advances'[c] = advances[c]
      /\ advances'[a].settled = advances[a].settled
      /\ advances'[a].status = "cancelled"
      /\ CancelEntries(Ref("advance", a))
  BY <1>1, WriteAdvanceIs
<1>3. UNCHANGED <<runs, settlements, salaries, settings>> /\ Goes(r, Free)
  BY DEF WriteAdvance, Ends, Goes
<1>4. PICK ref : ref = Ref("advance", a)
  OBVIOUS
<1>5. LedgerTypeOK /\ EntriesSingle /\ EntriesTold
  BY DEF Certain, TypeOK
<1>6. LedgerTypeOK'
  BY <1>2, <1>5, CancelIs
<1>7. RowsKept
  BY <1>3 DEF RowsKept
<1>8. Free \in Busy \cup {Free} /\ Knows(Free)
  BY DEF Knows, Free, OnRun
<1>9. \A t \in Attempts : Knows(attempt[t])'
  BY <1>3, <1>7, <1>8, KnowsAll DEF Certain
<1>10. TypeOK'
  BY <1>2, <1>3, <1>6, <1>8, RequestsTyped DEF Certain, TypeOK
<1>11. ASSUME NEW e \in ActiveEntries, ledger[e].ref # ref PROVE Tells(ledger[e])'
  <2>1. PICK y : y = ledger[e]
    OBVIOUS
  <2>2. Tells(y) /\ y.ref # ref
    BY <1>5, <1>11, <2>1 DEF EntriesTold, Tells
  <2>3. y \in Entries
    BY <2>1, ToldIds
  <2>4. y.ref.type = "advance" => y.ref.id # a
    BY <1>4, <2>2, <2>3 DEF Entries, References, Ref
  <2>5. Tells(y)'
    BY <1>2, <1>3, <2>2, <2>4 DEF Tells, SalaryEntry, AdvanceEntry, AccrualEntry
  <2>6. ledger'[e] = y
    BY <1>2, <1>4, <1>5, <1>11, <2>1, CancelIs DEF ActiveEntries, EntriesOf
  <2> QED BY <2>5, <2>6
<1>12. EntriesTold' /\ EntriesSingle'
  BY <1>2, <1>4, <1>5, <1>11, EntriesRemoved
<1>13. EntriesStand'
  <2>1. \A other : other # ref /\ Entered(other) => Entered(other)'
    BY <1>2, <1>4, <1>5, StillEntered
  <2>2. \A t \in Advances : t # a => Ref("advance", t) # ref
    BY <1>4 DEF Ref
  <2>3. \A s \in DOMAIN salaries : Ref("salary", s) # ref
    BY <1>4 DEF Ref
  <2> QED BY <1>2, <1>3, <2>1, <2>2, <2>3 DEF Certain, EntriesStand
<1>14. SettledWithinAdvance'
  BY <1>2 DEF Certain, SettledWithinAdvance
<1>15. RunsNumbered' /\ SettlementsKnown' /\ PaidOnce'
  BY <1>3 DEF Certain, RunsNumbered, SettlementsKnown, Standing, PaidOnce
<1> QED BY <1>9, <1>10, <1>12, <1>13, <1>14, <1>15 DEF Certain

LEMMA AbortCertain ==
    ASSUME Certain, NEW r \in Attempts, Abort(r), UNCHANGED settings, apart' \in BOOLEAN
    PROVE  Certain'
<1>1. Goes(r, Free) /\ UNCHANGED <<tables, settings>>
  BY DEF Abort, Ends, Goes
<1>2. Free \in Busy \cup {Free} /\ Knows(Free)
  BY DEF Knows, Free, OnRun
<1> QED BY <1>1, <1>2, ReadKeepsCertain

-----------------------------------------------------------------------------
(* Deleting.                                                               *)

\* A settlement after run i was deleted, giving back the deductions in rows.
Undone(row, i, rows) ==
    [row EXCEPT !.status = IF row.run = i THEN "reversed" ELSE row.status,
                !.deduction = row.deduction /\ row \notin rows]

LEMMA UndoneIs ==
    ASSUME NEW row \in Settlements, NEW i, NEW rows, NEW x, x = Undone(row, i, rows)
    PROVE  /\ x \in Settlements /\ x.run = row.run /\ x.number = row.number
           /\ x.advance = row.advance /\ x.amount = row.amount
           /\ x.status = IF row.run = i THEN "reversed" ELSE row.status
           /\ x.deduction = (row.deduction /\ row \notin rows)
<1>1. PICK status, deduction :
        /\ status = IF row.run = i THEN "reversed" ELSE row.status
        /\ deduction = (row.deduction /\ row \notin rows)
  OBVIOUS
<1>2. x = [row EXCEPT !.status = status, !.deduction = deduction]
  BY <1>1 DEF Undone
<1>3. status \in {"active", "reversed"}
  BY <1>1 DEF Settlements
<1>4. deduction \in BOOLEAN
  BY <1>1 DEF Settlements
<1>5. /\ x \in Settlements /\ x.run = row.run /\ x.number = row.number
      /\ x.advance = row.advance /\ x.amount = row.amount
      /\ x.status = status /\ x.deduction = deduction
  BY <1>2, <1>3, <1>4 DEF Settlements
<1>6. x.status = IF row.run = i THEN "reversed" ELSE row.status
  BY <1>1, <1>5
<1>7. x.deduction = (row.deduction /\ row \notin rows)
  BY <1>1, <1>5, Zenon
<1> QED BY <1>5, <1>6, <1>7

LEMMA UndoneAll ==
    ASSUME TypeOK, IsFiniteSet(settlements), NEW i, NEW rows,
           settlements' = {Undone(row, i, rows) : row \in settlements}
    PROVE  IsFiniteSet(settlements') /\ settlements' \subseteq Settlements
<1>1. PICK f, S : S = settlements /\ f = [row \in S |-> Undone(row, i, rows)]
  OBVIOUS
<1>2. IsFiniteSet(settlements')
  <2>1. IsFiniteSet({f[row] : row \in S})
    BY <1>1, ImageFinite
  <2>2. \A row \in S : f[row] = Undone(row, i, rows)
    BY <1>1
  <2>3. settlements' = {f[row] : row \in S}
    BY <1>1, <2>2
  <2> QED BY <2>1, <2>3
<1>3. settlements' \subseteq Settlements
  BY UndoneIs DEF TypeOK
<1> QED BY <1>2, <1>3

LEMMA GiveBackIs ==
    ASSUME TypeOK, SettledWithinAdvance, NEW table \in AdvanceTables,
           NEW rows, rows \subseteq Settlements, IsFiniteSet(rows),
           \A a \in Advances : table[a].settled <= AdvanceTotals[a],
           advances' = GiveBack(rows, table)
    PROVE  /\ advances' \in AdvanceTables /\ SettledWithinAdvance'
           /\ \A a \in Advances :
                 /\ advances'[a].status = advances[a].status
                 /\ (\A row \in rows : row.advance # a) => advances'[a] = advances[a]
                 /\ (\E row \in rows : row.advance = a) =>
                       advances'[a].settled = IF Given(rows, a) < table[a].settled
                                              THEN table[a].settled - Given(rows, a) ELSE 0
<1>1. ASSUME NEW a \in Advances
      PROVE  /\ advances'[a] \in [settled : Nat, status : {"active", "cancelled"}]
             /\ advances'[a].status = advances[a].status
             /\ advances'[a].settled <= AdvanceTotals[a]
             /\ (\A row \in rows : row.advance # a) => advances'[a] = advances[a]
             /\ (\E row \in rows : row.advance = a) =>
                   advances'[a].settled = IF Given(rows, a) < table[a].settled
                                          THEN table[a].settled - Given(rows, a) ELSE 0
  <2>1. PICK n, m, x, total :
          n = table[a].settled /\ m = Given(rows, a) /\ x = advances[a] /\ total = AdvanceTotals[a]
    OBVIOUS
  <2>2. /\ n \in Nat /\ m \in Nat /\ total \in Nat /\ n <= total
        /\ x \in [settled : Nat, status : {"active", "cancelled"}] /\ x.settled <= total
    <3>1. advances \in AdvanceTables /\ m \in Nat
      BY <2>1, GivenType DEF TypeOK
    <3> QED BY <2>1, <3>1, AdvanceTyped DEF AdvanceTables, SettledWithinAdvance
  <2>3. advances'[a] = IF \A row \in rows : row.advance # a THEN x
                       ELSE [x EXCEPT !.settled = IF m < n THEN n - m ELSE 0]
    BY <2>1 DEF GiveBack
  <2>4. CASE \A row \in rows : row.advance # a
    BY <2>1, <2>2, <2>3, <2>4
  <2>5. CASE ~(\A row \in rows : row.advance # a)
    <3>1. PICK k : k = IF m < n THEN n - m ELSE 0
      OBVIOUS
    <3>2. k \in Nat /\ k <= total
      BY <2>2, <3>1
    <3>3. advances'[a] = [x EXCEPT !.settled = k]
      BY <2>3, <2>5, <3>1
    <3> QED BY <2>1, <2>2, <2>5, <3>1, <3>2, <3>3
  <2> QED BY <2>4, <2>5
<1>2. advances' \in AdvanceTables
  BY <1>1 DEF AdvanceTables, GiveBack
<1> QED BY <1>1, <1>2 DEF SettledWithinAdvance

\* What finishing a delete does to run i, with what it read.
Deletes(i, rows, table) ==
    /\ i \in Standing
    /\ runs' \in Seq(Runs) /\ RunsNumbered' /\ DOMAIN runs' = DOMAIN runs
    /\ \A j \in DOMAIN runs : j # i => runs'[j] = runs[j]
    /\ runs'[i].number = runs[i].number /\ runs'[i].content = runs[i].content
    /\ runs'[i].status = "deleted"
    /\ advances' \in AdvanceTables /\ SettledWithinAdvance'
    /\ \A a \in Advances :
          /\ advances'[a].status = advances[a].status
          /\ (\A row \in rows : row.advance # a) => advances'[a] = advances[a]
          /\ (\E row \in rows : row.advance = a) =>
                advances'[a].settled = IF Given(rows, a) < table[a].settled
                                       THEN table[a].settled - Given(rows, a) ELSE 0
    /\ settlements' = {Undone(row, i, rows) : row \in settlements}
    /\ IsFiniteSet(settlements') /\ settlements' \subseteq Settlements
    /\ CancelEntries(Ref("payroll_accrual", i))
    /\ salaries' = salaries

LEMMA FinishDeleteIs ==
    ASSUME Certain, NEW r \in Attempts, FinishDelete(r)
    PROVE  /\ attempt[r].pc = "reversing"
           /\ Deletes(attempt[r].run, attempt[r].rows, attempt[r].table)
<1>1. PICK b : b = attempt[r]
  OBVIOUS
<1>2. b \in Busy \cup {Free} /\ b.pc = "reversing" /\ Knows(b)
  BY <1>1 DEF Certain, TypeOK, FinishDelete
<1>3. /\ b.table \in AdvanceTables /\ b.rows \subseteq Settlements /\ IsFiniteSet(b.rows)
      /\ \A a \in Advances : b.table[a].settled <= AdvanceTotals[a]
  BY <1>2, Fields DEF Knows
<1>4. PICK i, rows, table : i = b.run /\ rows = b.rows /\ table = b.table
  OBVIOUS
<1>5. /\ i \in Standing /\ i \in DOMAIN runs
      /\ runs' = [runs EXCEPT ![i].status = "deleted"]
      /\ advances' = GiveBack(rows, table)
      /\ settlements' = {Undone(row, i, rows) : row \in settlements}
      /\ CancelEntries(Ref("payroll_accrual", i))
      /\ salaries' = salaries
  BY <1>1, <1>4 DEF FinishDelete, Undone, Standing
<1>6. /\ runs' \in Seq(Runs) /\ RunsNumbered' /\ DOMAIN runs' = DOMAIN runs
      /\ \A j \in DOMAIN runs : j # i => runs'[j] = runs[j]
      /\ runs'[i].number = runs[i].number /\ runs'[i].content = runs[i].content
      /\ runs'[i].status = "deleted"
  BY <1>5, StatusIs
<1>7. /\ advances' \in AdvanceTables /\ SettledWithinAdvance'
      /\ \A a \in Advances :
            /\ advances'[a].status = advances[a].status
            /\ (\A row \in rows : row.advance # a) => advances'[a] = advances[a]
            /\ (\E row \in rows : row.advance = a) =>
                  advances'[a].settled = IF Given(rows, a) < table[a].settled
                                         THEN table[a].settled - Given(rows, a) ELSE 0
  BY <1>3, <1>4, <1>5, GiveBackIs DEF Certain
<1>8. IsFiniteSet(settlements') /\ settlements' \subseteq Settlements
  BY <1>5, UndoneAll DEF Certain, SettlementsKnown
<1>9. Deletes(i, rows, table)
  BY <1>5, <1>6, <1>7, <1>8 DEF Deletes
<1> QED BY <1>1, <1>2, <1>4, <1>9

LEMMA FinishDeleteCertain ==
    ASSUME Certain, NEW r \in Attempts, FinishDelete(r), UNCHANGED settings, apart' \in BOOLEAN
    PROVE  Certain'
<1>1. PICK i, rows, table :
        i = attempt[r].run /\ rows = attempt[r].rows /\ table = attempt[r].table
  OBVIOUS
<1>2. Deletes(i, rows, table)
  BY <1>1, FinishDeleteIs
<1>3. UNCHANGED <<salaries, settings>> /\ Goes(r, Free)
  BY DEF FinishDelete, Ends, Goes
<1>4. i \in DOMAIN runs /\ CancelEntries(Ref("payroll_accrual", i))
  BY <1>2 DEF Deletes, Standing
<1>5. RowsKept /\ RowsStand
  BY <1>2, <1>3, <1>4 DEF RowsKept, RowsStand, Deletes
<1>6. PICK ref : ref = Ref("payroll_accrual", i)
  OBVIOUS
<1>7. LedgerTypeOK /\ EntriesSingle /\ EntriesTold
  BY DEF Certain, TypeOK
<1>8. LedgerTypeOK'
  BY <1>4, <1>7, CancelIs
<1>9. Free \in Busy \cup {Free} /\ Knows(Free)
  BY DEF Knows, Free, OnRun
<1>10. \A t \in Attempts : Knows(attempt[t])'
  BY <1>3, <1>5, <1>9, KnowsAll DEF Certain
<1>11. TypeOK'
  BY <1>2, <1>3, <1>8, <1>9, RequestsTyped DEF Certain, TypeOK, Deletes
<1>12. ASSUME NEW e \in ActiveEntries, ledger[e].ref # ref PROVE Tells(ledger[e])'
  <2>1. PICK y : y = ledger[e]
    OBVIOUS
  <2>2. Tells(y)
    BY <1>7, <2>1 DEF EntriesTold, Tells
  <2>3. Tells(y)'
    BY <1>5, <2>2, StillTold
  <2>4. ledger'[e] = y
    BY <1>4, <1>6, <1>7, <1>12, <2>1, CancelIs DEF ActiveEntries, EntriesOf
  <2> QED BY <2>3, <2>4
<1>13. EntriesTold' /\ EntriesSingle'
  BY <1>4, <1>6, <1>7, <1>12, EntriesRemoved
<1>14. EntriesStand'
  <2>1. \A other : other # ref /\ Entered(other) => Entered(other)'
    BY <1>4, <1>6, <1>7, StillEntered
  <2>2. \A t \in Advances : Ref("advance", t) # ref
    BY <1>6 DEF Ref
  <2>3. \A s \in DOMAIN salaries : Ref("salary", s) # ref
    BY <1>6 DEF Ref
  <2> QED BY <1>3, <1>5, <2>1, <2>2, <2>3 DEF Certain, EntriesStand, RowsStand
<1>15. SettlementsKnown'
  <2>1. ASSUME NEW x \in settlements'
        PROVE  x.run \in DOMAIN runs' /\ x.number = runs'[x.run].number
    <3>1. PICK row \in settlements : x = Undone(row, i, rows)
      BY <1>2 DEF Deletes
    <3>2. row \in Settlements /\ row.run \in DOMAIN runs /\ row.number = runs[row.run].number
      BY DEF Certain, TypeOK, SettlementsKnown
    <3>3. x.run = row.run /\ x.number = row.number
      BY <3>1, <3>2, UndoneIs
    <3>4. runs'[row.run].number = runs[row.run].number /\ DOMAIN runs' = DOMAIN runs
      BY <1>2, <3>2 DEF Deletes
    <3> QED BY <3>2, <3>3, <3>4
  <2>2. IsFiniteSet(settlements')
    BY <1>2 DEF Deletes
  <2> QED BY <2>1, <2>2 DEF SettlementsKnown
<1>16. SettledWithinAdvance' /\ RunsNumbered'
  BY <1>2 DEF Deletes
<1>17. PaidOnce'
  BY <1>3, <1>5 DEF Certain, PaidOnce, RowsKept
<1> QED BY <1>10, <1>11, <1>13, <1>14, <1>15, <1>16, <1>17 DEF Certain

-----------------------------------------------------------------------------
(* The invariant.                                                          *)

LEMMA InitCertain == Init => Certain
<1> SUFFICES ASSUME Init PROVE Certain
  OBVIOUS
<1>1. PICK v \in Opened, first \in Days :
        ledger = [a \in Advances |->
                    EntryOf(AdvanceAsset, v, AdvanceTotals[a], first, Ref("advance", a))]
  BY DEF Init
<1>2. Len(AdvanceTotals) \in Nat /\ Advances = 1..Len(AdvanceTotals)
  BY PayrollConstants DEF Advances
<1>3. ASSUME NEW a \in Advances
      PROVE  /\ ledger[a] \in Entries /\ ledger[a].status = "active"
             /\ ledger[a].ref = Ref("advance", a) /\ ledger[a].debit = AdvanceAsset
             /\ ledger[a].credit = v /\ ledger[a].amount = AdvanceTotals[a]
  <2>1. ledger[a] = EntryOf(AdvanceAsset, v, AdvanceTotals[a], first, Ref("advance", a))
    BY <1>1
  <2>2. /\ v \in Accounts /\ AdvanceAsset \in Accounts /\ AdvanceTotals[a] \in Nat
        /\ Ref("advance", a) \in References
    BY <1>2, AccountsApart, VaultsAssumption, PayrollConstants DEF Ref, References, Advances
  <2> QED BY <2>1, <2>2, EntryTyped
<1>4. ledger \in Seq(Entries) /\ DOMAIN ledger = Advances
  BY <1>1, <1>2, <1>3
<1>5. ActiveEntries = Advances
  BY <1>3, <1>4 DEF ActiveEntries
<1>6. /\ runs = <<>> /\ salaries = <<>> /\ settlements = {} /\ apart = TRUE
      /\ advances = [a \in Advances |-> [settled |-> 0, status |-> "active"]]
      /\ attempt = [r \in Attempts |-> Free]
  BY DEF Init
<1>7. DOMAIN runs = {} /\ DOMAIN salaries = {} /\ IsFiniteSet(settlements)
  BY <1>6, FS_EmptySet
<1>8. TypeOK
  BY <1>4, <1>6 DEF TypeOK, LedgerTypeOK, AdvanceTables
<1>9. SettledWithinAdvance
  BY <1>2, <1>6, PayrollConstants DEF SettledWithinAdvance, Advances
<1>10. RunsNumbered /\ SettlementsKnown /\ PaidOnce
  BY <1>6, <1>7 DEF RunsNumbered, SettlementsKnown, PaidOnce, Standing
<1>11. ASSUME NEW a \in Advances PROVE AdvanceEntry(ledger[a]) /\ ledger[a].ref.id = a
  <2>1. PICK x : x = ledger[a]
    OBVIOUS
  <2>2. x.ref = Ref("advance", a)
    BY <1>3, <2>1
  <2>3. x.ref.type = "advance" /\ x.ref.id = a
    BY <2>2 DEF Ref
  <2>4. advances[a].status = "active"
    BY <1>6
  <2> QED BY <1>3, <2>1, <2>3, <2>4, VaultsAssumption DEF AdvanceEntry
<1>12. EntriesTold
  BY <1>5, <1>11 DEF EntriesTold
<1>13. EntriesSingle
  <2>1. \A a, c \in Advances : ledger[a].ref = ledger[c].ref => a = c
    BY <1>11
  <2> QED BY <1>5, <2>1 DEF EntriesSingle, SameSubject
<1>14. EntriesStand
  BY <1>3, <1>5, <1>7 DEF EntriesStand, Entered
<1>15. \A r \in Attempts : Knows(attempt[r])
  BY <1>6 DEF Knows, Free, OnRun
<1> QED BY <1>8, <1>9, <1>10, <1>12, <1>13, <1>14, <1>15 DEF Certain

LEMMA StepCertain ==
    ASSUME Certain, NEW r \in Attempts, Step(r), UNCHANGED settings, apart' \in BOOLEAN
    PROVE  Certain'
<1>1. ASSUME UNCHANGED tables, \E b \in Busy \cup {Free} : Goes(r, b) /\ Knows(b)
      PROVE  Certain'
  BY <1>1, ReadKeepsCertain
<1>2. ASSUME NEW draft \in Drafts, CheckCreate(r, draft[1], draft[2]) PROVE Certain'
  <2>1. UNCHANGED tables
    BY <1>2 DEF CheckCreate
  <2> QED BY <1>1, <1>2, <2>1, CheckCreateReads
<1>3. CASE CountRuns(r)
  <2>1. UNCHANGED tables
    BY <1>3 DEF CountRuns
  <2> QED BY <1>1, <1>3, <2>1, CountRunsReads
<1>4. ASSUME NEW i \in Standing, NEW set \in Edits, ReadEdit(r, i, set) PROVE Certain'
  <2>1. UNCHANGED tables
    BY <1>4 DEF ReadEdit
  <2> QED BY <1>1, <1>4, <2>1, ReadEditReads
<1>5. ASSUME NEW i \in Standing, ReadApproval(r, i) PROVE Certain'
  <2>1. UNCHANGED tables
    BY <1>5 DEF ReadApproval
  <2> QED BY <1>1, <1>5, <2>1, ReadApprovalReads
<1>6. CASE ReadAdvances(r)
  <2>1. UNCHANGED tables
    BY <1>6 DEF ReadAdvances
  <2> QED BY <1>1, <1>6, <2>1, ReadAdvancesReads
<1>7. ASSUME NEW i \in Standing, NEW v \in Vaults, NEW d \in Days, ReadIssue(r, i, v, d)
      PROVE  Certain'
  <2>1. UNCHANGED tables
    BY <1>7 DEF ReadIssue
  <2> QED BY <1>1, <1>7, <2>1, ReadIssueReads
<1>8. CASE CheckRun(r)
  <2>1. UNCHANGED tables
    BY <1>8 DEF CheckRun
  <2> QED BY <1>1, <1>8, <2>1, CheckRunReads
<1>9. ASSUME NEW token \in Tokens, NEW month \in Months, NEW extra \in Extras,
             NEW v \in Vaults, NEW d \in Days, FindSupplementary(r, token, month, extra, v, d)
      PROVE  Certain'
  <2>1. UNCHANGED tables
    BY <1>9 DEF FindSupplementary
  <2> QED BY <1>1, <1>9, <2>1, FindSupplementaryReads
<1>10. ASSUME NEW i \in Standing, ReadDelete(r, i) PROVE Certain'
  <2>1. UNCHANGED tables
    BY <1>10 DEF ReadDelete
  <2> QED BY <1>1, <1>10, <2>1, ReadDeleteReads
<1>11. CASE ListSalaries(r)
  <2>1. UNCHANGED tables
    BY <1>11 DEF ListSalaries
  <2> QED BY <1>1, <1>11, <2>1, ListSalariesReads
<1>12. CASE ReadSettlements(r)
  <2>1. UNCHANGED tables
    BY <1>12 DEF ReadSettlements
  <2> QED BY <1>1, <1>12, <2>1, ReadSettlementsReads
<1>13. ASSUME NEW a \in Advances, ReadAdvance(r, a) PROVE Certain'
  <2>1. UNCHANGED tables
    BY <1>13 DEF ReadAdvance
  <2> QED BY <1>1, <1>13, <2>1, ReadAdvanceReads
<1>14. CASE InsertRun(r) \/ WriteEdit(r) \/ DropDraft(r)
  BY <1>14, InsertRunCertain, WriteEditCertain, DropDraftCertain
<1>15. CASE CommitApproval(r) \/ CommitIssue(r) \/ CommitSupplementary(r)
  BY <1>15, CommitApprovalCertain, CommitIssueCertain, CommitSupplementaryCertain
<1>16. CASE CancelOfRun(r) \/ FinishDelete(r) \/ WriteAdvance(r) \/ Abort(r)
  BY <1>16, CancelOfRunCertain, FinishDeleteCertain, WriteAdvanceCertain, AbortCertain
<1>17. ASSUME NEW s \in DOMAIN salaries, CancelSalary(r, s) PROVE Certain'
  BY <1>17, CancelSalaryCertain
<1> QED BY <1>2, <1>3, <1>4, <1>5, <1>6, <1>7, <1>8, <1>9, <1>10, <1>11, <1>12, <1>13, <1>14,
       <1>15, <1>16, <1>17 DEF Step

LEMMA SpecCertain == Spec => []Certain
<1>1. Init => Certain
  BY InitCertain
<1>2. ASSUME Certain, [Next]_vars PROVE Certain'
  <2>1. CASE Next
    <3>1. PICK r \in Attempts : Step(r)
      BY <2>1 DEF Next
    <3>2. UNCHANGED settings /\ apart' = (apart /\ RequestsApart')
      BY <2>1 DEF Next
    <3>3. apart' \in BOOLEAN
      BY <1>2, <3>2 DEF Certain, TypeOK
    <3> QED BY <1>2, <3>1, <3>2, <3>3, StepCertain
  <2>2. CASE UNCHANGED vars
    <3>1. UNCHANGED <<tables, attempt, apart, settings>>
      BY <2>2 DEF vars
    <3>2. UNCHANGED <<runs, advances, settlements, salaries, ledger>>
      BY <3>1 DEF tables
    <3>3. TypeOK'
      BY <1>2, <3>1, <3>2 DEF Certain, TypeOK, LedgerTypeOK
    <3>4. SettledWithinAdvance' /\ RunsNumbered' /\ SettlementsKnown' /\ PaidOnce'
      BY <1>2, <3>2 DEF Certain, SettledWithinAdvance, RunsNumbered, SettlementsKnown, PaidOnce,
         Standing
    <3>5. EntriesTold' /\ EntriesSingle' /\ EntriesStand'
      BY <1>2, <3>2 DEF Certain, EntriesTold, EntriesSingle, EntriesStand, ActiveEntries,
         SameSubject, Entered, SalaryEntry, AdvanceEntry, AccrualEntry
    <3>6. \A r \in Attempts : Knows(attempt[r])'
      BY <1>2, <3>1, <3>2 DEF Certain, Knows, Taken
    <3> QED BY <3>3, <3>4, <3>5, <3>6 DEF Certain
  <2> QED BY <1>2, <2>1, <2>2
<1> QED BY <1>1, <1>2, PTL DEF Spec

\* However requests overlap, every table keeps its type.
THEOREM PayrollTypesHold == Spec => []TypeOK
<1>1. Certain => TypeOK
  BY DEF Certain
<1> QED BY <1>1, SpecCertain, PTL

\* However requests overlap, no advance is settled beyond its amount.
THEOREM SettledWithinAdvanceHolds == Spec => []SettledWithinAdvance
<1>1. Certain => SettledWithinAdvance
  BY DEF Certain
<1> QED BY <1>1, SpecCertain, PTL

\* However requests overlap and retry, a run is accrued once and one active
\* salary invoice pays it.
THEOREM AccruedOnceHolds == Spec => []AccruedOnce
<1>1. Certain => AccruedOnce
  <2> SUFFICES ASSUME Certain, NEW i \in DOMAIN runs
               PROVE  /\ Cardinality(PaidBy(i)) <= 1
                      /\ \A e, f \in Accrual(i) : ledger[e].credit = ledger[f].credit => e = f
    BY DEF AccruedOnce
  <2>1. Cardinality(PaidBy(i)) <= 1
    <3>1. \A s, t \in PaidBy(i) : s = t
      BY DEF Certain, PaidOnce, PaidBy
    <3>2. CASE PaidBy(i) = {}
      BY <3>2, FS_EmptySet
    <3>3. CASE PaidBy(i) # {}
      <4>1. PICK s : PaidBy(i) = {s}
        BY <3>1, <3>3
      <4> QED BY <4>1, FS_Singleton
    <3> QED BY <3>2, <3>3
  <2>2. \A e, f \in Accrual(i) : ledger[e].credit = ledger[f].credit => e = f
    BY DEF Certain, EntriesSingle, SameSubject, Accrual, EntriesOf
  <2> QED BY <2>1, <2>2
<1> QED BY <1>1, SpecCertain, PTL

-----------------------------------------------------------------------------
(* While requests are apart: what a write leaves to the others.            *)

LEMMA TouchesIs ==
    ASSUME TypeOK, NEW r \in Attempts, NEW b, b = attempt[r]
    PROVE  /\ b.pc \in OnRun => <<"run", b.run>> \in Touches(r)
           /\ b.pc \in {"approving", "accruing"} =>
                 \A a \in Taken(b.content) : <<"advance", a>> \in Touches(r)
           /\ b.pc = "waiving" => <<"advance", b.advance>> \in Touches(r)
           /\ b.pc \in {"dropping", "listing", "cancelling", "finishing", "reversing"} =>
                 \A row \in settlements :
                    row.run = b.run => <<"advance", row.advance>> \in Touches(r)
<1>1. b \in Busy \cup {Free}
  BY DEF TypeOK
<1>2. b.pc \in OnRun <=> "run" \in DOMAIN b
  BY <1>1, OnRunFields
<1> DEFINE run == IF "run" \in DOMAIN b THEN {<<"run", b.run>>} ELSE {}
           settled == CASE b.pc \in {"approving", "accruing"} -> Taken(b.content)
                        [] b.pc = "waiving" -> {b.advance}
                        [] b.pc \in {"dropping", "listing", "cancelling", "finishing",
                                     "reversing"} ->
                             {row.advance : row \in {s \in settlements : s.run = b.run}}
                        [] OTHER -> {}
<1>3. Touches(r) = run \cup ({"advance"} \X settled)
  BY DEF Touches
<1>4. b.pc \in {"approving", "accruing"} => settled = Taken(b.content)
  OBVIOUS
<1>5. b.pc = "waiving" => settled = {b.advance}
  OBVIOUS
<1>6. b.pc \in {"dropping", "listing", "cancelling", "finishing", "reversing"} =>
         settled = {row.advance : row \in {s \in settlements : s.run = b.run}}
  OBVIOUS
<1>7. b.pc \in OnRun => <<"run", b.run>> \in run
  BY <1>2
<1> HIDE DEF run, settled
<1> QED BY <1>3, <1>4, <1>5, <1>6, <1>7

\* All but run c and the advances of A stay as they are, with all that is
\* about them; of other runs no more than their payment is cancelled.
Changes(c, A) ==
    /\ \A i \in DOMAIN runs : i # c =>
          /\ i \in DOMAIN runs' /\ runs'[i] = runs[i]
          /\ PaidBy(i)' \subseteq PaidBy(i)
          /\ Deductions(i)' = Deductions(i)
          /\ Accrual(i)' = Accrual(i) /\ \A e \in Accrual(i) : ledger'[e] = ledger[e]
    /\ \A a \in Advances \ A : advances'[a] = advances[a]

LEMMA SeesKept ==
    ASSUME NEW c, NEW A, Changes(c, A), NEW b \in Busy \cup {Free}, Knows(b), Sees(b),
           b.pc \in OnRun => b.run # c,
           b.pc = "accruing" => Taken(b.content) \cap A = {},
           b.pc = "reversing" => \A row \in b.rows : row.advance \notin A,
           b.pc = "waiving" => b.advance \notin A
    PROVE  Sees(b)'
<1>1. b.pc \in OnRun =>
        /\ b.run \in DOMAIN runs /\ runs'[b.run] = runs[b.run]
        /\ PaidBy(b.run)' \subseteq PaidBy(b.run) /\ Deductions(b.run)' = Deductions(b.run)
  BY DEF Changes, Knows
<1>2. b.pc = "accruing" => \A a \in Taken(b.content) : advances'[a] = advances[a]
  BY DEF Changes, Taken
<1>3. b.pc = "waiving" => advances'[b.advance] = advances[b.advance]
  BY Fields DEF Changes
<1>4. b.pc = "reversing" => \A row \in b.rows : advances'[row.advance] = advances[row.advance]
  <2>1. b.pc = "reversing" => \A row \in b.rows : row.advance \in Advances
    BY Fields DEF Settlements, Advances
  <2> QED BY <2>1 DEF Changes
<1>5. /\ b.pc \in {"editing", "dropping", "approving", "accruing"} => runs'[b.run].status = "draft"
      /\ b.pc \in {"approving", "accruing"} => b.content = runs'[b.run].content
      /\ b.pc \in {"paying", "posting", "listing", "cancelling", "finishing", "reversing"} =>
            runs'[b.run].status = "completed"
  BY <1>1 DEF Sees, OnRun
<1>6. /\ b.pc \in {"finishing", "reversing"} => PaidBy(b.run)' = {}
      /\ b.pc = "reversing" => b.rows = Deductions(b.run)'
  BY <1>1 DEF Sees, OnRun
<1>7. /\ b.pc = "accruing" =>
            \A a \in Taken(b.content) : b.table[a] = advances'[a] /\ advances'[a].status = "active"
      /\ b.pc = "reversing" => \A row \in b.rows : b.table[row.advance] = advances'[row.advance]
      /\ b.pc = "waiving" =>
            advances'[b.advance].status = "active" /\ advances'[b.advance].settled = 0
  BY <1>2, <1>3, <1>4 DEF Sees
<1> QED BY <1>5, <1>6, <1>7 DEF Sees, Taken

LEMMA OthersSee ==
    ASSUME Certain, Told, NEW r \in Attempts, NEW c, NEW A, Changes(c, A),
           c \in DOMAIN runs => <<"run", c>> \in Touches(r),
           \A a \in A : <<"advance", a>> \in Touches(r),
           NEW s \in Attempts \ {r}, attempt'[s] = attempt[s]
    PROVE  Sees(attempt[s])'
<1>1. PICK b : b = attempt[s]
  OBVIOUS
<1>2. b \in Busy \cup {Free} /\ Knows(b) /\ Sees(b)
  BY <1>1 DEF Certain, TypeOK, Told
<1>3. Touches(r) \cap Touches(s) = {}
  BY DEF Told, RequestsApart
<1>4. /\ b.pc \in OnRun => <<"run", b.run>> \in Touches(s)
      /\ b.pc \in {"approving", "accruing"} =>
            \A a \in Taken(b.content) : <<"advance", a>> \in Touches(s)
      /\ b.pc = "waiving" => <<"advance", b.advance>> \in Touches(s)
      /\ b.pc \in {"dropping", "listing", "cancelling", "finishing", "reversing"} =>
            \A row \in settlements :
               row.run = b.run => <<"advance", row.advance>> \in Touches(s)
  BY <1>1, TouchesIs DEF Certain
<1>5. b.pc \in OnRun => b.run # c
  BY <1>2, <1>3, <1>4 DEF Knows
<1>6. b.pc = "accruing" => Taken(b.content) \cap A = {}
  BY <1>3, <1>4
<1>7. b.pc = "waiving" => b.advance \notin A
  BY <1>3, <1>4
<1>8. b.pc = "reversing" => \A row \in b.rows : row.advance \notin A
  BY <1>2, <1>3, <1>4 DEF Sees, Deductions
<1>9. Sees(b)'
  BY <1>2, <1>5, <1>6, <1>7, <1>8, SeesKept
<1>10. attempt'[s] = b
  BY <1>1
<1> QED BY <1>9, <1>10 DEF Sees

LEMMA OthersTold ==
    ASSUME Told, NEW c, NEW A, Changes(c, A), NEW i \in DOMAIN runs, i # c
    PROVE  RunTold(i)'
<1>1. /\ RunTold(i) /\ i \in DOMAIN runs' /\ runs'[i] = runs[i]
      /\ PaidBy(i)' \subseteq PaidBy(i)
      /\ Deductions(i)' = Deductions(i)
      /\ Accrual(i)' = Accrual(i) /\ \A e \in Accrual(i) : ledger'[e] = ledger[e]
  BY DEF Told, Changes
<1>2. \A account : Against(i, account)' = Against(i, account)
  BY <1>1 DEF Against
<1>3. \A account, amount : Accrued(i, account, amount) => Accrued(i, account, amount)'
  BY <1>1, <1>2 DEF Accrued, Against
<1>4. CASE runs[i].status = "completed"
  <2>1. PICK content : content = runs[i].content
    OBVIOUS
  <2>2. /\ Accrued(i, Payable, content.net)
        /\ Accrued(i, AdvanceAsset, Deducted(content))
        /\ {row.advance : row \in Deductions(i)} = Taken(content)
        /\ \A row \in Deductions(i) : row.amount = content.takes[row.advance]
    BY <1>1, <1>4, <2>1 DEF RunTold
  <2>3. /\ Accrued(i, Payable, content.net)'
        /\ Accrued(i, AdvanceAsset, Deducted(content))'
    <3>1. PICK n, m : n = content.net /\ m = Deducted(content)
      OBVIOUS
    <3>2. Accrued(i, Payable, n)' /\ Accrued(i, AdvanceAsset, m)'
      BY <1>3, <2>2, <3>1
    <3> QED BY <3>1, <3>2 DEF Deducted
  <2>4. runs'[i].content = content /\ runs'[i].status = "completed"
    BY <1>1, <1>4, <2>1
  <2> QED BY <1>1, <2>2, <2>3, <2>4 DEF RunTold
<1>5. CASE runs[i].status # "completed"
  BY <1>1, <1>5 DEF RunTold
<1> QED BY <1>4, <1>5

\* The sums stay when no advance and no completed run is disturbed.
LEMMA AdvancesStillTold ==
    ASSUME Told, settlements' = settlements, Completed' = Completed,
           \A i \in Completed : i \in DOMAIN runs' /\ runs'[i].content = runs[i].content,
           \A a \in Advances :
              /\ advances'[a].settled = advances[a].settled
              /\ advances'[a].status = "cancelled" => advances[a].settled = 0,
           IsFiniteSet(Completed)
    PROVE  AdvancesTold'
<1>1. PICK f, g, C : f = Deducts /\ g = Deducts' /\ C = Completed
  OBVIOUS
<1>2. \A i \in C : f[i] = g[i]
  BY <1>1 DEF Deducts, Completed, Deducted
<1>3. SumFunctionOnSet(f, C) = SumFunctionOnSet(g, C)
  BY <1>1, <1>2, SumSame
<1>4. Settled' = Settled
  BY DEF Settled
<1>5. SumFunctionOnSet(Settled, Advances)' = SumFunctionOnSet(Deducts, Completed)'
  BY <1>1, <1>3, <1>4 DEF Told, AdvancesTold
<1>6. Standings' = Standings
  BY DEF Standings
<1>7. \A a \in Advances : advances'[a].settled = Given(Standings', a)
  BY <1>6 DEF Told, AdvancesTold
<1>8. \A row \in settlements' : row.deduction <=> row.status = "active"
  BY Zenon DEF Told, AdvancesTold
<1> QED BY <1>5, <1>7, <1>8 DEF AdvancesTold

LEMMA WriteTold ==
    ASSUME Certain, Told, NEW r \in Attempts, NEW b \in Busy \cup {Free}, Goes(r, b),
           NEW c, NEW A, Changes(c, A),
           c \in DOMAIN runs => <<"run", c>> \in Touches(r),
           \A a \in A : <<"advance", a>> \in Touches(r),
           Sees(b)', DOMAIN runs' \subseteq DOMAIN runs \cup {c},
           c \in DOMAIN runs' => RunTold(c)', AdvancesTold', RequestsApart'
    PROVE  Told'
<1>1. attempt'[r] = b /\ \A s \in Attempts \ {r} : attempt'[s] = attempt[s]
  BY RequestsTyped DEF Certain
<1>2. ASSUME NEW s \in Attempts PROVE Sees(attempt[s])'
  <2>1. CASE s # r
    BY <1>1, <2>1, OthersSee
  <2>2. CASE s = r
    BY <1>1, <2>2 DEF Sees
  <2> QED BY <2>1, <2>2
<1>3. ASSUME NEW i \in DOMAIN runs' PROVE RunTold(i)'
  <2>1. CASE i = c
    BY <1>3, <2>1 DEF RunTold
  <2>2. CASE i # c
    BY <1>3, <2>2, OthersTold
  <2> QED BY <2>1, <2>2
<1> QED BY <1>2, <1>3 DEF Told

LEMMA SeesFree == Sees(Free) /\ Sees(Free)'
BY DEF Sees, Free

\* What is about a run that is not there yet.
LEMMA NoneYet ==
    ASSUME Certain, NEW i, i \notin DOMAIN runs
    PROVE  Accrual(i) = {} /\ PaidBy(i) = {} /\ Deductions(i) = {}
<1>1. Accrual(i) = {}
  <2>1. SUFFICES ASSUME NEW e \in Accrual(i) PROVE FALSE
    OBVIOUS
  <2>2. e \in ActiveEntries /\ ledger[e].ref = Ref("payroll_accrual", i)
    BY <2>1 DEF Accrual, EntriesOf
  <2>3. ledger[e].ref.type = "payroll_accrual" /\ ledger[e].ref.id = i
    BY <2>2 DEF Ref
  <2>4. AccrualEntry(ledger[e])
    BY <2>2, <2>3, ToldIds
  <2> QED BY <2>3, <2>4 DEF AccrualEntry
<1>2. PaidBy(i) = {} /\ Deductions(i) = {}
  BY DEF Certain, PaidOnce, SettlementsKnown, PaidBy, Deductions
<1> QED BY <1>1, <1>2

LEMMA CompletedFinite ==
    ASSUME TypeOK
    PROVE  IsFiniteSet(DOMAIN runs) /\ IsFiniteSet(Completed) /\ 0 \notin DOMAIN runs
<1>1. Len(runs) \in Nat /\ DOMAIN runs = 1..Len(runs)
  BY DEF TypeOK
<1>2. IsFiniteSet(1..Len(runs))
  BY <1>1, FS_Interval
<1> QED BY <1>1, <1>2, FS_Subset DEF Completed

\* The accruals of a run, after entries about other things are posted or cancelled.
LEMMA AccrualSame ==
    ASSUME ledger' = ledger
    PROVE  \A i : Accrual(i)' = Accrual(i) /\ \A e \in Accrual(i) : ledger'[e] = ledger[e]
BY DEF Accrual, EntriesOf, ActiveEntries

LEMMA AccrualPosted ==
    ASSUME LedgerTypeOK, NEW es \in Seq(Entries), ledger' = ledger \o es,
           \A n \in DOMAIN es : es[n].status = "active",
           NEW i, \A n \in DOMAIN es : es[n].ref # Ref("payroll_accrual", i)
    PROVE  Accrual(i)' = Accrual(i) /\ \A e \in Accrual(i) : ledger'[e] = ledger[e]
<1>1. PICK ref : ref = Ref("payroll_accrual", i)
  OBVIOUS
<1>2. /\ \A e \in DOMAIN ledger : e \in DOMAIN ledger' /\ ledger'[e] = ledger[e]
      /\ ActiveEntries \subseteq ActiveEntries'
      /\ \A e \in ActiveEntries' : e \notin ActiveEntries =>
            e - Len(ledger) \in DOMAIN es /\ ledger'[e] = es[e - Len(ledger)]
  BY AppendIs
<1>3. ActiveEntries \subseteq DOMAIN ledger /\ ActiveEntries' \subseteq DOMAIN ledger'
  BY DEF ActiveEntries
<1>4. \A e \in ActiveEntries' : ledger'[e].ref = ref => e \in ActiveEntries
  BY <1>1, <1>2
<1>5. Accrual(i) = {e \in ActiveEntries : ledger[e].ref = ref}
  BY <1>1, <1>3 DEF Accrual, EntriesOf
<1>6. Accrual(i)' = {e \in ActiveEntries' : ledger'[e].ref = ref}
  BY <1>1, <1>3 DEF Accrual, EntriesOf, Ref
<1> QED BY <1>2, <1>3, <1>4, <1>5, <1>6

LEMMA AccrualCancelled ==
    ASSUME LedgerTypeOK, NEW ref, CancelEntries(ref), NEW i
    PROVE  /\ ref # Ref("payroll_accrual", i) =>
                 Accrual(i)' = Accrual(i) /\ \A e \in Accrual(i) : ledger'[e] = ledger[e]
           /\ ref = Ref("payroll_accrual", i) => Accrual(i)' = {}
<1>1. PICK own : own = Ref("payroll_accrual", i)
  OBVIOUS
<1>2. /\ DOMAIN ledger' = DOMAIN ledger /\ ActiveEntries' = ActiveEntries \ EntriesOf(ref)
      /\ \A e \in ActiveEntries' : ledger'[e] = ledger[e]
  BY CancelIs
<1>3. ActiveEntries \subseteq DOMAIN ledger /\ ActiveEntries' \subseteq DOMAIN ledger'
  BY DEF ActiveEntries
<1>4. Accrual(i) = {e \in ActiveEntries : ledger[e].ref = own}
  BY <1>1, <1>3 DEF Accrual, EntriesOf
<1>5. Accrual(i)' = {e \in ActiveEntries' : ledger'[e].ref = own}
  BY <1>1, <1>3 DEF Accrual, EntriesOf, Ref
<1>6. \A e \in ActiveEntries : e \in ActiveEntries' <=> ledger[e].ref # ref
  BY <1>2, <1>3 DEF EntriesOf
<1> QED BY <1>1, <1>2, <1>4, <1>5, <1>6

-----------------------------------------------------------------------------
(* While requests are apart: the writes.                                   *)

LEMMA InsertRunTold ==
    ASSUME Certain, Told, NEW r \in Attempts, InsertRun(r), RequestsApart'
    PROVE  Told'
<1>1. PICK c : c = Len(runs) + 1
  OBVIOUS
<1>2. /\ DOMAIN runs' = DOMAIN runs \cup {c} /\ c \notin DOMAIN runs
      /\ \A i \in DOMAIN runs : runs'[i] = runs[i]
      /\ runs'[c].status = "draft"
  BY <1>1, InsertRunIs
<1>3. UNCHANGED <<advances, settlements, salaries, ledger>> /\ Goes(r, Free)
  BY DEF InsertRun, Ends, Goes
<1>4. /\ \A i : Accrual(i)' = Accrual(i) /\ \A e \in Accrual(i) : ledger'[e] = ledger[e]
      /\ \A i : PaidBy(i)' = PaidBy(i) /\ Deductions(i)' = Deductions(i)
  BY <1>3, AccrualSame DEF PaidBy, Deductions
<1>5. Changes(c, {})
  BY <1>2, <1>3, <1>4 DEF Changes
<1>6. Accrual(c) = {} /\ PaidBy(c) = {} /\ Deductions(c) = {}
  BY <1>2, NoneYet
<1>7. RunTold(c)'
  BY <1>2, <1>4, <1>6 DEF RunTold
<1>8. Completed' = Completed
  BY <1>2 DEF Completed
<1>9. AdvancesTold'
  <2>1. IsFiniteSet(Completed)
    BY CompletedFinite DEF Certain
  <2>2. \A i \in Completed : i \in DOMAIN runs' /\ runs'[i].content = runs[i].content
    BY <1>2 DEF Completed
  <2>3. \A a \in Advances : advances[a].status = "cancelled" => advances[a].settled = 0
    BY DEF Told, AdvancesTold
  <2> QED BY <1>3, <1>8, <2>1, <2>2, <2>3, AdvancesStillTold
<1>10. /\ DOMAIN runs' \subseteq DOMAIN runs \cup {c}
       /\ c \in DOMAIN runs => <<"run", c>> \in Touches(r)
       /\ \A a \in {} : <<"advance", a>> \in Touches(r)
  BY <1>2
<1> QED BY <1>3, <1>5, <1>7, <1>9, <1>10, SeesFree, WriteTold

\* A draft that is changed or dropped leaves nothing.
LEMMA DraftTold ==
    ASSUME Certain, Told, NEW r \in Attempts, Goes(r, Free), NEW c \in DOMAIN runs,
           <<"run", c>> \in Touches(r), runs[c].status = "draft",
           DOMAIN runs' = DOMAIN runs, \A j \in DOMAIN runs : j # c => runs'[j] = runs[j],
           runs'[c].status # "completed",
           UNCHANGED <<advances, settlements, salaries, ledger>>, RequestsApart'
    PROVE  Told'
<1>1. /\ \A i : Accrual(i)' = Accrual(i) /\ \A e \in Accrual(i) : ledger'[e] = ledger[e]
      /\ \A i : PaidBy(i)' = PaidBy(i) /\ Deductions(i)' = Deductions(i)
  BY AccrualSame DEF PaidBy, Deductions
<1>2. Changes(c, {})
  BY <1>1 DEF Changes
<1>3. Accrual(c) = {} /\ PaidBy(c) = {} /\ Deductions(c) = {}
  BY DEF Told, RunTold
<1>4. RunTold(c)'
  BY <1>1, <1>3 DEF RunTold
<1>5. Completed' = Completed
  BY DEF Completed
<1>6. AdvancesTold'
  <2>1. IsFiniteSet(Completed)
    BY CompletedFinite DEF Certain
  <2>2. \A i \in Completed : i \in DOMAIN runs' /\ runs'[i].content = runs[i].content
    BY DEF Completed
  <2>3. \A a \in Advances : advances[a].status = "cancelled" => advances[a].settled = 0
    BY DEF Told, AdvancesTold
  <2> QED BY <1>5, <2>1, <2>2, <2>3, AdvancesStillTold
<1> QED BY <1>2, <1>4, <1>6, SeesFree, WriteTold

LEMMA WriteEditTold ==
    ASSUME Certain, Told, NEW r \in Attempts, WriteEdit(r), RequestsApart'
    PROVE  Told'
<1>1. PICK b, c : b = attempt[r] /\ c = b.run
  OBVIOUS
<1>2. b.pc = "editing" /\ Sees(b)
  BY <1>1 DEF WriteEdit, Told
<1>3. /\ c \in DOMAIN runs /\ DOMAIN runs' = DOMAIN runs
      /\ \A j \in DOMAIN runs : j # c => runs'[j] = runs[j]
      /\ runs'[c].status = runs[c].status
  BY <1>1, WriteEditIs
<1>4. runs[c].status = "draft" /\ <<"run", c>> \in Touches(r)
  BY <1>1, <1>2, TouchesIs DEF Sees, OnRun, Certain
<1>5. UNCHANGED <<advances, settlements, salaries, ledger>> /\ Goes(r, Free)
  BY DEF WriteEdit, Ends, Goes
<1> QED BY <1>3, <1>4, <1>5, DraftTold

LEMMA DropDraftTold ==
    ASSUME Certain, Told, NEW r \in Attempts, DropDraft(r), RequestsApart'
    PROVE  Told'
<1>1. PICK b, c : b = attempt[r] /\ c = b.run
  OBVIOUS
<1>2. b.pc = "dropping" /\ Sees(b)
  BY <1>1 DEF DropDraft, Told
<1>3. /\ c \in DOMAIN runs /\ DOMAIN runs' = DOMAIN runs
      /\ \A j \in DOMAIN runs : j # c => runs'[j] = runs[j]
      /\ runs'[c].status = "deleted"
  BY <1>1, DropDraftIs
<1>4. runs[c].status = "draft" /\ <<"run", c>> \in Touches(r)
  BY <1>1, <1>2, TouchesIs DEF Sees, OnRun, Certain
<1>5. UNCHANGED <<advances, settlements, salaries, ledger>> /\ Goes(r, Free)
  BY DEF DropDraft, Ends, Goes
<1> QED BY <1>3, <1>4, <1>5, DraftTold

LEMMA AbortTold ==
    ASSUME Certain, Told, NEW r \in Attempts, Abort(r), UNCHANGED settings, RequestsApart'
    PROVE  Told'
<1>1. Goes(r, Free) /\ UNCHANGED <<tables, settings>> /\ TypeOK
  BY DEF Abort, Ends, Goes, Certain
<1> QED BY <1>1, SeesFree, ReadKeepsTold

\* A completed run that is paid.
LEMMA CommitIssueTold ==
    ASSUME Certain, Told, NEW r \in Attempts, CommitIssue(r), RequestsApart'
    PROVE  Told'
<1>1. PICK b, c, total, v :
        b = attempt[r] /\ c = b.run /\ total = b.total /\ v = b.vault
  OBVIOUS
<1>2. /\ c \in DOMAIN runs /\ b.pc = "posting"
      /\ \E s, x : Pays(s, x, c, total, v) /\ <<x>> \in Seq(Entries) /\ ledger' = ledger \o <<x>>
  BY <1>1, CommitIssueIs
<1>3. PICK s, x : Pays(s, x, c, total, v) /\ <<x>> \in Seq(Entries) /\ ledger' = ledger \o <<x>>
  BY <1>2
<1>4. UNCHANGED <<runs, advances, settlements>> /\ Goes(r, Free)
  BY DEF CommitIssue, Ends, Goes
<1>5. runs[c].status = "completed" /\ <<"run", c>> \in Touches(r)
  BY <1>1, <1>2, TouchesIs DEF Told, Sees, OnRun, Certain
<1>6. PICK es : es = <<x>>
  OBVIOUS
<1>7. /\ es \in Seq(Entries) /\ ledger' = ledger \o es
      /\ \A n \in DOMAIN es : es[n].status = "active" /\ es[n].ref = Ref("salary", s)
  BY <1>3, <1>6 DEF Pays
<1>8. \A i : Ref("salary", s) # Ref("payroll_accrual", i)
  BY DEF Ref
<1>9. ASSUME NEW i
      PROVE  Accrual(i)' = Accrual(i) /\ \A e \in Accrual(i) : ledger'[e] = ledger[e]
  BY <1>7, <1>8, AccrualPosted DEF Certain, TypeOK
<1>10. \A i : i # c => PaidBy(i)' = PaidBy(i)
  BY <1>3 DEF PaidBy, Pays
<1>11. \A i : Deductions(i)' = Deductions(i)
  BY <1>4 DEF Deductions
<1>12. Changes(c, {})
  BY <1>4, <1>9, <1>10, <1>11 DEF Changes
<1>13. RunTold(c)'
  <2>1. RunTold(c)
    BY <1>2 DEF Told
  <2>2. \A account : Against(c, account)' = Against(c, account)
    BY <1>9 DEF Against
  <2>3. \A account, amount : Accrued(c, account, amount) => Accrued(c, account, amount)'
    BY <1>9, <2>2 DEF Accrued, Against
  <2>4. PICK n, m : n = runs[c].content.net /\ m = Deducted(runs[c].content)
    OBVIOUS
  <2>5. Accrued(c, Payable, n)' /\ Accrued(c, AdvanceAsset, m)'
    BY <1>5, <2>1, <2>3, <2>4 DEF RunTold
  <2>6. runs'[c].content.net = n /\ Deducted(runs'[c].content) = m
    BY <1>4, <2>4
  <2>7. /\ {row.advance : row \in Deductions(c)} = Taken(runs[c].content)
        /\ \A row \in Deductions(c) : row.amount = runs[c].content.takes[row.advance]
    BY <1>5, <2>1 DEF RunTold
  <2> QED BY <1>4, <1>5, <1>11, <2>5, <2>6, <2>7 DEF RunTold, Deducted, Taken
<1>14. AdvancesTold'
  <2>1. IsFiniteSet(Completed)
    BY CompletedFinite DEF Certain
  <2>2. Completed' = Completed
    BY <1>4 DEF Completed
  <2>3. \A i \in Completed : i \in DOMAIN runs' /\ runs'[i].content = runs[i].content
    BY <1>4 DEF Completed
  <2>4. \A a \in Advances : advances[a].status = "cancelled" => advances[a].settled = 0
    BY DEF Told, AdvancesTold
  <2> QED BY <1>4, <2>1, <2>2, <2>3, <2>4, AdvancesStillTold
<1>15. /\ DOMAIN runs' \subseteq DOMAIN runs \cup {c}
       /\ \A a \in {} : <<"advance", a>> \in Touches(r)
  BY <1>4
<1> QED BY <1>4, <1>5, <1>12, <1>13, <1>14, <1>15, SeesFree, WriteTold

\* Nothing but entries of salaries or advances is cancelled; runs stay.
Cancels(ref, A) ==
    /\ CancelEntries(ref) /\ ref.type # "payroll_accrual"
    /\ UNCHANGED <<runs, settlements>>
    /\ \A i : PaidBy(i)' \subseteq PaidBy(i)
    /\ \A a \in Advances \ A : advances'[a] = advances[a]
    /\ \A a \in Advances :
          /\ advances'[a].settled = advances[a].settled
          /\ advances'[a].status = "cancelled" => advances[a].settled = 0

LEMMA CancelTold ==
    ASSUME Certain, Told, NEW r \in Attempts, NEW b \in Busy \cup {Free}, Goes(r, b), Sees(b)',
           NEW ref, NEW A, Cancels(ref, A), \A a \in A : <<"advance", a>> \in Touches(r),
           RequestsApart'
    PROVE  Told'
<1>1. \A i : ref # Ref("payroll_accrual", i)
  BY DEF Ref, Cancels
<1>2. ASSUME NEW i
      PROVE  Accrual(i)' = Accrual(i) /\ \A e \in Accrual(i) : ledger'[e] = ledger[e]
  BY <1>1, AccrualCancelled DEF Certain, TypeOK, Cancels
<1>3. \A i : Deductions(i)' = Deductions(i)
  BY DEF Deductions, Cancels
<1>4. Changes(0, A)
  BY <1>2, <1>3 DEF Changes, Cancels
<1>5. 0 \notin DOMAIN runs /\ 0 \notin DOMAIN runs' /\ IsFiniteSet(Completed)
  BY CompletedFinite DEF Certain, Cancels
<1>6. AdvancesTold'
  <2>1. Completed' = Completed
    BY DEF Completed, Cancels
  <2>2. \A i \in Completed : i \in DOMAIN runs' /\ runs'[i].content = runs[i].content
    BY DEF Completed, Cancels
  <2> QED BY <1>5, <2>1, <2>2, AdvancesStillTold DEF Cancels
<1>7. DOMAIN runs' \subseteq DOMAIN runs \cup {0}
  BY DEF Cancels
<1> QED BY <1>4, <1>5, <1>6, <1>7, WriteTold

LEMMA CancelledStatuses ==
    ASSUME Told
    PROVE  \A a \in Advances : advances[a].status = "cancelled" => advances[a].settled = 0
BY DEF Told, AdvancesTold

LEMMA CancelOfRunTold ==
    ASSUME Certain, Told, NEW r \in Attempts, CancelOfRun(r), RequestsApart'
    PROVE  Told'
<1>1. PICK c, s : c = attempt[r] /\ s = c.salary
  OBVIOUS
<1>2. c \in Busy \cup {Free} /\ c.pc = "cancelling" /\ Knows(c) /\ Sees(c)
  BY <1>1 DEF Certain, TypeOK, CancelOfRun, Told
<1>3. /\ c.run \in Nat /\ c.run \in DOMAIN runs /\ s \in DOMAIN salaries
      /\ salaries[s].run = c.run /\ runs[c.run].status = "completed"
  BY <1>1, <1>2, Fields DEF OnRun, Knows, Sees
<1>4. PICK b : b = [pc |-> "finishing", run |-> c.run]
  OBVIOUS
<1>5. b \in Busy
  BY <1>3, <1>4 DEF Busy
<1>6. Goes(r, b) /\ CancelledSalary(s) /\ UNCHANGED <<runs, advances, settlements>>
  BY <1>1, <1>4 DEF CancelOfRun
<1>7. /\ DOMAIN salaries' = DOMAIN salaries
      /\ \A t \in DOMAIN salaries : t # s => salaries'[t] = salaries[t]
      /\ \A t \in DOMAIN salaries : salaries'[t].run = salaries[t].run
      /\ salaries[s].status = "active" /\ salaries'[s].status = "cancelled"
      /\ CancelEntries(Ref("salary", s))
  BY <1>3, <1>6, CancelledSalaryIs
<1>8. \A i : PaidBy(i)' \subseteq PaidBy(i)
  BY <1>7 DEF PaidBy
<1>9. PaidBy(c.run)' = {}
  BY <1>3, <1>7 DEF PaidBy, Certain, PaidOnce
<1>10. Sees(b)'
  BY <1>3, <1>4, <1>6, <1>9 DEF Sees
<1>11. PICK ref : ref = Ref("salary", s)
  OBVIOUS
<1>12. CancelEntries(ref) /\ ref.type # "payroll_accrual"
  BY <1>7, <1>11 DEF Ref
<1>13. /\ \A a \in Advances \ {} : advances'[a] = advances[a]
       /\ \A a \in {} : <<"advance", a>> \in Touches(r)
       /\ \A a \in Advances :
              /\ advances'[a].settled = advances[a].settled
              /\ advances'[a].status = "cancelled" => advances[a].settled = 0
  BY <1>6, CancelledStatuses
<1>14. Cancels(ref, {})
  BY <1>6, <1>8, <1>12, <1>13 DEF Cancels
<1> QED BY <1>5, <1>6, <1>10, <1>13, <1>14, CancelTold

LEMMA CancelSalaryTold ==
    ASSUME Certain, Told, NEW r \in Attempts, NEW s \in DOMAIN salaries, CancelSalary(r, s),
           RequestsApart'
    PROVE  Told'
<1>1. Free \in Busy \cup {Free} /\ Goes(r, Free)
  BY DEF CancelSalary, Goes, Certain, TypeOK
<1>2. CancelledSalary(s) /\ UNCHANGED <<runs, advances, settlements>>
  BY DEF CancelSalary
<1>3. /\ DOMAIN salaries' = DOMAIN salaries
      /\ \A t \in DOMAIN salaries : t # s => salaries'[t] = salaries[t]
      /\ salaries'[s].status = "cancelled"
      /\ CancelEntries(Ref("salary", s))
  BY <1>2, CancelledSalaryIs
<1>4. \A i : PaidBy(i)' \subseteq PaidBy(i)
  BY <1>3 DEF PaidBy
<1>5. PICK ref : ref = Ref("salary", s)
  OBVIOUS
<1>6. CancelEntries(ref) /\ ref.type # "payroll_accrual"
  BY <1>3, <1>5 DEF Ref
<1>7. /\ \A a \in Advances \ {} : advances'[a] = advances[a]
      /\ \A a \in {} : <<"advance", a>> \in Touches(r)
      /\ \A a \in Advances :
             /\ advances'[a].settled = advances[a].settled
             /\ advances'[a].status = "cancelled" => advances[a].settled = 0
  BY <1>2, CancelledStatuses
<1>8. Cancels(ref, {})
  BY <1>2, <1>4, <1>6, <1>7 DEF Cancels
<1> QED BY <1>1, <1>7, <1>8, SeesFree, CancelTold

\* An advance is cancelled while nothing of it is settled still.
LEMMA WriteAdvanceTold ==
    ASSUME Certain, Told, NEW r \in Attempts, WriteAdvance(r), RequestsApart'
    PROVE  Told'
<1>1. PICK b, a : b = attempt[r] /\ a = b.advance
  OBVIOUS
<1>2. /\ a \in Advances /\ b.pc = "waiving"
      /\ \A c \in Advances : c # a => advances'[c] = advances[c]
      /\ advances'[a].settled = advances[a].settled
      /\ advances'[a].status = "cancelled"
      /\ CancelEntries(Ref("advance", a))
  BY <1>1, WriteAdvanceIs
<1>3. UNCHANGED <<runs, settlements, salaries>> /\ Goes(r, Free)
  BY DEF WriteAdvance, Ends, Goes
<1>4. advances[a].settled = 0 /\ <<"advance", a>> \in Touches(r)
  BY <1>1, <1>2, TouchesIs DEF Told, Sees, Certain
<1>5. PICK ref : ref = Ref("advance", a)
  OBVIOUS
<1>6. CancelEntries(ref) /\ ref.type # "payroll_accrual"
  BY <1>2, <1>5 DEF Ref
<1>7. \A i : PaidBy(i)' \subseteq PaidBy(i)
  BY <1>3 DEF PaidBy
<1>8. /\ \A c \in Advances \ {a} : advances'[c] = advances[c]
      /\ \A c \in {a} : <<"advance", c>> \in Touches(r)
      /\ \A c \in Advances :
             /\ advances'[c].settled = advances[c].settled
             /\ advances'[c].status = "cancelled" => advances[c].settled = 0
  BY <1>2, <1>4, CancelledStatuses
<1>9. Cancels(ref, {a})
  BY <1>3, <1>6, <1>7, <1>8 DEF Cancels
<1> QED BY <1>3, <1>8, <1>9, SeesFree, CancelTold

-----------------------------------------------------------------------------
(* More sums.                                                              *)

\* The sum of sums.
LEMMA SumPlus ==
    ASSUME NEW f, NEW g, NEW h, NEW S, IsFiniteSet(S),
           \A x \in S : f[x] \in Int /\ g[x] \in Int /\ h[x] = f[x] + g[x]
    PROVE  SumFunctionOnSet(h, S) = SumFunctionOnSet(f, S) + SumFunctionOnSet(g, S)
<1> DEFINE C == {V \in SUBSET S : SumFunctionOnSet(h, V)
                                    # SumFunctionOnSet(f, V) + SumFunctionOnSet(g, V)}
<1>1. SUFFICES ASSUME C # {} PROVE FALSE
  OBVIOUS
<1>2. \A V \in C : V \subseteq S /\ IsFiniteSet(V)
  BY FS_Subset
<1>3. PICK V \in C : \A W \in C : W \subseteq V => W = V
  <2>1. C \in SUBSET SUBSET S
    OBVIOUS
  <2> HIDE DEF C
  <2> QED BY <1>1, <2>1, SmallestSet
<1>4. V # {}
  <2>1. /\ SumFunctionOnSet(f, {}) = 0 /\ SumFunctionOnSet(g, {}) = 0
        /\ SumFunctionOnSet(h, {}) = 0
    BY SumEmpty
  <2>2. SumFunctionOnSet(h, {}) = SumFunctionOnSet(f, {}) + SumFunctionOnSet(g, {})
    BY <2>1
  <2> QED BY <2>2
<1>5. PICK x \in V : TRUE
  BY <1>4
<1>6. PICK W : W = V \ {x}
  OBVIOUS
<1>7. W \subseteq S /\ W \subseteq V /\ W # V /\ x \in S /\ IsFiniteSet(W) /\ IsFiniteSet(V)
  BY <1>2, <1>5, <1>6, FS_Subset
<1>8. /\ SumFunctionOnSet(f, V) = f[x] + SumFunctionOnSet(f, W)
      /\ SumFunctionOnSet(g, V) = g[x] + SumFunctionOnSet(g, W)
      /\ SumFunctionOnSet(h, V) = h[x] + SumFunctionOnSet(h, W)
  <2>1. \A y \in V : f[y] \in Int /\ g[y] \in Int /\ h[y] \in Int
    BY <1>2
  <2> QED BY <1>6, <1>7, <2>1, SumRemove
<1>9. /\ SumFunctionOnSet(f, W) \in Int /\ SumFunctionOnSet(g, W) \in Int
      /\ SumFunctionOnSet(h, W) \in Int
  <2>1. \A y \in W : f[y] \in Int /\ g[y] \in Int /\ h[y] \in Int
    BY <1>7
  <2> QED BY <1>7, <2>1, SumType
<1>10. SumFunctionOnSet(h, W) = SumFunctionOnSet(f, W) + SumFunctionOnSet(g, W)
  BY <1>3, <1>7
<1> QED BY <1>7, <1>8, <1>9, <1>10

\* What two sets of settlements take of an advance.
LEMMA GivenOfUnion ==
    ASSUME NEW R, NEW N, IsFiniteSet(R), IsFiniteSet(N), R \subseteq Settlements,
           N \subseteq Settlements, R \cap N = {}, NEW a
    PROVE  Given(R \cup N, a) = Given(R, a) + Given(N, a)
<1>1. PICK f, g, h, S, T :
        /\ f = [row \in R |-> row.amount] /\ g = [row \in N |-> row.amount]
        /\ h = [row \in R \cup N |-> row.amount]
        /\ S = {row \in R : row.advance = a} /\ T = {row \in N : row.advance = a}
  OBVIOUS
<1>2. IsFiniteSet(S) /\ IsFiniteSet(T) /\ S \cap T = {}
  BY <1>1, FS_Subset
<1>3. \A row \in S \cup T : h[row] \in Int
  BY <1>1 DEF Settlements
<1>4. SumFunctionOnSet(h, S \cup T) = SumFunctionOnSet(h, S) + SumFunctionOnSet(h, T)
  BY <1>2, <1>3, SumOfUnion
<1>5. SumFunctionOnSet(h, S) = SumFunctionOnSet(f, S)
  <2>1. \A row \in S : h[row] = f[row]
    BY <1>1
  <2> QED BY <1>2, <2>1, SumSame
<1>6. SumFunctionOnSet(h, T) = SumFunctionOnSet(g, T)
  <2>1. \A row \in T : h[row] = g[row]
    BY <1>1
  <2> QED BY <1>2, <2>1, SumSame
<1>7. S \cup T = {row \in R \cup N : row.advance = a}
  BY <1>1
<1>8. Given(R \cup N, a) = SumFunctionOnSet(h, S \cup T)
  BY <1>1, <1>7 DEF Given
<1>9. Given(R, a) = SumFunctionOnSet(f, S) /\ Given(N, a) = SumFunctionOnSet(g, T)
  BY <1>1 DEF Given
<1> QED BY <1>4, <1>5, <1>6, <1>8, <1>9

\* The settlements of a run: one for each advance it takes of.
TakenBy(N, content) ==
    /\ IsFiniteSet(N) /\ N \subseteq Settlements
    /\ \A row \in N : row.advance \in Taken(content) /\ row.amount = content.takes[row.advance]
    /\ \A a \in Taken(content) : \E row \in N : row.advance = a
    /\ \A p, q \in N : p.advance = q.advance => p = q

LEMMA GivenOnce ==
    ASSUME NEW content \in Payments, NEW N, TakenBy(N, content), NEW a \in Advances
    PROVE  Given(N, a) = content.takes[a]
<1>1. PICK g, T : g = [row \in N |-> row.amount] /\ T = {row \in N : row.advance = a}
  OBVIOUS
<1>2. Given(N, a) = SumFunctionOnSet(g, T)
  BY <1>1 DEF Given
<1>3. content.takes[a] \in Nat
  BY ContentTyped
<1>4. CASE a \in Taken(content)
  <2>1. PICK row \in N : row.advance = a
    BY <1>4 DEF TakenBy
  <2>2. T = {row}
    BY <1>1, <2>1 DEF TakenBy
  <2>3. g[row] = content.takes[a]
    BY <1>1, <2>1 DEF TakenBy
  <2> QED BY <1>2, <1>3, <2>2, <2>3, SumSingle
<1>5. CASE a \notin Taken(content)
  <2>1. T = {}
    BY <1>1, <1>5 DEF TakenBy
  <2>2. content.takes[a] = 0
    BY <1>3, <1>5 DEF Taken
  <2> QED BY <1>2, <2>1, <2>2, SumEmpty
<1> QED BY <1>4, <1>5

\* The amounts the advances are settled by grow with the deductions of a run.
LEMMA SettledWith ==
    ASSUME NEW content \in Payments, NEW f, NEW g,
           \A a \in Advances : f[a] \in Nat /\ g[a] = f[a] + content.takes[a]
    PROVE  /\ SumFunctionOnSet(f, Advances) \in Nat /\ Deducted(content) \in Nat
           /\ SumFunctionOnSet(g, Advances) = SumFunctionOnSet(f, Advances) + Deducted(content)
<1>1. PICK takes : takes = content.takes
  OBVIOUS
<1>2. \A a \in Advances : f[a] \in Int /\ takes[a] \in Int /\ g[a] = f[a] + takes[a]
  BY <1>1, ContentTyped
<1>3. SumFunctionOnSet(g, Advances)
         = SumFunctionOnSet(f, Advances) + SumFunctionOnSet(takes, Advances)
  BY <1>2, AdvancesFinite, SumPlus
<1>4. SumFunctionOnSet(f, Advances) \in Nat
  BY AdvancesFinite, SumType
<1>5. Deducted(content) = SumFunctionOnSet(takes, Advances) /\ Deducted(content) \in Nat
  BY <1>1, DeductedType DEF Deducted
<1> QED BY <1>3, <1>4, <1>5

-----------------------------------------------------------------------------
(* While requests are apart: approving and deleting.                       *)

LEMMA StandingsTyped ==
    ASSUME Certain
    PROVE  /\ IsFiniteSet(Standings) /\ Standings \subseteq Settlements
           /\ \A i : Deductions(i) \subseteq Standings
           /\ \A i \in DOMAIN runs : Deducts[i] = Deducted(runs[i].content) /\ Deducts[i] \in Nat
           /\ \A a \in Advances : Settled[a] = advances[a].settled /\ Settled[a] \in Nat
<1>1. IsFiniteSet(Standings) /\ Standings \subseteq Settlements
  BY FS_Subset DEF Standings, Certain, SettlementsKnown, TypeOK
<1>2. \A i : Deductions(i) \subseteq Standings
  BY DEF Deductions, Standings
<1>3. ASSUME NEW i \in DOMAIN runs
      PROVE  Deducts[i] = Deducted(runs[i].content) /\ Deducts[i] \in Nat
  BY RunTyped, DeductedType DEF Deducts, Certain
<1>4. ASSUME NEW a \in Advances PROVE Settled[a] = advances[a].settled /\ Settled[a] \in Nat
  <2>1. advances \in AdvanceTables
    BY DEF Certain, TypeOK
  <2> QED BY <2>1, AdvanceTyped DEF Settled
<1> QED BY <1>1, <1>2, <1>3, <1>4

\* A request that approves a run knows it, and its advances, as they are.
SeesRun(i, content, table) ==
    /\ content = runs[i].content
    /\ \A a \in Taken(content) : table[a] = advances[a] /\ advances[a].status = "active"

\* The run has just been deducted from its advances.
DeductedNow(i, content) ==
    /\ AdvancesTold'
    /\ Deductions(i)' = settlements' \ settlements
    /\ TakenBy(settlements' \ settlements, content)
    /\ \A row \in settlements' \ settlements : row.run = i

LEMMA ApprovalAdvances ==
    ASSUME Certain, Told, NEW i, NEW content \in Payments, NEW table,
           Approves(i, content, table), SeesRun(i, content, table)
    PROVE  DeductedNow(i, content)
<1>1. /\ i \in DOMAIN runs /\ runs[i].status = "draft"
      /\ DOMAIN runs' = DOMAIN runs
      /\ \A j \in DOMAIN runs : j # i => runs'[j] = runs[j]
      /\ runs'[i].content = runs[i].content /\ runs'[i].status = "completed"
      /\ runs[i].content = content
      /\ \A a \in Taken(content) : table[a] = advances[a] /\ advances[a].status = "active"
      /\ \A a \in Advances :
            /\ advances'[a].status = advances[a].status
            /\ a \in Taken(content) => advances'[a].settled = table[a].settled + content.takes[a]
            /\ a \notin Taken(content) => advances'[a] = advances[a]
  BY DEF Approves, Standing, SeesRun
<1>2. PICK new :
        /\ settlements' = settlements \cup new
        /\ IsFiniteSet(new) /\ new \subseteq Settlements
        /\ \A row \in new :
              /\ row.run = i /\ row.advance \in Taken(content)
              /\ row.amount = content.takes[row.advance]
              /\ row.status = "active" /\ row.deduction
        /\ \A a \in Taken(content) : \E row \in new : row.advance = a
        /\ \A p, q \in new : p.advance = q.advance => p = q
  BY DEF Approves
<1>3. Deductions(i) = {}
  BY <1>1 DEF Told, RunTold
<1>4. new \cap settlements = {} /\ settlements' \ settlements = new
  BY <1>2, <1>3 DEF Deductions
<1>5. Deductions(i)' = new
  BY <1>2, <1>3 DEF Deductions
<1>6. TakenBy(new, content)
  BY <1>2 DEF TakenBy
<1>7. Standings' = Standings \cup new /\ Standings \cap new = {}
  BY <1>2, <1>4 DEF Standings
<1>8. ASSUME NEW a \in Advances
      PROVE  /\ advances'[a].settled = advances[a].settled + content.takes[a]
             /\ advances[a].settled \in Nat /\ content.takes[a] \in Nat
  <2>1. advances[a].settled \in Nat /\ content.takes[a] \in Nat
    BY StandingsTyped, ContentTyped
  <2>2. a \notin Taken(content) => content.takes[a] = 0
    BY <2>1 DEF Taken
  <2> QED BY <1>1, <2>1, <2>2
<1>9. ASSUME NEW a \in Advances PROVE advances'[a].settled = Given(Standings', a)
  <2>1. PICK S : S = Standings
    OBVIOUS
  <2>2. IsFiniteSet(S) /\ S \subseteq Settlements /\ S \cap new = {}
    BY <1>7, <2>1, StandingsTyped
  <2>3. Given(S \cup new, a) = Given(S, a) + Given(new, a)
    BY <1>2, <2>2, GivenOfUnion
  <2>4. Given(new, a) = content.takes[a]
    BY <1>6, GivenOnce
  <2>5. advances[a].settled = Given(S, a)
    BY <2>1 DEF Told, AdvancesTold
  <2> QED BY <1>7, <1>8, <2>1, <2>3, <2>4, <2>5
<1>10. ASSUME NEW a \in Advances, advances'[a].status = "cancelled"
       PROVE  advances'[a].settled = 0
  <2>1. a \notin Taken(content)
    BY <1>1, <1>10
  <2> QED BY <1>1, <1>10, <2>1, CancelledStatuses
<1>11. \A row \in settlements' : row.deduction <=> row.status = "active"
  <2>1. ASSUME NEW row \in new PROVE row.deduction <=> row.status = "active"
    <3>1. row.deduction
      BY <1>2
    <3>2. row.status = "active"
      BY <1>2
    <3> QED BY <3>1, <3>2
  <2>2. \A row \in settlements : row.deduction <=> row.status = "active"
    BY Zenon DEF Told, AdvancesTold
  <2> QED BY <1>2, <2>1, <2>2, Zenon
<1>12. SumFunctionOnSet(Settled', Advances) = SumFunctionOnSet(Deducts', Completed')
  <2>1. PICK f, g, p, q, C :
          f = Settled /\ g = Settled' /\ p = Deducts /\ q = Deducts' /\ C = Completed
    OBVIOUS
  <2>2. \A a \in Advances : f[a] \in Nat /\ g[a] = f[a] + content.takes[a]
    BY <1>8, <2>1 DEF Settled
  <2>3. /\ SumFunctionOnSet(f, Advances) \in Nat /\ Deducted(content) \in Nat
        /\ SumFunctionOnSet(g, Advances) = SumFunctionOnSet(f, Advances) + Deducted(content)
    BY <2>2, SettledWith
  <2>4. /\ Completed' = C \cup {i} /\ i \notin C /\ IsFiniteSet(C) /\ C \subseteq DOMAIN runs
        /\ i \in DOMAIN runs
    BY <1>1, <2>1, CompletedFinite DEF Completed, Certain
  <2>5. \A j \in C : p[j] \in Int /\ q[j] = p[j]
    <3>1. ASSUME NEW j \in C PROVE p[j] \in Int /\ q[j] = p[j]
      <4>1. j \in DOMAIN runs /\ j # i /\ runs'[j] = runs[j] /\ j \in DOMAIN runs'
        BY <1>1, <2>4
      <4>2. p[j] = Deducted(runs[j].content) /\ p[j] \in Nat
        BY <2>1, <4>1, StandingsTyped
      <4>3. q[j] = Deducted(runs'[j].content)
        BY <2>1, <4>1 DEF Deducts, Deducted
      <4> QED BY <4>1, <4>2, <4>3
    <3> QED BY <3>1
  <2>6. q[i] = Deducted(content)
    <3>1. q[i] = Deducted(runs'[i].content)
      BY <1>1, <2>1 DEF Deducts, Deducted
    <3> QED BY <1>1, <3>1
  <2>7. SumFunctionOnSet(q, C \cup {i}) = SumFunctionOnSet(p, C) + q[i]
    BY <2>3, <2>4, <2>5, <2>6, SumGrows
  <2>8. SumFunctionOnSet(f, Advances) = SumFunctionOnSet(p, C)
    BY <2>1 DEF Told, AdvancesTold
  <2> QED BY <2>1, <2>3, <2>4, <2>6, <2>7, <2>8
<1>13. AdvancesTold'
  BY <1>9, <1>10, <1>11, <1>12 DEF AdvancesTold
<1> QED BY <1>2, <1>4, <1>5, <1>6, <1>13 DEF DeductedNow

\* A run has just been accrued.
AccruedNow(i, content) ==
    Accrued(i, Payable, content.net)' /\ Accrued(i, AdvanceAsset, Deducted(content))'

\* Entries that are posted, the accrual es of run i among them.
AccruesAmong(i, es, cs) ==
    /\ cs \in Seq(Entries) /\ \A n \in DOMAIN cs : cs[n].status = "active"
    /\ \A n \in DOMAIN es : \E m \in DOMAIN cs : cs[m] = es[n]
    /\ \A m \in DOMAIN cs :
          \/ \E n \in DOMAIN es : cs[m] = es[n]
          \/ cs[m].ref.type = "salary"

LEMMA AccruesNow ==
    ASSUME LedgerTypeOK, NEW i, Accrual(i) = {}, NEW content, NEW es, Accrues(i, content, es),
           NEW cs, AccruesAmong(i, es, cs), ledger' = ledger \o cs
    PROVE  AccruedNow(i, content)
<1>1. /\ cs \in Seq(Entries) /\ \A n \in DOMAIN cs : cs[n].status = "active"
  BY DEF AccruesAmong
<1>2. /\ \A e \in DOMAIN ledger : e \in DOMAIN ledger' /\ ledger'[e] = ledger[e]
      /\ \A e \in ActiveEntries' : e \notin ActiveEntries =>
            e - Len(ledger) \in DOMAIN cs /\ ledger'[e] = cs[e - Len(ledger)]
      /\ \A n \in DOMAIN cs :
            Len(ledger) + n \in ActiveEntries' /\ ledger'[Len(ledger) + n] = cs[n]
  BY <1>1, AppendIs
<1>3. ActiveEntries \subseteq DOMAIN ledger /\ ActiveEntries' \subseteq DOMAIN ledger'
  BY DEF ActiveEntries
<1>4. PICK ref : ref = Ref("payroll_accrual", i)
  OBVIOUS
<1>5. Accrual(i)' = {e \in ActiveEntries' : ledger'[e].ref = ref}
  BY <1>3, <1>4 DEF Accrual, EntriesOf, Ref
<1>6. ASSUME NEW e \in Accrual(i)' PROVE \E n \in DOMAIN es : ledger'[e] = es[n]
  <2>1. e \notin ActiveEntries
    <3>1. SUFFICES ASSUME e \in ActiveEntries PROVE FALSE
      OBVIOUS
    <3>2. e \in DOMAIN ledger /\ ledger[e].ref = ref
      BY <1>2, <1>3, <1>5, <1>6, <3>1
    <3> QED BY <1>4, <3>1, <3>2 DEF Accrual, EntriesOf
  <2>2. PICK m \in DOMAIN cs : ledger'[e] = cs[m] /\ cs[m].ref = ref
    BY <1>2, <1>5, <1>6, <2>1
  <2> QED BY <1>4, <2>2 DEF AccruesAmong, Ref
<1>7. ASSUME NEW account \in {Payable, AdvanceAsset}, NEW amount,
             account = Payable => amount = content.net,
             account = AdvanceAsset => amount = Deducted(content)
      PROVE  Accrued(i, account, amount)'
  <2>1. ASSUME amount = 0 PROVE Against(i, account)' = {}
    <3>1. SUFFICES ASSUME NEW e \in Accrual(i)', ledger'[e].credit = account PROVE FALSE
      BY DEF Against
    <3>2. PICK n \in DOMAIN es : ledger'[e] = es[n]
      BY <1>6, <3>1
    <3> QED BY <1>7, <2>1, <3>1, <3>2, AccountsApart DEF Accrues, AccrualEntryOf
  <2>2. ASSUME amount # 0
        PROVE  \E e \in Against(i, account)' : ledger'[e].amount = amount
    <3>1. PICK n \in DOMAIN es : AccrualEntryOf(i, account, amount, es[n])
      BY <1>7, <2>2 DEF Accrues
    <3>2. PICK m \in DOMAIN cs : cs[m] = es[n]
      BY <3>1 DEF AccruesAmong
    <3>3. PICK e : e = Len(ledger) + m
      OBVIOUS
    <3>4. e \in ActiveEntries' /\ ledger'[e] = es[n]
      BY <1>2, <3>2, <3>3
    <3>5. e \in Accrual(i)' /\ ledger'[e].credit = account /\ ledger'[e].amount = amount
      BY <1>4, <1>5, <3>1, <3>4 DEF AccrualEntryOf
    <3> QED BY <3>5 DEF Against
  <2> QED BY <2>1, <2>2 DEF Accrued
<1>8. PICK n, m : n = content.net /\ m = Deducted(content)
  OBVIOUS
<1>9. Accrued(i, Payable, n)' /\ Accrued(i, AdvanceAsset, m)'
  BY <1>7, <1>8, AccountsApart
<1> QED BY <1>8, <1>9 DEF AccruedNow, Deducted

LEMMA CommitApprovalTold ==
    ASSUME Certain, Told, NEW r \in Attempts, CommitApproval(r), RequestsApart'
    PROVE  Told'
<1>1. PICK b, i, content, table :
        b = attempt[r] /\ i = b.run /\ content = b.content /\ table = b.table
  OBVIOUS
<1>2. b.pc = "accruing" /\ content \in Payments /\ Approves(i, content, table)
  BY <1>1, CommitApprovalIs
<1>3. SeesRun(i, content, table)
  BY <1>1, <1>2 DEF Told, Sees, SeesRun
<1>4. /\ <<"run", i>> \in Touches(r)
      /\ \A a \in Taken(content) : <<"advance", a>> \in Touches(r)
  BY <1>1, <1>2, TouchesIs DEF OnRun, Certain
<1>5. /\ AdvancesTold'
      /\ Deductions(i)' = settlements' \ settlements
      /\ TakenBy(settlements' \ settlements, content)
      /\ \A row \in settlements' \ settlements : row.run = i
  BY <1>2, <1>3, ApprovalAdvances DEF DeductedNow
<1>6. PICK es : Accrues(i, content, es) /\ ledger' = ledger \o es
  BY <1>2 DEF Approves
<1>7. Goes(r, Free) /\ salaries' = salaries
  BY DEF CommitApproval, Ends, Goes
<1>8. /\ i \in DOMAIN runs /\ runs[i].status = "draft" /\ DOMAIN runs' = DOMAIN runs
      /\ \A j \in DOMAIN runs : j # i => runs'[j] = runs[j]
      /\ runs'[i].content = runs[i].content /\ runs'[i].status = "completed"
      /\ \A a \in Advances \ Taken(content) : advances'[a] = advances[a]
      /\ settlements \subseteq settlements'
  BY <1>2 DEF Approves, Standing
<1>9. /\ es \in Seq(Entries)
      /\ \A n \in DOMAIN es : es[n].status = "active" /\ es[n].ref = Ref("payroll_accrual", i)
  BY <1>6 DEF Accrues, AccrualEntryOf
<1>10. ASSUME NEW j, j # i
       PROVE  Accrual(j)' = Accrual(j) /\ \A e \in Accrual(j) : ledger'[e] = ledger[e]
  <2>1. Ref("payroll_accrual", j) # Ref("payroll_accrual", i)
    BY <1>10 DEF Ref
  <2>2. \A n \in DOMAIN es : es[n].ref # Ref("payroll_accrual", j)
    BY <1>9, <2>1
  <2>3. LedgerTypeOK
    BY DEF Certain, TypeOK
  <2> QED BY <1>6, <1>9, <2>2, <2>3, AccrualPosted
<1>11. \A j : j # i => Deductions(j)' = Deductions(j)
  BY <1>5, <1>8 DEF Deductions
<1>12. \A j : PaidBy(j)' = PaidBy(j)
  BY <1>7 DEF PaidBy
<1>13. Changes(i, Taken(content))
  BY <1>8, <1>10, <1>11, <1>12 DEF Changes
<1>14. AccruedNow(i, content)
  <2>1. Accrual(i) = {}
    BY <1>8 DEF Told, RunTold
  <2>2. AccruesAmong(i, es, es)
    BY <1>9 DEF AccruesAmong
  <2> QED BY <1>6, <2>1, <2>2, AccruesNow DEF Certain, TypeOK
<1>15. RunTold(i)'
  <2>1. {row.advance : row \in Deductions(i)'} = Taken(content)
    BY <1>5 DEF TakenBy
  <2>2. \A row \in Deductions(i)' : row.amount = content.takes[row.advance]
    BY <1>5 DEF TakenBy
  <2>3. runs'[i].content = content
    BY <1>3, <1>8 DEF SeesRun
  <2> QED BY <1>8, <1>14, <2>1, <2>2, <2>3 DEF RunTold, AccruedNow, Taken, Deducted
<1>16. DOMAIN runs' \subseteq DOMAIN runs \cup {i}
  BY <1>8
<1>17. Free \in Busy \cup {Free}
  OBVIOUS
<1> QED BY <1>4, <1>5, <1>7, <1>13, <1>15, <1>16, <1>17, SeesFree, WriteTold

\* A supplementary payment leaves the other runs and the advances alone.
LEMMA CommitSupplementaryTold ==
    ASSUME Certain, Told, NEW r \in Attempts, CommitSupplementary(r), RequestsApart'
    PROVE  Told'
<1>1. PICK i, content, v :
        i = Len(runs) + 1 /\ content = attempt[r].content /\ v = attempt[r].vault
  OBVIOUS
<1>2. Adds(i, content, v) /\ content \in Payments /\ Taken(content) = {}
  BY <1>1, CommitSupplementaryIs
<1>3. PICK s, x, es :
        /\ Pays(s, x, i, content.net, v) /\ Accrues(i, content, es)
        /\ Append(es, x) \in Seq(Entries) /\ ledger' = ledger \o Append(es, x)
  BY <1>2 DEF Adds
<1>4. UNCHANGED <<advances, settlements>> /\ Goes(r, Free)
  BY DEF CommitSupplementary, Ends, Goes
<1>5. /\ i \notin DOMAIN runs /\ DOMAIN runs' = DOMAIN runs \cup {i}
      /\ \A j \in DOMAIN runs : runs'[j] = runs[j]
      /\ runs'[i].content = content /\ runs'[i].status = "completed"
  BY <1>2 DEF Adds
<1>6. Accrual(i) = {} /\ PaidBy(i) = {} /\ Deductions(i) = {}
  BY <1>5, NoneYet
<1>7. PICK cs : cs = Append(es, x)
  OBVIOUS
<1>8. /\ es \in Seq(Entries) /\ x \in Entries /\ x.status = "active" /\ x.ref.type = "salary"
      /\ cs \in Seq(Entries) /\ ledger' = ledger \o cs
  BY <1>3, <1>7 DEF Accrues, Pays, Ref
<1>9. /\ DOMAIN cs = DOMAIN es \cup {Len(es) + 1} /\ cs[Len(es) + 1] = x
      /\ \A n \in DOMAIN es : cs[n] = es[n]
  BY <1>7, <1>8, Appended
<1>10. \A n \in DOMAIN es : es[n].status = "active" /\ es[n].ref = Ref("payroll_accrual", i)
  BY <1>3 DEF Accrues, AccrualEntryOf
<1>11. AccruesAmong(i, es, cs)
  <2>1. ASSUME NEW m \in DOMAIN cs
        PROVE  /\ cs[m].status = "active"
               /\ (\E n \in DOMAIN es : cs[m] = es[n]) \/ cs[m].ref.type = "salary"
    BY <1>8, <1>9, <1>10
  <2>2. \A n \in DOMAIN es : \E m \in DOMAIN cs : cs[m] = es[n]
    BY <1>9
  <2> QED BY <1>8, <2>1, <2>2 DEF AccruesAmong
<1>12. AccruedNow(i, content)
  BY <1>3, <1>6, <1>8, <1>11, AccruesNow DEF Certain, TypeOK
<1>13. ASSUME NEW j, j # i
       PROVE  Accrual(j)' = Accrual(j) /\ \A e \in Accrual(j) : ledger'[e] = ledger[e]
  <2>1. Ref("payroll_accrual", j) # Ref("payroll_accrual", i)
    BY <1>13 DEF Ref
  <2>2. Ref("payroll_accrual", j).type # "salary"
    BY DEF Ref
  <2>3. \A n \in DOMAIN cs : cs[n].ref # Ref("payroll_accrual", j)
    BY <1>8, <1>9, <1>10, <2>1, <2>2
  <2>4. \A n \in DOMAIN cs : cs[n].status = "active"
    BY <1>11 DEF AccruesAmong
  <2>5. LedgerTypeOK
    BY DEF Certain, TypeOK
  <2> QED BY <1>8, <2>3, <2>4, <2>5, AccrualPosted
<1>14. \A j : j # i => PaidBy(j)' = PaidBy(j)
  BY <1>3 DEF PaidBy, Pays
<1>15. \A j : Deductions(j)' = Deductions(j)
  BY <1>4 DEF Deductions
<1>16. Changes(i, {})
  BY <1>4, <1>5, <1>13, <1>14, <1>15 DEF Changes
<1>17. RunTold(i)'
  BY <1>2, <1>5, <1>6, <1>12, <1>15 DEF RunTold, AccruedNow, Taken, Deducted
<1>18. AdvancesTold'
  <2>1. PICK p, q, C : p = Deducts /\ q = Deducts' /\ C = Completed
    OBVIOUS
  <2>2. Completed' = C \cup {i} /\ i \notin C /\ IsFiniteSet(C) /\ C \subseteq DOMAIN runs
    BY <1>5, <2>1, CompletedFinite DEF Completed, Certain
  <2>3. ASSUME NEW j \in C PROVE p[j] \in Int /\ q[j] = p[j]
    <3>1. j \in DOMAIN runs /\ runs'[j] = runs[j] /\ j \in DOMAIN runs'
      BY <1>5, <2>2
    <3>2. p[j] = Deducted(runs[j].content) /\ p[j] \in Nat
      BY <2>1, <3>1, StandingsTyped
    <3>3. q[j] = Deducted(runs'[j].content)
      BY <2>1, <3>1 DEF Deducts, Deducted
    <3> QED BY <3>1, <3>2, <3>3
  <2>4. Deducted(content) = 0
    <3>1. PICK takes : takes = content.takes
      OBVIOUS
    <3>2. \A a \in Advances : takes[a] = 0
      BY <1>2, <3>1, ContentTyped DEF Taken
    <3>3. SumFunctionOnSet(takes, Advances) = 0
      BY <3>2, AdvancesFinite, SumOfZeros
    <3> QED BY <3>1, <3>3 DEF Deducted
  <2>5. q[i] = 0
    BY <1>5, <2>1, <2>4 DEF Deducts, Deducted
  <2>6. SumFunctionOnSet(q, C \cup {i}) = SumFunctionOnSet(p, C) + q[i]
    BY <2>2, <2>3, <2>5, SumGrows
  <2>7. SumFunctionOnSet(p, C) \in Int
    BY <2>2, <2>3, SumType
  <2>8. Settled' = Settled /\ Standings' = Standings
    BY <1>4 DEF Settled, Standings
  <2>9. SumFunctionOnSet(Settled', Advances) = SumFunctionOnSet(Deducts', Completed')
    BY <2>1, <2>2, <2>5, <2>6, <2>7, <2>8 DEF Told, AdvancesTold
  <2>10. \A row \in settlements' : row.deduction <=> row.status = "active"
    BY <1>4, Zenon DEF Told, AdvancesTold
  <2>11. \A a \in Advances :
            /\ advances'[a].settled = Given(Standings', a)
            /\ advances'[a].status = "cancelled" => advances'[a].settled = 0
    BY <1>4, <2>8 DEF Told, AdvancesTold
  <2> QED BY <2>9, <2>10, <2>11 DEF AdvancesTold
<1>19. DOMAIN runs' \subseteq DOMAIN runs \cup {i} /\ Free \in Busy \cup {Free}
       /\ (i \in DOMAIN runs => <<"run", i>> \in Touches(r))
       /\ \A a \in {} : <<"advance", a>> \in Touches(r)
  BY <1>5
<1> QED BY <1>4, <1>16, <1>17, <1>18, <1>19, SeesFree, WriteTold

\* A request that deletes a run knows its deductions and their advances as they are.
SeesRows(i, rows, table) ==
    /\ i \in DOMAIN runs /\ runs[i].status = "completed" /\ PaidBy(i) = {}
    /\ rows = Deductions(i)
    /\ \A row \in rows : table[row.advance] = advances[row.advance]

LEMMA RowsTaken ==
    ASSUME Certain, Told, NEW i \in DOMAIN runs, runs[i].status = "completed"
    PROVE  /\ TakenBy(Deductions(i), runs[i].content)
           /\ \A row \in Deductions(i) : row.run = i /\ row.status = "active" /\ row.deduction
<1>1. PICK rows, content : rows = Deductions(i) /\ content = runs[i].content
  OBVIOUS
<1>2. IsFiniteSet(rows) /\ rows \subseteq Settlements
  BY <1>1, StandingsTyped, FS_Subset
<1>3. /\ {row.advance : row \in rows} = Taken(content)
      /\ \A row \in rows : row.amount = content.takes[row.advance]
  BY <1>1 DEF Told, RunTold
<1>4. \A row \in rows : row \in settlements /\ row.run = i /\ row.status = "active"
  BY <1>1 DEF Deductions
<1>5. ASSUME NEW row \in rows PROVE row.deduction
  <2>1. row \in settlements /\ row.status = "active"
    BY <1>4, <1>5
  <2> QED BY <2>1, Zenon DEF Told, AdvancesTold
<1>6. ASSUME NEW p \in rows, NEW q \in rows, p.advance = q.advance PROVE p = q
  <2>1. p.run = q.run /\ p.status = q.status /\ p.amount = q.amount
    BY <1>3, <1>4, <1>6
  <2>2. p.number = q.number
    BY <1>4, <1>6 DEF Certain, SettlementsKnown
  <2>3. p.deduction /\ q.deduction
    BY <1>5, <1>6
  <2>4. p \in Settlements /\ q \in Settlements
    BY <1>2, <1>6
  <2>5. p.deduction = q.deduction
    <3>1. p.deduction \in BOOLEAN /\ q.deduction \in BOOLEAN
      BY <2>4 DEF Settlements
    <3> QED BY <2>3, <3>1, Zenon
  <2> QED BY <1>6, <2>1, <2>2, <2>4, <2>5 DEF Settlements
<1>7. TakenBy(rows, content)
  BY <1>2, <1>3, <1>6 DEF TakenBy
<1> QED BY <1>1, <1>4, <1>5, <1>7

\* The run has just been undone.
UndoneNow(i, rows) ==
    /\ Standings' = Standings \ rows
    /\ Deductions(i)' = {}
    /\ \A j : j # i => Deductions(j)' = Deductions(j)
    /\ \A row \in settlements' : row.deduction <=> row.status = "active"

LEMMA DeletedRows ==
    ASSUME Certain, Told, NEW i, NEW rows, NEW table, Deletes(i, rows, table),
           SeesRows(i, rows, table)
    PROVE  UndoneNow(i, rows)
<1>1. rows = Deductions(i) /\ settlements' = {Undone(row, i, rows) : row \in settlements}
  BY DEF Deletes, SeesRows
<1>2. settlements \subseteq Settlements
  BY DEF Certain, TypeOK
<1>3. ASSUME NEW row \in settlements, row.run # i PROVE Undone(row, i, rows) = row
  <2>1. PICK x : x = Undone(row, i, rows)
    OBVIOUS
  <2>2. row \in Settlements /\ row \notin rows
    BY <1>1, <1>2, <1>3 DEF Deductions
  <2>3. /\ x \in Settlements /\ x.run = row.run /\ x.number = row.number
        /\ x.advance = row.advance /\ x.amount = row.amount /\ x.status = row.status
    BY <1>3, <2>1, <2>2, UndoneIs
  <2>4. x.deduction = row.deduction
    <3>1. x.deduction = (row.deduction /\ row \notin rows)
      BY <2>1, <2>2, UndoneIs
    <3>2. row.deduction = TRUE \/ row.deduction = FALSE
      BY <2>2 DEF Settlements
    <3>3. CASE row.deduction = TRUE
      <4>1. (row.deduction /\ row \notin rows) = TRUE
        BY <2>2, <3>3, Zenon
      <4> QED BY <3>1, <3>3, <4>1, Zenon
    <3>4. CASE row.deduction = FALSE
      <4>1. (row.deduction /\ row \notin rows) = FALSE
        BY <3>4, Zenon
      <4> QED BY <3>1, <3>4, <4>1, Zenon
    <3> QED BY <3>2, <3>3, <3>4
  <2>5. x = row
    BY <2>2, <2>3, <2>4 DEF Settlements
  <2> QED BY <2>1, <2>5
<1>4. ASSUME NEW row \in settlements, row.run = i, NEW x, x = Undone(row, i, rows)
      PROVE  x.run = i /\ x.status = "reversed" /\ ~x.deduction
  <2>1. row \in Settlements
    BY <1>2, <1>4
  <2>2. x.run = i /\ x.status = "reversed"
    BY <1>4, <2>1, UndoneIs
  <2>3. x.deduction = (row.deduction /\ row \notin rows)
    BY <1>4, <2>1, UndoneIs
  <2>4. row.deduction => row \in rows
    <3>1. row.deduction => row.status = "active"
      BY <1>4, Zenon DEF Told, AdvancesTold
    <3>2. row.status = "active" => row \in rows
      BY <1>1, <1>4 DEF Deductions
    <3> QED BY <3>1, <3>2
  <2> QED BY <2>2, <2>3, <2>4, Zenon
<1>5. \A x \in settlements' : x.run # i => x \in settlements
  <2>1. ASSUME NEW x \in settlements', x.run # i PROVE x \in settlements
    <3>1. PICK row \in settlements : x = Undone(row, i, rows)
      BY <1>1, <2>1
    <3> QED BY <1>3, <1>4, <2>1, <3>1
  <2> QED BY <2>1
<1>6. \A x \in settlements : x.run # i => x \in settlements'
  BY <1>1, <1>3
<1>7. ASSUME NEW x \in settlements', x.run = i PROVE x.status = "reversed" /\ ~x.deduction
  <2>1. PICK row \in settlements : x = Undone(row, i, rows)
    BY <1>1, <1>7
  <2>2. CASE row.run = i
    BY <1>4, <2>1, <2>2
  <2>3. CASE row.run # i
    BY <1>3, <1>7, <2>1, <2>3
  <2> QED BY <2>2, <2>3
<1>8. Standings' = Standings \ rows
  <2>1. \A x : x \in Standings' <=> x \in settlements' /\ x.status = "active"
    BY DEF Standings
  <2>2. \A x : x \in Standings \ rows <=> x \in settlements /\ x.status = "active" /\ x.run # i
    BY <1>1 DEF Standings, Deductions
  <2> QED BY <1>5, <1>6, <1>7, <2>1, <2>2
<1>9. Deductions(i)' = {}
  BY <1>7 DEF Deductions
<1>10. \A j : j # i => Deductions(j)' = Deductions(j)
  BY <1>5, <1>6 DEF Deductions
<1>11. ASSUME NEW x \in settlements' PROVE x.deduction <=> x.status = "active"
  <2>1. CASE x.run = i
    <3>1. x.status = "reversed" /\ ~x.deduction
      BY <1>7, <2>1
    <3>2. "reversed" # "active"
      OBVIOUS
    <3> QED BY <3>1, <3>2, Zenon
  <2>2. CASE x.run # i
    <3>1. x \in settlements
      BY <1>5, <2>2
    <3> QED BY <3>1, Zenon DEF Told, AdvancesTold
  <2> QED BY <2>1, <2>2
<1> QED BY <1>8, <1>9, <1>10, <1>11 DEF UndoneNow

LEMMA DeletedAdvances ==
    ASSUME Certain, Told, NEW i, NEW rows, NEW table, Deletes(i, rows, table),
           SeesRows(i, rows, table), UndoneNow(i, rows)
    PROVE  AdvancesTold'
<1>1. /\ i \in DOMAIN runs /\ runs[i].status = "completed" /\ rows = Deductions(i)
      /\ \A row \in rows : table[row.advance] = advances[row.advance]
  BY DEF SeesRows
<1>2. /\ DOMAIN runs' = DOMAIN runs
      /\ \A j \in DOMAIN runs : j # i => runs'[j] = runs[j]
      /\ runs'[i].status = "deleted"
      /\ \A a \in Advances :
            /\ advances'[a].status = advances[a].status
            /\ (\A row \in rows : row.advance # a) => advances'[a] = advances[a]
            /\ (\E row \in rows : row.advance = a) =>
                  advances'[a].settled = IF Given(rows, a) < table[a].settled
                                         THEN table[a].settled - Given(rows, a) ELSE 0
  BY DEF Deletes
<1>3. PICK content : content = runs[i].content
  OBVIOUS
<1>4. content \in Payments /\ TakenBy(rows, content)
  BY <1>1, <1>3, RowsTaken, RunTyped DEF Certain
<1>5. PICK S, N : S = Standings /\ N = S \ rows
  OBVIOUS
<1>6. /\ IsFiniteSet(S) /\ S \subseteq Settlements /\ rows \subseteq S
      /\ IsFiniteSet(N) /\ N \subseteq Settlements /\ IsFiniteSet(rows)
      /\ rows \subseteq Settlements /\ Standings' = N
  <2>1. IsFiniteSet(S) /\ S \subseteq Settlements /\ rows \subseteq S
    BY <1>1, <1>5, StandingsTyped
  <2>2. Standings' = N
    BY <1>5 DEF UndoneNow
  <2> QED BY <1>5, <2>1, <2>2, FS_Subset
<1>7. ASSUME NEW a \in Advances
      PROVE  /\ advances'[a].settled = Given(N, a)
             /\ Given(N, a) \in Nat
             /\ advances[a].settled = Given(N, a) + content.takes[a]
             /\ advances'[a].status = "cancelled" => advances'[a].settled = 0
  <2>1. PICK k, m, n : k = Given(N, a) /\ m = content.takes[a] /\ n = advances[a].settled
    OBVIOUS
  <2>2. k \in Nat /\ m \in Nat
    BY <1>4, <1>6, <2>1, GivenType, ContentTyped
  <2>3. Given(rows, a) = m
    BY <1>4, <2>1, GivenOnce
  <2>4. n = k + m
    <3>1. Given(N \cup rows, a) = Given(N, a) + Given(rows, a)
      BY <1>5, <1>6, GivenOfUnion
    <3>2. N \cup rows = S
      BY <1>5, <1>6
    <3>3. n = Given(S, a)
      BY <1>5, <2>1 DEF Told, AdvancesTold
    <3> QED BY <2>1, <2>3, <3>1, <3>2, <3>3
  <2>5. advances'[a].settled = k
    <3>1. CASE \A row \in rows : row.advance # a
      <4>1. advances'[a] = advances[a]
        BY <1>2, <3>1
      <4>2. a \notin Taken(content)
        BY <1>4, <3>1 DEF TakenBy
      <4>3. m = 0
        BY <2>1, <2>2, <4>2 DEF Taken
      <4>4. n = k
        BY <2>2, <2>4, <4>3
      <4> QED BY <2>1, <4>1, <4>4
    <3>2. CASE \E row \in rows : row.advance = a
      <4>1. table[a] = advances[a]
        BY <1>1, <3>2
      <4>2. advances'[a].settled = IF m < n THEN n - m ELSE 0
        BY <1>2, <2>1, <2>3, <3>2, <4>1
      <4> QED BY <2>2, <2>4, <4>2
    <3> QED BY <3>1, <3>2
  <2>6. advances'[a].status = "cancelled" => k = 0
    <3>1. advances'[a].status = "cancelled" => n = 0
      BY <1>2, <2>1, CancelledStatuses
    <3> QED BY <2>2, <2>4, <3>1
  <2> QED BY <2>1, <2>2, <2>4, <2>5, <2>6
<1>8. SumFunctionOnSet(Settled', Advances) = SumFunctionOnSet(Deducts', Completed')
  <2>1. PICK f, g, p, q, C :
          f = Settled' /\ g = Settled /\ p = Deducts /\ q = Deducts' /\ C = Completed
    OBVIOUS
  <2>2. \A a \in Advances : f[a] \in Nat /\ g[a] = f[a] + content.takes[a]
    BY <1>7, <2>1 DEF Settled
  <2>3. /\ SumFunctionOnSet(f, Advances) \in Nat /\ Deducted(content) \in Nat
        /\ SumFunctionOnSet(g, Advances) = SumFunctionOnSet(f, Advances) + Deducted(content)
    BY <1>4, <2>2, SettledWith
  <2>4. /\ Completed' = C \ {i} /\ i \in C /\ IsFiniteSet(C) /\ C \subseteq DOMAIN runs
        /\ IsFiniteSet(C \ {i})
    <3>1. /\ Completed' = C \ {i} /\ i \in C /\ IsFiniteSet(C) /\ C \subseteq DOMAIN runs
      BY <1>1, <1>2, <2>1, CompletedFinite DEF Completed, Certain
    <3> QED BY <3>1, FS_Subset
  <2>5. \A j \in C : p[j] = Deducted(runs[j].content) /\ p[j] \in Int
    BY <2>1, <2>4, StandingsTyped
  <2>6. ASSUME NEW j \in C \ {i} PROVE p[j] = q[j]
    <3>1. j \in DOMAIN runs' /\ runs'[j] = runs[j]
      BY <1>2, <2>4, <2>6
    <3>2. q[j] = Deducted(runs'[j].content)
      BY <2>1, <3>1 DEF Deducts, Deducted
    <3> QED BY <2>5, <2>6, <3>1, <3>2
  <2>7. SumFunctionOnSet(p, C \ {i}) = SumFunctionOnSet(p, C) - p[i]
    BY <2>4, <2>5, SumShrinks
  <2>8. SumFunctionOnSet(p, C \ {i}) = SumFunctionOnSet(q, C \ {i})
    BY <2>4, <2>6, SumSame
  <2>9. SumFunctionOnSet(g, Advances) = SumFunctionOnSet(p, C)
    BY <2>1 DEF Told, AdvancesTold
  <2>10. p[i] = Deducted(content)
    BY <1>3, <2>4, <2>5
  <2> QED BY <2>1, <2>3, <2>4, <2>7, <2>8, <2>9, <2>10
<1>9. \A row \in settlements' : row.deduction <=> row.status = "active"
  BY Zenon DEF UndoneNow
<1>10. \A a \in Advances :
          /\ advances'[a].settled = Given(Standings', a)
          /\ advances'[a].status = "cancelled" => advances'[a].settled = 0
  BY <1>6, <1>7
<1> QED BY <1>8, <1>9, <1>10 DEF AdvancesTold

LEMMA FinishDeleteTold ==
    ASSUME Certain, Told, NEW r \in Attempts, FinishDelete(r), RequestsApart'
    PROVE  Told'
<1>1. PICK b, i, rows, table :
        b = attempt[r] /\ i = b.run /\ rows = b.rows /\ table = b.table
  OBVIOUS
<1>2. b.pc = "reversing" /\ Deletes(i, rows, table)
  BY <1>1, FinishDeleteIs
<1>3. Sees(b) /\ Knows(b)
  BY <1>1 DEF Told, Certain
<1>4. SeesRows(i, rows, table)
  BY <1>1, <1>2, <1>3 DEF Sees, SeesRows, Knows, OnRun
<1>5. UndoneNow(i, rows) /\ AdvancesTold'
  <2>1. UndoneNow(i, rows)
    BY <1>2, <1>4, DeletedRows
  <2> QED BY <1>2, <1>4, <2>1, DeletedAdvances
<1>6. /\ i \in DOMAIN runs /\ DOMAIN runs' = DOMAIN runs
      /\ \A j \in DOMAIN runs : j # i => runs'[j] = runs[j]
      /\ runs'[i].status = "deleted" /\ PaidBy(i) = {} /\ rows = Deductions(i)
      /\ CancelEntries(Ref("payroll_accrual", i))
      /\ \A a \in Advances : (\A row \in rows : row.advance # a) => advances'[a] = advances[a]
  BY <1>2, <1>4 DEF Deletes, SeesRows, Standing
<1>7. Goes(r, Free) /\ salaries' = salaries
  BY DEF FinishDelete, Ends, Goes
<1>8. PICK A : A = {row.advance : row \in rows}
  OBVIOUS
<1>9. <<"run", i>> \in Touches(r) /\ \A a \in A : <<"advance", a>> \in Touches(r)
  <2>1. /\ <<"run", i>> \in Touches(r)
        /\ \A row \in settlements : row.run = i => <<"advance", row.advance>> \in Touches(r)
    BY <1>1, <1>2, TouchesIs DEF OnRun, Certain
  <2> QED BY <1>6, <1>8, <2>1 DEF Deductions
<1>10. PICK ref : ref = Ref("payroll_accrual", i)
  OBVIOUS
<1>11. LedgerTypeOK /\ CancelEntries(ref)
  BY <1>6, <1>10 DEF Certain, TypeOK
<1>12. ASSUME NEW j, j # i
       PROVE  Accrual(j)' = Accrual(j) /\ \A e \in Accrual(j) : ledger'[e] = ledger[e]
  <2>1. ref # Ref("payroll_accrual", j)
    BY <1>10, <1>12 DEF Ref
  <2> QED BY <1>11, <2>1, AccrualCancelled
<1>13. Accrual(i)' = {}
  BY <1>10, <1>11, AccrualCancelled
<1>14. \A j : PaidBy(j)' = PaidBy(j)
  BY <1>7 DEF PaidBy
<1>15. Changes(i, A)
  <2>1. \A a \in Advances \ A : advances'[a] = advances[a]
    BY <1>6, <1>8
  <2>2. \A j \in DOMAIN runs : j # i => Deductions(j)' = Deductions(j)
    BY <1>5 DEF UndoneNow
  <2> QED BY <1>6, <1>12, <1>14, <2>1, <2>2 DEF Changes
<1>16. RunTold(i)'
  BY <1>5, <1>6, <1>13, <1>14 DEF RunTold, UndoneNow
<1>17. DOMAIN runs' \subseteq DOMAIN runs \cup {i} /\ Free \in Busy \cup {Free}
  BY <1>6
<1> QED BY <1>5, <1>7, <1>9, <1>15, <1>16, <1>17, SeesFree, WriteTold

-----------------------------------------------------------------------------
(* The whole invariant.                                                    *)

LEMMA InitTold == Init => Told
<1> SUFFICES ASSUME Init PROVE Told
  OBVIOUS
<1>1. /\ runs = <<>> /\ settlements = {}
      /\ advances = [a \in Advances |-> [settled |-> 0, status |-> "active"]]
      /\ attempt = [r \in Attempts |-> Free]
  BY DEF Init
<1>2. RequestsApart
  <2>1. ASSUME NEW r \in Attempts PROVE Touches(r) = {}
    <3>1. attempt[r] = Free /\ Free.pc = "free" /\ "run" \notin DOMAIN Free
      BY <1>1 DEF Free
    <3> QED BY <3>1 DEF Touches
  <2> QED BY <2>1 DEF RequestsApart
<1>3. \A r \in Attempts : Sees(attempt[r])
  BY <1>1, SeesFree
<1>4. \A i \in DOMAIN runs : RunTold(i)
  BY <1>1
<1>5. AdvancesTold
  <2>1. Standings = {} /\ Completed = {}
    BY <1>1 DEF Standings, Completed
  <2>2. ASSUME NEW a \in Advances PROVE Given(Standings, a) = 0
    <3>1. {row \in {} : row.advance = a} = {}
      OBVIOUS
    <3> QED BY <2>1, <3>1, SumEmpty DEF Given
  <2>3. SumFunctionOnSet(Settled, Advances) = 0
    <3>1. \A a \in Advances : Settled[a] = 0
      BY <1>1 DEF Settled
    <3> QED BY <3>1, AdvancesFinite, SumOfZeros
  <2>4. SumFunctionOnSet(Deducts, Completed) = 0
    BY <2>1, SumEmpty
  <2> QED BY <1>1, <2>2, <2>3, <2>4 DEF AdvancesTold
<1> QED BY <1>2, <1>3, <1>4, <1>5 DEF Told

LEMMA StepTold ==
    ASSUME Certain, Told, NEW r \in Attempts, Step(r), UNCHANGED settings, RequestsApart'
    PROVE  Told'
<1>1. ASSUME UNCHANGED tables, \E b \in Busy \cup {Free} : Goes(r, b) /\ Sees(b)
      PROVE  Told'
  BY <1>1, ReadKeepsTold DEF Certain
<1>2. Sees(attempt[r])
  BY DEF Told
<1>3. ASSUME NEW draft \in Drafts, CheckCreate(r, draft[1], draft[2]) PROVE Told'
  <2>1. UNCHANGED tables
    BY <1>3 DEF CheckCreate
  <2> QED BY <1>1, <1>3, <2>1, CheckCreateReads
<1>4. CASE CountRuns(r)
  <2>1. UNCHANGED tables
    BY <1>4 DEF CountRuns
  <2> QED BY <1>1, <1>4, <2>1, CountRunsReads
<1>5. ASSUME NEW i \in Standing, NEW set \in Edits, ReadEdit(r, i, set) PROVE Told'
  <2>1. UNCHANGED tables
    BY <1>5 DEF ReadEdit
  <2> QED BY <1>1, <1>5, <2>1, ReadEditReads
<1>6. ASSUME NEW i \in Standing, ReadApproval(r, i) PROVE Told'
  <2>1. UNCHANGED tables
    BY <1>6 DEF ReadApproval
  <2> QED BY <1>1, <1>6, <2>1, ReadApprovalReads
<1>7. CASE ReadAdvances(r)
  <2>1. UNCHANGED tables
    BY <1>7 DEF ReadAdvances
  <2> QED BY <1>1, <1>2, <1>7, <2>1, ReadAdvancesReads
<1>8. ASSUME NEW i \in Standing, NEW v \in Vaults, NEW d \in Days, ReadIssue(r, i, v, d)
      PROVE  Told'
  <2>1. UNCHANGED tables
    BY <1>8 DEF ReadIssue
  <2> QED BY <1>1, <1>8, <2>1, ReadIssueReads
<1>9. CASE CheckRun(r)
  <2>1. UNCHANGED tables
    BY <1>9 DEF CheckRun
  <2> QED BY <1>1, <1>2, <1>9, <2>1, CheckRunReads
<1>10. ASSUME NEW token \in Tokens, NEW month \in Months, NEW extra \in Extras,
              NEW v \in Vaults, NEW d \in Days, FindSupplementary(r, token, month, extra, v, d)
       PROVE  Told'
  <2>1. UNCHANGED tables
    BY <1>10 DEF FindSupplementary
  <2> QED BY <1>1, <1>10, <2>1, FindSupplementaryReads
<1>11. ASSUME NEW i \in Standing, ReadDelete(r, i) PROVE Told'
  <2>1. UNCHANGED tables
    BY <1>11 DEF ReadDelete
  <2> QED BY <1>1, <1>11, <2>1, ReadDeleteReads
<1>12. CASE ListSalaries(r)
  <2>1. UNCHANGED tables
    BY <1>12 DEF ListSalaries
  <2> QED BY <1>1, <1>2, <1>12, <2>1, ListSalariesReads
<1>13. CASE ReadSettlements(r)
  <2>1. UNCHANGED tables
    BY <1>13 DEF ReadSettlements
  <2> QED BY <1>1, <1>13, <2>1, ReadSettlementsReads
<1>14. ASSUME NEW a \in Advances, ReadAdvance(r, a) PROVE Told'
  <2>1. UNCHANGED tables
    BY <1>14 DEF ReadAdvance
  <2> QED BY <1>1, <1>14, <2>1, ReadAdvanceReads
<1>15. CASE InsertRun(r) \/ WriteEdit(r) \/ DropDraft(r)
  BY <1>15, InsertRunTold, WriteEditTold, DropDraftTold
<1>16. CASE CommitApproval(r) \/ CommitIssue(r) \/ CommitSupplementary(r)
  BY <1>16, CommitApprovalTold, CommitIssueTold, CommitSupplementaryTold
<1>17. CASE CancelOfRun(r) \/ FinishDelete(r) \/ WriteAdvance(r) \/ Abort(r)
  BY <1>17, CancelOfRunTold, FinishDeleteTold, WriteAdvanceTold, AbortTold
<1>18. ASSUME NEW s \in DOMAIN salaries, CancelSalary(r, s) PROVE Told'
  BY <1>18, CancelSalaryTold
<1> QED BY <1>3, <1>4, <1>5, <1>6, <1>7, <1>8, <1>9, <1>10, <1>11, <1>12, <1>13, <1>14,
       <1>15, <1>16, <1>17, <1>18 DEF Step

\* Nothing happens.
LEMMA StutterTold ==
    ASSUME Told, UNCHANGED vars
    PROVE  Told'
<1>1. UNCHANGED <<runs, advances, settlements, salaries, ledger, attempt>>
  BY DEF vars, tables
<1>2. RequestsApart'
  BY <1>1 DEF Told, RequestsApart, Touches, Taken
<1>3. \A r \in Attempts : Sees(attempt[r])'
  BY <1>1 DEF Told, Sees, Taken, PaidBy, Deductions
<1>4. \A i \in DOMAIN runs : Accrual(i)' = Accrual(i) /\ PaidBy(i)' = PaidBy(i)
          /\ Deductions(i)' = Deductions(i)
  BY <1>1 DEF Accrual, PaidBy, Deductions, EntriesOf, ActiveEntries
<1>5. \A i \in DOMAIN runs' : RunTold(i)'
  BY <1>1, <1>4 DEF Told, RunTold, Accrued, Against
<1>6. AdvancesTold'
  <2>1. Settled' = Settled /\ Deducts' = Deducts /\ Completed' = Completed /\ Standings' = Standings
    BY <1>1 DEF Settled, Deducts, Completed, Standings
  <2> QED BY <1>1, <2>1 DEF Told, AdvancesTold
<1> QED BY <1>2, <1>3, <1>5, <1>6 DEF Told

LEMMA SpecPayrollInv == Spec => []PayrollInv
<1>1. Init => PayrollInv
  BY InitCertain, InitTold DEF PayrollInv
<1>2. ASSUME PayrollInv, Certain', [Next]_vars PROVE PayrollInv'
  <2>1. apart \in BOOLEAN
    BY <1>2 DEF PayrollInv, Certain, TypeOK
  <2>2. CASE Next
    <3>1. PICK r \in Attempts : Step(r)
      BY <2>2 DEF Next
    <3>2. UNCHANGED settings /\ apart' = (apart /\ RequestsApart')
      BY <2>2 DEF Next
    <3>3. apart' => apart /\ RequestsApart'
      BY <3>2
    <3>4. apart' => Told'
      BY <1>2, <3>1, <3>2, <3>3, StepTold DEF PayrollInv
    <3> QED BY <1>2, <3>4 DEF PayrollInv
  <2>3. CASE UNCHANGED vars
    <3>1. apart' = apart
      BY <2>3 DEF vars
    <3> QED BY <1>2, <2>3, <3>1, StutterTold DEF PayrollInv
  <2> QED BY <1>2, <2>2, <2>3
<1> QED BY <1>1, <1>2, SpecCertain, PTL DEF Spec

-----------------------------------------------------------------------------
(* What is told is what the books say.                                     *)

\* Entries about the rows in N, one at most for each, of the amounts in g.
Lists(S, N, g) ==
    /\ S \subseteq ActiveEntries
    /\ \A e \in S : ledger[e].ref.id \in N /\ ledger[e].amount = g[ledger[e].ref.id]
    /\ \A e, f \in S : ledger[e].ref.id = ledger[f].ref.id => e = f
    /\ \A n \in N : g[n] # 0 => \E e \in S : ledger[e].ref.id = n

LEMMA TotalOfList ==
    ASSUME LedgerTypeOK, NEW S, NEW N, NEW g, Lists(S, N, g), IsFiniteSet(N),
           \A n \in N : g[n] \in Nat
    PROVE  Total(S) = SumFunctionOnSet(g, N)
<1>1. PICK f, h : f = Amounts /\ h = [e \in S |-> ledger[e].ref.id]
  OBVIOUS
<1>2. IsFiniteSet(S) /\ \A e \in S : e \in DOMAIN ledger /\ f[e] = ledger[e].amount
  <2>1. S \subseteq DOMAIN ledger
    BY DEF Lists, ActiveEntries
  <2>2. IsFiniteSet(S)
    BY <2>1, TotalType DEF Lists
  <2> QED BY <1>1, <2>1, <2>2 DEF Amounts
<1>3. \A e \in S : f[e] \in Int /\ g[h[e]] = f[e] /\ h[e] \in N
  BY <1>1, <1>2 DEF Lists
<1>4. \A e, x \in S : h[e] = h[x] => e = x
  BY <1>1 DEF Lists
<1>5. PICK M : M = {h[e] : e \in S}
  OBVIOUS
<1>6. IsFiniteSet(M) /\ SumFunctionOnSet(g, M) = SumFunctionOnSet(f, S)
  <2>1. \A x \in S : f[x] \in Int /\ g[h[x]] = f[x]
    BY <1>3
  <2>2. \A x, y \in S : h[x] = h[y] => x = y
    BY <1>4
  <2>3. IsFiniteSet(S)
    BY <1>2
  <2>4. /\ IsFiniteSet({h[x] : x \in S})
        /\ SumFunctionOnSet(g, {h[x] : x \in S}) = SumFunctionOnSet(f, S)
    BY <2>1, <2>2, <2>3, SumRenamed
  <2> QED BY <1>5, <2>4
<1>7. M \subseteq N /\ \A n \in N \ M : g[n] = 0
  BY <1>1, <1>3, <1>5 DEF Lists
<1>8. PICK R : R = N \ M
  OBVIOUS
<1>9. N = M \cup R /\ M \cap R = {} /\ IsFiniteSet(R)
  BY <1>7, <1>8, FS_Subset
<1>10. \A n \in M \cup R : g[n] \in Int
  BY <1>9
<1>11. SumFunctionOnSet(g, M \cup R) = SumFunctionOnSet(g, M) + SumFunctionOnSet(g, R)
  BY <1>6, <1>9, <1>10, SumOfUnion
<1>12. SumFunctionOnSet(g, R) = 0
  BY <1>7, <1>8, <1>9, SumOfZeros
<1>13. SumFunctionOnSet(g, M) \in Int
  BY <1>6, <1>9, <1>10, SumType
<1> QED BY <1>1, <1>6, <1>9, <1>11, <1>12, <1>13 DEF Total

\* An entry about a row is known by the kind and the number of it.
LEMMA RefIs ==
    ASSUME Certain, NEW e \in ActiveEntries
    PROVE  /\ ledger[e].ref = Ref(ledger[e].ref.type, ledger[e].ref.id)
           /\ e \in DOMAIN ledger /\ ledger[e].amount \in Nat
<1>1. ledger[e] \in Entries
  BY ToldIds
<1>2. ledger[e].ref \in References
  BY <1>1 DEF Entries
<1>3. ledger[e].ref = [type |-> ledger[e].ref.type, id |-> ledger[e].ref.id]
  BY <1>2 DEF References
<1> QED BY <1>1, <1>3 DEF Ref, Entries, ActiveEntries

\* What was accrued against an account.
LEMMA AgainstIs ==
    ASSUME Certain, NEW i, NEW account, NEW amount \in Nat, Accrued(i, account, amount)
    PROVE  /\ \A e \in Against(i, account) : amount # 0 /\ ledger[e].amount = amount
           /\ Total(Against(i, account)) = amount
<1>1. PICK S : S = Against(i, account)
  OBVIOUS
<1>2. \A e, f \in S : e = f
  BY <1>1 DEF Against, Accrual, EntriesOf, Certain, EntriesSingle, SameSubject
<1>3. CASE amount = 0
  <2>1. S = {}
    BY <1>1, <1>3 DEF Accrued
  <2> QED BY <1>1, <1>3, <2>1, SumEmpty DEF Total
<1>4. CASE amount # 0
  <2>1. PICK e \in S : ledger[e].amount = amount
    BY <1>1, <1>4 DEF Accrued
  <2>2. S = {e}
    BY <1>2, <2>1
  <2>3. e \in DOMAIN ledger
    BY <1>1, <2>1 DEF Against, Accrual, EntriesOf
  <2>4. Amounts[e] = amount
    BY <2>1, <2>3 DEF Amounts
  <2>5. SumFunctionOnSet(Amounts, {e}) = amount
    BY <2>4, SumSingle
  <2> QED BY <1>1, <1>4, <2>1, <2>2, <2>5 DEF Total
<1> QED BY <1>3, <1>4

LEMMA CompletedAccrued ==
    ASSUME Certain, Told, NEW i \in Completed
    PROVE  /\ i \in DOMAIN runs /\ runs[i].status = "completed"
           /\ runs[i].content.net \in Nat /\ Deducted(runs[i].content) \in Nat
           /\ Accrued(i, Payable, runs[i].content.net)
           /\ Accrued(i, AdvanceAsset, Deducted(runs[i].content))
<1>1. i \in DOMAIN runs /\ runs[i].status = "completed"
  BY DEF Completed
<1>2. runs[i].content \in Payments
  BY <1>1, RunTyped DEF Certain
<1> QED BY <1>1, <1>2, ContentTyped, DeductedType DEF Told, RunTold

\* Every entry of an accrual is against what is owed or against advances.
LEMMA AccrualTotal ==
    ASSUME Certain, Told, NEW i \in Completed
    PROVE  Total(Accrual(i)) = runs[i].content.net + Deducted(runs[i].content)
<1>1. PICK S, T : S = Against(i, Payable) /\ T = Against(i, AdvanceAsset)
  OBVIOUS
<1>2. \A e \in Accrual(i) : ledger[e].credit \in {Payable, AdvanceAsset}
  <2>1. ASSUME NEW e \in Accrual(i) PROVE ledger[e].credit \in {Payable, AdvanceAsset}
    <3>1. e \in ActiveEntries /\ ledger[e].ref.type = "payroll_accrual"
      BY <2>1 DEF Accrual, EntriesOf, Ref
    <3> QED BY <3>1, ToldIds DEF AccrualEntry
  <2> QED BY <2>1
<1>3. Accrual(i) = S \cup T /\ S \cap T = {}
  BY <1>1, <1>2, AccountsApart DEF Against
<1>4. /\ IsFiniteSet(S) /\ IsFiniteSet(T)
      /\ \A e \in S \cup T : Amounts[e] \in Int
  <2>1. S \cup T \subseteq ActiveEntries /\ ActiveEntries \subseteq DOMAIN ledger
    BY <1>3 DEF Accrual, ActiveEntries
  <2>2. IsFiniteSet(S) /\ IsFiniteSet(T)
    BY <2>1, TotalType DEF Certain, TypeOK
  <2>3. \A e \in S \cup T : e \in DOMAIN ledger /\ ledger[e].amount \in Nat
    BY <2>1, RefIs
  <2> QED BY <2>2, <2>3 DEF Amounts
<1>5. SumFunctionOnSet(Amounts, S \cup T)
         = SumFunctionOnSet(Amounts, S) + SumFunctionOnSet(Amounts, T)
  BY <1>3, <1>4, SumOfUnion
<1>6. /\ Total(S) = runs[i].content.net
      /\ Total(T) = Deducted(runs[i].content)
  BY <1>1, CompletedAccrued, AgainstIs
<1> QED BY <1>3, <1>5, <1>6 DEF Total

\* The entries against an account name the completed runs.
AgainstAll(account) == {e \in ActiveEntries : ledger[e].credit = account}

LEMMA AccrualsListed ==
    ASSUME Certain, Told, NEW account \in {Payable, AdvanceAsset}, NEW g,
           \A i \in Completed : g[i] \in Nat /\ Accrued(i, account, g[i])
    PROVE  Lists(AgainstAll(account), Completed, g)
<1>1. ASSUME NEW e \in AgainstAll(account)
      PROVE  /\ ledger[e].ref.id \in Completed
             /\ e \in Against(ledger[e].ref.id, account)
  <2>1. PICK i : i = ledger[e].ref.id
    OBVIOUS
  <2>2. e \in ActiveEntries /\ ledger[e].credit = account
    BY <1>1 DEF AgainstAll
  <2>3. AccrualEntry(ledger[e])
    BY <2>2, AccountsApart DEF Certain, EntriesTold, SalaryEntry, AdvanceEntry
  <2>4. ledger[e].ref = Ref("payroll_accrual", i) /\ e \in DOMAIN ledger
    BY <2>1, <2>2, <2>3, RefIs DEF AccrualEntry
  <2>5. e \in Accrual(i)
    BY <2>2, <2>4 DEF Accrual, EntriesOf
  <2>6. i \in DOMAIN runs /\ runs[i].status = "completed"
    BY <2>1, <2>3, <2>5 DEF AccrualEntry, Told, RunTold
  <2> QED BY <2>1, <2>2, <2>5, <2>6 DEF Completed, Against
<1>2. ASSUME NEW e \in AgainstAll(account)
      PROVE  ledger[e].amount = g[ledger[e].ref.id]
  <2>1. PICK i, n : i = ledger[e].ref.id /\ n = g[i]
    OBVIOUS
  <2>2. n \in Nat /\ Accrued(i, account, n) /\ e \in Against(i, account)
    BY <1>1, <1>2, <2>1
  <2> QED BY <2>1, <2>2, AgainstIs
<1>3. ASSUME NEW e \in AgainstAll(account), NEW f \in AgainstAll(account),
             ledger[e].ref.id = ledger[f].ref.id
      PROVE  e = f
  <2>1. ledger[e].ref = ledger[f].ref
    BY <1>1, <1>3 DEF Against, Accrual, EntriesOf
  <2> QED BY <1>3, <2>1 DEF AgainstAll, Certain, EntriesSingle, SameSubject
<1>4. ASSUME NEW i \in Completed, g[i] # 0
      PROVE  \E e \in AgainstAll(account) : ledger[e].ref.id = i
  <2>1. PICK e \in Against(i, account) : TRUE
    BY <1>4 DEF Accrued
  <2>2. e \in AgainstAll(account) /\ ledger[e].ref = Ref("payroll_accrual", i)
    BY <2>1 DEF Against, AgainstAll, Accrual, EntriesOf
  <2> QED BY <2>2 DEF Ref
<1>5. AgainstAll(account) \subseteq ActiveEntries
  BY DEF AgainstAll
<1> QED BY <1>1, <1>2, <1>3, <1>4, <1>5 DEF Lists

\* The entries that pay salaries, and those that paid advances.
Paid == {s \in DOMAIN salaries : salaries[s].status = "active"}
Owed == {a \in Advances : advances[a].status = "active"}

LEMMA SalariesListed ==
    ASSUME Certain
    PROVE  Lists({e \in ActiveEntries : ledger[e].debit = Payable}, Paid,
                 [s \in DOMAIN salaries |-> salaries[s].total])
<1>1. PICK S, g : /\ S = {e \in ActiveEntries : ledger[e].debit = Payable}
                  /\ g = [s \in DOMAIN salaries |-> salaries[s].total]
  OBVIOUS
<1>2. ASSUME NEW e \in S PROVE SalaryEntry(ledger[e]) /\ e \in ActiveEntries
  BY <1>1, AccountsApart DEF Certain, EntriesTold, AdvanceEntry, AccrualEntry
<1>3. \A e \in S : ledger[e].ref.id \in Paid /\ ledger[e].amount = g[ledger[e].ref.id]
  BY <1>1, <1>2 DEF SalaryEntry, Paid
<1>4. ASSUME NEW e \in S, NEW f \in S, ledger[e].ref.id = ledger[f].ref.id PROVE e = f
  <2>1. /\ ledger[e].ref.type = "salary" /\ ledger[f].ref.type = "salary"
        /\ e \in ActiveEntries /\ f \in ActiveEntries
    BY <1>2, <1>4 DEF SalaryEntry
  <2>2. ledger[e].ref = ledger[f].ref
    BY <1>4, <2>1, RefIs
  <2> QED BY <2>1, <2>2 DEF Certain, EntriesSingle, SameSubject
<1>5. ASSUME NEW s \in Paid PROVE \E e \in S : ledger[e].ref.id = s
  <2>1. PICK e \in ActiveEntries : ledger[e].ref = Ref("salary", s)
    BY <1>5 DEF Paid, Certain, EntriesStand, Entered
  <2>2. ledger[e].ref.type = "salary" /\ ledger[e].ref.id = s
    BY <2>1 DEF Ref
  <2>3. ledger[e].debit = Payable
    BY <2>1, <2>2, ToldIds DEF SalaryEntry
  <2> QED BY <1>1, <2>1, <2>2, <2>3
<1>6. S \subseteq ActiveEntries
  BY <1>1
<1>7. Lists(S, Paid, g)
  BY <1>3, <1>4, <1>5, <1>6 DEF Lists
<1> QED BY <1>1, <1>7

LEMMA AdvancesListed ==
    ASSUME Certain
    PROVE  Lists({e \in ActiveEntries : ledger[e].debit = AdvanceAsset}, Owed, AdvanceTotals)
<1>1. PICK S : S = {e \in ActiveEntries : ledger[e].debit = AdvanceAsset}
  OBVIOUS
<1>2. ASSUME NEW e \in S PROVE AdvanceEntry(ledger[e]) /\ e \in ActiveEntries
  BY <1>1, AccountsApart DEF Certain, EntriesTold, SalaryEntry, AccrualEntry
<1>3. \A e \in S : ledger[e].ref.id \in Owed /\ ledger[e].amount = AdvanceTotals[ledger[e].ref.id]
  BY <1>2 DEF AdvanceEntry, Owed
<1>4. ASSUME NEW e \in S, NEW f \in S, ledger[e].ref.id = ledger[f].ref.id PROVE e = f
  <2>1. /\ ledger[e].ref.type = "advance" /\ ledger[f].ref.type = "advance"
        /\ e \in ActiveEntries /\ f \in ActiveEntries
    BY <1>2, <1>4 DEF AdvanceEntry
  <2>2. ledger[e].ref = ledger[f].ref
    BY <1>4, <2>1, RefIs
  <2> QED BY <2>1, <2>2 DEF Certain, EntriesSingle, SameSubject
<1>5. ASSUME NEW a \in Owed PROVE \E e \in S : ledger[e].ref.id = a
  <2>1. PICK e \in ActiveEntries : ledger[e].ref = Ref("advance", a)
    BY <1>5 DEF Owed, Certain, EntriesStand, Entered
  <2>2. ledger[e].ref.type = "advance" /\ ledger[e].ref.id = a
    BY <2>1 DEF Ref
  <2>3. ledger[e].debit = AdvanceAsset
    BY <2>1, <2>2, ToldIds DEF AdvanceEntry
  <2> QED BY <1>1, <2>1, <2>2, <2>3
<1>6. S \subseteq ActiveEntries
  BY <1>1
<1>7. Lists(S, Owed, AdvanceTotals)
  BY <1>3, <1>4, <1>5, <1>6 DEF Lists
<1> QED BY <1>1, <1>7

LEMMA PaidFinite ==
    ASSUME TypeOK
    PROVE  /\ IsFiniteSet(Paid) /\ \A s \in Paid : salaries[s].total \in Nat
           /\ IsFiniteSet(Owed) /\ Owed \subseteq Advances
<1>1. Len(salaries) \in Nat /\ DOMAIN salaries = 1..Len(salaries)
  BY DEF TypeOK
<1>2. IsFiniteSet(1..Len(salaries))
  BY <1>1, FS_Interval
<1>3. IsFiniteSet(Paid)
  BY <1>1, <1>2, FS_Subset DEF Paid
<1>4. \A s \in DOMAIN salaries : salaries[s].total \in Nat
  <2>1. salaries \in Seq(Salaries)
    BY DEF TypeOK, Salaries
  <2>2. \A s \in DOMAIN salaries : salaries[s] \in Salaries
    BY <2>1, ElementOf
  <2> QED BY <2>2 DEF Salaries
<1>5. IsFiniteSet(Owed) /\ Owed \subseteq Advances
  BY AdvancesFinite, FS_Subset DEF Owed
<1> QED BY <1>3, <1>4, <1>5 DEF Paid

\* What the employees are owed.
LEMMA PayableBalance ==
    ASSUME Certain, Told
    PROVE  -Balance(Payable) =
              SumFunctionOnSet([i \in DOMAIN runs |-> runs[i].content.net], Completed)
              - SumFunctionOnSet([s \in DOMAIN salaries |-> salaries[s].total], Paid)
<1>1. PICK g, h : /\ g = [i \in DOMAIN runs |-> runs[i].content.net]
                  /\ h = [s \in DOMAIN salaries |-> salaries[s].total]
  OBVIOUS
<1>2. LedgerTypeOK /\ IsFiniteSet(Completed) /\ IsFiniteSet(Paid)
  BY CompletedFinite, PaidFinite DEF Certain, TypeOK
<1>3. \A i \in Completed : g[i] \in Nat /\ Accrued(i, Payable, g[i])
  BY <1>1, CompletedAccrued
<1>4. \A s \in Paid : h[s] \in Nat
  BY <1>1, PaidFinite DEF Certain, Paid
<1>5. Total(AgainstAll(Payable)) = SumFunctionOnSet(g, Completed)
  BY <1>2, <1>3, AccrualsListed, TotalOfList
<1>6. Total({e \in ActiveEntries : ledger[e].debit = Payable}) = SumFunctionOnSet(h, Paid)
  BY <1>1, <1>2, <1>4, SalariesListed, TotalOfList
<1>7. SumFunctionOnSet(g, Completed) \in Nat /\ SumFunctionOnSet(h, Paid) \in Nat
  BY <1>2, <1>3, <1>4, SumType
<1>8. Balance(Payable) = SumFunctionOnSet(h, Paid) - SumFunctionOnSet(g, Completed)
  BY <1>5, <1>6 DEF Balance, AgainstAll
<1> QED BY <1>1, <1>7, <1>8

\* What the employees owe.
LEMMA AdvanceBalance ==
    ASSUME Certain, Told
    PROVE  Balance(AdvanceAsset) =
              SumFunctionOnSet([a \in Advances |-> AdvanceTotals[a] - advances[a].settled], Owed)
<1>1. PICK f, g, h, R :
        /\ f = [a \in Advances |-> AdvanceTotals[a] - advances[a].settled]
        /\ g = Deducts /\ h = Settled /\ R = Advances \ Owed
  OBVIOUS
<1>2. /\ LedgerTypeOK /\ IsFiniteSet(Completed) /\ IsFiniteSet(Owed) /\ Owed \subseteq Advances
      /\ IsFiniteSet(R) /\ Owed \cup R = Advances /\ Owed \cap R = {}
  BY <1>1, CompletedFinite, PaidFinite, AdvancesFinite, FS_Subset DEF Certain, TypeOK
<1>3. \A i \in Completed : g[i] \in Nat /\ Accrued(i, AdvanceAsset, g[i])
  BY <1>1, CompletedAccrued DEF Deducts
<1>4. ASSUME NEW a \in Advances
      PROVE  AdvanceTotals[a] \in Nat /\ h[a] \in Nat /\ h[a] = advances[a].settled
  <2>1. advances \in AdvanceTables
    BY DEF Certain, TypeOK
  <2> QED BY <1>1, <2>1, AdvanceTyped, StandingsTyped
<1>5. Total(AgainstAll(AdvanceAsset)) = SumFunctionOnSet(g, Completed)
  BY <1>2, <1>3, AccrualsListed, TotalOfList
<1>6. Total({e \in ActiveEntries : ledger[e].debit = AdvanceAsset})
         = SumFunctionOnSet(AdvanceTotals, Owed)
  BY <1>2, <1>4, AdvancesListed, TotalOfList
<1>7. SumFunctionOnSet(AdvanceTotals, Owed)
         = SumFunctionOnSet(f, Owed) + SumFunctionOnSet(h, Owed)
  <2>1. \A a \in Owed : f[a] \in Int /\ h[a] \in Int /\ AdvanceTotals[a] = f[a] + h[a]
    BY <1>1, <1>2, <1>4
  <2> QED BY <1>2, <2>1, SumPlus
<1>8. SumFunctionOnSet(h, Advances) = SumFunctionOnSet(h, Owed) + SumFunctionOnSet(h, R)
  <2>1. \A a \in Owed \cup R : h[a] \in Int
    BY <1>2, <1>4
  <2>2. SumFunctionOnSet(h, Owed \cup R) = SumFunctionOnSet(h, Owed) + SumFunctionOnSet(h, R)
    BY <1>2, <2>1, SumOfUnion
  <2> QED BY <1>2, <2>2
<1>9. SumFunctionOnSet(h, R) = 0
  <2>1. ASSUME NEW a \in R PROVE h[a] = 0
    <3>1. a \in Advances /\ advances[a].status = "cancelled"
      <4>1. advances \in AdvanceTables
        BY DEF Certain, TypeOK
      <4> QED BY <1>1, <2>1, <4>1, AdvanceTyped DEF Owed
    <3> QED BY <1>4, <3>1, CancelledStatuses
  <2> QED BY <1>2, <2>1, SumOfZeros
<1>10. SumFunctionOnSet(h, Advances) = SumFunctionOnSet(g, Completed)
  BY <1>1 DEF Told, AdvancesTold
<1>11. SumFunctionOnSet(f, Owed) \in Int /\ SumFunctionOnSet(h, Owed) \in Int
  <2>1. \A a \in Owed : f[a] \in Int /\ h[a] \in Int
    BY <1>1, <1>2, <1>4
  <2> QED BY <1>2, <2>1, SumType
<1>12. Balance(AdvanceAsset)
          = SumFunctionOnSet(AdvanceTotals, Owed) - SumFunctionOnSet(g, Completed)
  BY <1>5, <1>6 DEF Balance, AgainstAll
<1> QED BY <1>1, <1>7, <1>8, <1>9, <1>10, <1>11, <1>12

LEMMA ToldMatches ==
    ASSUME Certain, Told
    PROVE  BooksMatch
<1>1. ASSUME NEW i \in DOMAIN runs
      PROVE  LET done == runs[i].status = "completed"
                 deductions == {row \in settlements : row.run = i /\ row.status = "active"}
             IN  /\ ~done => Accrual(i) = {} /\ PaidBy(i) = {}
                 /\ done => Total(Accrual(i)) = runs[i].content.net + Deducted(runs[i].content)
                 /\ {row.advance : row \in deductions}
                       = IF done THEN Taken(runs[i].content) ELSE {}
                 /\ \A row \in deductions : row.amount = runs[i].content.takes[row.advance]
  <2>1. RunTold(i)
    BY DEF Told
  <2>2. CASE runs[i].status = "completed"
    <3>1. Total(Accrual(i)) = runs[i].content.net + Deducted(runs[i].content)
      BY <2>2, AccrualTotal DEF Completed
    <3> QED BY <2>1, <2>2, <3>1 DEF RunTold, Deductions
  <2>3. CASE runs[i].status # "completed"
    BY <2>1, <2>3 DEF RunTold, Deductions
  <2> QED BY <2>2, <2>3
<1>2. \A a \in Advances :
         advances[a].settled = Given({row \in settlements : row.status = "active"}, a)
  BY DEF Told, AdvancesTold, Standings
<1>3. -Balance(Payable) =
          SumFunctionOnSet([i \in DOMAIN runs |-> runs[i].content.net],
                           {i \in DOMAIN runs : runs[i].status = "completed"})
          - SumFunctionOnSet([s \in DOMAIN salaries |-> salaries[s].total],
                             {s \in DOMAIN salaries : salaries[s].status = "active"})
  BY PayableBalance DEF Completed, Paid
<1>4. Balance(AdvanceAsset) =
          SumFunctionOnSet([a \in Advances |-> AdvanceTotals[a] - advances[a].settled],
                           {a \in Advances : advances[a].status = "active"})
  BY AdvanceBalance DEF Owed
<1> QED BY <1>1, <1>2, <1>3, <1>4 DEF BooksMatch

\* As long as no two requests at once depend on one run or one advance, the
\* books say what the tables say.
THEOREM ApartRunsKeepBooksHolds == Spec => []ApartRunsKeepBooks
<1>1. PayrollInv => ApartRunsKeepBooks
  BY ToldMatches DEF PayrollInv, ApartRunsKeepBooks
<1> QED BY <1>1, SpecPayrollInv, PTL

=============================================================================
