------------------------------- MODULE Payroll -------------------------------
(***************************************************************************)
(* Payroll runs and employee advances (hr-payroll-run-lifecycle and other  *)
(* services of backend/src/hr).                                            *)
(* A run is drafted, edited, approved (which accrues the salaries and      *)
(* settles the advances deducted from them), paid by one salary invoice,   *)
(* and deleted, which undoes all of it in several transactions.  Only      *)
(* approving repeats its condition in its write; every other request       *)
(* writes what it decided from an earlier read.                            *)
(*                                                                         *)
(* The items of a run are summed up in its content: the net pay, and what  *)
(* is deducted for each advance.                                           *)
(***************************************************************************)
EXTENDS FiscalPeriods, Vaults

CONSTANTS Attempts,        \* HTTP requests being served at once
          Months,          \* months a run may pay
          LastDay,         \* Months -> the day the run of a month is accrued
          Contents,        \* what a run may pay and deduct
          Drafts,          \* months and contents a run may be drafted with
          Edits,           \* fields an edit may send: a month, a content, both
          Tokens,          \* idempotency keys of supplementary payments
          Extras,          \* what a supplementary payment may pay
          AdvanceTotals,   \* the advances paid out before, by amount
          MaxRuns,         \* bound: rows of payroll_runs, deleted ones included
          SalaryExpense, Payable, AdvanceAsset   \* EXP-004, PAY-001, ADV-001

Advances == DOMAIN AdvanceTotals

ASSUME PayrollConstants ==
    /\ AdvanceTotals \in Seq(Nat \ {0})
    /\ LastDay \in [Months -> Days]
    /\ Contents \subseteq [net : Nat, takes : [Advances -> Nat]]
    /\ Drafts \subseteq Months \X Contents
    /\ Edits \subseteq [month : Months] \cup [content : Contents]
                  \cup [month : Months, content : Contents]
    /\ Extras \subseteq Nat \ {0}
    /\ MaxRuns \in Nat
    /\ {SalaryExpense, Payable, AdvanceAsset} \subseteq Accounts \ Vaults
    /\ Cardinality({SalaryExpense, Payable, AdvanceAsset}) = 3

VARIABLES runs,          \* payroll_runs; a position is an id
          advances,      \* the invoices of kind advance
          settlements,   \* payroll_advance_settlements with their deductions
          salaries,      \* the invoices of kind salary; a position is an id
          attempt,       \* what each request is doing
          apart          \* history: no two requests at once changed one thing

tables   == <<runs, advances, settlements, salaries, ledger>>
settings == <<vaultVars, periodVars>>
vars     == <<tables, attempt, apart, settings>>

\* A regular run is numbered PR-..., a supplementary one SUP-month-key.
Numbers == ({"PR"} \X Nat) \cup ({"SUP"} \X (Months \X Tokens))

Supplement(extra) == [net |-> extra, takes |-> [a \in Advances |-> 0]]
Payments == Contents \cup {Supplement(extra) : extra \in Extras}

Runs == [number : Numbers, month : Months, content : Payments,
         status : {"draft", "completed", "deleted"}]

Settlements == [run : Nat, number : Numbers, advance : DOMAIN AdvanceTotals, amount : Nat,
                status : {"active", "reversed"}, deduction : BOOLEAN]

AdvanceTables == [Advances -> [settled : Nat, status : {"active", "cancelled"}]]

\* What a request knows at each point: the values it has read.
Free == [pc |-> "free"]
Busy ==
    [pc : {"counting"}, month : Months, content : Contents]
    \cup [pc : {"inserting"}, month : Months, content : Contents, number : Numbers]
    \cup [pc : {"editing"}, run : Nat, set : Edits]
    \cup [pc : {"approving"}, run : Nat, month : Months, content : Payments]
    \cup [pc : {"accruing"}, run : Nat, month : Months, content : Payments,
          table : AdvanceTables]
    \cup [pc : {"paying", "posting"}, run : Nat, total : Nat, vault : Vaults, day : Days]
    \cup [pc : {"dropping", "listing", "finishing"}, run : Nat]
    \cup [pc : {"cancelling"}, run : Nat, salary : Nat]
    \cup [pc : {"reversing"}, run : Nat, rows : SUBSET Settlements, table : AdvanceTables]
    \cup [pc : {"waiving"}, advance : Advances]
    \cup [pc : {"adding"}, number : Numbers, month : Months, content : Payments,
          vault : Vaults, day : Days]

TypeOK ==
    /\ LedgerTypeOK
    /\ runs \in Seq(Runs)
    /\ advances \in AdvanceTables
    /\ settlements \subseteq Settlements
    /\ salaries \in Seq([number : Numbers, run : Nat, total : Nat,
                         status : {"active", "cancelled"}])
    /\ attempt \in [Attempts -> Busy \cup {Free}]
    /\ apart \in BOOLEAN

-----------------------------------------------------------------------------
(* Reading the tables.                                                     *)

Standing     == {i \in DOMAIN runs : runs[i].status # "deleted"}
PaidBy(i)  == {s \in DOMAIN salaries : salaries[s].run = i /\ salaries[s].status = "active"}
Accrual(i) == EntriesOf(Ref("payroll_accrual", i)) \cap ActiveEntries

\* getHrAdvanceBalanceParts
Remaining(table, a) ==
    IF table[a].settled < AdvanceTotals[a] THEN AdvanceTotals[a] - table[a].settled ELSE 0

Taken(content)    == {a \in Advances : content.takes[a] > 0}
Deducted(content) == SumFunctionOnSet(content.takes, Advances)

\* Mutant of Selectable: what is left of an advance is not looked at.
SelectableAlways(table, content) ==
    \A a \in Taken(content) : table[a].status = "active"

\* assertPayrollAdvanceSelections, and again when they are applied: each
\* advance stands and has that much left.
Selectable(table, content) ==
    \A a \in Taken(content) :
        table[a].status = "active" /\ content.takes[a] <= Remaining(table, a)

\* Unique indexes: the invoice number, cancelled invoices included, and one
\* active salary invoice for each run.
Billable(number, i) ==
    /\ \A s \in DOMAIN salaries : salaries[s].number # number
    /\ PaidBy(i) = {}

\* postPayrollAccrualInTransaction: the cost, against what is owed to the
\* employees and against the advances they have had.
AccrualOf(i, month, content) ==
    LET cost(against, amount) ==
            IF amount = 0 THEN <<>>
            ELSE <<EntryOf(SalaryExpense, against, amount, LastDay[month],
                           Ref("payroll_accrual", i))>>
    IN  cost(Payable, content.net) \o cost(AdvanceAsset, Deducted(content))

\* The payment of what is owed, invoice number s.
PaymentOf(s, total, v, d) == EntryOf(Payable, v, total, d, Ref("salary", s))

-----------------------------------------------------------------------------

\* The advances have been paid out; one period spans all days.
Init ==
    /\ vault = [v \in Vaults |-> [code |-> 1, active |-> TRUE, archived |-> v \notin Opened]]
    /\ clerk = [c \in Clerks |-> NoClerk]
    /\ admin = [a \in Admins |-> Idle]
    /\ runs = <<>> /\ salaries = <<>> /\ settlements = {}
    /\ advances = [a \in Advances |-> [settled |-> 0, status |-> "active"]]
    /\ \E v \in Opened, first, last \in Days :
          /\ \A d \in Days : Spans([first |-> first, last |-> last], d)
          /\ periods \in [PeriodIds -> [status : {"open", "closed", "locked"},
                                        first : {first}, last : {last}]]
          /\ ledger = [a \in Advances |->
                EntryOf(AdvanceAsset, v, AdvanceTotals[a], first, Ref("advance", a))]
    /\ attempt = [r \in Attempts |-> Free]
    /\ apart = TRUE

Goes(r, record) == attempt' = [attempt EXCEPT ![r] = record]
Ends(r)         == attempt' = [attempt EXCEPT ![r] = Free]

\* A request is answered with an error, or its connection is lost; what its
\* transaction has not committed is undone.
Abort(r) ==
    /\ attempt[r] # Free
    /\ Ends(r)
    /\ UNCHANGED tables

-----------------------------------------------------------------------------
(* createPayrollRun.                                                       *)

\* No regular run of the month; the selections hold.
CheckCreate(r, month, content) ==
    /\ attempt[r] = Free
    /\ Selectable(advances, content)
    /\ ~\E i \in Standing : runs[i].number[1] = "PR" /\ runs[i].month = month
    /\ Goes(r, [pc |-> "counting", month |-> month, content |-> content])
    /\ UNCHANGED tables

\* generateRunNumber: the stored numbers of the prefix, counted, plus one.
CountRuns(r) ==
    /\ attempt[r].pc = "counting"
    /\ Goes(r, [pc |-> "inserting", month |-> attempt[r].month,
                content |-> attempt[r].content,
                number |-> <<"PR", Cardinality({i \in Standing : runs[i].number[1] = "PR"}) + 1>>])
    /\ UNCHANGED tables

NumberFree(number) == \A i \in Standing : runs[i].number # number

InsertRun(r) ==
    /\ attempt[r].pc = "inserting"
    /\ NumberFree(attempt[r].number)
    /\ Len(runs) < MaxRuns
    /\ runs' = Append(runs, [number |-> attempt[r].number, month |-> attempt[r].month,
                             content |-> attempt[r].content, status |-> "draft"])
    /\ Ends(r)
    /\ UNCHANGED <<advances, settlements, salaries, ledger>>

-----------------------------------------------------------------------------
(* updatePayrollRun.                                                       *)

ReadEdit(r, i, set) ==
    /\ attempt[r] = Free
    /\ i \in Standing /\ runs[i].status # "completed"
    /\ "content" \in DOMAIN set => Selectable(advances, set.content)
    /\ Goes(r, [pc |-> "editing", run |-> i, set |-> set])
    /\ UNCHANGED tables

Edited(row, set) ==
    [field \in DOMAIN row |-> IF field \in DOMAIN set THEN set[field] ELSE row[field]]

\* The update is by id: it repeats nothing of what was read.
WriteEdit(r) ==
    /\ attempt[r].pc = "editing"
    /\ attempt[r].run \in Standing
    /\ runs' = [runs EXCEPT ![attempt[r].run] = Edited(@, attempt[r].set)]
    /\ Ends(r)
    /\ UNCHANGED <<advances, settlements, salaries, ledger>>

-----------------------------------------------------------------------------
(* updatePayrollRunStatus: approving a run.                                *)

ReadApproval(r, i) ==
    /\ attempt[r] = Free
    /\ i \in Standing /\ runs[i].status = "draft"
    /\ Goes(r, [pc |-> "approving", run |-> i, month |-> runs[i].month,
                content |-> runs[i].content])
    /\ UNCHANGED tables

\* applyPayrollAdvanceSettlements reads the advances, within the transaction.
ReadAdvances(r) ==
    /\ attempt[r].pc = "approving"
    /\ Selectable(advances, attempt[r].content)
    /\ Goes(r, [pc |-> "accruing", run |-> attempt[r].run, month |-> attempt[r].month,
                content |-> attempt[r].content, table |-> advances])
    /\ UNCHANGED tables

\* Mutant of Claimed: the condition is not repeated.
ClaimedAlways(i) == i \in Standing

\* The claim: an update of the run only if it is a draft still; so no accrual
\* of it can be found active when it is about to be posted.
Claimed(i) == i \in Standing /\ runs[i].status = "draft"

\* Each settled amount is written as what was read plus what is taken.
Settle(table, takes) ==
    [a \in Advances |-> IF takes[a] > 0
                        THEN [advances[a] EXCEPT !.settled = table[a].settled + takes[a]]
                        ELSE advances[a]]

CommitApproval(r) ==
    LET i == attempt[r].run
        content == attempt[r].content
    IN  /\ attempt[r].pc = "accruing"
        /\ Claimed(i)
        /\ OpenOn(LastDay[attempt[r].month])
        /\ runs' = [runs EXCEPT ![i].status = "completed"]
        /\ advances' = Settle(attempt[r].table, content.takes)
        /\ settlements' = settlements \cup
              {[run |-> i, number |-> runs[i].number, advance |-> a,
                amount |-> content.takes[a], status |-> "active", deduction |-> TRUE] :
                  a \in Taken(content)}
        /\ ledger' = ledger \o AccrualOf(i, attempt[r].month, content)
        /\ Ends(r)
        /\ UNCHANGED salaries

-----------------------------------------------------------------------------
(* issuePayrollPayment.                                                    *)

\* A completed run with no active salary invoice, or that one is the answer.
ReadIssue(r, i, v, d) ==
    /\ attempt[r] = Free
    /\ i \in Standing /\ runs[i].status = "completed"
    /\ PaidBy(i) = {}
    /\ runs[i].content.net > 0
    /\ Usable(v)
    /\ Goes(r, [pc |-> "paying", run |-> i, total |-> runs[i].content.net,
                vault |-> v, day |-> d])
    /\ UNCHANGED tables

\* "lockedRun": read again within the transaction, and not locked.
CheckRun(r) ==
    /\ attempt[r].pc = "paying"
    /\ attempt[r].run \in Standing
    /\ Goes(r, [attempt[r] EXCEPT !.pc = "posting"])
    /\ UNCHANGED tables

CommitIssue(r) ==
    LET i == attempt[r].run
    IN  /\ attempt[r].pc = "posting"
        /\ OpenOn(attempt[r].day)
        /\ Billable(runs[i].number, i)
        /\ salaries' = Append(salaries, [number |-> runs[i].number, run |-> i,
                                         total |-> attempt[r].total, status |-> "active"])
        /\ Post(PaymentOf(Len(salaries) + 1, attempt[r].total, attempt[r].vault, attempt[r].day))
        /\ Ends(r)
        /\ UNCHANGED <<runs, advances, settlements>>

-----------------------------------------------------------------------------
(* HrPayrollIndividualPaymentService.issue: a supplementary run created,   *)
(* accrued and paid in one transaction.                                    *)

\* Only a run number of its own starts it; a known one is answered, or refused.
FindSupplementary(r, token, month, extra, v, d) ==
    /\ attempt[r] = Free
    /\ Usable(v)
    /\ NumberFree(<<"SUP", <<month, token>>>>)
    /\ Goes(r, [pc |-> "adding", number |-> <<"SUP", <<month, token>>>>, month |-> month,
                content |-> Supplement(extra), vault |-> v, day |-> d])
    /\ UNCHANGED tables

CommitSupplementary(r) ==
    LET a == attempt[r]
        i == Len(runs) + 1
    IN  /\ a.pc = "adding"
        /\ NumberFree(a.number)
        /\ Len(runs) < MaxRuns
        /\ OpenOn(LastDay[a.month]) /\ OpenOn(a.day)
        /\ Billable(a.number, i)
        /\ runs' = Append(runs, [number |-> a.number, month |-> a.month,
                                 content |-> a.content, status |-> "completed"])
        /\ salaries' = Append(salaries, [number |-> a.number, run |-> i,
                                         total |-> a.content.net, status |-> "active"])
        /\ ledger' = ledger \o AccrualOf(i, a.month, a.content)
              \o <<PaymentOf(Len(salaries) + 1, a.content.net, a.vault, a.day)>>
        /\ Ends(r)
        /\ UNCHANGED <<advances, settlements>>

-----------------------------------------------------------------------------
(* deletePayrollRun.                                                       *)

ReadDelete(r, i) ==
    /\ attempt[r] = Free
    /\ i \in Standing
    /\ Goes(r, [pc |-> IF runs[i].status = "draft" THEN "dropping" ELSE "listing", run |-> i])
    /\ UNCHANGED tables

\* A draft is deleted by id, whatever it has become.
DropDraft(r) ==
    /\ attempt[r].pc = "dropping"
    /\ attempt[r].run \in Standing
    /\ runs' = [runs EXCEPT ![attempt[r].run].status = "deleted"]
    /\ Ends(r)
    /\ UNCHANGED <<advances, settlements, salaries, ledger>>

ListSalaries(r) ==
    /\ attempt[r].pc = "listing"
    /\ \/ /\ PaidBy(attempt[r].run) = {}
          /\ Goes(r, [pc |-> "finishing", run |-> attempt[r].run])
       \/ \E s \in PaidBy(attempt[r].run) :
             Goes(r, [pc |-> "cancelling", run |-> attempt[r].run, salary |-> s])
    /\ UNCHANGED tables

\* reverseFinancialOperation, in a transaction of its own.
CancelledSalary(s) ==
    /\ salaries[s].status = "active"
    /\ salaries' = [salaries EXCEPT ![s].status = "cancelled"]
    /\ CancelEntries(Ref("salary", s))

CancelOfRun(r) ==
    /\ attempt[r].pc = "cancelling"
    /\ CancelledSalary(attempt[r].salary)
    /\ Goes(r, [pc |-> "finishing", run |-> attempt[r].run])
    /\ UNCHANGED <<runs, advances, settlements>>

\* reversePayrollAdvanceSettlementsForDelete finds the deductions that carry
\* the number of the run, and reads their advances.
ReadSettlements(r) ==
    /\ attempt[r].pc = "finishing"
    /\ Goes(r, [pc |-> "reversing", run |-> attempt[r].run, table |-> advances,
                rows |-> {row \in settlements :
                            row.deduction /\ row.number = runs[attempt[r].run].number}])
    /\ UNCHANGED tables

Given(rows, a) ==
    SumFunctionOnSet([row \in rows |-> row.amount], {row \in rows : row.advance = a})

\* Each settled amount is written as what was read less what is given back.
GiveBack(rows, table) ==
    [a \in Advances |->
        IF \A row \in rows : row.advance # a THEN advances[a]
        ELSE [advances[a] EXCEPT !.settled = IF Given(rows, a) < table[a].settled
                                             THEN table[a].settled - Given(rows, a) ELSE 0]]

FinishDelete(r) ==
    LET i == attempt[r].run
    IN  /\ attempt[r].pc = "reversing"
        /\ i \in Standing
        /\ settlements' =
              {[row EXCEPT !.status = IF row.run = i THEN "reversed" ELSE row.status,
                           !.deduction = row.deduction /\ row \notin attempt[r].rows] :
                  row \in settlements}
        /\ advances' = GiveBack(attempt[r].rows, attempt[r].table)
        /\ CancelEntries(Ref("payroll_accrual", i))
        /\ runs' = [runs EXCEPT ![i].status = "deleted"]
        /\ Ends(r)
        /\ UNCHANGED salaries

-----------------------------------------------------------------------------
(* cancelOperation on the two kinds of invoice.                            *)

CancelSalary(r, s) ==
    /\ attempt[r] = Free
    /\ s \in DOMAIN salaries
    /\ CancelledSalary(s)
    /\ UNCHANGED <<runs, advances, settlements, attempt>>

\* Mutant of ReadAdvance: a settled advance may be cancelled.
ReadAdvanceSettled(r, a) ==
    /\ attempt[r] = Free
    /\ advances[a].status = "active"
    /\ Goes(r, [pc |-> "waiving", advance |-> a])
    /\ UNCHANGED tables

\* An advance nothing was deducted from, as read.
ReadAdvance(r, a) ==
    /\ attempt[r] = Free
    /\ advances[a].status = "active" /\ advances[a].settled = 0
    /\ Goes(r, [pc |-> "waiving", advance |-> a])
    /\ UNCHANGED tables

WriteAdvance(r) ==
    /\ attempt[r].pc = "waiving"
    /\ advances' = [advances EXCEPT ![attempt[r].advance].status = "cancelled"]
    /\ CancelEntries(Ref("advance", attempt[r].advance))
    /\ Ends(r)
    /\ UNCHANGED <<runs, settlements, salaries>>

-----------------------------------------------------------------------------

\* What a request that has read and will write depends on: its run, and the
\* advances it settles, gives back or cancels.
Touches(r) ==
    LET a == attempt[r]
        run == IF "run" \in DOMAIN a THEN {<<"run", a.run>>} ELSE {}
        settled == CASE a.pc \in {"approving", "accruing"} -> Taken(a.content)
                     [] a.pc = "waiving" -> {a.advance}
                     [] a.pc \in {"dropping", "listing", "cancelling", "finishing", "reversing"} ->
                          {row.advance : row \in {s \in settlements : s.run = a.run}}
                     [] OTHER -> {}
    IN  run \cup ({"advance"} \X settled)

RequestsApart ==
    \A r, s \in Attempts : r # s => Touches(r) \cap Touches(s) = {}

Step(r) ==
    \/ \E draft \in Drafts : CheckCreate(r, draft[1], draft[2])
    \/ CountRuns(r) \/ InsertRun(r)
    \/ \E i \in Standing, set \in Edits : ReadEdit(r, i, set)
    \/ WriteEdit(r)
    \/ \E i \in Standing : ReadApproval(r, i)
    \/ ReadAdvances(r) \/ CommitApproval(r)
    \/ \E i \in Standing, v \in Vaults, d \in Days : ReadIssue(r, i, v, d)
    \/ CheckRun(r) \/ CommitIssue(r)
    \/ \E token \in Tokens, month \in Months, extra \in Extras, v \in Vaults, d \in Days :
          FindSupplementary(r, token, month, extra, v, d)
    \/ CommitSupplementary(r)
    \/ \E i \in Standing : ReadDelete(r, i)
    \/ DropDraft(r) \/ ListSalaries(r) \/ CancelOfRun(r) \/ ReadSettlements(r) \/ FinishDelete(r)
    \/ \E s \in DOMAIN salaries : CancelSalary(r, s)
    \/ \E a \in Advances : ReadAdvance(r, a)
    \/ WriteAdvance(r)
    \/ Abort(r)

Next ==
    /\ \E r \in Attempts : Step(r)
    /\ apart' = (apart /\ RequestsApart')
    /\ UNCHANGED settings

Spec == Init /\ [][Next]_vars

-----------------------------------------------------------------------------
(* Properties.                                                             *)

\* However requests overlap and retry, a run is accrued once, each advance is
\* settled once for it, and one salary invoice pays it: two approvals, and
\* two payments, of one run meet at the claim and at the unique indexes.
AccruedOnce ==
    \A i \in DOMAIN runs :
        /\ Cardinality(PaidBy(i)) <= 1
        /\ \A e, f \in Accrual(i) : ledger[e].credit = ledger[f].credit => e = f

\* An advance is never settled beyond its amount, even by two runs that read
\* it before either wrote (the remaining amount is what an approval may take).
SettledWithinAdvance == \A a \in Advances : advances[a].settled <= AdvanceTotals[a]

\* As long as no two requests that overlap depend on one run or one advance:
\* the books say what the tables say.  A completed run has the accrual of its
\* content; a draft or a deleted run has left nothing behind; what is settled
\* of an advance is what the runs that stand have deducted; the employees are
\* owed what was accrued and not paid, and owe what was advanced and not
\* settled.  It holds between the transactions of a delete too, and after one
\* that was interrupted.
BooksMatch ==
    /\ \A i \in DOMAIN runs :
          LET done == runs[i].status = "completed"
              deductions == {row \in settlements : row.run = i /\ row.status = "active"}
          IN  /\ ~done => Accrual(i) = {} /\ PaidBy(i) = {}
              /\ done => Total(Accrual(i)) = runs[i].content.net + Deducted(runs[i].content)
              /\ {row.advance : row \in deductions}
                    = IF done THEN Taken(runs[i].content) ELSE {}
              /\ \A row \in deductions : row.amount = runs[i].content.takes[row.advance]
    /\ \A a \in Advances :
          advances[a].settled = Given({row \in settlements : row.status = "active"}, a)
    /\ -Balance(Payable) =
          SumFunctionOnSet([i \in DOMAIN runs |-> runs[i].content.net],
                           {i \in DOMAIN runs : runs[i].status = "completed"})
          - SumFunctionOnSet([s \in DOMAIN salaries |-> salaries[s].total],
                             {s \in DOMAIN salaries : salaries[s].status = "active"})
    /\ Balance(AdvanceAsset) =
          SumFunctionOnSet([a \in Advances |-> AdvanceTotals[a] - advances[a].settled],
                           {a \in Advances : advances[a].status = "active"})

ApartRunsKeepBooks == apart => BooksMatch

\* A run that is completed and not paid can be paid: no earlier invoice keeps
\* the number its payment will carry ("making the issue of the salary invoice
\* safely repeatable", docs/NOORIX_COMPREHENSIVE_REPAIR_PLAN.md).
UnpaidCanBePaid ==
    \A i \in Standing :
        runs[i].status = "completed" /\ PaidBy(i) = {} => Billable(runs[i].number, i)

=============================================================================
