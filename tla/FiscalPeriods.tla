---------------------------- MODULE FiscalPeriods ----------------------------
(***************************************************************************)
(* The fiscal calendar of one company (fiscal-period.service.ts): the rows *)
(* of fiscal_periods and the administrator requests that create, close and *)
(* reopen them.  Every request is a read followed, in a later statement,   *)
(* by a write; nothing locks the rows in between, so the requests of       *)
(* several administrators interleave there.                                *)
(***************************************************************************)
EXTENDS Naturals, FiniteSets

CONSTANTS Days,       \* the calendar days a period or a posting may name
          PeriodIds,  \* row identifiers of fiscal_periods
          Admins      \* concurrent administrator requests

ASSUME DaysAssumption == Days \subseteq Nat

VARIABLES periods,    \* the table: PeriodIds -> a row, or NoRow
          admin       \* what each administrator request is doing

periodVars == <<periods, admin>>

NoRow == [status |-> "absent", first |-> 0, last |-> 0]
Rows  == [status : {"open", "closed", "locked"}, first : Days, last : Days]

Idle   == [pc |-> "idle"]
Writes == [pc : {"creating"}, first : Days, last : Days]
            \cup [pc : {"closing", "reopening"}, id : PeriodIds]

PeriodTypeOK ==
    /\ periods \in [PeriodIds -> Rows \cup {NoRow}]
    /\ admin \in [Admins -> Writes \cup {Idle}]

-----------------------------------------------------------------------------
(* Reading the calendar. *)

Stored == {p \in PeriodIds : periods[p] # NoRow}

Spans(row, d) == row.first <= d /\ d <= row.last

Overlap(row, first, last) == row.first <= last /\ row.last >= first

\* The latest-starting period over a day is the one findFirst returns.
Governs(p, d) ==
    /\ p \in Stored
    /\ Spans(periods[p], d)
    /\ \A q \in Stored : Spans(periods[q], d) => periods[q].first <= periods[p].first

\* assertPeriodOpenForDate lets the posting through: no period at all is open.
OpenOn(d) == \A p \in PeriodIds : Governs(p, d) => periods[p].status = "open"

-----------------------------------------------------------------------------
(* A company starts without periods; a row may also have been locked by    *)
(* hand, the only way a "locked" status can get there.                     *)

PeriodInit ==
    /\ \/ periods = [p \in PeriodIds |-> NoRow]
       \/ \E p \in PeriodIds, first, last \in Days :
              /\ first < last
              /\ periods = [q \in PeriodIds |->
                     IF q = p THEN [status |-> "locked", first |-> first, last |-> last]
                              ELSE NoRow]
    /\ admin = [a \in Admins |-> Idle]

\* Mutant of CreateCheck: periods that share their first or last day pass.
CreateCheckStrict(a, first, last) ==
    /\ admin[a] = Idle
    /\ Stored # PeriodIds
    /\ first < last
    /\ \A p \in Stored : ~(periods[p].first < last /\ periods[p].last > first)
    /\ admin' = [admin EXCEPT ![a] = [pc |-> "creating", first |-> first, last |-> last]]
    /\ UNCHANGED periods

\* createPeriod and createDefaultPeriodForCompany: assertNoOverlap ...
CreateCheck(a, first, last) ==
    /\ admin[a] = Idle
    /\ Stored # PeriodIds    \* bound: as many periods as PeriodIds
    /\ first < last
    /\ \A p \in Stored : ~Overlap(periods[p], first, last)
    /\ admin' = [admin EXCEPT ![a] = [pc |-> "creating", first |-> first, last |-> last]]
    /\ UNCHANGED periods

\* Mutant of CreateWrite: no unique index on the start day.
CreateWriteTwice(a) ==
    /\ admin[a].pc = "creating"
    /\ \E p \in PeriodIds \ Stored :
          periods' = [periods EXCEPT ![p] =
              [status |-> "open", first |-> admin[a].first, last |-> admin[a].last]]
    /\ admin' = [admin EXCEPT ![a] = Idle]

\* ... then the insert, which the unique (companyId, startDate) can refuse.
CreateWrite(a) ==
    /\ admin[a].pc = "creating"
    /\ \/ /\ \A p \in Stored : periods[p].first # admin[a].first
          /\ \E p \in PeriodIds \ Stored :
                periods' = [periods EXCEPT ![p] =
                    [status |-> "open", first |-> admin[a].first, last |-> admin[a].last]]
       \/ /\ \E p \in Stored : periods[p].first = admin[a].first
          /\ UNCHANGED periods
    /\ admin' = [admin EXCEPT ![a] = Idle]

\* closePeriod reads a row and goes on only if it is open.
CloseRead(a, p) ==
    /\ admin[a] = Idle
    /\ periods[p].status = "open"
    /\ admin' = [admin EXCEPT ![a] = [pc |-> "closing", id |-> p]]
    /\ UNCHANGED periods

\* reopenPeriod goes on unless the row is locked.
ReopenRead(a, p) ==
    /\ admin[a] = Idle
    /\ p \in Stored
    /\ periods[p].status # "locked"
    /\ admin' = [admin EXCEPT ![a] = [pc |-> "reopening", id |-> p]]
    /\ UNCHANGED periods

\* The update by id repeats no condition on the status.
StatusWrite(a) ==
    /\ admin[a].pc \in {"closing", "reopening"}
    /\ periods' = [periods EXCEPT ![admin[a].id].status =
                     IF admin[a].pc = "closing" THEN "closed" ELSE "open"]
    /\ admin' = [admin EXCEPT ![a] = Idle]

PeriodNext ==
    \E a \in Admins :
        \/ \E first, last \in Days : CreateCheck(a, first, last)
        \/ CreateWrite(a)
        \/ \E p \in PeriodIds : CloseRead(a, p) \/ ReopenRead(a, p)
        \/ StatusWrite(a)

PeriodSpec == PeriodInit /\ [][PeriodNext]_periodVars

-----------------------------------------------------------------------------
(* Properties. *)

\* No two periods start on the same day, so at most one period decides
\* whether a day is open, however the administrators interleave
\* (assertPeriodOpenForDate takes the first row by descending start).
OneGovernor ==
    \A d \in Days, p, q \in PeriodIds : Governs(p, d) /\ Governs(q, d) => p = q

\* Two stored periods never share a day (assertNoOverlap; the rule of
\* docs/ACCOUNTING_FLOWS.md section 9).
NoOverlap ==
    \A p, q \in Stored : p # q => ~Overlap(periods[p], periods[q].first, periods[q].last)

\* A period that is not open shuts every day of it: no other row can still
\* declare one of its days open to assertPeriodOpenForDate.
ClosingShutsEveryDay ==
    \A p \in Stored : periods[p].status # "open" =>
        \A d \in Days : Spans(periods[p], d) => ~OpenOn(d)

\* No two administrator requests are between their read and their write.
OneAtATime == \A a, b \in Admins : admin[a] # Idle /\ admin[b] # Idle => a = b

\* As long as administrator requests do not overlap in time, stored periods
\* never share a day: the check of assertNoOverlap is enough then.
SequentialNoOverlap == []OneAtATime => []NoOverlap

\* As long as administrator requests do not overlap in time, closing a period
\* shuts each of its days to assertPeriodOpenForDate.
SequentialClosingShuts == []OneAtATime => []ClosingShutsEveryDay

\* closePeriod and reopenPeriod never move a locked period, and no request
\* removes a period or changes its dates.
LockedAndDatesStay ==
    [][\A p \in Stored :
          /\ periods[p].status = "locked" => periods'[p] = periods[p]
          /\ periods'[p].first = periods[p].first
          /\ periods'[p].last = periods[p].last]_periodVars

=============================================================================
