----------------------------- MODULE LoansProofs -----------------------------
(***************************************************************************)
(* Loans, for any number of loans, payments, requests and legacy invoices: *)
(* payments are recorded once, the outstanding amount is the opening       *)
(* amount less the payments that stand, and the ledger carries it.         *)
(***************************************************************************)
EXTENDS Loans, LedgerProofs

Sights == [opening : Nat, entry : Nat, rows : SUBSET Legacy]
AttemptRows ==
    [pc : Running \cup {"done", "failed"}, request : Requests, reply : Nat, seen : Sights]

-----------------------------------------------------------------------------
(* What a request in progress may rely on.                                 *)

\* The opening entry a conversion read is still the loan's, with the opening
\* amount that was read, ...
Current(a) ==
    LET l == loans[a.request.loan] IN a.seen.entry = l.entry /\ a.seen.opening = l.opening

\* ... or another conversion has cancelled it.
SightHolds(a) ==
    /\ a.request.loan \in DOMAIN loans
    /\ a.seen.entry \in DOMAIN ledger
    /\ Current(a) \/ ledger[a.seen.entry].status = "cancelled"

Converting(a) == a.pc \in {"opening", "write"} /\ a.request.op = "convert"

\* Another conversion has taken one of the invoices.
Overtaken(a) == \E i \in a.seen.rows : invoice[i].converted

Good(a) ==
    /\ a.pc \in {"key", "period"} => a.request.op \in {"loan", "pay", "reverse"}
    /\ a.pc = "original" => a.request.op = "reverse"
    /\ a.pc = "vault" => a.request.op = "pay"
    /\ a.pc \in {"loan", "opening"} => a.request.op = "convert"
    /\ a.pc = "write" /\ a.request.op = "pay" => a.request.loan \in DOMAIN loans
    /\ a.pc \in {"period", "write"} /\ a.request.op = "reverse" =>
          /\ a.request.payment \in DOMAIN payments
          /\ payments[a.request.payment].loan = a.request.loan
          /\ payments[a.request.payment].of = 0
    /\ a.pc \in {"rows", "opening", "write"} /\ a.request.op = "convert" => SightHolds(a)
    /\ Converting(a) =>
          /\ a.seen.rows # {}
          /\ \A i \in a.seen.rows : invoice[i].loan = a.request.loan
    /\ a.pc = "write" /\ a.request.op = "convert" => Current(a) \/ Overtaken(a)

\* Of two conversions of one loan that nobody has overtaken, one has read the
\* invoices of the other.
Nested(a, b) ==
    Converting(a) /\ Converting(b) /\ a.request.loan = b.request.loan
      /\ ~Overtaken(a) /\ ~Overtaken(b)
    => a.seen.rows \subseteq b.seen.rows \/ b.seen.rows \subseteq a.seen.rows

AttemptsGood ==
    /\ \A r \in Attempts : Good(attempt[r])
    /\ \A r, s \in Attempts : Nested(attempt[r], attempt[s])

\* One request moves to a, the others stay.
Moved(r, a) ==
    /\ attempt' = [s \in Attempts |-> attempt'[s]]
    /\ attempt'[r] = a
    /\ \A s \in Attempts \ {r} : attempt'[s] = attempt[s]

\* What a step leaves to the requests in progress, conversions apart.
Kept ==
    /\ DOMAIN loans \subseteq DOMAIN loans'
    /\ \A l \in DOMAIN loans :
          loans'[l].entry = loans[l].entry /\ loans'[l].opening = loans[l].opening
    /\ DOMAIN payments \subseteq DOMAIN payments'
    /\ \A i \in DOMAIN payments :
          payments'[i].loan = payments[i].loan /\ payments'[i].of = payments[i].of
    /\ DOMAIN ledger \subseteq DOMAIN ledger'
    /\ \A e \in DOMAIN ledger :
          ledger[e].status = "cancelled" => ledger'[e].status = "cancelled"
    /\ \A i \in Legacy :
          /\ invoice[i].loan # 0 => invoice'[i].loan = invoice[i].loan
          /\ invoice'[i].converted = invoice[i].converted

\* A request that moves to a typed record leaves all of them typed.
LEMMA MovedTyped ==
    ASSUME TypeOK, NEW r \in Attempts, NEW a \in AttemptRows, Moved(r, a)
    PROVE  attempt' \in [Attempts -> {Unsent} \cup AttemptRows]
BY DEF TypeOK, Moved, AttemptRows, Sights

\* A request that was submitted is a record.
LEMMA RowTyped ==
    ASSUME TypeOK, NEW r \in Attempts, attempt[r].pc # "idle"
    PROVE  attempt[r] \in AttemptRows
BY DEF TypeOK, Unsent, AttemptRows, Sights

\* What a request knows stays true while the tables keep what it saw.
LEMMA KeptGood ==
    ASSUME TypeOK, Kept, NEW a \in AttemptRows, Good(a)
    PROVE  Good(a)'
<1>1. a.request \in Requests /\ a.seen.rows \subseteq Legacy
  BY DEF AttemptRows, Sights
<1>2. a.request.op = "convert" => a.request.loan # 0
  BY <1>1, RequestsAssumption
<1>3. Converting(a)' <=> Converting(a)
  BY DEF Converting
<1>4. Overtaken(a)' <=> Overtaken(a)
  BY <1>1 DEF Overtaken, Kept
<1>5. a.request.loan \in DOMAIN loans => (Current(a)' <=> Current(a))
  BY DEF Current, Kept
<1>6. SightHolds(a) => SightHolds(a)'
  BY <1>5 DEF SightHolds, Kept
<1>7. a.pc = "write" /\ a.request.op = "convert" => a.request.loan \in DOMAIN loans
  BY DEF Good, SightHolds
<1>8. Converting(a) => \A i \in a.seen.rows : (invoice[i].loan)' = a.request.loan
  BY <1>1, <1>2 DEF Good, Kept, Converting
<1>9. /\ a.request.loan \in DOMAIN loans => a.request.loan \in DOMAIN loans'
      /\ a.request.payment \in DOMAIN payments =>
            /\ a.request.payment \in DOMAIN payments'
            /\ payments'[a.request.payment].loan = payments[a.request.payment].loan
            /\ payments'[a.request.payment].of = payments[a.request.payment].of
  BY DEF Kept
<1> QED BY <1>3, <1>4, <1>5, <1>6, <1>7, <1>8, <1>9 DEF Good

\* Two conversions of one loan stay nested while the tables stay.
LEMMA KeptNested ==
    ASSUME Kept, NEW a \in AttemptRows, NEW b \in AttemptRows, Nested(a, b)
    PROVE  Nested(a, b)'
<1>1. a.seen.rows \subseteq Legacy /\ b.seen.rows \subseteq Legacy
  BY DEF AttemptRows, Sights
<1>2. (Overtaken(a)' <=> Overtaken(a)) /\ (Overtaken(b)' <=> Overtaken(b))
  BY <1>1 DEF Overtaken, Kept
<1> QED BY <1>2 DEF Nested, Converting

\* A step of one request that is no conversion keeps what all rely on.
LEMMA StepGood ==
    ASSUME TypeOK, AttemptsGood, Kept, NEW r \in Attempts, NEW a \in AttemptRows,
           Moved(r, a), Good(a), \A s \in Attempts \ {r} : Nested(a, attempt[s])
    PROVE  AttemptsGood'
<1>1. \A s \in Attempts : attempt'[s] \in {Unsent} \cup AttemptRows
  BY MovedTyped
<1>2. ASSUME NEW s \in Attempts PROVE Good(attempt[s])'
  <2>1. PICK b : b = attempt'[s]
    OBVIOUS
  <2>2. CASE b = Unsent
    BY <2>1, <2>2 DEF Good, Converting, Unsent
  <2>3. CASE b \in AttemptRows
    <3>1. Good(b)
      BY <2>1 DEF Moved, AttemptsGood
    <3>2. Good(b)'
      BY <2>3, <3>1, KeptGood
    <3> QED BY <2>1, <3>2 DEF Good, SightHolds, Current, Overtaken, Converting
  <2> QED BY <1>1, <2>1, <2>2, <2>3
<1>3. ASSUME NEW s \in Attempts, NEW t \in Attempts PROVE Nested(attempt[s], attempt[t])'
  <2>1. PICK b : b = attempt'[s]
    OBVIOUS
  <2>2. PICK c : c = attempt'[t]
    OBVIOUS
  <2>3. Nested(b, c)
    <3>1. Nested(a, a)
      BY DEF Nested
    <3>2. \A x \in Attempts, y \in Attempts : Nested(attempt[x], attempt[y])
      BY DEF AttemptsGood
    <3>3. \A x, y : Nested(x, y) => Nested(y, x)
      BY DEF Nested
    <3>4. CASE s = r /\ t = r
      BY <2>1, <2>2, <3>1, <3>4 DEF Moved
    <3>5. CASE s = r /\ t # r
      BY <2>1, <2>2, <3>5 DEF Moved
    <3>6. CASE s # r /\ t = r
      BY <2>1, <2>2, <3>3, <3>6 DEF Moved
    <3>7. CASE s # r /\ t # r
      BY <2>1, <2>2, <3>2, <3>7 DEF Moved
    <3> QED BY <3>4, <3>5, <3>6, <3>7
  <2>4. CASE b = Unsent \/ c = Unsent
    BY <2>1, <2>2, <2>4 DEF Nested, Converting, Unsent
  <2>5. CASE b \in AttemptRows /\ c \in AttemptRows
    <3>1. Nested(b, c)'
      BY <2>3, <2>5, KeptNested
    <3> QED BY <2>1, <2>2, <3>1 DEF Nested, Overtaken, Converting
  <2> QED BY <1>1, <2>1, <2>2, <2>4, <2>5
<1> QED BY <1>2, <1>3 DEF AttemptsGood

-----------------------------------------------------------------------------
(* The steps that only read.                                               *)

\* The row of a request that goes on with another step.
Onward(r, pc, reply, seen) ==
    [pc |-> pc, request |-> attempt[r].request, reply |-> reply, seen |-> seen]

\* The assignment of a step is a move of one request.
LEMMA Moves ==
    ASSUME TypeOK, NEW r \in Attempts, attempt[r] \in AttemptRows
    PROVE  /\ \A pc : Goto(r, pc) => Moved(r, Onward(r, pc, attempt[r].reply, attempt[r].seen))
           /\ \A i : Done(r, i) => Moved(r, Onward(r, "done", i, attempt[r].seen))
<1>1. attempt[r] = Onward(r, attempt[r].pc, attempt[r].reply, attempt[r].seen)
  BY DEF Onward, AttemptRows
<1>2. ASSUME NEW pc, Goto(r, pc)
      PROVE  Moved(r, Onward(r, pc, attempt[r].reply, attempt[r].seen))
  <2>1. attempt'[r] = Onward(r, pc, attempt[r].reply, attempt[r].seen)
    BY <1>2 DEF Goto, Onward, TypeOK, AttemptRows
  <2> QED BY <1>2, <2>1 DEF Goto, Moved, TypeOK
<1>3. ASSUME NEW i, Done(r, i) PROVE Moved(r, Onward(r, "done", i, attempt[r].seen))
  <2>1. attempt'[r] = Onward(r, "done", i, attempt[r].seen)
    BY <1>3 DEF Done, Onward, TypeOK, AttemptRows
  <2> QED BY <1>3, <2>1 DEF Done, Moved, TypeOK
<1> QED BY <1>2, <1>3

\* The record a step leaves behind is typed.
LEMMA OnwardTyped ==
    ASSUME TypeOK, NEW r \in Attempts, attempt[r] \in AttemptRows,
           NEW pc \in Running \cup {"done", "failed"}, NEW reply \in Nat, NEW seen \in Sights
    PROVE  /\ Onward(r, pc, reply, seen) \in AttemptRows
           /\ Onward(r, pc, reply, seen).pc = pc
           /\ Onward(r, pc, reply, seen).request = attempt[r].request
           /\ Onward(r, pc, reply, seen).seen = seen
BY DEF Onward, AttemptRows

\* Nothing is expected of a request that is over or has collided.
LEMMA SettledGood ==
    ASSUME NEW a, a.pc \in {"done", "failed", "collided"}
    PROVE  Good(a) /\ \A b : Nested(a, b)
BY DEF Good, Nested, Converting

\* A step that only reads keeps the types of the tables.
LEMMA UnwrittenTyped ==
    ASSUME TypeOK, Unwritten, NEW r \in Attempts, NEW a \in AttemptRows, Moved(r, a)
    PROVE  TypeOK' /\ Kept
<1>1. attempt' \in [Attempts -> {Unsent} \cup AttemptRows]
  BY MovedTyped
<1>2. UNCHANGED <<loans, payments, invoice, ledger>>
  BY DEF Unwritten, loanVars
<1>3. TypeOK'
  BY <1>1, <1>2 DEF TypeOK, LedgerTypeOK, AttemptRows, Sights
<1>4. Kept
  BY <1>2 DEF Kept
<1> QED BY <1>3, <1>4

\* Every loan names an entry of the ledger.
OpeningsKnown == \A l \in DOMAIN loans : loans[l].entry \in DOMAIN ledger

ReadSteps(r) ==
    \/ FindByKey(r) \/ ReadOriginal(r) \/ CheckPeriod(r) \/ CheckVault(r)
    \/ Collide(r) \/ Resolve(r) \/ Exceed(r)
    \/ ReadInvoices(r) \/ ReadLoan(r) \/ ReadRows(r) \/ ReadOpening(r)
    \/ LoseConversion(r)

\* A request that goes on, or is over, without a new sight.
LEMMA GotoGood ==
    ASSUME TypeOK, AttemptsGood, NEW r \in Attempts, attempt[r].pc \in Running, Unwritten,
           NEW pc \in Running \cup {"failed"}, Goto(r, pc),
           pc \notin {"failed", "collided"} =>
               Good(Onward(r, pc, attempt[r].reply, attempt[r].seen)),
           pc \in {"opening", "write"} /\ attempt[r].request.op = "convert" =>
               Converting(attempt[r])
    PROVE  TypeOK' /\ AttemptsGood'
<1> DEFINE a == Onward(r, pc, attempt[r].reply, attempt[r].seen)
<1>1. attempt[r] \in AttemptRows
  BY RowTyped DEF Running
<1>2. Moved(r, a)
  BY <1>1, Moves
<1>3. attempt[r].reply \in Nat /\ attempt[r].seen \in Sights
  BY <1>1 DEF AttemptRows
<1>4. a \in AttemptRows /\ a.pc = pc /\ a.request = attempt[r].request
      /\ a.seen = attempt[r].seen
  BY <1>1, <1>3, OnwardTyped
<1> HIDE DEF a
<1>5. TypeOK' /\ Kept
  BY <1>2, <1>4, UnwrittenTyped
<1>6. Good(a) /\ \A s \in Attempts \ {r} : Nested(a, attempt[s])
  <2>1. CASE pc \in {"failed", "collided"}
    BY <1>4, <2>1, SettledGood
  <2>2. CASE pc \notin {"failed", "collided"}
    <3>1. ASSUME NEW s \in Attempts PROVE Nested(a, attempt[s])
      <4>1. Nested(attempt[r], attempt[s])
        BY DEF AttemptsGood
      <4> QED BY <1>4, <4>1 DEF Nested, Converting, Overtaken
    <3> QED BY <2>2, <3>1 DEF a
  <2> QED BY <2>1, <2>2
<1>7. AttemptsGood'
  BY <1>2, <1>4, <1>5, <1>6, StepGood
<1> QED BY <1>5, <1>7

\* A request that is answered is over.
LEMMA DoneGood ==
    ASSUME TypeOK, AttemptsGood, NEW r \in Attempts, attempt[r].pc \in Running, Unwritten,
           NEW i \in Nat, Done(r, i)
    PROVE  TypeOK' /\ AttemptsGood'
<1> DEFINE a == Onward(r, "done", i, attempt[r].seen)
<1>1. attempt[r] \in AttemptRows
  BY RowTyped DEF Running
<1>2. Moved(r, a)
  BY <1>1, Moves
<1>3. attempt[r].seen \in Sights
  BY <1>1 DEF AttemptRows
<1>4. a \in AttemptRows /\ a.pc = "done"
  BY <1>1, <1>3, OnwardTyped
<1> HIDE DEF a
<1>5. TypeOK' /\ Kept
  BY <1>2, <1>4, UnwrittenTyped
<1>6. AttemptsGood'
  BY <1>2, <1>4, <1>5, SettledGood, StepGood
<1> QED BY <1>5, <1>6

\* A replay answers or fails; either way the request is over.
LEMMA ReplayGood ==
    ASSUME TypeOK, AttemptsGood, NEW r \in Attempts, attempt[r].pc \in Running, Unwritten,
           NEW i \in Holders(attempt[r].request), Replay(r, i)
    PROVE  TypeOK' /\ AttemptsGood'
<1>1. i \in Nat
  BY DEF Holders, LoansWithKey, PaymentsWithKey, TypeOK
<1>2. CASE Done(r, i)
  BY <1>1, <1>2, DoneGood
<1>3. CASE Fail(r)
  BY <1>3, GotoGood DEF Fail, Running
<1> QED BY <1>2, <1>3 DEF Replay

\* What Good says of the next step, for a request that goes on.
LEMMA OnwardGood ==
    ASSUME NEW r, NEW pc, NEW reply, NEW seen
    PROVE  LET q == attempt[r].request
               a == Onward(r, pc, reply, seen)
           IN ( /\ pc \in {"key", "period"} => q.op \in {"loan", "pay", "reverse"}
                /\ pc = "original" => q.op = "reverse"
                /\ pc = "vault" => q.op = "pay"
                /\ pc \in {"loan", "opening"} => q.op = "convert"
                /\ pc = "write" /\ q.op = "pay" => q.loan \in DOMAIN loans
                /\ pc \in {"period", "write"} /\ q.op = "reverse" =>
                      /\ q.payment \in DOMAIN payments
                      /\ payments[q.payment].loan = q.loan
                      /\ payments[q.payment].of = 0
                /\ pc \in {"rows", "opening", "write"} /\ q.op = "convert" => SightHolds(a)
                /\ pc \in {"opening", "write"} /\ q.op = "convert" =>
                      /\ seen.rows # {}
                      /\ \A i \in seen.rows : invoice[i].loan = q.loan
                /\ pc = "write" /\ q.op = "convert" => Current(a) \/ Overtaken(a) )
              => Good(a)
BY DEF Good, Converting, Onward

\* FindByKey keeps what every request knows.
LEMMA KeyGood ==
    ASSUME TypeOK, AttemptsGood, NEW r \in Attempts, FindByKey(r)
    PROVE  TypeOK' /\ AttemptsGood'
<1> DEFINE q == attempt[r].request
<1>1. attempt[r].pc = "key" /\ attempt[r].pc \in Running /\ Unwritten
  BY DEF FindByKey, At, Running
<1>2. q.op \in {"loan", "pay", "reverse"}
  BY <1>1 DEF AttemptsGood, Good
<1>3. CASE \E i \in Holders(q) : Replay(r, i)
  BY <1>1, <1>3, ReplayGood
<1>4. CASE Goto(r, IF q.op = "reverse" THEN "original" ELSE "period")
  <2>1. PICK pc : pc = IF q.op = "reverse" THEN "original" ELSE "period"
    OBVIOUS
  <2>2. pc \in {"original", "period"} /\ Goto(r, pc) /\ pc \in Running
    BY <1>4, <2>1 DEF Running
  <2>3. Good(Onward(r, pc, attempt[r].reply, attempt[r].seen))
    BY <1>2, <2>1, OnwardGood
  <2> QED BY <1>1, <2>2, <2>3, GotoGood
<1> QED BY <1>3, <1>4 DEF FindByKey

\* ReadOriginal keeps what every request knows.
LEMMA OriginalGood ==
    ASSUME TypeOK, AttemptsGood, NEW r \in Attempts, ReadOriginal(r)
    PROVE  TypeOK' /\ AttemptsGood'
<1> DEFINE q == attempt[r].request
<1>1. attempt[r].pc = "original" /\ attempt[r].pc \in Running /\ Unwritten
  BY DEF ReadOriginal, At, Running
<1>2. q.op = "reverse"
  BY <1>1 DEF AttemptsGood, Good
<1>3. CASE Reversible(q)
  <2>1. Good(Onward(r, "period", attempt[r].reply, attempt[r].seen))
    BY <1>2, <1>3, OnwardGood DEF Reversible
  <2> QED BY <1>1, <1>3, <2>1, GotoGood DEF ReadOriginal, Running
<1>4. CASE ~Reversible(q)
  BY <1>1, <1>4, GotoGood DEF ReadOriginal
<1> QED BY <1>3, <1>4

\* CheckPeriod keeps what every request knows.
LEMMA PeriodGood ==
    ASSUME TypeOK, AttemptsGood, NEW r \in Attempts, CheckPeriod(r)
    PROVE  TypeOK' /\ AttemptsGood'
<1> DEFINE q == attempt[r].request
<1>1. attempt[r].pc = "period" /\ attempt[r].pc \in Running /\ Unwritten
  BY DEF CheckPeriod, At, Running
<1>2. /\ q.op \in {"loan", "pay", "reverse"}
      /\ q.op = "reverse" =>
            /\ q.payment \in DOMAIN payments
            /\ payments[q.payment].loan = q.loan
            /\ payments[q.payment].of = 0
  BY <1>1 DEF AttemptsGood, Good
<1>3. PICK pc : pc = IF ~OpenOn(q.day) THEN "failed" ELSE IF q.op = "pay" THEN "vault" ELSE "write"
  OBVIOUS
<1>4. /\ pc \in {"failed", "vault", "write"} /\ Goto(r, pc) /\ pc \in Running \cup {"failed"}
      /\ pc = "vault" => q.op = "pay"
      /\ pc = "write" => q.op # "pay"
  BY <1>3 DEF CheckPeriod, Running
<1>5. pc # "failed" => Good(Onward(r, pc, attempt[r].reply, attempt[r].seen))
  BY <1>2, <1>4, OnwardGood
<1> QED BY <1>1, <1>2, <1>4, <1>5, GotoGood

\* CheckVault keeps what every request knows.
LEMMA VaultGood ==
    ASSUME TypeOK, AttemptsGood, NEW r \in Attempts, CheckVault(r)
    PROVE  TypeOK' /\ AttemptsGood'
<1> DEFINE q == attempt[r].request
<1>1. attempt[r].pc = "vault" /\ attempt[r].pc \in Running /\ Unwritten
  BY DEF CheckVault, At, Running
<1>2. q.op = "pay"
  BY <1>1 DEF AttemptsGood, Good
<1>3. CASE q.loan \in DOMAIN loans /\ Usable(q.vault)
  <2>1. Good(Onward(r, "write", attempt[r].reply, attempt[r].seen))
    BY <1>2, <1>3, OnwardGood
  <2> QED BY <1>1, <1>2, <1>3, <2>1, GotoGood DEF CheckVault, Running
<1>4. CASE ~(q.loan \in DOMAIN loans /\ Usable(q.vault))
  BY <1>1, <1>4, GotoGood DEF CheckVault
<1> QED BY <1>3, <1>4

\* Collide, Resolve, Exceed and LoseConversion keep what every request knows.
LEMMA OverGood ==
    ASSUME TypeOK, AttemptsGood, NEW r \in Attempts,
           Collide(r) \/ Resolve(r) \/ Exceed(r) \/ LoseConversion(r)
    PROVE  TypeOK' /\ AttemptsGood'
<1>1. attempt[r].pc \in Running /\ Unwritten
  BY DEF Collide, Resolve, Exceed, LoseConversion, At, Running
<1>2. CASE Goto(r, "failed") \/ Goto(r, "collided")
  BY <1>1, <1>2, GotoGood DEF Running
<1>3. CASE \E i \in Holders(attempt[r].request) : Replay(r, i)
  BY <1>1, <1>3, ReplayGood
<1> QED BY <1>2, <1>3 DEF Collide, Resolve, Exceed, LoseConversion, Fail

\* A request that goes on with a new sight.
LEMMA SeeGood ==
    ASSUME TypeOK, AttemptsGood, NEW r \in Attempts, attempt[r].pc \in Running, Unwritten,
           NEW pc \in Running \cup {"done", "failed"}, NEW seen \in Sights,
           Moved(r, Onward(r, pc, attempt[r].reply, seen)),
           pc \notin {"done", "failed"} =>
               /\ Good(Onward(r, pc, attempt[r].reply, seen))
               /\ \A s \in Attempts \ {r} :
                     Nested(Onward(r, pc, attempt[r].reply, seen), attempt[s])
    PROVE  TypeOK' /\ AttemptsGood'
<1> DEFINE a == Onward(r, pc, attempt[r].reply, seen)
<1>1. attempt[r] \in AttemptRows
  BY RowTyped DEF Running
<1>2. attempt[r].reply \in Nat
  BY <1>1 DEF AttemptRows
<1>3. a \in AttemptRows /\ a.pc = pc
  BY <1>1, <1>2, OnwardTyped
<1>4. Good(a) /\ \A s \in Attempts \ {r} : Nested(a, attempt[s])
  BY <1>3, SettledGood
<1> HIDE DEF a
<1>5. TypeOK' /\ Kept
  BY <1>3, UnwrittenTyped DEF a
<1>6. Moved(r, a)
  BY DEF a
<1>7. AttemptsGood'
  BY <1>3, <1>4, <1>5, <1>6, StepGood
<1> QED BY <1>5, <1>7

\* ReadInvoices keeps what every request knows.
LEMMA InvoicesGood ==
    ASSUME TypeOK, AttemptsGood, NEW r \in Attempts, ReadInvoices(r)
    PROVE  TypeOK' /\ AttemptsGood'
<1> DEFINE q == attempt[r].request
<1>1. attempt[r].pc = "rows" /\ attempt[r].pc \in Running /\ Unwritten /\ q.op = "migrate"
  BY DEF ReadInvoices, At, Running
<1>2. attempt[r] \in AttemptRows
  BY <1>1, RowTyped
<1>3. PICK pc \in {"write", "failed"} :
          attempt' = [attempt EXCEPT ![r].seen.rows = Unlinked, ![r].pc = pc]
  BY DEF ReadInvoices
<1>4. PICK seen : seen = [opening |-> attempt[r].seen.opening, entry |-> attempt[r].seen.entry,
                          rows |-> Unlinked]
  OBVIOUS
<1>5. Unlinked \subseteq Legacy
  BY DEF Unlinked
<1>6. seen \in Sights
  BY <1>2, <1>4, <1>5 DEF AttemptRows, Sights
<1>7. attempt'[r] = Onward(r, pc, attempt[r].reply, seen)
  BY <1>2, <1>3, <1>4 DEF Onward, AttemptRows, Sights, TypeOK
<1>8. Moved(r, Onward(r, pc, attempt[r].reply, seen))
  BY <1>3, <1>7 DEF Moved, TypeOK
<1>9. Good(Onward(r, pc, attempt[r].reply, seen))
  BY <1>1, <1>3, OnwardGood
<1>10. \A s : Nested(Onward(r, pc, attempt[r].reply, seen), attempt[s])
  BY <1>1 DEF Nested, Converting, Onward
<1> QED BY <1>1, <1>6, <1>8, <1>9, <1>10, SeeGood DEF Running

\* ReadLoan learns the opening entry of the loan.
LEMMA LoanGood ==
    ASSUME TypeOK, AttemptsGood, OpeningsKnown, NEW r \in Attempts, ReadLoan(r)
    PROVE  TypeOK' /\ AttemptsGood'
<1> DEFINE l == attempt[r].request.loan
<1>1. attempt[r].pc = "loan" /\ attempt[r].pc \in Running /\ Unwritten
  BY DEF ReadLoan, At, Running
<1>2. attempt[r].request.op = "convert"
  BY <1>1 DEF AttemptsGood, Good
<1>3. attempt[r] \in AttemptRows
  BY <1>1, RowTyped
<1>4. CASE l \notin DOMAIN loans
  BY <1>1, <1>4, GotoGood DEF ReadLoan, Fail
<1>5. CASE l \in DOMAIN loans
  <2>1. PICK seen : seen = [opening |-> loans[l].opening, entry |-> loans[l].entry,
                            rows |-> attempt[r].seen.rows]
    OBVIOUS
  <2>2. loans[l] \in LoanRows
    BY <1>5, ElementOf DEF TypeOK
  <2>3. seen \in Sights
    BY <1>3, <2>1, <2>2 DEF AttemptRows, Sights, LoanRows
  <2>4. attempt' = [attempt EXCEPT ![r].pc = "rows", ![r].seen.opening = loans[l].opening,
                                   ![r].seen.entry = loans[l].entry]
    BY <1>5 DEF ReadLoan
  <2>5. attempt'[r] = Onward(r, "rows", attempt[r].reply, seen)
    BY <1>3, <2>1, <2>4 DEF Onward, AttemptRows, Sights, TypeOK
  <2>6. Moved(r, Onward(r, "rows", attempt[r].reply, seen))
    BY <2>4, <2>5 DEF Moved, TypeOK
  <2>7. SightHolds(Onward(r, "rows", attempt[r].reply, seen))
    BY <1>5, <2>1 DEF SightHolds, Current, Onward, OpeningsKnown
  <2>8. Good(Onward(r, "rows", attempt[r].reply, seen))
    BY <1>2, <2>7, OnwardGood
  <2>9. \A s : Nested(Onward(r, "rows", attempt[r].reply, seen), attempt[s])
    BY DEF Nested, Converting, Onward
  <2> QED BY <1>1, <2>3, <2>6, <2>8, <2>9, SeeGood DEF Running
<1> QED BY <1>4, <1>5

\* ReadRows learns invoices that are linked and not converted.
LEMMA RowsGood ==
    ASSUME TypeOK, AttemptsGood, NEW r \in Attempts, ReadRows(r)
    PROVE  TypeOK' /\ AttemptsGood'
<1> DEFINE q == attempt[r].request
           rows == {i \in Legacy : invoice[i].loan = q.loan /\ ~invoice[i].converted}
<1>1. attempt[r].pc = "rows" /\ attempt[r].pc \in Running /\ Unwritten /\ q.op = "convert"
  BY DEF ReadRows, At, Running
<1>2. attempt[r] \in AttemptRows
  BY <1>1, RowTyped
<1>3. PICK pc \in {"done", "opening", "failed"} :
          /\ attempt' = [attempt EXCEPT ![r].seen.rows = rows, ![r].pc = pc]
          /\ pc = "opening" => rows # {}
  BY DEF ReadRows
<1>4. PICK seen : seen = [opening |-> attempt[r].seen.opening, entry |-> attempt[r].seen.entry,
                          rows |-> rows]
  OBVIOUS
<1>5. rows \subseteq Legacy
  OBVIOUS
<1>6. seen \in Sights
  BY <1>2, <1>4, <1>5 DEF AttemptRows, Sights
<1>7. attempt'[r] = Onward(r, pc, attempt[r].reply, seen)
  BY <1>2, <1>3, <1>4 DEF Onward, AttemptRows, Sights, TypeOK
<1>8. Moved(r, Onward(r, pc, attempt[r].reply, seen))
  BY <1>3, <1>7 DEF Moved, TypeOK
<1>9. SightHolds(attempt[r])
  BY <1>1 DEF AttemptsGood, Good
<1>10. SightHolds(Onward(r, pc, attempt[r].reply, seen))
  BY <1>4, <1>9 DEF SightHolds, Current, Onward
<1>11. pc = "opening" => Good(Onward(r, pc, attempt[r].reply, seen))
  <2>1. pc = "opening" => seen.rows # {} /\ \A i \in seen.rows : invoice[i].loan = q.loan
    BY <1>3, <1>4
  <2> QED BY <1>1, <1>10, <2>1, OnwardGood
<1>12. ASSUME NEW s \in Attempts
       PROVE  Nested(Onward(r, pc, attempt[r].reply, seen), attempt[s])
  <2> DEFINE b == attempt[s]
  <2>1. SUFFICES ASSUME Converting(b), b.request.loan = q.loan, ~Overtaken(b)
                 PROVE  b.seen.rows \subseteq rows
    BY <1>4 DEF Nested, Onward
  <2>2. b \in AttemptRows
    BY <2>1, RowTyped DEF Converting
  <2>3. b.seen.rows \subseteq Legacy
    BY <2>2 DEF AttemptRows, Sights
  <2>4. \A i \in b.seen.rows : invoice[i].loan = q.loan
    BY <2>1 DEF AttemptsGood, Good
  <2> QED BY <2>1, <2>3, <2>4 DEF Overtaken
<1> QED BY <1>1, <1>3, <1>6, <1>8, <1>11, <1>12, SeeGood DEF Running

\* ReadOpening finds the entry it read before still current, or fails.
LEMMA OpeningGood ==
    ASSUME TypeOK, AttemptsGood, NEW r \in Attempts, ReadOpening(r)
    PROVE  TypeOK' /\ AttemptsGood'
<1> DEFINE seen == attempt[r].seen
<1>1. attempt[r].pc = "opening" /\ attempt[r].pc \in Running /\ Unwritten
  BY DEF ReadOpening, At, Running
<1>2. Good(attempt[r])
  BY DEF AttemptsGood
<1>3. attempt[r].request.op = "convert" /\ SightHolds(attempt[r]) /\ Converting(attempt[r])
  BY <1>1, <1>2 DEF Good, Converting
<1>4. PICK pc : pc = IF /\ ledger[seen.entry].status = "active"
                        /\ ledger[seen.entry].amount = seen.opening
                     THEN "write" ELSE "failed"
  OBVIOUS
<1>5. pc \in {"write", "failed"} /\ Goto(r, pc) /\ pc \in Running \cup {"failed"}
  BY <1>4 DEF ReadOpening, Running
<1>6. pc = "write" => Good(Onward(r, pc, attempt[r].reply, attempt[r].seen))
  <2>1. SUFFICES ASSUME pc = "write" PROVE Good(Onward(r, pc, attempt[r].reply, attempt[r].seen))
    OBVIOUS
  <2>2. Current(attempt[r])
    BY <1>3, <1>4, <2>1 DEF SightHolds
  <2>3. /\ SightHolds(Onward(r, pc, attempt[r].reply, attempt[r].seen))
        /\ Current(Onward(r, pc, attempt[r].reply, attempt[r].seen))
    BY <1>3, <2>2 DEF SightHolds, Current, Onward
  <2>4. seen.rows # {} /\ \A i \in seen.rows : invoice[i].loan = attempt[r].request.loan
    BY <1>2, <1>3 DEF Good
  <2> QED BY <1>3, <2>1, <2>3, <2>4, OnwardGood
<1> QED BY <1>1, <1>3, <1>5, <1>6, GotoGood

\* A request that arrives.
LEMMA SubmitGood ==
    ASSUME TypeOK, AttemptsGood, NEW r \in Attempts, NEW q \in Requests, Submit(r, q)
    PROVE  TypeOK' /\ AttemptsGood'
<1>1. PICK a : a = [pc |-> FirstStep(q.op), request |-> q, reply |-> 0, seen |-> NothingSeen]
  OBVIOUS
<1>2. attempt' = [attempt EXCEPT ![r] = a] /\ Unwritten
  BY <1>1 DEF Submit
<1>3. q.op \in {"loan", "pay", "reverse", "migrate", "convert"}
  BY RequestsAssumption
<1>4. /\ FirstStep(q.op) \in {"key", "rows", "loan"}
      /\ FirstStep(q.op) = "key" <=> q.op \in {"loan", "pay", "reverse"}
      /\ FirstStep(q.op) = "rows" <=> q.op = "migrate"
      /\ FirstStep(q.op) = "loan" <=> q.op = "convert"
  BY <1>3 DEF FirstStep
<1>5. a \in AttemptRows
  BY <1>1, <1>4 DEF AttemptRows, Sights, NothingSeen, Running
<1>6. Moved(r, a)
  BY <1>2 DEF Moved, TypeOK
<1>7. Good(a) /\ \A s : Nested(a, attempt[s])
  BY <1>1, <1>4 DEF Good, Nested, Converting
<1>8. TypeOK' /\ Kept
  BY <1>2, <1>5, <1>6, UnwrittenTyped
<1>9. AttemptsGood'
  BY <1>5, <1>6, <1>7, <1>8, StepGood
<1> QED BY <1>8, <1>9

-----------------------------------------------------------------------------
(* How the tables fit together.                                            *)

\* Each loan names its active opening entry, and no other is active.
OpeningsAgree ==
    /\ \A l \in DOMAIN loans :
          /\ loans[l].entry \in DOMAIN ledger
          /\ LET e == ledger[loans[l].entry] IN
             /\ e.status = "active" /\ e.ref = Ref("loan_opening", l)
             /\ e.debit = OpeningAccount /\ e.credit = LoanAccount
             /\ e.amount = loans[l].opening
    /\ \A e \in DOMAIN ledger : ledger[e].ref.type = "loan_opening" =>
          /\ ledger[e].ref.id \in DOMAIN loans
          /\ ledger[e].status = "active" => e = loans[ledger[e].ref.id].entry

\* The first entries are those of the invoices, and there are no others; an
\* invoice that was converted has its payment.
InvoicesAgree ==
    /\ \A i \in Legacy :
          /\ i \in DOMAIN ledger
          /\ ledger[i].debit = ExpenseAccount /\ ledger[i].credit \in Vaults
          /\ ledger[i].amount \in Nat \ {0} /\ ledger[i].day \in Days
          /\ ledger[i].ref = Ref("invoice", i)
          /\ invoice[i].converted => ConvertedFrom(i) # {}
    /\ \A e \in DOMAIN ledger : ledger[e].ref.type = "invoice" => e \in Legacy

\* A payment is of a loan, and one that does not stand has its reversal.
PaymentsAgree ==
    \A i \in DOMAIN payments :
        /\ payments[i].loan \in DOMAIN loans
        /\ payments[i].status = "reversed" => ReversedBy(i) # {}

TablesAgree == OpeningsAgree /\ InvoicesAgree /\ PaymentsAgree

\* All but the amounts.
Sound == TypeOK /\ AttemptsGood /\ TablesAgree /\ PaymentsRecordedOnce

\* The accounts of the loans are accounts, and no vaults.
LEMMA AccountsKnown ==
    /\ LoanAccount \in Accounts /\ OpeningAccount \in Accounts /\ ExpenseAccount \in Accounts
    /\ Vaults \subseteq Accounts /\ Days \subseteq Nat
    /\ LoanAccount \notin Vaults /\ OpeningAccount \notin Vaults /\ ExpenseAccount \notin Vaults
    /\ LoanAccount # OpeningAccount /\ LoanAccount # ExpenseAccount
BY LoanConstants, VaultsAssumption, DaysAssumption

\* The step of a request that only reads keeps all the rest.
LEMMA UnwrittenSound ==
    ASSUME Sound, Unwritten, TypeOK', AttemptsGood'
    PROVE  Sound'
<1>1. UNCHANGED <<loans, payments, invoice, ledger>>
  BY DEF Unwritten, loanVars
<1>2. OpeningsAgree' /\ InvoicesAgree' /\ PaymentsAgree' /\ PaymentsRecordedOnce'
  BY <1>1 DEF Sound, TablesAgree, OpeningsAgree, InvoicesAgree, PaymentsAgree, ConvertedFrom,
     ReversedBy, PaymentsRecordedOnce
<1> QED BY <1>2 DEF Sound, TablesAgree

\* The reads keep the invariant and write nothing.
LEMMA ReadSound ==
    ASSUME Sound, NEW r \in Attempts, ReadSteps(r)
    PROVE  Sound' /\ Unwritten
<1>1. OpeningsKnown
  BY DEF OpeningsKnown, Sound, TablesAgree, OpeningsAgree
<1>2. TypeOK' /\ AttemptsGood'
  BY <1>1, KeyGood, OriginalGood, PeriodGood, VaultGood, OverGood, InvoicesGood, LoanGood,
     RowsGood, OpeningGood DEF Sound, ReadSteps
<1>3. Unwritten
  BY DEF ReadSteps, FindByKey, ReadOriginal, CheckPeriod, CheckVault, Collide, Resolve,
     Exceed, ReadInvoices, ReadLoan, ReadRows, ReadOpening, LoseConversion
<1> QED BY <1>2, <1>3, UnwrittenSound

-----------------------------------------------------------------------------
(* The commits.                                                            *)

\* The request that commits is over.
LEMMA CommitGood ==
    ASSUME TypeOK, AttemptsGood, Kept, NEW r \in Attempts, At(r, "write"), NEW i \in Nat,
           Done(r, i)
    PROVE  AttemptsGood' /\ attempt' \in [Attempts -> {Unsent} \cup AttemptRows]
<1> DEFINE a == Onward(r, "done", i, attempt[r].seen)
<1>1. attempt[r] \in AttemptRows
  BY RowTyped DEF At
<1>2. Moved(r, a)
  BY <1>1, Moves
<1>3. attempt[r].seen \in Sights
  BY <1>1 DEF AttemptRows
<1>4. a \in AttemptRows /\ a.pc = "done"
  BY <1>1, <1>3, OnwardTyped
<1> HIDE DEF a
<1>5. AttemptsGood'
  BY <1>2, <1>4, SettledGood, StepGood
<1> QED BY <1>2, <1>4, <1>5, MovedTyped

\* A new loan has one active opening entry.
LEMMA LoanCommitSound ==
    ASSUME Sound, NEW r \in Attempts, CommitLoan(r)
    PROVE  Sound'
<1> DEFINE q == attempt[r].request
           id == Len(loans) + 1
           n == Len(ledger) + 1
           e == OpeningOf(q, id)
<1>1. /\ TypeOK /\ AttemptsGood /\ OpeningsAgree /\ InvoicesAgree /\ PaymentsAgree
      /\ PaymentsRecordedOnce
  BY DEF Sound, TablesAgree
<1>2. /\ At(r, "write") /\ q.op = "loan" /\ LoansWithKey(q.key) = {}
      /\ loans' = Append(loans, LoanRow(q, n)) /\ Post(e) /\ Done(r, id)
      /\ payments' = payments /\ invoice' = invoice
  BY DEF CommitLoan
<1>3. attempt[r] \in AttemptRows
  BY <1>1, <1>2, RowTyped DEF At
<1>4. q \in Requests /\ q.amount \in Nat \ {0} /\ q.day \in Days
  BY <1>2, <1>3, RequestsAssumption DEF AttemptRows
<1>5. id \in Nat /\ n \in Nat
  BY <1>1 DEF TypeOK, LedgerTypeOK
<1>6. /\ e \in Entries /\ e.status = "active"
      /\ e.debit = OpeningAccount /\ e.credit = LoanAccount /\ e.amount = q.amount
      /\ e.ref = Ref("loan_opening", id) /\ e.ref.type = "loan_opening" /\ e.ref.id = id
  <2>1. /\ q.amount \in Nat /\ q.day \in Nat
        /\ OpeningAccount \in Accounts /\ LoanAccount \in Accounts
    BY <1>4, AccountsKnown
  <2>2. e = EntryOf(OpeningAccount, LoanAccount, q.amount, q.day, Ref("loan_opening", id))
    BY DEF OpeningOf
  <2> HIDE DEF e, q, id
  <2> QED BY <1>5, <2>1, <2>2 DEF EntryOf, Entries, Ref, References
<1>7. /\ LoanRow(q, n) \in LoanRows /\ LoanRow(q, n).entry = n
      /\ LoanRow(q, n).opening = q.amount
  BY <1>4, <1>5 DEF LoanRow, LoanRows
<1> HIDE DEF e
<1>8. /\ ledger' \in Seq(Entries) /\ DOMAIN ledger' = DOMAIN ledger \cup {n}
      /\ n \notin DOMAIN ledger /\ ledger'[n] = e
      /\ \A i \in DOMAIN ledger : ledger'[i] = ledger[i]
  BY <1>1, <1>2, <1>6, Appended DEF TypeOK, LedgerTypeOK, Post
<1>9. /\ loans' \in Seq(LoanRows) /\ DOMAIN loans' = DOMAIN loans \cup {id}
      /\ id \notin DOMAIN loans /\ loans'[id] = LoanRow(q, n)
      /\ \A l \in DOMAIN loans : loans'[l] = loans[l]
  BY <1>1, <1>2, <1>7, Appended DEF TypeOK
<1> HIDE DEF id, n
<1>10. Kept
  BY <1>2, <1>8, <1>9 DEF Kept
<1>11. AttemptsGood' /\ attempt' \in [Attempts -> {Unsent} \cup AttemptRows]
  BY <1>1, <1>2, <1>5, <1>10, CommitGood
<1>12. TypeOK'
  BY <1>1, <1>2, <1>8, <1>9, <1>11 DEF TypeOK, LedgerTypeOK, AttemptRows, Sights
<1>13. OpeningsAgree'
  <2>1. ASSUME NEW l \in DOMAIN loans'
        PROVE  /\ loans'[l].entry \in DOMAIN ledger'
               /\ LET x == ledger'[loans'[l].entry] IN
                  /\ x.status = "active" /\ x.ref = Ref("loan_opening", l)
                  /\ x.debit = OpeningAccount /\ x.credit = LoanAccount
                  /\ x.amount = loans'[l].opening
    BY <1>1, <1>6, <1>7, <1>8, <1>9 DEF OpeningsAgree
  <2>2. ASSUME NEW x \in DOMAIN ledger', ledger'[x].ref.type = "loan_opening"
        PROVE  /\ ledger'[x].ref.id \in DOMAIN loans'
               /\ ledger'[x].status = "active" => x = loans'[ledger'[x].ref.id].entry
    BY <1>1, <1>6, <1>7, <1>8, <1>9, <2>2 DEF OpeningsAgree
  <2> QED BY <2>1, <2>2 DEF OpeningsAgree
<1>14. InvoicesAgree'
  BY <1>1, <1>2, <1>6, <1>8 DEF InvoicesAgree, ConvertedFrom
<1>15. PaymentsAgree' /\ PaymentsRecordedOnce'
  BY <1>1, <1>2, <1>9 DEF PaymentsAgree, ReversedBy, PaymentsRecordedOnce
<1> QED BY <1>11, <1>12, <1>13, <1>14, <1>15 DEF Sound, TablesAgree

\* An entry that is about no invoice and opens no loan.
LEMMA PostAgrees ==
    ASSUME TypeOK, OpeningsAgree, InvoicesAgree, NEW e \in Entries,
           e.ref.type \notin {"loan_opening", "invoice"}, Post(e), Kept,
           DOMAIN loans' = DOMAIN loans, invoice' = invoice,
           \A i \in DOMAIN payments : payments'[i].source = payments[i].source
    PROVE  ledger' \in Seq(Entries) /\ OpeningsAgree' /\ InvoicesAgree'
<1> DEFINE n == Len(ledger) + 1
<1>1. /\ ledger' \in Seq(Entries) /\ DOMAIN ledger' = DOMAIN ledger \cup {n}
      /\ n \notin DOMAIN ledger /\ ledger'[n] = e
      /\ \A i \in DOMAIN ledger : ledger'[i] = ledger[i]
  BY Appended DEF TypeOK, LedgerTypeOK, Post
<1> HIDE DEF n
<1>2. OpeningsAgree'
  <2>1. ASSUME NEW l \in DOMAIN loans'
        PROVE  /\ loans'[l].entry \in DOMAIN ledger'
               /\ LET x == ledger'[loans'[l].entry] IN
                  /\ x.status = "active" /\ x.ref = Ref("loan_opening", l)
                  /\ x.debit = OpeningAccount /\ x.credit = LoanAccount
                  /\ x.amount = loans'[l].opening
    BY <1>1 DEF OpeningsAgree, Kept
  <2>2. ASSUME NEW x \in DOMAIN ledger', ledger'[x].ref.type = "loan_opening"
        PROVE  /\ ledger'[x].ref.id \in DOMAIN loans'
               /\ ledger'[x].status = "active" => x = loans'[ledger'[x].ref.id].entry
    BY <1>1, <2>2 DEF OpeningsAgree, Kept
  <2> QED BY <2>1, <2>2 DEF OpeningsAgree
<1>3. \A i \in Legacy : ConvertedFrom(i) # {} => ConvertedFrom(i)' # {}
  BY DEF ConvertedFrom, Kept
<1>4. InvoicesAgree'
  BY <1>1, <1>3 DEF InvoicesAgree
<1> QED BY <1>1, <1>2, <1>4

\* What a payment does.
LEMMA PaymentIs ==
    ASSUME Sound, NEW r \in Attempts, CommitPayment(r)
    PROVE  LET q == attempt[r].request
               l == q.loan
               id == Len(payments) + 1
               n == Len(ledger) + 1
               e == EntryOf(LoanAccount, q.vault, q.amount, q.day, Ref("loan_payment", id))
           IN /\ At(r, "write") /\ Done(r, id) /\ PaymentsWithKey(q.key) = {}
              /\ l \in DOMAIN loans /\ q.vault \in Vaults /\ q.amount \in Nat \ {0}
              /\ id \in Nat /\ e \in Entries /\ Post(e)
              /\ payments' \in Seq(PaymentRows) /\ DOMAIN payments' = DOMAIN payments \cup {id}
              /\ id \notin DOMAIN payments
              /\ \A i \in DOMAIN payments : payments'[i] = payments[i]
              /\ payments'[id].key = q.key /\ payments'[id].loan = l /\ payments'[id].of = 0
              /\ payments'[id].source = 0 /\ payments'[id].status = "posted"
              /\ payments'[id].amount = q.amount
              /\ loans' \in Seq(LoanRows) /\ DOMAIN loans' = DOMAIN loans
              /\ \A i \in DOMAIN loans :
                    /\ loans'[i].entry = loans[i].entry /\ loans'[i].opening = loans[i].opening
                    /\ loans'[i].outstanding =
                          loans[i].outstanding - (IF i = l THEN q.amount ELSE 0)
<1> DEFINE q == attempt[r].request
           id == Len(payments) + 1
           n == Len(ledger) + 1
           e == EntryOf(LoanAccount, q.vault, q.amount, q.day, Ref("loan_payment", id))
           l == q.loan
           row == PaymentOf(q, n)
           rest == loans[l].outstanding - q.amount
<1>1. /\ TypeOK /\ AttemptsGood /\ OpeningsAgree /\ InvoicesAgree /\ PaymentsAgree
      /\ PaymentsRecordedOnce
  BY DEF Sound, TablesAgree
<1>2. /\ At(r, "write") /\ q.op = "pay" /\ Covers(l, q.amount) /\ PaymentsWithKey(q.key) = {}
      /\ loans' = [loans EXCEPT ![l] = [loans[l] EXCEPT !.outstanding = rest]]
      /\ payments' = Append(payments, row) /\ Post(e) /\ Done(r, id)
      /\ invoice' = invoice
  BY DEF CommitPayment
<1>3. attempt[r] \in AttemptRows /\ l \in DOMAIN loans
  BY <1>1, <1>2, RowTyped DEF At, AttemptsGood, Good
<1>4. /\ q \in Requests /\ l \in Nat \ {0} /\ q.amount \in Nat \ {0} /\ q.key \in STRING
      /\ q.day \in Days /\ q.vault \in Vaults
  BY <1>2, <1>3, RequestsAssumption DEF AttemptRows
<1>5. id \in Nat /\ n \in Nat
  BY <1>1 DEF TypeOK, LedgerTypeOK
<1>6. e \in Entries /\ e.ref.type = "loan_payment"
  BY <1>4, <1>5, AccountsKnown DEF EntryOf, Entries, Ref, References
<1>7. /\ row \in PaymentRows /\ row.key = q.key /\ row.loan = l /\ row.of = 0
      /\ row.source = 0 /\ row.status = "posted" /\ row.amount = q.amount
  BY <1>4, <1>5 DEF PaymentOf, PaymentRows
<1> HIDE DEF e, row
<1>8. /\ payments' \in Seq(PaymentRows) /\ DOMAIN payments' = DOMAIN payments \cup {id}
      /\ id \notin DOMAIN payments /\ payments'[id] = row
      /\ \A i \in DOMAIN payments : payments'[i] = payments[i]
  BY <1>1, <1>2, <1>7, Appended DEF TypeOK
<1>9. [loans[l] EXCEPT !.outstanding = rest] \in LoanRows
  <2>1. loans[l] \in LoanRows
    BY <1>1, <1>3, ElementOf DEF TypeOK
  <2>2. loans[l].outstanding \in Nat /\ loans[l].outstanding >= q.amount
    BY <1>2, <2>1 DEF LoanRows, Covers
  <2>3. rest \in Nat
    BY <1>4, <2>2
  <2> HIDE DEF rest, l
  <2> QED BY <2>1, <2>3 DEF LoanRows
<1> HIDE DEF rest
<1>10. /\ loans' \in Seq(LoanRows) /\ DOMAIN loans' = DOMAIN loans
       /\ \A i \in DOMAIN loans : loans'[i] =
             IF i = l THEN [loans[l] EXCEPT !.outstanding = rest] ELSE loans[i]
  BY <1>1, <1>2, <1>9, Rewritten DEF TypeOK
<1>11. ASSUME NEW i \in DOMAIN loans
       PROVE  /\ loans'[i].entry = loans[i].entry /\ loans'[i].opening = loans[i].opening
              /\ loans'[i].outstanding = loans[i].outstanding - (IF i = l THEN q.amount ELSE 0)
  <2>0. loans[i] \in LoanRows
    BY <1>1, ElementOf DEF TypeOK
  <2>1. loans[i] \in LoanRows /\ loans[i].outstanding \in Nat /\ q.amount \in Nat
    BY <1>4, <2>0 DEF LoanRows
  <2>2. CASE i = l
    <3>1. loans'[i] = [loans[i] EXCEPT !.outstanding = rest]
      BY <1>10, <2>2
    <3> HIDE DEF q, l
    <3>2. /\ loans'[i].entry = loans[i].entry /\ loans'[i].opening = loans[i].opening
          /\ loans'[i].outstanding = rest
      BY <2>1, <3>1 DEF LoanRows
    <3> QED BY <2>2, <3>2 DEF rest
  <2>3. CASE i # l
    BY <1>10, <2>1, <2>3
  <2> QED BY <2>2, <2>3
<1> QED BY <1>2, <1>3, <1>4, <1>5, <1>6, <1>7, <1>8, <1>10, <1>11 DEF e

\* A payment is recorded once under its key.
LEMMA PaymentCommitSound ==
    ASSUME Sound, NEW r \in Attempts, CommitPayment(r)
    PROVE  Sound'
<1> DEFINE q == attempt[r].request
           l == q.loan
           id == Len(payments) + 1
           n == Len(ledger) + 1
           e == EntryOf(LoanAccount, q.vault, q.amount, q.day, Ref("loan_payment", id))
<1>1. /\ TypeOK /\ AttemptsGood /\ OpeningsAgree /\ InvoicesAgree /\ PaymentsAgree
      /\ PaymentsRecordedOnce
  BY DEF Sound, TablesAgree
<1>2. /\ At(r, "write") /\ Done(r, id) /\ PaymentsWithKey(q.key) = {}
      /\ id \in Nat /\ e \in Entries /\ Post(e) /\ invoice' = invoice
  BY PaymentIs DEF CommitPayment
<1>3. l \in DOMAIN loans
  BY PaymentIs
<1>6. e.ref.type = "loan_payment"
  BY DEF EntryOf, Ref
<1>8. /\ payments' \in Seq(PaymentRows) /\ DOMAIN payments' = DOMAIN payments \cup {id}
      /\ id \notin DOMAIN payments
      /\ \A i \in DOMAIN payments : payments'[i] = payments[i]
  BY PaymentIs
<1>7. /\ payments'[id].key = q.key /\ payments'[id].loan = l /\ payments'[id].of = 0
      /\ payments'[id].source = 0 /\ payments'[id].status = "posted"
  BY PaymentIs
<1>10. loans' \in Seq(LoanRows) /\ DOMAIN loans' = DOMAIN loans
  BY PaymentIs
<1>11. \A i \in DOMAIN loans : loans'[i].entry = loans[i].entry
                                /\ loans'[i].opening = loans[i].opening
  BY PaymentIs
<1> HIDE DEF e
<1> HIDE DEF id, n
<1>12. Kept
  <2>1. DOMAIN ledger \subseteq DOMAIN ledger'
        /\ \A i \in DOMAIN ledger : ledger'[i] = ledger[i]
    BY <1>1, <1>2, <1>6, Appended DEF TypeOK, LedgerTypeOK, Post
  <2> QED BY <1>2, <1>8, <1>10, <1>11, <2>1 DEF Kept
<1>13. AttemptsGood' /\ attempt' \in [Attempts -> {Unsent} \cup AttemptRows]
  BY <1>1, <1>2, <1>12, CommitGood
<1>14. ledger' \in Seq(Entries) /\ OpeningsAgree' /\ InvoicesAgree'
  BY <1>1, <1>2, <1>6, <1>8, <1>10, <1>12, PostAgrees
<1>15. TypeOK'
  BY <1>1, <1>2, <1>8, <1>10, <1>13, <1>14 DEF TypeOK, LedgerTypeOK, AttemptRows, Sights
<1>16. PaymentsAgree'
  BY <1>1, <1>3, <1>7, <1>8, <1>10 DEF PaymentsAgree, ReversedBy
<1>17. PaymentsRecordedOnce'
  <2>1. \A i \in DOMAIN payments : payments[i].key # q.key
    BY <1>2 DEF PaymentsWithKey
  <2> QED BY <1>1, <1>7, <1>8, <2>1 DEF PaymentsRecordedOnce
<1> QED BY <1>13, <1>14, <1>15, <1>16, <1>17 DEF Sound, TablesAgree

\* What a reversal does.
LEMMA ReversalIs ==
    ASSUME Sound, NEW r \in Attempts, CommitReversal(r)
    PROVE  LET q == attempt[r].request
               l == q.loan
               k == q.payment
               p == payments[k]
               id == Len(payments) + 1
               n == Len(ledger) + 1
               e == EntryOf(p.vault, LoanAccount, p.amount, q.day,
                            Ref("loan_payment_reversal", id))
           IN /\ At(r, "write") /\ Done(r, id) /\ PaymentsWithKey(q.key) = {}
              /\ ReversedBy(k) = {} /\ k \in DOMAIN payments /\ k # 0 /\ p.loan = l /\ p.of = 0
              /\ l \in DOMAIN loans /\ p.vault \in Vaults /\ p.amount \in Nat \ {0}
              /\ p.status = "posted"
              /\ id \in Nat /\ e \in Entries /\ Post(e)
              /\ payments' \in Seq(PaymentRows) /\ DOMAIN payments' = DOMAIN payments \cup {id}
              /\ id \notin DOMAIN payments
              /\ payments'[id].key = q.key /\ payments'[id].loan = l /\ payments'[id].of = k
              /\ payments'[id].source = 0 /\ payments'[id].status = "posted"
              /\ loans' \in Seq(LoanRows) /\ DOMAIN loans' = DOMAIN loans
              /\ \A i \in DOMAIN payments :
                    /\ payments'[i].loan = payments[i].loan /\ payments'[i].of = payments[i].of
                    /\ payments'[i].source = payments[i].source
                    /\ payments'[i].key = payments[i].key
                    /\ payments'[i].amount = payments[i].amount
                    /\ i # k => payments'[i] = payments[i]
                    /\ i = k => payments'[i].status = "reversed"
              /\ \A i \in DOMAIN loans :
                    /\ loans'[i].entry = loans[i].entry /\ loans'[i].opening = loans[i].opening
                    /\ loans'[i].outstanding =
                          loans[i].outstanding + (IF i = l THEN p.amount ELSE 0)
<1> DEFINE q == attempt[r].request
           k == q.payment
           p == payments[k]
           id == Len(payments) + 1
           n == Len(ledger) + 1
           e == EntryOf(p.vault, LoanAccount, p.amount, q.day, Ref("loan_payment_reversal", id))
           l == q.loan
           row == ReversalOf(q, n)
           rest == loans[l].outstanding + p.amount
           table == [payments EXCEPT ![k] = [p EXCEPT !.status = "reversed"]]
<1>1. /\ TypeOK /\ AttemptsGood /\ OpeningsAgree /\ InvoicesAgree /\ PaymentsAgree
      /\ PaymentsRecordedOnce
  BY DEF Sound, TablesAgree
<1>2. /\ At(r, "write") /\ q.op = "reverse" /\ PaymentsWithKey(q.key) = {} /\ ReversedBy(k) = {}
      /\ loans' = [loans EXCEPT ![l] = [loans[l] EXCEPT !.outstanding = rest]]
      /\ payments' = Append(table, row) /\ Post(e) /\ Done(r, id)
      /\ invoice' = invoice
  BY DEF CommitReversal
<1>3. /\ attempt[r] \in AttemptRows /\ k \in DOMAIN payments /\ p.loan = l /\ p.of = 0
      /\ l \in DOMAIN loans
  BY <1>1, <1>2, RowTyped DEF At, AttemptsGood, Good, PaymentsAgree
<1>4. /\ q \in Requests /\ l \in Nat \ {0} /\ q.key \in STRING
      /\ q.day \in Days /\ k \in Nat
  BY <1>2, <1>3, RequestsAssumption DEF AttemptRows
<1>5. id \in Nat /\ n \in Nat /\ k # 0
  BY <1>1, <1>3 DEF TypeOK, LedgerTypeOK
<1>6. p \in PaymentRows /\ p.vault \in Vaults /\ p.amount \in Nat \ {0}
  <2>1. p \in PaymentRows
    BY <1>1, <1>3, ElementOf DEF TypeOK
  <2> QED BY <2>1 DEF PaymentRows
<1>7. e \in Entries /\ e.ref.type = "loan_payment_reversal"
  BY <1>4, <1>5, <1>6, AccountsKnown DEF EntryOf, Entries, Ref, References
<1>8. /\ row \in PaymentRows /\ row.key = q.key /\ row.loan = l /\ row.of = k
      /\ row.source = 0 /\ row.status = "posted"
  BY <1>4, <1>5, <1>6 DEF ReversalOf, PaymentRows
<1>9. [p EXCEPT !.status = "reversed"] \in PaymentRows
  BY <1>6 DEF PaymentRows
<1> HIDE DEF e, row
<1>10. /\ table \in Seq(PaymentRows) /\ DOMAIN table = DOMAIN payments
       /\ Len(table) = Len(payments)
       /\ \A i \in DOMAIN payments :
             table[i] = IF i = k THEN [p EXCEPT !.status = "reversed"] ELSE payments[i]
  <2>1. PICK x : x = [p EXCEPT !.status = "reversed"]
    OBVIOUS
  <2>2. payments \in Seq(PaymentRows) /\ x \in PaymentRows /\ table = [payments EXCEPT ![k] = x]
    BY <1>1, <1>9, <2>1 DEF TypeOK
  <2> HIDE DEF table, k
  <2> QED BY <2>1, <2>2, Rewritten
<1> HIDE DEF table
<1>11. /\ payments' \in Seq(PaymentRows) /\ DOMAIN payments' = DOMAIN payments \cup {id}
       /\ id \notin DOMAIN payments /\ payments'[id] = row
       /\ \A i \in DOMAIN payments : payments'[i] = table[i]
  BY <1>2, <1>8, <1>10, Appended
<1>12. \A i \in DOMAIN payments :
           /\ payments'[i].loan = payments[i].loan /\ payments'[i].of = payments[i].of
           /\ payments'[i].source = payments[i].source /\ payments'[i].key = payments[i].key
           /\ payments'[i].amount = payments[i].amount
           /\ i # k => payments'[i] = payments[i]
           /\ i = k => payments'[i].status = "reversed"
  <2>1. PICK x : x = [p EXCEPT !.status = "reversed"]
    OBVIOUS
  <2>2. /\ x.loan = p.loan /\ x.of = p.of /\ x.source = p.source /\ x.key = p.key
        /\ x.amount = p.amount /\ x.status = "reversed"
    BY <1>6, <2>1 DEF PaymentRows
  <2> HIDE DEF k
  <2> QED BY <1>10, <1>11, <2>1, <2>2
<1>13. [loans[l] EXCEPT !.outstanding = rest] \in LoanRows
  <2>1. loans[l] \in LoanRows
    BY <1>1, <1>3, ElementOf DEF TypeOK
  <2>2. loans[l].outstanding \in Nat
    BY <2>1 DEF LoanRows
  <2>3. rest \in Nat
    BY <1>6, <2>2
  <2> HIDE DEF rest, l
  <2> QED BY <2>1, <2>3 DEF LoanRows
<1> HIDE DEF rest
<1>14. /\ loans' \in Seq(LoanRows) /\ DOMAIN loans' = DOMAIN loans
       /\ \A i \in DOMAIN loans : loans'[i] =
             IF i = l THEN [loans[l] EXCEPT !.outstanding = rest] ELSE loans[i]
  <2>1. PICK x : x = [loans[l] EXCEPT !.outstanding = rest]
    OBVIOUS
  <2>2. loans \in Seq(LoanRows) /\ x \in LoanRows /\ loans' = [loans EXCEPT ![l] = x]
    BY <1>1, <1>2, <1>13, <2>1 DEF TypeOK
  <2> HIDE DEF l
  <2> QED BY <2>1, <2>2, Rewritten
<1>15. ASSUME NEW i \in DOMAIN loans
       PROVE  /\ loans'[i].entry = loans[i].entry /\ loans'[i].opening = loans[i].opening
              /\ loans'[i].outstanding = loans[i].outstanding + (IF i = l THEN p.amount ELSE 0)
  <2>0. loans[i] \in LoanRows
    BY <1>1, ElementOf DEF TypeOK
  <2>1. loans[i] \in LoanRows /\ loans[i].outstanding \in Nat
    BY <2>0 DEF LoanRows
  <2>2. CASE i = l
    <3>1. loans'[i] = [loans[i] EXCEPT !.outstanding = rest]
      BY <1>14, <2>2
    <3> HIDE DEF q, l
    <3>2. /\ loans'[i].entry = loans[i].entry /\ loans'[i].opening = loans[i].opening
          /\ loans'[i].outstanding = rest
      BY <2>1, <3>1 DEF LoanRows
    <3> QED BY <2>2, <3>2 DEF rest
  <2>3. CASE i # l
    BY <1>14, <2>1, <2>3
  <2> QED BY <2>2, <2>3
<1>16. p.status = "posted"
  BY <1>1, <1>2, <1>3, <1>6 DEF PaymentsAgree, PaymentRows
<1> QED BY <1>2, <1>3, <1>5, <1>6, <1>7, <1>8, <1>11, <1>12, <1>14, <1>15, <1>16 DEF e

\* A reversal is recorded once, and once for its original.
LEMMA ReversalCommitSound ==
    ASSUME Sound, NEW r \in Attempts, CommitReversal(r)
    PROVE  Sound'
<1> DEFINE q == attempt[r].request
           l == q.loan
           k == q.payment
           p == payments[k]
           id == Len(payments) + 1
           n == Len(ledger) + 1
           e == EntryOf(p.vault, LoanAccount, p.amount, q.day, Ref("loan_payment_reversal", id))
<1>1. /\ TypeOK /\ AttemptsGood /\ OpeningsAgree /\ InvoicesAgree /\ PaymentsAgree
      /\ PaymentsRecordedOnce
  BY DEF Sound, TablesAgree
<1>2. /\ At(r, "write") /\ Done(r, id) /\ PaymentsWithKey(q.key) = {} /\ ReversedBy(k) = {}
      /\ id \in Nat /\ e \in Entries /\ Post(e) /\ invoice' = invoice
  BY ReversalIs DEF CommitReversal
<1>3. l \in DOMAIN loans /\ k \in DOMAIN payments
  BY ReversalIs
<1>7. e.ref.type = "loan_payment_reversal"
  BY DEF EntryOf, Ref
<1>11. /\ payments' \in Seq(PaymentRows) /\ DOMAIN payments' = DOMAIN payments \cup {id}
       /\ id \notin DOMAIN payments
  BY ReversalIs
<1>8. /\ payments'[id].key = q.key /\ payments'[id].loan = l /\ payments'[id].of = k
      /\ payments'[id].source = 0 /\ payments'[id].status = "posted"
  BY ReversalIs
<1>12. \A i \in DOMAIN payments :
           /\ payments'[i].loan = payments[i].loan /\ payments'[i].of = payments[i].of
           /\ payments'[i].source = payments[i].source /\ payments'[i].key = payments[i].key
           /\ i # k => payments'[i] = payments[i]
  BY ReversalIs
<1>14. loans' \in Seq(LoanRows) /\ DOMAIN loans' = DOMAIN loans
  BY ReversalIs
<1>15. \A i \in DOMAIN loans : loans'[i].entry = loans[i].entry
                                /\ loans'[i].opening = loans[i].opening
  BY ReversalIs
<1> HIDE DEF e
<1> HIDE DEF id, n
<1>16. Kept
  <2>1. DOMAIN ledger \subseteq DOMAIN ledger'
        /\ \A i \in DOMAIN ledger : ledger'[i] = ledger[i]
    BY <1>1, <1>2, <1>7, Appended DEF TypeOK, LedgerTypeOK, Post
  <2> QED BY <1>2, <1>11, <1>12, <1>14, <1>15, <2>1 DEF Kept
<1>17. AttemptsGood' /\ attempt' \in [Attempts -> {Unsent} \cup AttemptRows]
  BY <1>1, <1>2, <1>16, CommitGood
<1>18. ledger' \in Seq(Entries) /\ OpeningsAgree' /\ InvoicesAgree'
  BY <1>1, <1>2, <1>7, <1>12, <1>14, <1>16, PostAgrees
<1>19. TypeOK'
  BY <1>1, <1>2, <1>11, <1>14, <1>17, <1>18 DEF TypeOK, LedgerTypeOK, AttemptRows, Sights
<1>20. PaymentsAgree'
  <2>1. \A i \in DOMAIN payments : ReversedBy(i) # {} => ReversedBy(i)' # {}
    BY <1>11, <1>12 DEF ReversedBy
  <2>2. \A i : i = k => ReversedBy(i)' # {}
    BY <1>8, <1>11 DEF ReversedBy
  <2>3. ASSUME NEW i \in DOMAIN payments'
        PROVE  /\ payments'[i].loan \in DOMAIN loans'
               /\ payments'[i].status = "reversed" => ReversedBy(i)' # {}
    BY <1>1, <1>3, <1>8, <1>11, <1>12, <1>14, <2>1, <2>2 DEF PaymentsAgree
  <2> QED BY <2>3 DEF PaymentsAgree
<1>21. PaymentsRecordedOnce'
  <2>1. \A i \in DOMAIN payments : payments[i].key # q.key /\ payments[i].of # k
    BY <1>2 DEF PaymentsWithKey, ReversedBy
  <2> QED BY <1>1, <1>8, <1>11, <1>12, <2>1 DEF PaymentsRecordedOnce
<1> QED BY <1>17, <1>18, <1>19, <1>20, <1>21 DEF Sound, TablesAgree

\* Linking invoices touches no money.
LEMMA LinksCommitSound ==
    ASSUME Sound, NEW r \in Attempts, CommitLinks(r)
    PROVE  Sound'
<1> DEFINE q == attempt[r].request
           rows == attempt[r].seen.rows
<1>1. /\ TypeOK /\ AttemptsGood /\ OpeningsAgree /\ InvoicesAgree /\ PaymentsAgree
      /\ PaymentsRecordedOnce
  BY DEF Sound, TablesAgree
<1>2. /\ At(r, "write") /\ q.op = "migrate" /\ UNCHANGED <<loans, payments, ledger>>
  BY DEF CommitLinks
<1>3. attempt[r] \in AttemptRows
  BY <1>1, <1>2, RowTyped DEF At
<1>4. q \in Requests /\ q.loan \in Nat /\ rows \subseteq Legacy
  BY <1>2, <1>3, RequestsAssumption DEF AttemptRows, Sights
<1>5. CASE Fail(r) /\ UNCHANGED invoice
  <2>1. Unwritten /\ attempt[r].pc \in Running
    BY <1>2, <1>5 DEF Unwritten, loanVars, CommitLinks, At, Running
  <2>2. TypeOK' /\ AttemptsGood'
    BY <1>1, <1>5, <2>1, GotoGood DEF Fail
  <2> QED BY <2>1, <2>2, UnwrittenSound
<1>6. CASE /\ \A i \in rows : invoice[i].loan = 0
           /\ invoice' = [i \in Legacy |->
                 IF i \in rows THEN [invoice[i] EXCEPT !.loan = q.loan] ELSE invoice[i]]
           /\ Done(r, q.loan)
  <2>1. \A i \in Legacy : invoice[i] \in [status : {"active", "cancelled"}, loan : Nat,
                                           converted : BOOLEAN]
    BY <1>1 DEF TypeOK
  <2>2. /\ \A i \in Legacy : /\ invoice[i].loan # 0 => invoice'[i].loan = invoice[i].loan
                             /\ invoice'[i].converted = invoice[i].converted
        /\ invoice' \in [Legacy -> [status : {"active", "cancelled"}, loan : Nat,
                                    converted : BOOLEAN]]
    <3> HIDE DEF q, rows
    <3> QED BY <1>4, <1>6, <2>1
  <2>3. Kept
    BY <1>2, <2>2 DEF Kept
  <2>4. AttemptsGood' /\ attempt' \in [Attempts -> {Unsent} \cup AttemptRows]
    BY <1>1, <1>2, <1>4, <1>6, <2>3, CommitGood
  <2>5. TypeOK'
    BY <1>1, <1>2, <2>2, <2>4 DEF TypeOK, LedgerTypeOK, AttemptRows, Sights
  <2>6. OpeningsAgree' /\ PaymentsAgree' /\ PaymentsRecordedOnce'
    BY <1>1, <1>2 DEF OpeningsAgree, PaymentsAgree, ReversedBy, PaymentsRecordedOnce
  <2>7. InvoicesAgree'
    BY <1>1, <1>2, <2>2 DEF InvoicesAgree, ConvertedFrom
  <2> QED BY <2>4, <2>5, <2>6, <2>7 DEF Sound, TablesAgree
<1> QED BY <1>5, <1>6 DEF CommitLinks

\* A step of nobody's request.
LEMMA OthersGood ==
    ASSUME TypeOK, AttemptsGood, Kept, attempt' = attempt
    PROVE  AttemptsGood'
<1>1. \A s \in Attempts : attempt[s] \in {Unsent} \cup AttemptRows
  BY DEF TypeOK, AttemptRows, Sights
<1>2. ASSUME NEW s \in Attempts PROVE Good(attempt[s])'
  <2>1. PICK b : b = attempt[s]
    OBVIOUS
  <2>2. CASE b = Unsent
    BY <2>1, <2>2 DEF Good, Converting, Unsent
  <2>3. CASE b \in AttemptRows
    <3>1. Good(b)'
      BY <2>1, <2>3, KeptGood DEF AttemptsGood
    <3> QED BY <2>1, <3>1 DEF Good, SightHolds, Current, Overtaken, Converting
  <2> QED BY <1>1, <2>1, <2>2, <2>3
<1>3. ASSUME NEW s \in Attempts, NEW t \in Attempts PROVE Nested(attempt[s], attempt[t])'
  <2>1. PICK b : b = attempt[s]
    OBVIOUS
  <2>2. PICK c : c = attempt[t]
    OBVIOUS
  <2>3. CASE b = Unsent \/ c = Unsent
    BY <2>1, <2>2, <2>3 DEF Nested, Converting, Unsent
  <2>4. CASE b \in AttemptRows /\ c \in AttemptRows
    <3>1. Nested(b, c)'
      BY <2>1, <2>2, <2>4, KeptNested DEF AttemptsGood
    <3> QED BY <2>1, <2>2, <3>1 DEF Nested, Overtaken, Converting
  <2> QED BY <1>1, <2>1, <2>2, <2>3, <2>4
<1> QED BY <1>2, <1>3 DEF AttemptsGood

\* A user's cancellation leaves the loans' entries alone.
LEMMA CancelSound ==
    ASSUME Sound, NEW i \in Legacy, CancelInvoice(i)
    PROVE  Sound'
<1>1. /\ TypeOK /\ AttemptsGood /\ OpeningsAgree /\ InvoicesAgree /\ PaymentsAgree
      /\ PaymentsRecordedOnce
  BY DEF Sound, TablesAgree
<1>2. /\ invoice' = [invoice EXCEPT ![i] = [invoice[i] EXCEPT !.status = "cancelled"]]
      /\ CancelEntries(Ref("invoice", i))
      /\ loans' = loans /\ payments' = payments /\ attempt' = attempt
  BY DEF CancelInvoice
<1>3. \A j \in Legacy : invoice[j] \in [status : {"active", "cancelled"}, loan : Nat,
                                         converted : BOOLEAN]
  BY <1>1 DEF TypeOK
<1>4. /\ invoice' \in [Legacy -> [status : {"active", "cancelled"}, loan : Nat,
                                  converted : BOOLEAN]]
      /\ \A j \in Legacy : /\ invoice'[j].loan = invoice[j].loan
                           /\ invoice'[j].converted = invoice[j].converted
  BY <1>1, <1>2, <1>3 DEF TypeOK
<1>5. ledger \in Seq(Entries) /\ \A e \in DOMAIN ledger : ledger[e] \in Entries
  BY <1>1, ElementOf DEF TypeOK, LedgerTypeOK
<1>6. /\ ledger' \in Seq(Entries) /\ DOMAIN ledger' = DOMAIN ledger
      /\ \A e \in DOMAIN ledger :
            /\ ledger'[e].ref = ledger[e].ref /\ ledger'[e].debit = ledger[e].debit
            /\ ledger'[e].credit = ledger[e].credit /\ ledger'[e].amount = ledger[e].amount
            /\ ledger'[e].day = ledger[e].day
            /\ ledger[e].status = "cancelled" => ledger'[e].status = "cancelled"
            /\ ledger'[e].status = "active" => ledger[e].status = "active"
            /\ ledger[e].ref.type = "loan_opening" => ledger'[e] = ledger[e]
  <2>1. \A e \in DOMAIN ledger : ledger'[e] =
            IF ledger[e].ref = Ref("invoice", i) /\ ledger[e].status = "active"
            THEN [ledger[e] EXCEPT !.status = "cancelled"] ELSE ledger[e]
    BY <1>2 DEF CancelEntries
  <2>2. ASSUME NEW e \in DOMAIN ledger
        PROVE  /\ ledger'[e] \in Entries
               /\ ledger'[e].ref = ledger[e].ref /\ ledger'[e].debit = ledger[e].debit
               /\ ledger'[e].credit = ledger[e].credit
               /\ ledger'[e].amount = ledger[e].amount /\ ledger'[e].day = ledger[e].day
               /\ ledger[e].status = "cancelled" => ledger'[e].status = "cancelled"
               /\ ledger'[e].status = "active" => ledger[e].status = "active"
               /\ ledger[e].ref.type = "loan_opening" => ledger'[e] = ledger[e]
    <3>1. Ref("invoice", i).type = "invoice"
      BY DEF Ref
    <3>2. ledger[e] \in Entries
      BY <1>5
    <3>3. CASE ledger[e].ref = Ref("invoice", i) /\ ledger[e].status = "active"
      <4>1. ledger'[e] = [ledger[e] EXCEPT !.status = "cancelled"]
        BY <2>1, <3>3
      <4> QED BY <3>1, <3>2, <3>3, <4>1 DEF Entries
    <3>4. CASE ~(ledger[e].ref = Ref("invoice", i) /\ ledger[e].status = "active")
      <4>1. ledger'[e] = ledger[e]
        BY <2>1, <3>4
      <4> QED BY <3>2, <4>1
    <3> QED BY <3>3, <3>4
  <2>3. ledger' = [e \in DOMAIN ledger |-> ledger'[e]]
    BY <1>2 DEF CancelEntries
  <2>4. ledger' \in Seq(Entries) /\ DOMAIN ledger' = DOMAIN ledger
    BY <1>5, <2>2, <2>3, Mapped
  <2> QED BY <2>2, <2>4
<1>7. Kept
  BY <1>2, <1>4, <1>6 DEF Kept
<1>8. AttemptsGood'
  BY <1>1, <1>2, <1>7, OthersGood
<1>9. TypeOK'
  BY <1>1, <1>2, <1>4, <1>6 DEF TypeOK, LedgerTypeOK
<1>10. OpeningsAgree'
  <2>1. ASSUME NEW l \in DOMAIN loans
        PROVE  /\ loans[l].entry \in DOMAIN ledger
               /\ ledger'[loans[l].entry] = ledger[loans[l].entry]
    <3>1. /\ loans[l].entry \in DOMAIN ledger
          /\ ledger[loans[l].entry].ref = Ref("loan_opening", l)
      BY <1>1 DEF OpeningsAgree
    <3>2. Ref("loan_opening", l).type = "loan_opening"
      BY DEF Ref
    <3> QED BY <1>6, <3>1, <3>2
  <2> QED BY <1>1, <1>2, <1>6, <2>1 DEF OpeningsAgree
<1>11. InvoicesAgree'
  <2>1. \A j : ConvertedFrom(j)' = ConvertedFrom(j)
    BY <1>2 DEF ConvertedFrom
  <2>2. \A j \in Legacy : invoice'[j].converted = invoice[j].converted
    BY <1>4
  <2>3. ASSUME NEW j \in Legacy
        PROVE  /\ j \in DOMAIN ledger'
               /\ ledger'[j].debit = ExpenseAccount /\ ledger'[j].credit \in Vaults
               /\ ledger'[j].amount \in Nat \ {0} /\ ledger'[j].day \in Days
               /\ ledger'[j].ref = Ref("invoice", j)
               /\ invoice'[j].converted => ConvertedFrom(j)' # {}
    <3>1. /\ j \in DOMAIN ledger
          /\ ledger[j].debit = ExpenseAccount /\ ledger[j].credit \in Vaults
          /\ ledger[j].amount \in Nat \ {0} /\ ledger[j].day \in Days
          /\ ledger[j].ref = Ref("invoice", j)
          /\ invoice[j].converted => ConvertedFrom(j) # {}
      BY <1>1 DEF InvoicesAgree
    <3> QED BY <1>6, <2>1, <2>2, <3>1
  <2>4. ASSUME NEW e \in DOMAIN ledger', ledger'[e].ref.type = "invoice" PROVE e \in Legacy
    <3>1. e \in DOMAIN ledger /\ ledger[e].ref.type = "invoice"
      BY <1>6, <2>4
    <3> QED BY <1>1, <3>1 DEF InvoicesAgree
  <2> QED BY <2>3, <2>4 DEF InvoicesAgree
<1>12. PaymentsAgree' /\ PaymentsRecordedOnce'
  BY <1>1, <1>2 DEF PaymentsAgree, ReversedBy, PaymentsRecordedOnce
<1> QED BY <1>8, <1>9, <1>10, <1>11, <1>12 DEF Sound, TablesAgree

\* A step of the vaults or of the periods keeps the loans.
LEMMA StutterSound ==
    ASSUME Sound, UNCHANGED <<loans, payments, invoice, attempt, ledger>>
    PROVE  Sound'
<1>1. Kept
  BY DEF Kept
<1>2. TypeOK' /\ AttemptsGood'
  <2>1. TypeOK'
    BY DEF Sound, TypeOK, LedgerTypeOK
  <2> QED BY <1>1, <2>1, OthersGood DEF Sound
<1>3. OpeningsAgree' /\ InvoicesAgree' /\ PaymentsAgree' /\ PaymentsRecordedOnce'
  BY DEF Sound, TablesAgree, OpeningsAgree, InvoicesAgree, PaymentsAgree, ConvertedFrom,
     ReversedBy, PaymentsRecordedOnce
<1> QED BY <1>2, <1>3 DEF Sound, TablesAgree

-----------------------------------------------------------------------------
(* The conversion.                                                         *)

\* Nobody has overtaken a conversion that commits; the entries it replaces
\* are those of the invoices it read, and the opening entry is the loan's.
LEMMA ConversionReady ==
    ASSUME Sound, NEW r \in Attempts, CommitConversion(r)
    PROVE  LET q == attempt[r].request
               rows == attempt[r].seen.rows
           IN /\ attempt[r] \in AttemptRows /\ attempt[r].pc = "write" /\ q.op = "convert"
              /\ q \in Requests /\ q.loan \in Nat \ {0} /\ q.loan \in DOMAIN loans
              /\ Current(attempt[r]) /\ ~Overtaken(attempt[r])
              /\ rows \subseteq Legacy /\ rows # {} /\ Sources(rows) = rows
              /\ \A i \in rows : ConvertedFrom(i) = {} /\ invoice[i].loan = q.loan
<1> DEFINE q == attempt[r].request
           rows == attempt[r].seen.rows
<1>1. TypeOK /\ AttemptsGood /\ InvoicesAgree
  BY DEF Sound, TablesAgree
<1>2. attempt[r].pc = "write" /\ q.op = "convert" /\ \A e \in Sources(rows) : ConvertedFrom(e) = {}
  BY DEF CommitConversion, At
<1>3. attempt[r] \in AttemptRows
  BY <1>1, <1>2, RowTyped
<1>4. q \in Requests /\ q.loan \in Nat \ {0} /\ rows \subseteq Legacy
  BY <1>2, <1>3, RequestsAssumption DEF AttemptRows, Sights
<1>5. Converting(attempt[r]) /\ Good(attempt[r])
  BY <1>1, <1>2 DEF Converting, AttemptsGood
<1>6. /\ q.loan \in DOMAIN loans /\ rows # {} /\ \A i \in rows : invoice[i].loan = q.loan
      /\ Current(attempt[r]) \/ Overtaken(attempt[r])
  BY <1>2, <1>5 DEF Good, SightHolds
<1>7. Sources(rows) = rows
  <2>1. ASSUME NEW e \in Sources(rows) PROVE e \in rows
    <3>1. PICK i \in rows : e \in DOMAIN ledger /\ ledger[e].ref = Ref("invoice", i)
      BY DEF Sources
    <3>2. Ref("invoice", i).type = "invoice" /\ Ref("invoice", i).id = i /\ Ref("invoice", e).id = e
      BY DEF Ref
    <3>3. ledger[e].ref = Ref("invoice", e)
      BY <1>1, <3>1, <3>2 DEF InvoicesAgree
    <3> QED BY <3>1, <3>2, <3>3
  <2>2. ASSUME NEW e \in rows PROVE e \in Sources(rows)
    BY <1>1, <1>4 DEF Sources, InvoicesAgree
  <2> QED BY <2>1, <2>2
<1>8. ~Overtaken(attempt[r])
  BY <1>1, <1>2, <1>4, <1>7 DEF Overtaken, InvoicesAgree
<1> QED BY <1>2, <1>3, <1>4, <1>6, <1>7, <1>8

\* What the tables are afterwards; f names the m invoices one after another.
ConversionStep(r, m, f) ==
    LET q == attempt[r].request
        rows == attempt[r].seen.rows
        l == q.loan
        old == loans[l].entry
        opening == loans[l].opening + Total(rows)
        L == Len(ledger)
        P == Len(payments)
    IN /\ f \in Bijection(1..m, rows)
       /\ DOMAIN ledger' = 1..(L + 1 + m) /\ ledger' \in Seq(Entries)
       /\ \A e \in 1..L : ledger'[e] =
             IF e \in {old} \cup rows THEN [ledger[e] EXCEPT !.status = "cancelled"] ELSE ledger[e]
       /\ ledger'[L + 1] = EntryOf(OpeningAccount, LoanAccount, opening, ledger[old].day,
                                   Ref("loan_opening", l))
       /\ \A n \in 1..m : ledger'[L + 1 + n] = PaymentEntryOf(f[n], P + n)
       /\ DOMAIN payments' = 1..(P + m) /\ payments' \in Seq(PaymentRows)
       /\ \A i \in 1..P : payments'[i] = payments[i]
       /\ \A n \in 1..m : payments'[P + n] = ConversionOf(q, f[n], L + 1 + n)
       /\ DOMAIN loans' = DOMAIN loans /\ loans' \in Seq(LoanRows)
       /\ loans'[l] = [loans[l] EXCEPT !.opening = opening, !.entry = L + 1]
       /\ \A k \in DOMAIN loans \ {l} : loans'[k] = loans[k]
       /\ invoice' = [i \in Legacy |->
             IF i \in rows THEN [invoice[i] EXCEPT !.status = "cancelled", !.converted = TRUE]
             ELSE invoice[i]]

\* The commit of a conversion is a step of that form: its invoices' entries are
\* the invoices themselves, and its opening entry is the one the loan names.
LEMMA ConversionIs ==
    ASSUME Sound, NEW r \in Attempts, CommitConversion(r)
    PROVE  \E m \in Nat : \E f : ConversionStep(r, m, f)
<1> DEFINE q == attempt[r].request
           seen == attempt[r].seen
           rows == attempt[r].seen.rows
           l == q.loan
           old == loans[l].entry
           opening == loans[l].opening + Total(rows)
           L == Len(ledger)
           P == Len(payments)
           m == Cardinality(rows)
           f == InOrder(rows)
           first == EntryOf(OpeningAccount, LoanAccount, opening, ledger[old].day,
                            Ref("loan_opening", l))
           settled == [n \in DOMAIN f |-> PaymentEntryOf(f[n], P + n)]
           added == [n \in DOMAIN f |-> ConversionOf(q, f[n], L + 1 + n)]
           C == Cancelled({old} \cup rows)
<1>1. /\ TypeOK /\ OpeningsAgree /\ InvoicesAgree
      /\ ledger \in Seq(Entries) /\ payments \in Seq(PaymentRows) /\ loans \in Seq(LoanRows)
      /\ L \in Nat /\ P \in Nat /\ LedgerTypeOK
      /\ DOMAIN ledger = 1..L /\ DOMAIN payments = 1..P
  BY DEF Sound, TablesAgree, TypeOK, LedgerTypeOK
<1>2. /\ attempt[r] \in AttemptRows
      /\ q \in Requests /\ l \in Nat \ {0} /\ l \in DOMAIN loans
      /\ seen.entry = old /\ seen.opening = loans[l].opening
      /\ rows \subseteq Legacy /\ Sources(rows) = rows
  BY ConversionReady DEF Current
<1>3. IsFiniteSet(rows) /\ rows \subseteq DOMAIN ledger
  <2>1. rows \subseteq DOMAIN ledger
    BY <1>1, <1>2 DEF InvoicesAgree
  <2>2. IsFiniteSet(DOMAIN ledger)
    BY <1>1, LedgerFinite
  <2> QED BY <2>1, <2>2, FS_Subset
<1>4. m \in Nat /\ f \in Bijection(1..m, rows)
  <2>1. m \in Nat /\ Bijection(1..m, rows) # {}
    BY <1>3, FS_CardinalityType DEF ExistsBijection
  <2> HIDE DEF m
  <2>2. f = CHOOSE s \in Bijection(1..m, rows) : TRUE
    BY DEF InOrder, m
  <2> HIDE DEF f
  <2> QED BY <2>1, <2>2
<1>5. DOMAIN f = 1..m /\ \A n \in 1..m : f[n] \in rows
  BY <1>4 DEF Bijection, Injection, Surjection
<1>6. /\ ledger' = Append(C, first) \o settled
      /\ payments' = payments \o added
      /\ loans' = [loans EXCEPT ![l].opening = opening, ![l].entry = L + 1]
      /\ invoice' = [i \in Legacy |->
             IF i \in rows THEN [invoice[i] EXCEPT !.status = "cancelled", !.converted = TRUE]
             ELSE invoice[i]]
  BY <1>2 DEF CommitConversion
<1> HIDE DEF f, m
<1>7. Total(rows) \in Nat
  BY <1>1, <1>3, TotalType
<1>8. /\ loans[l] \in LoanRows /\ opening \in Nat \ {0} /\ old \in DOMAIN ledger
      /\ loans[l].opening \in Nat \ {0}
  <2>1. loans[l] \in LoanRows
    BY <1>1, <1>2, ElementOf
  <2>2. loans[l].opening \in Nat \ {0}
    BY <2>1 DEF LoanRows
  <2>3. old \in DOMAIN ledger
    BY <1>1, <1>2 DEF OpeningsAgree
  <2> QED BY <1>7, <2>1, <2>2, <2>3
<1> HIDE DEF opening
<1>9. first \in Entries
  <2>1. ledger[old] \in Entries
    BY <1>1, <1>8, ElementOf
  <2>2. ledger[old].day \in Nat
    BY <2>1 DEF Entries
  <2>3. opening \in Nat /\ l \in Nat /\ OpeningAccount \in Accounts /\ LoanAccount \in Accounts
    BY <1>2, <1>8, AccountsKnown
  <2> HIDE DEF l, old
  <2> QED BY <2>2, <2>3 DEF EntryOf, Entries, Ref, References
<1>10. \A n \in 1..m : LET e == ledger[f[n]] IN
          /\ e \in Entries /\ e.credit \in Vaults /\ e.amount \in Nat \ {0} /\ e.day \in Days
  <2>1. \A e \in DOMAIN ledger : ledger[e] \in Entries
    BY <1>1, ElementOf
  <2> QED BY <1>1, <1>2, <1>3, <1>5, <2>1 DEF InvoicesAgree
<1>11. settled \in Seq(Entries) /\ Len(settled) = m
  <2>1. ASSUME NEW n \in 1..m PROVE PaymentEntryOf(f[n], P + n) \in Entries
    <3>1. PICK e : e = ledger[f[n]]
      OBVIOUS
    <3>2. /\ e.credit \in Accounts /\ e.amount \in Nat /\ e.day \in Nat
          /\ LoanAccount \in Accounts
      BY <1>10, <3>1, AccountsKnown
    <3>3. P + n \in Nat
      BY <1>1, <1>4
    <3>4. PaymentEntryOf(f[n], P + n) =
              EntryOf(LoanAccount, e.credit, e.amount, e.day, Ref("loan_payment", P + n))
      BY <3>1 DEF PaymentEntryOf
    <3> QED BY <3>2, <3>3, <3>4 DEF EntryOf, Entries, Ref, References
  <2> QED BY <1>4, <1>5, <2>1
<1>12. added \in Seq(PaymentRows) /\ Len(added) = m
  <2>1. ASSUME NEW n \in 1..m PROVE ConversionOf(q, f[n], L + 1 + n) \in PaymentRows
    <3>1. PICK e : e = ledger[f[n]]
      OBVIOUS
    <3>2. e.credit \in Vaults /\ e.amount \in Nat \ {0} /\ e.day \in Days
      BY <1>10, <3>1
    <3>3. L + 1 + n \in Nat /\ f[n] \in Nat /\ q \in Requests /\ l \in Nat \ {0}
      BY <1>1, <1>2, <1>3, <1>4, <1>5
    <3>4. ConversionOf(q, f[n], L + 1 + n) =
             [key |-> LegacyKey, request |-> q, loan |-> l, vault |-> e.credit,
              amount |-> e.amount, day |-> e.day, status |-> "posted", of |-> 0,
              source |-> f[n], entry |-> L + 1 + n]
      BY <3>1 DEF ConversionOf
    <3> HIDE DEF L, q, l
    <3> QED BY <3>2, <3>3, <3>4 DEF PaymentRows
  <2> QED BY <1>4, <1>5, <2>1
<1>13. /\ C \in Seq(Entries) /\ DOMAIN C = 1..L /\ Len(C) = L
       /\ \A e \in 1..L : C[e] =
             IF e \in {old} \cup rows THEN [ledger[e] EXCEPT !.status = "cancelled"] ELSE ledger[e]
  <2>1. \A e \in 1..L : C[e] =
             IF e \in {old} \cup rows THEN [ledger[e] EXCEPT !.status = "cancelled"] ELSE ledger[e]
    BY <1>1 DEF Cancelled
  <2>2. C = [e \in DOMAIN ledger |-> C[e]]
    BY DEF Cancelled
  <2>3. ASSUME NEW e \in DOMAIN ledger PROVE C[e] \in Entries
    <3>1. ledger[e] \in Entries
      BY <1>1, ElementOf
    <3>2. [ledger[e] EXCEPT !.status = "cancelled"] \in Entries
      BY <3>1 DEF Entries
    <3> QED BY <1>1, <2>1, <3>1, <3>2
  <2> HIDE DEF C
  <2> QED BY <1>1, <2>1, <2>2, <2>3, Mapped
<1> HIDE DEF C, first
<1>14. /\ Append(C, first) \in Seq(Entries) /\ DOMAIN Append(C, first) = 1..(L + 1)
       /\ Len(Append(C, first)) = L + 1
       /\ Append(C, first)[L + 1] = first
       /\ \A e \in 1..L : Append(C, first)[e] = C[e]
  BY <1>1, <1>9, <1>13, Appended
<1>15. /\ DOMAIN ledger' = 1..(L + 1 + m) /\ ledger' \in Seq(Entries)
       /\ \A e \in 1..(L + 1) : ledger'[e] = Append(C, first)[e]
       /\ \A n \in 1..m : ledger'[L + 1 + n] = settled[n]
  <2>1. PICK front : front = Append(C, first)
    OBVIOUS
  <2>2. /\ front \in Seq(Entries) /\ Len(front) = L + 1 /\ DOMAIN front = 1..(L + 1)
        /\ ledger' = front \o settled
    BY <1>6, <1>14, <2>1
  <2> HIDE DEF settled
  <2>3. /\ ledger' \in Seq(Entries) /\ Len(ledger') = L + 1 + m
        /\ \A e \in DOMAIN front : ledger'[e] = front[e]
        /\ \A e \in DOMAIN ledger' : e \notin DOMAIN front =>
              ledger'[e] = settled[e - (L + 1)]
    <3>1. PICK t : t = settled
      OBVIOUS
    <3>2. PICK j : j = front \o t
      OBVIOUS
    <3>3. /\ j \in Seq(Entries) /\ Len(j) = Len(front) + Len(t)
          /\ \A e \in DOMAIN front : j[e] = front[e]
          /\ \A e \in DOMAIN j : e \notin DOMAIN front => j[e] = t[e - Len(front)]
      <4>1. front \in Seq(Entries) /\ t \in Seq(Entries)
        BY <1>11, <2>2, <3>1
      <4> QED BY <3>2, <4>1, Joined
    <3> QED BY <1>11, <2>2, <3>1, <3>2, <3>3
  <2>4. DOMAIN ledger' = 1..(L + 1 + m)
    BY <2>3
  <2>5. ASSUME NEW n \in 1..m PROVE ledger'[L + 1 + n] = settled[n]
    <3>1. L + 1 + n \in DOMAIN ledger' /\ L + 1 + n \notin DOMAIN front
          /\ (L + 1 + n) - (L + 1) = n
      BY <1>1, <1>4, <2>2, <2>4
    <3> QED BY <2>3, <3>1
  <2> QED BY <2>1, <2>2, <2>3, <2>4, <2>5
<1>16. \A n \in 1..m : settled[n] = PaymentEntryOf(f[n], P + n)
                          /\ added[n] = ConversionOf(q, f[n], L + 1 + n)
  BY <1>5
<1>17. /\ DOMAIN payments' = 1..(P + m) /\ payments' \in Seq(PaymentRows)
       /\ \A i \in 1..P : payments'[i] = payments[i]
       /\ \A n \in 1..m : payments'[P + n] = added[n]
  <2> HIDE DEF added
  <2>1. /\ payments' \in Seq(PaymentRows) /\ Len(payments') = P + m
        /\ \A i \in DOMAIN payments : payments'[i] = payments[i]
        /\ \A i \in DOMAIN payments' : i \notin DOMAIN payments => payments'[i] = added[i - P]
    <3>1. PICK t : t = added
      OBVIOUS
    <3>2. PICK j : j = payments \o t
      OBVIOUS
    <3>3. /\ j \in Seq(PaymentRows) /\ Len(j) = Len(payments) + Len(t)
          /\ \A i \in DOMAIN payments : j[i] = payments[i]
          /\ \A i \in DOMAIN j : i \notin DOMAIN payments => j[i] = t[i - Len(payments)]
      BY <1>1, <1>12, <3>1, <3>2, Joined
    <3> QED BY <1>6, <1>12, <3>1, <3>2, <3>3
  <2>2. DOMAIN payments' = 1..(P + m)
    BY <2>1
  <2>3. ASSUME NEW n \in 1..m PROVE payments'[P + n] = added[n]
    <3>1. P + n \in DOMAIN payments' /\ P + n \notin DOMAIN payments /\ (P + n) - P = n
      BY <1>1, <1>4, <2>2
    <3> QED BY <2>1, <3>1
  <2> QED BY <1>1, <2>1, <2>2, <2>3
<1>18. /\ DOMAIN loans' = DOMAIN loans /\ loans' \in Seq(LoanRows)
       /\ loans'[l] = [loans[l] EXCEPT !.opening = opening, !.entry = L + 1]
       /\ \A k \in DOMAIN loans \ {l} : loans'[k] = loans[k]
  <2>1. PICK x : x = [loans[l] EXCEPT !.opening = opening, !.entry = L + 1]
    OBVIOUS
  <2>2. x \in LoanRows
    <3>1. L + 1 \in Nat /\ loans[l] \in LoanRows /\ opening \in Nat \ {0}
      BY <1>1, <1>8
    <3> HIDE DEF l, L
    <3> QED BY <2>1, <3>1 DEF LoanRows
  <2>3. loans' = [loans EXCEPT ![l] = x]
    BY <1>2, <1>6, <2>1
  <2> HIDE DEF l
  <2> QED BY <1>1, <1>2, <2>1, <2>2, <2>3, Rewritten
<1>19. /\ \A e \in 1..L : ledger'[e] =
             IF e \in {old} \cup rows THEN [ledger[e] EXCEPT !.status = "cancelled"] ELSE ledger[e]
       /\ ledger'[L + 1] = first
       /\ \A n \in 1..m : ledger'[L + 1 + n] = PaymentEntryOf(f[n], P + n)
       /\ \A n \in 1..m : payments'[P + n] = ConversionOf(q, f[n], L + 1 + n)
  <2>1. 1..L \subseteq 1..(L + 1) /\ L + 1 \in 1..(L + 1)
    BY <1>1
  <2> HIDE DEF L, old, settled, added, P
  <2> QED BY <1>13, <1>14, <1>15, <1>16, <1>17, <2>1
<1>20. ConversionStep(r, m, f)
  BY <1>4, <1>6, <1>15, <1>17, <1>18, <1>19 DEF ConversionStep, opening, first
<1> QED BY <1>4, <1>20

\* The earlier rows of the ledger keep what they say, apart from being
\* cancelled.
LEMMA ConversionOldEntries ==
    ASSUME Sound, NEW r \in Attempts, NEW m \in Nat, NEW f, ConversionStep(r, m, f),
           NEW e \in DOMAIN ledger
    PROVE  /\ e \in DOMAIN ledger'
           /\ ledger'[e].ref = ledger[e].ref /\ ledger'[e].debit = ledger[e].debit
           /\ ledger'[e].credit = ledger[e].credit /\ ledger'[e].day = ledger[e].day
           /\ ledger'[e].amount = ledger[e].amount
           /\ ledger'[e].status =
                 IF e \in {loans[attempt[r].request.loan].entry} \cup attempt[r].seen.rows
                 THEN "cancelled" ELSE ledger[e].status
<1> DEFINE q == attempt[r].request
           rows == attempt[r].seen.rows
           old == loans[q.loan].entry
           L == Len(ledger)
<1>1. L \in Nat /\ DOMAIN ledger = 1..L /\ ledger[e] \in Entries
  BY ElementOf DEF Sound, TypeOK, LedgerTypeOK
<1>2. /\ DOMAIN ledger' = 1..(L + 1 + m)
      /\ ledger'[e] = IF e \in {old} \cup rows THEN [ledger[e] EXCEPT !.status = "cancelled"]
                      ELSE ledger[e]
  BY <1>1 DEF ConversionStep
<1>3. e \in DOMAIN ledger'
  BY <1>1, <1>2
<1> HIDE DEF old, rows
<1>4. /\ ledger'[e].ref = ledger[e].ref /\ ledger'[e].debit = ledger[e].debit
      /\ ledger'[e].credit = ledger[e].credit /\ ledger'[e].day = ledger[e].day
      /\ ledger'[e].amount = ledger[e].amount
      /\ ledger'[e].status = IF e \in {old} \cup rows THEN "cancelled" ELSE ledger[e].status
  BY <1>1, <1>2 DEF Entries
<1> QED BY <1>3, <1>4 DEF old, rows

\* The new rows are an opening entry and m payments.
LEMMA ConversionEntries ==
    ASSUME Sound, NEW r \in Attempts, NEW m \in Nat, NEW f, ConversionStep(r, m, f)
    PROVE  LET q == attempt[r].request
               rows == attempt[r].seen.rows
               L == Len(ledger)
               P == Len(payments)
           IN /\ L \in Nat /\ P \in Nat /\ DOMAIN ledger = 1..L /\ DOMAIN payments = 1..P
              /\ LET x == ledger'[L + 1] IN
                    /\ x.status = "active" /\ x.debit = OpeningAccount /\ x.credit = LoanAccount
                    /\ x.amount = loans[q.loan].opening + Total(rows)
                    /\ x.ref = Ref("loan_opening", q.loan)
              /\ \A n \in 1..m : LET x == ledger'[L + 1 + n] IN
                    /\ x.status = "active" /\ x.debit = LoanAccount
                    /\ x.credit = ledger[f[n]].credit /\ x.amount = ledger[f[n]].amount
                    /\ x.ref = Ref("loan_payment", P + n)
              /\ \A n \in 1..m : LET x == payments'[P + n] IN
                    /\ x.key = LegacyKey /\ x.loan = q.loan /\ x.amount = ledger[f[n]].amount
                    /\ x.status = "posted" /\ x.of = 0 /\ x.source = f[n]
              /\ \A n \in 1..m : f[n] \in rows
              /\ \A i \in rows : \E n \in 1..m : f[n] = i
              /\ \A n, k \in 1..m : f[n] = f[k] => n = k
              /\ \A e \in DOMAIN ledger' : e \notin DOMAIN ledger /\ e # L + 1
                    => \E n \in 1..m : e = L + 1 + n
              /\ \A i \in DOMAIN payments' : i \notin DOMAIN payments => \E n \in 1..m : i = P + n
<1> DEFINE q == attempt[r].request
           rows == attempt[r].seen.rows
           old == loans[q.loan].entry
           L == Len(ledger)
           P == Len(payments)
<1>1. L \in Nat /\ P \in Nat /\ DOMAIN ledger = 1..L /\ DOMAIN payments = 1..P
      /\ \A e \in DOMAIN ledger : ledger[e] \in Entries
  BY ElementOf DEF Sound, TypeOK, LedgerTypeOK
<1>3. LET x == ledger'[L + 1] IN
          /\ x.status = "active" /\ x.debit = OpeningAccount /\ x.credit = LoanAccount
          /\ x.amount = loans[q.loan].opening + Total(rows)
          /\ x.ref = Ref("loan_opening", q.loan)
  <2>1. ledger'[L + 1] = EntryOf(OpeningAccount, LoanAccount, loans[q.loan].opening + Total(rows),
                                ledger[old].day, Ref("loan_opening", q.loan))
    BY DEF ConversionStep
  <2> HIDE DEF q, rows, old, L
  <2> QED BY <2>1 DEF EntryOf
<1>4. ASSUME NEW n \in 1..m
      PROVE  LET x == ledger'[L + 1 + n] IN
                    /\ x.status = "active" /\ x.debit = LoanAccount
                    /\ x.credit = ledger[f[n]].credit /\ x.amount = ledger[f[n]].amount
                    /\ x.ref = Ref("loan_payment", P + n)
  <2>1. ledger'[L + 1 + n] = PaymentEntryOf(f[n], P + n)
    BY DEF ConversionStep
  <2> HIDE DEF L, P
  <2> QED BY <2>1 DEF PaymentEntryOf, EntryOf
<1>5. ASSUME NEW n \in 1..m
      PROVE  LET x == payments'[P + n] IN
                    /\ x.key = LegacyKey /\ x.loan = q.loan /\ x.amount = ledger[f[n]].amount
                    /\ x.status = "posted" /\ x.of = 0 /\ x.source = f[n]
  <2>1. payments'[P + n] = ConversionOf(q, f[n], L + 1 + n)
    BY DEF ConversionStep
  <2> HIDE DEF L, P, q
  <2> QED BY <2>1 DEF ConversionOf
<1>6. /\ \A n \in 1..m : f[n] \in rows
      /\ \A i \in rows : \E n \in 1..m : f[n] = i
      /\ \A n, k \in 1..m : f[n] = f[k] => n = k
  <2>1. f \in Bijection(1..m, rows)
    BY DEF ConversionStep
  <2> HIDE DEF rows
  <2> QED BY <2>1 DEF Bijection, Injection, Surjection, IsInjective
<1>7. ASSUME NEW e \in DOMAIN ledger', e \notin DOMAIN ledger, e # L + 1
      PROVE  \E n \in 1..m : e = L + 1 + n
  <2>1. e \in 1..(L + 1 + m)
    BY DEF ConversionStep
  <2>2. e - (L + 1) \in 1..m /\ e = L + 1 + (e - (L + 1))
    BY <1>1, <1>7, <2>1
  <2> QED BY <2>2
<1>8. ASSUME NEW i \in DOMAIN payments', i \notin DOMAIN payments
      PROVE  \E n \in 1..m : i = P + n
  <2>1. i \in 1..(P + m)
    BY DEF ConversionStep
  <2>2. i - P \in 1..m /\ i = P + (i - P)
    BY <1>1, <1>8, <2>1
  <2> QED BY <2>2
<1> QED BY <1>1, <1>3, <1>4, <1>5, <1>6, <1>7, <1>8

\* The other conversions of the loan are overtaken now, or had lost sight of
\* its opening entry before.
LEMMA ConversionGood ==
    ASSUME Sound, NEW r \in Attempts, CommitConversion(r), NEW m \in Nat, NEW f,
           ConversionStep(r, m, f)
    PROVE  AttemptsGood' /\ attempt' \in [Attempts -> {Unsent} \cup AttemptRows]
<1> DEFINE q == attempt[r].request
           rows == attempt[r].seen.rows
           l == q.loan
           old == loans[l].entry
           done == Onward(r, "done", l, attempt[r].seen)
<1>1. TypeOK /\ AttemptsGood /\ OpeningsAgree
  BY DEF Sound, TablesAgree
<1>2. /\ attempt[r] \in AttemptRows /\ attempt[r].pc = "write" /\ q.op = "convert"
      /\ l \in Nat \ {0} /\ l \in DOMAIN loans
      /\ Current(attempt[r]) /\ ~Overtaken(attempt[r]) /\ rows \subseteq Legacy /\ rows # {}
  BY ConversionReady
<1>3. Moved(r, done) /\ done \in AttemptRows /\ done.pc = "done"
  <2>1. Done(r, l)
    BY DEF CommitConversion
  <2>2. attempt[r].seen \in Sights /\ l \in Nat
    BY <1>2 DEF AttemptRows
  <2> QED BY <1>1, <1>2, <2>1, <2>2, Moves, OnwardTyped
<1>4. attempt' \in [Attempts -> {Unsent} \cup AttemptRows]
  BY <1>1, <1>3, MovedTyped
<1>5. /\ DOMAIN loans' = DOMAIN loans
      /\ \A k \in DOMAIN loans \ {l} : loans'[k] = loans[k]
      /\ DOMAIN payments \subseteq DOMAIN payments'
      /\ \A i \in DOMAIN payments : payments'[i] = payments[i]
      /\ DOMAIN ledger \subseteq DOMAIN ledger'
  <2>1. /\ Len(ledger) \in Nat /\ Len(payments) \in Nat
        /\ DOMAIN ledger = 1..Len(ledger) /\ DOMAIN payments = 1..Len(payments)
    BY ConversionEntries
  <2>2. /\ DOMAIN ledger' = 1..(Len(ledger) + 1 + m) /\ DOMAIN payments' = 1..(Len(payments) + m)
        /\ \A i \in 1..Len(payments) : payments'[i] = payments[i]
        /\ DOMAIN loans' = DOMAIN loans
        /\ \A k \in DOMAIN loans \ {l} : loans'[k] = loans[k]
    BY DEF ConversionStep
  <2> HIDE DEF l
  <2> QED BY <2>1, <2>2
<1>6. /\ ledger'[old].status = "cancelled" /\ old \in DOMAIN ledger
      /\ \A e \in DOMAIN ledger :
            ledger[e].status = "cancelled" => ledger'[e].status = "cancelled"
  <2>1. old \in DOMAIN ledger
    BY <1>1, <1>2 DEF OpeningsAgree
  <2>2. \A e \in DOMAIN ledger : ledger'[e].status =
            IF e \in {old} \cup rows THEN "cancelled" ELSE ledger[e].status
    BY ConversionOldEntries DEF old, rows, l, q
  <2> QED BY <2>1, <2>2
<1>7. \A i \in Legacy :
          /\ invoice'[i].loan = invoice[i].loan
          /\ invoice'[i].converted = IF i \in rows THEN TRUE ELSE invoice[i].converted
  <2>1. \A i \in Legacy : invoice[i] \in [status : {"active", "cancelled"}, loan : Nat,
                                           converted : BOOLEAN]
    BY <1>1 DEF TypeOK
  <2>2. invoice' = [i \in Legacy |->
             IF i \in rows THEN [invoice[i] EXCEPT !.status = "cancelled", !.converted = TRUE]
             ELSE invoice[i]]
    BY DEF ConversionStep
  <2> HIDE DEF rows
  <2> QED BY <2>1, <2>2
<1> HIDE DEF rows, l, old, done, q
<1>8. ASSUME NEW s \in Attempts, NEW a, a = attempt'[s], a \in AttemptRows, a # done
      PROVE  /\ s # r /\ a = attempt[s] /\ a.seen.rows \subseteq Legacy
             /\ a.request \in Requests
             /\ Overtaken(a) => Overtaken(a)'
             /\ (\E i \in a.seen.rows : i \in rows) => Overtaken(a)'
             /\ Converting(a)' <=> Converting(a)
  <2>1. s # r /\ a = attempt[s]
    BY <1>3, <1>8 DEF Moved
  <2>2. a.seen.rows \subseteq Legacy /\ a.request \in Requests
    BY <1>8 DEF AttemptRows, Sights
  <2>3. Overtaken(a) => Overtaken(a)'
    BY <1>7, <2>2 DEF Overtaken
  <2>4. (\E i \in a.seen.rows : i \in rows) => Overtaken(a)'
    BY <1>7, <2>2 DEF Overtaken
  <2> QED BY <2>1, <2>2, <2>3, <2>4 DEF Converting
<1>9. ASSUME NEW s \in Attempts PROVE Good(attempt[s])'
  <2>1. PICK a : a = attempt'[s]
    OBVIOUS
  <2>2. CASE a = Unsent
    BY <2>1, <2>2 DEF Good, Converting, Unsent
  <2>3. CASE a = done
    BY <1>3, <2>1, <2>3 DEF Good, Converting
  <2>4. CASE a \in AttemptRows /\ a # done
    <3>1. /\ a = attempt[s] /\ a.seen.rows \subseteq Legacy /\ a.request \in Requests
          /\ Overtaken(a) => Overtaken(a)'
          /\ (\E i \in a.seen.rows : i \in rows) => Overtaken(a)'
          /\ Converting(a)' <=> Converting(a)
      BY <1>8, <2>1, <2>4
    <3>2. Good(a)
      BY <1>1, <3>1 DEF AttemptsGood
    <3>3. SightHolds(a) => SightHolds(a)'
      <4>1. SUFFICES ASSUME SightHolds(a) PROVE SightHolds(a)'
        OBVIOUS
      <4>2. /\ a.request.loan \in DOMAIN loans' /\ a.seen.entry \in DOMAIN ledger'
        BY <1>5, <4>1 DEF SightHolds
      <4>3. CASE ledger[a.seen.entry].status = "cancelled"
        BY <1>6, <4>1, <4>2, <4>3 DEF SightHolds
      <4>4. CASE Current(a) /\ a.request.loan = l
        BY <1>6, <4>2, <4>4 DEF SightHolds, Current, old
      <4>5. CASE Current(a) /\ a.request.loan # l
        <5>1. loans'[a.request.loan] = loans[a.request.loan]
          BY <1>5, <4>1, <4>5 DEF SightHolds
        <5> QED BY <4>2, <4>5, <5>1 DEF SightHolds, Current
      <4> QED BY <4>1, <4>3, <4>4, <4>5 DEF SightHolds
    <3>4. a.pc = "write" /\ a.request.op = "convert" => Current(a)' \/ Overtaken(a)'
      <4>1. SUFFICES ASSUME a.pc = "write", a.request.op = "convert", ~Overtaken(a), ~Overtaken(a)'
                     PROVE  Current(a)'
        BY <3>1
      <4>2. Current(a) /\ Converting(a) /\ SightHolds(a)
        BY <3>2, <4>1 DEF Good, Converting
      <4>3. CASE a.request.loan # l
        <5>1. loans'[a.request.loan] = loans[a.request.loan]
          BY <1>5, <4>2, <4>3 DEF SightHolds
        <5> QED BY <4>2, <5>1 DEF Current
      <4>4. CASE a.request.loan = l
        <5>1. Nested(attempt[r], a) /\ Converting(attempt[r])
          BY <1>1, <1>2, <3>1 DEF AttemptsGood, Converting, q
        <5>2. rows \subseteq a.seen.rows \/ a.seen.rows \subseteq rows
          BY <1>2, <4>1, <4>2, <4>4, <5>1 DEF Nested, rows, l, q
        <5>3. a.seen.rows # {}
          BY <3>2, <4>2 DEF Good
        <5> QED BY <1>2, <3>1, <4>1, <5>2, <5>3
      <4> QED BY <4>3, <4>4
    <3>5. /\ a.request.payment \in DOMAIN payments =>
                /\ a.request.payment \in DOMAIN payments'
                /\ payments'[a.request.payment] = payments[a.request.payment]
          /\ a.request.loan \in DOMAIN loans => a.request.loan \in DOMAIN loans'
      BY <1>5
    <3>6. Converting(a) => \A i \in a.seen.rows : invoice'[i].loan = a.request.loan
      BY <1>7, <3>1, <3>2 DEF Good
    <3>7. Good(a)'
      BY <3>1, <3>2, <3>3, <3>4, <3>5, <3>6 DEF Good
    <3> QED BY <2>1, <3>7 DEF Good, SightHolds, Current, Overtaken, Converting
  <2> QED BY <1>4, <2>1, <2>2, <2>3, <2>4
<1>10. ASSUME NEW s \in Attempts, NEW t \in Attempts PROVE Nested(attempt[s], attempt[t])'
  <2>1. PICK b : b = attempt'[s]
    OBVIOUS
  <2>2. PICK c : c = attempt'[t]
    OBVIOUS
  <2>3. CASE b = Unsent \/ c = Unsent \/ b = done \/ c = done
    BY <1>3, <2>1, <2>2, <2>3 DEF Nested, Converting, Unsent
  <2>4. CASE b \in AttemptRows /\ b # done /\ c \in AttemptRows /\ c # done
    <3>1. b = attempt[s] /\ (Overtaken(b) => Overtaken(b)')
      BY <1>8, <2>1, <2>4
    <3>2. c = attempt[t] /\ (Overtaken(c) => Overtaken(c)')
      BY <1>8, <2>2, <2>4
    <3>3. Nested(b, c)
      BY <1>1, <3>1, <3>2 DEF AttemptsGood
    <3>4. Nested(b, c)'
      BY <3>1, <3>2, <3>3 DEF Nested, Converting
    <3> QED BY <2>1, <2>2, <3>4 DEF Nested, Overtaken, Converting
  <2> QED BY <1>4, <2>1, <2>2, <2>3, <2>4
<1> QED BY <1>4, <1>9, <1>10 DEF AttemptsGood

\* A conversion leaves one active opening entry and new payments only.
LEMMA ConversionCommitSound ==
    ASSUME Sound, NEW r \in Attempts, CommitConversion(r), NEW m \in Nat, NEW f,
           ConversionStep(r, m, f)
    PROVE  Sound'
<1> DEFINE q == attempt[r].request
           rows == attempt[r].seen.rows
           l == q.loan
           old == loans[l].entry
           L == Len(ledger)
           P == Len(payments)
<1>1. /\ TypeOK /\ OpeningsAgree /\ InvoicesAgree /\ PaymentsAgree /\ PaymentsRecordedOnce
  BY DEF Sound, TablesAgree
<1>2. AttemptsGood' /\ attempt' \in [Attempts -> {Unsent} \cup AttemptRows]
  BY ConversionGood
<1>3. /\ l \in DOMAIN loans /\ rows \subseteq Legacy
      /\ \A i \in rows : ConvertedFrom(i) = {}
  BY ConversionReady
<1>4. /\ ledger' \in Seq(Entries) /\ payments' \in Seq(PaymentRows) /\ loans' \in Seq(LoanRows)
      /\ DOMAIN ledger' = 1..(L + 1 + m) /\ DOMAIN payments' = 1..(P + m)
      /\ DOMAIN loans' = DOMAIN loans
      /\ \A i \in 1..P : payments'[i] = payments[i]
      /\ \A k \in DOMAIN loans \ {l} : loans'[k] = loans[k]
  BY DEF ConversionStep
<1>5. loans'[l].entry = L + 1 /\ loans'[l].opening = loans[l].opening + Total(rows)
  <2>1. loans'[l] = [loans[l] EXCEPT !.opening = loans[l].opening + Total(rows), !.entry = L + 1]
    BY DEF ConversionStep
  <2>2. loans[l] \in LoanRows
    BY <1>1, <1>3, ElementOf DEF TypeOK
  <2> HIDE DEF l, L, rows
  <2> QED BY <2>1, <2>2 DEF LoanRows
<1>6. /\ invoice' = [i \in Legacy |->
            IF i \in rows THEN [invoice[i] EXCEPT !.status = "cancelled", !.converted = TRUE]
            ELSE invoice[i]]
      /\ \A i \in Legacy : invoice[i] \in [status : {"active", "cancelled"}, loan : Nat,
                                            converted : BOOLEAN]
  BY <1>1 DEF ConversionStep, TypeOK
<1>7. /\ invoice' \in [Legacy -> [status : {"active", "cancelled"}, loan : Nat,
                                  converted : BOOLEAN]]
      /\ \A i \in Legacy \ rows : invoice'[i] = invoice[i]
  <2> HIDE DEF rows
  <2>1. TRUE \in BOOLEAN
    OBVIOUS
  <2> QED BY <1>6, <2>1
<1>8. TypeOK'
  BY <1>2, <1>4, <1>7 DEF TypeOK, LedgerTypeOK, AttemptRows, Sights
<1>9. /\ L \in Nat /\ P \in Nat /\ DOMAIN ledger = 1..L /\ DOMAIN payments = 1..P
      /\ L + 1 \in DOMAIN ledger' /\ L + 1 \notin DOMAIN ledger
      /\ \A n \in 1..m : P + n \in DOMAIN payments'
      /\ DOMAIN ledger \subseteq DOMAIN ledger' /\ DOMAIN payments \subseteq DOMAIN payments'
  <2>1. L \in Nat /\ P \in Nat /\ DOMAIN ledger = 1..L /\ DOMAIN payments = 1..P
    BY <1>1 DEF TypeOK, LedgerTypeOK
  <2> QED BY <1>4, <2>1
<1>10. \A e \in DOMAIN ledger :
           /\ ledger'[e].ref = ledger[e].ref /\ ledger'[e].debit = ledger[e].debit
           /\ ledger'[e].credit = ledger[e].credit /\ ledger'[e].day = ledger[e].day
           /\ ledger'[e].amount = ledger[e].amount
           /\ ledger'[e].status = IF e \in {old} \cup rows THEN "cancelled" ELSE ledger[e].status
  BY ConversionOldEntries
<1>11. LET x == ledger'[L + 1] IN
          /\ x.status = "active" /\ x.debit = OpeningAccount /\ x.credit = LoanAccount
          /\ x.amount = loans[l].opening + Total(rows) /\ x.ref = Ref("loan_opening", l)
  BY ConversionEntries
<1>12. \A n \in 1..m : ledger'[L + 1 + n].ref = Ref("loan_payment", P + n)
  <2>1. \A n \in 1..m : ledger'[L + 1 + n] = PaymentEntryOf(f[n], P + n)
    BY DEF ConversionStep
  <2>2. ASSUME NEW n PROVE PaymentEntryOf(f[n], P + n).ref = Ref("loan_payment", P + n)
    BY DEF PaymentEntryOf, EntryOf
  <2> HIDE DEF L, P
  <2> QED BY <2>1, <2>2
<1>13. \A n \in 1..m : LET x == payments'[P + n] IN
          /\ x.key = LegacyKey /\ x.loan = l
          /\ x.status = "posted" /\ x.of = 0 /\ x.source = f[n]
  BY ConversionEntries
<1>14. /\ \A n \in 1..m : f[n] \in rows
       /\ \A i \in rows : \E n \in 1..m : f[n] = i
       /\ \A n, k \in 1..m : f[n] = f[k] => n = k
  BY ConversionEntries
<1>15. /\ \A e \in DOMAIN ledger' : e \notin DOMAIN ledger /\ e # L + 1
             => \E n \in 1..m : e = L + 1 + n
       /\ \A i \in DOMAIN payments' : i \notin DOMAIN payments => \E n \in 1..m : i = P + n
  <2>1. \A e \in DOMAIN ledger' : e \notin DOMAIN ledger /\ e # L + 1
             => \E n \in 1..m : e = L + 1 + n
    <3>1. ASSUME NEW e \in 1..(L + 1 + m), e \notin 1..L, e # L + 1
          PROVE  \E n \in 1..m : e = L + 1 + n
      <4>1. e - (L + 1) \in 1..m /\ e = L + 1 + (e - (L + 1))
        BY <1>9, <3>1
      <4> QED BY <4>1
    <3> QED BY <1>4, <1>9, <3>1
  <2>2. \A i \in DOMAIN payments' : i \notin DOMAIN payments => \E n \in 1..m : i = P + n
    <3>1. ASSUME NEW i \in 1..(P + m), i \notin 1..P
          PROVE  \E n \in 1..m : i = P + n
      <4>1. i - P \in 1..m /\ i = P + (i - P)
        BY <1>9, <3>1
      <4> QED BY <4>1
    <3> QED BY <1>4, <1>9, <3>1
  <2> QED BY <2>1, <2>2
<1>16. \A id : /\ Ref("loan_opening", id).type = "loan_opening" /\ Ref("loan_opening", id).id = id
               /\ Ref("invoice", id).type = "invoice" /\ Ref("loan_payment", id).type = "loan_payment"
  BY DEF Ref
<1>17. \A i \in rows : i \in DOMAIN ledger /\ ledger[i].ref.type = "invoice"
  BY <1>1, <1>3, <1>16 DEF InvoicesAgree
<1> HIDE DEF L, P, rows, l, q
<1>18. OpeningsAgree'
  <2>1. ASSUME NEW k \in DOMAIN loans'
        PROVE  /\ loans'[k].entry \in DOMAIN ledger'
               /\ LET x == ledger'[loans'[k].entry] IN
                  /\ x.status = "active" /\ x.ref = Ref("loan_opening", k)
                  /\ x.debit = OpeningAccount /\ x.credit = LoanAccount
                  /\ x.amount = loans'[k].opening
    <3>1. CASE k = l
      BY <1>5, <1>9, <1>11, <3>1
    <3>2. CASE k # l
      <4>1. loans'[k] = loans[k] /\ k \in DOMAIN loans
        BY <1>4, <2>1, <3>2
      <4>2. PICK e : e = loans[k].entry
        OBVIOUS
      <4>3. /\ e \in DOMAIN ledger /\ ledger[e].status = "active"
            /\ ledger[e].ref = Ref("loan_opening", k) /\ ledger[e].debit = OpeningAccount
            /\ ledger[e].credit = LoanAccount /\ ledger[e].amount = loans[k].opening
        BY <1>1, <4>1, <4>2 DEF OpeningsAgree
      <4>4. ledger[old].ref = Ref("loan_opening", l)
        BY <1>1, <1>3 DEF OpeningsAgree
      <4>5. e # old /\ e \notin rows
        BY <1>16, <1>17, <3>2, <4>3, <4>4
      <4>6. ledger'[e].status = "active"
        BY <1>10, <4>3, <4>5
      <4> QED BY <1>9, <1>10, <4>1, <4>2, <4>3, <4>6
    <3> QED BY <3>1, <3>2
  <2>2. ASSUME NEW e \in DOMAIN ledger', ledger'[e].ref.type = "loan_opening"
        PROVE  /\ ledger'[e].ref.id \in DOMAIN loans'
               /\ ledger'[e].status = "active" => e = loans'[ledger'[e].ref.id].entry
    <3>1. CASE e \in DOMAIN ledger
      <4>1. ledger'[e].ref = ledger[e].ref
        BY <1>10, <3>1
      <4>2. PICK k : k = ledger[e].ref.id
        OBVIOUS
      <4>3. k \in DOMAIN loans /\ (ledger[e].status = "active" => e = loans[k].entry)
        BY <1>1, <2>2, <3>1, <4>1, <4>2 DEF OpeningsAgree
      <4>4. ledger'[e].status = "active" => e # old /\ ledger[e].status = "active"
        BY <1>10, <3>1
      <4>5. ledger'[e].status = "active" => e = loans'[k].entry
        BY <1>4, <4>3, <4>4
      <4> QED BY <1>4, <4>1, <4>2, <4>3, <4>5
    <3>2. CASE e = L + 1
      BY <1>3, <1>4, <1>5, <1>11, <1>16, <3>2
    <3>3. CASE e \notin DOMAIN ledger /\ e # L + 1
      BY <1>12, <1>15, <1>16, <2>2, <3>3
    <3> QED BY <3>1, <3>2, <3>3
  <2> QED BY <2>1, <2>2 DEF OpeningsAgree
<1>19. InvoicesAgree'
  <2>1. ASSUME NEW i \in Legacy, invoice'[i].converted PROVE ConvertedFrom(i)' # {}
    <3>1. CASE i \in rows
      <4>1. PICK n \in 1..m : f[n] = i
        BY <1>14, <3>1
      <4>2. P + n \in DOMAIN payments' /\ payments'[P + n].source = i
        BY <1>9, <1>13, <4>1
      <4> QED BY <4>2 DEF ConvertedFrom
    <3>2. CASE i \notin rows
      <4>1. ConvertedFrom(i) # {}
        BY <1>1, <1>7, <2>1, <3>2 DEF InvoicesAgree
      <4> QED BY <1>4, <1>9, <4>1 DEF ConvertedFrom
    <3> QED BY <3>1, <3>2
  <2>2. ASSUME NEW i \in Legacy
        PROVE  /\ i \in DOMAIN ledger'
               /\ ledger'[i].debit = ExpenseAccount /\ ledger'[i].credit \in Vaults
               /\ ledger'[i].amount \in Nat \ {0} /\ ledger'[i].day \in Days
               /\ ledger'[i].ref = Ref("invoice", i)
    <3>1. /\ i \in DOMAIN ledger
          /\ ledger[i].debit = ExpenseAccount /\ ledger[i].credit \in Vaults
          /\ ledger[i].amount \in Nat \ {0} /\ ledger[i].day \in Days
          /\ ledger[i].ref = Ref("invoice", i)
      BY <1>1 DEF InvoicesAgree
    <3> QED BY <1>9, <1>10, <3>1
  <2>3. ASSUME NEW e \in DOMAIN ledger', ledger'[e].ref.type = "invoice" PROVE e \in Legacy
    <3>1. CASE e \in DOMAIN ledger
      BY <1>1, <1>10, <2>3, <3>1 DEF InvoicesAgree
    <3>2. CASE e = L + 1
      BY <1>11, <1>16, <2>3, <3>2
    <3>3. CASE e \notin DOMAIN ledger /\ e # L + 1
      BY <1>12, <1>15, <1>16, <2>3, <3>3
    <3> QED BY <3>1, <3>2, <3>3
  <2> QED BY <2>1, <2>2, <2>3 DEF InvoicesAgree
<1>20. PaymentsAgree'
  <2>1. ASSUME NEW i \in DOMAIN payments'
        PROVE  /\ payments'[i].loan \in DOMAIN loans'
               /\ payments'[i].status = "reversed" => ReversedBy(i)' # {}
    <3>1. CASE i \in DOMAIN payments
      <4>1. payments'[i] = payments[i]
        BY <1>4, <1>9, <3>1
      <4>2. ReversedBy(i) # {} => ReversedBy(i)' # {}
        BY <1>4, <1>9 DEF ReversedBy
      <4> QED BY <1>1, <1>4, <3>1, <4>1, <4>2 DEF PaymentsAgree
    <3>2. CASE i \notin DOMAIN payments
      BY <1>3, <1>4, <1>13, <1>15, <3>2
    <3> QED BY <3>1, <3>2
  <2> QED BY <2>1 DEF PaymentsAgree
<1>21. PaymentsRecordedOnce'
  <2>1. \A i \in DOMAIN payments : payments'[i] = payments[i]
    BY <1>4, <1>9
  <2>2. \A i \in DOMAIN payments, n \in 1..m : payments[i].source # f[n]
    BY <1>3, <1>14 DEF ConvertedFrom
  <2>3. ASSUME NEW i \in DOMAIN payments', NEW j \in DOMAIN payments', i # j
        PROVE  /\ payments'[i].key = payments'[j].key => payments'[i].key = LegacyKey
               /\ payments'[i].of = payments'[j].of => payments'[i].of = 0
               /\ payments'[i].source = payments'[j].source => payments'[i].source = 0
    <3>1. CASE i \in DOMAIN payments /\ j \in DOMAIN payments
      BY <1>1, <2>1, <2>3, <3>1 DEF PaymentsRecordedOnce
    <3>2. CASE i \in DOMAIN payments /\ j \notin DOMAIN payments
      BY <1>13, <1>15, <2>1, <2>2, <3>2
    <3>3. CASE i \notin DOMAIN payments /\ j \in DOMAIN payments
      BY <1>13, <1>15, <2>1, <2>2, <3>3
    <3>4. CASE i \notin DOMAIN payments /\ j \notin DOMAIN payments
      BY <1>13, <1>14, <1>15, <2>3, <3>4
    <3> QED BY <3>1, <3>2, <3>3, <3>4
  <2> QED BY <2>3 DEF PaymentsRecordedOnce
<1> QED BY <1>2, <1>8, <1>18, <1>19, <1>20, <1>21 DEF Sound, TablesAgree

-----------------------------------------------------------------------------
(* All steps together.                                                     *)

\* The first state: invoices posted, at most one loan.
LEMMA SoundInit ==
    ASSUME Init
    PROVE  Sound
<1> DEFINE posted == [i \in Legacy |->
          EntryOf(ExpenseAccount, LegacyInvoices[i].vault, LegacyInvoices[i].amount,
                  LegacyInvoices[i].day, Ref("invoice", i))]
<1>1. /\ payments = <<>> /\ attempt = [r \in Attempts |-> Unsent]
      /\ invoice = [i \in Legacy |-> [status |-> "active", loan |-> 0, converted |-> FALSE]]
      /\ \/ loans = <<>> /\ ledger = posted
         \/ \E q \in Requests :
                /\ q.op = "loan"
                /\ loans = <<LoanRow(q, Len(posted) + 1)>>
                /\ ledger = Append(posted, OpeningOf(q, 1))
  BY DEF Init, LoansInit
<1>2. \A i \in Legacy : /\ LegacyInvoices[i].vault \in Vaults
                        /\ LegacyInvoices[i].amount \in Nat \ {0}
                        /\ LegacyInvoices[i].day \in Days
  <2>1. \A i \in Legacy : LegacyInvoices[i] \in [vault : Vaults, amount : Nat \ {0}, day : Days]
    BY LoanConstants, ElementOf DEF Legacy
  <2> QED BY <2>1
<1>3. ASSUME NEW i \in Legacy
      PROVE  /\ posted[i] \in Entries /\ posted[i].ref.type = "invoice"
             /\ posted[i].debit = ExpenseAccount /\ posted[i].credit \in Vaults
             /\ posted[i].amount \in Nat \ {0} /\ posted[i].day \in Days
             /\ posted[i].ref = Ref("invoice", i)
  <2>1. PICK x : x = LegacyInvoices[i]
    OBVIOUS
  <2>2. /\ x.vault \in Accounts /\ x.vault \in Vaults /\ x.amount \in Nat \ {0} /\ x.day \in Nat
        /\ x.day \in Days /\ ExpenseAccount \in Accounts /\ i \in Nat
    BY <1>2, <2>1, AccountsKnown, LoanConstants DEF Legacy
  <2>3. posted[i] = EntryOf(ExpenseAccount, x.vault, x.amount, x.day, Ref("invoice", i))
    BY <2>1
  <2> HIDE DEF posted
  <2> QED BY <2>2, <2>3 DEF EntryOf, Entries, Ref, References
<1>4. posted \in Seq(Entries) /\ DOMAIN posted = Legacy
  <2>1. Len(LegacyInvoices) \in Nat /\ Legacy = 1..Len(LegacyInvoices)
    BY LoanConstants DEF Legacy
  <2> QED BY <1>3, <2>1
<1> HIDE DEF posted
<1>5. attempt \in [Attempts -> {Unsent} \cup AttemptRows] /\ \A r \in Attempts : attempt[r] = Unsent
  BY <1>1
<1>6. AttemptsGood
  BY <1>5 DEF AttemptsGood, Good, Nested, Converting, Unsent
<1>7. /\ PaymentsAgree /\ PaymentsRecordedOnce /\ payments \in Seq(PaymentRows)
      /\ invoice \in [Legacy -> [status : {"active", "cancelled"}, loan : Nat,
                                 converted : BOOLEAN]]
      /\ \A i \in Legacy : ~invoice[i].converted
  BY <1>1 DEF PaymentsAgree, PaymentsRecordedOnce
<1>8. CASE loans = <<>> /\ ledger = posted
  <2>1. OpeningsAgree
    BY <1>3, <1>4, <1>8 DEF OpeningsAgree
  <2>2. InvoicesAgree
    BY <1>3, <1>4, <1>7, <1>8 DEF InvoicesAgree
  <2>3. TypeOK
    BY <1>4, <1>5, <1>7, <1>8 DEF TypeOK, LedgerTypeOK, AttemptRows, Sights
  <2> QED BY <1>6, <1>7, <2>1, <2>2, <2>3 DEF Sound, TablesAgree
<1>9. CASE \E q \in Requests :
                /\ q.op = "loan"
                /\ loans = <<LoanRow(q, Len(posted) + 1)>>
                /\ ledger = Append(posted, OpeningOf(q, 1))
  <2>1. PICK q \in Requests :
                /\ q.op = "loan"
                /\ loans = <<LoanRow(q, Len(posted) + 1)>>
                /\ ledger = Append(posted, OpeningOf(q, 1))
    BY <1>9
  <2> DEFINE n == Len(posted) + 1
             e == OpeningOf(q, 1)
  <2>2. q.amount \in Nat \ {0} /\ q.day \in Days /\ n \in Nat
    BY <1>4, <2>1, RequestsAssumption
  <2>3. /\ e \in Entries /\ e.status = "active" /\ e.ref = Ref("loan_opening", 1)
        /\ e.ref.type = "loan_opening" /\ e.ref.id = 1
        /\ e.debit = OpeningAccount /\ e.credit = LoanAccount /\ e.amount = q.amount
    <3>1. /\ q.amount \in Nat /\ q.day \in Nat
          /\ OpeningAccount \in Accounts /\ LoanAccount \in Accounts
      BY <2>2, AccountsKnown
    <3> QED BY <3>1 DEF OpeningOf, EntryOf, Entries, Ref, References
  <2> HIDE DEF e
  <2>4. /\ ledger \in Seq(Entries) /\ DOMAIN ledger = Legacy \cup {n} /\ ledger[n] = e
        /\ n \notin Legacy /\ \A i \in Legacy : ledger[i] = posted[i]
    BY <1>4, <2>1, <2>3, Appended DEF e
  <2>5. /\ loans \in Seq(LoanRows) /\ DOMAIN loans = {1} /\ loans[1].entry = n
        /\ loans[1].opening = q.amount
    <3>1. PICK x : x = LoanRow(q, n)
      OBVIOUS
    <3>2. x \in LoanRows /\ x.entry = n /\ x.opening = q.amount
      BY <2>2, <3>1 DEF LoanRow, LoanRows
    <3>3. loans = <<x>>
      BY <2>1, <3>1
    <3> QED BY <3>2, <3>3
  <2> HIDE DEF n
  <2>6. OpeningsAgree
    BY <1>3, <2>3, <2>4, <2>5 DEF OpeningsAgree
  <2>7. InvoicesAgree
    BY <1>3, <1>7, <2>3, <2>4 DEF InvoicesAgree
  <2>8. TypeOK
    BY <1>5, <1>7, <2>4, <2>5 DEF TypeOK, LedgerTypeOK, AttemptRows, Sights
  <2> QED BY <1>6, <1>7, <2>6, <2>7, <2>8 DEF Sound, TablesAgree
<1> QED BY <1>1, <1>8, <1>9

\* The steps, by what they do to the tables.
LEMMA StepCases ==
    ASSUME [Next]_vars
    PROVE  \/ UNCHANGED <<loans, payments, invoice, attempt, ledger>>
           \/ \E i \in Legacy : CancelInvoice(i)
           \/ \E r \in Attempts :
                 \/ ReadSteps(r) \/ \E q \in Requests : Submit(r, q)
                 \/ CommitLoan(r) \/ CommitPayment(r) \/ CommitReversal(r)
                 \/ CommitLinks(r) \/ CommitConversion(r)
<1>1. CASE UNCHANGED vars
  BY <1>1 DEF vars, loanVars
<1>2. CASE VaultNext /\ UNCHANGED <<loanVars, attempt, ledger, periodVars>>
  BY <1>2 DEF loanVars
<1>3. CASE PeriodNext /\ UNCHANGED <<loanVars, attempt, ledger, vaultVars>>
  BY <1>3 DEF loanVars
<1>4. CASE \E r \in Attempts : Serve(r) \/ \E q \in Requests : Submit(r, q)
  BY <1>4 DEF Serve, ReadSteps
<1>5. CASE \E i \in Legacy : CancelInvoice(i)
  BY <1>5
<1> QED BY <1>1, <1>2, <1>3, <1>4, <1>5 DEF Next

\* Every step keeps the invariant.
LEMMA SoundStep ==
    ASSUME Sound, [Next]_vars
    PROVE  Sound'
<1>1. CASE UNCHANGED <<loans, payments, invoice, attempt, ledger>>
  BY <1>1, StutterSound
<1>2. ASSUME NEW i \in Legacy, CancelInvoice(i) PROVE Sound'
  BY <1>2, CancelSound
<1>3. ASSUME NEW r \in Attempts, ReadSteps(r) PROVE Sound'
  BY <1>3, ReadSound
<1>4. ASSUME NEW r \in Attempts, NEW q \in Requests, Submit(r, q) PROVE Sound'
  <2>1. TypeOK' /\ AttemptsGood' /\ Unwritten
    BY <1>4, SubmitGood DEF Sound, Submit
  <2> QED BY <2>1, UnwrittenSound
<1>5. ASSUME NEW r \in Attempts, CommitConversion(r) PROVE Sound'
  BY <1>5, ConversionIs, ConversionCommitSound
<1>6. ASSUME NEW r \in Attempts,
             CommitLoan(r) \/ CommitPayment(r) \/ CommitReversal(r) \/ CommitLinks(r)
      PROVE  Sound'
  BY <1>6, LoanCommitSound, PaymentCommitSound, ReversalCommitSound, LinksCommitSound
<1> QED BY <1>1, <1>2, <1>3, <1>4, <1>5, <1>6, StepCases

\* The inductive invariant without the amounts: types, what each request
\* knows, how loans, invoices and payments agree with their entries.
THEOREM SoundHolds == Spec => []Sound
<1>1. Init => Sound
  BY SoundInit
<1>2. Sound /\ [Next]_vars => Sound'
  BY SoundStep
<1> QED BY <1>1, <1>2, PTL DEF Spec

-----------------------------------------------------------------------------
(* The amounts: what is left of a loan.                                    *)

Paid == [i \in DOMAIN payments |-> payments[i].amount]

\* What has been paid is a natural number.
LEMMA PaidTyped ==
    ASSUME TypeOK
    PROVE  /\ IsFiniteSet(DOMAIN payments)
           /\ \A i \in DOMAIN payments : Paid[i] = payments[i].amount /\ Paid[i] \in Nat
           /\ \A l : /\ PaidWith(l) \subseteq DOMAIN payments /\ IsFiniteSet(PaidWith(l))
                    /\ PaidOff(l) = SumFunctionOnSet(Paid, PaidWith(l))
                    /\ PaidOff(l) \in Nat
<1>1. Len(payments) \in Nat /\ DOMAIN payments = 1..Len(payments)
  BY DEF TypeOK
<1>2. IsFiniteSet(DOMAIN payments)
  BY <1>1, FS_Interval
<1>3. ASSUME NEW i \in DOMAIN payments PROVE Paid[i] = payments[i].amount /\ Paid[i] \in Nat
  <2>1. payments[i] \in PaymentRows
    BY ElementOf DEF TypeOK
  <2> QED BY <2>1 DEF Paid, PaymentRows
<1>4. ASSUME NEW l
      PROVE  /\ PaidWith(l) \subseteq DOMAIN payments /\ IsFiniteSet(PaidWith(l))
             /\ PaidOff(l) = SumFunctionOnSet(Paid, PaidWith(l))
             /\ PaidOff(l) \in Nat
  <2>1. PaidWith(l) \subseteq DOMAIN payments
    BY DEF PaidWith
  <2>2. IsFiniteSet(PaidWith(l))
    BY <1>2, <2>1, FS_Subset
  <2>3. PaidOff(l) = SumFunctionOnSet(Paid, PaidWith(l))
    BY DEF PaidOff, Paid
  <2>4. \A i \in PaidWith(l) : Paid[i] \in Nat
    BY <1>3, <2>1
  <2>5. SumFunctionOnSet(Paid, PaidWith(l)) \in Nat
    BY <2>2, <2>4, SumType
  <2> QED BY <2>1, <2>2, <2>3, <2>5
<1> QED BY <1>2, <1>3, <1>4

\* Payments of other loans change nothing.
LEMMA SamePaid ==
    ASSUME TypeOK, NEW l, PaidWith(l)' = PaidWith(l), DOMAIN payments \subseteq DOMAIN payments',
           \A i \in DOMAIN payments : payments'[i].amount = payments[i].amount
    PROVE  PaidOff(l)' = PaidOff(l)
<1>1. PICK S : S = PaidWith(l)
  OBVIOUS
<1>2. /\ IsFiniteSet(S) /\ S \subseteq DOMAIN payments
      /\ PaidOff(l) = SumFunctionOnSet(Paid, S)
  BY <1>1, PaidTyped
<1>3. PaidOff(l)' = SumFunctionOnSet(Paid', S)
  BY <1>1 DEF PaidOff, Paid
<1>4. \A i \in S : Paid[i] = Paid'[i]
  BY <1>2 DEF Paid
<1>5. SumFunctionOnSet(Paid, S) = SumFunctionOnSet(Paid', S)
  BY <1>2, <1>4, SumSame
<1> QED BY <1>2, <1>3, <1>5

\* The difference form of the first half of OutstandingIsOpeningLessPaid.
Left == \A l \in DOMAIN loans : loans[l].outstanding = loans[l].opening - PaidOff(l)

\* A new loan is wholly outstanding.
LEMMA LoanCommitLeft ==
    ASSUME Sound, Left, NEW r \in Attempts, CommitLoan(r)
    PROVE  Left'
<1> DEFINE q == attempt[r].request
           id == Len(loans) + 1
           row == LoanRow(q, Len(ledger) + 1)
<1>1. TypeOK /\ PaymentsAgree
  BY DEF Sound, TablesAgree
<1>2. At(r, "write") /\ q.op = "loan" /\ loans' = Append(loans, row) /\ payments' = payments
  BY DEF CommitLoan
<1>3. attempt[r] \in AttemptRows
  BY <1>1, <1>2, RowTyped DEF At
<1>4. q \in Requests /\ q.amount \in Nat \ {0} /\ Len(ledger) + 1 \in Nat
  BY <1>1, <1>2, <1>3, RequestsAssumption DEF AttemptRows, TypeOK, LedgerTypeOK
<1>5. row \in LoanRows /\ row.opening = q.amount /\ row.outstanding = q.amount
  BY <1>4 DEF LoanRow, LoanRows
<1> HIDE DEF row
<1>6. /\ DOMAIN loans' = DOMAIN loans \cup {id} /\ id \notin DOMAIN loans
      /\ loans'[id] = row /\ \A l \in DOMAIN loans : loans'[l] = loans[l]
  BY <1>1, <1>2, <1>5, Appended DEF TypeOK
<1> HIDE DEF id
<1>7. \A l : PaidOff(l)' = PaidOff(l)
  BY <1>2 DEF PaidOff, PaidWith
<1>8. \A l : l = id => PaidOff(l) = 0
  <2>1. ASSUME NEW l, l = id PROVE PaidOff(l) = 0
    <3>1. PaidWith(l) = {}
      BY <1>1, <1>6, <2>1 DEF PaidWith, PaymentsAgree
    <3>2. PaidOff(l) = SumFunctionOnSet(Paid, PaidWith(l))
      BY DEF PaidOff, Paid
    <3> QED BY <3>1, <3>2, SumEmpty
  <2> QED BY <2>1
<1>9. ASSUME NEW l \in DOMAIN loans'
      PROVE  loans'[l].outstanding = loans'[l].opening - PaidOff(l)'
  <2>1. CASE l \in DOMAIN loans
    BY <1>6, <1>7, <2>1 DEF Left
  <2>2. CASE l = id
    <3>1. PaidOff(l)' = 0
      BY <1>7, <1>8, <2>2
    <3> QED BY <1>4, <1>5, <1>6, <2>2, <3>1
  <2> QED BY <1>6, <2>1, <2>2
<1> QED BY <1>9 DEF Left

\* A payment lowers what is outstanding by what it pays.
LEMMA PaymentCommitLeft ==
    ASSUME Sound, Left, NEW r \in Attempts, CommitPayment(r)
    PROVE  Left'
<1> DEFINE q == attempt[r].request
           l == q.loan
           id == Len(payments) + 1
<1>1. TypeOK
  BY DEF Sound
<1>2. /\ l \in DOMAIN loans /\ q.amount \in Nat \ {0}
      /\ DOMAIN payments' = DOMAIN payments \cup {id}
      /\ id \notin DOMAIN payments
      /\ \A i \in DOMAIN payments : payments'[i] = payments[i]
      /\ payments'[id].loan = l /\ payments'[id].of = 0
      /\ payments'[id].status = "posted" /\ payments'[id].amount = q.amount
      /\ DOMAIN loans' = DOMAIN loans
  BY PaymentIs
<1>3. \A k \in DOMAIN loans :
          /\ loans'[k].opening = loans[k].opening
          /\ loans'[k].outstanding = loans[k].outstanding - (IF k = l THEN q.amount ELSE 0)
  BY PaymentIs
<1> HIDE DEF id, l, q
<1>4. ASSUME NEW k \in DOMAIN loans
      PROVE  loans'[k].outstanding = loans'[k].opening - PaidOff(k)'
  <2>0. loans[k] \in LoanRows
    BY <1>1, ElementOf DEF TypeOK
  <2>1. /\ loans[k].outstanding \in Nat /\ loans[k].opening \in Nat
        /\ loans[k].outstanding = loans[k].opening - PaidOff(k) /\ PaidOff(k) \in Nat
    BY <1>1, <2>0, PaidTyped DEF LoanRows, Left
  <2>2. CASE k # l
    <3>1. PaidWith(k)' = PaidWith(k)
      BY <1>2, <2>2 DEF PaidWith
    <3>2. PaidOff(k)' = PaidOff(k)
      BY <1>1, <1>2, <3>1, SamePaid
    <3> QED BY <1>3, <2>1, <2>2, <3>2
  <2>3. CASE k = l
    <3>1. PICK S : S = PaidWith(k)
      OBVIOUS
    <3>2. PaidWith(k)' = S \cup {id}
      BY <1>2, <2>3, <3>1 DEF PaidWith
    <3>3. /\ IsFiniteSet(S) /\ S \subseteq DOMAIN payments
          /\ PaidOff(k) = SumFunctionOnSet(Paid, S)
          /\ \A i \in DOMAIN payments : Paid[i] \in Nat
      BY <1>1, <3>1, PaidTyped
    <3>4. PaidOff(k)' = SumFunctionOnSet(Paid', S \cup {id})
      BY <3>2 DEF PaidOff, Paid
    <3>5. /\ \A i \in S : Paid[i] \in Int /\ Paid'[i] = Paid[i]
          /\ id \notin S /\ Paid'[id] = q.amount /\ Paid'[id] \in Int
      BY <1>2, <3>3 DEF Paid
    <3>6. SumFunctionOnSet(Paid', S \cup {id}) = SumFunctionOnSet(Paid, S) + Paid'[id]
      BY <3>3, <3>5, SumGrows
    <3>7. PaidOff(k)' = PaidOff(k) + q.amount
      BY <3>3, <3>4, <3>5, <3>6
    <3> QED BY <1>2, <1>3, <2>1, <2>3, <3>7
  <2> QED BY <2>2, <2>3
<1> QED BY <1>2, <1>4 DEF Left

\* A reversal takes its original out of the payments that stand.
LEMMA ReversalCommitLeft ==
    ASSUME Sound, Left, NEW r \in Attempts, CommitReversal(r)
    PROVE  Left'
<1> DEFINE q == attempt[r].request
           l == q.loan
           c == q.payment
           p == payments[c]
           id == Len(payments) + 1
<1>1. TypeOK
  BY DEF Sound
<1>2. /\ c \in DOMAIN payments /\ c # 0 /\ p.loan = l /\ p.of = 0 /\ p.status = "posted"
      /\ p.amount \in Nat \ {0} /\ l \in DOMAIN loans
      /\ DOMAIN payments' = DOMAIN payments \cup {id} /\ id \notin DOMAIN payments
      /\ payments'[id].of = c
      /\ DOMAIN loans' = DOMAIN loans
  BY ReversalIs
<1>3. \A i \in DOMAIN payments :
          /\ payments'[i].loan = payments[i].loan /\ payments'[i].of = payments[i].of
          /\ payments'[i].amount = payments[i].amount
          /\ i # c => payments'[i] = payments[i]
          /\ i = c => payments'[i].status = "reversed"
  BY ReversalIs
<1>4. \A k \in DOMAIN loans :
          /\ loans'[k].opening = loans[k].opening
          /\ loans'[k].outstanding = loans[k].outstanding + (IF k = l THEN p.amount ELSE 0)
  BY ReversalIs
<1> HIDE DEF id, l, c, q
<1>5. ASSUME NEW k \in DOMAIN loans
      PROVE  loans'[k].outstanding = loans'[k].opening - PaidOff(k)'
  <2>0. loans[k] \in LoanRows
    BY <1>1, ElementOf DEF TypeOK
  <2>1. /\ loans[k].outstanding \in Nat /\ loans[k].opening \in Nat
        /\ loans[k].outstanding = loans[k].opening - PaidOff(k) /\ PaidOff(k) \in Nat
    BY <1>1, <2>0, PaidTyped DEF LoanRows, Left
  <2>2. CASE k # l
    <3>1. PaidWith(k)' = PaidWith(k)
      BY <1>2, <1>3, <2>2 DEF PaidWith
    <3>2. PaidOff(k)' = PaidOff(k)
      BY <1>1, <1>2, <1>3, <3>1, SamePaid
    <3> QED BY <1>4, <2>1, <2>2, <3>2
  <2>3. CASE k = l
    <3>1. PICK S : S = PaidWith(k)
      OBVIOUS
    <3>2. PaidWith(k)' = S \ {c} /\ c \in S
      BY <1>2, <1>3, <2>3, <3>1 DEF PaidWith
    <3>3. /\ IsFiniteSet(S) /\ S \subseteq DOMAIN payments
          /\ PaidOff(k) = SumFunctionOnSet(Paid, S)
          /\ \A i \in DOMAIN payments : Paid[i] \in Nat /\ Paid[i] = payments[i].amount
      BY <1>1, <3>1, PaidTyped
    <3>4. PaidOff(k)' = SumFunctionOnSet(Paid', S \ {c})
      BY <3>2 DEF PaidOff, Paid
    <3>5. \A i \in S \ {c} : Paid[i] = Paid'[i]
      BY <1>2, <1>3, <3>3 DEF Paid
    <3>6. SumFunctionOnSet(Paid, S \ {c}) = SumFunctionOnSet(Paid', S \ {c})
      <4>1. IsFiniteSet(S \ {c})
        BY <3>3, FS_RemoveElement
      <4> QED BY <3>5, <4>1, SumSame
    <3>7. SumFunctionOnSet(Paid, S \ {c}) = SumFunctionOnSet(Paid, S) - Paid[c]
      <4>1. \A i \in S : Paid[i] \in Int
        BY <3>3
      <4> QED BY <3>2, <3>3, <4>1, SumShrinks
    <3>8. PaidOff(k)' = PaidOff(k) - p.amount
      BY <1>2, <3>3, <3>4, <3>6, <3>7
    <3> QED BY <1>2, <1>4, <2>1, <2>3, <3>8
  <2> QED BY <2>2, <2>3
<1> QED BY <1>2, <1>5 DEF Left

\* The payments of a conversion, and their entries, add up to the entries
\* they replace.
LEMMA ConversionSums ==
    ASSUME Sound, NEW r \in Attempts, CommitConversion(r), NEW m \in Nat, NEW f,
           ConversionStep(r, m, f)
    PROVE  LET rows == attempt[r].seen.rows
               new == {Len(payments) + n : n \in 1..m}
               posted == {Len(ledger) + 1 + n : n \in 1..m}
           IN /\ Total(rows) \in Nat
              /\ IsFiniteSet(new) /\ SumFunctionOnSet(Paid', new) = Total(rows)
              /\ IsFiniteSet(posted) /\ SumFunctionOnSet(Amounts', posted) = Total(rows)
              /\ \A i \in new : Paid'[i] \in Nat
              /\ \A e \in posted : Amounts'[e] \in Nat
<1> DEFINE rows == attempt[r].seen.rows
           L == Len(ledger)
           P == Len(payments)
           F == [n \in 1..m |-> ledger[f[n]].amount]
           ids == [n \in 1..m |-> P + n]
           places == [n \in 1..m |-> L + 1 + n]
<1>1. TypeOK /\ LedgerTypeOK /\ InvoicesAgree
  BY DEF Sound, TypeOK, TablesAgree
<1>2. L \in Nat /\ P \in Nat /\ IsFiniteSet(1..m)
  BY <1>1, FS_Interval DEF TypeOK, LedgerTypeOK
<1>3. rows \subseteq DOMAIN ledger /\ \A e \in DOMAIN ledger : Amounts[e] = ledger[e].amount
                                                        /\ Amounts[e] \in Nat
  <2>1. rows \subseteq Legacy
    BY ConversionReady
  <2> QED BY <1>1, <2>1, LedgerFinite DEF InvoicesAgree
<1>4. f \in Bijection(1..m, rows)
  BY DEF ConversionStep
<1> HIDE DEF rows
<1>5. /\ \A n \in 1..m : f[n] \in rows
      /\ \A i \in rows : \E n \in 1..m : f[n] = i
      /\ \A n, k \in 1..m : f[n] = f[k] => n = k
  BY <1>4 DEF Bijection, Injection, Surjection, IsInjective
<1>6. \A n \in 1..m : F[n] \in Nat /\ F[n] \in Int /\ Amounts[f[n]] = F[n]
  BY <1>3, <1>5
<1>7. {f[n] : n \in 1..m} = rows
  BY <1>5
<1>8. Total(rows) = SumFunctionOnSet(F, 1..m)
  <2>1. SumFunctionOnSet(Amounts, {f[n] : n \in 1..m}) = SumFunctionOnSet(F, 1..m)
    <3>1. PICK N : N = 1..m
      OBVIOUS
    <3>2. /\ IsFiniteSet(N) /\ \A n \in N : F[n] \in Int /\ Amounts[f[n]] = F[n]
          /\ \A n, k \in N : f[n] = f[k] => n = k
      BY <1>2, <1>5, <1>6, <3>1
    <3> HIDE DEF F
    <3>3. SumFunctionOnSet(Amounts, {f[n] : n \in N}) = SumFunctionOnSet(F, N)
      BY <3>2, SumRenamed
    <3> QED BY <3>1, <3>3
  <2> QED BY <1>7, <2>1 DEF Total
<1>9. Total(rows) \in Nat
  BY <1>1, <1>3, TotalType
<1>10. ASSUME NEW n \in 1..m
       PROVE  Paid'[P + n] = F[n] /\ Amounts'[L + 1 + n] = F[n]
  <2>1. /\ DOMAIN payments' = 1..(P + m) /\ DOMAIN ledger' = 1..(L + 1 + m)
        /\ payments'[P + n] = ConversionOf(attempt[r].request, f[n], L + 1 + n)
        /\ ledger'[L + 1 + n] = PaymentEntryOf(f[n], P + n)
    BY DEF ConversionStep
  <2>2. P + n \in DOMAIN payments' /\ L + 1 + n \in DOMAIN ledger'
    BY <1>2, <2>1
  <2>3. ConversionOf(attempt[r].request, f[n], L + 1 + n).amount = ledger[f[n]].amount
    BY DEF ConversionOf
  <2>4. PaymentEntryOf(f[n], P + n).amount = ledger[f[n]].amount
    BY DEF PaymentEntryOf, EntryOf
  <2>5. Paid'[P + n] = payments'[P + n].amount /\ Amounts'[L + 1 + n] = ledger'[L + 1 + n].amount
    BY <2>2 DEF Paid, Amounts
  <2>6. F[n] = ledger[f[n]].amount
    OBVIOUS
  <2> HIDE DEF F, L, P
  <2> QED BY <2>1, <2>3, <2>4, <2>5, <2>6
<1> DEFINE new == {P + n : n \in 1..m}
           posted == {L + 1 + n : n \in 1..m}
<1>11. {ids[n] : n \in 1..m} = new /\ {places[n] : n \in 1..m} = posted
  OBVIOUS
<1>12. /\ \A n \in 1..m : ids[n] = P + n /\ places[n] = L + 1 + n
       /\ \A n, k \in 1..m : ids[n] = ids[k] => n = k
       /\ \A n, k \in 1..m : places[n] = places[k] => n = k
  BY <1>2
<1>13. \A i \in new : Paid'[i] \in Nat
  <2> HIDE DEF F
  <2> QED BY <1>6, <1>10
<1>14. \A e \in posted : Amounts'[e] \in Nat
  <2> HIDE DEF F
  <2> QED BY <1>6, <1>10
<1>15. IsFiniteSet(new) /\ SumFunctionOnSet(Paid', new) = Total(rows)
  <2>1. \A n \in 1..m : F[n] \in Int /\ Paid'[ids[n]] = F[n]
    BY <1>6, <1>10, <1>12
  <2>2. PICK p : p = Paid'
    OBVIOUS
  <2> HIDE DEF F, ids, new
  <2>3. /\ IsFiniteSet({ids[n] : n \in 1..m})
        /\ SumFunctionOnSet(p, {ids[n] : n \in 1..m}) = SumFunctionOnSet(F, 1..m)
    <3>1. PICK N : N = 1..m
      OBVIOUS
    <3>2. PICK h : h = ids
      OBVIOUS
    <3>3. PICK f1 : f1 = F
      OBVIOUS
    <3>4. IsFiniteSet(N)
      BY <1>2, <3>1
    <3>5. \A x \in N : f1[x] \in Int /\ p[h[x]] = f1[x]
      BY <2>1, <2>2, <3>1, <3>2, <3>3
    <3>6. \A x, y \in N : h[x] = h[y] => x = y
      BY <1>12, <3>1, <3>2
    <3>7. /\ IsFiniteSet({h[x] : x \in N})
          /\ SumFunctionOnSet(p, {h[x] : x \in N}) = SumFunctionOnSet(f1, N)
      BY <3>4, <3>5, <3>6, SumRenamed
    <3> QED BY <3>1, <3>2, <3>3, <3>7
  <2> QED BY <1>8, <1>11, <2>2, <2>3
<1>16. IsFiniteSet(posted) /\ SumFunctionOnSet(Amounts', posted) = Total(rows)
  <2>1. \A n \in 1..m : F[n] \in Int /\ Amounts'[places[n]] = F[n]
    BY <1>6, <1>10, <1>12
  <2>2. PICK p : p = Amounts'
    OBVIOUS
  <2> HIDE DEF F, places, posted
  <2>3. /\ IsFiniteSet({places[n] : n \in 1..m})
        /\ SumFunctionOnSet(p, {places[n] : n \in 1..m}) = SumFunctionOnSet(F, 1..m)
    <3>1. PICK N : N = 1..m
      OBVIOUS
    <3>2. PICK h : h = places
      OBVIOUS
    <3>3. PICK f1 : f1 = F
      OBVIOUS
    <3>4. IsFiniteSet(N)
      BY <1>2, <3>1
    <3>5. \A x \in N : f1[x] \in Int /\ p[h[x]] = f1[x]
      BY <2>1, <2>2, <3>1, <3>2, <3>3
    <3>6. \A x, y \in N : h[x] = h[y] => x = y
      BY <1>12, <3>1, <3>2
    <3>7. /\ IsFiniteSet({h[x] : x \in N})
          /\ SumFunctionOnSet(p, {h[x] : x \in N}) = SumFunctionOnSet(f1, N)
      BY <3>4, <3>5, <3>6, SumRenamed
    <3> QED BY <3>1, <3>2, <3>3, <3>7
  <2> QED BY <1>8, <1>11, <2>2, <2>3
<1> QED BY <1>9, <1>13, <1>14, <1>15, <1>16 DEF rows

\* A conversion raises the opening amount by what its payments take off.
LEMMA ConversionCommitLeft ==
    ASSUME Sound, Left, NEW r \in Attempts, CommitConversion(r), NEW m \in Nat, NEW f,
           ConversionStep(r, m, f)
    PROVE  Left' /\ \A k \in DOMAIN loans : loans'[k].outstanding = loans[k].outstanding
<1> DEFINE rows == attempt[r].seen.rows
           l == attempt[r].request.loan
           L == Len(ledger)
           P == Len(payments)
           new == {P + n : n \in 1..m}
<1>1. TypeOK
  BY DEF Sound
<1>2. /\ P \in Nat /\ DOMAIN payments = 1..P
      /\ DOMAIN payments' = 1..(P + m) /\ DOMAIN loans' = DOMAIN loans
      /\ \A i \in 1..P : payments'[i] = payments[i]
      /\ \A k \in DOMAIN loans \ {l} : loans'[k] = loans[k]
  <2>1. P \in Nat /\ DOMAIN payments = 1..P
    BY <1>1 DEF TypeOK
  <2> QED BY <2>1 DEF ConversionStep
<1>3. l \in DOMAIN loans
  BY ConversionReady
<1>4. /\ loans'[l].opening = loans[l].opening + Total(rows)
      /\ loans'[l].outstanding = loans[l].outstanding
  <2>1. loans'[l] = [loans[l] EXCEPT !.opening = loans[l].opening + Total(rows), !.entry = L + 1]
    BY DEF ConversionStep
  <2>2. loans[l] \in LoanRows
    BY <1>1, <1>3, ElementOf DEF TypeOK
  <2> HIDE DEF l, L, rows
  <2> QED BY <2>1, <2>2 DEF LoanRows
<1>5. \A n \in 1..m : /\ payments'[P + n].loan = l /\ payments'[P + n].of = 0
                      /\ payments'[P + n].status = "posted"
  <2>1. \A n \in 1..m : payments'[P + n] = ConversionOf(attempt[r].request, f[n], L + 1 + n)
    BY DEF ConversionStep
  <2>2. ASSUME NEW n
        PROVE  LET x == ConversionOf(attempt[r].request, f[n], L + 1 + n)
               IN x.loan = l /\ x.of = 0 /\ x.status = "posted"
    BY DEF ConversionOf
  <2> HIDE DEF L, P, l
  <2> QED BY <2>1, <2>2
<1>6. /\ Total(rows) \in Nat /\ IsFiniteSet(new) /\ SumFunctionOnSet(Paid', new) = Total(rows)
      /\ \A i \in new : Paid'[i] \in Nat
  BY ConversionSums
<1>7. /\ new \cap DOMAIN payments = {} /\ DOMAIN payments' = DOMAIN payments \cup new
      /\ \A i \in DOMAIN payments : payments'[i] = payments[i]
  <2>1. ASSUME NEW i \in 1..(P + m), i \notin 1..P PROVE i \in new
    <3>1. i - P \in 1..m /\ i = P + (i - P)
      BY <1>2, <2>1
    <3> QED BY <3>1
  <2> QED BY <1>2, <2>1
<1>8. \A i \in new : /\ payments'[i].loan = l /\ payments'[i].of = 0
                     /\ payments'[i].status = "posted"
  BY <1>5
<1> HIDE DEF new, l, rows, P, L
<1>9. ASSUME NEW k \in DOMAIN loans
      PROVE  loans'[k].outstanding = loans'[k].opening - PaidOff(k)'
  <2>0. loans[k] \in LoanRows
    BY <1>1, ElementOf DEF TypeOK
  <2>1. /\ loans[k].outstanding \in Nat /\ loans[k].opening \in Nat
        /\ loans[k].outstanding = loans[k].opening - PaidOff(k) /\ PaidOff(k) \in Nat
    BY <1>1, <2>0, PaidTyped DEF LoanRows, Left
  <2>2. CASE k # l
    <3>1. PaidWith(k)' = PaidWith(k)
      BY <1>7, <1>8, <2>2 DEF PaidWith
    <3>2. PaidOff(k)' = PaidOff(k)
      BY <1>1, <1>7, <3>1, SamePaid
    <3> QED BY <1>2, <2>1, <2>2, <3>2
  <2>3. CASE k = l
    <3>1. PICK S : S = PaidWith(k)
      OBVIOUS
    <3>2. PaidWith(k)' = S \cup new
      BY <1>7, <1>8, <2>3, <3>1 DEF PaidWith
    <3>3. /\ IsFiniteSet(S) /\ S \subseteq DOMAIN payments
          /\ PaidOff(k) = SumFunctionOnSet(Paid, S)
          /\ \A i \in DOMAIN payments : Paid[i] \in Nat
      BY <1>1, <3>1, PaidTyped
    <3>4. PaidOff(k)' = SumFunctionOnSet(Paid', S \cup new)
      BY <3>2 DEF PaidOff, Paid
    <3>5. \A i \in S : Paid[i] = Paid'[i]
      BY <1>7, <3>3 DEF Paid
    <3>6. PICK p : p = Paid'
      OBVIOUS
    <3>7. SumFunctionOnSet(Paid, S) = SumFunctionOnSet(p, S)
      BY <3>3, <3>5, <3>6, SumSame
    <3>8. SumFunctionOnSet(p, S \cup new) = SumFunctionOnSet(p, S) + SumFunctionOnSet(p, new)
      <4>1. S \cap new = {} /\ \A i \in S \cup new : p[i] \in Int
        BY <1>6, <1>7, <3>3, <3>5, <3>6
      <4> QED BY <1>6, <3>3, <4>1, SumOfUnion
    <3>9. PaidOff(k)' = PaidOff(k) + Total(rows)
      BY <1>6, <3>3, <3>4, <3>6, <3>7, <3>8
    <3> QED BY <1>4, <1>6, <2>1, <2>3, <3>9
  <2> QED BY <2>2, <2>3
<1> QED BY <1>2, <1>4, <1>9 DEF Left

-----------------------------------------------------------------------------
(* The amounts: the ledger.                                                *)

Owed == [l \in DOMAIN loans |-> loans[l].outstanding]

\* What is owed is a natural number.
LEMMA OwedTyped ==
    ASSUME TypeOK
    PROVE  /\ IsFiniteSet(DOMAIN loans)
           /\ \A l \in DOMAIN loans : Owed[l] = loans[l].outstanding /\ Owed[l] \in Nat
           /\ SumFunctionOnSet(Owed, DOMAIN loans) \in Nat
           /\ Balance(LoanAccount) \in Int
<1>1. Len(loans) \in Nat /\ DOMAIN loans = 1..Len(loans)
  BY DEF TypeOK
<1>2. IsFiniteSet(DOMAIN loans)
  BY <1>1, FS_Interval
<1>3. ASSUME NEW l \in DOMAIN loans PROVE Owed[l] = loans[l].outstanding /\ Owed[l] \in Nat
  <2>1. loans[l] \in LoanRows
    BY ElementOf DEF TypeOK
  <2> QED BY <2>1 DEF Owed, LoanRows
<1>4. SumFunctionOnSet(Owed, DOMAIN loans) \in Nat
  BY <1>2, <1>3, SumType
<1>5. Balance(LoanAccount) \in Int
  BY BalanceType DEF TypeOK
<1> QED BY <1>2, <1>3, <1>4, <1>5

\* The opening entry carries the new debt.
LEMMA LoanCommitDebt ==
    ASSUME Sound, LedgerCarriesDebt, NEW r \in Attempts, CommitLoan(r)
    PROVE  LedgerCarriesDebt'
<1> DEFINE q == attempt[r].request
           id == Len(loans) + 1
           row == LoanRow(q, Len(ledger) + 1)
           e == OpeningOf(q, id)
           D == DOMAIN loans
<1>1. TypeOK /\ LedgerTypeOK
  BY DEF Sound, TypeOK
<1>2. /\ At(r, "write") /\ q.op = "loan" /\ loans' = Append(loans, row) /\ Post(e)
  BY DEF CommitLoan
<1>3. attempt[r] \in AttemptRows
  BY <1>1, <1>2, RowTyped DEF At
<1>4. /\ q \in Requests /\ q.amount \in Nat \ {0} /\ q.day \in Nat
      /\ Len(ledger) + 1 \in Nat /\ id \in Nat
  <2>1. Len(ledger) + 1 \in Nat
    BY <1>1, LedgerFinite
  <2>2. id \in Nat
    BY <1>1 DEF TypeOK
  <2>3. q \in Requests
    BY <1>3 DEF AttemptRows
  <2> HIDE DEF q, id
  <2>4. q.amount \in Nat \ {0} /\ q.day \in Days
    BY <1>2, <2>3, RequestsAssumption
  <2> QED BY <2>1, <2>2, <2>3, <2>4, AccountsKnown
<1>5. row \in LoanRows /\ row.outstanding = q.amount
  BY <1>4 DEF LoanRow, LoanRows
<1>6. /\ e \in Entries /\ e.status = "active" /\ e.debit = OpeningAccount
      /\ e.credit = LoanAccount /\ e.amount = q.amount
  BY <1>4, AccountsKnown DEF OpeningOf, EntryOf, Entries, Ref, References
<1> HIDE DEF row, e
<1>7. /\ DOMAIN loans' = D \cup {id} /\ id \notin D
      /\ loans'[id] = row /\ \A l \in D : loans'[l] = loans[l]
  BY <1>1, <1>2, <1>5, Appended DEF TypeOK
<1> HIDE DEF id
<1>8. Balance(LoanAccount)' = Balance(LoanAccount) - q.amount
  <2>1. Balance(LoanAccount)' = Balance(LoanAccount)
            + (IF e.debit = LoanAccount THEN e.amount ELSE 0)
            - (IF e.credit = LoanAccount THEN e.amount ELSE 0)
    BY <1>1, <1>2, <1>6, PostMovesBalance
  <2> QED BY <1>1, <1>4, <1>6, <2>1, AccountsKnown, OwedTyped
<1>9. SumFunctionOnSet(Owed', D \cup {id}) = SumFunctionOnSet(Owed, D) + q.amount
  <2>1. IsFiniteSet(D) /\ \A l \in D : Owed[l] \in Nat /\ Owed'[l] = Owed[l]
    BY <1>1, <1>7, OwedTyped DEF Owed
  <2>2. Owed'[id] = q.amount
    BY <1>5, <1>7 DEF Owed
  <2>3. PICK w : w = Owed'
    OBVIOUS
  <2>4. /\ \A l \in D : Owed[l] \in Int /\ w[l] = Owed[l]
        /\ w[id] \in Int
    BY <1>4, <2>1, <2>2, <2>3
  <2>5. SumFunctionOnSet(w, D \cup {id}) = SumFunctionOnSet(Owed, D) + w[id]
    BY <1>7, <2>1, <2>4, SumGrows
  <2> QED BY <2>2, <2>3, <2>5
<1>10. Balance(LoanAccount) = -SumFunctionOnSet(Owed, D)
  BY DEF LedgerCarriesDebt, Owed
<1>11. LedgerCarriesDebt' <=> Balance(LoanAccount)' = -SumFunctionOnSet(Owed', D \cup {id})
  BY <1>7 DEF LedgerCarriesDebt, Owed
<1>12. SumFunctionOnSet(Owed, D) \in Nat
  BY <1>1, OwedTyped
<1> QED BY <1>4, <1>8, <1>9, <1>10, <1>11, <1>12

\* One loan's outstanding amount and the balance move together.
LEMMA DebtMoves ==
    ASSUME TypeOK, LedgerCarriesDebt, NEW l \in DOMAIN loans, NEW x \in Int,
           DOMAIN loans' = DOMAIN loans,
           \A i \in DOMAIN loans :
               loans'[i].outstanding = loans[i].outstanding + (IF i = l THEN x ELSE 0),
           Balance(LoanAccount)' = Balance(LoanAccount) - x
    PROVE  LedgerCarriesDebt'
<1> DEFINE D == DOMAIN loans
<1>1. IsFiniteSet(D) /\ \A i \in D : Owed[i] = loans[i].outstanding /\ Owed[i] \in Nat
  BY OwedTyped
<1>2. PICK w : w = Owed'
  OBVIOUS
<1>3. \A i \in D : w[i] = loans'[i].outstanding
  BY <1>2 DEF Owed
<1>4. /\ \A i \in D : Owed[i] \in Int
      /\ w[l] \in Int /\ w[l] = Owed[l] + x /\ \A i \in D \ {l} : w[i] = Owed[i]
  BY <1>1, <1>3
<1>5. SumFunctionOnSet(w, D) = SumFunctionOnSet(Owed, D) - Owed[l] + w[l]
  BY <1>1, <1>4, SumUpdate
<1>6. SumFunctionOnSet(Owed, D) \in Nat
  BY OwedTyped
<1>7. Balance(LoanAccount) = -SumFunctionOnSet(Owed, D)
  BY DEF LedgerCarriesDebt, Owed
<1>8. LedgerCarriesDebt' <=> Balance(LoanAccount)' = -SumFunctionOnSet(w, D)
  BY <1>2 DEF LedgerCarriesDebt, Owed
<1> QED BY <1>1, <1>4, <1>5, <1>6, <1>7, <1>8

\* The payment's entry lowers the debt the ledger carries.
LEMMA PaymentCommitDebt ==
    ASSUME Sound, LedgerCarriesDebt, NEW r \in Attempts, CommitPayment(r)
    PROVE  LedgerCarriesDebt'
<1> DEFINE q == attempt[r].request
           l == q.loan
           e == EntryOf(LoanAccount, q.vault, q.amount, q.day,
                        Ref("loan_payment", Len(payments) + 1))
<1>1. TypeOK /\ LedgerTypeOK
  BY DEF Sound, TypeOK
<1>2. /\ l \in DOMAIN loans /\ q.vault \in Vaults /\ q.amount \in Nat \ {0}
      /\ e \in Entries /\ Post(e) /\ DOMAIN loans' = DOMAIN loans
  BY PaymentIs
<1>3. \A i \in DOMAIN loans :
          loans'[i].outstanding = loans[i].outstanding - (IF i = l THEN q.amount ELSE 0)
  BY PaymentIs
<1>4. /\ e.status = "active" /\ e.debit = LoanAccount /\ e.credit = q.vault
      /\ e.amount = q.amount
  BY DEF EntryOf
<1> HIDE DEF e, l
<1>5. Balance(LoanAccount)' = Balance(LoanAccount)
          + (IF e.debit = LoanAccount THEN e.amount ELSE 0)
          - (IF e.credit = LoanAccount THEN e.amount ELSE 0)
  BY <1>1, <1>2, <1>4, PostMovesBalance
<1>6. PICK x \in Int : x = -q.amount
  BY <1>2
<1>7. Balance(LoanAccount)' = Balance(LoanAccount) - x
  BY <1>1, <1>2, <1>4, <1>5, <1>6, AccountsKnown, OwedTyped
<1>8. ASSUME NEW i \in DOMAIN loans
      PROVE  loans'[i].outstanding = loans[i].outstanding + (IF i = l THEN x ELSE 0)
  <2>1. loans[i].outstanding \in Nat
    BY <1>1, OwedTyped
  <2> QED BY <1>2, <1>3, <1>6, <2>1
<1> QED BY <1>1, <1>2, <1>7, <1>8, DebtMoves

\* The reversal's entry raises it again.
LEMMA ReversalCommitDebt ==
    ASSUME Sound, LedgerCarriesDebt, NEW r \in Attempts, CommitReversal(r)
    PROVE  LedgerCarriesDebt'
<1> DEFINE q == attempt[r].request
           l == q.loan
           p == payments[q.payment]
           e == EntryOf(p.vault, LoanAccount, p.amount, q.day,
                        Ref("loan_payment_reversal", Len(payments) + 1))
<1>1. TypeOK /\ LedgerTypeOK
  BY DEF Sound, TypeOK
<1>2. /\ l \in DOMAIN loans /\ p.vault \in Vaults /\ p.amount \in Nat \ {0}
      /\ e \in Entries /\ Post(e) /\ DOMAIN loans' = DOMAIN loans
  BY ReversalIs
<1>3. \A i \in DOMAIN loans :
          loans'[i].outstanding = loans[i].outstanding + (IF i = l THEN p.amount ELSE 0)
  BY ReversalIs
<1>4. /\ e.status = "active" /\ e.debit = p.vault /\ e.credit = LoanAccount
      /\ e.amount = p.amount
  BY DEF EntryOf
<1> HIDE DEF e, l, p
<1>5. Balance(LoanAccount)' = Balance(LoanAccount)
          + (IF e.debit = LoanAccount THEN e.amount ELSE 0)
          - (IF e.credit = LoanAccount THEN e.amount ELSE 0)
  BY <1>1, <1>2, <1>4, PostMovesBalance
<1>6. PICK x \in Int : x = p.amount
  BY <1>2
<1>7. Balance(LoanAccount)' = Balance(LoanAccount) - x
  BY <1>1, <1>2, <1>4, <1>5, <1>6, AccountsKnown, OwedTyped
<1> QED BY <1>1, <1>2, <1>3, <1>6, <1>7, DebtMoves

\* The entries of an invoice are not about the liability account.
LEMMA CancelDebt ==
    ASSUME Sound, LedgerCarriesDebt, NEW i \in Legacy, CancelInvoice(i)
    PROVE  LedgerCarriesDebt'
<1>1. TypeOK /\ LedgerTypeOK /\ InvoicesAgree
  BY DEF Sound, TypeOK, TablesAgree
<1>2. loans' = loans /\ CancelEntries(Ref("invoice", i))
  BY DEF CancelInvoice
<1>3. /\ DOMAIN ledger' = DOMAIN ledger
      /\ \A e \in DOMAIN ledger : ledger'[e] =
            IF ledger[e].ref = Ref("invoice", i) /\ ledger[e].status = "active"
            THEN [ledger[e] EXCEPT !.status = "cancelled"] ELSE ledger[e]
  BY <1>2 DEF CancelEntries
<1>4. ASSUME NEW e \in DOMAIN ledger
      PROVE  /\ ledger'[e].amount = ledger[e].amount
             /\ ledger'[e].debit = ledger[e].debit /\ ledger'[e].credit = ledger[e].credit
             /\ ledger[e].debit = LoanAccount \/ ledger[e].credit = LoanAccount
                   => ledger'[e].status = ledger[e].status
  <2>1. ledger[e] \in Entries
    BY <1>1, LedgerFinite
  <2>2. CASE ledger[e].ref = Ref("invoice", i) /\ ledger[e].status = "active"
    <3>1. ledger[e].ref.type = "invoice"
      BY <2>2 DEF Ref
    <3>2. ledger[e].debit # LoanAccount /\ ledger[e].credit # LoanAccount
      BY <1>1, <3>1, AccountsKnown DEF InvoicesAgree
    <3>3. ledger'[e] = [ledger[e] EXCEPT !.status = "cancelled"]
      BY <1>3, <2>2
    <3> QED BY <2>1, <3>2, <3>3 DEF Entries
  <2>3. CASE ~(ledger[e].ref = Ref("invoice", i) /\ ledger[e].status = "active")
    BY <1>3, <2>3
  <2> QED BY <2>2, <2>3
<1>5. Debits(LoanAccount)' = Debits(LoanAccount) /\ Credits(LoanAccount)' = Credits(LoanAccount)
  BY <1>3, <1>4 DEF Debits, Credits, ActiveEntries
<1>6. Balance(LoanAccount)' = Balance(LoanAccount)
  BY <1>1, <1>3, <1>4, <1>5, SameBalance
<1> QED BY <1>2, <1>6 DEF LedgerCarriesDebt

\* The opening entry grows by what the new payments take off again.
LEMMA ConversionDebt ==
    ASSUME Sound, Left, LedgerCarriesDebt, NEW r \in Attempts, CommitConversion(r),
           NEW m \in Nat, NEW f, ConversionStep(r, m, f)
    PROVE  LedgerCarriesDebt'
<1> DEFINE rows == attempt[r].seen.rows
           l == attempt[r].request.loan
           old == loans[l].entry
           o == loans[l].opening
           L == Len(ledger)
           posted == {L + 1 + n : n \in 1..m}
<1>1. TypeOK /\ LedgerTypeOK /\ InvoicesAgree /\ OpeningsAgree
  BY DEF Sound, TypeOK, TablesAgree
<1>2. l \in DOMAIN loans /\ rows \subseteq Legacy
  BY ConversionReady
<1>3. L \in Nat /\ DOMAIN ledger = 1..L /\ DOMAIN ledger' = 1..(L + 1 + m)
  BY <1>1, LedgerFinite DEF ConversionStep
<1>4. \A e \in DOMAIN ledger :
           /\ e \in DOMAIN ledger'
           /\ ledger'[e].debit = ledger[e].debit
           /\ ledger'[e].credit = ledger[e].credit
           /\ ledger'[e].amount = ledger[e].amount
           /\ ledger'[e].status = IF e \in {old} \cup rows THEN "cancelled" ELSE ledger[e].status
  BY ConversionOldEntries
<1>5. /\ ledger'[L + 1].status = "active" /\ ledger'[L + 1].debit = OpeningAccount
      /\ ledger'[L + 1].credit = LoanAccount /\ ledger'[L + 1].amount = o + Total(rows)
  <2>1. ledger'[L + 1] = EntryOf(OpeningAccount, LoanAccount, o + Total(rows),
                                ledger[old].day, Ref("loan_opening", l))
    BY DEF ConversionStep
  <2> HIDE DEF L, o, l, rows, old
  <2> QED BY <2>1 DEF EntryOf
<1>6. \A e \in posted : /\ ledger'[e].status = "active" /\ ledger'[e].debit = LoanAccount
                        /\ ledger'[e].credit \in Vaults
  <2>1. ASSUME NEW n \in 1..m
        PROVE  LET x == ledger'[L + 1 + n] IN
               x.status = "active" /\ x.debit = LoanAccount /\ x.credit = ledger[f[n]].credit
    <3>1. ledger'[L + 1 + n] = PaymentEntryOf(f[n], Len(payments) + n)
      BY DEF ConversionStep
    <3> HIDE DEF L
    <3> QED BY <3>1 DEF PaymentEntryOf, EntryOf
  <2>2. \A n \in 1..m : f[n] \in rows
    <3>1. f \in Bijection(1..m, rows)
      BY DEF ConversionStep
    <3> HIDE DEF rows
    <3> QED BY <3>1 DEF Bijection, Injection, Surjection
  <2>3. \A n \in 1..m : ledger[f[n]].credit \in Vaults
    BY <1>1, <1>2, <2>2 DEF InvoicesAgree
  <2> QED BY <2>1, <2>3
<1>7. /\ Total(rows) \in Nat
      /\ IsFiniteSet(posted) /\ SumFunctionOnSet(Amounts', posted) = Total(rows)
      /\ \A e \in posted : Amounts'[e] \in Nat
  BY ConversionSums
<1>8. /\ posted \cap DOMAIN ledger = {} /\ L + 1 \notin posted /\ L + 1 \notin DOMAIN ledger
      /\ DOMAIN ledger' = DOMAIN ledger \cup {L + 1} \cup posted
  <2>1. ASSUME NEW e \in 1..(L + 1 + m), e \notin 1..L, e # L + 1 PROVE e \in posted
    <3>1. e - (L + 1) \in 1..m /\ e = L + 1 + (e - (L + 1))
      BY <1>3, <2>1
    <3> QED BY <3>1
  <2>2. \A e \in posted : e \in 1..(L + 1 + m) /\ e \notin 1..L /\ e # L + 1
    BY <1>3
  <2>3. L + 1 \in 1..(L + 1 + m) /\ L + 1 \notin 1..L /\ 1..L \subseteq 1..(L + 1 + m)
    BY <1>3
  <2> HIDE DEF posted
  <2>4. 1..(L + 1 + m) = 1..L \cup {L + 1} \cup posted
    BY <2>1, <2>2, <2>3
  <2> QED BY <1>3, <2>2, <2>3, <2>4
<1>9. /\ old \in DOMAIN ledger /\ ledger[old].status = "active"
      /\ ledger[old].debit = OpeningAccount /\ ledger[old].credit = LoanAccount
      /\ ledger[old].amount = o
  BY <1>1, <1>2 DEF OpeningsAgree
<1>10. \A i \in rows : /\ i \in DOMAIN ledger /\ ledger[i].debit # LoanAccount
                       /\ ledger[i].credit # LoanAccount
  BY <1>1, <1>2, AccountsKnown DEF InvoicesAgree
<1>11. o \in Nat
  <2>1. loans[l] \in LoanRows
    BY <1>1, <1>2, ElementOf DEF TypeOK
  <2> QED BY <2>1 DEF LoanRows
<1> DEFINE n == L + 1
<1> HIDE DEF posted, rows, l, old, o
<1>12. PICK D : D = Debits(LoanAccount)
  OBVIOUS
<1>13. PICK C : C = Credits(LoanAccount)
  OBVIOUS
<1>14. n \notin DOMAIN ledger /\ n \notin posted /\ n \in DOMAIN ledger'
       /\ DOMAIN ledger' = DOMAIN ledger \cup {n} \cup posted
       /\ ledger'[n].status = "active" /\ ledger'[n].debit = OpeningAccount
       /\ ledger'[n].credit = LoanAccount /\ ledger'[n].amount = o + Total(rows)
  BY <1>5, <1>8
<1> HIDE DEF n
<1>15. Debits(LoanAccount)' = D \cup posted
  BY <1>4, <1>6, <1>8, <1>9, <1>10, <1>12, <1>14, AccountsKnown DEF Debits, ActiveEntries
<1>16. Credits(LoanAccount)' = (C \ {old}) \cup {n} /\ old \in C
  BY <1>4, <1>6, <1>8, <1>9, <1>10, <1>13, <1>14, AccountsKnown DEF Credits, ActiveEntries
<1>17. /\ D \subseteq DOMAIN ledger /\ C \subseteq DOMAIN ledger
       /\ IsFiniteSet(D) /\ IsFiniteSet(C)
       /\ \A e \in DOMAIN ledger : Amounts[e] \in Nat /\ Amounts[e] = ledger[e].amount
  <2>1. D \subseteq DOMAIN ledger /\ C \subseteq DOMAIN ledger
    BY <1>12, <1>13 DEF Debits, Credits, ActiveEntries
  <2> QED BY <1>1, <2>1, LedgerFinite, TotalType
<1>18. PICK A : A = Amounts'
  OBVIOUS
<1>19. (\A e \in DOMAIN ledger : A[e] = Amounts[e]) /\ A[n] = o + Total(rows)
  BY <1>4, <1>14, <1>17, <1>18 DEF Amounts
<1>20. SumFunctionOnSet(A, D \cup posted) = SumFunctionOnSet(Amounts, D) + Total(rows)
  <2>1. \A e \in D : Amounts[e] = A[e]
    BY <1>17, <1>19
  <2>2. SumFunctionOnSet(Amounts, D) = SumFunctionOnSet(A, D)
    BY <1>17, <2>1, SumSame
  <2>3. D \cap posted = {} /\ \A e \in D \cup posted : A[e] \in Int
    BY <1>7, <1>8, <1>17, <1>18, <1>19
  <2>4. SumFunctionOnSet(A, D \cup posted) = SumFunctionOnSet(A, D) + SumFunctionOnSet(A, posted)
    BY <1>7, <1>17, <2>3, SumOfUnion
  <2> QED BY <1>7, <1>18, <2>2, <2>4
<1>21. SumFunctionOnSet(A, (C \ {old}) \cup {n}) = SumFunctionOnSet(Amounts, C) + Total(rows)
  <2>1. SumFunctionOnSet(Amounts, C \ {old}) = SumFunctionOnSet(Amounts, C) - Amounts[old]
    <3>1. \A e \in C : Amounts[e] \in Int
      BY <1>17
    <3> QED BY <1>16, <1>17, <3>1, SumShrinks
  <2>2. PICK B : B = C \ {old}
    OBVIOUS
  <2>3. IsFiniteSet(B) /\ B \subseteq DOMAIN ledger
    BY <1>17, <2>2, FS_RemoveElement
  <2>4. /\ \A e \in B : Amounts[e] \in Int /\ A[e] = Amounts[e]
        /\ n \notin B /\ A[n] \in Int
    BY <1>7, <1>11, <1>14, <1>17, <1>19, <2>3
  <2>5. SumFunctionOnSet(A, B \cup {n}) = SumFunctionOnSet(Amounts, B) + A[n]
    BY <2>3, <2>4, SumGrows
  <2>6. Amounts[old] = o
    BY <1>9, <1>17
  <2>7. SumFunctionOnSet(Amounts, C) \in Int
    <3>1. \A e \in C : Amounts[e] \in Int
      BY <1>17
    <3> QED BY <1>17, <3>1, SumType
  <2> QED BY <1>7, <1>11, <1>19, <2>1, <2>2, <2>5, <2>6, <2>7
<1>22. Balance(LoanAccount)' = SumFunctionOnSet(A, D \cup posted)
                                 - SumFunctionOnSet(A, (C \ {old}) \cup {n})
  BY <1>15, <1>16, <1>18 DEF Balance, Total, Debits, Credits
<1>23. Balance(LoanAccount) = SumFunctionOnSet(Amounts, D) - SumFunctionOnSet(Amounts, C)
  BY <1>12, <1>13 DEF Balance, Total, Debits, Credits
<1>24. SumFunctionOnSet(Amounts, D) \in Int /\ SumFunctionOnSet(Amounts, C) \in Int
  <2>1. (\A e \in D : Amounts[e] \in Int) /\ (\A e \in C : Amounts[e] \in Int)
    BY <1>17
  <2> QED BY <1>17, <2>1, SumType
<1>25. Balance(LoanAccount)' = Balance(LoanAccount)
  BY <1>7, <1>20, <1>21, <1>22, <1>23, <1>24
<1>26. /\ DOMAIN loans' = DOMAIN loans
       /\ \A k \in DOMAIN loans : loans'[k].outstanding = loans[k].outstanding
  <2>1. DOMAIN loans' = DOMAIN loans
    BY DEF ConversionStep
  <2> QED BY <2>1, ConversionCommitLeft
<1>27. Owed' = Owed
  BY <1>26 DEF Owed
<1> QED BY <1>25, <1>26, <1>27 DEF LedgerCarriesDebt, Owed

-----------------------------------------------------------------------------
(* What holds of every behaviour.                                          *)

BooksInv == Sound /\ Left /\ LedgerCarriesDebt

\* At the start the ledger carries the debt of the one loan, or none.
LEMMA BooksInit ==
    ASSUME Init
    PROVE  BooksInv
<1>1. Sound /\ TypeOK /\ LedgerTypeOK /\ OpeningsAgree /\ InvoicesAgree /\ payments = <<>>
  BY SoundInit DEF Sound, TypeOK, TablesAgree, Init, LoansInit
<1>2. \A l : PaidOff(l) = 0
  <2>1. \A l : PaidWith(l) = {}
    BY <1>1 DEF PaidWith
  <2> QED BY <1>1, <2>1, PaidTyped, SumEmpty
<1>3. \/ loans = <<>> /\ DOMAIN ledger = Legacy
      \/ /\ DOMAIN loans = {1} /\ loans[1].outstanding = loans[1].opening
         /\ loans[1].opening \in Nat
         /\ DOMAIN ledger = Legacy \cup {loans[1].entry}
  <2> DEFINE posted == [i \in Legacy |->
          EntryOf(ExpenseAccount, LegacyInvoices[i].vault, LegacyInvoices[i].amount,
                  LegacyInvoices[i].day, Ref("invoice", i))]
  <2>1. /\ DOMAIN posted = Legacy
        /\ \/ loans = <<>> /\ ledger = posted
           \/ \E q \in Requests :
                /\ loans = <<LoanRow(q, Len(posted) + 1)>>
                /\ ledger = Append(posted, OpeningOf(q, 1))
    BY DEF Init, LoansInit
  <2>2. PICK N \in Nat : Legacy = 1..N
    BY LoanConstants DEF Legacy
  <2> HIDE DEF posted
  <2>3. CASE loans = <<>> /\ ledger = posted
    BY <2>1, <2>3
  <2>4. ASSUME NEW q \in Requests, loans = <<LoanRow(q, Len(posted) + 1)>>,
               ledger = Append(posted, OpeningOf(q, 1))
        PROVE  /\ DOMAIN loans = {1} /\ loans[1].outstanding = loans[1].opening
               /\ loans[1].opening \in Nat
               /\ DOMAIN ledger = Legacy \cup {loans[1].entry}
    <3>1. DOMAIN loans = {1} /\ loans[1] = LoanRow(q, Len(posted) + 1)
      BY <2>4
    <3>2. loans[1] \in LoanRows
      BY <1>1, <3>1, ElementOf DEF TypeOK
    <3>3. /\ loans[1].outstanding = loans[1].opening /\ loans[1].opening \in Nat
          /\ loans[1].entry = Len(posted) + 1
      BY <3>1, <3>2 DEF LoanRow, LoanRows
    <3>4. Len(ledger) = Len(posted) + 1 /\ DOMAIN ledger = 1..Len(ledger)
      BY <1>1, <2>4, LedgerFinite
    <3>5. loans[1].entry \in DOMAIN ledger /\ Len(ledger) \in Nat
      BY <1>1, <3>1, LedgerFinite DEF OpeningsAgree
    <3>6. Len(posted) = N
      BY <2>1, <2>2, <2>4
    <3> QED BY <2>2, <3>1, <3>3, <3>4, <3>6
  <2> QED BY <2>1, <2>3, <2>4
<1>4. Left
  BY <1>2, <1>3 DEF Left
<1>5. \A i \in Legacy : ledger[i].debit # LoanAccount /\ ledger[i].credit # LoanAccount
  BY <1>1, AccountsKnown DEF InvoicesAgree
<1>6. CASE loans = <<>> /\ DOMAIN ledger = Legacy
  <2>1. Debits(LoanAccount) = {} /\ Credits(LoanAccount) = {}
    BY <1>5, <1>6 DEF Debits, Credits, ActiveEntries
  <2>2. Balance(LoanAccount) = 0
    BY <2>1, SumEmpty DEF Balance, Total, Debits, Credits
  <2>3. DOMAIN loans = {}
    BY <1>6
  <2> QED BY <1>1, <1>4, <2>2, <2>3, SumEmpty DEF BooksInv, LedgerCarriesDebt
<1>7. CASE /\ DOMAIN loans = {1} /\ loans[1].outstanding = loans[1].opening
           /\ loans[1].opening \in Nat
           /\ DOMAIN ledger = Legacy \cup {loans[1].entry}
  <2> DEFINE n == loans[1].entry
             o == loans[1].opening
  <2>1. /\ n \in DOMAIN ledger /\ ledger[n].status = "active"
        /\ ledger[n].debit = OpeningAccount /\ ledger[n].credit = LoanAccount
        /\ ledger[n].amount = o
    BY <1>1, <1>7 DEF OpeningsAgree
  <2>2. Debits(LoanAccount) = {} /\ Credits(LoanAccount) = {n}
    BY <1>5, <1>7, <2>1, AccountsKnown DEF Debits, Credits, ActiveEntries
  <2>3. Amounts[n] = o
    BY <2>1 DEF Amounts
  <2>4. SumFunctionOnSet(Amounts, {n}) = o
    BY <1>7, <2>3, SumSingle
  <2>5. Balance(LoanAccount) = -o
    <3>1. /\ SumFunctionOnSet(Amounts, Debits(LoanAccount)) = 0
          /\ SumFunctionOnSet(Amounts, Credits(LoanAccount)) = o
      BY <2>2, <2>4, SumEmpty
    <3>2. Balance(LoanAccount) = SumFunctionOnSet(Amounts, Debits(LoanAccount))
                                   - SumFunctionOnSet(Amounts, Credits(LoanAccount))
      BY DEF Balance, Total, Debits, Credits
    <3> QED BY <1>7, <3>1, <3>2
  <2>6. Owed[1] = o
    BY <1>7 DEF Owed
  <2>7. SumFunctionOnSet(Owed, {1}) = o
    BY <1>7, <2>6, SumSingle
  <2> QED BY <1>1, <1>4, <1>7, <2>5, <2>7 DEF BooksInv, LedgerCarriesDebt, Owed
<1> QED BY <1>3, <1>6, <1>7

\* Every step keeps the amounts.
LEMMA BooksStep ==
    ASSUME BooksInv, [Next]_vars
    PROVE  BooksInv'
<1>1. Sound /\ Left /\ LedgerCarriesDebt
  BY DEF BooksInv
<1>2. Sound'
  BY <1>1, SoundStep
<1>3. ASSUME UNCHANGED <<loans, payments>> PROVE Left'
  BY <1>1, <1>3 DEF Left, PaidOff, PaidWith
<1>4. ASSUME UNCHANGED <<loans, ledger>> PROVE LedgerCarriesDebt'
  <2>1. Balance(LoanAccount)' = Balance(LoanAccount)
    BY <1>4 DEF Balance, Total, Amounts, ActiveEntries
  <2> QED BY <1>1, <1>4, <2>1 DEF LedgerCarriesDebt
<1>5. CASE UNCHANGED <<loans, payments, invoice, attempt, ledger>>
  BY <1>2, <1>3, <1>4, <1>5 DEF BooksInv
<1>6. ASSUME NEW i \in Legacy, CancelInvoice(i) PROVE BooksInv'
  <2>1. UNCHANGED <<loans, payments>>
    BY <1>6 DEF CancelInvoice
  <2> QED BY <1>1, <1>2, <1>3, <1>6, <2>1, CancelDebt DEF BooksInv
<1>7. ASSUME NEW r \in Attempts, ReadSteps(r) \/ \E q \in Requests : Submit(r, q)
      PROVE  BooksInv'
  <2>1. Unwritten
    BY <1>1, <1>7, ReadSound DEF Submit
  <2>2. UNCHANGED <<loans, payments, ledger>>
    BY <2>1 DEF Unwritten, loanVars
  <2> QED BY <1>2, <1>3, <1>4, <2>2 DEF BooksInv
<1>8. ASSUME NEW r \in Attempts, CommitLoan(r) PROVE BooksInv'
  BY <1>1, <1>2, <1>8, LoanCommitLeft, LoanCommitDebt DEF BooksInv
<1>9. ASSUME NEW r \in Attempts, CommitPayment(r) PROVE BooksInv'
  BY <1>1, <1>2, <1>9, PaymentCommitLeft, PaymentCommitDebt DEF BooksInv
<1>10. ASSUME NEW r \in Attempts, CommitReversal(r) PROVE BooksInv'
  BY <1>1, <1>2, <1>10, ReversalCommitLeft, ReversalCommitDebt DEF BooksInv
<1>11. ASSUME NEW r \in Attempts, CommitLinks(r) PROVE BooksInv'
  <2>1. UNCHANGED <<loans, payments, ledger>>
    BY <1>11 DEF CommitLinks
  <2> QED BY <1>2, <1>3, <1>4, <2>1 DEF BooksInv
<1>12. ASSUME NEW r \in Attempts, CommitConversion(r) PROVE BooksInv'
  <2>1. PICK m \in Nat : \E f : ConversionStep(r, m, f)
    BY <1>1, <1>12, ConversionIs
  <2>2. PICK f : ConversionStep(r, m, f)
    BY <2>1
  <2> QED BY <1>1, <1>2, <1>12, <2>2, ConversionCommitLeft, ConversionDebt DEF BooksInv
<1> QED BY <1>5, <1>6, <1>7, <1>8, <1>9, <1>10, <1>11, <1>12, StepCases

\* The inductive invariant of the loans, with every amount.
THEOREM BooksHolds == Spec => []BooksInv
<1>1. Init => BooksInv
  BY BooksInit
<1>2. BooksInv /\ [Next]_vars => BooksInv'
  BY BooksStep
<1> QED BY <1>1, <1>2, PTL DEF Spec

\* The tables and the requests keep their types whatever the clients send.
THEOREM LoanTypesHold == Spec => []TypeOK
<1>1. BooksInv => TypeOK
  BY DEF BooksInv, Sound
<1> QED BY <1>1, BooksHolds, PTL

\* No payment is recorded twice, whether two requests carry one key, two
\* reverse one payment or two conversions read the same invoices.
THEOREM PaymentsRecordedOnceHolds == Spec => []PaymentsRecordedOnce
<1>1. BooksInv => PaymentsRecordedOnce
  BY DEF BooksInv, Sound
<1> QED BY <1>1, BooksHolds, PTL

\* A loan has one active opening entry, the one its row names, for the
\* row's opening amount: no two conversions replace the same one.
THEOREM OneOpeningEntryHolds == Spec => []OneOpeningEntry
<1>1. ASSUME BooksInv PROVE OneOpeningEntry
  <2>1. OpeningsAgree
    BY <1>1 DEF BooksInv, Sound, TablesAgree
  <2>2. ASSUME NEW l \in DOMAIN loans, NEW e \in EntriesOf(Ref("loan_opening", l)) \cap ActiveEntries
        PROVE  e = loans[l].entry
    <3>1. /\ e \in DOMAIN ledger /\ ledger[e].status = "active"
          /\ ledger[e].ref = Ref("loan_opening", l)
      BY <2>2 DEF EntriesOf, ActiveEntries
    <3>2. ledger[e].ref.type = "loan_opening" /\ ledger[e].ref.id = l
      BY <3>1 DEF Ref
    <3> QED BY <2>1, <3>1, <3>2 DEF OpeningsAgree
  <2>3. \A l \in DOMAIN loans :
            /\ loans[l].entry \in EntriesOf(Ref("loan_opening", l)) \cap ActiveEntries
            /\ ledger[loans[l].entry].amount = loans[l].opening
    BY <2>1 DEF OpeningsAgree, EntriesOf, ActiveEntries
  <2> QED BY <2>2, <2>3 DEF OneOpeningEntry
<1> QED BY <1>1, BooksHolds, PTL

\* What is left of a loan is its opening amount less the payments that
\* stand, and never negative.
THEOREM OutstandingHolds == Spec => []OutstandingIsOpeningLessPaid
<1>1. ASSUME BooksInv PROVE OutstandingIsOpeningLessPaid
  <2>1. TypeOK /\ Left
    BY <1>1 DEF BooksInv, Sound
  <2>2. \A l \in DOMAIN loans : loans[l].outstanding \in Nat
    BY <2>1, OwedTyped
  <2> QED BY <2>1, <2>2 DEF Left, OutstandingIsOpeningLessPaid
<1> QED BY <1>1, BooksHolds, PTL

\* The liability account's credit balance is the outstanding amounts of all
\* the loans together.
THEOREM LedgerCarriesDebtHolds == Spec => []LedgerCarriesDebt
<1>1. BooksInv => LedgerCarriesDebt
  BY DEF BooksInv
<1> QED BY <1>1, BooksHolds, PTL

-----------------------------------------------------------------------------
(* What a conversion leaves in the vaults.                                 *)

\* A sum in which some terms give their place to others of the same amount.
Swapped(a, b, C, R, h) ==
    /\ IsFiniteSet(C) /\ R \subseteq C
    /\ \A e \in C : a[e] \in Int /\ (e \in R \/ b[e] = a[e])
    /\ \A e \in R : b[h[e]] = a[e] /\ h[e] \notin C
    /\ \A e, d \in R : h[e] = h[d] => e = d

LEMMA SumSwapped ==
    ASSUME NEW a, NEW b, NEW C, NEW R, NEW h, Swapped(a, b, C, R, h)
    PROVE  SumFunctionOnSet(b, (C \ R) \cup {h[e] : e \in R}) = SumFunctionOnSet(a, C)
<1> DEFINE N == {h[e] : e \in R}
           K == C \ R
<1>1. /\ IsFiniteSet(C) /\ R \subseteq C
      /\ \A e \in C : a[e] \in Int /\ (e \in R \/ b[e] = a[e])
      /\ \A e \in R : b[h[e]] = a[e] /\ h[e] \notin C
      /\ \A e, d \in R : h[e] = h[d] => e = d
  BY DEF Swapped
<1>2. IsFiniteSet(R) /\ IsFiniteSet(K)
  BY <1>1, FS_Subset
<1>3. \A e \in R : a[e] \in Int /\ b[h[e]] = a[e]
  BY <1>1
<1>4. IsFiniteSet(N) /\ SumFunctionOnSet(b, N) = SumFunctionOnSet(a, R)
  BY <1>1, <1>2, <1>3, SumRenamed
<1>5. SumFunctionOnSet(a, K) = SumFunctionOnSet(b, K)
  <2>1. \A e \in K : a[e] = b[e]
    BY <1>1
  <2> HIDE DEF K
  <2> QED BY <1>2, <2>1, SumSame
<1>6. K \cap N = {} /\ \A e \in K \cup N : b[e] \in Int
  BY <1>1, <1>3
<1>7. K \cap R = {} /\ K \cup R = C /\ \A e \in K \cup R : a[e] \in Int
  BY <1>1
<1> HIDE DEF K, N
<1>8. SumFunctionOnSet(b, K \cup N) = SumFunctionOnSet(b, K) + SumFunctionOnSet(b, N)
  BY <1>2, <1>4, <1>6, SumOfUnion
<1>9. SumFunctionOnSet(a, K \cup R) = SumFunctionOnSet(a, K) + SumFunctionOnSet(a, R)
  BY <1>2, <1>7, SumOfUnion
<1>10. SumFunctionOnSet(b, K \cup N) = SumFunctionOnSet(a, C)
  BY <1>4, <1>5, <1>7, <1>8, <1>9
<1> QED BY <1>10 DEF K, N

\* An invoice that stands has its entry.
StandingPosted == \A i \in Legacy : invoice[i].status = "active" => ledger[i].status = "active"

\* What a conversion takes from a vault's credits it puts back.
LEMMA ConversionVault ==
    ASSUME Sound, StandingPosted, NEW r \in Attempts, CommitConversion(r),
           \A i \in attempt[r].seen.rows : invoice[i].status = "active",
           NEW m \in Nat, NEW f, ConversionStep(r, m, f), NEW v \in Vaults
    PROVE  Balance(v)' = Balance(v)
<1> DEFINE rows == attempt[r].seen.rows
           l == attempt[r].request.loan
           old == loans[l].entry
           L == Len(ledger)
           R == {i \in rows : ledger[i].credit = v}
           h == [i \in rows |-> L + 1 + (CHOOSE n \in 1..m : f[n] = i)]
<1>1. TypeOK /\ LedgerTypeOK /\ InvoicesAgree /\ OpeningsAgree
  BY DEF Sound, TypeOK, TablesAgree
<1>2. l \in DOMAIN loans /\ rows \subseteq Legacy
  BY ConversionReady
<1>3. L \in Nat /\ DOMAIN ledger = 1..L /\ DOMAIN ledger' = 1..(L + 1 + m)
  BY <1>1, LedgerFinite DEF ConversionStep
<1>4. \A e \in DOMAIN ledger :
           /\ e \in DOMAIN ledger'
           /\ ledger'[e].debit = ledger[e].debit
           /\ ledger'[e].credit = ledger[e].credit
           /\ ledger'[e].amount = ledger[e].amount
           /\ ledger'[e].status = IF e \in {old} \cup rows THEN "cancelled" ELSE ledger[e].status
  BY ConversionOldEntries
<1>5. /\ ledger'[L + 1].debit = OpeningAccount /\ ledger'[L + 1].credit = LoanAccount
      /\ \A n \in 1..m : LET x == ledger'[L + 1 + n] IN
            /\ x.status = "active" /\ x.debit = LoanAccount
            /\ x.credit = ledger[f[n]].credit /\ x.amount = ledger[f[n]].amount
      /\ \A n \in 1..m : f[n] \in rows
      /\ \A i \in rows : \E n \in 1..m : f[n] = i
      /\ \A n, k \in 1..m : f[n] = f[k] => n = k
      /\ \A e \in DOMAIN ledger' : e \notin DOMAIN ledger /\ e # L + 1
            => \E n \in 1..m : e = L + 1 + n
  <2>1. ledger'[L + 1].debit = OpeningAccount /\ ledger'[L + 1].credit = LoanAccount
    BY ConversionEntries
  <2>2. \A n \in 1..m : LET x == ledger'[L + 1 + n] IN
            /\ x.status = "active" /\ x.debit = LoanAccount
            /\ x.credit = ledger[f[n]].credit /\ x.amount = ledger[f[n]].amount
    BY ConversionEntries
  <2>3. /\ \A n \in 1..m : f[n] \in rows
        /\ \A i \in rows : \E n \in 1..m : f[n] = i
        /\ \A n, k \in 1..m : f[n] = f[k] => n = k
    BY ConversionEntries
  <2>4. ASSUME NEW e \in DOMAIN ledger', e \notin DOMAIN ledger, e # L + 1
        PROVE  \E n \in 1..m : e = L + 1 + n
    <3>1. e - (L + 1) \in 1..m /\ e = L + 1 + (e - (L + 1))
      BY <1>3, <2>4
    <3> QED BY <3>1
  <2> QED BY <2>1, <2>2, <2>3, <2>4
<1>6. /\ \A i \in rows : \E n \in 1..m : f[n] = i /\ h[i] = L + 1 + n
      /\ \A n \in 1..m : h[f[n]] = L + 1 + n
  <2>1. \A i \in rows : \E n \in 1..m : n = (CHOOSE k \in 1..m : f[k] = i) /\ f[n] = i
    BY <1>5
  <2>2. \A i \in rows : \E n \in 1..m : f[n] = i /\ h[i] = L + 1 + n
    BY <2>1
  <2> HIDE DEF h, L, rows
  <2> QED BY <1>5, <2>2
<1>7. /\ old \in DOMAIN ledger /\ ledger[old].debit = OpeningAccount
      /\ ledger[old].credit = LoanAccount
      /\ \A i \in rows : i \in DOMAIN ledger /\ ledger[i].debit = ExpenseAccount
                           /\ ledger[i].status = "active"
  BY <1>1, <1>2 DEF OpeningsAgree, InvoicesAgree, StandingPosted
<1>8. /\ v # OpeningAccount /\ v # LoanAccount /\ v # ExpenseAccount
  BY AccountsKnown
<1>9. /\ L + 1 \notin DOMAIN ledger /\ \A n \in 1..m : L + 1 + n \notin DOMAIN ledger
      /\ \A n \in 1..m : L + 1 + n \in DOMAIN ledger'
      /\ \A n, k \in 1..m : L + 1 + n = L + 1 + k => n = k
  BY <1>3
<1> HIDE DEF rows, l, old, h, L
<1>10. PICK D : D = Debits(v)
  OBVIOUS
<1>11. PICK C : C = Credits(v)
  OBVIOUS
<1>12. Debits(v)' = D
  <2>1. ASSUME NEW e \in Debits(v)' PROVE e \in D
    <3>1. e \in DOMAIN ledger' /\ ledger'[e].status = "active" /\ ledger'[e].debit = v
      BY <2>1 DEF Debits, ActiveEntries
    <3>2. e \in DOMAIN ledger
      BY <1>5, <1>8, <3>1
    <3> QED BY <1>4, <1>10, <3>1, <3>2 DEF Debits, ActiveEntries
  <2>2. ASSUME NEW e \in D PROVE e \in Debits(v)'
    <3>1. e \in DOMAIN ledger /\ ledger[e].status = "active" /\ ledger[e].debit = v
      BY <1>10, <2>2 DEF Debits, ActiveEntries
    <3>2. e # old /\ e \notin rows
      BY <1>7, <1>8, <3>1
    <3> QED BY <1>4, <3>1, <3>2 DEF Debits, ActiveEntries
  <2> QED BY <2>1, <2>2
<1>13. Credits(v)' = (C \ R) \cup {h[e] : e \in R}
  <2>1. ASSUME NEW e \in Credits(v)' PROVE e \in (C \ R) \cup {h[i] : i \in R}
    <3>1. e \in DOMAIN ledger' /\ ledger'[e].status = "active" /\ ledger'[e].credit = v
      BY <2>1 DEF Credits, ActiveEntries
    <3>2. CASE e \in DOMAIN ledger
      <4>1. ledger[e].credit = v /\ ledger[e].status = "active" /\ e \notin rows
        BY <1>4, <3>1, <3>2
      <4> QED BY <1>11, <3>2, <4>1 DEF Credits, ActiveEntries
    <3>3. CASE e \notin DOMAIN ledger
      <4>1. PICK n \in 1..m : e = L + 1 + n
        BY <1>5, <1>8, <3>1, <3>3
      <4>2. f[n] \in R /\ h[f[n]] = e
        BY <1>5, <1>6, <3>1, <4>1
      <4> QED BY <4>2
    <3> QED BY <3>2, <3>3
  <2>2. ASSUME NEW e \in C \ R PROVE e \in Credits(v)'
    <3>1. e \in DOMAIN ledger /\ ledger[e].status = "active" /\ ledger[e].credit = v
      BY <1>11, <2>2 DEF Credits, ActiveEntries
    <3>2. e # old /\ e \notin rows
      BY <1>7, <1>8, <2>2, <3>1
    <3> QED BY <1>4, <3>1, <3>2 DEF Credits, ActiveEntries
  <2>3. ASSUME NEW i \in R PROVE h[i] \in Credits(v)'
    <3>1. i \in rows /\ ledger[i].credit = v
      OBVIOUS
    <3>2. PICK n \in 1..m : f[n] = i /\ h[i] = L + 1 + n
      BY <1>6, <3>1
    <3>3. h[i] \in DOMAIN ledger' /\ ledger'[h[i]].status = "active" /\ ledger'[h[i]].credit = v
      BY <1>5, <1>9, <3>1, <3>2
    <3> QED BY <3>3 DEF Credits, ActiveEntries
  <2> HIDE DEF R
  <2> QED BY <2>1, <2>2, <2>3
<1>14. /\ D \subseteq DOMAIN ledger /\ C \subseteq DOMAIN ledger
       /\ IsFiniteSet(D) /\ IsFiniteSet(C)
       /\ \A e \in DOMAIN ledger : Amounts[e] \in Nat /\ Amounts[e] = ledger[e].amount
  <2>1. D \subseteq DOMAIN ledger /\ C \subseteq DOMAIN ledger
    BY <1>10, <1>11 DEF Debits, Credits, ActiveEntries
  <2> QED BY <1>1, <2>1, LedgerFinite, TotalType
<1>15. PICK A : A = Amounts'
  OBVIOUS
<1>16. /\ \A e \in DOMAIN ledger : A[e] = Amounts[e]
       /\ \A n \in 1..m : A[L + 1 + n] = ledger[f[n]].amount
  BY <1>4, <1>5, <1>9, <1>14, <1>15 DEF Amounts
<1>17. Swapped(Amounts, A, C, R, h)
  <2>1. R \subseteq C
    BY <1>7, <1>11 DEF Credits, ActiveEntries
  <2>2. \A e \in C : Amounts[e] \in Int /\ A[e] = Amounts[e]
    BY <1>14, <1>16
  <2>3. ASSUME NEW e \in R PROVE A[h[e]] = Amounts[e] /\ h[e] \notin C
    <3>1. e \in rows /\ e \in DOMAIN ledger
      BY <1>7
    <3>2. PICK n \in 1..m : f[n] = e /\ h[e] = L + 1 + n
      BY <1>6, <3>1
    <3> QED BY <1>9, <1>14, <1>16, <3>1, <3>2
  <2>4. ASSUME NEW e \in R, NEW d \in R, h[e] = h[d] PROVE e = d
    <3>1. PICK n \in 1..m : f[n] = e /\ h[e] = L + 1 + n
      BY <1>6
    <3>2. PICK k \in 1..m : f[k] = d /\ h[d] = L + 1 + k
      BY <1>6
    <3> QED BY <1>9, <2>4, <3>1, <3>2
  <2> HIDE DEF R
  <2> QED BY <1>14, <2>1, <2>2, <2>3, <2>4 DEF Swapped
<1>18. SumFunctionOnSet(A, Credits(v)') = SumFunctionOnSet(Amounts, C)
  <2> HIDE DEF R
  <2> QED BY <1>13, <1>17, SumSwapped
<1>19. SumFunctionOnSet(A, Debits(v)') = SumFunctionOnSet(Amounts, D)
  <2>1. \A e \in D : Amounts[e] = A[e]
    BY <1>14, <1>16
  <2> QED BY <1>12, <1>14, <2>1, SumSame
<1>20. Balance(v)' = SumFunctionOnSet(A, Debits(v)') - SumFunctionOnSet(A, Credits(v)')
  BY <1>15 DEF Balance, Total, Debits, Credits
<1>21. Balance(v) = SumFunctionOnSet(Amounts, D) - SumFunctionOnSet(Amounts, C)
  BY <1>10, <1>11 DEF Balance, Total, Debits, Credits
<1> QED BY <1>18, <1>19, <1>20, <1>21

\* A step that appends to the ledger takes no entry from an invoice.
LEMMA PostStands ==
    ASSUME Sound, StandingPosted, NEW e \in Entries, Post(e), invoice' = invoice
    PROVE  StandingPosted'
<1>1. ledger \in Seq(Entries) /\ \A i \in Legacy : i \in DOMAIN ledger
  BY DEF Sound, TypeOK, TablesAgree, InvoicesAgree, LedgerTypeOK
<1>2. \A i \in DOMAIN ledger : ledger'[i] = ledger[i]
  BY <1>1, Appended DEF Post
<1> QED BY <1>1, <1>2 DEF StandingPosted

\* Every step leaves the entries of the invoices that stand.
LEMMA StandingStep ==
    ASSUME Sound, StandingPosted, [Next]_vars
    PROVE  StandingPosted'
<1>1. CASE UNCHANGED <<loans, payments, invoice, attempt, ledger>>
  BY <1>1 DEF StandingPosted
<1>2. ASSUME NEW i \in Legacy, CancelInvoice(i) PROVE StandingPosted'
  <2>1. /\ invoice' = [invoice EXCEPT ![i].status = "cancelled"]
        /\ CancelEntries(Ref("invoice", i))
    BY <1>2 DEF CancelInvoice
  <2>2. \A k \in Legacy : k \in DOMAIN ledger /\ ledger[k].ref = Ref("invoice", k)
                            /\ k \in DOMAIN invoice
    BY DEF Sound, TypeOK, TablesAgree, InvoicesAgree
  <2>3. ASSUME NEW k \in Legacy, invoice'[k].status = "active" PROVE ledger'[k].status = "active"
    <3>1. k # i /\ invoice[k].status = "active"
      BY <2>1, <2>2, <2>3
    <3>2. ledger[k].ref # Ref("invoice", i)
      <4>1. Ref("invoice", k).id = k /\ Ref("invoice", i).id = i
        BY DEF Ref
      <4> QED BY <2>2, <3>1, <4>1
    <3>3. ledger'[k] = ledger[k]
      BY <2>1, <2>2, <3>2 DEF CancelEntries
    <3> QED BY <3>1, <3>3 DEF StandingPosted
  <2> QED BY <2>3 DEF StandingPosted
<1>3. ASSUME NEW r \in Attempts, ReadSteps(r) \/ \E q \in Requests : Submit(r, q)
      PROVE  StandingPosted'
  <2>1. Unwritten
    BY <1>3, ReadSound DEF Submit
  <2> QED BY <2>1 DEF Unwritten, loanVars, StandingPosted
<1>4. ASSUME NEW r \in Attempts, CommitLoan(r) PROVE StandingPosted'
  <2>1. PICK e : /\ e = OpeningOf(attempt[r].request, Len(loans) + 1)
                 /\ Post(e) /\ invoice' = invoice
    BY <1>4 DEF CommitLoan
  <2>2. attempt[r] \in AttemptRows
    BY <1>4, RowTyped DEF Sound, CommitLoan, At
  <2>3. attempt[r].request.op = "loan" /\ Len(loans) + 1 \in Nat
    BY <1>4 DEF CommitLoan, Sound, TypeOK
  <2>4. e \in Entries
    BY <2>1, <2>2, <2>3, AccountsKnown, RequestsAssumption
       DEF AttemptRows, OpeningOf, EntryOf, Ref, Entries, References
  <2> QED BY <2>1, <2>4, PostStands
<1>5. ASSUME NEW r \in Attempts, CommitPayment(r) PROVE StandingPosted'
  <2>1. PICK e \in Entries : Post(e)
    BY <1>5, PaymentIs
  <2> QED BY <1>5, <2>1, PostStands DEF CommitPayment
<1>6. ASSUME NEW r \in Attempts, CommitReversal(r) PROVE StandingPosted'
  <2>1. PICK e \in Entries : Post(e)
    BY <1>6, ReversalIs
  <2> QED BY <1>6, <2>1, PostStands DEF CommitReversal
<1>7. ASSUME NEW r \in Attempts, CommitLinks(r) PROVE StandingPosted'
  <2>1. ledger' = ledger /\ \A i \in Legacy : invoice'[i].status = invoice[i].status
    <3>1. ledger' = ledger /\ DOMAIN invoice = Legacy
      BY <1>7 DEF CommitLinks, Sound, TypeOK
    <3>2. \A i \in Legacy : invoice[i] \in [status : {"active", "cancelled"}, loan : Nat,
                                            converted : BOOLEAN]
      BY DEF Sound, TypeOK
    <3> QED BY <1>7, <3>1, <3>2 DEF CommitLinks
  <2> QED BY <2>1 DEF StandingPosted
<1>8. ASSUME NEW r \in Attempts, CommitConversion(r) PROVE StandingPosted'
  <2>1. PICK m \in Nat : \E f : ConversionStep(r, m, f)
    BY <1>8, ConversionIs
  <2>2. PICK f : ConversionStep(r, m, f)
    BY <2>1
  <2> DEFINE rows == attempt[r].seen.rows
             old == loans[attempt[r].request.loan].entry
  <2>3. \A e \in DOMAIN ledger : ledger'[e].status =
             IF e \in {old} \cup rows THEN "cancelled" ELSE ledger[e].status
    BY <2>2, ConversionOldEntries
  <2>4. \A k \in Legacy : invoice'[k] =
             IF k \in rows THEN [invoice[k] EXCEPT !.status = "cancelled", !.converted = TRUE]
             ELSE invoice[k]
    BY <2>2 DEF ConversionStep
  <2>5. \A k \in Legacy : /\ k \in DOMAIN ledger /\ ledger[k].ref.type = "invoice"
                          /\ invoice[k] \in [status : {"active", "cancelled"}, loan : Nat,
                                             converted : BOOLEAN]
    <3>1. \A k \in Legacy : k \in DOMAIN ledger /\ ledger[k].ref = Ref("invoice", k)
      BY DEF Sound, TablesAgree, InvoicesAgree
    <3>2. \A k : Ref("invoice", k).type = "invoice"
      BY DEF Ref
    <3>3. \A k \in Legacy : invoice[k] \in [status : {"active", "cancelled"}, loan : Nat,
                                            converted : BOOLEAN]
      BY DEF Sound, TypeOK
    <3> QED BY <3>1, <3>2, <3>3
  <2>6. ledger[old].ref.type = "loan_opening"
    <3>1. attempt[r].request.loan \in DOMAIN loans
      BY <1>8, ConversionReady
    <3>2. ledger[old].ref = Ref("loan_opening", attempt[r].request.loan)
      BY <3>1 DEF Sound, TablesAgree, OpeningsAgree
    <3> QED BY <3>2 DEF Ref
  <2>7. ASSUME NEW k \in Legacy, invoice'[k].status = "active" PROVE ledger'[k].status = "active"
    <3>1. k \notin rows
      BY <2>4, <2>5, <2>7
    <3> QED BY <2>3, <2>4, <2>5, <2>6, <2>7, <3>1 DEF StandingPosted
  <2> QED BY <2>7 DEF StandingPosted
<1> QED BY <1>1, <1>2, <1>3, <1>4, <1>5, <1>6, <1>7, <1>8, StepCases

\* Turning invoices into payments moves no money: unless an invoice was
\* cancelled after the conversion had read it, the balance of every vault and
\* the outstanding amount of every loan stay.
THEOREM ConversionMovesNoMoneyHolds == Spec => ConversionMovesNoMoney
<1>1. Init => StandingPosted
  <2>1. ASSUME LoansInit PROVE StandingPosted
    <3>1. \A i \in Legacy : i \in DOMAIN ledger /\ ledger[i].status = "active"
      <4> DEFINE posted == [i \in Legacy |->
            EntryOf(ExpenseAccount, LegacyInvoices[i].vault, LegacyInvoices[i].amount,
                    LegacyInvoices[i].day, Ref("invoice", i))]
      <4>1. Len(LegacyInvoices) \in Nat /\ Legacy = 1..Len(LegacyInvoices)
        BY LoanConstants DEF Legacy
      <4>2. /\ DOMAIN posted = Legacy /\ Len(posted) = Len(LegacyInvoices)
            /\ \A i \in Legacy : posted[i].status = "active"
        BY <4>1 DEF EntryOf
      <4>3. ledger = posted \/ \E e : ledger = Append(posted, e)
        BY <2>1 DEF LoansInit
      <4> HIDE DEF posted
      <4>4. CASE ledger = posted
        BY <4>2, <4>4
      <4>5. CASE \E e : ledger = Append(posted, e)
        <5>1. PICK e : ledger = Append(posted, e)
          BY <4>5
        <5> QED BY <4>1, <4>2, <5>1
      <4> QED BY <4>3, <4>4, <4>5
    <3> QED BY <3>1 DEF StandingPosted
  <2> QED BY <2>1 DEF Init
<1>2. BooksInv /\ StandingPosted /\ [Next]_vars => StandingPosted'
  BY StandingStep DEF BooksInv
<1>3. ASSUME BooksInv, StandingPosted, [Next]_vars
      PROVE  [\A r \in Attempts :
                 /\ CommitConversion(r)
                 /\ \A i \in attempt[r].seen.rows : invoice[i].status = "active"
                 => /\ \A v \in Vaults : Balance(v)' = Balance(v)
                    /\ \A l \in DOMAIN loans : loans'[l].outstanding = loans[l].outstanding]_vars
  <2>1. Sound /\ Left
    BY <1>3 DEF BooksInv
  <2>2. ASSUME NEW r \in Attempts, CommitConversion(r),
               \A i \in attempt[r].seen.rows : invoice[i].status = "active"
        PROVE  /\ \A v \in Vaults : Balance(v)' = Balance(v)
               /\ \A l \in DOMAIN loans : loans'[l].outstanding = loans[l].outstanding
    <3>1. PICK m \in Nat : \E f : ConversionStep(r, m, f)
      BY <2>1, <2>2, ConversionIs
    <3>2. PICK f : ConversionStep(r, m, f)
      BY <3>1
    <3>3. \A v \in Vaults : Balance(v)' = Balance(v)
      BY <1>3, <2>1, <2>2, <3>2, ConversionVault
    <3>4. \A l \in DOMAIN loans : loans'[l].outstanding = loans[l].outstanding
      BY <2>1, <2>2, <3>2, ConversionCommitLeft
    <3> QED BY <3>3, <3>4
  <2> QED BY <2>2
<1> QED BY <1>1, <1>2, <1>3, BooksHolds, PTL DEF Spec, ConversionMovesNoMoney

=============================================================================
