--------------------------- MODULE IdempotencyProofs ---------------------------
(***************************************************************************)
(* withIdempotency keeps its promises for any number of processes, calls,  *)
(* keys and losses: one execution in flight per process and key, answers   *)
(* that were committed under the key, and no second execution as long as   *)
(* nothing is lost.                                                        *)
(***************************************************************************)
EXTENDS Idempotency, TLAPS

Records ==
    [pc : Pending \cup {"done", "failed"}, process : Processes, key : Keys,
     seen : Calls \cup {NoCall}, after : SUBSET Calls]

Made(c) == call[c].pc # "idle"

\* What has been executed belongs to calls that were made under the key.
EffectsMade ==
    \A k \in Keys : \A c \in Calls : c \in effects[k] => Made(c) /\ call[c].key = k

\* Past the operation, a call has committed and knows it.
CommittedKnown ==
    \A c \in Calls :
        call[c].pc \in {"storing", "stored"}
            => c \in effects[call[c].key] /\ call[c].seen = c

\* What the table answered, or answers, was committed under the key.
SeenReal ==
    \A c \in Calls :
        At(c, "resume") /\ call[c].seen # NoCall => call[c].seen \in effects[call[c].key]
StoredReal ==
    \A k \in Keys : stored[k].result # NoCall => stored[k].result \in effects[k]

\* A shared promise is that of a call under the same key which has run.
JoinedReal ==
    \A c \in Calls :
        At(c, "joined") =>
            /\ call[c].seen \in Calls
            /\ call[call[c].seen].pc \in Executing \cup {"done", "failed"}
            /\ call[call[c].seen].key = call[c].key
            /\ (call[call[c].seen].pc = "done" => call[c].seen \in effects[call[c].key])

IInv ==
    /\ TypeOK /\ MapHoldsExecuting /\ EffectsMade /\ CommittedKnown
    /\ SeenReal /\ StoredReal /\ JoinedReal /\ AnswersAreReal

\* What a call is, once it is made.
LEMMA CallIsRecord ==
    ASSUME TypeOK, NEW c \in Calls, call[c].pc # "idle"
    PROVE  call[c] \in Records
BY DEF TypeOK, Records, Unmade

\* The two fields a step may write.
LEMMA RecordEdits ==
    ASSUME NEW r \in Records, NEW x, NEW s
    PROVE  [[r EXCEPT !.pc = x] EXCEPT !.seen = s]
             = [pc |-> x, process |-> r.process, key |-> r.key, seen |-> s, after |-> r.after]
<1> DEFINE t == [r EXCEPT !.pc = x]
<1>1. t = [pc |-> x, process |-> r.process, key |-> r.key, seen |-> r.seen, after |-> r.after]
  BY DEF Records
<1> HIDE DEF t
<1>2. [t EXCEPT !.seen = s]
        = [pc |-> x, process |-> r.process, key |-> r.key, seen |-> s, after |-> r.after]
  BY <1>1
<1> QED BY <1>2 DEF t

\* Only one call changes, and how: the shape of every step but a crash.
Changes(c, new) == call' = [d \in Calls |-> IF d = c THEN new ELSE call[d]]

LEMMA GotoChanges ==
    ASSUME TypeOK, NEW c \in Calls, call[c].pc # "idle",
           NEW x, Goto(c, x)
    PROVE  Changes(c, [pc |-> x, process |-> call[c].process, key |-> call[c].key,
                       seen |-> call[c].seen, after |-> call[c].after])
<1>1. call[c] \in Records
  BY CallIsRecord
<1>2. [call[c] EXCEPT !.pc = x]
        = [pc |-> x, process |-> call[c].process, key |-> call[c].key,
           seen |-> call[c].seen, after |-> call[c].after]
  BY <1>1 DEF Records
<1>3. call' = [d \in Calls |-> IF d = c THEN [call[c] EXCEPT !.pc = x] ELSE call[d]]
  BY DEF TypeOK, Goto
<1> QED BY <1>2, <1>3 DEF Changes

LEMMA EditChanges ==
    ASSUME TypeOK, NEW c \in Calls, call[c].pc # "idle", NEW x, NEW s,
           call' = [call EXCEPT ![c].pc = x, ![c].seen = s]
    PROVE  Changes(c, [pc |-> x, process |-> call[c].process, key |-> call[c].key,
                       seen |-> s, after |-> call[c].after])
<1>1. call[c] \in Records
  BY CallIsRecord
<1>2. [[call[c] EXCEPT !.pc = x] EXCEPT !.seen = s]
        = [pc |-> x, process |-> call[c].process, key |-> call[c].key,
           seen |-> s, after |-> call[c].after]
  BY <1>1, RecordEdits
<1> QED BY <1>2 DEF TypeOK, Changes

LEMMA InitIInv == Init => IInv
<1> SUFFICES ASSUME Init PROVE IInv
  OBVIOUS
<1>1. TypeOK
  <2>1. losses \in 0..MaxLosses
    BY MaxLossesAssumption DEF Init
  <2> QED BY <2>1 DEF Init, TypeOK
<1>2. \A c \in Calls : call[c].pc = "idle"
  BY DEF Init, Unmade
<1>3. MapHoldsExecuting
  BY <1>2, NoCallAssumption DEF Init, MapHoldsExecuting, Executing
<1>4. EffectsMade /\ StoredReal
  BY DEF Init, EffectsMade, StoredReal, NoRow
<1>5. CommittedKnown /\ SeenReal /\ JoinedReal /\ AnswersAreReal
  BY <1>2 DEF CommittedKnown, SeenReal, JoinedReal, AnswersAreReal, At
<1> QED BY <1>1, <1>3, <1>4, <1>5 DEF IInv

\* A step that leaves the effects and the table alone and moves one call.
LEMMA Begins ==
    ASSUME IInv, NEW c \in Calls, NEW p \in Processes, NEW k \in Keys, Begin(c, p, k)
    PROVE  IInv'
<1> DEFINE new == [pc |-> "lookup", process |-> p, key |-> k, seen |-> NoCall,
                   after |-> Answered(k)]
<1>1. call' = [d \in Calls |-> IF d = c THEN new ELSE call[d]]
  BY DEF Begin, IInv, TypeOK
<1>2. new \in Records
  BY DEF Records, Answered, Pending
<1>3. UNCHANGED <<effects, stored, inFlight, losses>> /\ call[c].pc = "idle"
      /\ c \notin UNION {effects[j] : j \in Keys}
  BY DEF Begin, Unmade, IInv, EffectsMade, Made
<1>4. TypeOK'
  BY <1>1, <1>2, <1>3 DEF IInv, TypeOK, Records
<1>5. MapHoldsExecuting'
  BY <1>1, <1>3 DEF IInv, MapHoldsExecuting, Executing
<1>6. EffectsMade' /\ CommittedKnown' /\ StoredReal'
  BY <1>1, <1>3 DEF IInv, EffectsMade, CommittedKnown, StoredReal, Made, TypeOK
<1>7. SeenReal' /\ AnswersAreReal'
  BY <1>1, <1>3 DEF IInv, SeenReal, AnswersAreReal, At
<1>8. JoinedReal'
  BY <1>1, <1>3 DEF IInv, JoinedReal, At, Executing
<1> QED BY <1>4, <1>5, <1>6, <1>7, <1>8 DEF IInv

LEMMA Looks ==
    ASSUME IInv, NEW c \in Calls, Lookup(c)
    PROVE  IInv'
<1> DEFINE row == stored[call[c].key]
           seen == IF row.expired THEN NoCall ELSE row.result
           new == [pc |-> "resume", process |-> call[c].process, key |-> call[c].key,
                   seen |-> seen, after |-> call[c].after]
<1>1. call[c] \in Records /\ call[c].pc = "lookup"
  BY CallIsRecord DEF IInv, Lookup, At
<1>2. seen \in Calls \cup {NoCall}
  BY <1>1 DEF IInv, TypeOK, NoRow, Records
<1>3. call' = [d \in Calls |-> IF d = c THEN new ELSE call[d]]
  <2>1. call' = [call EXCEPT ![c].pc = "resume", ![c].seen = seen] /\ TypeOK
    BY DEF Lookup, IInv
  <2>2. Changes(c, new)
    BY <1>1, <2>1, EditChanges
  <2> QED BY <2>2 DEF Changes
<1>4. new \in Records /\ UNCHANGED <<effects, stored, inFlight, losses>>
  BY <1>1, <1>2 DEF Records, Pending, Lookup
<1>5. TypeOK'
  BY <1>3, <1>4 DEF IInv, TypeOK, Records
<1>6. MapHoldsExecuting'
  BY <1>1, <1>3, <1>4 DEF IInv, MapHoldsExecuting, Executing
<1>7. EffectsMade' /\ CommittedKnown' /\ StoredReal'
  BY <1>1, <1>3, <1>4 DEF IInv, EffectsMade, CommittedKnown, StoredReal, Made
<1>8. SeenReal' /\ AnswersAreReal'
  BY <1>1, <1>3, <1>4 DEF IInv, SeenReal, AnswersAreReal, StoredReal, Records, At
<1>9. JoinedReal'
  BY <1>1, <1>3, <1>4 DEF IInv, JoinedReal, At, Executing
<1> QED BY <1>5, <1>6, <1>7, <1>8, <1>9 DEF IInv

LEMMA Returns ==
    ASSUME IInv, NEW c \in Calls, ReturnStored(c)
    PROVE  IInv'
<1> DEFINE new == [pc |-> "done", process |-> call[c].process, key |-> call[c].key,
                   seen |-> call[c].seen, after |-> call[c].after]
<1>1. call[c] \in Records /\ call[c].pc = "resume" /\ call[c].seen # NoCall
  BY CallIsRecord DEF IInv, ReturnStored, At
<1>3. call' = [d \in Calls |-> IF d = c THEN new ELSE call[d]]
  BY <1>1, GotoChanges DEF ReturnStored, IInv, Changes
<1>4. new \in Records /\ UNCHANGED <<effects, stored, inFlight, losses>>
  BY <1>1 DEF Records, ReturnStored
<1>5. TypeOK'
  BY <1>3, <1>4 DEF IInv, TypeOK, Records
<1>6. MapHoldsExecuting'
  BY <1>1, <1>3, <1>4 DEF IInv, MapHoldsExecuting, Executing
<1>7. EffectsMade' /\ CommittedKnown' /\ StoredReal'
  BY <1>1, <1>3, <1>4 DEF IInv, EffectsMade, CommittedKnown, StoredReal, Made
<1>8. SeenReal' /\ AnswersAreReal'
  BY <1>1, <1>3, <1>4 DEF IInv, SeenReal, AnswersAreReal, At
<1>9. JoinedReal'
  BY <1>1, <1>3, <1>4 DEF IInv, JoinedReal, At, Executing
<1> QED BY <1>5, <1>6, <1>7, <1>8, <1>9 DEF IInv

LEMMA Joins ==
    ASSUME IInv, NEW c \in Calls, Join(c)
    PROVE  IInv'
<1> DEFINE b == inFlight[call[c].process][call[c].key]
           new == [pc |-> "joined", process |-> call[c].process, key |-> call[c].key,
                   seen |-> b, after |-> call[c].after]
<1>1. call[c] \in Records /\ call[c].pc = "resume"
  BY CallIsRecord DEF IInv, Join, At
<1>2. b \in Calls /\ call[b].pc \in Executing /\ call[b].key = call[c].key
  BY <1>1 DEF Join, Sharable, IInv, TypeOK, MapHoldsExecuting, Records
<1>3. call' = [d \in Calls |-> IF d = c THEN new ELSE call[d]]
  <2>1. call' = [call EXCEPT ![c].pc = "joined", ![c].seen = b] /\ TypeOK
    BY DEF Join, Sharable, IInv
  <2>2. Changes(c, new)
    BY <1>1, <2>1, EditChanges
  <2> QED BY <2>2 DEF Changes
<1>4. new \in Records /\ UNCHANGED <<effects, stored, inFlight, losses>>
  BY <1>1, <1>2 DEF Records, Pending, Join
<1>5. TypeOK'
  BY <1>3, <1>4 DEF IInv, TypeOK, Records
<1>6. MapHoldsExecuting'
  BY <1>1, <1>3, <1>4 DEF IInv, MapHoldsExecuting, Executing
<1>7. EffectsMade' /\ CommittedKnown' /\ StoredReal'
  BY <1>1, <1>3, <1>4 DEF IInv, EffectsMade, CommittedKnown, StoredReal, Made
<1>8. SeenReal' /\ AnswersAreReal'
  BY <1>1, <1>3, <1>4 DEF IInv, SeenReal, AnswersAreReal, At
<1>9. JoinedReal'
  BY <1>1, <1>2, <1>3, <1>4 DEF IInv, JoinedReal, At, Executing
<1> QED BY <1>5, <1>6, <1>7, <1>8, <1>9 DEF IInv

LEMMA Runs ==
    ASSUME IInv, NEW c \in Calls, Run(c)
    PROVE  IInv'
<1> DEFINE new == [pc |-> "running", process |-> call[c].process, key |-> call[c].key,
                   seen |-> call[c].seen, after |-> call[c].after]
<1>1. call[c] \in Records /\ call[c].pc = "resume"
  BY CallIsRecord DEF IInv, Run, At
<1>2. inFlight[call[c].process][call[c].key] = NoCall
  BY DEF Run, Sharable
<1>3. call' = [d \in Calls |-> IF d = c THEN new ELSE call[d]]
  BY <1>1, GotoChanges DEF Run, IInv, Changes
<1>4. new \in Records /\ UNCHANGED <<effects, stored, losses>>
  BY <1>1 DEF Records, Pending, Executing, Run
<1>a. inFlight' = [p \in Processes |-> [k \in Keys |->
          IF p = call[c].process /\ k = call[c].key THEN c ELSE inFlight[p][k]]]
  BY <1>1 DEF Run, IInv, TypeOK, Records
<1>5. TypeOK'
  <2>1. inFlight' \in [Processes -> [Keys -> Calls \cup {NoCall}]]
    BY <1>a DEF IInv, TypeOK
  <2> QED BY <1>3, <1>4, <2>1 DEF IInv, TypeOK, Records
<1>6. MapHoldsExecuting'
  BY <1>1, <1>2, <1>3, <1>a, NoCallAssumption DEF IInv, MapHoldsExecuting, Executing, Records
<1>7. EffectsMade' /\ CommittedKnown' /\ StoredReal'
  BY <1>1, <1>3, <1>4 DEF IInv, EffectsMade, CommittedKnown, StoredReal, Made
<1>8. SeenReal' /\ AnswersAreReal'
  BY <1>1, <1>3, <1>4 DEF IInv, SeenReal, AnswersAreReal, At
<1>9. JoinedReal'
  BY <1>1, <1>3, <1>4 DEF IInv, JoinedReal, At, Executing
<1> QED BY <1>5, <1>6, <1>7, <1>8, <1>9 DEF IInv

LEMMA Executes ==
    ASSUME IInv, NEW c \in Calls, Execute(c)
    PROVE  IInv'
<1> DEFINE new == [pc |-> "storing", process |-> call[c].process, key |-> call[c].key,
                   seen |-> c, after |-> call[c].after]
<1>1. call[c] \in Records /\ call[c].pc = "running"
  BY CallIsRecord DEF IInv, Execute, At
<1>3. call' = [d \in Calls |-> IF d = c THEN new ELSE call[d]]
  <2>1. call' = [call EXCEPT ![c].pc = "storing", ![c].seen = c] /\ TypeOK
    BY DEF Execute, IInv
  <2>2. Changes(c, new)
    BY <1>1, <2>1, EditChanges
  <2> QED BY <2>2 DEF Changes
<1>4. new \in Records /\ UNCHANGED <<stored, inFlight, losses>>
  BY <1>1 DEF Records, Pending, Executing, Execute
<1>a. effects' = [k \in Keys |-> IF k = call[c].key THEN effects[k] \cup {c} ELSE effects[k]]
  BY <1>1 DEF Execute, IInv, TypeOK, Records
<1>5. TypeOK'
  <2>1. effects' \in [Keys -> SUBSET Calls]
    BY <1>a DEF IInv, TypeOK
  <2> QED BY <1>3, <1>4, <2>1 DEF IInv, TypeOK, Records
<1>6. MapHoldsExecuting'
  BY <1>1, <1>3, <1>4 DEF IInv, MapHoldsExecuting, Executing
<1>7. EffectsMade' /\ CommittedKnown' /\ StoredReal'
  <2>1. EffectsMade'
    BY <1>1, <1>3, <1>a DEF IInv, EffectsMade, Made
  <2>2. CommittedKnown'
    BY <1>1, <1>3, <1>a, CallIsRecord DEF IInv, CommittedKnown, Records
  <2>3. StoredReal'
    BY <1>4, <1>a DEF IInv, StoredReal
  <2> QED BY <2>1, <2>2, <2>3
<1>8. SeenReal' /\ AnswersAreReal'
  BY <1>1, <1>3, <1>a, CallIsRecord DEF IInv, SeenReal, AnswersAreReal, At, Records
<1>9. JoinedReal'
  BY <1>1, <1>3, <1>a, CallIsRecord DEF IInv, JoinedReal, At, Executing, Records
<1> QED BY <1>5, <1>6, <1>7, <1>8, <1>9 DEF IInv

LEMMA Stores ==
    ASSUME IInv, NEW c \in Calls, Store(c)
    PROVE  IInv'
<1> DEFINE new == [pc |-> "stored", process |-> call[c].process, key |-> call[c].key,
                   seen |-> call[c].seen, after |-> call[c].after]
<1>1. call[c] \in Records /\ call[c].pc = "storing"
  BY CallIsRecord DEF IInv, Store, At
<1>3. call' = [d \in Calls |-> IF d = c THEN new ELSE call[d]]
  BY <1>1, GotoChanges DEF Store, IInv, Changes
<1>4. new \in Records /\ UNCHANGED <<effects, inFlight, losses>>
  BY <1>1 DEF Records, Pending, Executing, Store
<1>a. stored' = [k \in Keys |-> IF k = call[c].key THEN [result |-> c, expired |-> FALSE]
                                ELSE stored[k]]
  BY <1>1 DEF Store, IInv, TypeOK, Records
<1>5. TypeOK'
  <2>1. [result |-> c, expired |-> FALSE] \in [result : Calls, expired : BOOLEAN]
    BY FALSE \in BOOLEAN
  <2>2. stored' \in [Keys -> [result : Calls, expired : BOOLEAN] \cup {NoRow}]
    BY <1>a, <2>1 DEF IInv, TypeOK
  <2> QED BY <1>3, <1>4, <2>2 DEF IInv, TypeOK, Records
<1>6. MapHoldsExecuting'
  BY <1>1, <1>3, <1>4 DEF IInv, MapHoldsExecuting, Executing
<1>7. EffectsMade' /\ CommittedKnown'
  BY <1>1, <1>3, <1>4 DEF IInv, EffectsMade, CommittedKnown, Made
<1>b. StoredReal'
  BY <1>1, <1>4, <1>a DEF IInv, StoredReal, CommittedKnown
<1>8. SeenReal' /\ AnswersAreReal'
  BY <1>1, <1>3, <1>4 DEF IInv, SeenReal, AnswersAreReal, At
<1>9. JoinedReal'
  BY <1>1, <1>3, <1>4 DEF IInv, JoinedReal, At, Executing
<1> QED BY <1>5, <1>6, <1>7, <1>b, <1>8, <1>9 DEF IInv

LEMMA Finishes ==
    ASSUME IInv, NEW c \in Calls, NEW x,
           \/ x = "done" /\ call[c].pc = "stored"
           \/ x = "failed" /\ call[c].pc \in {"running", "storing"},
           Goto(c, x), Forget(c), losses' \in 0..MaxLosses, UNCHANGED <<effects, stored>>
    PROVE  IInv'
<1> DEFINE new == [pc |-> x, process |-> call[c].process, key |-> call[c].key,
                   seen |-> call[c].seen, after |-> call[c].after]
<1>1. call[c] \in Records /\ call[c].pc \in Executing
  BY CallIsRecord DEF IInv, Executing
<1>3. call' = [d \in Calls |-> IF d = c THEN new ELSE call[d]]
  BY <1>1, GotoChanges DEF IInv, Changes, Executing
<1>4. new \in Records
  BY <1>1 DEF Records
<1>a. inFlight' = [p \in Processes |-> [k \in Keys |->
          IF p = call[c].process /\ k = call[c].key THEN NoCall ELSE inFlight[p][k]]]
  BY <1>1 DEF Forget, IInv, TypeOK, Records
<1>5. TypeOK'
  <2>1. inFlight' \in [Processes -> [Keys -> Calls \cup {NoCall}]]
    BY <1>a DEF IInv, TypeOK
  <2> QED BY <1>3, <1>4, <2>1 DEF IInv, TypeOK, Records
<1>6. MapHoldsExecuting'
  BY <1>1, <1>3, <1>a, NoCallAssumption DEF IInv, MapHoldsExecuting, Executing, Records
<1>7. EffectsMade' /\ CommittedKnown' /\ StoredReal'
  BY <1>1, <1>3 DEF IInv, EffectsMade, CommittedKnown, StoredReal, Made
<1>8. SeenReal' /\ AnswersAreReal'
  BY <1>1, <1>3 DEF IInv, SeenReal, AnswersAreReal, CommittedKnown, At
<1>9. JoinedReal'
  BY <1>1, <1>3 DEF IInv, JoinedReal, CommittedKnown, At, Executing
<1> QED BY <1>5, <1>6, <1>7, <1>8, <1>9 DEF IInv

LEMMA Settles ==
    ASSUME IInv, NEW c \in Calls, Settle(c)
    PROVE  IInv'
<1> DEFINE x == call[call[c].seen].pc
           new == [pc |-> x, process |-> call[c].process, key |-> call[c].key,
                   seen |-> call[c].seen, after |-> call[c].after]
<1>1. call[c] \in Records /\ call[c].pc = "joined" /\ x \in {"done", "failed"}
  BY CallIsRecord DEF IInv, Settle, At
<1>3. call' = [d \in Calls |-> IF d = c THEN new ELSE call[d]]
  BY <1>1, GotoChanges DEF Settle, IInv, Changes
<1>4. new \in Records /\ UNCHANGED <<effects, stored, inFlight, losses>>
  BY <1>1 DEF Records, Settle
<1>5. TypeOK'
  BY <1>3, <1>4 DEF IInv, TypeOK, Records
<1>6. MapHoldsExecuting'
  BY <1>1, <1>3, <1>4 DEF IInv, MapHoldsExecuting, Executing
<1>7. EffectsMade' /\ CommittedKnown' /\ StoredReal'
  BY <1>1, <1>3, <1>4 DEF IInv, EffectsMade, CommittedKnown, StoredReal, Made
<1>8. SeenReal' /\ AnswersAreReal'
  BY <1>1, <1>3, <1>4 DEF IInv, SeenReal, AnswersAreReal, JoinedReal, At
<1>9. JoinedReal'
  BY <1>1, <1>3, <1>4 DEF IInv, JoinedReal, At, Executing
<1> QED BY <1>5, <1>6, <1>7, <1>8, <1>9 DEF IInv

LEMMA Crashes ==
    ASSUME IInv, NEW p \in Processes, Crash(p)
    PROVE  IInv'
<1> DEFINE Hit(d) == call[d].pc \in Pending /\ call[d].process = p
           failed(d) == [pc |-> "failed", process |-> call[d].process, key |-> call[d].key,
                         seen |-> call[d].seen, after |-> call[d].after]
<1>1. \A d \in Calls : Hit(d) => call[d] \in Records /\ failed(d) \in Records
  BY CallIsRecord DEF IInv, Records, Pending, Executing
<1>2. \A d \in Calls : Hit(d) => [call[d] EXCEPT !.pc = "failed"] = failed(d)
  BY <1>1 DEF Records
<1>3. call' = [d \in Calls |-> IF Hit(d) THEN failed(d) ELSE call[d]]
  <2>1. call' = [d \in Calls |-> IF Hit(d) THEN [call[d] EXCEPT !.pc = "failed"] ELSE call[d]]
    BY DEF Crash
  <2> QED BY <2>1, <1>2
<1>4. inFlight' = [q \in Processes |-> IF q = p THEN [k \in Keys |-> NoCall] ELSE inFlight[q]]
      /\ UNCHANGED <<effects, stored>>
  BY DEF Crash, IInv, TypeOK
<1>5. TypeOK'
  <2>1. call' \in [Calls -> {Unmade} \cup Records]
    BY <1>1, <1>3 DEF IInv, TypeOK, Records
  <2>2. losses' \in 0..MaxLosses
    BY MaxLossesAssumption DEF Crash, IInv, TypeOK
  <2>3. inFlight' \in [Processes -> [Keys -> Calls \cup {NoCall}]]
    BY <1>4 DEF IInv, TypeOK
  <2> QED BY <1>4, <2>1, <2>2, <2>3 DEF IInv, TypeOK, Records
<1>6. MapHoldsExecuting'
  BY <1>3, <1>4, NoCallAssumption DEF IInv, MapHoldsExecuting, Executing, Pending
<1>7. EffectsMade' /\ CommittedKnown' /\ StoredReal'
  BY <1>3, <1>4 DEF IInv, EffectsMade, CommittedKnown, StoredReal, Made
<1>8. SeenReal' /\ AnswersAreReal'
  BY <1>3, <1>4 DEF IInv, SeenReal, AnswersAreReal, At
<1>9. JoinedReal'
  BY <1>3, <1>4 DEF IInv, JoinedReal, At, Pending, Executing
<1> QED BY <1>5, <1>6, <1>7, <1>8, <1>9 DEF IInv

LEMMA RowExpires ==
    ASSUME NEW S, NEW row \in [result : Calls, expired : S], NEW x \in S
    PROVE  /\ [row EXCEPT !.expired = x] \in [result : Calls, expired : S]
           /\ [row EXCEPT !.expired = x].result = row.result
OBVIOUS

\* Rows expire and are deleted; no call notices before it looks.
LEMMA Forgets ==
    ASSUME IInv, (\E k \in Keys : Expire(k)) \/ Cleanup
    PROVE  IInv'
<1>1. UNCHANGED <<effects, inFlight, call>> /\ losses' \in 0..MaxLosses
  BY MaxLossesAssumption DEF Expire, Cleanup, IInv, TypeOK
<1>2. stored' \in [Keys -> [result : Calls, expired : BOOLEAN] \cup {NoRow}]
      /\ \A k \in Keys : stored'[k].result \in {stored[k].result, NoCall}
  <2>1. CASE Cleanup
    BY <2>1 DEF Cleanup, IInv, TypeOK, NoRow
  <2>2. ASSUME NEW k \in Keys, Expire(k)
        PROVE  /\ stored' \in [Keys -> [result : Calls, expired : BOOLEAN] \cup {NoRow}]
               /\ \A j \in Keys : stored'[j].result \in {stored[j].result, NoCall}
    <3>1. stored[k] \in [result : Calls, expired : BOOLEAN]
      BY <2>2 DEF Expire, IInv, TypeOK, NoRow
    <3> DEFINE row == [stored[k] EXCEPT !.expired = TRUE]
    <3>2. row \in [result : Calls, expired : BOOLEAN] /\ row.result = stored[k].result
      BY <3>1, TRUE \in BOOLEAN, RowExpires
    <3>3. stored' = [j \in Keys |-> IF j = k THEN row ELSE stored[j]]
      BY <2>2 DEF Expire, IInv, TypeOK
    <3> HIDE DEF row
    <3> QED BY <3>2, <3>3 DEF IInv, TypeOK
  <2> QED BY <2>1, <2>2
<1>3. TypeOK'
  BY <1>1, <1>2 DEF IInv, TypeOK
<1>4. StoredReal'
  BY <1>1, <1>2 DEF IInv, StoredReal
<1>5. MapHoldsExecuting' /\ EffectsMade' /\ CommittedKnown' /\ SeenReal'
      /\ JoinedReal' /\ AnswersAreReal'
  BY <1>1 DEF IInv, MapHoldsExecuting, EffectsMade, CommittedKnown, SeenReal, JoinedReal,
              AnswersAreReal, Made, At
<1> QED BY <1>3, <1>4, <1>5 DEF IInv

LEMMA NextIInv == IInv /\ [Next]_vars => IInv'
<1> SUFFICES ASSUME IInv, [Next]_vars PROVE IInv'
  OBVIOUS
<1>1. ASSUME NEW c \in Calls, NEW p \in Processes, NEW k \in Keys, Begin(c, p, k)
      PROVE  IInv'
  BY <1>1, Begins
<1>2. ASSUME NEW c \in Calls, Continue(c)
      PROVE  IInv'
  <2>1. CASE Finish(c)
    <3>1. losses' \in 0..MaxLosses
      BY <2>1 DEF Finish, IInv, TypeOK
    <3> QED BY <2>1, <3>1, Finishes DEF Finish, At
  <2> QED BY <1>2, <2>1, Looks, Returns, Joins, Runs, Executes, Stores, Settles DEF Continue
<1>3. ASSUME NEW c \in Calls, Reject(c)
      PROVE  IInv'
  <2>1. losses' \in 0..MaxLosses
    BY <1>3, MaxLossesAssumption DEF Reject, IInv, TypeOK
  <2> QED BY <1>3, <2>1, Finishes DEF Reject
<1>4. ASSUME NEW p \in Processes, Crash(p)
      PROVE  IInv'
  BY <1>4, Crashes
<1>5. CASE (\E k \in Keys : Expire(k)) \/ Cleanup
  BY <1>5, Forgets
<1>6. CASE UNCHANGED vars
  BY <1>6 DEF vars, IInv, TypeOK, MapHoldsExecuting, EffectsMade, CommittedKnown, SeenReal,
              StoredReal, JoinedReal, AnswersAreReal, Made, At
<1> QED BY <1>1, <1>2, <1>3, <1>4, <1>5, <1>6 DEF Next

\* The types, and what every answer, shared promise and stored row stands for.
THEOREM IInvHolds == Spec => []IInv
BY InitIInv, NextIInv, PTL DEF Spec

\* One process never runs the operation twice at a time under one key.
THEOREM OneInFlightHolds == Spec => []OneInFlight
<1>1. IInv => OneInFlight
  <2> SUFFICES ASSUME IInv, NEW c \in Calls, NEW d \in Calls,
                      call[c].pc \in Executing, call[d].pc \in Executing,
                      call[c].process = call[d].process, call[c].key = call[d].key
               PROVE  c = d
    BY DEF OneInFlight
  <2>1. call[c] \in Records
    BY CallIsRecord DEF IInv, Executing
  <2>2. inFlight[call[c].process][call[c].key] = c
        /\ inFlight[call[c].process][call[c].key] = d
    BY <2>1 DEF IInv, MapHoldsExecuting, Records
  <2> QED BY <2>2
<1> QED BY <1>1, IInvHolds, PTL

\* Whatever is answered was committed under the caller's key.
THEOREM AnswersAreRealHolds == Spec => []AnswersAreReal
<1>1. IInv => AnswersAreReal
  BY DEF IInv
<1> QED BY <1>1, IInvHolds, PTL

\* Whoever shares an operation found it running: a failure is told to those who
\* waited for it and to no one who asks later.
THEOREM SharedWhileRunningHolds == Spec => SharedWhileRunning
<1>1. ASSUME IInv, [Next]_vars, NEW c \in Calls, At(c, "resume"), call'[c].pc = "joined"
      PROVE  call[call'[c].seen].pc \in Executing
  <2>0. call[c] \in Records /\ DOMAIN call = Calls
    BY <1>1, CallIsRecord DEF IInv, TypeOK, At
  <2>1. ASSUME NEW d \in Calls, NEW x, Goto(d, x), x # "joined" PROVE FALSE
    BY <1>1, <2>1 DEF Goto, IInv, TypeOK, At, Records
  <2>2. ASSUME NEW d \in Calls, NEW p \in Processes, NEW k \in Keys, Begin(d, p, k) PROVE FALSE
    BY <1>1, <2>2 DEF Begin, IInv, TypeOK, At, Unmade
  <2>3. ASSUME NEW d \in Calls, Lookup(d) PROVE FALSE
    BY <1>1, <2>0, <2>3 DEF Lookup, IInv, TypeOK, At, Records
  <2>4. ASSUME NEW d \in Calls, Execute(d) PROVE FALSE
    BY <1>1, <2>0, <2>4 DEF Execute, IInv, TypeOK, At, Records
  <2>5. ASSUME NEW d \in Calls, Settle(d) PROVE FALSE
    BY <1>1, <2>1, <2>5 DEF Settle
  <2>6. ASSUME NEW d \in Calls,
               ReturnStored(d) \/ Run(d) \/ Store(d) \/ Finish(d) \/ Reject(d)
        PROVE  FALSE
    BY <2>1, <2>6 DEF ReturnStored, Run, Store, Finish, Reject
  <2>7. ASSUME NEW p \in Processes, Crash(p) PROVE FALSE
    BY <1>1, <2>7 DEF Crash, At
  <2>8. ASSUME UNCHANGED call PROVE FALSE
    BY <1>1, <2>8 DEF At
  <2>9. PICK d \in Calls : Join(d)
    BY <1>1, <2>2, <2>3, <2>4, <2>5, <2>6, <2>7, <2>8 DEF Next, Continue, Expire, Cleanup, vars
  <2>10. d = c
    BY <1>1, <2>9 DEF Join, IInv, TypeOK, At
  <2>11. call'[c].seen = Sharable(c)
    BY <2>0, <2>9, <2>10 DEF Join, Records
  <2>12. Sharable(c) \in Calls
    BY <2>0, <2>9, <2>10 DEF Join, Sharable, IInv, TypeOK, Records
  <2>13. call[Sharable(c)].pc \in Executing
    BY <1>1, <2>0, <2>12 DEF Sharable, IInv, MapHoldsExecuting, Records
  <2> QED BY <2>11, <2>13
<1>2. IInv /\ [Next]_vars => [\A c \in Calls :
          At(c, "resume") /\ call'[c].pc = "joined"
              => call[call'[c].seen].pc \in Executing]_vars
  BY <1>1
<1> QED BY <1>2, IInvHolds, PTL DEF Spec, SharedWhileRunning

\* As long as nothing was lost: who was answered left the result in the
\* table, and who came after finds it there.
Answerable ==
    /\ \A k \in Keys : ~ stored[k].expired
    /\ \A c \in Calls :
          call[c].pc \in {"stored", "done"} => stored[call[c].key].result # NoCall
    /\ \A c \in Calls :
          Made(c) /\ call[c].after # {} => stored[call[c].key].result # NoCall
    /\ \A c \in Calls :
          At(c, "resume") /\ call[c].seen # NoCall => stored[call[c].key].result # NoCall
    /\ \A c \in Calls :
          At(c, "resume") /\ call[c].after # {} => call[c].seen # NoCall
    /\ \A c \in Calls : call[c].pc \in Executing => call[c].after = {}

RepeatInv == losses = 0 => Answerable /\ RepeatNotExecuted

LEMMA InitRepeat == Init => RepeatInv
<1> SUFFICES ASSUME Init PROVE Answerable /\ RepeatNotExecuted
  BY DEF RepeatInv
<1>1. \A c \in Calls : call[c].pc = "idle"
  BY DEF Init, Unmade
<1> QED BY <1>1 DEF Init, Answerable, RepeatNotExecuted, NoRow, Made, At, Executing

LEMMA NextRepeat == IInv /\ RepeatInv /\ [Next]_vars => RepeatInv'
<1> SUFFICES ASSUME IInv, RepeatInv, [Next]_vars, losses' = 0
             PROVE  Answerable' /\ RepeatNotExecuted'
  BY DEF RepeatInv
<1> USE NoCallAssumption
<1>0. losses \in Nat
  BY MaxLossesAssumption DEF IInv, TypeOK
<1>a. losses = 0 => Answerable /\ RepeatNotExecuted
  BY DEF RepeatInv
<1>b. \A c \in Calls : call[c].pc # "idle" => call[c] \in Records
  BY CallIsRecord DEF IInv
<1>1. ASSUME NEW c \in Calls, NEW p \in Processes, NEW k \in Keys, Begin(c, p, k)
      PROVE  Answerable' /\ RepeatNotExecuted'
  <2> DEFINE new == [pc |-> "lookup", process |-> p, key |-> k, seen |-> NoCall,
                     after |-> Answered(k)]
  <2>1. call' = [d \in Calls |-> IF d = c THEN new ELSE call[d]]
    BY <1>1 DEF Begin, IInv, TypeOK
  <2>2. UNCHANGED <<effects, stored, inFlight, losses>> /\ call[c].pc = "idle"
    BY <1>1 DEF Begin, Unmade
  <2>3. \A j \in Keys : c \notin effects[j]
    BY <2>2 DEF IInv, EffectsMade, Made
  <2>4. Answered(k) # {} => stored[k].result # NoCall
    BY <1>a, <2>2 DEF Answerable, Answered
  <2>5. Answerable'
    BY <1>a, <2>1, <2>2, <2>4 DEF Answerable, Made, At, Executing
  <2>6. RepeatNotExecuted'
    BY <1>a, <2>1, <2>2, <2>3 DEF RepeatNotExecuted, IInv, TypeOK
  <2> QED BY <2>5, <2>6
<1>2. ASSUME NEW c \in Calls, Lookup(c)
      PROVE  Answerable' /\ RepeatNotExecuted'
  <2> DEFINE row == stored[call[c].key]
             seen == IF row.expired THEN NoCall ELSE row.result
             new == [pc |-> "resume", process |-> call[c].process, key |-> call[c].key,
                     seen |-> seen, after |-> call[c].after]
  <2>1. call[c] \in Records /\ call[c].pc = "lookup"
    BY <1>2, <1>b DEF Lookup, At
  <2>2. call' = [d \in Calls |-> IF d = c THEN new ELSE call[d]]
    <3>1. call' = [call EXCEPT ![c].pc = "resume", ![c].seen = seen] /\ TypeOK
      BY <1>2 DEF Lookup, IInv
    <3>2. Changes(c, new)
      BY <2>1, <3>1, EditChanges
    <3> QED BY <3>2 DEF Changes
  <2>3. UNCHANGED <<effects, stored, inFlight, losses>>
    BY <1>2 DEF Lookup
  <2>4. seen = row.result
    BY <1>a, <2>1, <2>3 DEF Answerable, Records
  <2>5. Answerable'
    BY <1>a, <2>1, <2>2, <2>3, <2>4 DEF Answerable, Made, At, Executing
  <2>6. RepeatNotExecuted'
    BY <1>a, <2>2, <2>3 DEF RepeatNotExecuted, IInv, TypeOK
  <2> QED BY <2>5, <2>6
<1>3. ASSUME NEW c \in Calls, ReturnStored(c) \/ Settle(c)
      PROVE  Answerable' /\ RepeatNotExecuted'
  <2> DEFINE x == IF Settle(c) THEN call[call[c].seen].pc ELSE "done"
             new == [pc |-> x, process |-> call[c].process, key |-> call[c].key,
                     seen |-> call[c].seen, after |-> call[c].after]
  <2>1. call[c].pc \in {"resume", "joined"} /\ Goto(c, x) /\ x \in {"done", "failed"}
    BY <1>3 DEF ReturnStored, Settle, At
  <2>2. call' = [d \in Calls |-> IF d = c THEN new ELSE call[d]]
    BY <2>1, GotoChanges DEF IInv, Changes
  <2>3. UNCHANGED <<effects, stored, inFlight, losses>>
    BY <1>3 DEF ReturnStored, Settle
  <2>4. x = "done" => stored[call[c].key].result # NoCall
    <3>1. CASE ReturnStored(c)
      BY <1>a, <2>3, <3>1 DEF ReturnStored, Answerable, At
    <3>2. CASE Settle(c)
      BY <1>a, <2>3, <3>2 DEF Settle, Answerable, IInv, JoinedReal, At
    <3> QED BY <1>3, <3>1, <3>2
  <2> HIDE DEF x
  <2>5. Answerable'
    BY <1>a, <2>1, <2>2, <2>3, <2>4 DEF Answerable, Made, At, Executing
  <2>6. RepeatNotExecuted'
    BY <1>a, <2>2, <2>3 DEF RepeatNotExecuted, IInv, TypeOK
  <2> QED BY <2>5, <2>6
<1>4. ASSUME NEW c \in Calls, Join(c)
      PROVE  Answerable' /\ RepeatNotExecuted'
  <2> DEFINE new == [pc |-> "joined", process |-> call[c].process, key |-> call[c].key,
                     seen |-> Sharable(c), after |-> call[c].after]
  <2>1. call[c].pc = "resume" /\ UNCHANGED <<effects, stored, inFlight, losses>>
    BY <1>4 DEF Join, At
  <2>2. call' = [d \in Calls |-> IF d = c THEN new ELSE call[d]]
    <3>1. call' = [call EXCEPT ![c].pc = "joined", ![c].seen = Sharable(c)] /\ TypeOK
      BY <1>4 DEF Join, IInv
    <3>2. Changes(c, new)
      BY <2>1, <3>1, EditChanges
    <3> QED BY <3>2 DEF Changes
  <2>3. Answerable'
    BY <1>a, <2>1, <2>2 DEF Answerable, Made, At, Executing
  <2>4. RepeatNotExecuted'
    BY <1>a, <2>1, <2>2 DEF RepeatNotExecuted, IInv, TypeOK
  <2> QED BY <2>3, <2>4
<1>5. ASSUME NEW c \in Calls, Run(c)
      PROVE  Answerable' /\ RepeatNotExecuted'
  <2> DEFINE new == [pc |-> "running", process |-> call[c].process, key |-> call[c].key,
                     seen |-> call[c].seen, after |-> call[c].after]
  <2>1. call[c].pc = "resume" /\ call[c].seen = NoCall /\ UNCHANGED <<effects, stored, losses>>
    BY <1>5 DEF Run, At
  <2>2. call' = [d \in Calls |-> IF d = c THEN new ELSE call[d]]
    BY <1>5, <2>1, GotoChanges DEF Run, IInv, Changes
  <2>3. Answerable'
    BY <1>a, <2>1, <2>2 DEF Answerable, Made, At, Executing
  <2>4. RepeatNotExecuted'
    BY <1>a, <2>1, <2>2 DEF RepeatNotExecuted, IInv, TypeOK
  <2> QED BY <2>3, <2>4
<1>6. ASSUME NEW c \in Calls, Execute(c)
      PROVE  Answerable' /\ RepeatNotExecuted'
  <2> DEFINE new == [pc |-> "storing", process |-> call[c].process, key |-> call[c].key,
                     seen |-> c, after |-> call[c].after]
  <2>1. call[c] \in Records /\ call[c].pc = "running" /\ UNCHANGED <<stored, losses>>
    BY <1>6, <1>b DEF Execute, At
  <2>2. call' = [d \in Calls |-> IF d = c THEN new ELSE call[d]]
    <3>1. call' = [call EXCEPT ![c].pc = "storing", ![c].seen = c] /\ TypeOK
      BY <1>6 DEF Execute, IInv
    <3>2. Changes(c, new)
      BY <2>1, <3>1, EditChanges
    <3> QED BY <3>2 DEF Changes
  <2>3. effects' = [k \in Keys |-> IF k = call[c].key THEN effects[k] \cup {c} ELSE effects[k]]
    BY <1>6, <2>1 DEF Execute, IInv, TypeOK, Records
  <2>4. Answerable'
    BY <1>a, <2>1, <2>2 DEF Answerable, Made, At, Executing
  <2>5. call[c].after = {}
    BY <1>a, <2>1 DEF Answerable, Executing
  <2>6. RepeatNotExecuted'
    BY <1>a, <2>1, <2>2, <2>3, <2>5 DEF RepeatNotExecuted, IInv, TypeOK
  <2> QED BY <2>4, <2>6
<1>7. ASSUME NEW c \in Calls, Store(c)
      PROVE  Answerable' /\ RepeatNotExecuted'
  <2> DEFINE new == [pc |-> "stored", process |-> call[c].process, key |-> call[c].key,
                     seen |-> call[c].seen, after |-> call[c].after]
  <2>1. call[c] \in Records /\ call[c].pc = "storing" /\ UNCHANGED <<effects, inFlight, losses>>
    BY <1>7, <1>b DEF Store, At
  <2>2. call' = [d \in Calls |-> IF d = c THEN new ELSE call[d]]
    BY <1>7, <2>1, GotoChanges DEF Store, IInv, Changes
  <2>3. stored' = [k \in Keys |-> IF k = call[c].key THEN [result |-> c, expired |-> FALSE]
                                  ELSE stored[k]]
    BY <1>7, <2>1 DEF Store, IInv, TypeOK, Records
  <2>a. \A k \in Keys : ~ stored'[k].expired
                        /\ (stored[k].result # NoCall => stored'[k].result # NoCall)
    BY <1>a, <2>1, <2>3 DEF Answerable
  <2>b. stored'[call[c].key].result # NoCall
    BY <2>1, <2>3 DEF Records
  <2>c. \A d \in Calls : call[d].pc # "idle" => call[d].key \in Keys
    BY <1>b DEF Records
  <2>4. Answerable'
    <3>1. \A d \in Calls : call'[d].pc \in {"stored", "done"}
                              => stored'[call'[d].key].result # NoCall
      BY <1>a, <2>1, <2>2, <2>a, <2>b, <2>c DEF Answerable
    <3>2. \A d \in Calls : Made(d)' /\ call'[d].after # {}
                              => stored'[call'[d].key].result # NoCall
      BY <1>a, <2>1, <2>2, <2>a, <2>b, <2>c DEF Answerable, Made
    <3>3. \A d \in Calls : call'[d].pc = "resume"
                              => call'[d] = call[d] /\ call[d].pc = "resume" /\ d # c
      BY <2>2
    <3>5. \A d \in Calls : At(d, "resume")' /\ call'[d].seen # NoCall
                              => stored'[call'[d].key].result # NoCall
      BY <1>a, <2>1, <3>3, <2>a, <2>c DEF Answerable, At
    <3>6. \A d \in Calls : At(d, "resume")' /\ call'[d].after # {} => call'[d].seen # NoCall
      BY <1>a, <2>1, <3>3 DEF Answerable, At
    <3>4. \A d \in Calls : call'[d].pc \in Executing => call'[d].after = {}
      BY <1>a, <2>1, <2>2 DEF Answerable, Executing
    <3> QED BY <2>a, <3>1, <3>2, <3>5, <3>6, <3>4 DEF Answerable
  <2>5. RepeatNotExecuted'
    BY <1>a, <2>1, <2>2 DEF RepeatNotExecuted, IInv, TypeOK
  <2> QED BY <2>4, <2>5
<1>8. ASSUME NEW c \in Calls, Finish(c) \/ Reject(c)
      PROVE  Answerable' /\ RepeatNotExecuted'
  <2> DEFINE x == IF Finish(c) THEN "done" ELSE "failed"
             new == [pc |-> x, process |-> call[c].process, key |-> call[c].key,
                     seen |-> call[c].seen, after |-> call[c].after]
  <2>1. /\ Goto(c, x) /\ call[c].pc \in Executing /\ losses = 0
        /\ x = "done" => call[c].pc = "stored"
        /\ UNCHANGED <<effects, stored>>
    BY <1>0, <1>8 DEF Finish, Reject, At, Executing
  <2>2. call' = [d \in Calls |-> IF d = c THEN new ELSE call[d]]
    BY <2>1, GotoChanges DEF IInv, Changes, Executing
  <2> HIDE DEF x
  <2>3. x \in {"done", "failed"}
    BY DEF x
  <2>4. Answerable'
    BY <1>a, <2>1, <2>2, <2>3 DEF Answerable, Made, At, Executing
  <2>5. RepeatNotExecuted'
    BY <1>a, <2>1, <2>2 DEF RepeatNotExecuted, IInv, TypeOK
  <2> QED BY <2>4, <2>5
<1>9. CASE (\E p \in Processes : Crash(p)) \/ (\E k \in Keys : Expire(k))
  BY <1>0, <1>9 DEF Crash, Expire
<1>10. CASE Cleanup
  BY <1>a, <1>10 DEF Cleanup, Answerable
<1>11. CASE UNCHANGED vars
  BY <1>a, <1>11 DEF vars, Answerable, RepeatNotExecuted, Made, At
<1> QED BY <1>1, <1>2, <1>3, <1>4, <1>5, <1>6, <1>7, <1>8, <1>9, <1>10, <1>11 DEF Next, Continue

\* Nothing lost: whoever comes after an answer does not execute again.
THEOREM RepeatNotExecutedHolds == Spec => []RepeatNotExecuted
<1>1. RepeatInv => RepeatNotExecuted
  BY DEF RepeatInv, RepeatNotExecuted
<1> QED BY <1>1, IInvHolds, InitRepeat, NextRepeat, PTL DEF Spec

=============================================================================
