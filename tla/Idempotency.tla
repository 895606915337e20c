------------------------------ MODULE Idempotency ------------------------------
(***************************************************************************)
(* withIdempotency (idempotency.service.ts): an operation runs under a key *)
(* behind a table of stored results and, inside each backend process, a    *)
(* map of the promises in flight.  JavaScript runs between two awaits      *)
(* without interruption; each await (the lookup, the operation, the        *)
(* upsert) lets every other request in, and an answer computed by the      *)
(* database is used only when its request resumes.                         *)
(***************************************************************************)
EXTENDS Naturals, FiniteSets

CONSTANTS Processes,   \* backend instances over one database
          Calls,       \* calls of withIdempotency
          Keys,        \* key hashes
          NoCall,      \* no promise in flight
          MaxLosses    \* bound: crashes, failed upserts and expiries together

ASSUME NoCallAssumption == NoCall \notin Calls
ASSUME MaxLossesAssumption == MaxLosses \in Nat

VARIABLES effects,    \* Keys -> the executions of the operation that committed
          stored,     \* Keys -> the row of idempotency_keys
          inFlight,   \* Processes -> Keys -> the call whose promise is shared
          call,       \* what each call is doing
          losses      \* crashes, failed upserts and expiries so far

vars == <<effects, stored, inFlight, call, losses>>

\* An execution is named by the call that ran it.
NoRow == [result |-> NoCall, expired |-> FALSE]
Unmade == [pc |-> "idle"]

Executing == {"running", "storing", "stored"}
Pending   == {"lookup", "resume", "joined"} \cup Executing

TypeOK ==
    /\ effects \in [Keys -> SUBSET Calls]
    /\ stored \in [Keys -> [result : Calls, expired : BOOLEAN] \cup {NoRow}]
    /\ inFlight \in [Processes -> [Keys -> Calls \cup {NoCall}]]
    /\ call \in [Calls -> {Unmade} \cup
         [pc : Pending \cup {"done", "failed"}, process : Processes, key : Keys,
          seen : Calls \cup {NoCall}, after : SUBSET Calls]]
    /\ losses \in 0..MaxLosses

At(c, pc)   == call[c].pc = pc
Goto(c, pc) == call' = [call EXCEPT ![c].pc = pc]

-----------------------------------------------------------------------------

Init ==
    /\ effects = [k \in Keys |-> {}]
    /\ stored = [k \in Keys |-> NoRow]
    /\ inFlight = [p \in Processes |-> [k \in Keys |-> NoCall]]
    /\ call = [c \in Calls |-> Unmade]
    /\ losses = 0

\* The calls that have been answered under a key.
Answered(k) == {d \in Calls : call[d].pc = "done" /\ call[d].key = k}

\* History: a call remembers which calls were answered before it began.
Begin(c, p, k) ==
    /\ call[c] = Unmade
    /\ call' = [call EXCEPT ![c] = [pc |-> "lookup", process |-> p, key |-> k,
                                    seen |-> NoCall, after |-> Answered(k)]]
    /\ UNCHANGED <<effects, stored, inFlight, losses>>

\* getCachedResult: the query is evaluated; an expired row counts as none.
Lookup(c) ==
    /\ At(c, "lookup")
    /\ LET row == stored[call[c].key] IN
       call' = [call EXCEPT ![c].pc = "resume",
                            ![c].seen = IF row.expired THEN NoCall ELSE row.result]
    /\ UNCHANGED <<effects, stored, inFlight, losses>>

\* The call resumes with what the query answered: return it, share the
\* promise in flight, or run the operation and publish the promise.
ReturnStored(c) ==
    /\ At(c, "resume")
    /\ call[c].seen # NoCall
    /\ Goto(c, "done")
    /\ UNCHANGED <<effects, stored, inFlight, losses>>

Sharable(c) == inFlight[call[c].process][call[c].key]

Join(c) ==
    /\ At(c, "resume")
    /\ call[c].seen = NoCall
    /\ Sharable(c) # NoCall
    /\ call' = [call EXCEPT ![c].pc = "joined", ![c].seen = Sharable(c)]
    /\ UNCHANGED <<effects, stored, inFlight, losses>>

\* Mutant of Run: the map of promises in flight is not consulted.
RunAlways(c) ==
    /\ At(c, "resume")
    /\ call[c].seen = NoCall
    /\ inFlight' = [inFlight EXCEPT ![call[c].process][call[c].key] = c]
    /\ Goto(c, "running")
    /\ UNCHANGED <<effects, stored, losses>>

Run(c) ==
    /\ At(c, "resume")
    /\ call[c].seen = NoCall
    /\ Sharable(c) = NoCall
    /\ inFlight' = [inFlight EXCEPT ![call[c].process][call[c].key] = c]
    /\ Goto(c, "running")
    /\ UNCHANGED <<effects, stored, losses>>

\* fn() commits ...
Execute(c) ==
    /\ At(c, "running")
    /\ effects' = [effects EXCEPT ![call[c].key] = @ \cup {c}]
    /\ call' = [call EXCEPT ![c].pc = "storing", ![c].seen = c]
    /\ UNCHANGED <<stored, inFlight, losses>>

\* Mutant of Store: the call goes on without waiting for the upsert.
StoreNothing(c) ==
    /\ At(c, "storing")
    /\ Goto(c, "stored")
    /\ UNCHANGED <<effects, stored, inFlight, losses>>

\* ... its result is upserted with a new expiry ...
Store(c) ==
    /\ At(c, "storing")
    /\ stored' = [stored EXCEPT ![call[c].key] = [result |-> c, expired |-> FALSE]]
    /\ Goto(c, "stored")
    /\ UNCHANGED <<effects, inFlight, losses>>

Forget(c) == inFlight' = [inFlight EXCEPT ![call[c].process][call[c].key] = NoCall]

\* ... and the finally block takes the promise out of the map.
Finish(c) ==
    /\ At(c, "stored")
    /\ Forget(c)
    /\ Goto(c, "done")
    /\ UNCHANGED <<effects, stored, losses>>

\* Mutant of Reject: the promise is taken out of the map on success only.
RejectKept(c) ==
    /\ call[c].pc \in {"running", "storing"}
    /\ Goto(c, "failed")
    /\ losses' = IF At(c, "running") THEN losses ELSE losses + 1
    /\ losses' <= MaxLosses
    /\ UNCHANGED <<effects, stored, inFlight>>

\* fn() rejects and has done nothing, or the upsert fails after it committed.
Reject(c) ==
    /\ call[c].pc \in {"running", "storing"}
    /\ Goto(c, "failed")
    /\ Forget(c)
    /\ losses' = IF At(c, "running") THEN losses ELSE losses + 1
    /\ losses' <= MaxLosses
    /\ UNCHANGED <<effects, stored>>

\* Mutant of Settle: a rejected promise is returned as an answer.
SettleBlindly(c) ==
    /\ At(c, "joined")
    /\ call[call[c].seen].pc \in {"done", "failed"}
    /\ Goto(c, "done")
    /\ UNCHANGED <<effects, stored, inFlight, losses>>

\* Mutant of Settle: a rejection does not reach the calls that share it.
SettleOnSuccess(c) ==
    /\ At(c, "joined")
    /\ call[call[c].seen].pc = "done"
    /\ Goto(c, "done")
    /\ UNCHANGED <<effects, stored, inFlight, losses>>

\* A shared promise settles for everyone who awaits it.
Settle(c) ==
    /\ At(c, "joined")
    /\ call[call[c].seen].pc \in {"done", "failed"}
    /\ Goto(c, call[call[c].seen].pc)
    /\ UNCHANGED <<effects, stored, inFlight, losses>>

\* A process stops: its calls end without an answer, its map is lost.
Crash(p) ==
    /\ losses < MaxLosses
    /\ losses' = losses + 1
    /\ inFlight' = [inFlight EXCEPT ![p] = [k \in Keys |-> NoCall]]
    /\ call' = [c \in Calls |->
         IF call[c].pc \in Pending /\ call[c].process = p
         THEN [call[c] EXCEPT !.pc = "failed"] ELSE call[c]]
    /\ UNCHANGED <<effects, stored>>

\* Twenty-four hours pass without the row being written again.
Expire(k) ==
    /\ stored[k].result # NoCall
    /\ losses < MaxLosses
    /\ losses' = losses + 1
    /\ stored' = [stored EXCEPT ![k].expired = TRUE]
    /\ UNCHANGED <<effects, inFlight, call>>

\* cleanupExpiredKeys, every hour.
Cleanup ==
    /\ \E k \in Keys : stored[k].expired
    /\ stored' = [k \in Keys |-> IF stored[k].expired THEN NoRow ELSE stored[k]]
    /\ UNCHANGED <<effects, inFlight, call, losses>>

Continue(c) ==
    \/ Lookup(c) \/ ReturnStored(c) \/ Join(c) \/ Run(c)
    \/ Execute(c) \/ Store(c) \/ Finish(c) \/ Settle(c)

Next ==
    \/ \E c \in Calls :
          \/ \E p \in Processes, k \in Keys : Begin(c, p, k)
          \/ Continue(c)
          \/ Reject(c)
    \/ \E p \in Processes : Crash(p)
    \/ \E k \in Keys : Expire(k)
    \/ Cleanup

\* The event loop resumes every call whose await has settled; operations
\* and queries end.
Fairness == \A c \in Calls : WF_vars(Continue(c))

Spec == Init /\ [][Next]_vars
FairSpec == Spec /\ Fairness

-----------------------------------------------------------------------------
(* Properties. *)

\* One process never runs the operation twice at the same time under one
\* key: while a promise is in flight, later calls share it.
OneInFlight ==
    \A c, d \in Calls :
        /\ call[c].pc \in Executing /\ call[d].pc \in Executing
        /\ call[c].process = call[d].process /\ call[c].key = call[d].key
        => c = d

\* The map holds a promise exactly while its call executes: an entry left
\* behind would be returned to every later request (the finally block).
MapHoldsExecuting ==
    \A p \in Processes, k \in Keys, c \in Calls :
        (inFlight[p][k] = c) <=>
            (call[c].pc \in Executing /\ call[c].process = p /\ call[c].key = k)

\* A call that returns a result returns that of an operation which committed
\* under its own key, whether it ran it, shared it or read it from the table.
AnswersAreReal ==
    \A c \in Calls : At(c, "done") => call[c].seen \in effects[call[c].key]

\* A call that finds no result shares an operation only while it is running: one
\* that failed has left the map, so whoever asks after the failure runs the
\* operation anew and is not told of an old failure (the finally block).
SharedWhileRunning ==
    [][\A c \in Calls :
          At(c, "resume") /\ call'[c].pc = "joined"
              => call[call'[c].seen].pc \in Executing]_vars

\* Whatever crashes or fails, every call returns or is refused.
EveryCallReturns ==
    \A c \in Calls : call[c].pc \in Pending ~> call[c].pc \in {"done", "failed"}

\* As long as nothing was lost and nothing expired, a call that begins after
\* another was answered under its key does not execute again ("no repetition"
\* in the head comment of the service): it finds the result in the table, on
\* whichever process it lands.
RepeatNotExecuted ==
    losses = 0 => \A k \in Keys : \A c \in effects[k] : call[c].after = {}

=============================================================================
