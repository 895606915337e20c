----------------------------- MODULE TransferBook -----------------------------
(***************************************************************************)
(* What internal transfers promise, without requests, transactions or      *)
(* tables: under each idempotency key at most one movement of money takes  *)
(* effect, at once and for good, and a movement is undone at most once, by *)
(* a movement under a key of its own that restores both balances.          *)
(***************************************************************************)
EXTENDS Integers

CONSTANTS Names,   \* idempotency keys
          Places,  \* vaults
          Sums     \* the amounts that may be moved

VARIABLES movement,  \* Names -> what took effect under the key, or Nothing
          balance    \* Places -> money held

Nothing == [kind |-> "none"]

Movements == {Nothing}
    \cup [kind : {"moved", "undone"}, from : Places, to : Places, amount : Sums]
    \cup [kind : {"undoing"}, target : Names]

Shift(from, to, amount) ==
    balance' = [p \in Places |->
                  balance[p] + (IF p = to THEN amount ELSE 0)
                             - (IF p = from THEN amount ELSE 0)]

BookInit ==
    /\ movement = [n \in Names |-> Nothing]
    /\ balance = [p \in Places |-> 0]

Move(n, from, to, amount) ==
    /\ from # to
    /\ movement' = [movement EXCEPT ![n] =
          [kind |-> "moved", from |-> from, to |-> to, amount |-> amount]]
    /\ Shift(from, to, amount)

Undo(n, t) ==
    /\ movement[t].kind = "moved"
    /\ movement' = [movement EXCEPT ![n] = [kind |-> "undoing", target |-> t],
                                    ![t].kind = "undone"]
    /\ Shift(movement[t].to, movement[t].from, movement[t].amount)

\* A name takes effect once, and what it did never becomes nothing again.
BookNext ==
    \E n \in Names :
        /\ movement[n] = Nothing
        /\ movement'[n] # Nothing
        /\ \/ \E from, to \in Places : \E amount \in Sums : Move(n, from, to, amount)
           \/ \E t \in Names : Undo(n, t)

BookSpec == BookInit /\ [][BookNext]_<<movement, balance>>

=============================================================================
