------------------------------- MODULE Ledger -------------------------------
(***************************************************************************)
(* What the wallet promises, with nothing of how it keeps the promise: an  *)
(* account of minutes per user, and the set of entries posted to the       *)
(* accounts.  A request is posted at most once per idempotency key, in one *)
(* step, and never takes a balance below zero.                             *)
(* (The promise is the header of services/walletService.ts.)               *)
(***************************************************************************)
EXTENDS Integers

CONSTANTS
    Users,      \* the customers
    Requests    \* the changes the callers may ask for: [user, key, amount, clamp]

VARIABLES
    minutes,    \* minutes[u]: the minutes user u may still spend
    posted      \* the entries posted so far

\* What request r takes or gives when the account holds m minutes: a clamped
\* debit takes what is left.
Applied(r, m) == IF r.clamp /\ m + r.amount < 0 THEN -m ELSE r.amount

Init ==
    /\ minutes = [u \in Users |-> 0]
    /\ posted = {}

Post(r) ==
    LET amount == Applied(r, minutes[r.user])
    IN  /\ \A e \in posted : e.key # r.key
        /\ minutes[r.user] + amount >= 0
        /\ minutes' = [minutes EXCEPT ![r.user] = @ + amount]
        /\ posted' = posted \union {[user |-> r.user, key |-> r.key, amount |-> amount]}

Next == \E r \in Requests : Post(r)

Spec == Init /\ [][Next]_<<minutes, posted>>
=============================================================================
