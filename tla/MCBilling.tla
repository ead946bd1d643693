----------------------------- MODULE MCBilling -----------------------------
(* One customer who buys once, with a refund to follow.                      *)
EXTENDS BillingPage

CONSTANTS u1, p1

MCBuyer == [p \in Purchases |-> u1]

MCGrant == [p \in Purchases |-> 2]

MCEvents == {[kind |-> kind, purchase |-> p1, n |-> 0] : kind \in {"paid", "unpaid", "refund"}}

MCUsage == {[user |-> u1, key |-> <<"usage", 1>>, amount |-> -1, clamp |-> TRUE]}

MCRequests == {RequestOf(e) : e \in Events} \union Usage
=============================================================================
