---------------------------- MODULE MCCheckout ----------------------------
(* The webhook for TLC: one customer, a purchase that grants minutes and one *)
(* of a product that grants none, and the events Stripe may emit for them.   *)
EXTENDS Checkout, TLC

CONSTANTS u1, p1, p2, Refunds, Disputes, Used

MCBuyer == [p \in Purchases |-> u1]

MCGrant == [p \in Purchases |-> IF p = p1 THEN 2 ELSE 0]

Event(kind, p, n) == [kind |-> kind, purchase |-> p, n |-> n]

\* A payment may be refunded in several parts, an event each.
MCEvents == {Event(kind, p, 0) : kind \in {"paid", "unpaid"}, p \in Purchases}
              \union {Event("refund", p1, n) : n \in 1 .. Refunds}
              \union {Event("dispute", p1, n) : n \in 1 .. Disputes}

MCUsage == {[user |-> u1, key |-> <<"usage", n>>, amount |-> -1, clamp |-> TRUE] : n \in 1 .. Used}

MCRequests == {RequestOf(e) : e \in Events} \union Usage

CheckoutSymmetry == Permutations(Handlers)
===========================================================================
