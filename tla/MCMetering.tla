---------------------------- MODULE MCMetering ----------------------------
(* Metering for TLC: one customer with one or two devices, a purchase and a  *)
(* refund.                                                                   *)
EXTENDS Metering, TLC

CONSTANTS u1, buy, topUp, refund, BuyMinutes, TopUpMinutes, RefundMinutes

MCOwner == [d \in Devices |-> u1]

Stripe(e, a, cl) == [user |-> u1, key |-> <<"stripe", e>>, amount |-> a, clamp |-> cl]

\* A purchase, a second one, and a refund, clamped; none when its amount is 0.
MCCredits == {r \in {Stripe(buy, BuyMinutes, FALSE), Stripe(topUp, TopUpMinutes, FALSE),
                     Stripe(refund, -RefundMinutes, TRUE)} : r.amount # 0}

MCCharges == {[user |-> u1, key |-> <<"session", s, n>>, amount |-> -m, clamp |-> TRUE] :
                s \in Sessions, n \in 0 .. MaxTime, m \in 1 .. MaxTime}

MCRequests == MCCredits \union MCCharges

MCKeys == {r.key : r \in MCRequests}

\* The handlers, and the devices of the one customer, are interchangeable.
MeteringSymmetry == Permutations(Calls) \union Permutations(Devices)
===========================================================================
