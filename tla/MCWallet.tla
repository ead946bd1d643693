------------------------------ MODULE MCWallet ------------------------------
(* Wallet for TLC: two customers, and callers that race on one key with two  *)
(* different amounts, as two metering ticks of one session do.               *)
EXTENDS Wallet

CONSTANTS u1, u2, kBuy, kTick, kSpend, kOther

Change(u, k, a, cl) == [user |-> u, key |-> k, amount |-> a, clamp |-> cl]

MCRequests == {
    Change(u1, kBuy, 2, FALSE),         \* a purchase
    Change(u1, kTick, -1, TRUE),        \* a metering tick
    Change(u1, kTick, -3, TRUE),        \* a later tick that computed the same key
    Change(u1, kSpend, -1, FALSE),      \* a debit that is refused on an empty wallet
    Change(u2, kOther, 1, FALSE)}
=============================================================================
