------------------------------ MODULE Checkout ------------------------------
(***************************************************************************)
(* routes/checkout.ts: POST /checkout and the Stripe webhook, which is the *)
(* only way a payment becomes minutes.  Stripe and the customer's card are *)
(* external: Stripe sends an event again until it is answered with 2xx, in *)
(* any order, and may send it while an earlier delivery is being handled.  *)
(*                                                                         *)
(* The wallet is Ledger, the abstract one: a call of it is one Post, or    *)
(* nothing when its key is posted already.  Wallet shows that the code     *)
(* keeps that promise.  Unlike the wallet, the handler is not a            *)
(* transaction: each of its statements commits by itself.                  *)
(***************************************************************************)
EXTENDS Ledger, FiniteSets

CONSTANTS
    Purchases,  \* the ids that Purchase rows may get
    Buyer,      \* Buyer[p]: the user of purchase p
    Grant,      \* Grant[p]: durationMinutes of the product of p
    Events,     \* the events Stripe may emit: [kind, purchase, n]
    Handlers,   \* the deliveries that may be handled at once
    NoEvent,    \* the event of an idle handler
    Usage       \* the debits of metering, as requests of the wallet

Kinds == {"paid", "unpaid", "refund", "dispute"}

ASSUME CheckoutAssumption ==
    /\ Buyer \in [Purchases -> Users]
    /\ Grant \in [Purchases -> Nat]
    /\ Events \subseteq [kind : Kinds, purchase : Purchases, n : Nat]
    /\ NoEvent \notin Events

VARIABLES
    purchase,   \* purchase[p]: status and stripePaymentIntentId of the Purchase row
    suspended,  \* the users whose status is SUSPENDED
    loggedIn,   \* the users who have a Session row
    gate,       \* the ids in StripeEvent
    stamped,    \* those of them with processedAt set
    stripe,     \* stripe[e]: what Stripe knows of event e
    hand,       \* hand[h]: the delivery that handler h is at work on
    astray      \* history, which no guard reads: the events with a delivery that was cut short
                \* and left its row behind, or answered as the duplicate of one still at work

rows == <<purchase, suspended, loggedIn, gate, stamped, astray>>
checkoutVars == <<minutes, posted, rows, stripe, hand>>

PurchaseRow == [status : {"NONE", "PENDING", "PAID", "REFUNDED"}, intent : BOOLEAN]

HandSteps == {"idle", "handle", "status", "suspend", "logout", "stamp", "undo"}

CheckoutTypeOK ==
    /\ minutes \in [Users -> Nat]
    /\ posted \subseteq [user : Users, key : {r.key : r \in Requests}, amount : Int]
    /\ purchase \in [Purchases -> PurchaseRow]
    /\ suspended \subseteq Users
    /\ loggedIn \subseteq Users
    /\ gate \subseteq Events
    /\ stamped \subseteq gate
    /\ stripe \in [Events -> {"none", "pending", "acked"}]
    /\ hand \in [Handlers -> [step : HandSteps, event : Events \union {NoEvent}]]
    /\ astray \subseteq Events

-----------------------------------------------------------------------------
(* Helpers.                                                                *)

Key(e) == <<"stripe", e>>

IsPosted(k) == \E entry \in posted : entry.key = k

\* The wallet call that the handler of event e makes.
RequestOf(e) ==
    [user |-> Buyer[e.purchase], key |-> Key(e),
     amount |-> IF e.kind = "paid" THEN Grant[e.purchase] ELSE -Grant[e.purchase],
     clamp |-> e.kind # "paid"]

\* Every call is a request that the ledger knows, and metering takes minutes under
\* keys of its own (session:<id>:<n>).
ASSUME CallersAssumption ==
    /\ Usage \union {RequestOf(e) : e \in Events} \subseteq Requests
    /\ \A r \in Usage : /\ r.user \in Users /\ r.amount \in Int /\ r.amount <= 0
                         /\ r.clamp \in BOOLEAN /\ \A e \in Events : r.key # Key(e)

\* applyWalletTransaction: at most one Post of the key.
CallWallet(r) ==
    IF IsPosted(r.key) THEN UNCHANGED <<minutes, posted>> ELSE Post(r)

\* A delivery of event e is at work.
InHand(e) == \E h \in Handlers : hand[h].event = e

Step(h, step) == hand' = [hand EXCEPT ![h].step = step]

Idle == [step |-> "idle", event |-> NoEvent]

-----------------------------------------------------------------------------
(* The customer and Stripe.                                                *)

CheckoutInit ==
    /\ Init
    /\ purchase = [p \in Purchases |-> [status |-> "NONE", intent |-> FALSE]]
    /\ suspended = {}
    /\ loggedIn = {}
    /\ gate = {}
    /\ stamped = {}
    /\ stripe = [e \in Events |-> "none"]
    /\ hand = [h \in Handlers |-> Idle]
    /\ astray = {}

\* POST /checkout: a PENDING row, then a checkout session at Stripe.  Behind
\* requireAuth, so for a customer with a session and in good standing.
StartCheckout(p) ==
    /\ purchase[p].status = "NONE"
    /\ Buyer[p] \in loggedIn \ suspended
    /\ purchase' = [purchase EXCEPT ![p].status = "PENDING"]
    /\ UNCHANGED <<minutes, posted, suspended, loggedIn, gate, stamped, stripe, hand, astray>>

\* A magic link opens a session, for a suspended user too.
Login(u) ==
    /\ loggedIn' = loggedIn \union {u}
    /\ UNCHANGED <<minutes, posted, purchase, suspended, gate, stamped, stripe, hand, astray>>

\* The checkout session of p completes, paid or (delayed settlement) not yet; a
\* payment that was taken may be refunded, in part or whole, or disputed.
Emitted(kind, p) == \E e \in Events : e.kind = kind /\ e.purchase = p /\ stripe[e] # "none"

StripeEmits(e) ==
    /\ stripe[e] = "none"
    /\ purchase[e.purchase].status # "NONE"
    /\ IF e.kind \in {"paid", "unpaid"}
       THEN ~Emitted("paid", e.purchase) /\ ~Emitted("unpaid", e.purchase)
       ELSE Emitted("paid", e.purchase)
    /\ stripe' = [stripe EXCEPT ![e] = "pending"]
    /\ UNCHANGED <<minutes, posted, rows, hand>>

\* Metering spends minutes meanwhile.
Spend(r) ==
    /\ Post(r)
    /\ UNCHANGED <<rows, stripe, hand>>

-----------------------------------------------------------------------------
(* POST /webhooks/stripe.                                                  *)

\* Mutant: 200 at once, before the work is done.
ReceiveAndAnswer(h, e) ==
    /\ hand[h].step = "idle"
    /\ stripe[e] # "none"
    /\ e \notin gate
    /\ gate' = gate \union {e}
    /\ hand' = [hand EXCEPT ![h] = [step |-> "handle", event |-> e]]
    /\ stripe' = [stripe EXCEPT ![e] = "acked"]
    /\ UNCHANGED <<minutes, posted, purchase, suspended, loggedIn, stamped, astray>>

\* The insert of the event id lets the delivery in.  An event that Stripe has
\* seen answered may be sent once more, by hand.
Receive(h, e) ==
    /\ hand[h].step = "idle"
    /\ stripe[e] # "none"
    /\ e \notin gate
    /\ gate' = gate \union {e}
    /\ hand' = [hand EXCEPT ![h] = [step |-> "handle", event |-> e]]
    /\ UNCHANGED <<minutes, posted, purchase, suspended, loggedIn, stamped, stripe, astray>>

\* Zero rows inserted: answered as already handled, which nothing looks up.
AnswerDuplicate(h, e) ==
    /\ hand[h].step = "idle"
    /\ stripe[e] = "pending"
    /\ e \in gate
    /\ stripe' = [stripe EXCEPT ![e] = "acked"]
    /\ astray' = IF e \notin stamped /\ InHand(e) THEN astray \union {e} ELSE astray
    /\ UNCHANGED <<minutes, posted, purchase, suspended, loggedIn, gate, stamped, hand>>

\* Mutant: a session that completes is taken for a paid one.
RecordPaid(h) ==
    LET e == hand[h].event
    IN  /\ hand[h].step = "handle"
        /\ e.kind = "unpaid"
        /\ purchase' = [purchase EXCEPT ![e.purchase] = [status |-> "PAID", intent |-> TRUE]]
        /\ Step(h, "stamp")
        /\ UNCHANGED <<minutes, posted, suspended, loggedIn, gate, stamped, stripe, astray>>

\* handleCheckoutCompleted, payment_status not 'paid'.
RecordUnpaid(h) ==
    LET e == hand[h].event
    IN  /\ hand[h].step = "handle"
        /\ e.kind = "unpaid"
        /\ purchase' = [purchase EXCEPT ![e.purchase] = [status |-> "PENDING", intent |-> TRUE]]
        /\ Step(h, "stamp")
        /\ UNCHANGED <<minutes, posted, suspended, loggedIn, gate, stamped, stripe, astray>>

\* A product that grants no minutes: logged, and nothing is done.
GrantsNothing(h) ==
    LET e == hand[h].event
    IN  /\ hand[h].step = "handle"
        /\ e.kind = "paid"
        /\ Grant[e.purchase] = 0
        /\ Step(h, "stamp")
        /\ UNCHANGED <<minutes, posted, rows, stripe>>

\* Mutant: the minutes are credited whatever payment_status says.
CreditUnchecked(h) ==
    LET e == hand[h].event
    IN  /\ hand[h].step = "handle"
        /\ e.kind \in {"paid", "unpaid"}
        /\ CallWallet([RequestOf(e) EXCEPT !.amount = Grant[e.purchase]])
        /\ Step(h, "status")
        /\ UNCHANGED <<rows, stripe>>

Credit(h) ==
    LET e == hand[h].event
    IN  /\ hand[h].step = "handle"
        /\ e.kind = "paid"
        /\ Grant[e.purchase] > 0
        /\ CallWallet(RequestOf(e))
        /\ Step(h, "status")
        /\ UNCHANGED <<rows, stripe>>

\* A refund or a dispute finds its purchase by the payment intent, which only
\* the completed session has written: without it there is nothing to do.
UnknownIntent(h) ==
    LET e == hand[h].event
    IN  /\ hand[h].step = "handle"
        /\ e.kind \in {"refund", "dispute"}
        /\ ~purchase[e.purchase].intent
        /\ Step(h, "stamp")
        /\ UNCHANGED <<minutes, posted, rows, stripe>>

\* Mutant: the purchase keeps the status it has.
TakeBackOnly(h) ==
    LET e == hand[h].event
    IN  /\ hand[h].step = "handle"
        /\ e.kind \in {"refund", "dispute"}
        /\ purchase[e.purchase].intent
        /\ CallWallet(RequestOf(e))
        /\ Step(h, IF e.kind = "refund" THEN "stamp" ELSE "suspend")
        /\ UNCHANGED <<rows, stripe>>

\* handleRefund and handleDispute: the whole grant, clamped at what is left.
TakeBack(h) ==
    LET e == hand[h].event
    IN  /\ hand[h].step = "handle"
        /\ e.kind \in {"refund", "dispute"}
        /\ purchase[e.purchase].intent
        /\ CallWallet(RequestOf(e))
        /\ Step(h, IF e.kind = "refund" THEN "status" ELSE "suspend")
        /\ UNCHANGED <<rows, stripe>>

\* purchase.update after the wallet call.
RecordStatus(h) ==
    LET e == hand[h].event
    IN  /\ hand[h].step = "status"
        /\ purchase' = [purchase EXCEPT ![e.purchase] =
                          IF e.kind = "paid" THEN [status |-> "PAID", intent |-> TRUE]
                          ELSE [@ EXCEPT !.status = "REFUNDED"]]
        /\ Step(h, "stamp")
        /\ UNCHANGED <<minutes, posted, suspended, loggedIn, gate, stamped, stripe, astray>>

Suspend(h) ==
    /\ hand[h].step = "suspend"
    /\ suspended' = suspended \union {Buyer[hand[h].event.purchase]}
    /\ Step(h, "logout")
    /\ UNCHANGED <<minutes, posted, purchase, loggedIn, gate, stamped, stripe, astray>>

LogOut(h) ==
    /\ hand[h].step = "logout"
    /\ loggedIn' = loggedIn \ {Buyer[hand[h].event.purchase]}
    /\ Step(h, "stamp")
    /\ UNCHANGED <<minutes, posted, purchase, suspended, gate, stamped, stripe, astray>>

\* processedAt, and 200.
Stamp(h) ==
    LET e == hand[h].event
    IN  /\ hand[h].step = "stamp"
        /\ stamped' = stamped \union {e}
        /\ stripe' = [stripe EXCEPT ![e] = "acked"]
        /\ hand' = [hand EXCEPT ![h] = Idle]
        /\ UNCHANGED <<minutes, posted, purchase, suspended, loggedIn, gate, astray>>

\* A statement of the handler throws, for instance when the database is briefly
\* away; the catch deletes the event row, and the answer is 500.
Throw(h) ==
    /\ hand[h].step \in {"handle", "status", "suspend", "logout"}
    /\ Step(h, "undo")
    /\ UNCHANGED <<minutes, posted, rows, stripe>>

\* Mutant: the catch as its comment has it, with the event row left in place.
UndoNothing(h) ==
    /\ hand[h].step = "undo"
    /\ hand' = [hand EXCEPT ![h] = Idle]
    /\ UNCHANGED <<minutes, posted, rows, stripe>>

\* Mutant: the catch answers 200 as well.
UndoAndAnswer(h) ==
    /\ hand[h].step = "undo"
    /\ gate' = gate \ {hand[h].event}
    /\ stripe' = [stripe EXCEPT ![hand[h].event] = "acked"]
    /\ hand' = [hand EXCEPT ![h] = Idle]
    /\ UNCHANGED <<minutes, posted, purchase, suspended, loggedIn, stamped, astray>>

Undo(h) ==
    /\ hand[h].step = "undo"
    /\ gate' = gate \ {hand[h].event}
    /\ hand' = [hand EXCEPT ![h] = Idle]
    /\ UNCHANGED <<minutes, posted, purchase, suspended, loggedIn, stamped, stripe, astray>>

\* The server stops, or the delete of the catch fails as well (.catch(() => {})),
\* or the update of processedAt throws: what is written stays as it is.  At the stamp
\* the work is done and only its mark is missing.
Stop(h) ==
    /\ hand[h].step # "idle"
    /\ hand' = [hand EXCEPT ![h] = Idle]
    /\ astray' = IF hand[h].step = "stamp" THEN astray ELSE astray \union {hand[h].event}
    /\ UNCHANGED <<minutes, posted, purchase, suspended, loggedIn, gate, stamped, stripe>>

Work(h) ==
    \/ RecordUnpaid(h)
    \/ GrantsNothing(h)
    \/ Credit(h)
    \/ UnknownIntent(h)
    \/ TakeBack(h)
    \/ RecordStatus(h)
    \/ Suspend(h)
    \/ LogOut(h)
    \/ Stamp(h)
    \/ Undo(h)

Deliver(e) == \E h \in Handlers : Receive(h, e) \/ AnswerDuplicate(h, e)

CheckoutNext ==
    \/ \E p \in Purchases : StartCheckout(p)
    \/ \E u \in Users : Login(u)
    \/ \E e \in Events : StripeEmits(e) \/ Deliver(e)
    \/ \E r \in Usage : Spend(r)
    \/ \E h \in Handlers : Work(h) \/ Throw(h) \/ Stop(h)

CheckoutSpec == CheckoutInit /\ [][CheckoutNext]_checkoutVars

-----------------------------------------------------------------------------
(* What must hold.                                                         *)

\* A completed session has been recorded, and credited if it paid for minutes; a
\* refund or dispute has had its whole effect or, when the intent was unknown, none.
Done(e) ==
    /\ e.kind = "unpaid" => purchase[e.purchase].intent
    /\ e.kind = "paid" /\ Grant[e.purchase] > 0 =>
          IsPosted(Key(e)) /\ purchase[e.purchase].intent
    /\ e.kind = "refund" /\ IsPosted(Key(e)) => purchase[e.purchase].status = "REFUNDED"
    /\ e.kind = "dispute" /\ IsPosted(Key(e)) => Buyer[e.purchase] \in suspended

\* processedAt can be trusted: no stamped event was left half done, whatever was
\* refunded, redelivered or cut short before and after it.
StampedIsDone == \A e \in stamped : Done(e)

\* Step 3 of the router's order, "zero rows inserted means already handled", with step 5,
\* any non-2xx makes Stripe retry: an event is answered with 200 only when it has been
\* handled, so once no delivery of it is at work, what it is for has been done.
Answered(e) == stripe[e] = "acked" /\ ~InHand(e) => Done(e)

AnsweredIsDone == \A e \in Events : Answered(e)

\* What the code keeps of that, with throws, stops and deliveries in parallel: it is so of
\* every event none of whose deliveries was cut short with the row left behind, or
\* answered as the duplicate of one that was still at work.
AnsweredInTurn == \A e \in Events \ astray : Answered(e)

\* The status the customer polls (GET /purchases/:id) never runs ahead of the
\* ledger: PAID only with the minutes credited, REFUNDED only with them taken back.
StatusFollowsLedger ==
    \A p \in Purchases :
        /\ purchase[p].status = "PAID" =>
              \E e \in Events : e.kind = "paid" /\ e.purchase = p /\ IsPosted(Key(e))
        /\ purchase[p].status = "REFUNDED" =>
              \E e \in Events : e.kind = "refund" /\ e.purchase = p /\ IsPosted(Key(e))

\* Minutes come from money: what a purchase is credited is what its product grants, and
\* only when Stripe has said that it was paid.
OnlyPaidIsCredited ==
    \A entry \in posted :
        entry.amount > 0 /\ entry.key[1] = "stripe" =>
            LET p == entry.key[2].purchase
            IN  entry.amount = Grant[p] /\ Emitted("paid", p)

\* Nobody pays and gets nothing: a payment is credited in the end, however often its
\* handler throws and whatever is delivered beside it.  The exceptions are the payments
\* with a delivery that the server's stop or a failing delete in the catch cut short, and
\* those with one answered as the duplicate of a delivery still at work: Stripe has its
\* 200 for these, and may never send them again.
PaidIsCredited ==
    \A e \in Events :
        e.kind = "paid" /\ Grant[e.purchase] > 0 /\ stripe[e] # "none"
            ~> IsPosted(Key(e)) \/ e \in astray

\* Nobody gets the money back and keeps the minutes: a refund or dispute of a payment
\* whose intent is on record by the time it is let in is taken back in the end, with the
\* same exceptions.
KnownIsTakenBack ==
    \A e \in Events :
        /\ e.kind \in {"refund", "dispute"}
        /\ stripe[e] = "pending"
        /\ e \notin gate
        /\ purchase[e.purchase].intent
        ~> IsPosted(Key(e)) \/ e \in astray
=============================================================================
