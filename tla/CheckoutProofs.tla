---------------------------- MODULE CheckoutProofs ----------------------------
(***************************************************************************)
(* Proofs about Checkout, for any users, purchases, products, events of    *)
(* Stripe and number of deliveries at once, with throws and stops of the   *)
(* server anywhere.                                                        *)
(*                                                                         *)
(* The argument: the insert of the event's id lets one delivery of it in,  *)
(* and once the event has been stamped never another.  What a delivery has *)
(* done is written before it comes to its stamp, and is undone by nobody:  *)
(* entries of the ledger stay, and a payment intent is on record only when *)
(* the completed session, the one event that could set the status of its   *)
(* purchase back, has nothing left to do.                                  *)
(***************************************************************************)
EXTENDS Checkout, TLAPS

Completed(e) == e.kind \in {"paid", "unpaid"}

IsOut(e) == stripe[e] # "none"

\* The checkout session of a purchase completes once.
CompletesOnce ==
    \A e, f \in Events :
        Completed(e) /\ Completed(f) /\ IsOut(e) /\ IsOut(f) /\ e.purchase = f.purchase => e = f

\* An entry is one of its key, and a credit is a payment's.
EntriesOK ==
    /\ \A x, y \in posted : x.key = y.key => x = y
    /\ \A x \in posted : x.amount > 0 =>
          \E e \in Events : /\ e.kind = "paid" /\ IsOut(e)
                            /\ x.key = Key(e) /\ x.amount = Grant[e.purchase]

\* A delivery has its event for itself, and has done what its step comes after.
HandOK(h) ==
    LET e == hand[h].event
        step == hand[h].step
    IN  /\ step = "idle" <=> e = NoEvent
        /\ step # "idle" => /\ e \in gate \ stamped /\ IsOut(e)
                            /\ \A g \in Handlers \ {h} : hand[g].event # e
        /\ step = "status" => e.kind \in {"paid", "refund"} /\ IsPosted(Key(e))
        /\ step \in {"suspend", "logout"} => e.kind = "dispute"
        /\ step = "logout" => Buyer[e.purchase] \in suspended
        /\ step = "stamp" => Done(e)

\* Once the intent of a purchase is on record its completed session has nothing left
\* to do but to be stamped.
IntentOK(p) ==
    purchase[p].intent =>
        /\ Emitted("paid", p) \/ Emitted("unpaid", p)
        /\ \A e \in Events : Completed(e) /\ e.purchase = p =>
              /\ IsOut(e) => e \in gate
              /\ \A h \in Handlers : hand[h].event = e => hand[h].step = "stamp"

\* Minutes are taken back only for an intent that is on record.
ReturnsKnown ==
    \A e \in Events : ~Completed(e) /\ IsPosted(Key(e)) => purchase[e.purchase].intent

CheckoutIInv ==
    /\ CheckoutTypeOK
    /\ CompletesOnce
    /\ EntriesOK
    /\ \A h \in Handlers : HandOK(h)
    /\ \A p \in Purchases : IntentOK(p)
    /\ ReturnsKnown
    /\ StampedIsDone
    /\ StatusFollowsLedger

-----------------------------------------------------------------------------
(* Lemmas about the ledger and about handlers.                             *)

\* Two events never share a key, and an event has the fields of one.
LEMMA EventFacts ==
    ASSUME NEW e \in Events
    PROVE  /\ e.kind \in Kinds /\ e.purchase \in Purchases
           /\ Buyer[e.purchase] \in Users /\ Grant[e.purchase] \in Nat
           /\ e # NoEvent /\ \A f \in Events : Key(e) = Key(f) => e = f
           /\ RequestOf(e) \in Requests
           /\ RequestOf(e).user = Buyer[e.purchase] /\ RequestOf(e).key = Key(e)
           /\ e.kind = "paid" => RequestOf(e).amount = Grant[e.purchase] /\ ~RequestOf(e).clamp
           /\ e.kind # "paid" => RequestOf(e).amount = -Grant[e.purchase] /\ RequestOf(e).clamp
  BY CheckoutAssumption, CallersAssumption DEF RequestOf, Key

\* A post of a request adds an entry of its key, and nothing to what was there.
LEMMA PostFacts ==
    ASSUME CheckoutIInv, NEW r \in Requests, r.user \in Users, r.amount \in Int, r.clamp \in BOOLEAN,
           Post(r)
    PROVE  /\ minutes' \in [Users -> Nat]
           /\ posted' \subseteq [user : Users, key : {q.key : q \in Requests}, amount : Int]
           /\ \A k : IsPosted(k)' <=> IsPosted(k) \/ k = r.key
           /\ \A x, y \in posted' : x.key = y.key => x = y
           /\ \A x \in posted' : x \in posted \/ /\ x.key = r.key
                                                 /\ r.amount <= 0 => x.amount <= 0
                                                 /\ ~r.clamp => x.amount = r.amount
  <1> DEFINE m == minutes[r.user]
             amount == Applied(r, m)
             new == [user |-> r.user, key |-> r.key, amount |-> amount]
  <1>1. minutes \in [Users -> Nat] /\ m \in Nat
    BY DEF CheckoutIInv, CheckoutTypeOK
  <1>2. /\ amount \in Int
        /\ r.amount <= 0 => amount <= 0
        /\ ~r.clamp => amount = r.amount
    BY <1>1 DEF Applied
  <1>3. /\ \A x \in posted : x.key # r.key
        /\ m + amount >= 0
        /\ minutes' = [minutes EXCEPT ![r.user] = m + amount]
        /\ posted' = posted \union {new}
    BY <1>1 DEF Post
  <1>4. new \in [user : Users, key : {q.key : q \in Requests}, amount : Int]
        /\ new.key = r.key /\ new.amount = amount
    BY <1>2
  <1> HIDE DEF m, amount, new
  <1>5. minutes' \in [Users -> Nat]
    BY <1>1, <1>2, <1>3
  <1>6. posted' \subseteq [user : Users, key : {q.key : q \in Requests}, amount : Int]
    BY <1>3, <1>4 DEF CheckoutIInv, CheckoutTypeOK
  <1>7. \A k : IsPosted(k)' <=> IsPosted(k) \/ k = r.key
    BY <1>3, <1>4 DEF IsPosted
  <1>8. \A x, y \in posted' : x.key = y.key => x = y
    BY <1>3, <1>4 DEF CheckoutIInv, EntriesOK
  <1> QED BY <1>2, <1>3, <1>4, <1>5, <1>6, <1>7, <1>8

\* The same of a call of the wallet by the handler of an event.
LEMMA CallFacts ==
    ASSUME CheckoutIInv, NEW e \in Events, CallWallet(RequestOf(e))
    PROVE  /\ minutes' \in [Users -> Nat]
           /\ posted' \subseteq [user : Users, key : {q.key : q \in Requests}, amount : Int]
           /\ \A k : IsPosted(k)' <=> IsPosted(k) \/ k = Key(e)
           /\ \A x, y \in posted' : x.key = y.key => x = y
           /\ \A x \in posted' : x \in posted \/ /\ x.key = Key(e)
                                                 /\ e.kind # "paid" => x.amount <= 0
                                                 /\ e.kind = "paid" => x.amount = Grant[e.purchase]
  <1> DEFINE r == RequestOf(e)
  <1>1. /\ r \in Requests /\ r.user \in Users /\ r.amount \in Int /\ r.clamp \in BOOLEAN
        /\ r.key = Key(e)
        /\ e.kind = "paid" => r.amount = Grant[e.purchase] /\ ~r.clamp
        /\ e.kind # "paid" => r.amount <= 0
    <2>1. r.clamp \in BOOLEAN
      BY DEF RequestOf
    <2> QED BY <2>1, EventFacts
  <1> HIDE DEF r
  <1>2. CASE IsPosted(r.key)
    <2>1. UNCHANGED <<minutes, posted>>
      BY <1>2 DEF CallWallet, r
    <2> QED BY <1>1, <1>2, <2>1 DEF CheckoutIInv, CheckoutTypeOK, EntriesOK, IsPosted
  <1>3. CASE ~IsPosted(r.key)
    <2>1. Post(r)
      BY <1>3 DEF CallWallet, r
    <2> QED BY <1>1, <2>1, PostFacts
  <1> QED BY <1>2, <1>3

\* What a delivery that is at work is known to be at work on.
LEMMA AtWork ==
    ASSUME CheckoutIInv, NEW h \in Handlers, hand[h].step # "idle"
    PROVE  /\ hand[h].event \in Events /\ hand[h].event \in gate /\ hand[h].event \notin stamped
           /\ IsOut(hand[h].event) /\ HandOK(h)
           /\ hand[h].step \in HandSteps
           /\ \A g \in Handlers \ {h} : hand[g].event # hand[h].event
  BY DEF CheckoutIInv, CheckoutTypeOK, HandOK

\* What holds of an event that is done keeps holding: entries and intents stay, nobody is
\* reinstated, and a refunded purchase keeps its status.
LEMMA DoneKept ==
    ASSUME NEW e \in Events, Done(e),
           IsPosted(Key(e)) => IsPosted(Key(e))',
           ~Completed(e) /\ IsPosted(Key(e))' => IsPosted(Key(e)),
           purchase[e.purchase].intent => purchase'[e.purchase].intent,
           e.kind = "refund" /\ IsPosted(Key(e)) /\ purchase[e.purchase].status = "REFUNDED"
              => purchase'[e.purchase].status = "REFUNDED",
           suspended \subseteq suspended'
    PROVE  Done(e)'
  BY DEF Done, Completed

\* A step that leaves the purchases, the ledger and the event rows as they are: it may
\* move one handler on, answer an event, take note of one that went astray, and suspend
\* or log out a user.
LEMMA HandStep ==
    ASSUME CheckoutIInv, UNCHANGED <<minutes, posted, purchase, gate, stamped>>,
           suspended \subseteq suspended', suspended' \subseteq Users, loggedIn' \subseteq Users,
           astray' \subseteq Events,
           stripe' \in [Events -> {"none", "pending", "acked"}],
           \A e \in Events : stripe'[e] # "none" <=> IsOut(e),
           NEW h \in Handlers, NEW new \in [step : HandSteps, event : Events \union {NoEvent}],
           hand' = [hand EXCEPT ![h] = new],
           new = Idle \/ (new.event = hand[h].event /\ hand[h].step \notin {"idle", "stamp"}),
           HandOK(h)'
    PROVE  CheckoutIInv'
  <1> USE DEF CheckoutIInv
  <1>1. /\ hand' \in [Handlers -> [step : HandSteps, event : Events \union {NoEvent}]]
        /\ hand'[h] = new /\ \A g \in Handlers \ {h} : hand'[g] = hand[g]
    BY DEF CheckoutTypeOK
  <1>2. CheckoutTypeOK'
    BY <1>1 DEF CheckoutTypeOK
  <1>3. CompletesOnce' /\ EntriesOK'
    BY DEF CompletesOnce, EntriesOK, IsOut
  <1>4. \A k : IsPosted(k)' <=> IsPosted(k)
    BY DEF IsPosted
  <1>5. ASSUME NEW e \in Events, Done(e) PROVE Done(e)'
    BY <1>4, <1>5, DoneKept
  <1>6. ASSUME NEW g \in Handlers \ {h} PROVE HandOK(g)'
    <2>1. HandOK(g) /\ hand'[g] = hand[g]
      BY <1>1
    <2>2. hand[g].step # "idle" => hand[g].event \in Events /\ new.event # hand[g].event
      BY AtWork, EventFacts DEF Idle
    <2>3. hand[g].step = "stamp" => Done(hand[g].event)'
      BY <1>5, <2>1, <2>2 DEF HandOK
    <2>4. hand[g].step = "status" => IsPosted(Key(hand[g].event))'
      BY <1>4, <2>1 DEF HandOK
    <2> QED BY <1>1, <2>1, <2>2, <2>3, <2>4 DEF HandOK, IsOut
  <1>7. ASSUME NEW p \in Purchases PROVE IntentOK(p)'
    <2>1. Emitted("paid", p)' <=> Emitted("paid", p)
      BY DEF Emitted, IsOut
    <2>2. Emitted("unpaid", p)' <=> Emitted("unpaid", p)
      BY DEF Emitted, IsOut
    <2>3. ASSUME purchase[p].intent, NEW e \in Events, Completed(e), e.purchase = p
          PROVE  /\ IsOut(e)' => e \in gate
                 /\ \A g \in Handlers : hand'[g].event = e => hand'[g].step = "stamp"
      BY <1>1, <2>3, EventFacts DEF IntentOK, IsOut, Idle, HandOK
    <2> QED BY <2>1, <2>2, <2>3 DEF IntentOK, Completed
  <1>8. ReturnsKnown'
    BY <1>4 DEF ReturnsKnown, Completed
  <1>9. StampedIsDone'
    BY <1>5 DEF StampedIsDone, CheckoutTypeOK
  <1>10. StatusFollowsLedger'
    BY <1>4 DEF StatusFollowsLedger
  <1> QED BY <1>2, <1>3, <1>6, <1>7, <1>8, <1>9, <1>10 DEF HandOK

-----------------------------------------------------------------------------
(* One lemma per kind of step.                                             *)

\* A delivery that finds nothing to do goes to its stamp: nothing was to be done, or
\* the wallet was never called, for it would have been only with the intent on record.
LEMMA NothingToDoInv ==
    ASSUME CheckoutIInv, NEW h \in Handlers, GrantsNothing(h) \/ UnknownIntent(h)
    PROVE  CheckoutIInv'
  <1> DEFINE e == hand[h].event
             new == [hand[h] EXCEPT !.step = "stamp"]
  <1>1. /\ hand[h].step = "handle" /\ hand' = [hand EXCEPT ![h].step = "stamp"]
        /\ UNCHANGED <<minutes, posted, rows, stripe>>
        /\ \/ e.kind = "paid" /\ Grant[e.purchase] = 0
           \/ e.kind \in {"refund", "dispute"} /\ ~purchase[e.purchase].intent
    BY DEF GrantsNothing, UnknownIntent, Step
  <1>2. e \in Events /\ HandOK(h) /\ hand[h] \in [step : HandSteps, event : Events \union {NoEvent}]
    BY <1>1, AtWork DEF CheckoutIInv, CheckoutTypeOK
  <1>3. /\ new \in [step : HandSteps, event : Events \union {NoEvent}]
        /\ new.step = "stamp" /\ new.event = e
        /\ hand' = [hand EXCEPT ![h] = new]
    BY <1>1, <1>2 DEF HandSteps, CheckoutIInv, CheckoutTypeOK
  <1>4. Done(e)'
    BY <1>1, <1>2, EventFacts DEF Done, IsPosted, rows, CheckoutIInv, ReturnsKnown, Completed
  <1> HIDE DEF e, new
  <1>5. hand'[h] = new /\ \A g \in Handlers \ {h} : hand'[g] = hand[g]
    BY <1>3 DEF CheckoutIInv, CheckoutTypeOK
  <1>6. HandOK(h)'
    BY <1>1, <1>2, <1>3, <1>4, <1>5, AtWork, EventFacts DEF HandOK, IsOut, rows, e
  <1> QED BY <1>1, <1>2, <1>3, <1>6, HandStep DEF rows, e, CheckoutIInv, CheckoutTypeOK, IsOut

\* The two statements of a dispute that follow the wallet call.
LEMMA DisputeInv ==
    ASSUME CheckoutIInv, NEW h \in Handlers, Suspend(h) \/ LogOut(h)
    PROVE  CheckoutIInv'
  <1> DEFINE e == hand[h].event
  <1>1. hand[h].step \in {"suspend", "logout"}
    BY DEF Suspend, LogOut
  <1>2. /\ e \in Events /\ HandOK(h) /\ e.kind = "dispute"
        /\ hand[h] \in [step : HandSteps, event : Events \union {NoEvent}]
    BY <1>1, AtWork DEF HandOK, CheckoutIInv, CheckoutTypeOK
  <1> DEFINE new == [hand[h] EXCEPT !.step = IF hand[h].step = "suspend" THEN "logout" ELSE "stamp"]
  <1>3. /\ new \in [step : HandSteps, event : Events \union {NoEvent}]
        /\ new.step = (IF hand[h].step = "suspend" THEN "logout" ELSE "stamp") /\ new.event = e
        /\ hand' = [hand EXCEPT ![h] = new]
    BY <1>1, <1>2 DEF HandSteps, Suspend, LogOut, Step, CheckoutIInv, CheckoutTypeOK
  <1>4. /\ UNCHANGED <<minutes, posted, purchase, gate, stamped, stripe, astray>>
        /\ suspended \subseteq suspended' /\ suspended' \subseteq Users /\ loggedIn' \subseteq Users
        /\ Buyer[e.purchase] \in suspended'
    BY <1>1, <1>2, EventFacts DEF Suspend, LogOut, HandOK, CheckoutIInv, CheckoutTypeOK
  <1> HIDE DEF new
  <1>5. hand'[h] = new /\ \A g \in Handlers \ {h} : hand'[g] = hand[g]
    BY <1>3 DEF CheckoutIInv, CheckoutTypeOK
  <1>6. Done(e)'
    BY <1>2, <1>3, <1>4, <1>5 DEF Done
  <1>7. HandOK(h)'
    BY <1>1, <1>2, <1>3, <1>4, <1>5, <1>6, AtWork, EventFacts DEF HandOK, IsOut
  <1> QED BY <1>1, <1>2, <1>3, <1>4, <1>7, HandStep DEF CheckoutIInv, CheckoutTypeOK, IsOut

\* A statement throws.
LEMMA ThrowInv ==
    ASSUME CheckoutIInv, NEW h \in Handlers, Throw(h)
    PROVE  CheckoutIInv'
  <1> DEFINE new == [hand[h] EXCEPT !.step = "undo"]
  <1>1. /\ hand[h].step \in {"handle", "status", "suspend", "logout"}
        /\ hand' = [hand EXCEPT ![h].step = "undo"]
        /\ UNCHANGED <<minutes, posted, rows, stripe>>
    BY DEF Throw, Step
  <1>2. HandOK(h) /\ hand[h] \in [step : HandSteps, event : Events \union {NoEvent}]
    BY DEF CheckoutIInv, CheckoutTypeOK
  <1>3. /\ new \in [step : HandSteps, event : Events \union {NoEvent}]
        /\ new.step = "undo" /\ new.event = hand[h].event
        /\ hand' = [hand EXCEPT ![h] = new]
    BY <1>1, <1>2 DEF HandSteps, CheckoutIInv, CheckoutTypeOK
  <1> HIDE DEF new
  <1>4. hand'[h] = new /\ \A g \in Handlers \ {h} : hand'[g] = hand[g]
    BY <1>3 DEF CheckoutIInv, CheckoutTypeOK
  <1>5. HandOK(h)'
    BY <1>1, <1>2, <1>3, <1>4 DEF HandOK, IsOut, rows
  <1> QED BY <1>1, <1>3, <1>5, HandStep DEF rows, CheckoutIInv, CheckoutTypeOK, IsOut

\* The server stops: the event row stays.
LEMMA StopInv ==
    ASSUME CheckoutIInv, NEW h \in Handlers, Stop(h)
    PROVE  CheckoutIInv'
  <1>1. /\ hand' = [hand EXCEPT ![h] = Idle] /\ astray' \subseteq Events
        /\ UNCHANGED <<minutes, posted, purchase, suspended, loggedIn, gate, stamped, stripe>>
    BY AtWork DEF Stop, CheckoutIInv, CheckoutTypeOK
  <1>2. Idle \in [step : HandSteps, event : Events \union {NoEvent}]
        /\ Idle.step = "idle" /\ Idle.event = NoEvent
    BY DEF Idle, HandSteps
  <1>3. hand'[h] = Idle
    BY <1>1 DEF CheckoutIInv, CheckoutTypeOK
  <1>4. HandOK(h)'
    BY <1>2, <1>3 DEF HandOK
  <1> QED BY <1>1, <1>2, <1>4, HandStep DEF rows, CheckoutIInv, CheckoutTypeOK, IsOut

\* A delivery of an event that is in already is answered.
LEMMA AnswerDuplicateInv ==
    ASSUME CheckoutIInv, NEW h \in Handlers, NEW e \in Events, AnswerDuplicate(h, e)
    PROVE  CheckoutIInv'
  <1>1. /\ hand[h].step = "idle" /\ stripe[e] = "pending"
        /\ stripe' = [stripe EXCEPT ![e] = "acked"] /\ astray' \subseteq Events
        /\ UNCHANGED <<minutes, posted, purchase, suspended, loggedIn, gate, stamped, hand>>
    BY DEF AnswerDuplicate, CheckoutIInv, CheckoutTypeOK
  <1>2. Idle \in [step : HandSteps, event : Events \union {NoEvent}]
        /\ Idle.step = "idle" /\ Idle.event = NoEvent
    BY DEF Idle, HandSteps
  <1>3. hand[h] = Idle
    BY <1>1 DEF CheckoutIInv, CheckoutTypeOK, HandOK, Idle
  <1>4. hand' = [hand EXCEPT ![h] = Idle] /\ HandOK(h)'
    BY <1>1, <1>2, <1>3 DEF HandOK, CheckoutIInv, CheckoutTypeOK
  <1>5. /\ stripe' \in [Events -> {"none", "pending", "acked"}]
        /\ \A f \in Events : stripe'[f] # "none" <=> IsOut(f)
    BY <1>1 DEF CheckoutIInv, CheckoutTypeOK, IsOut
  <1> QED BY <1>1, <1>2, <1>4, <1>5, HandStep DEF rows, CheckoutIInv, CheckoutTypeOK

\* A session is opened.
LEMMA LoginInv ==
    ASSUME CheckoutIInv, NEW u \in Users, Login(u)
    PROVE  CheckoutIInv'
  BY DEF CheckoutIInv, CheckoutTypeOK, CompletesOnce, EntriesOK, HandOK, IntentOK, ReturnsKnown,
         StampedIsDone, StatusFollowsLedger, Login, IsOut, IsPosted, Done, Emitted

\* A purchase begins: nothing is known of it yet.
LEMMA StartCheckoutInv ==
    ASSUME CheckoutIInv, NEW p \in Purchases, StartCheckout(p)
    PROVE  CheckoutIInv'
  <1> USE DEF CheckoutIInv
  <1>1. /\ purchase[p].status = "NONE"
        /\ purchase' = [purchase EXCEPT ![p].status = "PENDING"]
        /\ UNCHANGED <<minutes, posted, suspended, loggedIn, gate, stamped, stripe, hand, astray>>
    BY DEF StartCheckout
  <1>2. /\ purchase' \in [Purchases -> PurchaseRow]
        /\ \A q \in Purchases : purchase'[q].intent = purchase[q].intent
        /\ \A q \in Purchases : purchase'[q].status # purchase[q].status =>
              purchase[q].status = "NONE" /\ purchase'[q].status = "PENDING"
    BY <1>1 DEF CheckoutTypeOK, PurchaseRow
  <1>3. CheckoutTypeOK'
    BY <1>1, <1>2 DEF CheckoutTypeOK
  <1>4. CompletesOnce' /\ EntriesOK'
    BY <1>1 DEF CompletesOnce, EntriesOK, IsOut
  <1>5. \A k : IsPosted(k)' <=> IsPosted(k)
    BY <1>1 DEF IsPosted
  <1>6. ASSUME NEW e \in Events, Done(e) PROVE Done(e)'
    BY <1>1, <1>2, <1>5, <1>6, EventFacts, DoneKept
  <1>7. ASSUME NEW h \in Handlers PROVE HandOK(h)'
    <2>1. hand[h].step = "stamp" => Done(hand[h].event)'
      BY <1>1, <1>6, AtWork DEF HandOK
    <2> QED BY <1>1, <1>5, <2>1 DEF HandOK, IsOut
  <1>8. ASSUME NEW q \in Purchases PROVE IntentOK(q)'
    BY <1>1, <1>2 DEF IntentOK, Emitted, IsOut
  <1>9. ReturnsKnown'
    BY <1>2, <1>5, EventFacts DEF ReturnsKnown
  <1>10. StampedIsDone'
    BY <1>1, <1>6 DEF StampedIsDone, CheckoutTypeOK
  <1>11. StatusFollowsLedger'
    BY <1>2, <1>5 DEF StatusFollowsLedger
  <1> QED BY <1>3, <1>4, <1>7, <1>8, <1>9, <1>10, <1>11

\* Stripe emits an event: a completed session only when none of the purchase has been.
LEMMA StripeEmitsInv ==
    ASSUME CheckoutIInv, NEW e \in Events, StripeEmits(e)
    PROVE  CheckoutIInv'
  <1> USE DEF CheckoutIInv
  <1>1. /\ ~IsOut(e)
        /\ Completed(e) => ~Emitted("paid", e.purchase) /\ ~Emitted("unpaid", e.purchase)
        /\ stripe' = [stripe EXCEPT ![e] = "pending"]
        /\ UNCHANGED <<minutes, posted, rows, hand>>
    BY DEF StripeEmits, IsOut, Completed
  <1>2. /\ stripe' \in [Events -> {"none", "pending", "acked"}]
        /\ \A f \in Events : IsOut(f)' <=> IsOut(f) \/ f = e
    BY <1>1 DEF CheckoutTypeOK, IsOut
  <1>3. CheckoutTypeOK'
    BY <1>1, <1>2 DEF CheckoutTypeOK, rows
  <1>4. CompletesOnce'
    BY <1>1, <1>2 DEF CompletesOnce, Emitted, Completed, IsOut
  <1>5. EntriesOK'
    BY <1>1, <1>2 DEF EntriesOK
  <1>6. \A k : IsPosted(k)' <=> IsPosted(k)
    BY <1>1 DEF IsPosted
  <1>7. ASSUME NEW f \in Events, Done(f) PROVE Done(f)'
    BY <1>1, <1>6, <1>7, DoneKept DEF rows
  <1>8. ASSUME NEW h \in Handlers PROVE HandOK(h)'
    <2>1. hand[h].step = "stamp" => Done(hand[h].event)'
      BY <1>1, <1>7, AtWork DEF HandOK
    <2>2. hand[h].step # "idle" => IsOut(hand[h].event)'
      BY <1>1, <1>2, AtWork
    <2> QED BY <1>1, <1>6, <2>1, <2>2 DEF HandOK, rows
  <1>9. ASSUME NEW p \in Purchases PROVE IntentOK(p)'
    <2> SUFFICES ASSUME purchase[p].intent PROVE IntentOK(p)'
      BY <1>1 DEF IntentOK, rows
    <2>1. Emitted("paid", p) \/ Emitted("unpaid", p)
      BY DEF IntentOK
    <2>2. ~(Completed(e) /\ e.purchase = p)
      BY <1>1, <2>1
    <2>3. Emitted("paid", p)' \/ Emitted("unpaid", p)'
      BY <1>2, <2>1 DEF Emitted, IsOut
    <2> QED BY <1>1, <1>2, <2>2, <2>3 DEF IntentOK, rows, Completed
  <1>10. ReturnsKnown'
    BY <1>1, <1>6 DEF ReturnsKnown, rows, Completed
  <1>11. StampedIsDone'
    BY <1>1, <1>7 DEF StampedIsDone, CheckoutTypeOK, rows
  <1>12. StatusFollowsLedger'
    BY <1>1, <1>6 DEF StatusFollowsLedger, rows
  <1> QED BY <1>3, <1>4, <1>5, <1>8, <1>9, <1>10, <1>11, <1>12

\* The event row is inserted: it was not there, so nobody has the event in hand.
LEMMA ReceiveInv ==
    ASSUME CheckoutIInv, NEW h \in Handlers, NEW e \in Events, Receive(h, e)
    PROVE  CheckoutIInv'
  <1> USE DEF CheckoutIInv
  <1> DEFINE new == [step |-> "handle", event |-> e]
  <1>1. /\ hand[h].step = "idle" /\ IsOut(e) /\ e \notin gate
        /\ gate' = gate \union {e} /\ hand' = [hand EXCEPT ![h] = new]
        /\ UNCHANGED <<minutes, posted, purchase, suspended, loggedIn, stamped, stripe, astray>>
    BY DEF Receive, IsOut
  <1>2. /\ new \in [step : HandSteps, event : Events \union {NoEvent}]
        /\ new.step = "handle" /\ new.event = e
    BY DEF HandSteps
  <1> HIDE DEF new
  <1>3. /\ hand' \in [Handlers -> [step : HandSteps, event : Events \union {NoEvent}]]
        /\ hand'[h] = new /\ \A g \in Handlers \ {h} : hand'[g] = hand[g]
    BY <1>1, <1>2 DEF CheckoutTypeOK
  <1>4. CheckoutTypeOK'
    BY <1>1, <1>3 DEF CheckoutTypeOK
  <1>5. CompletesOnce' /\ EntriesOK' /\ ReturnsKnown' /\ StampedIsDone' /\ StatusFollowsLedger'
    BY <1>1 DEF CompletesOnce, EntriesOK, IsOut, ReturnsKnown, StampedIsDone, StatusFollowsLedger,
                IsPosted, Done
  <1>6. \A g \in Handlers : hand[g].event # e
    BY <1>1, AtWork, EventFacts DEF HandOK
  <1>7. e \notin stamped
    BY <1>1 DEF CheckoutTypeOK
  <1>8. ASSUME NEW g \in Handlers PROVE HandOK(g)'
    <2>1. CASE g = h
      BY <1>1, <1>2, <1>3, <1>6, <1>7, <2>1, EventFacts DEF HandOK, IsOut
    <2>2. CASE g # h
      <3>1. HandOK(g) /\ hand'[g] = hand[g]
        BY <1>3, <2>2
      <3> QED BY <1>1, <1>2, <1>3, <1>6, <3>1, EventFacts DEF HandOK, IsOut, IsPosted, Done
    <2> QED BY <2>1, <2>2
  <1>9. ASSUME NEW p \in Purchases PROVE IntentOK(p)'
    BY <1>1, <1>2, <1>3 DEF IntentOK, Emitted, IsOut
  <1> QED BY <1>4, <1>5, <1>8, <1>9

\* processedAt is set on an event that is done.
LEMMA StampInv ==
    ASSUME CheckoutIInv, NEW h \in Handlers, Stamp(h)
    PROVE  CheckoutIInv'
  <1> USE DEF CheckoutIInv
  <1> PICK e \in Events : e = hand[h].event /\ e \in gate /\ IsOut(e) /\ Done(e)
                          /\ \A g \in Handlers \ {h} : hand[g].event # e
    BY AtWork DEF HandOK, Stamp
  <1>1. /\ stamped' = stamped \union {e} /\ stripe' = [stripe EXCEPT ![e] = "acked"]
        /\ hand' = [hand EXCEPT ![h] = Idle]
        /\ UNCHANGED <<minutes, posted, purchase, suspended, loggedIn, gate, astray>>
    BY DEF Stamp
  <1>2. Idle \in [step : HandSteps, event : Events \union {NoEvent}]
        /\ Idle.step = "idle" /\ Idle.event = NoEvent
    BY DEF Idle, HandSteps
  <1>3. /\ hand' \in [Handlers -> [step : HandSteps, event : Events \union {NoEvent}]]
        /\ hand'[h] = Idle /\ \A g \in Handlers \ {h} : hand'[g] = hand[g]
    BY <1>1, <1>2 DEF CheckoutTypeOK
  <1>4. /\ stripe' \in [Events -> {"none", "pending", "acked"}]
        /\ \A f \in Events : stripe'[f] # "none" <=> stripe[f] # "none"
    BY <1>1 DEF CheckoutTypeOK, IsOut
  <1>5. CheckoutTypeOK'
    BY <1>1, <1>3, <1>4 DEF CheckoutTypeOK
  <1>6. CompletesOnce' /\ EntriesOK' /\ ReturnsKnown' /\ StampedIsDone' /\ StatusFollowsLedger'
    BY <1>1, <1>4 DEF CompletesOnce, EntriesOK, IsOut, ReturnsKnown, StampedIsDone,
                StatusFollowsLedger, IsPosted, Done
  <1>7. ASSUME NEW g \in Handlers PROVE HandOK(g)'
    <2>1. CASE g = h
      BY <1>2, <1>3, <2>1 DEF HandOK
    <2>2. CASE g # h
      <3>1. HandOK(g) /\ hand'[g] = hand[g] /\ hand[g].event # e
        BY <1>3, <2>2
      <3>2. hand[g].step # "idle" => hand[g].event \in Events /\ hand[g].event # NoEvent
        BY AtWork, EventFacts
      <3> QED BY <1>1, <1>2, <1>3, <1>4, <3>1, <3>2 DEF HandOK, IsOut, IsPosted, Done
    <2> QED BY <2>1, <2>2
  <1>8. ASSUME NEW p \in Purchases PROVE IntentOK(p)'
    BY <1>1, <1>2, <1>3, <1>4, EventFacts DEF IntentOK, Emitted, IsOut
  <1> QED BY <1>5, <1>6, <1>7, <1>8

\* The event row is deleted again: of an event that was not stamped, nor a completed
\* session whose intent is on record, for that has got to its stamp.
LEMMA UndoInv ==
    ASSUME CheckoutIInv, NEW h \in Handlers, Undo(h)
    PROVE  CheckoutIInv'
  <1> USE DEF CheckoutIInv
  <1> PICK e \in Events : e = hand[h].event /\ e \in gate \ stamped
                          /\ \A g \in Handlers \ {h} : hand[g].event # e
    BY AtWork DEF Undo
  <1>1. /\ hand[h].step = "undo"
        /\ gate' = gate \ {e} /\ hand' = [hand EXCEPT ![h] = Idle]
        /\ UNCHANGED <<minutes, posted, purchase, suspended, loggedIn, stamped, stripe, astray>>
    BY DEF Undo
  <1>2. Idle \in [step : HandSteps, event : Events \union {NoEvent}]
        /\ Idle.step = "idle" /\ Idle.event = NoEvent
    BY DEF Idle, HandSteps
  <1>3. /\ hand' \in [Handlers -> [step : HandSteps, event : Events \union {NoEvent}]]
        /\ hand'[h] = Idle /\ \A g \in Handlers \ {h} : hand'[g] = hand[g]
    BY <1>1, <1>2 DEF CheckoutTypeOK
  <1>4. CheckoutTypeOK'
    BY <1>1, <1>3 DEF CheckoutTypeOK
  <1>5. CompletesOnce' /\ EntriesOK' /\ ReturnsKnown' /\ StampedIsDone' /\ StatusFollowsLedger'
    BY <1>1 DEF CompletesOnce, EntriesOK, IsOut, ReturnsKnown, StampedIsDone, StatusFollowsLedger,
                IsPosted, Done
  <1>6. ASSUME NEW g \in Handlers PROVE HandOK(g)'
    <2>1. CASE g = h
      BY <1>2, <1>3, <2>1 DEF HandOK
    <2>2. CASE g # h
      <3>1. HandOK(g) /\ hand'[g] = hand[g] /\ hand[g].event # e
        BY <1>3, <2>2
      <3>2. hand[g].step # "idle" => hand[g].event \in Events /\ hand[g].event # NoEvent
        BY AtWork, EventFacts
      <3> QED BY <1>1, <1>2, <1>3, <3>1, <3>2 DEF HandOK, IsOut, IsPosted, Done
    <2> QED BY <2>1, <2>2
  <1>7. ASSUME NEW p \in Purchases PROVE IntentOK(p)'
    BY <1>1, <1>2, <1>3, EventFacts DEF IntentOK, Emitted, IsOut
  <1> QED BY <1>4, <1>5, <1>6, <1>7

\* Metering takes minutes, under a key that is no event's.
LEMMA SpendInv ==
    ASSUME CheckoutIInv, NEW r \in Usage, Spend(r)
    PROVE  CheckoutIInv'
  <1> USE DEF CheckoutIInv
  <1>1. /\ r \in Requests /\ r.user \in Users /\ r.amount \in Int /\ r.amount <= 0
        /\ r.clamp \in BOOLEAN /\ \A e \in Events : r.key # Key(e)
    BY CallersAssumption
  <1>2. Post(r) /\ UNCHANGED <<rows, stripe, hand>>
    BY DEF Spend
  <1>3. /\ minutes' \in [Users -> Nat]
        /\ posted' \subseteq [user : Users, key : {q.key : q \in Requests}, amount : Int]
        /\ \A x, y \in posted' : x.key = y.key => x = y
        /\ \A x \in posted' : x \in posted \/ x.amount <= 0
        /\ \A k : IsPosted(k)' <=> IsPosted(k) \/ k = r.key
    BY <1>1, <1>2, PostFacts
  <1>4. \A e \in Events : IsPosted(Key(e))' <=> IsPosted(Key(e))
    BY <1>1, <1>3 DEF Key
  <1>5. CheckoutTypeOK' /\ CompletesOnce'
    BY <1>2, <1>3 DEF CheckoutTypeOK, CompletesOnce, IsOut, rows
  <1>6. EntriesOK'
    <2>1. ASSUME NEW x \in posted', x.amount > 0
          PROVE  \E e \in Events : /\ e.kind = "paid" /\ IsOut(e)'
                                   /\ x.key = Key(e) /\ x.amount = Grant[e.purchase]
      <3>1. x.amount \in Int
        BY <1>3
      <3>2. x \in posted
        BY <1>3, <2>1, <3>1
      <3> QED BY <1>2, <2>1, <3>2 DEF EntriesOK, IsOut
    <2> QED BY <1>3, <2>1 DEF EntriesOK
  <1>7. ASSUME NEW e \in Events, Done(e) PROVE Done(e)'
    BY <1>2, <1>4, <1>7, DoneKept DEF rows
  <1>8. ASSUME NEW h \in Handlers PROVE HandOK(h)'
    <2>1. hand[h].step = "stamp" => Done(hand[h].event)'
      BY <1>2, <1>7, AtWork DEF HandOK
    <2>2. hand[h].step = "status" => IsPosted(Key(hand[h].event))'
      BY <1>2, <1>4, AtWork DEF HandOK
    <2> QED BY <1>2, <2>1, <2>2 DEF HandOK, rows, IsOut
  <1>9. ASSUME NEW p \in Purchases PROVE IntentOK(p)'
    BY <1>2 DEF IntentOK, rows, IsOut, Emitted
  <1>10. ReturnsKnown' /\ StatusFollowsLedger'
    BY <1>2, <1>4 DEF ReturnsKnown, StatusFollowsLedger, rows
  <1>11. StampedIsDone'
    BY <1>2, <1>7 DEF StampedIsDone, CheckoutTypeOK, rows
  <1> QED BY <1>5, <1>6, <1>8, <1>9, <1>10, <1>11

\* The handler calls the wallet for its event: a credit for a payment, and a debit only
\* when the intent is on record.  No other delivery has the event, and none has finished
\* with it.
LEMMA WalletCallInv ==
    ASSUME CheckoutIInv, NEW h \in Handlers, Credit(h) \/ TakeBack(h)
    PROVE  CheckoutIInv'
  <1> USE DEF CheckoutIInv
  <1> PICK e \in Events, step \in {"status", "suspend"} :
        /\ e = hand[h].event /\ hand[h].step = "handle"
        /\ CallWallet(RequestOf(e)) /\ Step(h, step) /\ UNCHANGED <<rows, stripe>>
        /\ e.kind = "paid" \/ (e.kind \in {"refund", "dispute"} /\ purchase[e.purchase].intent)
        /\ step = "status" => e.kind \in {"paid", "refund"}
        /\ step = "suspend" => e.kind = "dispute"
    <2>1. hand[h].step = "handle" /\ hand[h].event \in Events
      BY AtWork DEF Credit, TakeBack
    <2>2. CASE Credit(h)
      BY <2>1, <2>2 DEF Credit
    <2>3. CASE TakeBack(h) /\ hand[h].event.kind = "refund"
      BY <2>1, <2>3 DEF TakeBack
    <2>4. CASE TakeBack(h) /\ hand[h].event.kind = "dispute"
      BY <2>1, <2>4 DEF TakeBack
    <2> QED BY <2>2, <2>3, <2>4 DEF TakeBack
  <1> DEFINE new == [hand[h] EXCEPT !.step = step]
  <1>1. /\ minutes' \in [Users -> Nat]
        /\ posted' \subseteq [user : Users, key : {q.key : q \in Requests}, amount : Int]
        /\ \A x, y \in posted' : x.key = y.key => x = y
        /\ \A x \in posted' : x \in posted \/ /\ x.key = Key(e)
                                              /\ e.kind # "paid" => x.amount <= 0
                                              /\ e.kind = "paid" => x.amount = Grant[e.purchase]
        /\ \A k : IsPosted(k)' <=> IsPosted(k) \/ k = Key(e)
    BY CallFacts
  <1>2. \A f \in Events : IsPosted(Key(f))' <=> IsPosted(Key(f)) \/ f = e
    BY <1>1, EventFacts
  <1>3. e \in gate \ stamped /\ IsOut(e) /\ \A g \in Handlers \ {h} : hand[g].event # e
    BY AtWork
  <1>4. /\ new \in [step : HandSteps, event : Events \union {NoEvent}]
        /\ new.step = step /\ new.event = e /\ hand' = [hand EXCEPT ![h] = new]
    BY DEF HandSteps, CheckoutTypeOK, Step
  <1> HIDE DEF new
  <1>5. /\ hand' \in [Handlers -> [step : HandSteps, event : Events \union {NoEvent}]]
        /\ hand'[h] = new /\ \A g \in Handlers \ {h} : hand'[g] = hand[g]
    BY <1>4 DEF CheckoutTypeOK
  <1>6. CheckoutTypeOK' /\ CompletesOnce'
    BY <1>1, <1>5 DEF CheckoutTypeOK, CompletesOnce, IsOut, rows
  <1>7. EntriesOK'
    <2>1. ASSUME NEW x \in posted', x.amount > 0
          PROVE  \E f \in Events : /\ f.kind = "paid" /\ IsOut(f)'
                                   /\ x.key = Key(f) /\ x.amount = Grant[f.purchase]
      <3>1. x.amount \in Int
        BY <1>1
      <3>2. CASE x \in posted
        BY <2>1, <3>2 DEF EntriesOK, IsOut
      <3>3. CASE x \notin posted
        BY <1>1, <1>3, <2>1, <3>1, <3>3 DEF IsOut
      <3> QED BY <3>2, <3>3
    <2> QED BY <1>1, <2>1 DEF EntriesOK
  <1>8. ASSUME NEW f \in Events \ {e}, Done(f) PROVE Done(f)'
    BY <1>2, <1>8, DoneKept DEF rows
  <1>9. ASSUME NEW g \in Handlers PROVE HandOK(g)'
    <2>1. CASE g = h
      BY <1>2, <1>3, <1>4, <1>5, <2>1, EventFacts DEF HandOK, IsOut, rows
    <2>2. CASE g # h
      <3>1. HandOK(g) /\ hand'[g] = hand[g] /\ hand[g].event # e
        BY <1>3, <1>5, <2>2
      <3>2. hand[g].step # "idle" => hand[g].event \in Events \ {e}
        BY <3>1, AtWork
      <3>3. hand[g].step = "stamp" => Done(hand[g].event)'
        BY <1>8, <3>1, <3>2 DEF HandOK
      <3>4. hand[g].step = "status" => IsPosted(Key(hand[g].event))'
        BY <1>2, <3>1, <3>2 DEF HandOK
      <3>5. hand[g].step # "idle" => IsOut(hand[g].event)'
        BY <3>1 DEF HandOK, IsOut
      <3>6. \A i \in Handlers \ {g} : hand'[i].event = hand[i].event
        BY <1>4, <1>5
      <3> QED BY <3>1, <3>3, <3>4, <3>5, <3>6 DEF HandOK, rows
    <2> QED BY <2>1, <2>2
  <1>10. ASSUME NEW p \in Purchases PROVE IntentOK(p)'
    BY <1>4, <1>5 DEF IntentOK, rows, IsOut, Emitted, Completed
  <1>11. ReturnsKnown'
    BY <1>2 DEF ReturnsKnown, rows, Completed
  <1>12. StatusFollowsLedger'
    BY <1>2 DEF StatusFollowsLedger, rows
  <1>13. StampedIsDone'
    BY <1>3, <1>8 DEF StampedIsDone, CheckoutTypeOK, rows
  <1> QED BY <1>6, <1>7, <1>9, <1>10, <1>11, <1>12, <1>13

\* A step that records a purchase: a completed session gives it its intent, a refund its
\* last status.
LEMMA RecordFacts ==
    ASSUME CheckoutIInv, NEW h \in Handlers, RecordUnpaid(h) \/ RecordStatus(h)
    PROVE  \E e \in Events, row \in PurchaseRow :
              /\ e = hand[h].event /\ hand[h].step \in {"handle", "status"}
              /\ purchase' = [purchase EXCEPT ![e.purchase] = row]
              /\ Step(h, "stamp")
              /\ UNCHANGED <<minutes, posted, suspended, loggedIn, gate, stamped, stripe, astray>>
              /\ \/ e.kind = "unpaid" /\ row = [status |-> "PENDING", intent |-> TRUE]
                 \/ /\ e.kind = "paid" /\ row = [status |-> "PAID", intent |-> TRUE]
                    /\ IsPosted(Key(e))
                 \/ /\ e.kind = "refund" /\ row.status = "REFUNDED" /\ IsPosted(Key(e))
                    /\ row.intent = purchase[e.purchase].intent
  <1> USE DEF CheckoutIInv
  <1>1. CASE RecordUnpaid(h)
    <2>1. hand[h].event \in Events
      BY <1>1, AtWork DEF RecordUnpaid
    <2>2. [status |-> "PENDING", intent |-> TRUE] \in PurchaseRow
      BY DEF PurchaseRow
    <2> QED BY <1>1, <2>1, <2>2 DEF RecordUnpaid
  <1>2. CASE RecordStatus(h)
    <2> DEFINE e == hand[h].event
    <2>1. e \in Events /\ e.purchase \in Purchases /\ e.kind \in {"paid", "refund"}
          /\ IsPosted(Key(e))
      BY <1>2, AtWork, EventFacts DEF RecordStatus, HandOK
    <2>2. CASE e.kind = "paid"
      <3>1. [status |-> "PAID", intent |-> TRUE] \in PurchaseRow
        BY DEF PurchaseRow
      <3> QED BY <1>2, <2>1, <2>2, <3>1 DEF RecordStatus
    <2>3. CASE e.kind = "refund"
      <3> DEFINE row == [purchase[e.purchase] EXCEPT !.status = "REFUNDED"]
      <3>1. purchase[e.purchase] \in PurchaseRow
        BY <2>1 DEF CheckoutTypeOK
      <3>2. row \in PurchaseRow /\ row.status = "REFUNDED"
            /\ row.intent = purchase[e.purchase].intent
        BY <3>1 DEF PurchaseRow
      <3>3. purchase' = [purchase EXCEPT ![e.purchase] = row]
        BY <1>2, <2>1, <2>3 DEF RecordStatus, CheckoutTypeOK
      <3> HIDE DEF row
      <3> QED BY <1>2, <2>1, <2>3, <3>2, <3>3 DEF RecordStatus
    <2> QED BY <2>1, <2>2, <2>3
  <1> QED BY <1>1, <1>2

\* The status of a purchase is recorded: by the completed session, which then has
\* nothing left to do, or by a refund.  Nothing that is done is undone by it.
LEMMA RecordDone ==
    ASSUME CheckoutIInv, NEW h \in Handlers, RecordUnpaid(h) \/ RecordStatus(h)
    PROVE  \A f \in Events : Done(f) => Done(f)'
  <1> USE DEF CheckoutIInv
  <1> PICK e \in Events, row \in PurchaseRow :
        /\ e = hand[h].event /\ hand[h].step \in {"handle", "status"}
        /\ purchase' = [purchase EXCEPT ![e.purchase] = row]
        /\ UNCHANGED <<minutes, posted, suspended>>
        /\ \/ e.kind = "unpaid" /\ row = [status |-> "PENDING", intent |-> TRUE]
           \/ /\ e.kind = "paid" /\ row = [status |-> "PAID", intent |-> TRUE]
              /\ IsPosted(Key(e))
           \/ /\ e.kind = "refund" /\ row.status = "REFUNDED" /\ IsPosted(Key(e))
              /\ row.intent = purchase[e.purchase].intent
    BY RecordFacts
  <1> DEFINE p == e.purchase
  <1>1. p \in Purchases /\ e.kind \in Kinds
    BY EventFacts
  <1>2. /\ purchase'[p] = row
        /\ \A q \in Purchases \ {p} : purchase'[q] = purchase[q]
    BY <1>1 DEF CheckoutTypeOK
  <1>3. \A k : IsPosted(k)' <=> IsPosted(k)
    BY DEF IsPosted
  <1>4. \A q \in Purchases : purchase[q].intent => purchase'[q].intent
    BY <1>1, <1>2
  <1>5. ASSUME NEW f \in Events, f.purchase = p, f.kind = "refund", IsPosted(Key(f))
        PROVE  row.status = "REFUNDED"
    <2>1. purchase[p].intent
      BY <1>5 DEF ReturnsKnown, Completed
    <2>2. ~Completed(e)
      BY <1>1, <2>1 DEF IntentOK
    <2> QED BY <2>2 DEF Completed
  <1>6. ASSUME NEW f \in Events, Done(f) PROVE Done(f)'
    <2>1. f.kind = "refund" /\ IsPosted(Key(f)) /\ purchase[f.purchase].status = "REFUNDED"
             => purchase'[f.purchase].status = "REFUNDED"
      BY <1>2, <1>5, EventFacts
    <2> QED BY <1>3, <1>4, <1>6, <2>1, EventFacts, DoneKept
  <1> QED BY <1>6

\* The invariant is kept as well.
LEMMA RecordInv ==
    ASSUME CheckoutIInv, NEW h \in Handlers, RecordUnpaid(h) \/ RecordStatus(h)
    PROVE  CheckoutIInv'
  <1> USE DEF CheckoutIInv
  <1> PICK e \in Events, row \in PurchaseRow :
        /\ e = hand[h].event /\ hand[h].step \in {"handle", "status"}
        /\ purchase' = [purchase EXCEPT ![e.purchase] = row]
        /\ Step(h, "stamp")
        /\ UNCHANGED <<minutes, posted, suspended, loggedIn, gate, stamped, stripe, astray>>
        /\ \/ e.kind = "unpaid" /\ row = [status |-> "PENDING", intent |-> TRUE]
           \/ /\ e.kind = "paid" /\ row = [status |-> "PAID", intent |-> TRUE]
              /\ IsPosted(Key(e))
           \/ /\ e.kind = "refund" /\ row.status = "REFUNDED" /\ IsPosted(Key(e))
              /\ row.intent = purchase[e.purchase].intent
    BY RecordFacts
  <1> DEFINE p == e.purchase
             new == [hand[h] EXCEPT !.step = "stamp"]
  <1>1. /\ p \in Purchases /\ e.kind \in Kinds
        /\ e \in gate \ stamped /\ IsOut(e) /\ \A g \in Handlers \ {h} : hand[g].event # e
    BY AtWork, EventFacts
  <1>2. /\ purchase' \in [Purchases -> PurchaseRow] /\ purchase'[p] = row
        /\ \A q \in Purchases \ {p} : purchase'[q] = purchase[q]
    BY <1>1 DEF CheckoutTypeOK
  <1>3. /\ new \in [step : HandSteps, event : Events \union {NoEvent}]
        /\ new.step = "stamp" /\ new.event = e /\ hand' = [hand EXCEPT ![h] = new]
    BY DEF HandSteps, CheckoutTypeOK, Step
  <1> HIDE DEF new
  <1>4. /\ hand' \in [Handlers -> [step : HandSteps, event : Events \union {NoEvent}]]
        /\ hand'[h] = new /\ \A g \in Handlers \ {h} : hand'[g] = hand[g]
    BY <1>3 DEF CheckoutTypeOK
  <1>5. CheckoutTypeOK'
    BY <1>2, <1>4 DEF CheckoutTypeOK
  <1>6. CompletesOnce' /\ EntriesOK'
    BY DEF CompletesOnce, EntriesOK, IsOut
  <1>7. \A k : IsPosted(k)' <=> IsPosted(k)
    BY DEF IsPosted
  <1>8. \A q \in Purchases : purchase[q].intent => purchase'[q].intent
    BY <1>1, <1>2
  <1>10. \A f \in Events : Done(f) => Done(f)'
    BY RecordDone
  <1>11. ASSUME NEW g \in Handlers PROVE HandOK(g)'
    <2>1. CASE g = h
      <3>1. Done(e)'
        BY <1>1, <1>2, <1>7 DEF Done
      <3> QED BY <1>1, <1>3, <1>4, <2>1, <3>1, EventFacts DEF HandOK, IsOut, Done, IsPosted
    <2>2. CASE g # h
      <3>1. HandOK(g) /\ hand'[g] = hand[g]
        BY <1>4, <2>2
      <3>2. hand[g].step = "stamp" => Done(hand[g].event)'
        BY <1>10, <3>1, AtWork DEF HandOK
      <3>3. hand[g].step = "status" => IsPosted(Key(hand[g].event))'
        BY <1>7, <3>1 DEF HandOK, IsPosted
      <3>4. \A i \in Handlers \ {g} : hand'[i].event = hand[i].event
        BY <1>3, <1>4
      <3> QED BY <3>1, <3>2, <3>3, <3>4 DEF HandOK, IsOut
    <2> QED BY <2>1, <2>2
  <1>12. ASSUME NEW q \in Purchases PROVE IntentOK(q)'
    <2>1. CASE q = p /\ Completed(e)
      <3>1. Emitted("paid", p) \/ Emitted("unpaid", p)
        BY <1>1, <2>1 DEF Emitted, IsOut, Completed
      <3>2. ASSUME NEW f \in Events, Completed(f), f.purchase = p
            PROVE  /\ IsOut(f) => f \in gate
                   /\ \A g \in Handlers : hand'[g].event = f => hand'[g].step = "stamp"
        <4>1. IsOut(f) => f = e
          BY <1>1, <2>1, <3>2 DEF CompletesOnce
        <4>2. \A g \in Handlers : hand'[g].event = f => IsOut(f)
          BY <1>1, <1>3, <1>4, AtWork, EventFacts DEF HandOK
        <4> QED BY <1>1, <1>3, <1>4, <4>1, <4>2
      <3> QED BY <2>1, <3>1, <3>2 DEF IntentOK, Emitted, IsOut, Completed
    <2>2. CASE q # p \/ ~Completed(e)
      <3>1. purchase'[q].intent = purchase[q].intent
        BY <1>1, <1>2, <2>2 DEF Completed
      <3>2. IntentOK(q)
        OBVIOUS
      <3>3. \A g \in Handlers : hand'[g].event = hand[g].event
                               /\ (hand[g].step = "stamp" => hand'[g].step = "stamp")
        BY <1>3, <1>4
      <3>4. Emitted("paid", q)' = Emitted("paid", q) /\ Emitted("unpaid", q)' = Emitted("unpaid", q)
        BY DEF Emitted
      <3> QED BY <3>1, <3>2, <3>3, <3>4 DEF IntentOK, IsOut, Completed
    <2> QED BY <2>1, <2>2
  <1>13. ReturnsKnown'
    BY <1>7, <1>8, EventFacts DEF ReturnsKnown, Completed
  <1>14. StampedIsDone'
    BY <1>10 DEF StampedIsDone, CheckoutTypeOK
  <1>15. StatusFollowsLedger'
    BY <1>1, <1>2, <1>7 DEF StatusFollowsLedger
  <1> QED BY <1>5, <1>6, <1>11, <1>12, <1>13, <1>14, <1>15

-----------------------------------------------------------------------------
(* The invariant, and what it gives.                                       *)

\* Nothing is bought yet.
LEMMA CheckoutInitInv == CheckoutInit => CheckoutIInv
  <1> SUFFICES ASSUME CheckoutInit PROVE CheckoutIInv
    OBVIOUS
  <1> USE DEF CheckoutInit, Init
  <1>1. CheckoutTypeOK
    BY DEF CheckoutTypeOK, PurchaseRow, HandSteps, Idle
  <1>2. CompletesOnce /\ EntriesOK /\ ReturnsKnown /\ StampedIsDone /\ StatusFollowsLedger
    BY DEF CompletesOnce, IsOut, EntriesOK, ReturnsKnown, IsPosted, StampedIsDone, StatusFollowsLedger
  <1>3. \A h \in Handlers : HandOK(h)
    BY DEF HandOK, Idle
  <1>4. \A p \in Purchases : IntentOK(p)
    BY DEF IntentOK
  <1> QED BY <1>1, <1>2, <1>3, <1>4 DEF CheckoutIInv

\* Every step keeps the invariant.
LEMMA CheckoutStepInv == CheckoutIInv /\ [CheckoutNext]_checkoutVars => CheckoutIInv'
  <1> SUFFICES ASSUME CheckoutIInv, [CheckoutNext]_checkoutVars PROVE CheckoutIInv'
    OBVIOUS
  <1>1. ASSUME NEW h \in Handlers, Work(h) PROVE CheckoutIInv'
    BY <1>1, RecordInv, NothingToDoInv, WalletCallInv, DisputeInv, StampInv, UndoInv DEF Work
  <1>2. ASSUME NEW e \in Events, Deliver(e) PROVE CheckoutIInv'
    BY <1>2, ReceiveInv, AnswerDuplicateInv DEF Deliver
  <1>3. CASE CheckoutNext
    BY <1>1, <1>2, <1>3, StartCheckoutInv, LoginInv, StripeEmitsInv, SpendInv, ThrowInv, StopInv
       DEF CheckoutNext
  <1>4. CASE UNCHANGED checkoutVars
    BY <1>4 DEF checkoutVars, rows, CheckoutIInv, CheckoutTypeOK, CompletesOnce, EntriesOK, HandOK,
                IntentOK, ReturnsKnown, StampedIsDone, StatusFollowsLedger, IsOut, IsPosted, Done,
                Emitted
  <1> QED BY <1>3, <1>4

\* The invariant holds throughout.
THEOREM CheckoutInvariant == CheckoutSpec => []CheckoutIInv
  BY CheckoutInitInv, CheckoutStepInv, PTL DEF CheckoutSpec

\* processedAt can be trusted: a stamped event has had its whole effect.
THEOREM CheckoutStamped == CheckoutSpec => []StampedIsDone
  <1>1. CheckoutIInv => StampedIsDone
    BY DEF CheckoutIInv
  <1> QED BY <1>1, CheckoutInvariant, PTL

\* The status of a purchase never runs ahead of the ledger.
THEOREM CheckoutStatus == CheckoutSpec => []StatusFollowsLedger
  <1>1. CheckoutIInv => StatusFollowsLedger
    BY DEF CheckoutIInv
  <1> QED BY <1>1, CheckoutInvariant, PTL

\* What a purchase is credited is what it grants, and only when it was paid.
THEOREM CheckoutCredits == CheckoutSpec => []OnlyPaidIsCredited
  <1>1. ASSUME CheckoutIInv PROVE OnlyPaidIsCredited
    <2> SUFFICES ASSUME NEW x \in posted, x.amount > 0
                 PROVE  x.amount = Grant[x.key[2].purchase] /\ Emitted("paid", x.key[2].purchase)
      BY DEF OnlyPaidIsCredited
    <2> PICK e \in Events : /\ e.kind = "paid" /\ IsOut(e)
                            /\ x.key = Key(e) /\ x.amount = Grant[e.purchase]
      BY <1>1 DEF CheckoutIInv, EntriesOK
    <2>1. x.key[2] = e
      BY DEF Key
    <2> QED BY <2>1 DEF Emitted, IsOut
  <1> QED BY <1>1, CheckoutInvariant, PTL

-----------------------------------------------------------------------------
(* Answers.                                                                *)

\* The row of an event is in, and stamped, in hand or done, unless one of its deliveries
\* went astray; and once Stripe has its 200 nobody is at work on the event.
InTurn(e) ==
    /\ e \in gate => e \in stamped \/ InHand(e) \/ Done(e)
    /\ stripe[e] = "acked" => e \in gate /\ ~InHand(e)

AnsweredIInv == \A e \in Events \ astray : InTurn(e)

\* No step undoes what an event was for, if nobody is at work on it: the ledger gets an
\* entry of no key but of the event in hand.
LEMMA DoneStays ==
    ASSUME CheckoutIInv, CheckoutNext, NEW e \in Events, Done(e), ~InHand(e)
    PROVE  Done(e)'
  <1>1. ASSUME UNCHANGED <<posted, purchase>>, suspended \subseteq suspended' PROVE Done(e)'
    BY <1>1, DoneKept DEF IsPosted
  <1>2. CASE \/ \E u \in Users : Login(u)
             \/ \E f \in Events : StripeEmits(f) \/ Deliver(f)
             \/ \E h \in Handlers : Throw(h) \/ Stop(h)
    <2>1. UNCHANGED <<posted, purchase, suspended>>
      BY <1>2 DEF Login, StripeEmits, Deliver, Receive, AnswerDuplicate, Throw, Stop, rows
    <2> QED BY <1>1, <2>1
  <1>3. ASSUME NEW p \in Purchases, StartCheckout(p) PROVE Done(e)'
    <2>1. /\ UNCHANGED <<posted, suspended>>
          /\ \A q \in Purchases : purchase'[q].intent = purchase[q].intent
          /\ \A q \in Purchases : purchase[q].status = "REFUNDED" => purchase'[q].status = "REFUNDED"
      BY <1>3 DEF StartCheckout, CheckoutIInv, CheckoutTypeOK, PurchaseRow
    <2>2. e.purchase \in Purchases /\ IsPosted(Key(e))' = IsPosted(Key(e))
      BY <2>1, EventFacts DEF IsPosted
    <2> QED BY <2>1, <2>2, DoneKept
  <1>4. ASSUME NEW r \in Usage, Spend(r) PROVE Done(e)'
    <2>1. /\ r \in Requests /\ r.user \in Users /\ r.amount \in Int /\ r.clamp \in BOOLEAN
          /\ r.key # Key(e)
      BY CallersAssumption
    <2>2. Post(r) /\ UNCHANGED <<purchase, suspended>>
      BY <1>4 DEF Spend, rows
    <2>3. IsPosted(Key(e))' <=> IsPosted(Key(e))
      BY <2>1, <2>2, PostFacts
    <2> QED BY <2>2, <2>3, DoneKept
  <1>5. ASSUME NEW h \in Handlers, Credit(h) \/ TakeBack(h) PROVE Done(e)'
    <2>1. /\ hand[h].step # "idle" /\ CallWallet(RequestOf(hand[h].event))
          /\ UNCHANGED <<purchase, suspended>>
      BY <1>5 DEF Credit, TakeBack, rows
    <2>2. hand[h].event \in Events /\ hand[h].event # e
      BY <2>1, AtWork DEF InHand
    <2>3. IsPosted(Key(e))' <=> IsPosted(Key(e))
      BY <2>1, <2>2, CallFacts, EventFacts
    <2> QED BY <2>1, <2>3, DoneKept
  <1>6. ASSUME NEW h \in Handlers, RecordUnpaid(h) \/ RecordStatus(h) PROVE Done(e)'
    BY <1>6, RecordDone
  <1>7. ASSUME NEW h \in Handlers,
               GrantsNothing(h) \/ UnknownIntent(h) \/ Suspend(h) \/ LogOut(h) \/ Stamp(h) \/ Undo(h)
        PROVE  Done(e)'
    <2>1. UNCHANGED <<posted, purchase>> /\ suspended \subseteq suspended'
      BY <1>7 DEF GrantsNothing, UnknownIntent, Suspend, LogOut, Stamp, Undo, rows
    <2> QED BY <1>1, <2>1
  <1> QED BY <1>2, <1>3, <1>4, <1>5, <1>6, <1>7 DEF CheckoutNext, Work

\* Nothing was received at the start.
LEMMA AnsweredInit == CheckoutInit => AnsweredIInv
  BY DEF CheckoutInit, AnsweredIInv, InTurn

\* Every step keeps an event in turn, or takes note that it went astray.
LEMMA AnsweredStep ==
    ASSUME CheckoutIInv, AnsweredIInv, [CheckoutNext]_checkoutVars
    PROVE  AnsweredIInv'
  <1> USE DEF CheckoutIInv
  <1>1. astray \subseteq astray'
    <2>1. CASE \E h \in Handlers : Work(h) \/ Throw(h) \/ Stop(h)
      BY <2>1 DEF Work, RecordUnpaid, GrantsNothing, Credit, UnknownIntent, TakeBack, RecordStatus,
                  Suspend, LogOut, Stamp, Undo, Throw, Stop, rows
    <2>2. CASE UNCHANGED checkoutVars
      BY <2>2 DEF checkoutVars, rows
    <2> QED BY <2>1, <2>2 DEF CheckoutNext, StartCheckout, Login, StripeEmits, Deliver, Receive,
                             AnswerDuplicate, Spend, rows
  <1> SUFFICES ASSUME NEW e \in Events \ astray, InTurn(e), e \notin astray' PROVE InTurn(e)'
    BY <1>1 DEF AnsweredIInv
  <1>2. e \in stamped => ~InHand(e)
    BY AtWork, EventFacts DEF InHand, HandOK
  <1>3. ASSUME UNCHANGED <<gate, stamped>>, stripe'[e] = "acked" => stripe[e] = "acked",
               InHand(e)' <=> InHand(e), Done(e) /\ ~InHand(e) => Done(e)'
        PROVE  InTurn(e)'
    BY <1>3 DEF InTurn
  <1>4. CheckoutNext /\ Done(e) /\ ~InHand(e) => Done(e)'
    BY DoneStays
  <1>5. ASSUME NEW h \in Handlers, NEW step, Step(h, step) PROVE InHand(e)' <=> InHand(e)
    BY <1>5 DEF Step, InHand, CheckoutTypeOK
  <1>6. ASSUME NEW h \in Handlers,
               \/ RecordUnpaid(h) \/ GrantsNothing(h) \/ Credit(h) \/ UnknownIntent(h) \/ TakeBack(h)
               \/ RecordStatus(h) \/ Suspend(h) \/ LogOut(h) \/ Throw(h)
        PROVE  InTurn(e)'
    <2>1. UNCHANGED <<gate, stamped, stripe>> /\ \E step : Step(h, step)
      BY <1>6 DEF RecordUnpaid, GrantsNothing, Credit, UnknownIntent, TakeBack, RecordStatus, Suspend,
                  LogOut, Throw, rows
    <2>2. CheckoutNext
      BY <1>6 DEF CheckoutNext, Work
    <2> QED BY <1>3, <1>4, <1>5, <2>1, <2>2
  <1>7. ASSUME NEW h \in Handlers, Stamp(h) PROVE InTurn(e)'
    <2>1. /\ hand[h].step # "idle" /\ hand' = [hand EXCEPT ![h] = Idle] /\ UNCHANGED gate
          /\ stamped' = stamped \union {hand[h].event}
          /\ stripe' = [stripe EXCEPT ![hand[h].event] = "acked"]
      BY <1>7 DEF Stamp
    <2>2. CheckoutNext
      BY <1>7 DEF CheckoutNext, Work
    <2>3. InHand(e)' <=> \E g \in Handlers \ {h} : hand[g].event = e
      BY <2>1, EventFacts DEF InHand, Idle, CheckoutTypeOK
    <2>4. CASE hand[h].event = e
      BY <2>1, <2>3, <2>4, AtWork DEF InTurn
    <2>5. CASE hand[h].event # e
      <3>1. (InHand(e)' <=> InHand(e)) /\ (stripe'[e] = "acked" => stripe[e] = "acked")
            /\ (e \in stamped' <=> e \in stamped)
        BY <2>1, <2>3, <2>5, AtWork DEF InHand, CheckoutTypeOK
      <3> QED BY <1>4, <2>1, <2>2, <3>1 DEF InTurn
    <2> QED BY <2>4, <2>5
  <1>8. ASSUME NEW h \in Handlers, Undo(h) PROVE InTurn(e)'
    <2>1. /\ hand[h].step # "idle" /\ hand' = [hand EXCEPT ![h] = Idle]
          /\ gate' = gate \ {hand[h].event} /\ UNCHANGED <<stamped, stripe>>
      BY <1>8 DEF Undo
    <2>2. CheckoutNext
      BY <1>8 DEF CheckoutNext, Work
    <2>3. InHand(e)' <=> \E g \in Handlers \ {h} : hand[g].event = e
      BY <2>1, EventFacts DEF InHand, Idle, CheckoutTypeOK
    <2>4. hand[h].event = e => InHand(e)
      BY DEF InHand
    <2>5. hand[h].event # e => (InHand(e)' <=> InHand(e))
      BY <2>3 DEF InHand
    <2> QED BY <1>4, <2>1, <2>2, <2>4, <2>5 DEF InTurn
  <1>9. ASSUME NEW h \in Handlers, Stop(h) PROVE InTurn(e)'
    <2>1. /\ hand[h].step # "idle" /\ hand' = [hand EXCEPT ![h] = Idle]
          /\ UNCHANGED <<gate, stamped, stripe>>
          /\ hand[h].event = e => hand[h].step = "stamp"
      BY <1>9 DEF Stop
    <2>2. CheckoutNext
      BY <1>9 DEF CheckoutNext
    <2>3. InHand(e)' <=> \E g \in Handlers \ {h} : hand[g].event = e
      BY <2>1, EventFacts DEF InHand, Idle, CheckoutTypeOK
    <2>4. CASE hand[h].event = e
      <3>1. Done(e) /\ InHand(e) /\ UNCHANGED <<posted, purchase, suspended>>
        BY <1>9, <2>1, <2>4 DEF HandOK, InHand, Stop
      <3>2. Done(e)'
        BY <3>1 DEF Done, IsPosted
      <3> QED BY <2>1, <3>1, <3>2 DEF InTurn
    <2>5. CASE hand[h].event # e
      <3>1. InHand(e)' <=> InHand(e)
        BY <2>3, <2>5 DEF InHand
      <3> QED BY <1>3, <1>4, <2>1, <2>2, <3>1
    <2> QED BY <2>4, <2>5
  <1>10. ASSUME NEW h \in Handlers, NEW f \in Events, Receive(h, f) PROVE InTurn(e)'
    <2>1. /\ hand' = [hand EXCEPT ![h] = [step |-> "handle", event |-> f]] /\ hand[h].step = "idle"
          /\ f \notin gate /\ gate' = gate \union {f} /\ UNCHANGED <<stamped, stripe>>
      BY <1>10 DEF Receive
    <2>2. CheckoutNext
      BY <1>10 DEF CheckoutNext, Deliver
    <2>3. InHand(e)' <=> f = e \/ \E g \in Handlers \ {h} : hand[g].event = e
      BY <2>1 DEF InHand, CheckoutTypeOK
    <2>4. hand[h].event # e
      BY <2>1, EventFacts DEF HandOK
    <2>5. InHand(e)' <=> f = e \/ InHand(e)
      BY <2>3, <2>4 DEF InHand
    <2> QED BY <1>4, <2>1, <2>2, <2>5 DEF InTurn
  <1>11. ASSUME NEW h \in Handlers, NEW f \in Events, AnswerDuplicate(h, f) PROVE InTurn(e)'
    <2>1. /\ f \in gate /\ stripe' = [stripe EXCEPT ![f] = "acked"]
          /\ UNCHANGED <<gate, stamped, hand>>
          /\ f = e => e \in stamped \/ ~InHand(e)
      BY <1>11 DEF AnswerDuplicate
    <2>2. CheckoutNext
      BY <1>11 DEF CheckoutNext, Deliver
    <2>3. (InHand(e)' <=> InHand(e)) /\ (stripe'[e] = "acked" => stripe[e] = "acked" \/ f = e)
      BY <2>1 DEF InHand, CheckoutTypeOK
    <2> QED BY <1>2, <1>4, <2>1, <2>2, <2>3 DEF InTurn
  <1>12. ASSUME NEW f \in Events, StripeEmits(f) PROVE InTurn(e)'
    <2>1. stripe' = [stripe EXCEPT ![f] = "pending"] /\ UNCHANGED <<gate, stamped, hand>>
      BY <1>12 DEF StripeEmits, rows
    <2>2. CheckoutNext
      BY <1>12 DEF CheckoutNext
    <2>3. (InHand(e)' <=> InHand(e)) /\ (stripe'[e] = "acked" => stripe[e] = "acked")
      BY <2>1 DEF InHand, CheckoutTypeOK
    <2> QED BY <1>3, <1>4, <2>1, <2>2, <2>3
  <1>13. CASE \/ \E p \in Purchases : StartCheckout(p)
              \/ \E u \in Users : Login(u)
              \/ \E r \in Usage : Spend(r)
    <2>1. UNCHANGED <<gate, stamped, stripe, hand>>
      BY <1>13 DEF StartCheckout, Login, Spend, rows
    <2>2. CheckoutNext
      BY <1>13 DEF CheckoutNext
    <2>3. InHand(e)' <=> InHand(e)
      BY <2>1 DEF InHand
    <2> QED BY <1>3, <1>4, <2>1, <2>2, <2>3
  <1>14. CASE UNCHANGED checkoutVars
    BY <1>14 DEF checkoutVars, rows, InTurn, InHand, Done, IsPosted
  <1> QED BY <1>6, <1>7, <1>8, <1>9, <1>10, <1>11, <1>12, <1>13, <1>14 DEF CheckoutNext, Work, Deliver

\* Stripe is told to stop sending an event only when that has had its effect, for any
\* number of deliveries at once, with throws, stops and duplicates anywhere: but for an
\* event with a delivery cut short, or answered as the duplicate of one still at work.
THEOREM CheckoutAnswered == CheckoutSpec => []AnsweredInTurn
  <1>1. CheckoutIInv /\ AnsweredIInv => AnsweredInTurn
    BY DEF CheckoutIInv, CheckoutTypeOK, StampedIsDone, AnsweredIInv, InTurn, AnsweredInTurn, Answered
  <1>2. CheckoutIInv /\ AnsweredIInv /\ [CheckoutNext]_checkoutVars => AnsweredIInv'
    BY AnsweredStep
  <1> QED BY <1>1, <1>2, AnsweredInit, CheckoutInvariant, PTL DEF CheckoutSpec
=============================================================================
