---------------------------- MODULE BillingProofs ----------------------------
(***************************************************************************)
(* Proofs about BillingPage over Checkout, for any users, purchases,       *)
(* products, events of Stripe and number of polls.                         *)
(*                                                                         *)
(* The argument: what the page has read of a purchase is a status that    *)
(* the row had, a status PAID has its entry in the ledger, and entries     *)
(* stay, whatever is delivered, throws or stops in the meantime.           *)
(***************************************************************************)
EXTENDS BillingPage, CheckoutProofs

\* The minutes of a purchase are in the ledger.
CreditPosted(p) == \E e \in Events : e.kind = "paid" /\ e.purchase = p /\ IsPosted(Key(e))

\* A tab that waits for a purchase waits for one that was started, and what it has been
\* told of it is so.
TabOK ==
    /\ tab.at = "stripe" => purchase[tab.purchase].status # "NONE"
    /\ tab.at = "billing" /\ tab.poll # "off" =>
          tab.purchase \in Purchases /\ purchase[tab.purchase].status # "NONE"
    /\ tab.at = "billing" /\ (tab.poll = "PAID" \/ tab.banner = "credited") =>
          CreditPosted(tab.purchase)

BillingIInv == CheckoutIInv /\ tab \in Tab /\ TabOK

-----------------------------------------------------------------------------
(* Lemmas.                                                                 *)

\* A tab is at Stripe with a purchase, or it is a page with all its fields.
LEMMA TabCases ==
    ASSUME tab \in Tab
    PROVE  \/ tab.at = "stripe" /\ tab.purchase \in Purchases
           \/ /\ tab.at \in {"billing", "elsewhere"}
              /\ tab \in [at : {"billing", "elsewhere"}, banner : Banners, left : 0 .. Attempts,
                          poll : {"off", "wait", "sent", "error", "PENDING", "PAID", "REFUNDED"},
                          purchase : Purchases \union {NoEvent}]
  BY DEF Tab

\* Entries of the ledger stay, and a purchase that was started stays started.
LEMMA LedgerGrows ==
    ASSUME CheckoutIInv, CheckoutNext
    PROVE  /\ \A k : IsPosted(k) => IsPosted(k)'
           /\ \A p \in Purchases : purchase[p].status # "NONE" => purchase'[p].status # "NONE"
  <1>1. ASSUME NEW r, Post(r) \/ CallWallet(r) PROVE \A k : IsPosted(k) => IsPosted(k)'
    BY <1>1 DEF CallWallet, Post, IsPosted
  <1>2. ASSUME UNCHANGED <<posted, purchase>>
        PROVE  /\ \A k : IsPosted(k) => IsPosted(k)'
               /\ \A p \in Purchases : purchase[p].status # "NONE" => purchase'[p].status # "NONE"
    BY <1>2 DEF IsPosted
  <1>3. CASE \E u \in Users : Login(u)
    BY <1>2, <1>3 DEF Login
  <1>4. CASE \E e \in Events : StripeEmits(e) \/ Deliver(e)
    BY <1>2, <1>4 DEF StripeEmits, Deliver, Receive, AnswerDuplicate, rows
  <1>5. CASE \E r \in Usage : Spend(r)
    BY <1>1, <1>5 DEF Spend, rows
  <1>6. CASE \E p \in Purchases : StartCheckout(p)
    BY <1>6 DEF StartCheckout, IsPosted, CheckoutIInv, CheckoutTypeOK
  <1>7. ASSUME NEW h \in Handlers, Throw(h) \/ Stop(h) \/ GrantsNothing(h) \/ UnknownIntent(h)
                  \/ Suspend(h) \/ LogOut(h) \/ Stamp(h) \/ Undo(h)
        PROVE  UNCHANGED <<posted, purchase>>
    BY <1>7 DEF Throw, Stop, GrantsNothing, UnknownIntent, Suspend, LogOut, Stamp, Undo, rows
  <1>8. ASSUME NEW h \in Handlers, Credit(h) \/ TakeBack(h)
        PROVE  UNCHANGED purchase /\ \A k : IsPosted(k) => IsPosted(k)'
    BY <1>1, <1>8 DEF Credit, TakeBack, rows
  <1>9. ASSUME NEW h \in Handlers, RecordUnpaid(h) \/ RecordStatus(h)
        PROVE  /\ \A k : IsPosted(k) => IsPosted(k)'
               /\ \A p \in Purchases : purchase[p].status # "NONE" => purchase'[p].status # "NONE"
    <2>1. hand[h].event.purchase \in Purchases /\ purchase[hand[h].event.purchase] \in PurchaseRow
      BY <1>9, AtWork, EventFacts DEF RecordUnpaid, RecordStatus, CheckoutIInv, CheckoutTypeOK
    <2>2. CASE RecordUnpaid(h)
      BY <2>1, <2>2 DEF RecordUnpaid, IsPosted, CheckoutIInv, CheckoutTypeOK
    <2>3. CASE RecordStatus(h) /\ hand[h].event.kind = "paid"
      BY <2>1, <2>3 DEF RecordStatus, IsPosted, CheckoutIInv, CheckoutTypeOK
    <2>4. CASE RecordStatus(h) /\ hand[h].event.kind # "paid"
      <3>1. purchase' = [purchase EXCEPT ![hand[h].event.purchase] =
                            [purchase[hand[h].event.purchase] EXCEPT !.status = "REFUNDED"]]
        BY <2>1, <2>4 DEF RecordStatus, CheckoutIInv, CheckoutTypeOK
      <3>2. [purchase[hand[h].event.purchase] EXCEPT !.status = "REFUNDED"].status = "REFUNDED"
        BY <2>1 DEF PurchaseRow
      <3>3. posted' = posted
        BY <2>4 DEF RecordStatus
      <3> QED BY <2>1, <3>1, <3>2, <3>3 DEF IsPosted, CheckoutIInv, CheckoutTypeOK
    <2> QED BY <1>9, <2>2, <2>3, <2>4
  <1> QED BY <1>2, <1>3, <1>4, <1>5, <1>6, <1>7, <1>8, <1>9 DEF CheckoutNext, Work

\* What a tab was told stays so while the page does nothing.
LEMMA TabKept ==
    ASSUME BillingIInv, UNCHANGED tab, CheckoutIInv',
           \A k : IsPosted(k) => IsPosted(k)',
           \A p \in Purchases : purchase[p].status # "NONE" => purchase'[p].status # "NONE"
    PROVE  BillingIInv'
  <1>1. ASSUME CreditPosted(tab.purchase) PROVE CreditPosted(tab.purchase)'
    BY <1>1 DEF CreditPosted
  <1>2. TabOK'
    BY <1>1, TabCases DEF BillingIInv, TabOK
  <1> QED BY <1>2 DEF BillingIInv

\* A step of the page alone: what it shows next is what its row and the ledger say.
LEMMA TabMoves ==
    ASSUME BillingIInv, UNCHANGED checkoutVars, tab' \in Tab, TabOK'
    PROVE  BillingIInv'
  <1>1. CheckoutIInv'
    BY CheckoutStepInv DEF BillingIInv
  <1> QED BY <1>1 DEF BillingIInv

\* The page is opened, left, or come back to.
LEMMA ArrivalInv ==
    ASSUME BillingIInv, OpenPage \/ LeavePage \/ ReturnPaid \/ ReturnCancelled
    PROVE  BillingIInv'
  <1>1. UNCHANGED checkoutVars
    BY DEF OpenPage, LeavePage, ReturnPaid, ReturnCancelled
  <1>2. CASE OpenPage \/ LeavePage \/ ReturnCancelled
    <2>1. \E at \in {"billing", "elsewhere"}, banner \in {"none", "cancelled"} :
            tab' = [at |-> at, banner |-> banner, left |-> 0, poll |-> "off", purchase |-> NoEvent]
      BY <1>2 DEF OpenPage, LeavePage, ReturnCancelled, Opened, Elsewhere
    <2>2. tab' \in Tab
      BY <2>1, BillingAssumption DEF Tab, Banners
    <2>3. TabOK'
      BY <2>1 DEF TabOK
    <2> QED BY <1>1, <2>2, <2>3, TabMoves
  <1>3. CASE ReturnPaid
    <2>1. tab.at = "stripe" /\ tab.purchase \in Purchases /\ purchase[tab.purchase].status # "NONE"
      BY <1>3, TabCases DEF ReturnPaid, BillingIInv, TabOK
    <2>2. tab' = [at |-> "billing", banner |-> "crediting", left |-> Attempts, poll |-> "wait",
                  purchase |-> tab.purchase]
      BY <1>3 DEF ReturnPaid, Opened, Elsewhere
    <2>3. tab' \in Tab
      BY <2>1, <2>2, BillingAssumption DEF Tab, Banners
    <2>4. TabOK'
      BY <1>1, <2>1, <2>2 DEF TabOK, checkoutVars, rows
    <2> QED BY <1>1, <2>3, <2>4, TabMoves
  <1> QED BY <1>2, <1>3

\* An attempt begins or is given up, its answer is read, lost or shown, and a banner is
\* dismissed.
LEMMA PollInv ==
    ASSUME BillingIInv, NextAttempt \/ ServePoll \/ LosePoll \/ PollArrives \/ Dismiss
    PROVE  BillingIInv'
  <1>1. UNCHANGED checkoutVars /\ tab.at = "billing"
    BY DEF NextAttempt, ServePoll, LosePoll, PollArrives, Dismiss
  <1>2. tab \in [at : {"billing", "elsewhere"}, banner : Banners, left : 0 .. Attempts,
                 poll : {"off", "wait", "sent", "error", "PENDING", "PAID", "REFUNDED"},
                 purchase : Purchases \union {NoEvent}]
    BY <1>1, TabCases DEF BillingIInv
  <1>3. UNCHANGED purchase /\ \A p : CreditPosted(p) => CreditPosted(p)'
    BY <1>1 DEF checkoutVars, rows, CreditPosted, IsPosted
  <1>4. CASE NextAttempt
    <2>1. \/ tab.left > 0 /\ tab' = [tab EXCEPT !.poll = "sent", !.left = tab.left - 1]
          \/ tab' = [tab EXCEPT !.poll = "off", !.banner = "slow"]
      BY <1>2, <1>4 DEF NextAttempt
    <2>2. /\ tab'.at = "billing" /\ tab'.purchase = tab.purchase /\ tab.poll = "wait"
          /\ tab'.poll \in {"sent", "off"} /\ tab'.banner \in {tab.banner, "slow"}
          /\ tab'.left \in 0 .. Attempts
      BY <1>1, <1>2, <1>4, <2>1, BillingAssumption DEF NextAttempt
    <2>3. tab' \in Tab
      BY <1>1, <1>2, <2>1, <2>2 DEF Tab, Banners
    <2>4. TabOK'
      BY <1>1, <1>3, <2>2 DEF BillingIInv, TabOK
    <2> QED BY <1>1, <2>3, <2>4, TabMoves
  <1>5. CASE ServePoll
    <2>1. /\ tab.poll = "sent" /\ tab.purchase \in Purchases /\ purchase[tab.purchase].status # "NONE"
          /\ purchase[tab.purchase].status \in {"PENDING", "PAID", "REFUNDED"}
      BY <1>1, <1>5 DEF ServePoll, BillingIInv, TabOK, CheckoutIInv, CheckoutTypeOK, PurchaseRow
    <2>2. PICK answer \in {"error", "PENDING", "PAID", "REFUNDED"} :
            /\ tab' = [tab EXCEPT !.poll = answer]
            /\ answer = "error" \/ answer = purchase[tab.purchase].status
      BY <1>5, <2>1 DEF ServePoll, Status
    <2>3. answer = "PAID" => CreditPosted(tab.purchase)
      BY <2>1, <2>2 DEF BillingIInv, CheckoutIInv, StatusFollowsLedger, CreditPosted
    <2>4. /\ tab'.at = "billing" /\ tab'.purchase = tab.purchase /\ tab'.poll = answer
          /\ tab'.banner = tab.banner /\ tab' \in Tab
      BY <1>1, <1>2, <2>2 DEF Tab
    <2>5. TabOK'
      BY <1>1, <1>3, <2>1, <2>3, <2>4 DEF BillingIInv, TabOK
    <2> QED BY <1>1, <2>4, <2>5, TabMoves
  <1>6. CASE LosePoll
    <2>1. /\ tab'.at = "billing" /\ tab'.purchase = tab.purchase /\ tab.poll # "off"
          /\ tab'.poll = "error" /\ tab'.banner = tab.banner /\ tab' \in Tab
      BY <1>1, <1>2, <1>6 DEF LosePoll, Tab
    <2>2. TabOK'
      BY <1>1, <1>3, <2>1 DEF BillingIInv, TabOK
    <2> QED BY <1>1, <2>1, <2>2, TabMoves
  <1>7. CASE PollArrives
    <2>1. \/ tab.poll = "PAID" /\ tab' = [tab EXCEPT !.banner = "credited", !.poll = "off"]
          \/ tab.poll = "REFUNDED" /\ tab' = [tab EXCEPT !.banner = "failed", !.poll = "off"]
          \/ tab.poll \in {"PENDING", "error"} /\ tab' = [tab EXCEPT !.poll = "wait"]
      BY <1>7 DEF PollArrives
    <2>2. /\ tab'.at = "billing" /\ tab'.purchase = tab.purchase /\ tab.poll # "off"
          /\ tab'.poll # "PAID" /\ tab' \in Tab
          /\ tab'.banner = "credited" => tab.poll = "PAID" \/ tab.banner = "credited"
      BY <1>1, <1>2, <2>1 DEF Tab, Banners
    <2>3. TabOK'
      BY <1>1, <1>3, <2>2 DEF BillingIInv, TabOK
    <2> QED BY <1>1, <2>2, <2>3, TabMoves
  <1>8. CASE Dismiss
    <2>1. /\ tab'.at = "billing" /\ tab'.purchase = tab.purchase
          /\ tab'.poll = tab.poll /\ tab'.banner = "none" /\ tab' \in Tab
      BY <1>1, <1>2, <1>8 DEF Dismiss, Tab, Banners
    <2>2. TabOK'
      BY <1>1, <1>3, <2>1 DEF BillingIInv, TabOK
    <2> QED BY <1>1, <2>1, <2>2, TabMoves
  <1> QED BY <1>4, <1>5, <1>6, <1>7, <1>8

\* The customer buys: the row is there before the browser is at Stripe.
LEMMA BuyInv ==
    ASSUME BillingIInv, NEW p \in Purchases, Buy(p) \/ BuyFails(p)
    PROVE  BillingIInv'
  <1>1. StartCheckout(p) /\ CheckoutNext
    BY DEF Buy, BuyFails, CheckoutNext
  <1>2. CheckoutIInv'
    BY <1>1, StartCheckoutInv DEF BillingIInv
  <1>3. CASE Buy(p)
    <2>1. tab' = [at |-> "stripe", purchase |-> p]
      BY <1>3 DEF Buy
    <2>2. purchase'[p].status = "PENDING"
      BY <1>1 DEF StartCheckout, BillingIInv, CheckoutIInv, CheckoutTypeOK, PurchaseRow
    <2> QED BY <1>2, <2>1, <2>2 DEF BillingIInv, TabOK, Tab
  <1>4. CASE BuyFails(p)
    BY <1>1, <1>2, <1>4, LedgerGrows, TabKept DEF BuyFails, BillingIInv
  <1> QED BY <1>3, <1>4

-----------------------------------------------------------------------------
(* The theorems.                                                           *)

\* The page is closed at the start.
LEMMA BillingInitInv == BillingInit => BillingIInv
  <1>1. BillingInit => tab \in Tab
    BY BillingAssumption DEF BillingInit, Elsewhere, Tab, Banners
  <1> QED BY <1>1, CheckoutInitInv DEF BillingInit, BillingIInv, TabOK, Elsewhere

\* Every step of the page, the server, Stripe and metering keeps the invariant.
THEOREM BillingStepInv == BillingIInv /\ [BillingNext]_billingVars => BillingIInv'
  <1> SUFFICES ASSUME BillingIInv, [BillingNext]_billingVars PROVE BillingIInv'
    OBVIOUS
  <1>1. CASE CheckoutNext /\ UNCHANGED tab
    <2>1. CheckoutIInv'
      BY <1>1, CheckoutStepInv DEF BillingIInv
    <2> QED BY <1>1, <2>1, LedgerGrows, TabKept DEF BillingIInv
  <1>2. CASE UNCHANGED billingVars
    <2>1. UNCHANGED <<checkoutVars, tab>>
      BY <1>2 DEF billingVars
    <2>2. TabOK'
      BY <2>1 DEF checkoutVars, rows, BillingIInv, TabOK, CreditPosted, IsPosted
    <2> QED BY <2>1, <2>2, TabMoves DEF BillingIInv
  <1> QED BY <1>1, <1>2, ArrivalInv, PollInv, BuyInv DEF BillingNext, Page

\* The invariant holds throughout.
THEOREM BillingInvariant == BillingSpec => []BillingIInv
  BY BillingInitInv, BillingStepInv, PTL DEF BillingSpec

\* The tab is always in a state of the page, and the rows, the ledger and the deliveries
\* are well formed.
THEOREM BillingTypeCorrect == BillingSpec => []BillingTypeOK
  <1>1. BillingIInv => BillingTypeOK
    BY DEF BillingIInv, CheckoutIInv, BillingTypeOK
  <1> QED BY <1>1, BillingInvariant, PTL

\* The page says that minutes were added only when they are in the ledger, for any number
\* of deliveries at once and of polls that fail or are late.
THEOREM BillingCredited == BillingSpec => []CreditedMeansPosted
  <1>1. BillingIInv => CreditedMeansPosted
    BY DEF BillingIInv, TabOK, CreditPosted, CreditedMeansPosted
  <1> QED BY <1>1, BillingInvariant, PTL
=============================================================================
