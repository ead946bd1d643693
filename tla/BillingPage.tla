---------------------------- MODULE BillingPage ----------------------------
(***************************************************************************)
(* app/dashboard/billing/page.tsx and GET /purchases/:id, over Checkout:   *)
(* a customer buys, pays at Stripe and comes back to a page that waits for *)
(* the webhook by polling.  A request of the page may fail at any moment,  *)
(* and its answer is as old as the statement that read it.  The lists of   *)
(* the page and the price estimate are left out.                           *)
(***************************************************************************)
EXTENDS Checkout

CONSTANT Attempts \* how often the page polls: 14 times in 20 seconds

ASSUME BillingAssumption == Attempts \in Nat

VARIABLE
    tab \* where the tab is, with the state of the page: ret, the poll and its answer

billingVars == <<checkoutVars, tab>>

Banners == {"none", "crediting", "credited", "failed", "slow", "cancelled"}

\* left: the attempts to come; poll: the request, or the answer that is under way.
Tab == [at : {"billing", "elsewhere"}, banner : Banners, left : 0 .. Attempts,
        poll : {"off", "wait", "sent", "error", "PENDING", "PAID", "REFUNDED"},
        purchase : Purchases \union {NoEvent}] \union [at : {"stripe"}, purchase : Purchases]

Elsewhere == [at |-> "elsewhere", banner |-> "none", left |-> 0, poll |-> "off",
              purchase |-> NoEvent]

Opened == [Elsewhere EXCEPT !.at = "billing"]

BillingTypeOK == CheckoutTypeOK /\ tab \in Tab

BillingInit == CheckoutInit /\ tab = Elsewhere

SignedIn(u) == u \in loggedIn \ suspended

OpenPage ==
    /\ tab.at = "elsewhere"
    /\ tab' = Opened
    /\ UNCHANGED checkoutVars

\* The effect's cleanup stops the loop, and what is under way is dropped.
LeavePage ==
    /\ tab.at # "elsewhere"
    /\ tab' = Elsewhere
    /\ UNCHANGED checkoutVars

\* buy: the row is there before the browser goes to Stripe.
Buy(p) ==
    /\ tab.at = "billing" /\ tab.poll = "off"
    /\ StartCheckout(p)
    /\ tab' = [at |-> "stripe", purchase |-> p]

\* The payment fails to start; a message says so, and the row may be there.
BuyFails(p) ==
    /\ tab.at = "billing" /\ tab.poll = "off"
    /\ StartCheckout(p)
    /\ UNCHANGED tab

\* success_url, with the id of the purchase: the session has completed.
ReturnPaid ==
    /\ tab.at = "stripe"
    /\ Emitted("paid", tab.purchase) \/ Emitted("unpaid", tab.purchase)
    /\ tab' = [Opened EXCEPT !.banner = "crediting", !.left = Attempts, !.poll = "wait",
                             !.purchase = tab.purchase]
    /\ UNCHANGED checkoutVars

ReturnCancelled ==
    /\ tab.at = "stripe"
    /\ tab' = [Opened EXCEPT !.banner = "cancelled"]
    /\ UNCHANGED checkoutVars

\* Mutant: an attempt that fails is not counted.
NextAttemptForErrors ==
    /\ tab.at = "billing"
    /\ tab.poll = "wait"
    /\ tab.left > 0
    /\ tab' = [tab EXCEPT !.poll = "sent"]
    /\ UNCHANGED checkoutVars

NextAttempt ==
    /\ tab.at = "billing"
    /\ tab.poll = "wait"
    /\ tab' = IF tab.left > 0 THEN [tab EXCEPT !.poll = "sent", !.left = @ - 1]
              ELSE [tab EXCEPT !.poll = "off", !.banner = "slow"]
    /\ UNCHANGED checkoutVars

\* Mutant: the row of a completed session is taken for a paid one.
StatusByIntent(p) == IF purchase[p].intent THEN "PAID" ELSE "PENDING"

Status(p) == purchase[p].status

\* The purchase is read behind requireAuth.
ServePoll ==
    /\ tab.at = "billing" /\ tab.poll = "sent"
    /\ tab' = [tab EXCEPT !.poll = IF SignedIn(Buyer[tab.purchase]) THEN Status(tab.purchase)
                                   ELSE "error"]
    /\ UNCHANGED checkoutVars

LosePoll ==
    /\ tab.at = "billing" /\ tab.poll \in {"sent", "PENDING", "PAID", "REFUNDED"}
    /\ tab' = [tab EXCEPT !.poll = "error"]
    /\ UNCHANGED checkoutVars

PollArrives ==
    /\ tab.at = "billing"
    /\ tab' = CASE tab.poll = "PAID" -> [tab EXCEPT !.banner = "credited", !.poll = "off"]
                [] tab.poll = "REFUNDED" -> [tab EXCEPT !.banner = "failed", !.poll = "off"]
                [] tab.poll \in {"PENDING", "error"} -> [tab EXCEPT !.poll = "wait"]
                [] OTHER -> tab
    /\ tab' # tab
    /\ UNCHANGED checkoutVars

\* Only the banner: the loop goes on, and shows one again when it ends.
Dismiss ==
    /\ tab.at = "billing" /\ tab.banner # "none"
    /\ tab' = [tab EXCEPT !.banner = "none"]
    /\ UNCHANGED checkoutVars

Page == NextAttempt \/ ServePoll \/ LosePoll \/ PollArrives

BillingNext ==
    \/ OpenPage \/ LeavePage \/ ReturnPaid \/ ReturnCancelled \/ Page \/ Dismiss
    \/ \E p \in Purchases : Buy(p) \/ BuyFails(p)
    \/ CheckoutNext /\ UNCHANGED tab

\* Stops of the server and statements that fail come to an end some day, Stripe delivers
\* again what is unanswered, and a request of the page is answered or fails.
BillingSpec ==
    /\ BillingInit /\ [][BillingNext]_billingVars
    /\ <>[][\A h \in Handlers : ~Throw(h) /\ ~Stop(h)]_billingVars
    /\ \A h \in Handlers : WF_billingVars(Work(h) /\ UNCHANGED tab)
    /\ \A e \in Events : SF_billingVars(stripe[e] = "pending" /\ Deliver(e) /\ UNCHANGED tab)
    /\ WF_billingVars(Page)

-----------------------------------------------------------------------------
(* Properties.                                                             *)

\* The page says that minutes were added only when they are in the ledger: neither
\* its polling nor the status it reads gets ahead of the credit (billing/page.tsx,
\* resolveReturn; checkout.ts, handleCheckoutCompleted).
CreditedMeansPosted ==
    tab.at = "billing" /\ tab.banner = "credited" =>
        \E e \in Events : e.kind = "paid" /\ e.purchase = tab.purchase /\ IsPosted(Key(e))

\* The page never waits for ever: whatever fails, it comes to an answer or says that
\* there is none yet (billing/page.tsx: "not a spinner that never resolves").
ReturnSettles == (tab.at = "billing" /\ tab.banner = "crediting")
                    ~> ~(tab.at = "billing" /\ tab.banner = "crediting")
=============================================================================
