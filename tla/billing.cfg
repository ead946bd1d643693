\* The webhook and the page: a purchase with its refund, two deliveries at once, throws and stops.
SPECIFICATION BillingSpec
CONSTANTS
    u1 = u1
    p1 = p1
    Users = {u1}
    Purchases = {p1}
    Handlers = {h1, h2}
    NoEvent = NoEvent
    Attempts = 2
    Buyer <- MCBuyer
    Grant <- MCGrant
    Events <- MCEvents
    Usage <- MCUsage
    Requests <- MCRequests
INVARIANT CreditedMeansPosted
PROPERTIES
    PaidIsCredited
    KnownIsTakenBack
    ReturnSettles
