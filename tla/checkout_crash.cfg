\* The server stops after the event row is in and before the work is done.
SPECIFICATION CheckoutSpec
CONSTANTS
    u1 = u1
    p1 = p1
    p2 = p2
    Users = {u1}
    Purchases = {p1, p2}
    Handlers = {h1}
    NoEvent = NoEvent
    Refunds = 0
    Disputes = 0
    Used = 0
    Buyer <- MCBuyer
    Grant <- MCGrant
    Events <- MCEvents
    Usage <- MCUsage
    Requests <- MCRequests
INVARIANT AnsweredIsDone
