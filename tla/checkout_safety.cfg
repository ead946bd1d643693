\* Two deliveries at once, and stops of the server in the middle of them.
SPECIFICATION CheckoutSpec
CONSTANTS
    u1 = u1
    p1 = p1
    p2 = p2
    Users = {u1}
    Purchases = {p1, p2}
    Handlers = {h1, h2}
    NoEvent = NoEvent
    Refunds = 1
    Disputes = 1
    Used = 1
    Buyer <- MCBuyer
    Grant <- MCGrant
    Events <- MCEvents
    Usage <- MCUsage
    Requests <- MCRequests
SYMMETRY CheckoutSymmetry
INVARIANTS
    StampedIsDone
    StatusFollowsLedger
    OnlyPaidIsCredited
    AnsweredInTurn
