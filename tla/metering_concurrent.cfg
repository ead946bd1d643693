SPECIFICATION MeteringFairSpec
CONSTANTS
    u1 = u1
    buy = buy
    topUp = topUp
    refund = refund
    BuyMinutes = 2
    TopUpMinutes = 0
    RefundMinutes = 0
    Users = {u1}
    Keys <- MCKeys
    Requests <- MCRequests
    Credits <- MCCredits
    Calls = {h1, h2}
    NoCall = NoCall
    Devices = {d1}
    Owner <- MCOwner
    Sessions = {s1, s2, s3}
    NoSession = NoSession
    Minute = 1
    IdleEnd = 1
    TxTimeout = 1
    ReportLimit = 1
    MaxTime = 2
INVARIANT OneActiveSession
PROPERTIES
    EndedStaysEnded
    AbandonedIsClosed
    ReportsEnd
