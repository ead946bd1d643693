SPECIFICATION MeteringSpec
CONSTANTS
    u1 = u1
    buy = buy
    topUp = topUp
    refund = refund
    BuyMinutes = 2
    TopUpMinutes = 0
    RefundMinutes = 1
    Users = {u1}
    Keys <- MCKeys
    Requests <- MCRequests
    Credits <- MCCredits
    Calls = {h1, h2}
    NoCall = NoCall
    Devices = {d1}
    Owner <- MCOwner
    Sessions = {s1, s2}
    NoSession = NoSession
    Minute = 2
    IdleEnd = 2
    TxTimeout = 1
    ReportLimit = 2
    MaxTime = 4
SYMMETRY MeteringSymmetry
INVARIANTS
    MinutesBilledMatchesLedger
    LedgerMinutesAreShown
    ClockMatchesLedger
    ExactTimeHasPassed
    OneStreamOfMinutes
    NoChargeAcrossGap
PROPERTIES
    RanOutMeansEmpty
