SPECIFICATION WalletFairSpec
CONSTANTS
    u1 = u1
    u2 = u2
    kBuy = kBuy
    kTick = kTick
    kSpend = kSpend
    kOther = kOther
    Users = {u1, u2}
    Keys = {kBuy, kTick, kSpend, kOther}
    Requests <- MCRequests
    Calls = {c1, c2}
    NoCall = NoCall
INVARIANTS
    WalletTypeOK
    ChainIntact
    KeysUnique
    ReturnedIsDurable
PROPERTIES
    PromiseKept
    CallsEnd
