SPECIFICATION LoginSpec
CONSTANTS
    Configs <- MCConfigs
    Down = Down
    MaxTime = 2
    Requests = {r1, r2}
    Callers = {r1, r2}
    Users = {ann}
    Allowlist = {ann}
    Ips = {ip1}
    Buckets <- MCBuckets
    Links = {l1}
    Sessions = {s1, s2}
    LinkTTL = 1
    LinkKept = 0
    SessionTTL = 1
    RefreshAfter = 0
    Limit = 1
    Window = 1
    Kept = 1
    None = None
SYMMETRY Symmetry
INVARIANTS
    LoginTypeOK
    NeverOverLimit
    SignedOutStaysOut
    BurnedForSession
    LinkReachesUser
