SPECIFICATION NodeAgentFairSpec
CONSTANTS
    Users = {u1}
    PublicKeys = {k1, k2}
    Nodes = {n1}
    Capacity <- MCCapacity
    Room = 2
    LastHost = 2
    None = None
PROPERTIES
    DisallowedIsDropped
    AllowedIsConnected
