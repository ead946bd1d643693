SPECIFICATION ProvisioningSpec
CONSTANTS
    n1 = n1
    n2 = n2
    east = east
    west = west
    Users = {u1, u2}
    PublicKeys = {k1, k2, k3}
    Nodes = {n1, n2}
    Regions = {east, west}
    RegionOf <- MCRegionOf
    Capacity <- MCCapacity
    Room = 1
    LastHost = 2
    MaxDevices = 2
    Calls = {c1, c2}
    None = None
SYMMETRY ProvisioningSymmetry
INVARIANTS
    NodeWithinCapacity
    QueriesAgree
PROPERTY PlacementsKept
