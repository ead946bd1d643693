SPECIFICATION TelemetrySpec
CONSTANTS
    p1 = p1
    p2 = p2
    Peers = {p1, p2}
    Reports = {h1, h2}
    MaxMoved <- MCMaxMoved
    MaxFaults = 1
    None = None
INVARIANTS
    NeverOvercounted
PROPERTIES
    CountersCatchUp
