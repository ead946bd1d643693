SPECIFICATION DiscoverySpec
CONSTANTS
    Regions = {us, eu}
    Home = us
    Requests = {q1, q2}
    TTL = 1
    None = None
SYMMETRY Symmetry
INVARIANTS
    SampleMeansFailed
    SelectedIsShown
