SPECIFICATION FairSpec
CONSTANTS
    Fetches = {f1, f2, f3}
    None = None
    MaxListing = 3
    MaxRow = 2
    MaxFaults = 2
INVARIANTS
    OneRead
    StaleIsLabelled
PROPERTIES
    Converges
CHECK_DEADLOCK FALSE
