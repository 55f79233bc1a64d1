SPECIFICATION FairSpec
CONSTANTS
    p1 = p1
    p2 = p2
    Processes = {p1, p2}
    Attempts = 2
    MsLength = 2
    MaxReruns = 1
    MaxMishaps = 2
INVARIANTS
    FreshResult
PROPERTIES
    ConcludedStays
    
CHECK_DEADLOCK FALSE
