SPECIFICATION FairSpec
CONSTANTS
    p1 = p1
    p2 = p2
    Processes = {p1}
    Attempts = 2
    MsLength = 2
    MaxReruns = 0
    MaxMishaps = 0
PROPERTIES
    SettledIsAnalysed
CHECK_DEADLOCK FALSE
