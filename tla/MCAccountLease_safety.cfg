SPECIFICATION Spec
CONSTANTS
    w1 = w1
    w2 = w2
    x1 = x1
    x2 = x2
    j1 = j1
    j2 = j2
    j3 = j3
    Nobody = Nobody
    Workers = {w1, w2}
    Accounts = {x1, x2}
    Jobs <- ThreeJobs
    AccountOf <- TwoOnOne
    Slots = 2
    PoolMax = 2
    MaxDeaths = 1
    MaxFaults = 1
SYMMETRY WorkerSymmetry
INVARIANTS
    LeasesKept
    NoStrandedLock
    LeaksAccounted
CHECK_DEADLOCK FALSE
