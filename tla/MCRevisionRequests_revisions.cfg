SPECIFICATION Spec
CONSTANTS
    r1 = r1
    r2 = r2
    r3 = r3
    k1 = k1
    k2 = k2
    NoKey = NoKey
    Requests = {r1, r2, r3}
    Keys = {k1, k2}
    Contents = {1, 2}
    MaxRequests = 4
    MaxMishaps = 1
SYMMETRY RequestSymmetry
INVARIANTS
    Idempotence
    
    HeldKeysAccounted
CHECK_DEADLOCK FALSE
