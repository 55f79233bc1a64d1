SPECIFICATION FairSpec
CONSTANTS
    w1 = w1
    w2 = w2
    Workers = {w1, w2}
    Events = {1}
    Endpoints = {1, 2}
    MaxAttempts = 3
    MaxMishaps = 1
INVARIANTS
    DeliveredMeansReceived
    DuplicatesBounded
PROPERTIES
    NoEventForgotten
    AloneConcludes
CHECK_DEADLOCK FALSE
