SPECIFICATION FairSpec
CONSTANTS
    w1 = w1
    w2 = w2
    e1 = e1
    e2 = e2
    Workers = {w1, w2}
    Editors = {e1}
    Schedules <- MCSchedules
    MaxTime = 2
    MaxEdits = 1
    MaxMishaps = 1
INVARIANTS
    TypeOK
    StartedOnce
    CompletedWasStarted
    NoBurst
PROPERTIES
    DueIsMaterialised
    OccurrenceConcludes
CHECK_DEADLOCK FALSE
