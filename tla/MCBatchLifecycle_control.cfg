SPECIFICATION Spec
CONSTANTS
    a1 = a1
    a2 = a2
    x1 = x1
    x2 = x2
    o1 = o1
    Assignments <- TwoAssignments
    Accounts = {x1}
    AccountOf <- OneAccount
    Operators = {o1}
    Commands = {"start", "stop", "pause", "resume"}
    Unavailable = {"permanent", "leased"}
    Outcomes = {"answered", "retryable"}
    Slots = 1
    JobAttempts = 1
    ResumeAttempts = 1
    MaxWaits = 1
    MaxCommands = 3
    MaxCrashes = 1
    MaxFaults = 0
SYMMETRY AssignmentSymmetry
INVARIANTS
    NeverAskAnswered
    CompletedMeansAllSucceeded
CHECK_DEADLOCK FALSE
