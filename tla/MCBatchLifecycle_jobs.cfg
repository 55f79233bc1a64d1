SPECIFICATION FairSpec
CONSTANTS
    a1 = a1
    a2 = a2
    x1 = x1
    x2 = x2
    o1 = o1
    Assignments <- OneAssignment
    Accounts = {x1}
    AccountOf <- OneAccount
    Operators = {o1}
    Commands = {"start", "pause"}
    Unavailable = {"temporary", "leased"}
    Outcomes = {"answered", "retryable", "final"}
    Slots = 1
    JobAttempts = 2
    ResumeAttempts = 2
    MaxWaits = 1
    MaxCommands = 2
    MaxCrashes = 1
    MaxFaults = 2
INVARIANTS
    RetryBudget
PROPERTIES
    LedgerSpec
    
CHECK_DEADLOCK FALSE
