SPECIFICATION AskFairSpec
CONSTANTS
    MaxAttempts = 3
    SettlePolls = 3
    FillAttempts = 2
    StablePolls = 2
    LandingPolls = 1
    SilentPolls = 2
    BudgetPolls = 4
    MaxDeaths = 1
INVARIANTS
    AskedCleanly
    OutcomeIsTrue
    RepeatsAccounted
PROPERTIES
    AskConcludes
CHECK_DEADLOCK FALSE
