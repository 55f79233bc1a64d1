SPECIFICATION SafetySpec
CONSTANTS
  NULL = NULL j1 = j1 j2 = j2 j3 = j3
  Assignments = {j1, j2, j3}
  Handlers = 2
  DailyLimit = 1
  WindowLimit = 1
  Window = 1
  MinGap = 0
  Cooldown = 1
  Day = 1
  MaxFailures = 1
  MaxAttempts = 2
  MaxWaits = 1
  MaxCommands = 1
  MaxStalls = 1
SYMMETRY JobSymmetry
INVARIANTS SafetyTypeOK LimitsKept BlockStopsAsking
CHECK_DEADLOCK FALSE
