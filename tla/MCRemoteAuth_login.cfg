SPECIFICATION FairSpec
CONSTANTS
  MaxCancels = 2
  MaxFaults = 1
INVARIANTS StatusIsTrue CancelIsSeen
PROPERTIES  LoginsEnd
CHECK_DEADLOCK FALSE
