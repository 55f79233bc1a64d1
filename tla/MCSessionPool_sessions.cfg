SPECIFICATION FairSpec
CONSTANTS
  a1 = a1 a2 = a2 k1 = k1 k2 = k2 k3 = k3
  Accounts = {a1, a2}
  Keys = {k1, k2, k3}
  AccountOf <- MCAccountOf
  SlotZero = {k1, k3}
  Anonymous = {k3}
  MaxBrowsers = 2
  IdleLimit = 1
  SubmitInterval = 1
  MaxWaits = 1
  MaxLive = 1
INVARIANTS  NoBrowserOutOfReach 
PROPERTIES GateSpacing BrowsersGivenBack
