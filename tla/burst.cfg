SPECIFICATION Spec

CONSTANTS
  PctDen = 4
  JobIDs = {j1}
  ArrayIDs = {a1}
  Rates = {2}
  NewRates = {1}
  Walltimes = {1, 2}
  Runtimes = {0, 1}
  TaskCounts = {2}
  TaskIdxs = {0, 1}
  Amounts = {1}
  Windows = {}
  BurstConfigs <- BurstRetune
  NewConfigs <- BurstNewConfigs
  WalOutcomes = {TRUE}
  MaxClock = 3
  Skew = 0
  MaxB0 = 4
INVARIANTS
  RLiveIsLiveBurn
  PermissionEarned
  DispatchAgrees
  SimulateAgrees
PROPERTIES
  CeilingCaps
