SPECIFICATION Spec
CONSTANTS
  PctDen = 4
  JobIDs = {j1}
  ArrayIDs = {}
  Rates = {0}
  NewRates = {1}
  Walltimes = {2}
  Runtimes = {1}
  TaskCounts = {2}
  TaskIdxs = {0, 1}
  Amounts = {2}
  Windows = {}
  BurstConfigs <- Toggles
  NewConfigs <- Bursty
  Lapses = {"lapse"}
  AppendOutcomes = {"ok", "fail", "torn"}
  Crashes = {"kill", "power"}
  TornTails = TRUE
  SyncFails = TRUE
  MaxClock = 1
  MaxUnits = 6
  MaxCrashes = 1
  MaxSnapshots = 2
CONSTRAINT Unspoiled
INVARIANTS
  TypeOK
  ReplayExact
  PowerSafe
