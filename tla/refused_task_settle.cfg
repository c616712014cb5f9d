SPECIFICATION Spec
CONSTANTS
  PctDen = 4
  JobIDs = {}
  ArrayIDs = {a1}
  Rates = {0}
  NewRates = {1}
  Walltimes = {1}
  Runtimes = {0, 1}
  TaskCounts = {2}
  TaskIdxs = {0, 1}
  Amounts = {}
  Windows = {}
  BurstConfigs = {}
  NewConfigs <- Plain
  Lapses = {}
  AppendOutcomes = {"ok"}
  Crashes = {"kill"}
  TornTails = FALSE
  SyncFails = FALSE
  MaxClock = 0
  MaxUnits = 8
  MaxCrashes = 1
  MaxSnapshots = 1
INVARIANTS
  RecoveryAccepted
