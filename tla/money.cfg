SPECIFICATION Spec
CONSTANTS
  PctDen = 4
  JobIDs = {j1}
  ArrayIDs = {a1}
  Rates <- MoneyRates
  NewRates = {1}
  Walltimes = {0, 1, 2}
  Runtimes <- MoneyRuntimes
  TaskCounts = {0, 3}
  TaskIdxs = {0, 1, 2, 3}
  Amounts = {0, 2}
  Windows <- MoneyWindows
  BurstConfigs = {}
  NewConfigs <- MoneyConfigs
  WalOutcomes = {TRUE, FALSE}
  MaxClock = 1
  Skew = 0
  MaxB0 = 6
INVARIANTS
  TypeOK
  ConservationOK
  ReservedIsHeld
  NoOverdraft
  EscrowsFunded
PROPERTIES
  LedgerKept
