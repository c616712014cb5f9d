SPECIFICATION Spec
CONSTANTS
  PctDen = 1
  Accounts = {p, q}
  Xfers = {x1, x2}
  Amounts = {1}
  Alls = {TRUE}
  Opening = 1
  Faults <- Regimes
  MaxLog = 1
  MaxCrashes = 2
INVARIANTS
  TypeOK
  LegsOnce
  MoneyConserved
PROPERTIES
  MovesAtomically
  TransferCompletes
