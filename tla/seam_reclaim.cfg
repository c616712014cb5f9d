SPECIFICATION Spec
CONSTANTS
  PctDen = 1
  Accounts = {p, q}
  s1 = s1
  s2 = s2
  s3 = s3
  p = p
  q = q
  Submissions <- OneMultiJob
  Handlers = {g1, g2}
  Opening = 3
  NodeTypes <- Prices
  Weights <- PerCPU
  FlatRates <- Flat
  Reports <- Overrun
  TTL = 1
  Janitors = {"unbound", "reconcile"}
  LateBinds = TRUE
  Epilog = TRUE
  Faults <- CrashOrFails
  MaxClock = 1
PROPERTIES
  EscrowReclaimed
  ReconcileSparesBound
CHECK_DEADLOCK FALSE
