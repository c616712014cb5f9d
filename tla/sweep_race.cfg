SPECIFICATION Spec
CONSTANTS
  PctDen = 1
  Accounts = {p, q}
  s1 = s1
  s2 = s2
  s3 = s3
  p = p
  q = q
  Submissions <- OneJob
  Handlers = {g1, g2}
  Opening = 4
  NodeTypes <- Prices
  Weights <- PerCPU
  FlatRates <- Flat
  Reports <- Overrun
  TTL = 1
  Janitors = {"unbound"}
  LateBinds = FALSE
  Epilog = FALSE
  Faults <- NoFaults
  MaxClock = 2
PROPERTIES
  SweepsUnstartedOnly
CHECK_DEADLOCK FALSE
