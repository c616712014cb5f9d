SPECIFICATION Spec
SYMMETRY HandlerSymmetry
CONSTANTS
  PctDen = 1
  Accounts = {p, q}
  s1 = s1
  s2 = s2
  s3 = s3
  p = p
  q = q
  Submissions <- Contenders
  Handlers = {g1, g2}
  Opening = 4
  NodeTypes <- Prices
  Weights <- PerCPU
  FlatRates <- Flat
  Reports <- Ends
  TTL = 0
  Janitors = {}
  LateBinds = FALSE
  Epilog = FALSE
  Faults <- NoFaults
  MaxClock = 0
INVARIANTS
  TypeOK
  AllOrNothing
  Routed
  TablesReclaimed
  LegsAgree
  BillExact
CHECK_DEADLOCK FALSE
