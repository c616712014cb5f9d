SPECIFICATION Spec
CONSTANTS
  PctDen = 1
  Submissions <- Cloud
  Transports <- Both
  Rate = 1
  Opening = 3
  Ends <- Ended
  TTL = 1
  MaxClock = 1
  MaxCrashes = 1
INVARIANTS
  TypeOK
  ClosedFunded
  BilledOnce
PROPERTIES
  StraysReclaimed
CHECK_DEADLOCK FALSE
