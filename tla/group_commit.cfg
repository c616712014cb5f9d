SPECIFICATION Spec
CONSTANTS
  Appenders = {a1, a2}
  Flushers = {f1}
  MaxWrites = 3
INVARIANTS
  TypeOK
  SyncedIsDurable
  Barrier
PROPERTIES
  EveryAppendSynced
  BarriersReturn
CHECK_DEADLOCK FALSE
