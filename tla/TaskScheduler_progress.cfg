SPECIFICATION FairSpec
CONSTANTS
  Tasks = {t1, t2}
  Cancellable = {t1, t2}
  r1 = r1
  r2 = r2
  Refs = {r1, r2}
  Requests <- EveryKind
PROPERTIES HandlersUnwind StarvedOnlyByStalePath
CHECK_DEADLOCK FALSE
