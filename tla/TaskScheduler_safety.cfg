SPECIFICATION Spec
CONSTANTS
  Tasks = {t1, t2, t3}
  Cancellable = {t1, t2, t3}
  r1 = r1
  r2 = r2
  Refs = {r1, r2}
  Requests <- Singles
SYMMETRY Symmetry
INVARIANTS NoLostWakeup TaskListSound
CHECK_DEADLOCK FALSE
