SPECIFICATION Spec
CONSTANTS
  Thread = {t1, t2}
  MaxForks = 2
  Faults <- FaultNames
INVARIANT FileClosed
CHECK_DEADLOCK FALSE
