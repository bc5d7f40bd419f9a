SPECIFICATION FairSpec
CONSTANTS
  Thread = {t1, t2}
  MaxForks = 2
  Faults <- FaultNames
INVARIANTS
  TypeOK
  SuccessIsOwn
  ChildrenAccounted
PROPERTY CallReturns
CHECK_DEADLOCK FALSE
