SPECIFICATION Spec
CONSTANTS
  Major = {m1, m2}
  Slots = 10
  Faults <- FaultNames
INVARIANTS
  TypeOK
  NothingLeft
  OpenIsBacked
  NodeAtRest
