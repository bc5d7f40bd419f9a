SPECIFICATION FairSpec
CONSTANTS
  Conn = {c1, c2}
  NoConn = NoConn
  Main = Main
  MaxBeside = 1
  Capacity = 2
  MaxRequests = 2
  Faults <- MCFaults
INVARIANTS
  TypeOK
  MutexDiscipline
  ReplyIsSnapshot
  WorkerKeepsItsMemory
  ExitLeavesNothing
PROPERTIES
  RequestIsServed
  StopsUnlessMutexLost
CHECK_DEADLOCK FALSE
