SPECIFICATION FairSpec
CONSTANTS
  Conn = {c1, c2}
  NoConn = NoConn
  Main = Main
  MaxBeside = 0
  Capacity = 2
  MaxRequests = 2
  Faults = {"signal"}
PROPERTY SignalStopsServer
CHECK_DEADLOCK FALSE
