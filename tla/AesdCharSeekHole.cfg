SPECIFICATION FairSpec
CONSTANTS
  MaxOps = 1
  Ptr = {m1, m2}
  NullPtr = NullPtr
  Proc = {p1, p2}
  NoProc = NoProc
  a = a
  NL = NL
  Byte <- MCByte
  WriteBufs <- OneOfEach
  ReadCounts = {2}
  SeekArgs = {}
  LlseekArgs <- HoleSeek
  Faults = {}
  MaxAlloc = 2
  SizeModulus = 65536
  PrintSlots = 0
PROPERTY ReadHonored
CHECK_DEADLOCK FALSE
