SPECIFICATION Spec
CONSTANTS
  MaxOps = 1
  Ptr = {m1, m2}
  NullPtr = NullPtr
  Proc = {p1, p2}
  NoProc = NoProc
  a = a
  NL = NL
  Byte <- MCByte
  WriteBufs <- TwoCommands
  ReadCounts = {}
  SeekArgs = {}
  LlseekArgs = {}
  Faults = {}
  MaxAlloc = 2
  SizeModulus = 65536
  PrintSlots = 0
PROPERTY ScanAdvances
