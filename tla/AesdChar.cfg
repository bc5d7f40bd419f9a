SPECIFICATION Spec
CONSTANTS
  MaxOps = 2
  Ptr = {m1, m2, m3, m4}
  NullPtr = NullPtr
  Proc = {p1, p2}
  NoProc = NoProc
  a = a
  NL = NL
  Byte <- MCByte
  WriteBufs <- WithTail
  ReadCounts = {1, 3}
  SeekArgs <- MCSeeks
  LlseekArgs <- AllLlseeks
  Faults = {"signal", "nomem", "fault"}
  MaxAlloc = 2
  SizeModulus = 65536
  PrintSlots = 0
SYMMETRY Symmetry
INVARIANTS
  TypeOK
  MutualExclusion
  MemoryOwned
  CleanupFreesAll
  CommandsWellFormed
  ReadIsSlice
PROPERTIES
  RefinesDevice
  WholeCommandNotShort
  ReadIsFull
  PositionInContents
