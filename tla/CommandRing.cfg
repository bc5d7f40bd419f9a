SPECIFICATION Spec
CONSTANTS
  MaxOps = 10
  Ptr = {p}
  NullPtr = NullPtr
  Sizes = {1, 2}
  Commands <- MCCommands
INVARIANTS
  TypeOK
  RingShape
  LookupIsByteOfContents
  SeekThenLookup
  NoCommandIsRefused
PROPERTY RefinesLog
