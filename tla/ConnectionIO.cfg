SPECIFICATION FairSpec
CONSTANTS
  a = a
  b = b
  NL = NL
  Key = Key
  Byte <- MCByte
  Streams <- MCStreams
  Stored <- MCStored
  Capacity = 2
  CHUNK_SIZE = 8
  TMP_BUF_SIZE = 3
  Faults <- FaultNames
INVARIANTS
  TypeOK
  RoomToRead
  StreamInOrder
  AnswerIsDevice
  AnsweredIsStored
  EndReleases
PROPERTY RequestIsHandled
CHECK_DEADLOCK FALSE
