SPECIFICATION Spec
CONSTANTS
  Files = {"a"}
  FileSize <- EmptyFile
  Packet_Size = 2
  maxPacketId = 7
  PayloadWord = 99
  Reorder = FALSE
  NegativeFirstRTT = FALSE
  ChanCap = 3
  MaxRounds = 1
INVARIANT CompleteMeansWritten
CHECK_DEADLOCK FALSE
