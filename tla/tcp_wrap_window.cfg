SPECIFICATION Spec
CONSTANTS
  Files = {"a"}
  FileSize <- EvenFile
  Packet_Size = 2
  maxPacketId = 2
  PayloadWord = 99
  Reorder = FALSE
  NegativeFirstRTT = FALSE
  ChanCap = 4
  MaxRounds = 1
INVARIANT FileIntact
CHECK_DEADLOCK FALSE
