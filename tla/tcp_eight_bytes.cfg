SPECIFICATION Spec
CONSTANTS
  Files = {"a", "b"}
  FileSize <- EightTail
  Packet_Size = 10
  maxPacketId = 7
  PayloadWord = 99
  Reorder = FALSE
  NegativeFirstRTT = FALSE
  ChanCap = 3
  MaxRounds = 2
INVARIANT CompleteIsOnDisk
CHECK_DEADLOCK FALSE
