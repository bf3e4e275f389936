SPECIFICATION PreemptSpec
CONSTANTS
  Files = {"a", "b"}
  FileSize <- TwoFiles
  Packet_Size = 2
  maxPacketId = 7
  PayloadWord = 99
  Reorder = FALSE
  NegativeFirstRTT = FALSE
  ChanCap = 3
  MaxRounds = 2
INVARIANT CompleteIsOnDisk
CHECK_DEADLOCK FALSE
