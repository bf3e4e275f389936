SPECIFICATION FairSpec
CONSTANTS
  Files = {"a"}
  FileSize <- OneFile
  Packet_Size = 2
  maxPacketId = 7
  PayloadWord = 99
  Reorder = FALSE
  NegativeFirstRTT = TRUE
  ChanCap = 3
  MaxRounds = 1
PROPERTY TransmissionAlwaysEnds
CHECK_DEADLOCK FALSE
