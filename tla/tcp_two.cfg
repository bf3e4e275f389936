SPECIFICATION FairSpec
CONSTANTS
  Files = {"a", "b"}
  FileSize <- TwoFiles
  Packet_Size = 2
  maxPacketId = 7
  PayloadWord = 99
  Reorder = FALSE
  NegativeFirstRTT = TRUE
  ChanCap = 3
  MaxRounds = 3
INVARIANTS IInv FileIntact
PROPERTIES TransmissionEnds
CHECK_DEADLOCK FALSE
