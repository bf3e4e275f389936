SPECIFICATION Spec
CONSTANTS
  Files = {"a"}
  FileSize <- OneFile
  Packet_Size = 2
  maxPacketId = 7
  PayloadWord = 99
  Reorder = TRUE
  NegativeFirstRTT = TRUE
  ChanCap = 3
  MaxRounds = 2
INVARIANTS WindowOK AckedIsAccepted CompleteMeansWritten IInv
PROPERTIES ImplementsFileTransfer
CHECK_DEADLOCK FALSE
