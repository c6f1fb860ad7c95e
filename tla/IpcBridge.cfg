SPECIFICATION FairSpec
CONSTANTS
  Tokens = {t1}
  None = None
  SocketSize = 1
  MaxSerial = 2
  MaxMessages = 2
CHECK_DEADLOCK FALSE
INVARIANTS
  ReaderAtHand
  NoLostWakeup
PROPERTIES
  EverythingWritten
  EverythingRead
  HangUpsReported
