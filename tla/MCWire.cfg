SPECIFICATION FairSpec
CONSTANTS
  Base = 2
  SocketSize = 6
  MaxSent = 3
CONSTANT Messages <- MCMessages
CHECK_DEADLOCK FALSE
PROPERTIES
  ImplementsFifo
  ImplementsFairFifo
