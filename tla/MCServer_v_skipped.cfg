SPECIFICATION LayeredSpec
CONSTANTS
  Tokens = {1, 2, 3}
  Functions = {"f"}
  Priorities = {0, 1}
  Contexts = {c1}
  None = None
  MaxSerial = 3
  MaxDisconnects = 1
  MaxRegistrations = 0
  MaxUpdates = 0
CHECK_DEADLOCK FALSE
INVARIANTS
  NotHandledMeansAllAsked
