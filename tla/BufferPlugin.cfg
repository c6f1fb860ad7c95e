SPECIFICATION FairSpec
CONSTANTS
  Calls = {1, 2, 3}
  Indices = {0}
  None = None
  MaxCancels = 1
CHECK_DEADLOCK FALSE
INVARIANTS
  EventsTellBuffers
  IndicesUsedOnce
PROPERTIES
  EveryCallAnswered
