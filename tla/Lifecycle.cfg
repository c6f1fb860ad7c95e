SPECIFICATION FairSpec
CONSTANTS
  MaxStarts = 3
  MaxEvents = 3
CHECK_DEADLOCK FALSE
INVARIANTS StoppedCleanly LaunchFailsAfterCrash
PROPERTIES ShutdownReturns
