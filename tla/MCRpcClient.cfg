SPECIFICATION FairSpec
CONSTANTS
  c1 = c1
  c2 = c2
  c3 = c3
  Contexts = {c1, c2, c3}
  Programs <- MCPrograms
  MaxPartial = 1
CHECK_DEADLOCK FALSE
INVARIANTS DropFlushes ResponsesInOrder 
PROPERTIES WaitReturns DropReleasesWaiters DropReturns
