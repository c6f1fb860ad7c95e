SPECIFICATION Spec
CONSTANTS
  Tokens = {t1, t2}
  Functions = {"f"}
  Priorities = {0, 1}
  Contexts = {c1, c2}
  None = None
  MaxSerial = 2
  MaxDisconnects = 1
  MaxRegistrations = 1
  MaxUpdates = 1
CHECK_DEADLOCK FALSE
SYMMETRY Symmetry
INVARIANTS
  TypeOK
  TableSorted
