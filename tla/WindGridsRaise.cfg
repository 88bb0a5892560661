SPECIFICATION Spec
CONSTANTS
  Threads = {t1, t2}
  Boxes <- MCBoxes
  GridMax = 1
  BulkMax = 1
  MaxNow = 1
  None = None
CHECK_DEADLOCK FALSE
INVARIANT NeverRaises
