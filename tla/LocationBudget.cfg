SPECIFICATION BudgetSpec
CONSTANTS
  Threads = {t1, t2, t3}
  Sizes = {1, 2}
  Budget = 3
  Window = 3
  Lag = 1
  MaxClock = 5
  None = None
CONSTRAINT Bounded
SYMMETRY Symmetry
CHECK_DEADLOCK FALSE
INVARIANT BudgetHolds
PROPERTY RefusalsAreJustified
