SPECIFICATION FairSpec
CONSTANTS
  Batches = {b1, b2}
  Datasets = {d1, d2}
  MaxWorkers = 1
  MaxBatches = 3
  None = None
CHECK_DEADLOCK FALSE
INVARIANT ReasonsMatchCache
INVARIANT WarningsMatchFacts
PROPERTY BatchesEnd
