SPECIFICATION FairSpec
CONSTANTS
  MaxWorkers = 2
  MaxMoves = 1
  OptionSets <- MCOptionSets
  None = None
CHECK_DEADLOCK FALSE
INVARIANT FinishedFeedsAreServed
INVARIANT OneStormPerBundle
INVARIANT RefreshReadsThrough
PROPERTY EveryRequestIsAnswered
