SPECIFICATION FairSpec
CONSTANTS
  Callers = {c1, c2}
  Keys = {k1, k2}
  MaxDatasets = 1
  MaxVersion = 1
  None = None
INVARIANT SingleFlight
INVARIANT LruIsTheCache
INVARIANT ErrorsAreCurrent
PROPERTY ReadsThrough
PROPERTY FollowersWake
