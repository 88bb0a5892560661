SPECIFICATION FairSpec
CONSTANTS
  Threads = {t1, t2, t3}
  Conns = {a, b}
  None = None
INVARIANT OpenConnsAreExclusive
INVARIANT NoConnectionLeaks
PROPERTY NeverClosedInUse
PROPERTY LocksAreReleased
