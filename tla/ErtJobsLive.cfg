SPECIFICATION FairSpec
CONSTANTS
  Requests = {r1}
  Jobs = {j1, j2}
  Edms = {good, bad}
  AlwaysFails = {bad}
  None = None
PROPERTY TasksEnd
PROPERTY FailuresAreReported
