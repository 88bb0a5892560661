SPECIFICATION Spec
CONSTANTS
  Requests = {r1, r2}
  Jobs = {j1, j2}
  Edms = {good, bad}
  AlwaysFails = {bad}
  None = None
SYMMETRY JobSymmetry
INVARIANT OneActivePerEdm
INVARIANT StrandedOnlyByCancel
PROPERTY CancelSticks
