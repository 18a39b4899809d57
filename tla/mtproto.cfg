SPECIFICATION Spec
CONSTANTS
  Jobs = {j1, j2, j3}
  Slots = {s1, s2}
  Requests = {r1, r2}
  MaxAttempts = 2
  MaxCrashes = 1
  None = None
INVARIANTS OneFetchUnlessOverrun OneUploadPerRequest RestartIsNoFailure FetchIsAttended
SYMMETRY Symmetry
CHECK_DEADLOCK FALSE
