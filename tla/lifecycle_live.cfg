SPECIFICATION FairSpec
CONSTANTS
  w1 = w1
  s1 = s1
  s2 = s2
  Uploads = {u1}
  Jobs = {j1, j2}
  Workers = {w1}
  Slots = {s1, s2}
  Owner <- OneWorker
  Clients = {c1}
  MaxAttempts = 2
  RetryAttempts = 2
  MaxCrashes = 1
  None = None
PROPERTIES EveryUploadSettles
CHECK_DEADLOCK FALSE
