SPECIFICATION Spec
CONSTANTS
  w1 = w1
  s1 = s1
  s2 = s2
  Uploads = {u1}
  Jobs = {j1, j2, j3}
  Workers = {w1}
  Slots = {s1, s2}
  Owner <- OneWorker
  Clients = {c1, c2}
  MaxAttempts = 2
  RetryAttempts = 2
  MaxCrashes = 2
  None = None
INVARIANTS OneRunPerJob ActiveJobsAreHeld AttemptBudget NoStranding FiledIsNotRedone CancelledIsNotFiled
PROPERTIES SettledJobsStaySettled ImplementsIngestion
SYMMETRY Interchangeable
CHECK_DEADLOCK FALSE
