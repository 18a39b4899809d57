SPECIFICATION Spec
CONSTANTS
  MaxAttempts = 2
  MaxRetries = 1
  MaxFaults = 1
  None = None
INVARIANTS LastWord
PROPERTIES OneChatEntry
CHECK_DEADLOCK FALSE
