SPECIFICATION Spec
CONSTANTS
  Uploads = {u1}
  MaxRuns = 3
  MaxCrashes = 2
INVARIANTS BytesAreKept
PROPERTIES ReaperSparesWork NoOrphanStays
CHECK_DEADLOCK FALSE
