SPECIFICATION DashboardSpec
CONSTANTS
  Visited = {"logs", "uploads", "users", "upload"}
  Draws = {d1, d2}
  MaxTokens = 3
  MaxChanges = 1
  Nothing = Nothing
INVARIANTS OwnScreenUnlessRearmed TimerServesPage CacheHasTheChange
SYMMETRY Interchangeable
CHECK_DEADLOCK FALSE
