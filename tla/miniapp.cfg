SPECIFICATION MiniAppSpec
CONSTANTS
  all = all
  movie = movie
  Types = {all, movie}
  Pages <- PagesOfTypes
  Calls = {r1, r2}
  Sends = {s1, s2}
  MaxTokens = 2
  MaxBodies = 3
  Nothing = Nothing
INVARIANTS ListsAreAsSelected PollServesView SendHasItsCancel
SYMMETRY Interchangeable
CHECK_DEADLOCK FALSE
