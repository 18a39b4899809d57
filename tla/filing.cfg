SPECIFICATION Spec
CONSTANTS
  u1 = u1
  u2 = u2
  u3 = u3
  movie = movie
  show = show
  x = x
  y = y
  Uploads = {u1, u2, u3}
  Titles = {movie, show}
  Title <- TitleOf
  Content <- ContentOf
  Suffixes = 2
  OtherFilesystem = {movie}
  Concurrency = 2
  MaxCrashes = 1
  MaxTouches = 1
  None = None
INVARIANTS OneCopyUnlessUsurped FilesAreKnown CompletedIsFiled
PROPERTIES NothingOverwritten NotADuplicateOfItself
CHECK_DEADLOCK FALSE
