SPECIFICATION Spec
CONSTANTS
    Clients = {cli, app}
    Retrying = {cli}
    Files = {"a", "b", "c", "s"}
    Size <- SizeDef
    Name <- NameDef
    PartSize = 1
    SingleMax = 1
    AssembledMax = 4
    MaxParts = 3
    MaxPartAttempts = 2
    Quota = 4
    MaxRuns = 3
    MaxSessions = 2
    MaxUploads = 2
    MaxLosses = 2
    None = None
INVARIANTS DoneIsMine AdmittedWithinQuota
CHECK_DEADLOCK FALSE
