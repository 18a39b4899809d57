SPECIFICATION Spec
CONSTANTS
    Users = {u1, u2}
    Accounts = {ja, jb}
    Names = {n1, n2}
    Requests = {r1, r2}
    Wanted <- WantedDef
    Items = {1, 2, 3, 4}
    Family = 1
    Before <- BeforeDef
    MaxRequests = 3
    MaxSide = 1
    MaxFaults = 1
    None = None
SYMMETRY Symmetric
INVARIANTS SettledIsPrivate AuditIsTruth SharedIsKept NothingLeftBehind
CHECK_DEADLOCK FALSE
