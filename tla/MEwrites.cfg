SPECIFICATION FairSpec
CONSTANTS
    Procs = {p1, p2}
    Scopes <- WireGuard
    MaxId = 1
    v1 = v1
    v2 = v2
    Vals = {v1, v2}
    Default = v1
    Keep = Keep
    NoObj = NoObj
    NoProc = NoProc
    NoSpec = NoSpec
    Bodies <- OneField
    PageSize = 1
    MaxPages = 2
    Failures = {"timeout", "upstream"}
    MaxEnv = 0
INVARIANTS OkIsTrue PendingIsOwned
PROPERTIES NoLostUpdate Answered
