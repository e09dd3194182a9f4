SPECIFICATION Spec
CONSTANTS
    Procs = {p1}
    Scopes <- EachAlone
    MaxId = 2
    v1 = v1
    v2 = v2
    Vals = {v1, v2}
    Default = v1
    Keep = Keep
    NoObj = NoObj
    NoProc = NoProc
    NoSpec = NoSpec
    Bodies <- Whole
    PageSize = 1
    MaxPages = 2
    Failures = {"validation", "rejected", "auth", "timeout", "upstream"}
    MaxEnv = 1
INVARIANTS TypeOK OkIsTrue PartialIsHonest
PROPERTIES ScanFindsEnd IsAuditedWrite
