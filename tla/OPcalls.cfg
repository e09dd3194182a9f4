SPECIFICATION PlaneSpec
CONSTANTS
    Procs = {p1}
    Ops = {o1}
    NoOp = NoOp
    Scopes <- IntrusionDetection
    MaxId = 1
    v1 = v1
    v2 = v2
    Vals = {v1, v2}
    Default = v1
    Keep = Keep
    NoObj = NoObj
    NoProc = NoProc
    NoSpec = NoSpec
    Bodies <- OneField
    PageSize = 1
    MaxPages = 2
    Failures = {"validation", "rejected", "auth", "timeout", "upstream"}
    MaxEnv = 1
INVARIANTS OpPartialIsHonest OpTrailOrAlarm VerifiedIsTrue
