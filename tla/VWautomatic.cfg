SPECIFICATION Spec
CONSTANTS
    n1 = n1
    n2 = n2
    Procs = {p1, p2}
    Nodes = {n1, n2}
    Ids = {u1}
    Vals = {v1, v2}
    NoProc = NoProc
    NoNode = NoNode
    NoId = NoId
    NoVal = NoVal
    NoPlan = NoPlan
    HaMode = "automatic"
    Resource = "rules"
    Attempts = 1
    Addresses <- PairAddresses
    HasyncConfs <- NoHasync
    CarpStates <- PairCarp
    Failures = {"rejected", "timeout", "upstream", "auth", "validation"}
    MaxEnv = 1
SYMMETRY Symmetric
INVARIANTS
    MutualExclusion
    OkIsRecorded
    AmbiguousKept
PROPERTIES
    NoLostUpdate
