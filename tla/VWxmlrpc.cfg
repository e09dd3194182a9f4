SPECIFICATION Spec
CONSTANTS
    n1 = n1
    n2 = n2
    Procs = {p1, p2}
    Nodes = {n1, n2}
    Ids = {u1, u2}
    Vals = {v1}
    NoProc = NoProc
    NoNode = NoNode
    NoId = NoId
    NoVal = NoVal
    NoPlan = NoPlan
    HaMode = "xmlrpc_pf"
    Resource = "port_forward"
    Attempts = 1
    Addresses <- PairAddresses
    HasyncConfs <- SafeHasync
    CarpStates <- N1Carp
    Failures = {"rejected", "timeout", "upstream"}
    MaxEnv = 1
SYMMETRY Symmetric
INVARIANTS
    TypeOK
    OkIsTrue
    RollbackIsTrue
PROPERTIES
    IntentFirst
    CleanupConverges
    PushValidated
