SPECIFICATION FairSpec
CONSTANTS
    n1 = n1
    n2 = n2
    Procs = {p1, p2}
    Nodes = {n1, n2}
    Ids = {u1}
    Vals = {v1}
    NoProc = NoProc
    NoNode = NoNode
    NoId = NoId
    NoVal = NoVal
    NoPlan = NoPlan
    HaMode = "xmlrpc_pf"
    Resource = "port_forward"
    Attempts = 2
    Addresses <- PairAddresses
    HasyncConfs <- PairHasync
    CarpStates <- N1Carp
    Failures = {"rejected", "upstream"}
    MaxEnv = 1
PROPERTIES
    Answered
