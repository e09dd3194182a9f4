SPECIFICATION Spec
CONSTANTS
    Threads = {t1}
    PairStates <- Failovers
    TTL = 2
    MaxTime = 7
INVARIANTS FailoverSurfaces
