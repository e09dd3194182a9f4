SPECIFICATION Spec
CONSTANTS
    Procs = {p1, p2}
    NoProc = NoProc
    Cas = {c1}
    NoCa = NoCa
    Certs = {x1, x2}
    NoCert = NoCert
    NoList = NoList
    Failures = {"validation", "rejected", "auth", "timeout", "upstream"}
    MaxSerial = 3
    MaxEnv = 1
SYMMETRY Symmetric
INVARIANTS TypeOK VerifiedOnce PartialIsHonest
PROPERTIES RevocationsKept IsAuditedWrite
