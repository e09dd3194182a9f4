SPECIFICATION Spec
CONSTANTS
    Procs = {p1, p2, p3}
    Ids = {u1, u2}
    NoId = NoId
    Vals = {v1}
    NoVal = NoVal
    Actions = {"create", "update", "delete"}
    Failures = {"refused", "auth", "timeout", "upstream"}
SYMMETRY Symmetric
INVARIANTS OkIsTrue AllApplied
