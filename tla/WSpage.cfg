\* Two lists, a query, a command and the backups; answers in any order.
CONSTANTS
    Lists = {r1, r2}
    Queries = {q1}
    Commands = {o1}
    Copies = copies
    NoRes = none
    Ids = {u1}
    NoId = NoId
    Pages = {1, 2}
    MaxEpoch = 3
    MaxTicket = 5
    MaxSent = 3
SPECIFICATION Spec
INVARIANTS TypeOK PageIsCurrent QuietIsUsable
PROPERTIES BackupsSerial
CHECK_DEADLOCK FALSE
SYMMETRY Symmetric
