\* Three requests on one directory; the process may die, the key may be lost.
CONSTANTS
    Procs = {p1, p2, p3}
    NoProc = none
    MaxId = 4
    Keys = {k1, k2}
    MaxEnv = 1
SPECIFICATION Spec
INVARIANTS TypeOK Readable RacesDoNotBlock AnswersAreTrue
PROPERTIES NoSecondKey
SYMMETRY Symmetric
