--------------------------- MODULE MCMasterCache ---------------------------
(* Small instances of MasterCache. *)
EXTENDS MasterCache, TLC

At(m, p) == [maintenance |-> m, primary |-> p]
Pair(x, y) == [s \in Sides |-> IF s = "a" THEN x ELSE y]

\* Both normal states, maintenance of A, and a pair without a single master.
Failovers ==
    {Pair(At(FALSE, "MASTER"), At(FALSE, "BACKUP")), Pair(At(FALSE, "BACKUP"), At(FALSE, "MASTER")),
     Pair(At(TRUE, "MASTER"), At(FALSE, "MASTER")), Pair(At(FALSE, "INIT"), At(FALSE, "none"))}
Flips ==
    {Pair(At(FALSE, "MASTER"), At(FALSE, "BACKUP")), Pair(At(FALSE, "BACKUP"), At(FALSE, "MASTER"))}

Symmetric == Permutations(Threads)
=============================================================================
