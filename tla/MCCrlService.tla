--------------------------- MODULE MCCrlService ---------------------------
(* Small instances of CrlService. *)
EXTENDS CrlService, TLC

Symmetric == Permutations(Procs) \cup Permutations(Certs)
=============================================================================
