-------------------------- MODULE MCLegacyWriter --------------------------
(* Small instances of LegacyWriter. *)
EXTENDS LegacyWriter, TLC

Symmetric == Permutations(Procs) \cup Permutations(Ids) \cup Permutations(Vals)
=============================================================================
