----------------------------- MODULE MCWorkspace -----------------------------
\* Instances of Workspace for TLC.
EXTENDS Workspace, TLC

Symmetric == Permutations(Lists)
=============================================================================
