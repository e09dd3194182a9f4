---------------------------- MODULE MCBackupStore ----------------------------
\* Instances of BackupStore for TLC.
EXTENDS BackupStore, TLC

\* Requests, and key contents, are interchangeable.
Symmetric == Permutations(Procs) \cup Permutations(Keys)
=============================================================================
