---------------------------- MODULE MCNodeBackup ----------------------------
(* Instances of NodeBackup for TLC. *)
EXTENDS NodeBackup, TLC

CONSTANTS s1, s2, i1, i2, none, blank

\* Neither the sources nor the repositories are told apart by any step.
Alike == Permutations(Sources) \cup Permutations(Ids)
=============================================================================
