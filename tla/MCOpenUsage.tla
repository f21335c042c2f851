---------------------------- MODULE MCOpenUsage ----------------------------
(* Small instances of OpenUsage for TLC. *)
EXTENDS OpenUsage, TLC

Symmetry == Permutations(Heads) \cup Permutations(Rows) \cup Permutations(Sources)
=============================================================================
