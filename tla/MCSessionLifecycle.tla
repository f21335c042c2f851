------------------------- MODULE MCSessionLifecycle -------------------------
(* Small instances of SessionLifecycle for TLC. *)
EXTENDS SessionLifecycle, TLC

\* No property of the safety run tells one message from another.
Symmetry == Permutations(Msgs)
=============================================================================
