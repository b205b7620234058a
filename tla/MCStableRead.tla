---------------------------- MODULE MCStableRead ----------------------------
(* A finite instance of StableRead: one writer, two publications. *)
EXTENDS StableRead, TLC

CONSTANTS p1, t1, t2

MCTokens == {t1, t2}
Symmetry == Permutations(MCTokens)
Anywhere == Steps
=============================================================================
