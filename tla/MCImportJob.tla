----------------------------- MODULE MCImportJob -----------------------------
(* A finite instance of ImportJob. *)
EXTENDS ImportJob, TLC

CONSTANTS w1, w2, o1, o2, o3

MCWorkers == {w1, w2}
MCOwners == {o1, o2, o3}
Symmetry == Permutations(MCOwners) \cup Permutations(MCWorkers)
=============================================================================
