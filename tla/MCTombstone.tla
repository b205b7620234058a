---------------------------- MODULE MCTombstone ----------------------------
(* A finite instance of Tombstone: three owned paths, two publications. *)
EXTENDS Tombstone

CONSTANTS u1, u2

MCPublications == {u1, u2}
=============================================================================
