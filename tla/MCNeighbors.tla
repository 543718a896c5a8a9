---------------------------- MODULE MCNeighbors ----------------------------
(* Constants of the runs of Neighbors. *)
EXTENDS Neighbors, TLC

CONSTANTS p, q

Symmetry == Permutations(Peer)
=============================================================================
