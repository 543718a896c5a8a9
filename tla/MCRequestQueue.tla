--------------------------- MODULE MCRequestQueue ---------------------------
(* Constants of the runs of RequestQueue. *)
EXTENDS RequestQueue, TLC

CONSTANTS u, v, x, y

Symmetry == Permutations(Uid) \cup Permutations(Dst)
=============================================================================
