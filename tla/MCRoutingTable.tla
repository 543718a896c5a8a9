--------------------------- MODULE MCRoutingTable ---------------------------
(* Constants of the runs of RoutingTable. *)
EXTENDS RoutingTable, TLC

CONSTANTS x, y, eth

\* A reverse route on a long path is born expired.
MCLifetime == {-1, 1}

Symmetry == Permutations(Node)
=============================================================================
