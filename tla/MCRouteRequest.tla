--------------------------- MODULE MCRouteRequest ---------------------------
(* Constants of the runs of RouteRequest. *)
EXTENDS RouteRequest

CONSTANTS a, b, c, d

\* a and c ask for routes, b only relays.
MCOneEach == [n \in Node |-> IF n = b THEN 0 ELSE 1]
MCTwoByA == [n \in Node |-> IF n = a THEN 2 ELSE 0]
MCTwoAndOne == [n \in Node |-> IF n = a THEN 2 ELSE IF n = c THEN 1 ELSE 0]
MCThreeByA == [n \in Node |-> IF n = a THEN 3 ELSE 0]
MCAnyRoute == {p \in Node \X Node : p[1] # p[2]}
MCAskedOfA == {<<a, b>>, <<c, a>>}
MCUnacked == {<<b, a>>}
=============================================================================
