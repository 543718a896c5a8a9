--------------------------- MODULE InterestService ---------------------------
(***************************************************************************)
(* What the content relay promises of interests, without packets, lists,   *)
(* encounters or rankings: a node issues one interest in its life, and     *)
(* every node decides once what becomes of an interest it hears and never  *)
(* goes back on that.                                                      *)
(***************************************************************************)
CONSTANT Node

VARIABLES
    asked,   \* the interests issued: <<requester, content>>
    fates    \* what each node has decided of which interest

Init == asked = {} /\ fates = {}

Issue(n, content) ==
    /\ \A i \in asked : i[1] # n
    /\ asked' = asked \cup {<<n, content>>}
    /\ UNCHANGED fates

\* A provider answers at once or keeps the DATA; any other node passes the
\* interest on to a provider it knows of, or upwards.
Choices(n, i) ==
    IF n = i[2] THEN {"answered", "kept"} ELSE {"to provider", "upwards"}

Decide(n, i) ==
    /\ \A f \in fates : ~(f.node = n /\ f.interest = i)
    /\ \E fate \in Choices(n, i) :
          fates' = fates \cup {[node |-> n, interest |-> i, fate |-> fate]}
    /\ UNCHANGED asked

Next ==
    \/ \E n \in Node, content \in Node : Issue(n, content)
    \/ \E n \in Node, i \in asked : Decide(n, i)

Spec == Init /\ [][Next]_<<asked, fates>>
=============================================================================
