----------------------------- MODULE FloodTree -----------------------------
(***************************************************************************)
(* What route discovery promises of its floods, without radio, clock,      *)
(* cache or routing table: each flood, named by its origin and an id its   *)
(* origin has not used before, grows as a tree.  A node joins it once, as  *)
(* a child of a node that has joined already, one hop further out.         *)
(***************************************************************************)
EXTENDS Integers

CONSTANTS
    Node,
    Id      \* the ids there are, numbers

VARIABLE tree   \* who joined which flood, through whom, and how many hops out

Init == tree = {}

\* A node begins a flood.
Root(o, id) ==
    /\ \A v \in tree : v.origin = o => v.id < id
    /\ tree' = tree \cup {[node |-> o, origin |-> o, id |-> id, from |-> o, hop |-> 0]}

\* A node joins the flood of v as a child of v.
Join(n, v) ==
    /\ \A w \in tree : ~(w.node = n /\ w.origin = v.origin /\ w.id = v.id)
    /\ tree' = tree \cup {[node |-> n, origin |-> v.origin, id |-> v.id,
                           from |-> v.node, hop |-> (v.hop + 1) % 256]}

Next ==
    \/ \E o \in Node, id \in Id : Root(o, id)
    \/ \E n \in Node, v \in tree : Join(n, v)

Spec == Init /\ [][Next]_tree
=============================================================================
