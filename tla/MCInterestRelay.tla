--------------------------- MODULE MCInterestRelay ---------------------------
(* Constants of the runs of InterestRelay. *)
EXTENDS InterestRelay, Sequences

CONSTANTS a, b, c, d

Keys == Node \cup {Level, Centrality}

\* The standing that ranks the nodes in the order of seq, whatever it ranks by.
Ranked(seq) ==
    [k \in Keys |-> [n \in Node |-> CHOOSE i \in 1 .. Len(seq) : seq[i] = n]]

\* A node asks, and may change its mind before or after its interest is on the way.
Asks == {<<a, c>>, <<a, b>>}

OneAsks == {<<a, c>>}

\* Two nodes ask for the same content.
TwoAsk == {<<a, c>>, <<b, c>>}

\* Ties and levels turn round between encounters; digests always lead down
\* from c.
Turning ==
    {[Ranked(seq) EXCEPT ![Centrality] = Ranked(<<c, b, a>>)[Centrality]] :
        seq \in {<<a, b, c>>, <<c, b, a>>}}

\* Four nodes: levels lead to c, ties lead from c back to a over b and to b over a.
Settled ==
    {[k \in Keys |-> CASE k = a -> Ranked(<<c, d, b, a>>)[k]
                       [] k = b -> Ranked(<<c, d, a, b>>)[k]
                       [] OTHER -> Ranked(<<a, b, d, c>>)[k]]}
=============================================================================
