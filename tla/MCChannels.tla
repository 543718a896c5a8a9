----------------------------- MODULE MCChannels -----------------------------
(* Constants of the runs of Channels: a and b broadcast once each. *)
EXTENDS Channels

CONSTANTS a, b, c

MCEvents == [n \in Node |-> IF n \in {a, b} THEN 1 ELSE 0]
=============================================================================
