---------------------------- MODULE ChannelLease ----------------------------
(***************************************************************************)
(* What a channel table promises, without timer, amounts or marks: an open *)
(* channel is a lease that may be prolonged and never cut, that is settled *)
(* once it has run out, at the latest Grace after that unless settling is  *)
(* put off, and that is settled earlier only for one broken link at a      *)
(* time.                                                                   *)
(***************************************************************************)
EXTENDS Integers

CONSTANTS
    Peer,
    End,     \* the times a lease may run to, numbers
    Grace    \* how long a lease may be over before it is settled

VARIABLES
    now,
    lease,     \* when the lease of each open channel runs out
    opened,    \* how many channels were opened, per peer
    settled,   \* how many were closed and reported
    abandoned, \* how many were given up unreported
    putOff     \* when settling was last put off

vars == <<now, lease, opened, settled, abandoned, putOff>>

Overdue == {p \in DOMAIN lease : lease[p] < now}

Plus(count, S) == [p \in Peer |-> IF p \in S THEN count[p] + 1 ELSE count[p]]

Init ==
    /\ now = 0
    /\ lease = [p \in {} |-> 0]
    /\ opened = [p \in Peer |-> 0]
    /\ settled = [p \in Peer |-> 0]
    /\ abandoned = [p \in Peer |-> 0]
    /\ putOff = 0

\* A channel is opened; those that are overdue are settled by the way.
Open(p, end) ==
    /\ p \notin DOMAIN lease /\ end >= now
    /\ lease' = [q \in (DOMAIN lease \ Overdue) \cup {p} |->
                    IF q = p THEN end ELSE lease[q]]
    /\ opened' = Plus(opened, {p})
    /\ settled' = Plus(settled, Overdue)
    /\ UNCHANGED <<now, abandoned, putOff>>

\* A lease is prolonged, even one that has run out and is not settled yet.
Renew(p, end) ==
    /\ p \in DOMAIN lease /\ end >= lease[p]
    /\ lease' = [lease EXCEPT ![p] = end]
    /\ UNCHANGED <<now, opened, settled, abandoned, putOff>>

\* All overdue channels are settled, and the one with p if it is among S.
Settle(S, p) ==
    /\ Overdue \subseteq S /\ S \subseteq DOMAIN lease /\ S \subseteq Overdue \cup {p}
    /\ lease' = [q \in DOMAIN lease \ S |-> lease[q]]
    /\ settled' = Plus(settled, S)
    /\ UNCHANGED <<now, opened, abandoned, putOff>>

Abandon ==
    /\ lease' = [q \in {} |-> 0]
    /\ abandoned' = Plus(abandoned, DOMAIN lease)
    /\ UNCHANGED <<now, opened, settled, putOff>>

\* Somebody puts settling off: Grace counts from now again.
PutOff ==
    /\ putOff' = now
    /\ UNCHANGED <<now, lease, opened, settled, abandoned>>

\* Time passes, but no lease gets further over than Grace.
Pass ==
    /\ \A p \in DOMAIN lease : now < lease[p] + Grace \/ now < putOff + Grace
    /\ now' = now + 1
    /\ UNCHANGED <<lease, opened, settled, abandoned, putOff>>

Next ==
    \/ \E p \in Peer : \/ \E end \in End : Open(p, end) \/ Renew(p, end)
                       \/ \E S \in SUBSET DOMAIN lease : Settle(S, p)
    \/ Abandon
    \/ PutOff
    \/ Pass

Spec == Init /\ [][Next]_vars
=============================================================================
