--------------------------- MODULE NeighborTable ---------------------------
(***************************************************************************)
(* The table of payment channels of neighbors.cc as operators on a value:  *)
(* a function from the peers with an entry to the entries.  Update looks   *)
(* an address up before it pushes, so the vector of the code never holds   *)
(* an address twice.  Times are absolute; amounts are uint32_t.            *)
(***************************************************************************)
EXTENDS Integers

\* The constructor of Neighbor.  It initialises neither the available deposit
\* nor the available deposit of the peer: avail and peerAvail are what the
\* memory held.
NewNeighbor(total, avail, peerTotal, peerAvail, expireTime) ==
    [expireTime |-> expireTime, total |-> total, avail |-> avail,
     peerTotal |-> peerTotal, peerAvail |-> peerAvail, close |-> FALSE]

\* Mutant: an entry whose transmission failed is not picked.
ClosingExpiredOnly(t, now) == {a \in DOMAIN t : t[a].expireTime < now}

\* Mutant: an entry is picked at its expiry time, not after it.
ClosingAtExpiry(t, now) == {a \in DOMAIN t : t[a].expireTime =< now \/ t[a].close}

\* The entries CloseNeighbor picks.
Closing(t, now) == {a \in DOMAIN t : t[a].expireTime < now \/ t[a].close}

Remaining(t, now) == [a \in DOMAIN t \ Closing(t, now) |-> t[a]]

\* Update finds the peer and the amount it knows: only then is the entry
\* refreshed.
Matches(t, addr, amount) == addr \in DOMAIN t /\ t[addr].peerAvail = amount

\* Mutant: the new expiry time replaces a later one.
RefreshShorter(t, addr, expireTime) == [t EXCEPT ![addr].expireTime = expireTime]

Refresh(t, addr, expireTime) ==
    [t EXCEPT ![addr].expireTime = IF expireTime >= @ THEN expireTime ELSE @]

Push(t, addr, entry) ==
    [a \in DOMAIN t \cup {addr} |-> IF a = addr THEN entry ELSE t[a]]

\* ProcessTxError: the entry of the peer the frame was for is marked.
MarkClosed(t, addr) ==
    [a \in DOMAIN t |-> IF a = addr THEN [t[a] EXCEPT !.close = TRUE] ELSE t[a]]

\* Mutant: a payment larger than the balance leaves a negative one.
DecreaseNoWrap(t, addr, pay, modulus) ==
    [a \in DOMAIN t |-> IF a = addr THEN [t[a] EXCEPT !.avail = @ - pay] ELSE t[a]]

\* DecChDeposit and IncChDeposit: uint32_t arithmetic, no test of the balance.
Decrease(t, addr, pay, modulus) ==
    [a \in DOMAIN t |->
        IF a = addr THEN [t[a] EXCEPT !.avail = (@ - pay) % modulus] ELSE t[a]]

Increase(t, addr, pay, modulus) ==
    [a \in DOMAIN t |->
        IF a = addr THEN [t[a] EXCEPT !.avail = (@ + pay) % modulus] ELSE t[a]]
=============================================================================
