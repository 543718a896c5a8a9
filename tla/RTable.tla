------------------------------- MODULE RTable -------------------------------
(***************************************************************************)
(* The routing table of rtable.cc as operators on a value.  A table is a   *)
(* function from the destinations it holds (its DOMAIN is the key set of   *)
(* m_ipv4AddressEntry) to entries.  Times are absolute, as m_lifeTime is;  *)
(* the code's GetLifeTime () is lifeTime - now.                            *)
(*                                                                         *)
(* Not kept: m_reqCount (this repository only ever sets it to 0),          *)
(* m_blackListTimeout (written, never read) and the transaction amount     *)
(* (carried, never tested).  Precursors and the interface are fields that  *)
(* only RoutingTable gives its entries.                                    *)
(***************************************************************************)
EXTENDS Integers

RouteFlags == {"VALID", "INVALID", "IN_SEARCH"}

\* The constructor of RoutingTableEntry; every entry starts VALID.
NewEntry(validSeqNo, seqNo, hops, nextHop, lifeTime) ==
    [validSeqNo |-> validSeqNo, seqNo |-> seqNo, hops |-> hops,
     nextHop |-> nextHop, lifeTime |-> lifeTime, flag |-> "VALID",
     unidirectional |-> FALSE]

Expired(rt, now) == rt.lifeTime < now

\* Mutant: the deletion time is not set.
InvalidateKeepsLifeTime(rt, now, badLink) == [rt EXCEPT !.flag = "INVALID"]

\* RoutingTableEntry::Invalidate: an entry already down keeps its deletion time.
Invalidate(rt, now, badLink) ==
    IF rt.flag = "INVALID" THEN rt
    ELSE [rt EXCEPT !.flag = "INVALID", !.lifeTime = now + badLink]

\* RoutingTable::Purge: expired INVALID entries go, expired VALID entries turn
\* INVALID, entries IN_SEARCH are left alone whatever their lifetime.
Purge(table, now, badLink) ==
    [d \in {e \in DOMAIN table :
                ~(Expired(table[e], now) /\ table[e].flag = "INVALID")} |->
        IF Expired(table[d], now) /\ table[d].flag = "VALID"
        THEN Invalidate(table[d], now, badLink)
        ELSE table[d]]

\* std::map::insert, as AddRoute uses it: a destination present is not replaced.
Insert(table, dst, rt) ==
    [d \in DOMAIN table \cup {dst} |-> IF d \in DOMAIN table THEN table[d] ELSE rt]

\* RoutingTable::AddRoute
AddRoute(table, now, badLink, dst, rt) == Insert(Purge(table, now, badLink), dst, rt)

\* Mutant: the mark of the entry is not in the copy that is written back.
UpdateUnmarked(table, dst, rt) ==
    [d \in DOMAIN table |->
        IF d = dst THEN [rt EXCEPT !.unidirectional = FALSE] ELSE table[d]]

\* RoutingTable::Update (no Purge; nothing happens when dst is absent)
Update(table, dst, rt) ==
    [d \in DOMAIN table |-> IF d = dst THEN rt ELSE table[d]]

\* RoutingTable::MarkLinkAsUnidirectional
MarkLinkAsUnidirectional(table, nb) ==
    [d \in DOMAIN table |->
        IF d = nb THEN [table[d] EXCEPT !.unidirectional = TRUE] ELSE table[d]]

\* RoutingTable::DeleteRoute
DeleteRoute(table, now, badLink, dst) ==
    LET t == Purge(table, now, badLink) IN [d \in DOMAIN t \ {dst} |-> t[d]]

\* Mutant: operator[] makes the entry that was not found.
SetEntryStateOfAny(table, dst, state) ==
    [d \in DOMAIN table \cup {dst} |->
        IF d # dst THEN table[d]
        ELSE IF d \in DOMAIN table THEN [table[d] EXCEPT !.flag = state]
        ELSE [NewEntry(FALSE, 0, 0, d, 0) EXCEPT !.flag = state]]

\* RoutingTable::SetEntryState: the flag alone, the lifetime stays (no Purge).
SetEntryState(table, dst, state) ==
    [d \in DOMAIN table |->
        IF d = dst THEN [table[d] EXCEPT !.flag = state] ELSE table[d]]

\* Mutant: the route to the neighbor itself is left out.
BehindNextHop(table, hop) == {d \in DOMAIN table \ {hop} : table[d].nextHop = hop}

\* RoutingTable::GetListOfDestinationWithNextHop, on a purged table.
WithNextHop(table, hop) == {d \in DOMAIN table : table[d].nextHop = hop}

\* RoutingTable::InvalidateRoutesWithDst
InvalidateRoutesWithDst(table, now, badLink, unreachable) ==
    LET t == Purge(table, now, badLink) IN
    [d \in DOMAIN t |->
        IF d \in unreachable /\ t[d].flag = "VALID"
        THEN Invalidate(t[d], now, badLink) ELSE t[d]]

\* RoutingTable::DeleteAllRoutesFromInterface (no Purge)
DeleteAllRoutesFromInterface(table, iface) ==
    [d \in {e \in DOMAIN table : table[e].iface # iface} |-> table[d]]
=============================================================================
