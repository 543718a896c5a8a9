---------------------------- MODULE RoutingTable ----------------------------
(***************************************************************************)
(* One object of class RoutingTable on its own: the public operations in   *)
(* any order, and the clock.  Update is called the way SendRequest and     *)
(* RecvRReq call it, on the copy LookupRoute handed out, within the same   *)
(* event.  There is no purge timer: an entry is looked at when the table   *)
(* is used, however late that is.                                          *)
(*                                                                         *)
(* Hop count and sequence number are carried, never tested, by rtable.cc,  *)
(* and are left out here.                                                  *)
(***************************************************************************)
EXTENDS Integers, RTable

CONSTANTS
    Node,
    NoNode,           \* Ipv4Address (): the next hop of an entry IN_SEARCH
    Interface,
    NoInterface,      \* Ipv4InterfaceAddress (): the interface of such an entry
    BadLinkLifetime,  \* m_badLinkLifetime
    BlacklistTimeout, \* BlackListTimeout, which marks are made with
    Lifetime,         \* bound: the lifetimes entries are given
    MaxTime           \* bound: the clock stops here

ASSUME RoutingTableAssumption ==
    /\ NoNode \notin Node /\ NoInterface \notin Interface
    /\ BadLinkLifetime \in Nat /\ BlacklistTimeout \in Nat
    /\ Lifetime \subseteq Int /\ MaxTime \in Nat

VARIABLES
    now,
    table,   \* m_ipv4AddressEntry
    down,    \* history: when Invalidate took the entry down, per destination
    held,    \* history: precursors given to the entry since it was added, and when
             \* it was last marked
    broken   \* history: next hops lost and not heard of since

vars == <<now, table, down, held, broken>>

NotDown == -1
NotMarked == -1
Nothing == [marked |-> NotMarked, precursors |-> {}]

Entry == [nextHop : Node \cup {NoNode}, iface : Interface \cup {NoInterface},
          lifeTime : Int, flag : RouteFlags, unidirectional : BOOLEAN,
          precursors : SUBSET Node]

Held == [marked : Nat \cup {NotMarked}, precursors : SUBSET Node]

NewRoute(nextHop, iface, lifeTime, flag) ==
    [nextHop |-> nextHop, iface |-> iface, lifeTime |-> lifeTime, flag |-> flag,
     unidirectional |-> FALSE, precursors |-> {}]

Init ==
    /\ now = 0
    /\ table = [d \in {} |-> 0]
    /\ down = [d \in Node |-> NotDown]
    /\ held = [d \in Node |-> Nothing]
    /\ broken = {}

Purged == Purge(table, now, BadLinkLifetime)

\* The table becomes t.  An entry that was VALID and is INVALID is down from now
\* on; one that is neither has no time; one that is gone has no history.
Becomes(t, given) ==
    /\ table' = t
    /\ down' = [d \in Node |->
                  IF d \notin DOMAIN t \/ t[d].flag # "INVALID" THEN NotDown
                  ELSE IF table[d].flag = "VALID" THEN now ELSE down[d]]
    /\ held' = [d \in Node |-> IF d \in DOMAIN t THEN given[d] ELSE Nothing]
    /\ UNCHANGED now

-----------------------------------------------------------------------------
(* Operations that purge first *)

\* LookupRoute and LookupValidRoute: a purge and an answer.
LookupRoute ==
    /\ Becomes(Purged, held)
    /\ UNCHANGED broken

\* AddRoute: an entry that survives the purge is not replaced.
AddNewRoute(dst, rt) ==
    /\ Becomes(AddRoute(table, now, BadLinkLifetime, dst, rt),
               [held EXCEPT ![dst] = IF dst \in DOMAIN Purged THEN @ ELSE Nothing])
    /\ broken' = IF dst \in DOMAIN Purged THEN broken ELSE broken \ {rt.nextHop}

\* The reverse route of RecvRReq: a copy gets a new next hop and the later of
\* two lifetimes; flag, mark and precursors stay the copy's.
RefreshRoute(dst, nextHop, iface, lifetime) ==
    /\ dst \in DOMAIN Purged
    /\ Becomes(Update(Purged, dst,
                 [Purged[dst] EXCEPT !.nextHop = nextHop, !.iface = iface,
                     !.lifeTime = IF now + lifetime >= @ THEN now + lifetime ELSE @]),
               held)
    /\ broken' = broken \ {nextHop}

\* SendRequest: the copy is IN_SEARCH, its lifetime stays.
SearchRoute(dst) ==
    /\ dst \in DOMAIN Purged
    /\ Becomes(Update(Purged, dst, [Purged[dst] EXCEPT !.flag = "IN_SEARCH"]), held)
    /\ UNCHANGED broken

\* InsertPrecursor, DeletePrecursor or DeleteAllPrecursors on a copy.
ChangePrecursors(dst, precursors) ==
    /\ dst \in DOMAIN Purged
    /\ Becomes(Update(Purged, dst, [Purged[dst] EXCEPT !.precursors = precursors]),
               [held EXCEPT ![dst].precursors = precursors])
    /\ UNCHANGED broken

RemoveRoute(dst) ==
    /\ Becomes(DeleteRoute(table, now, BadLinkLifetime, dst), held)
    /\ UNCHANGED broken

\* Destinations somebody reports as unreachable.
LoseDestinations(unreachable) ==
    /\ Becomes(InvalidateRoutesWithDst(table, now, BadLinkLifetime, unreachable), held)
    /\ UNCHANGED broken

\* A next hop is lost: the list of its destinations is made and invalidated.
LoseNextHop(hop) ==
    /\ Becomes(InvalidateRoutesWithDst(Purged, now, BadLinkLifetime,
                                       WithNextHop(Purged, hop)), held)
    /\ broken' = broken \cup {hop}

-----------------------------------------------------------------------------
(* Operations that do not purge *)

\* SetEntryState: an entry it makes INVALID keeps the lifetime it had.
ChangeState(dst, state) ==
    /\ table' = SetEntryState(table, dst, state)
    /\ down' = [down EXCEPT ![dst] = IF state = "INVALID" THEN @ ELSE NotDown]
    /\ broken' = IF state = "VALID" /\ dst \in DOMAIN table
                 THEN broken \ {table[dst].nextHop} ELSE broken
    /\ UNCHANGED <<now, held>>

\* MarkLinkAsUnidirectional.  The timeout goes into a field that nothing reads.
Mark(neighbor) ==
    /\ neighbor \in DOMAIN table
    /\ Becomes(MarkLinkAsUnidirectional(table, neighbor),
               [held EXCEPT ![neighbor].marked = now])
    /\ UNCHANGED broken

InterfaceDown(iface) ==
    /\ Becomes(DeleteAllRoutesFromInterface(table, iface), held)
    /\ UNCHANGED broken

Clear ==
    /\ Becomes([d \in {} |-> 0], held)
    /\ UNCHANGED broken

Tick ==
    /\ now < MaxTime
    /\ now' = now + 1
    /\ UNCHANGED <<table, down, held, broken>>

Next ==
    \/ LookupRoute
    \/ \E dst \in Node :
          \/ \E nextHop \in Node, iface \in Interface, lifetime \in Lifetime :
                \/ AddNewRoute(dst, NewRoute(nextHop, iface, now + lifetime, "VALID"))
                \/ RefreshRoute(dst, nextHop, iface, lifetime)
          \/ AddNewRoute(dst, NewRoute(NoNode, NoInterface, now, "IN_SEARCH"))
          \/ SearchRoute(dst)
          \/ \E id \in Node \ {dst} :
                \/ ChangePrecursors(dst, Purged[dst].precursors \cup {id})
                \/ ChangePrecursors(dst, Purged[dst].precursors \ {id})
          \/ ChangePrecursors(dst, {})
          \/ RemoveRoute(dst)
          \/ LoseNextHop(dst)
          \/ \E state \in RouteFlags : ChangeState(dst, state)
          \/ Mark(dst)
    \/ \E unreachable \in SUBSET Node : LoseDestinations(unreachable)
    \/ \E iface \in Interface : InterfaceDown(iface)
    \/ Clear
    \/ Tick

Spec == Init /\ [][Next]_vars

-----------------------------------------------------------------------------
(* Properties *)

TypeOK ==
    /\ now \in 0 .. MaxTime
    /\ DOMAIN table \subseteq Node
    /\ \A d \in DOMAIN table : table[d] \in Entry
    /\ down \in [Node -> Nat \cup {NotDown}]
    /\ held \in [Node -> Held]
    /\ broken \subseteq Node

\* No route goes missing unnoticed: a destination leaves the table only when a
\* caller removes it, or INVALID and, when it was the table that took it down,
\* known to be down for longer than m_badLinkLifetime, whatever was looked up,
\* refreshed, reported or added in between.
ForgottenOnlyAfterDown ==
    [][\A d \in DOMAIN table \ DOMAIN table' :
            \/ RemoveRoute(d) \/ InterfaceDown(table[d].iface) \/ Clear
            \/ /\ table[d].flag = "INVALID"
               /\ down[d] # NotDown => now > down[d] + BadLinkLifetime]_vars

\* Marks and precursors belong to their entry: no update through a copy loses or
\* revives a precursor, revives a mark or ends one before its time, and a
\* destination learned again after it was forgotten starts without either.
HeldWithEntry ==
    \A d \in DOMAIN table :
        /\ table[d].precursors = held[d].precursors
        /\ table[d].unidirectional => held[d].marked # NotMarked
        /\ held[d].marked # NotMarked /\ now =< held[d].marked + BlacklistTimeout =>
              table[d].unidirectional

\* "add this neighbor to "blacklist" for blacklistTimeout period" (rtable.h:213):
\* no look-up finds a neighbor marked longer after it was last put on the list.
BlacklistedForTimeout ==
    \A d \in DOMAIN Purged :
        Purged[d].unidirectional => now =< held[d].marked + BlacklistTimeout

\* After a next hop was lost no route through it is VALID, until a caller names
\* it again: neither a purge nor an update through a copy brings one back.
NoRouteThroughLostHop ==
    \A d \in DOMAIN table : table[d].nextHop \in broken => table[d].flag # "VALID"
=============================================================================
