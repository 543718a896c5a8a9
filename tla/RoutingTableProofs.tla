------------------------- MODULE RoutingTableProofs -------------------------
(***************************************************************************)
(* Proofs about one routing table: its types, that marks and precursors    *)
(* are those given to their entry, that a lost next hop is used by no VALID   *)
(* route, and that no route is forgotten before its time.                  *)
(***************************************************************************)
EXTENDS RoutingTable, TLAPS

\* An entry that is not INVALID has no time it went down, and one the table took
\* down is kept for BadLinkLifetime from then on.
DownInv ==
    /\ \A d \in Node : d \notin DOMAIN table \/ table[d].flag # "INVALID" => down[d] = NotDown
    /\ \A d \in DOMAIN table :
           down[d] # NotDown => table[d].lifeTime >= down[d] + BadLinkLifetime

\* An entry is marked exactly when it was given a mark since it was added, however
\* long ago, and has the precursors it was given.
HeldExactly ==
    \A d \in DOMAIN table :
        /\ table[d].unidirectional = (held[d].marked # NotMarked)
        /\ table[d].precursors = held[d].precursors

IInv == TypeOK /\ DownInv /\ HeldExactly /\ NoRouteThroughLostHop

-----------------------------------------------------------------------------
(* What purging and invalidating do to a table *)

\* The table u is what the present table may have become by purging and
\* invalidating now.
FallenTo(u) ==
    /\ DOMAIN u \subseteq DOMAIN table
    /\ \A d \in DOMAIN u :
          /\ u[d] \in Entry
          /\ u[d].nextHop = table[d].nextHop
          /\ u[d].unidirectional = table[d].unidirectional
          /\ u[d].precursors = table[d].precursors
          /\ \/ u[d].flag = table[d].flag /\ u[d].lifeTime = table[d].lifeTime
             \/ /\ table[d].flag = "VALID" /\ u[d].flag = "INVALID"
                /\ u[d].lifeTime = now + BadLinkLifetime
    /\ \A d \in DOMAIN table \ DOMAIN u :
          table[d].flag = "INVALID" /\ table[d].lifeTime < now

LEMMA TableFallen == TypeOK => FallenTo(table)
  BY DEF TypeOK, FallenTo

LEMMA InvalidateEntry ==
    ASSUME NEW rt \in Entry, rt.flag = "VALID", now \in Nat
    PROVE  /\ Invalidate(rt, now, BadLinkLifetime) \in Entry
           /\ Invalidate(rt, now, BadLinkLifetime).nextHop = rt.nextHop
           /\ Invalidate(rt, now, BadLinkLifetime).unidirectional = rt.unidirectional
           /\ Invalidate(rt, now, BadLinkLifetime).precursors = rt.precursors
           /\ Invalidate(rt, now, BadLinkLifetime).flag = "INVALID"
           /\ Invalidate(rt, now, BadLinkLifetime).lifeTime = now + BadLinkLifetime
<1> DEFINE a == [rt EXCEPT !.flag = "INVALID"]
           b == [a EXCEPT !.lifeTime = now + BadLinkLifetime]
<1>1. /\ a \in Entry /\ a.flag = "INVALID" /\ a.nextHop = rt.nextHop
      /\ a.unidirectional = rt.unidirectional /\ a.precursors = rt.precursors
  BY DEF Entry, RouteFlags
<1>2. Invalidate(rt, now, BadLinkLifetime) = b
  BY DEF Invalidate, Entry
<1>3. now + BadLinkLifetime \in Int
  BY RoutingTableAssumption
<1> HIDE DEF a
<1>4. /\ b \in Entry /\ b.flag = a.flag /\ b.nextHop = a.nextHop
      /\ b.unidirectional = a.unidirectional /\ b.precursors = a.precursors
      /\ b.lifeTime = now + BadLinkLifetime
  BY <1>1, <1>3 DEF Entry
<1> HIDE DEF b
<1> QED BY <1>1, <1>2, <1>4

LEMMA PurgeFalls ==
    ASSUME TypeOK, NEW u, FallenTo(u)
    PROVE  FallenTo(Purge(u, now, BadLinkLifetime))
<1>1. now \in Nat /\ BadLinkLifetime \in Nat
  BY RoutingTableAssumption DEF TypeOK
<1> DEFINE p == Purge(u, now, BadLinkLifetime)
<1>2. DOMAIN p = {e \in DOMAIN u : ~(u[e].lifeTime < now /\ u[e].flag = "INVALID")}
  BY DEF Purge, Expired
<1>3. ASSUME NEW d \in DOMAIN p
      PROVE  \/ p[d] = u[d]
             \/ u[d].flag = "VALID" /\ p[d] = Invalidate(u[d], now, BadLinkLifetime)
  BY <1>3 DEF Purge
<1> HIDE DEF p
<1>4. ASSUME NEW d \in DOMAIN p
      PROVE  /\ p[d] \in Entry
             /\ p[d].nextHop = table[d].nextHop
             /\ p[d].unidirectional = table[d].unidirectional
             /\ p[d].precursors = table[d].precursors
             /\ \/ p[d].flag = table[d].flag /\ p[d].lifeTime = table[d].lifeTime
                \/ /\ table[d].flag = "VALID" /\ p[d].flag = "INVALID"
                   /\ p[d].lifeTime = now + BadLinkLifetime
  <2>1. d \in DOMAIN u /\ u[d] \in Entry
    BY <1>2 DEF FallenTo
  <2>2. CASE p[d] = u[d]
    BY <2>1, <2>2 DEF FallenTo
  <2>3. CASE u[d].flag = "VALID" /\ p[d] = Invalidate(u[d], now, BadLinkLifetime)
    BY <1>1, <2>1, <2>3, InvalidateEntry DEF FallenTo
  <2> QED BY <1>3, <2>2, <2>3
<1>5. ASSUME NEW d \in DOMAIN table \ DOMAIN p
      PROVE  table[d].flag = "INVALID" /\ table[d].lifeTime < now
  <2>1. CASE d \in DOMAIN u
    <3>1. u[d].lifeTime < now /\ u[d].flag = "INVALID"
      BY <1>2, <2>1
    <3>2. ~(now + BadLinkLifetime < now)
      BY <1>1
    <3> QED BY <2>1, <3>1, <3>2 DEF FallenTo
  <2>2. CASE d \notin DOMAIN u
    BY <2>2 DEF FallenTo
  <2> QED BY <2>1, <2>2
<1> QED BY <1>2, <1>4, <1>5 DEF FallenTo, p

LEMMA InvalidateFalls ==
    ASSUME TypeOK, NEW u, FallenTo(u), NEW S
    PROVE  /\ FallenTo(InvalidateRoutesWithDst(u, now, BadLinkLifetime, S))
           /\ \A d \in DOMAIN InvalidateRoutesWithDst(u, now, BadLinkLifetime, S) \cap S :
                 InvalidateRoutesWithDst(u, now, BadLinkLifetime, S)[d].flag # "VALID"
<1>1. now \in Nat
  BY RoutingTableAssumption DEF TypeOK
<1> DEFINE t == Purge(u, now, BadLinkLifetime)
           v == InvalidateRoutesWithDst(u, now, BadLinkLifetime, S)
<1>2. FallenTo(t)
  BY PurgeFalls
<1>3. /\ DOMAIN v = DOMAIN t
      /\ \A d \in DOMAIN t : v[d] = IF d \in S /\ t[d].flag = "VALID"
                                    THEN Invalidate(t[d], now, BadLinkLifetime) ELSE t[d]
  BY DEF InvalidateRoutesWithDst
<1> HIDE DEF t, v
<1>4. ASSUME NEW d \in DOMAIN t
      PROVE  /\ v[d] \in Entry
             /\ v[d].nextHop = table[d].nextHop
             /\ v[d].unidirectional = table[d].unidirectional
             /\ v[d].precursors = table[d].precursors
             /\ \/ v[d].flag = table[d].flag /\ v[d].lifeTime = table[d].lifeTime
                \/ /\ table[d].flag = "VALID" /\ v[d].flag = "INVALID"
                   /\ v[d].lifeTime = now + BadLinkLifetime
             /\ d \in S => v[d].flag # "VALID"
  <2>1. t[d] \in Entry
    BY <1>2 DEF FallenTo
  <2>2. CASE d \in S /\ t[d].flag = "VALID"
    <3>1. v[d] = Invalidate(t[d], now, BadLinkLifetime)
      BY <1>3, <2>2
    <3> QED BY <1>1, <1>2, <2>1, <2>2, <3>1, InvalidateEntry DEF FallenTo
  <2>3. CASE ~(d \in S /\ t[d].flag = "VALID")
    <3>1. v[d] = t[d]
      BY <1>3, <2>3
    <3> QED BY <1>2, <2>3, <3>1 DEF FallenTo
  <2> QED BY <2>2, <2>3
<1>5. FallenTo(v)
  BY <1>2, <1>3, <1>4 DEF FallenTo
<1>6. \A d \in DOMAIN v \cap S : v[d].flag # "VALID"
  BY <1>3, <1>4
<1> QED BY <1>5, <1>6 DEF v

LEMMA PurgedFallen ==
    ASSUME TypeOK PROVE FallenTo(Purged)
  BY TableFallen, PurgeFalls DEF Purged

-----------------------------------------------------------------------------
(* What one entry of the next table must satisfy *)

Given == [Node -> Held]

\* An entry that is INVALID was VALID and is kept for BadLinkLifetime from now
\* on, or was INVALID and is kept as long as before.
EntryKept(t, given, d) ==
    /\ t[d] \in Entry
    /\ t[d].unidirectional = (given[d].marked # NotMarked)
    /\ t[d].precursors = given[d].precursors
    /\ t[d].nextHop \in broken' => t[d].flag # "VALID"
    /\ t[d].flag = "INVALID" =>
          /\ d \in DOMAIN table
          /\ \/ table[d].flag = "VALID" /\ t[d].lifeTime >= now + BadLinkLifetime
             \/ table[d].flag = "INVALID" /\ t[d].lifeTime >= table[d].lifeTime

LEMMA BecomesKeeps ==
    ASSUME IInv, NEW t, NEW given, Becomes(t, given), given \in Given,
           broken' \subseteq Node, DOMAIN t \subseteq Node,
           \A d \in DOMAIN t : EntryKept(t, given, d)
    PROVE  IInv'
<1>1. now \in Nat /\ BadLinkLifetime \in Nat /\ NotDown \in Int /\ now # NotDown
  BY RoutingTableAssumption DEF IInv, TypeOK, NotDown
<1>2. /\ table' = t /\ now' = now
      /\ down' = [d \in Node |->
                    IF d \notin DOMAIN t \/ t[d].flag # "INVALID" THEN NotDown
                    ELSE IF table[d].flag = "VALID" THEN now ELSE down[d]]
      /\ held' = [d \in Node |-> IF d \in DOMAIN t THEN given[d] ELSE Nothing]
  BY DEF Becomes
<1>3. TypeOK'
  <2>1. now' \in 0 .. MaxTime
    BY <1>2 DEF IInv, TypeOK
  <2>2. DOMAIN table' \subseteq Node /\ \A d \in DOMAIN table' : table'[d] \in Entry
    BY <1>2 DEF EntryKept
  <2>3. down' \in [Node -> Nat \cup {NotDown}]
    BY <1>1, <1>2 DEF IInv, TypeOK
  <2>4. held' \in [Node -> Held]
    <3>1. Nothing \in Held
      BY DEF Nothing, Held
    <3> QED BY <1>2, <3>1 DEF Given
  <2> QED BY <2>1, <2>2, <2>3, <2>4 DEF TypeOK
<1>4. DownInv'
  <2>1. ASSUME NEW d \in Node, d \notin DOMAIN table' \/ table'[d].flag # "INVALID"
        PROVE  down'[d] = NotDown
    BY <1>2, <2>1
  <2>2. ASSUME NEW d \in DOMAIN table', down'[d] # NotDown
        PROVE  table'[d].lifeTime >= down'[d] + BadLinkLifetime
    <3>1. d \in Node /\ d \in DOMAIN t
      BY <1>2, <2>2
    <3>2. t[d].flag = "INVALID"
      BY <1>2, <2>2, <3>1
    <3>3. down'[d] = IF table[d].flag = "VALID" THEN now ELSE down[d]
      BY <1>2, <3>1, <3>2
    <3>4. EntryKept(t, given, d)
      BY <3>1
    <3>5. d \in DOMAIN table
      BY <3>2, <3>4 DEF EntryKept
    <3>6. CASE table[d].flag = "VALID"
      BY <1>2, <3>2, <3>3, <3>4, <3>6 DEF EntryKept
    <3>7. CASE table[d].flag = "INVALID"
      <4>1. down[d] # NotDown /\ down'[d] = down[d]
        BY <2>2, <3>3, <3>7
      <4>2. table[d].lifeTime >= down[d] + BadLinkLifetime
        BY <3>5, <4>1 DEF IInv, DownInv
      <4>3. t[d].lifeTime >= table[d].lifeTime
        BY <3>2, <3>4, <3>7 DEF EntryKept
      <4>4. t[d].lifeTime \in Int /\ table[d].lifeTime \in Int /\ down[d] \in Int
        BY <1>1, <3>1, <3>4, <3>5 DEF EntryKept, Entry, IInv, TypeOK
      <4> QED BY <1>1, <1>2, <4>1, <4>2, <4>3, <4>4
    <3> QED BY <3>2, <3>4, <3>6, <3>7 DEF EntryKept
  <2> QED BY <2>1, <2>2 DEF DownInv
<1>5. HeldExactly'
  BY <1>2 DEF HeldExactly, EntryKept
<1>6. NoRouteThroughLostHop'
  BY <1>2 DEF NoRouteThroughLostHop, EntryKept
<1> QED BY <1>3, <1>4, <1>5, <1>6 DEF IInv

\* An entry that is only kept, or taken down now, satisfies it.
LEMMA FallenEntryKept ==
    ASSUME IInv, NEW u, FallenTo(u), NEW d \in DOMAIN u,
           u[d].nextHop \in broken' \ broken => u[d].flag # "VALID"
    PROVE  EntryKept(u, held, d)
<1>1. d \in DOMAIN table /\ table[d] \in Entry /\ u[d] \in Entry
  BY DEF FallenTo, IInv, TypeOK
<1>2. now \in Nat /\ BadLinkLifetime \in Nat
  BY RoutingTableAssumption DEF IInv, TypeOK
<1>3. /\ u[d].nextHop = table[d].nextHop
      /\ u[d].unidirectional = table[d].unidirectional
      /\ u[d].precursors = table[d].precursors
      /\ \/ u[d].flag = table[d].flag /\ u[d].lifeTime = table[d].lifeTime
         \/ /\ table[d].flag = "VALID" /\ u[d].flag = "INVALID"
            /\ u[d].lifeTime = now + BadLinkLifetime
  BY DEF FallenTo
<1>4. u[d].unidirectional = (held[d].marked # NotMarked) /\ u[d].precursors = held[d].precursors
  BY <1>1, <1>3 DEF IInv, HeldExactly
<1>5. u[d].nextHop \in broken' => u[d].flag # "VALID"
  BY <1>1, <1>3 DEF IInv, NoRouteThroughLostHop
<1>6. u[d].flag = "INVALID" =>
          \/ table[d].flag = "VALID" /\ u[d].lifeTime >= now + BadLinkLifetime
          \/ table[d].flag = "INVALID" /\ u[d].lifeTime >= table[d].lifeTime
  <2>1. u[d].lifeTime \in Int
    BY <1>1 DEF Entry
  <2> QED BY <1>2, <1>3, <2>1
<1> QED BY <1>1, <1>4, <1>5, <1>6 DEF EntryKept

\* Whatever part of such a table is left.
LEMMA PartKept ==
    ASSUME IInv, NEW u, FallenTo(u), NEW t, DOMAIN t \subseteq DOMAIN u,
           \A d \in DOMAIN t : t[d] = u[d], Becomes(t, held), broken' = broken
    PROVE  IInv'
<1>1. held \in Given /\ broken' \subseteq Node /\ DOMAIN t \subseteq Node
  BY DEF IInv, TypeOK, Given, FallenTo
<1>2. ASSUME NEW d \in DOMAIN t PROVE EntryKept(t, held, d)
  <2>1. EntryKept(u, held, d)
    BY FallenEntryKept
  <2>2. t[d] = u[d]
    OBVIOUS
  <2> QED BY <2>1, <2>2 DEF EntryKept
<1> QED BY <1>1, <1>2, BecomesKeeps

-----------------------------------------------------------------------------
(* The steps *)

LEMMA LookupRouteKeeps ==
    ASSUME IInv, LookupRoute PROVE IInv'
<1>1. FallenTo(Purged)
  BY PurgedFallen DEF IInv
<1>2. Becomes(Purged, held) /\ broken' = broken
  BY DEF LookupRoute
<1> QED BY <1>1, <1>2, PartKept

LEMMA RemoveRouteKeeps ==
    ASSUME IInv, NEW dst \in Node, RemoveRoute(dst) PROVE IInv'
<1>1. FallenTo(Purged)
  BY PurgedFallen DEF IInv
<1> DEFINE t == DeleteRoute(table, now, BadLinkLifetime, dst)
<1>2. DOMAIN t \subseteq DOMAIN Purged /\ \A d \in DOMAIN t : t[d] = Purged[d]
  BY DEF DeleteRoute, Purged
<1>3. Becomes(t, held) /\ broken' = broken
  BY DEF RemoveRoute
<1> HIDE DEF t
<1> QED BY <1>1, <1>2, <1>3, PartKept

LEMMA LoseDestinationsKeeps ==
    ASSUME IInv, NEW S, LoseDestinations(S) PROVE IInv'
<1> DEFINE t == InvalidateRoutesWithDst(table, now, BadLinkLifetime, S)
<1>1. FallenTo(t)
  BY TableFallen, InvalidateFalls DEF IInv
<1>2. Becomes(t, held) /\ broken' = broken
  BY DEF LoseDestinations
<1> HIDE DEF t
<1> QED BY <1>1, <1>2, PartKept

LEMMA InterfaceDownKeeps ==
    ASSUME IInv, NEW iface, InterfaceDown(iface) PROVE IInv'
<1> DEFINE t == DeleteAllRoutesFromInterface(table, iface)
<1>1. FallenTo(table)
  BY TableFallen DEF IInv
<1>2. DOMAIN t \subseteq DOMAIN table /\ \A d \in DOMAIN t : t[d] = table[d]
  BY DEF DeleteAllRoutesFromInterface
<1>3. Becomes(t, held) /\ broken' = broken
  BY DEF InterfaceDown
<1> HIDE DEF t
<1> QED BY <1>1, <1>2, <1>3, PartKept

LEMMA ClearKeeps ==
    ASSUME IInv, Clear PROVE IInv'
<1> DEFINE t == [d \in {} |-> 0]
<1>1. FallenTo(table)
  BY TableFallen DEF IInv
<1>2. DOMAIN t \subseteq DOMAIN table /\ \A d \in DOMAIN t : t[d] = table[d]
  OBVIOUS
<1>3. Becomes(t, held) /\ broken' = broken
  BY DEF Clear
<1> HIDE DEF t
<1> QED BY <1>1, <1>2, <1>3, PartKept

LEMMA LoseNextHopKeeps ==
    ASSUME IInv, NEW hop \in Node, LoseNextHop(hop) PROVE IInv'
<1> DEFINE S == WithNextHop(Purged, hop)
           t == InvalidateRoutesWithDst(Purged, now, BadLinkLifetime, S)
<1>1. FallenTo(Purged)
  BY PurgedFallen DEF IInv
<1>2. FallenTo(t) /\ \A d \in DOMAIN t \cap S : t[d].flag # "VALID"
  BY <1>1, InvalidateFalls DEF IInv
<1>3. DOMAIN t \subseteq DOMAIN Purged
  BY DEF InvalidateRoutesWithDst, Purge
<1>4. \A d \in DOMAIN Purged : Purged[d].nextHop = hop => d \in S
  BY DEF WithNextHop
<1>5. Becomes(t, held) /\ broken' = broken \cup {hop}
  BY DEF LoseNextHop
<1> HIDE DEF t, S
<1>6. ASSUME NEW d \in DOMAIN t PROVE EntryKept(t, held, d)
  <2>1. t[d].nextHop = Purged[d].nextHop
    BY <1>1, <1>2, <1>3 DEF FallenTo
  <2>2. t[d].nextHop \in broken' \ broken => t[d].flag # "VALID"
    BY <1>2, <1>3, <1>4, <1>5, <2>1
  <2> QED BY <1>2, <2>2, FallenEntryKept
<1>7. held \in Given /\ broken' \subseteq Node /\ DOMAIN t \subseteq Node
  BY <1>2, <1>5 DEF IInv, TypeOK, Given, FallenTo
<1> QED BY <1>5, <1>6, <1>7, BecomesKeeps

\* One entry of a fallen table is replaced, the rest stays.
LEMMA UpdateKeeps ==
    ASSUME IInv, NEW u, FallenTo(u), NEW dst \in DOMAIN u, NEW e \in Entry,
           NEW t, DOMAIN t = DOMAIN u, t[dst] = e,
           \A d \in DOMAIN t : d # dst => t[d] = u[d],
           NEW given \in Given, \A d \in Node : d # dst => given[d] = held[d],
           e.unidirectional = (given[dst].marked # NotMarked),
           e.precursors = given[dst].precursors,
           broken' \subseteq broken,
           e.nextHop \in broken' => e.flag # "VALID",
           e.flag = "INVALID" => u[dst].flag = "INVALID" /\ e.lifeTime >= u[dst].lifeTime,
           Becomes(t, given)
    PROVE  IInv'
<1>1. broken' \subseteq Node /\ DOMAIN t \subseteq Node
  BY DEF IInv, TypeOK, FallenTo
<1>2. ASSUME NEW d \in DOMAIN t, d # dst PROVE EntryKept(t, given, d)
  <2>1. EntryKept(u, held, d)
    BY FallenEntryKept
  <2>2. t[d] = u[d] /\ given[d] = held[d]
    BY <1>1, <1>2
  <2> QED BY <2>1, <2>2 DEF EntryKept
<1>3. EntryKept(t, given, dst)
  <2>1. dst \in DOMAIN table /\ u[dst] \in Entry /\ table[dst] \in Entry
    BY DEF FallenTo, IInv, TypeOK
  <2>2. u[dst].lifeTime \in Int /\ e.lifeTime \in Int /\ table[dst].lifeTime \in Int
    BY <2>1 DEF Entry
  <2>3. now + BadLinkLifetime \in Int
    BY RoutingTableAssumption DEF IInv, TypeOK
  <2>4. ASSUME e.flag = "INVALID"
        PROVE  \/ table[dst].flag = "VALID" /\ e.lifeTime >= now + BadLinkLifetime
               \/ table[dst].flag = "INVALID" /\ e.lifeTime >= table[dst].lifeTime
    <3>1. u[dst].flag = "INVALID" /\ e.lifeTime >= u[dst].lifeTime
      BY <2>4
    <3>2. \/ u[dst].flag = table[dst].flag /\ u[dst].lifeTime = table[dst].lifeTime
          \/ /\ table[dst].flag = "VALID" /\ u[dst].flag = "INVALID"
             /\ u[dst].lifeTime = now + BadLinkLifetime
      BY DEF FallenTo
    <3> QED BY <2>2, <2>3, <3>1, <3>2
  <2> QED BY <2>1, <2>4 DEF EntryKept
<1> QED BY <1>1, <1>2, <1>3, BecomesKeeps

LEMMA RefreshRouteKeeps ==
    ASSUME IInv, NEW dst \in Node, NEW nextHop \in Node, NEW iface \in Interface,
           NEW lifetime \in Lifetime, RefreshRoute(dst, nextHop, iface, lifetime)
    PROVE  IInv'
<1> DEFINE p == Purged[dst]
           later == IF now + lifetime >= p.lifeTime THEN now + lifetime ELSE p.lifeTime
           e == [p EXCEPT !.nextHop = nextHop, !.iface = iface, !.lifeTime = later]
           t == Update(Purged, dst, e)
<1>1. FallenTo(Purged)
  BY PurgedFallen DEF IInv
<1>2. dst \in DOMAIN Purged /\ p \in Entry
  BY <1>1 DEF RefreshRoute, FallenTo
<1>3. e = [p EXCEPT !.nextHop = nextHop, !.iface = iface,
              !.lifeTime = IF now + lifetime >= @ THEN now + lifetime ELSE @]
  BY <1>2 DEF Entry
<1>4. Becomes(t, held) /\ broken' = broken \ {nextHop}
  BY <1>3 DEF RefreshRoute
<1>5. later \in Int /\ later >= p.lifeTime
  <2>1. now + lifetime \in Int
    BY RoutingTableAssumption DEF IInv, TypeOK
  <2>2. p.lifeTime \in Int
    BY <1>2 DEF Entry
  <2> HIDE DEF p
  <2> QED BY <2>1, <2>2
<1>6. /\ DOMAIN t = DOMAIN Purged /\ t[dst] = e
      /\ \A d \in DOMAIN t : d # dst => t[d] = Purged[d]
  BY <1>2 DEF Update
<1> HIDE DEF p, later, t
<1>7. /\ e \in Entry /\ e.nextHop = nextHop /\ e.lifeTime = later /\ e.flag = p.flag
      /\ e.unidirectional = p.unidirectional /\ e.precursors = p.precursors
  BY <1>2, <1>5 DEF Entry
<1> HIDE DEF e
<1>8. p.unidirectional = (held[dst].marked # NotMarked) /\ p.precursors = held[dst].precursors
  BY <1>1, <1>2 DEF FallenTo, IInv, HeldExactly, p
<1>9. held \in Given
  BY DEF IInv, TypeOK, Given
<1> QED BY <1>1, <1>2, <1>4, <1>5, <1>6, <1>7, <1>8, <1>9, UpdateKeeps DEF p

LEMMA SearchRouteKeeps ==
    ASSUME IInv, NEW dst \in Node, SearchRoute(dst)
    PROVE  IInv'
<1> DEFINE p == Purged[dst]
           e == [p EXCEPT !.flag = "IN_SEARCH"]
           t == Update(Purged, dst, e)
<1>1. FallenTo(Purged)
  BY PurgedFallen DEF IInv
<1>2. dst \in DOMAIN Purged /\ p \in Entry
  BY <1>1 DEF SearchRoute, FallenTo
<1>3. Becomes(t, held) /\ broken' = broken
  BY DEF SearchRoute
<1>4. /\ DOMAIN t = DOMAIN Purged /\ t[dst] = e
      /\ \A d \in DOMAIN t : d # dst => t[d] = Purged[d]
  BY <1>2 DEF Update
<1> HIDE DEF p, t
<1>5. /\ e \in Entry /\ e.flag = "IN_SEARCH"
      /\ e.unidirectional = p.unidirectional /\ e.precursors = p.precursors
  BY <1>2 DEF Entry, RouteFlags
<1> HIDE DEF e
<1>6. p.unidirectional = (held[dst].marked # NotMarked) /\ p.precursors = held[dst].precursors
  BY <1>1, <1>2 DEF FallenTo, IInv, HeldExactly, p
<1>7. held \in Given
  BY DEF IInv, TypeOK, Given
<1> QED BY <1>1, <1>2, <1>3, <1>4, <1>5, <1>6, <1>7, UpdateKeeps

LEMMA ChangePrecursorsKeeps ==
    ASSUME IInv, NEW dst \in Node, NEW P \in SUBSET Node, ChangePrecursors(dst, P)
    PROVE  IInv'
<1> DEFINE p == Purged[dst]
           e == [p EXCEPT !.precursors = P]
           t == Update(Purged, dst, e)
           g == [held EXCEPT ![dst].precursors = P]
<1>1. FallenTo(Purged)
  BY PurgedFallen DEF IInv
<1>2. dst \in DOMAIN Purged /\ p \in Entry
  BY <1>1 DEF ChangePrecursors, FallenTo
<1>3. Becomes(t, g) /\ broken' = broken
  BY DEF ChangePrecursors
<1>4. /\ DOMAIN t = DOMAIN Purged /\ t[dst] = e
      /\ \A d \in DOMAIN t : d # dst => t[d] = Purged[d]
  BY <1>2 DEF Update
<1>5. held \in Given
  BY DEF IInv, TypeOK, Given
<1>6. /\ g \in Given /\ g[dst].precursors = P /\ g[dst].marked = held[dst].marked
      /\ \A d \in Node : d # dst => g[d] = held[d]
  BY <1>5 DEF Given, Held
<1> HIDE DEF p, t, g
<1>7. /\ e \in Entry /\ e.nextHop = p.nextHop /\ e.lifeTime = p.lifeTime
      /\ e.flag = p.flag /\ e.unidirectional = p.unidirectional /\ e.precursors = P
  BY <1>2 DEF Entry
<1> HIDE DEF e
<1>8. p.unidirectional = (held[dst].marked # NotMarked)
  BY <1>1, <1>2 DEF FallenTo, IInv, HeldExactly, p
<1>9. p.nextHop \in broken => p.flag # "VALID"
  BY <1>1, <1>2 DEF FallenTo, IInv, NoRouteThroughLostHop, p
<1>10. e.lifeTime >= p.lifeTime
  <2>1. p.lifeTime \in Int
    BY <1>2 DEF Entry
  <2> QED BY <1>7, <2>1
<1> QED BY <1>1, <1>2, <1>3, <1>4, <1>6, <1>7, <1>8, <1>9, <1>10, UpdateKeeps DEF p

LEMMA MarkKeeps ==
    ASSUME IInv, NEW nb \in Node, Mark(nb)
    PROVE  IInv'
<1> DEFINE p == table[nb]
           e == [p EXCEPT !.unidirectional = TRUE]
           t == MarkLinkAsUnidirectional(table, nb)
           g == [held EXCEPT ![nb].marked = now]
<1>1. FallenTo(table)
  BY TableFallen DEF IInv
<1>2. nb \in DOMAIN table /\ p \in Entry
  BY <1>1 DEF Mark, FallenTo
<1>3. Becomes(t, g) /\ broken' = broken
  BY DEF Mark
<1>4. /\ DOMAIN t = DOMAIN table /\ t[nb] = e
      /\ \A d \in DOMAIN t : d # nb => t[d] = table[d]
  BY <1>2 DEF MarkLinkAsUnidirectional
<1>5. held \in Given
  BY DEF IInv, TypeOK, Given
<1>6. /\ g \in Given /\ g[nb].marked = now /\ g[nb].precursors = held[nb].precursors
      /\ \A d \in Node : d # nb => g[d] = held[d]
  <2>1. now \in Nat
    BY RoutingTableAssumption DEF IInv, TypeOK
  <2> QED BY <1>5, <2>1 DEF Given, Held
<1> HIDE DEF p, t, g
<1>7. /\ e \in Entry /\ e.nextHop = p.nextHop /\ e.lifeTime = p.lifeTime
      /\ e.flag = p.flag /\ e.unidirectional = TRUE /\ e.precursors = p.precursors
  BY <1>2 DEF Entry
<1> HIDE DEF e
<1>8. p.precursors = held[nb].precursors
  BY <1>2 DEF IInv, HeldExactly, p
<1>9. p.nextHop \in broken => p.flag # "VALID"
  BY <1>2 DEF IInv, NoRouteThroughLostHop, p
<1>10. e.lifeTime >= p.lifeTime
  <2>1. p.lifeTime \in Int
    BY <1>2 DEF Entry
  <2> QED BY <1>7, <2>1
<1>11. e.unidirectional = (g[nb].marked # NotMarked) /\ e.precursors = g[nb].precursors
  <2>1. now # NotMarked
    BY RoutingTableAssumption DEF IInv, TypeOK, NotMarked
  <2> QED BY <1>6, <1>7, <1>8, <2>1
<1>12. e.nextHop \in broken' => e.flag # "VALID"
  BY <1>3, <1>7, <1>9
<1>13. e.flag = "INVALID" => table[nb].flag = "INVALID" /\ e.lifeTime >= table[nb].lifeTime
  BY <1>7, <1>10 DEF p
<1>14. broken' \subseteq broken
  BY <1>3
<1>15. \A d \in Node : d # nb => g[d] = held[d]
  BY <1>6
<1>16. g \in Given /\ e \in Entry
  BY <1>6, <1>7
<1> QED BY <1>1, <1>2, <1>3, <1>4, <1>11, <1>12, <1>13, <1>14, <1>15, <1>16, UpdateKeeps

LEMMA AddNewRouteKeeps ==
    ASSUME IInv, NEW dst \in Node, NEW rt \in Entry, rt.flag # "INVALID",
           ~rt.unidirectional, rt.precursors = {}, AddNewRoute(dst, rt)
    PROVE  IInv'
<1> DEFINE t == AddRoute(table, now, BadLinkLifetime, dst, rt)
           g == [held EXCEPT ![dst] = IF dst \in DOMAIN Purged THEN @ ELSE Nothing]
<1>1. FallenTo(Purged)
  BY PurgedFallen DEF IInv
<1>2. Becomes(t, g)
  BY DEF AddNewRoute
<1>3. held \in Given
  BY DEF IInv, TypeOK, Given
<1>4. t = [d \in DOMAIN Purged \cup {dst} |->
              IF d \in DOMAIN Purged THEN Purged[d] ELSE rt]
  BY DEF AddRoute, Insert, Purged
<1>5. CASE dst \in DOMAIN Purged
  <2>1. broken' = broken
    BY <1>5 DEF AddNewRoute
  <2>2. g = held
    BY <1>3, <1>5 DEF Given
  <2>3. DOMAIN t \subseteq DOMAIN Purged /\ \A d \in DOMAIN t : t[d] = Purged[d]
    BY <1>4, <1>5
  <2> HIDE DEF t, g
  <2> QED BY <1>1, <1>2, <2>1, <2>2, <2>3, PartKept
<1>6. CASE dst \notin DOMAIN Purged
  <2>1. broken' = broken \ {rt.nextHop}
    BY <1>6 DEF AddNewRoute
  <2>2. /\ g \in Given /\ g[dst] = Nothing
        /\ \A d \in Node : d # dst => g[d] = held[d]
    <3>1. Nothing \in Held
      BY DEF Nothing, Held
    <3>2. g = [held EXCEPT ![dst] = Nothing]
      BY <1>6
    <3> HIDE DEF g
    <3> QED BY <1>3, <3>1, <3>2 DEF Given
  <2>3. /\ DOMAIN t = DOMAIN Purged \cup {dst} /\ t[dst] = rt
        /\ \A d \in DOMAIN t : d # dst => t[d] = Purged[d]
    BY <1>4, <1>6
  <2> HIDE DEF t, g
  <2>4. ASSUME NEW d \in DOMAIN t, d # dst PROVE EntryKept(t, g, d)
    <3>1. d \in DOMAIN Purged /\ d \in Node /\ t[d] = Purged[d]
      BY <1>1, <2>3, <2>4 DEF FallenTo, IInv, TypeOK
    <3>2. EntryKept(Purged, held, d)
      BY <1>1, <2>1, <3>1, FallenEntryKept
    <3>3. g[d] = held[d]
      BY <2>2, <2>4, <3>1
    <3> QED BY <3>1, <3>2, <3>3 DEF EntryKept
  <2>5. EntryKept(t, g, dst)
    <3>1. rt.unidirectional = FALSE
      BY DEF Entry
    <3>2. rt.unidirectional = (Nothing.marked # NotMarked) /\ rt.precursors = Nothing.precursors
      BY <3>1 DEF Nothing, NotMarked
    <3>3. rt.nextHop \notin broken'
      BY <2>1
    <3> QED BY <2>2, <2>3, <3>2, <3>3 DEF EntryKept
  <2>6. broken' \subseteq Node /\ DOMAIN t \subseteq Node
    BY <1>1, <2>1, <2>3 DEF FallenTo, IInv, TypeOK
  <2> QED BY <1>2, <2>2, <2>4, <2>5, <2>6, BecomesKeeps
<1> QED BY <1>5, <1>6

LEMMA NewRouteIsEntry ==
    ASSUME NEW nextHop \in Node \cup {NoNode}, NEW iface \in Interface \cup {NoInterface},
           NEW lifeTime \in Int, NEW flag \in RouteFlags
    PROVE  /\ NewRoute(nextHop, iface, lifeTime, flag) \in Entry
           /\ NewRoute(nextHop, iface, lifeTime, flag).flag = flag
           /\ ~NewRoute(nextHop, iface, lifeTime, flag).unidirectional
           /\ NewRoute(nextHop, iface, lifeTime, flag).precursors = {}
  BY DEF NewRoute, Entry

\* The flag alone: an entry made INVALID keeps its time, and one the table had
\* taken down keeps it too.
LEMMA ChangeStateKeeps ==
    ASSUME IInv, NEW dst \in Node, NEW state \in RouteFlags, ChangeState(dst, state)
    PROVE  IInv'
<1>1. /\ now' = now /\ held' = held
      /\ down' = [down EXCEPT ![dst] = IF state = "INVALID" THEN @ ELSE NotDown]
      /\ broken' = IF state = "VALID" /\ dst \in DOMAIN table
                   THEN broken \ {table[dst].nextHop} ELSE broken
  BY DEF ChangeState
<1>2. /\ DOMAIN table' = DOMAIN table
      /\ \A d \in DOMAIN table : d # dst => table'[d] = table[d]
      /\ dst \in DOMAIN table => table'[dst] = [table[dst] EXCEPT !.flag = state]
  BY DEF ChangeState, SetEntryState
<1>3. \A d \in DOMAIN table : table[d] \in Entry
  BY DEF IInv, TypeOK
<1>4. ASSUME NEW d \in DOMAIN table
      PROVE  /\ table'[d] \in Entry
             /\ table'[d].nextHop = table[d].nextHop
             /\ table'[d].unidirectional = table[d].unidirectional
             /\ table'[d].precursors = table[d].precursors
             /\ table'[d].lifeTime = table[d].lifeTime
             /\ table'[d].flag = IF d = dst THEN state ELSE table[d].flag
  <2>1. CASE d = dst
    BY <1>2, <1>3, <2>1 DEF Entry
  <2>2. CASE d # dst
    BY <1>2, <1>3, <2>2
  <2> QED BY <2>1, <2>2
<1>5. /\ down' \in [Node -> Nat \cup {NotDown}]
      /\ \A d \in Node : down'[d] = IF d = dst /\ state # "INVALID" THEN NotDown ELSE down[d]
  BY <1>1 DEF IInv, TypeOK
<1>6. TypeOK'
  BY <1>1, <1>2, <1>4, <1>5 DEF IInv, TypeOK
<1>7. DownInv'
  <2>1. ASSUME NEW d \in Node, d \notin DOMAIN table' \/ table'[d].flag # "INVALID"
        PROVE  down'[d] = NotDown
    BY <1>2, <1>4, <1>5, <2>1 DEF IInv, DownInv
  <2>2. ASSUME NEW d \in DOMAIN table', down'[d] # NotDown
        PROVE  table'[d].lifeTime >= down'[d] + BadLinkLifetime
    <3>1. d \in DOMAIN table /\ d \in Node
      BY <1>2, <2>2 DEF IInv, TypeOK
    <3>2. down'[d] = down[d] /\ down[d] # NotDown /\ table'[d].lifeTime = table[d].lifeTime
      BY <1>4, <1>5, <2>2, <3>1
    <3> QED BY <3>1, <3>2 DEF IInv, DownInv
  <2> QED BY <2>1, <2>2 DEF DownInv
<1>8. HeldExactly'
  BY <1>1, <1>2, <1>4 DEF IInv, HeldExactly
<1>9. NoRouteThroughLostHop'
  BY <1>1, <1>2, <1>4 DEF IInv, NoRouteThroughLostHop
<1> QED BY <1>6, <1>7, <1>8, <1>9 DEF IInv

LEMMA TickKeeps ==
    ASSUME IInv, Tick PROVE IInv'
<1>1. /\ now' = now + 1 /\ now < MaxTime
      /\ table' = table /\ down' = down /\ held' = held /\ broken' = broken
  BY DEF Tick
<1>2. now' \in 0 .. MaxTime
  BY <1>1, RoutingTableAssumption DEF IInv, TypeOK
<1>3. TypeOK'
  BY <1>1, <1>2 DEF IInv, TypeOK
<1>4. DownInv' /\ HeldExactly' /\ NoRouteThroughLostHop'
  BY <1>1 DEF IInv, DownInv, HeldExactly, NoRouteThroughLostHop
<1> QED BY <1>3, <1>4 DEF IInv

-----------------------------------------------------------------------------
(* The invariant *)

LEMMA InitHolds == Init => IInv
<1> SUFFICES ASSUME Init PROVE IInv
  OBVIOUS
<1>1. TypeOK
  <2>1. Nothing \in Held
    BY DEF Nothing, Held
  <2>2. 0 \in 0 .. MaxTime
    BY RoutingTableAssumption
  <2> QED BY <2>1, <2>2 DEF Init, TypeOK
<1>2. DownInv /\ HeldExactly /\ NoRouteThroughLostHop
  BY DEF Init, DownInv, HeldExactly, NoRouteThroughLostHop
<1> QED BY <1>1, <1>2 DEF IInv

LEMMA NextKeeps == IInv /\ [Next]_vars => IInv'
<1> SUFFICES ASSUME IInv, [Next]_vars PROVE IInv'
  OBVIOUS
<1>1. CASE LookupRoute
  BY <1>1, LookupRouteKeeps
<1>2. ASSUME NEW dst \in Node, NEW nextHop \in Node, NEW iface \in Interface,
             NEW lifetime \in Lifetime,
             AddNewRoute(dst, NewRoute(nextHop, iface, now + lifetime, "VALID"))
      PROVE  IInv'
  <2> DEFINE rt == NewRoute(nextHop, iface, now + lifetime, "VALID")
  <2>1. now + lifetime \in Int
    BY RoutingTableAssumption DEF IInv, TypeOK
  <2>2. /\ rt \in Entry /\ rt.flag # "INVALID" /\ ~rt.unidirectional
        /\ rt.precursors = {}
    BY <2>1, NewRouteIsEntry DEF RouteFlags
  <2>3. AddNewRoute(dst, rt)
    BY <1>2
  <2> HIDE DEF rt
  <2> QED BY <2>2, <2>3, AddNewRouteKeeps
<1>3. ASSUME NEW dst \in Node, NEW nextHop \in Node, NEW iface \in Interface,
             NEW lifetime \in Lifetime, RefreshRoute(dst, nextHop, iface, lifetime)
      PROVE  IInv'
  BY <1>3, RefreshRouteKeeps
<1>4. ASSUME NEW dst \in Node,
             AddNewRoute(dst, NewRoute(NoNode, NoInterface, now, "IN_SEARCH"))
      PROVE  IInv'
  <2> DEFINE rt == NewRoute(NoNode, NoInterface, now, "IN_SEARCH")
  <2>1. now \in Int
    BY RoutingTableAssumption DEF IInv, TypeOK
  <2>2. /\ rt \in Entry /\ rt.flag # "INVALID" /\ ~rt.unidirectional
        /\ rt.precursors = {}
    BY <2>1, NewRouteIsEntry DEF RouteFlags
  <2>3. AddNewRoute(dst, rt)
    BY <1>4
  <2> HIDE DEF rt
  <2> QED BY <2>2, <2>3, AddNewRouteKeeps
<1>5. ASSUME NEW dst \in Node, SearchRoute(dst) PROVE IInv'
  BY <1>5, SearchRouteKeeps
<1>6. ASSUME NEW dst \in Node, NEW id \in Node \ {dst},
             \/ ChangePrecursors(dst, Purged[dst].precursors \cup {id})
             \/ ChangePrecursors(dst, Purged[dst].precursors \ {id})
      PROVE  IInv'
  <2>1. dst \in DOMAIN Purged
    BY <1>6 DEF ChangePrecursors
  <2>2. Purged[dst].precursors \in SUBSET Node
    BY <2>1, PurgedFallen DEF IInv, FallenTo, Entry
  <2> QED BY <1>6, <2>2, ChangePrecursorsKeeps
<1>7. ASSUME NEW dst \in Node, ChangePrecursors(dst, {}) PROVE IInv'
  BY <1>7, ChangePrecursorsKeeps
<1>8. ASSUME NEW dst \in Node, RemoveRoute(dst) PROVE IInv'
  BY <1>8, RemoveRouteKeeps
<1>9. ASSUME NEW dst \in Node, LoseNextHop(dst) PROVE IInv'
  BY <1>9, LoseNextHopKeeps
<1>10. ASSUME NEW dst \in Node, NEW state \in RouteFlags, ChangeState(dst, state)
       PROVE  IInv'
  BY <1>10, ChangeStateKeeps
<1>11. ASSUME NEW dst \in Node, Mark(dst) PROVE IInv'
  BY <1>11, MarkKeeps
<1>12. ASSUME NEW S \in SUBSET Node, LoseDestinations(S) PROVE IInv'
  BY <1>12, LoseDestinationsKeeps
<1>13. ASSUME NEW iface \in Interface, InterfaceDown(iface) PROVE IInv'
  BY <1>13, InterfaceDownKeeps
<1>14. CASE Clear
  BY <1>14, ClearKeeps
<1>15. CASE Tick
  BY <1>15, TickKeeps
<1>16. CASE UNCHANGED vars
  BY <1>16 DEF vars, IInv, TypeOK, DownInv, HeldExactly, NoRouteThroughLostHop
<1> QED BY <1>1, <1>2, <1>3, <1>4, <1>5, <1>6, <1>7, <1>8, <1>9, <1>10, <1>11,
           <1>12, <1>13, <1>14, <1>15, <1>16 DEF Next

LEMMA InvariantHolds == Spec => []IInv
<1>1. Init => IInv
  BY InitHolds
<1>2. IInv /\ [Next]_vars => IInv'
  BY NextKeeps
<1> QED BY <1>1, <1>2, PTL DEF Spec

\* The table keeps its types whatever operations are called in whatever order
\* (RoutingTable, rtable.cc).
THEOREM TypeCorrect == Spec => []TypeOK
<1>1. IInv => TypeOK
  BY DEF IInv
<1> QED BY <1>1, InvariantHolds, PTL

\* No precursor of an entry is lost or revived, no mark is revived or ends before
\* its time (rtable.cc 36-117, 391-407).
THEOREM MarksHeldWithEntry == Spec => []HeldWithEntry
<1>1. IInv => HeldWithEntry
  <2> SUFFICES ASSUME IInv, NEW d \in DOMAIN table
               PROVE  /\ table[d].precursors = held[d].precursors
                      /\ table[d].unidirectional <=> held[d].marked # NotMarked
    BY DEF HeldWithEntry
  <2> QED BY DEF IInv, HeldExactly
<1> QED BY <1>1, InvariantHolds, PTL

\* A lost next hop serves no VALID route until a caller names it again
\* (GetListOfDestinationWithNextHop and InvalidateRoutesWithDst).
THEOREM LostHopUnused == Spec => []NoRouteThroughLostHop
<1>1. IInv => NoRouteThroughLostHop
  BY DEF IInv
<1> QED BY <1>1, InvariantHolds, PTL

-----------------------------------------------------------------------------
(* Leaving the table *)

LEMMA GoneAfterDown ==
    ASSUME IInv, NEW u, FallenTo(u), NEW d \in DOMAIN table \ DOMAIN u
    PROVE  /\ table[d].flag = "INVALID"
           /\ down[d] # NotDown => now > down[d] + BadLinkLifetime
<1>1. table[d].flag = "INVALID" /\ table[d].lifeTime < now
  BY DEF FallenTo
<1>2. ASSUME down[d] # NotDown PROVE now > down[d] + BadLinkLifetime
  <2>1. table[d].lifeTime >= down[d] + BadLinkLifetime
    BY <1>2 DEF IInv, DownInv
  <2>2. d \in Node /\ table[d] \in Entry
    BY DEF IInv, TypeOK
  <2>3. table[d].lifeTime \in Int /\ down[d] \in Int /\ now \in Int /\ BadLinkLifetime \in Int
    BY <2>2, RoutingTableAssumption DEF Entry, IInv, TypeOK, NotDown
  <2> QED BY <1>1, <2>1, <2>3
<1> QED BY <1>1, <1>2

\* What ForgottenOnlyAfterDown says of one destination.
Forgotten(d) ==
    \/ RemoveRoute(d) \/ InterfaceDown(table[d].iface) \/ Clear
    \/ /\ table[d].flag = "INVALID"
       /\ down[d] # NotDown => now > down[d] + BadLinkLifetime

LEMMA ForgottenStep ==
    ASSUME IInv, [Next]_vars, NEW d \in DOMAIN table \ DOMAIN table'
    PROVE  Forgotten(d)
<1>1. FallenTo(Purged)
  BY PurgedFallen DEF IInv
<1>2. CASE d \notin DOMAIN Purged
  BY <1>1, <1>2, GoneAfterDown DEF Forgotten
<1>3. ASSUME NEW S, NEW u, FallenTo(u),
             table' = InvalidateRoutesWithDst(u, now, BadLinkLifetime, S)
      PROVE  Forgotten(d)
  <2> DEFINE v == InvalidateRoutesWithDst(u, now, BadLinkLifetime, S)
  <2>1. FallenTo(v)
    BY <1>3, InvalidateFalls DEF IInv
  <2>2. table' = v
    BY <1>3
  <2> HIDE DEF v
  <2> QED BY <2>1, <2>2, GoneAfterDown DEF Forgotten
<1>4. CASE d \in DOMAIN Purged
  <2>1. CASE LookupRoute
    BY <1>4, <2>1 DEF LookupRoute, Becomes
  <2>2. ASSUME NEW dst, NEW rt, AddNewRoute(dst, rt) PROVE Forgotten(d)
    <3>1. d \in DOMAIN table'
      BY <1>4, <2>2 DEF AddNewRoute, Becomes, AddRoute, Insert, Purged
    <3> QED BY <3>1
  <2>3. ASSUME NEW dst, NEW nextHop, NEW iface, NEW lifetime,
               RefreshRoute(dst, nextHop, iface, lifetime)
        PROVE  Forgotten(d)
    <3>1. d \in DOMAIN table'
      BY <1>4, <2>3 DEF RefreshRoute, Becomes, Update
    <3> QED BY <3>1
  <2>4. ASSUME NEW dst, SearchRoute(dst) PROVE Forgotten(d)
    <3>1. d \in DOMAIN table'
      BY <1>4, <2>4 DEF SearchRoute, Becomes, Update
    <3> QED BY <3>1
  <2>5. ASSUME NEW dst, NEW P, ChangePrecursors(dst, P) PROVE Forgotten(d)
    <3>1. d \in DOMAIN table'
      BY <1>4, <2>5 DEF ChangePrecursors, Becomes, Update
    <3> QED BY <3>1
  <2>6. ASSUME NEW dst, RemoveRoute(dst) PROVE Forgotten(d)
    <3>1. d = dst
      BY <1>4, <2>6 DEF RemoveRoute, Becomes, DeleteRoute, Purged
    <3> QED BY <2>6, <3>1 DEF Forgotten
  <2>7. ASSUME NEW dst, LoseNextHop(dst) PROVE Forgotten(d)
    <3>1. table' = InvalidateRoutesWithDst(Purged, now, BadLinkLifetime,
                                           WithNextHop(Purged, dst))
      BY <2>7 DEF LoseNextHop, Becomes
    <3> QED BY <1>1, <1>3, <3>1
  <2>8. ASSUME NEW dst, NEW state, ChangeState(dst, state) PROVE Forgotten(d)
    BY <2>8 DEF ChangeState, SetEntryState
  <2>9. ASSUME NEW dst, Mark(dst) PROVE Forgotten(d)
    BY <2>9 DEF Mark, Becomes, MarkLinkAsUnidirectional
  <2>10. ASSUME NEW S, LoseDestinations(S) PROVE Forgotten(d)
    <3>1. table' = InvalidateRoutesWithDst(table, now, BadLinkLifetime, S)
      BY <2>10 DEF LoseDestinations, Becomes
    <3>2. FallenTo(table)
      BY TableFallen DEF IInv
    <3> QED BY <1>3, <3>1, <3>2
  <2>11. ASSUME NEW iface, InterfaceDown(iface) PROVE Forgotten(d)
    <3>1. table[d].iface = iface
      BY <2>11 DEF InterfaceDown, Becomes, DeleteAllRoutesFromInterface
    <3> QED BY <2>11, <3>1 DEF Forgotten
  <2>12. CASE Clear
    BY <2>12 DEF Forgotten
  <2>13. CASE Tick \/ UNCHANGED vars
    BY <2>13 DEF Tick, vars
  <2> QED BY <2>1, <2>2, <2>3, <2>4, <2>5, <2>6, <2>7, <2>8, <2>9, <2>10, <2>11,
             <2>12, <2>13 DEF Next
<1> QED BY <1>2, <1>4

\* No destination is forgotten before it has been down for BadLinkLifetime, but
\* by a caller's hand (Purge and Invalidate, rtable.cc).
THEOREM NothingForgottenEarly == Spec => ForgottenOnlyAfterDown
<1>1. IInv /\ [Next]_vars =>
        [\A d \in DOMAIN table \ DOMAIN table' :
            \/ RemoveRoute(d) \/ InterfaceDown(table[d].iface) \/ Clear
            \/ /\ table[d].flag = "INVALID"
               /\ down[d] # NotDown => now > down[d] + BadLinkLifetime]_vars
  BY ForgottenStep DEF Forgotten
<1> QED BY <1>1, InvariantHolds, PTL DEF Spec, ForgottenOnlyAfterDown
=============================================================================
