-------------------------- MODULE FloodTreeProofs --------------------------
(***************************************************************************)
(* Route discovery implements FloodTree: the RREQs the nodes let through   *)
(* their filters form one tree per flood, which lead back to where they    *)
(* began; every reverse route is an edge of such a tree, and stays as long *)
(* as the answer may take.                                                 *)
(***************************************************************************)
EXTENDS RouteRequestProofs

\* A copy in the air was sent by a node that handled its RREQ, with the hop
\* count that node had.
Carried ==
    \A m \in air : \E g \in handled :
        /\ g.node = m.from /\ g.origin = m.rreq.origin /\ g.id = m.rreq.id
        /\ g.hop = m.rreq.hopCount

\* The bound of the calls, which gives Tree its ids.
Within == \A n \in Node : asked[n] =< MaxRequests[n]

TreeInv == Carried /\ Within /\ ReverseRouteIsAPath

\* Node n handled an RREQ of d that came from via over hops hops, and via handled
\* it before.
Path(n, d, via, hops) ==
    \E g, h \in handled :
        /\ h.node = n /\ h.origin = d /\ h.from = via /\ h.hop = hops
        /\ g.node = via /\ g.origin = d /\ g.id = h.id
        /\ hops = (g.hop + 1) % 256 /\ g.at =< h.at

\* Every route of the table t leads along such a path.
Paths(t, n) ==
    \A d \in DOMAIN t : t[d].nextHop # NoNode => Path(n, d, t[d].nextHop, t[d].hops)

LEMMA PathsOfTables == ReverseRouteIsAPath <=> \A n \in Node : Paths(table[n], n)
  BY DEF ReverseRouteIsAPath, Paths, Path

LEMMA PathsOfTablesPrime ==
    ReverseRouteIsAPath' <=> \A n \in Node : Paths(table[n], n)'
  BY DEF ReverseRouteIsAPath, Paths, Path

-----------------------------------------------------------------------------
(* What the operations of the table do to next hops and hop counts *)

LEMMA PurgeKeepsRoutes ==
    ASSUME NEW t \in Table, NEW time \in Nat
    PROVE  \A d \in DOMAIN Purge(t, time, DeletePeriod) :
               /\ d \in DOMAIN t
               /\ Purge(t, time, DeletePeriod)[d].nextHop = t[d].nextHop
               /\ Purge(t, time, DeletePeriod)[d].hops = t[d].hops
<1> SUFFICES ASSUME NEW d \in DOMAIN Purge(t, time, DeletePeriod)
             PROVE  /\ d \in DOMAIN t
                    /\ Purge(t, time, DeletePeriod)[d].nextHop = t[d].nextHop
                    /\ Purge(t, time, DeletePeriod)[d].hops = t[d].hops
  OBVIOUS
<1>1. d \in DOMAIN t
  BY DEF Purge
<1>2. t[d] \in Entry
  BY <1>1, TableElim
<1>3. /\ Invalidate(t[d], time, DeletePeriod).nextHop = t[d].nextHop
      /\ Invalidate(t[d], time, DeletePeriod).hops = t[d].hops
  BY <1>2 DEF Invalidate, Entry
<1>4. Purge(t, time, DeletePeriod)[d] \in {t[d], Invalidate(t[d], time, DeletePeriod)}
  BY DEF Purge
<1> QED BY <1>1, <1>3, <1>4

LEMMA PurgeKeepsPaths ==
    ASSUME NEW t \in Table, NEW n, now \in Nat, Paths(t, n)
    PROVE  Paths(Purge(t, now, DeletePeriod), n)
  BY PurgeKeepsRoutes DEF Paths

LEMMA MarkKeepsPaths ==
    ASSUME NEW t \in Table, NEW n, NEW nb, Paths(t, n)
    PROVE  Paths(MarkLinkAsUnidirectional(t, nb), n)
<1> SUFFICES ASSUME NEW d \in DOMAIN t
             PROVE  /\ MarkLinkAsUnidirectional(t, nb)[d].nextHop = t[d].nextHop
                    /\ MarkLinkAsUnidirectional(t, nb)[d].hops = t[d].hops
  BY MarkTyped DEF Paths
<1>1. t[d] \in Entry
  BY TableElim
<1> QED BY <1>1 DEF MarkLinkAsUnidirectional, Entry

\* SendRequest leaves next hops alone and gives a new entry none.
LEMMA SearchingKeepsPaths ==
    ASSUME NEW t \in Table, NEW n, NEW dst \in Node, now \in Nat, Paths(t, n)
    PROVE  Paths(Searching(t, dst), n)
<1>1. CASE dst \in DOMAIN t
  <2>1. t[dst] \in Entry
    BY <1>1, TableElim
  <2>2. /\ [t[dst] EXCEPT !.flag = "IN_SEARCH"].nextHop = t[dst].nextHop
        /\ [t[dst] EXCEPT !.flag = "IN_SEARCH"].hops = t[dst].hops
    BY <2>1 DEF Entry
  <2>3. Searching(t, dst) = Update(t, dst, [t[dst] EXCEPT !.flag = "IN_SEARCH"])
    BY <1>1 DEF Searching
  <2> QED BY <2>2, <2>3 DEF Update, Paths
<1>2. CASE dst \notin DOMAIN t
  <2> DEFINE p == Purge(t, now, DeletePeriod)
             e == [NewEntry(FALSE, 0, 0, NoNode, now) EXCEPT !.flag = "IN_SEARCH"]
  <2>1. Searching(t, dst) = Insert(p, dst, e)
    BY <1>2 DEF Searching, AddRoute
  <2>2. e.nextHop = NoNode
    BY DEF NewEntry
  <2>3. Paths(p, n)
    BY PurgeKeepsPaths
  <2> HIDE DEF p, e
  <2> QED BY <2>1, <2>2, <2>3 DEF Insert, Paths
<1> QED BY <1>1, <1>2

\* The table w is t but for the route to o, which leads over via, hops hops long.
Written(t, w, o, via, hops) ==
    /\ w[o].nextHop = via /\ w[o].hops = hops
    /\ \A d \in DOMAIN w \ {o} :
          d \in DOMAIN t /\ w[d].nextHop = t[d].nextHop /\ w[d].hops = t[d].hops

\* The reverse route RecvRReq writes has the sender as next hop and the hop count
\* of the RREQ; the other routes keep theirs.
LEMMA ReverseRouteWritten ==
    ASSUME NEW t \in Table, NEW src \in Node, NEW rreq \in Rreq, NEW hop \in 0 .. 255,
           now \in Nat
    PROVE  Written(t, WithReverseRoute(t, src, rreq, hop), rreq.origin, src, hop)
<1> DEFINE o == rreq.origin
           w == WithReverseRoute(t, src, rreq, hop)
           life == ReverseLifeTime(hop)
<1>1. CASE o \in DOMAIN t
  <2> DEFINE e == t[o]
             s == ReverseSeqNo(e, rreq)
             top == Max2(life, e.lifeTime)
             f == [e EXCEPT !.seqNo = s, !.validSeqNo = TRUE, !.nextHop = src,
                            !.hops = hop, !.lifeTime = top]
  <2>1. e \in Entry
    BY <1>1, TableElim
  <2>2. [e EXCEPT !.seqNo = s, !.validSeqNo = TRUE, !.nextHop = src, !.hops = hop,
                  !.lifeTime = Max2(life, @)] = f
    BY <2>1 DEF Entry
  <2>3. w = Update(t, o, f)
    BY <1>1, <2>2 DEF WithReverseRoute
  <2> HIDE DEF e, s, top
  <2>4. f.nextHop = src /\ f.hops = hop
    BY <2>1 DEF Entry
  <2> HIDE DEF f, w, o
  <2>5. Written(t, w, o, src, hop)
    BY <1>1, <2>3, <2>4 DEF Update, Written
  <2> QED BY <2>5 DEF w, o
<1>2. CASE o \notin DOMAIN t
  <2> DEFINE e == NewEntry(TRUE, rreq.originSeqno, hop, src, life)
             p == Purge(t, now, DeletePeriod)
  <2>1. w = Insert(p, o, e)
    BY <1>2 DEF WithReverseRoute, AddRoute
  <2>2. e.nextHop = src /\ e.hops = hop
    BY DEF NewEntry
  <2>3. \A d \in DOMAIN p : /\ d \in DOMAIN t
                            /\ p[d].nextHop = t[d].nextHop /\ p[d].hops = t[d].hops
    BY PurgeKeepsRoutes
  <2> HIDE DEF e, p, w, o
  <2>4. Written(t, w, o, src, hop)
    BY <1>2, <2>1, <2>2, <2>3 DEF Insert, Written
  <2> QED BY <2>4 DEF w, o
<1> QED BY <1>1, <1>2

\* A path stays a path when more is handled.
LEMMA PathKept ==
    ASSUME NEW n, NEW d, NEW via, NEW hops, Path(n, d, via, hops), handled \subseteq handled'
    PROVE  Path(n, d, via, hops)'
  BY DEF Path

LEMMA PathsKept ==
    ASSUME NEW t, NEW n, Paths(t, n), handled \subseteq handled', table'[n] = t
    PROVE  Paths(table[n], n)'
  BY PathKept DEF Paths

-----------------------------------------------------------------------------
(* Every step keeps the invariant *)

\* Steps that handle nothing and add no copy to the air.
LEMMA QuietTree ==
    ASSUME TreeInv, handled' = handled, air' \subseteq air, Within',
           \A n \in Node : Paths(table'[n], n)
    PROVE  TreeInv'
<1>1. Carried'
  BY DEF TreeInv, Carried
<1>2. ReverseRouteIsAPath'
  BY PathsKept, PathsOfTablesPrime
<1> QED BY <1>1, <1>2 DEF TreeInv

LEMMA OriginateTree ==
    ASSUME TInv, TreeInv, Typed', Within', NEW n \in Node, NEW dst \in Node,
           Originate(n, dst), now' = now
    PROVE  TreeInv'
<1>1. now \in Nat /\ table \in [Node -> Table] /\ Purged(n) \in Table
  BY NowTyped, PurgeTyped DEF TInv, Typed, Purged
<1>2. PICK k \in handled' : /\ handled' = handled \cup {k}
                            /\ k.node = n /\ k.origin = n /\ k.id = requestId[n] + 1
                            /\ k.hop = 0
  <2> DEFINE r == [node |-> n, origin |-> n, id |-> requestId[n] + 1, from |-> n,
                   hop |-> 0, at |-> now, wants |-> NewRreq(n, dst).dstSeqno]
  <2>1. handled' = handled \cup {r}
    BY DEF Originate
  <2>2. r.node = n /\ r.origin = n /\ r.id = requestId[n] + 1 /\ r.hop = 0
    OBVIOUS
  <2> HIDE DEF r
  <2> QED BY <2>1, <2>2
<1>3. Carried'
  <2>1. PICK heard \in SUBSET (Node \ {n}) :
            air' = air \cup Copies(n, NewRreq(n, dst), heard)
    BY DEF Originate
  <2>2. \A c \in Copies(n, NewRreq(n, dst), heard) :
            /\ c.from = n /\ c.rreq.origin = n /\ c.rreq.id = requestId[n] + 1
            /\ c.rreq.hopCount = 0
    BY DEF Copies, NewRreq
  <2> QED BY <1>2, <2>1, <2>2 DEF Carried, TreeInv
<1>4. ReverseRouteIsAPath'
  <2> SUFFICES ASSUME NEW p \in Node PROVE Paths(table[p], p)'
    BY PathsOfTablesPrime
  <2>1. Paths(table[p], p)
    BY PathsOfTables DEF TreeInv
  <2>2. table' = [table EXCEPT ![n] = Searching(Purged(n), dst)]
    BY DEF Originate
  <2>3. CASE p # n
    BY <1>1, <1>2, <2>1, <2>2, <2>3, PathsKept
  <2>4. CASE p = n
    <3>1. Paths(Purged(n), n)
      BY <1>1, <2>1, <2>4, PurgeKeepsPaths DEF Purged
    <3>2. Paths(Searching(Purged(n), dst), n)
      BY <1>1, <3>1, SearchingKeepsPaths
    <3> QED BY <1>1, <1>2, <2>2, <2>4, <3>2, PathsKept
  <2> QED BY <2>3, <2>4
<1> QED BY <1>3, <1>4 DEF TreeInv

\* The copies added by whatever becomes of an RREQ carry the hop count its
\* handler has.
LEMMA RelayedHops ==
    ASSUME Typed, NEW n \in Node, NEW m \in air, NEW t,
           AnswerAsDestination(n, m) \/ ForwardRReq(n, m, t)
    PROVE  \A c \in air' : c \in air \/ /\ c.from = n
                                        /\ c.rreq.origin = m.rreq.origin
                                        /\ c.rreq.id = m.rreq.id
                                        /\ c.rreq.hopCount = (m.rreq.hopCount + 1) % 256
<1>1. m.rreq \in Rreq
  BY DEF Typed, TypeOK
<1> DEFINE a == Advanced(m)
<1>2. /\ a \in Rreq /\ a.origin = m.rreq.origin /\ a.id = m.rreq.id
      /\ a.hopCount = (m.rreq.hopCount + 1) % 256
  <2>1. a.hopCount = (m.rreq.hopCount + 1) % 256
    BY <1>1 DEF Rreq, Advanced
  <2> QED BY <2>1, AdvancedTyped
<1>3. ASSUME NEW r, Relay(n, m, r)
      PROVE  \A c \in air' : c \in air \/ (c.from = n /\ c.rreq = r)
  BY <1>3 DEF Relay, Copies
<1>4. CASE AnswerAsDestination(n, m)
  BY <1>4 DEF AnswerAsDestination
<1>5. ASSUME NEW rt, DropLoop(m, rt) \/ AnswerAsIntermediate(n, m, rt)
      PROVE  air' \subseteq air
  BY <1>5 DEF DropLoop, AnswerAsIntermediate
<1>6. ASSUME NEW rt, RelayFresher(n, m, rt)
      PROVE  \A c \in air' : c \in air \/ /\ c.from = n
                                          /\ c.rreq.origin = m.rreq.origin
                                          /\ c.rreq.id = m.rreq.id
                                          /\ c.rreq.hopCount = (m.rreq.hopCount + 1) % 256
  <2> DEFINE r == [a EXCEPT !.dstSeqno = rt.seqNo, !.unknownSeqno = FALSE]
  <2>1. Relay(n, m, r)
    BY <1>6 DEF RelayFresher
  <2> HIDE DEF a
  <2>2. r.origin = a.origin /\ r.id = a.id /\ r.hopCount = a.hopCount
    BY <1>2 DEF Rreq
  <2> HIDE DEF r
  <2> QED BY <1>2, <1>3, <2>1, <2>2
<1>7. CASE RelayUnchanged(n, m, t)
  <2>1. Relay(n, m, a)
    BY <1>7 DEF RelayUnchanged
  <2> HIDE DEF a
  <2> QED BY <1>2, <1>3, <2>1
<1>8. CASE ForwardRReq(n, m, t)
  <2>1. \/ DropLoop(m, t[m.rreq.dst]) \/ AnswerAsIntermediate(n, m, t[m.rreq.dst])
        \/ RelayFresher(n, m, t[m.rreq.dst]) \/ RelayUnchanged(n, m, t)
    BY <1>8 DEF ForwardRReq
  <2> QED BY <1>5, <1>6, <1>7, <2>1
<1> QED BY <1>4, <1>8

LEMMA HandleTree ==
    ASSUME TInv, FloodInv, TreeInv, Typed', Within', NEW n \in Node, NEW m \in air,
           HandleRReq(n, m), now' = now
    PROVE  TreeInv'
<1> DEFINE o == m.rreq.origin
           i == m.rreq.id
<1>1. m.rreq \in Rreq /\ m.from \in Node
  BY DEF TInv, Typed, TypeOK
<1>2. PICK hop \in 0 .. 255 : hop = (m.rreq.hopCount + 1) % 256
  BY <1>1 DEF Rreq
<1>3. now \in Nat /\ table \in [Node -> Table] /\ Purged(n) \in Table
  BY NowTyped, PurgeTyped DEF TInv, Typed, Purged
<1>4. PICK k \in handled' : /\ handled' = handled \cup {k}
                            /\ k.node = n /\ k.origin = o /\ k.id = i /\ k.from = m.from
                            /\ k.hop = hop /\ k.at = now
  <2> DEFINE r == [node |-> n, origin |-> o, id |-> i, from |-> m.from, hop |-> hop,
                   at |-> now, wants |-> m.rreq.dstSeqno]
  <2>1. handled' = handled \cup {r}
    BY <1>2 DEF HandleRReq
  <2>2. /\ r.node = n /\ r.origin = o /\ r.id = i /\ r.from = m.from
        /\ r.hop = hop /\ r.at = now
    OBVIOUS
  <2> HIDE DEF r
  <2> QED BY <2>1, <2>2
<1>5. PICK g \in handled : /\ g.node = m.from /\ g.origin = o /\ g.id = i
                           /\ g.hop = m.rreq.hopCount
  BY DEF TreeInv, Carried
<1>6. g.at =< now
  BY DEF FloodInv, PastOnly
<1>7. Carried'
  <2>1. AnswerAsDestination(n, m) \/ ForwardRReq(n, m, TableAfter(n, m))
    BY DEF HandleRReq
  <2>2. \A c \in air' : c \in air \/ /\ c.from = n /\ c.rreq.origin = o /\ c.rreq.id = i
                                     /\ c.rreq.hopCount = hop
    BY <1>2, <2>1, RelayedHops DEF TInv
  <2> HIDE DEF o, i
  <2> QED BY <1>4, <2>2 DEF Carried, TreeInv
<1>8. ReverseRouteIsAPath'
  <2> SUFFICES ASSUME NEW p \in Node PROVE Paths(table[p], p)'
    BY PathsOfTablesPrime
  <2>1. Paths(table[p], p)
    BY PathsOfTables DEF TreeInv
  <2>2. table' = [table EXCEPT ![n] = TableAfter(n, m)]
    BY DEF HandleRReq
  <2>3. CASE p # n
    BY <1>3, <1>4, <2>1, <2>2, <2>3, PathsKept
  <2>4. CASE p = n
    <3>1. PICK w : w = WithReverseRoute(Purged(n), m.from, m.rreq, hop)
      OBVIOUS
    <3>2. PICK t : t = TableAfter(n, m)
      OBVIOUS
    <3>3. Paths(Purged(n), n)
      BY <1>3, <2>1, <2>4, PurgeKeepsPaths DEF Purged
    <3>4. Written(Purged(n), w, o, m.from, hop)
      BY <1>1, <1>3, <3>1, ReverseRouteWritten
    <3>5. t = Purge(w, now, DeletePeriod) /\ w \in Table
      <4>1. t = Purge(w, now, DeletePeriod)
        BY <1>2, <3>1, <3>2 DEF TableAfter
      <4>2. w \in Table
        BY <1>1, <1>3, <3>1, WithReverseRouteTyped
      <4> QED BY <4>1, <4>2
    <3>6. \A d \in DOMAIN t : /\ d \in DOMAIN w
                              /\ t[d].nextHop = w[d].nextHop /\ t[d].hops = w[d].hops
      BY <1>3, <3>5, PurgeKeepsRoutes
    <3>7. Path(n, o, m.from, hop)'
      <4> HIDE DEF o, i
      <4> QED BY <1>4, <1>5, <1>6, <1>2 DEF Path
    <3>8. \A d \in DOMAIN t : t[d].nextHop # NoNode => Path(n, d, t[d].nextHop, t[d].hops)'
      <4> SUFFICES ASSUME NEW d \in DOMAIN t, t[d].nextHop # NoNode
                   PROVE  Path(n, d, t[d].nextHop, t[d].hops)'
        OBVIOUS
      <4>1. CASE d = o
        BY <3>4, <3>6, <3>7, <4>1 DEF Written
      <4>2. CASE d # o
        <5>1. /\ d \in DOMAIN Purged(n)
              /\ t[d].nextHop = Purged(n)[d].nextHop /\ t[d].hops = Purged(n)[d].hops
          BY <3>4, <3>6, <4>2 DEF Written
        <5>2. Path(n, d, t[d].nextHop, t[d].hops)
          BY <3>3, <5>1 DEF Paths
        <5> QED BY <1>4, <5>2, PathKept
      <4> QED BY <4>1, <4>2
    <3>9. table'[n] = t
      BY <1>3, <2>2, <3>2
    <3> QED BY <2>4, <3>8, <3>9 DEF Paths
  <2> QED BY <2>3, <2>4
<1> QED BY <1>7, <1>8 DEF TreeInv

LEMMA RecvRReqTree ==
    ASSUME TInv, TInv', FloodInv, TreeInv, Within', NEW n \in Node, NEW m \in air,
           RecvRReq(n, m)
    PROVE  TreeInv'
<1>1. now \in Nat /\ table \in [Node -> Table]
  BY NowTyped DEF TInv, Typed
<1>2. ASSUME table' = [table EXCEPT ![n] = Purged(n)], air' = air \ {m},
             handled' = handled
      PROVE  TreeInv'
  <2>1. ASSUME NEW p \in Node PROVE Paths(table'[p], p)
    <3>1. Paths(table[p], p)
      BY PathsOfTables DEF TreeInv
    <3>2. Paths(Purge(table[p], now, DeletePeriod), p)
      BY <1>1, <3>1, PurgeKeepsPaths
    <3> QED BY <1>1, <1>2, <3>1, <3>2 DEF Purged
  <2> QED BY <1>2, <2>1, QuietTree
<1>3. CASE IgnoreBlacklisted(n, m)
  BY <1>2, <1>3 DEF IgnoreBlacklisted
<1>4. CASE IgnoreDuplicate(n, m)
  BY <1>2, <1>4 DEF IgnoreDuplicate
<1>5. CASE HandleRReq(n, m)
  <2>1. now' = now
    BY DEF RecvRReq
  <2> QED BY <1>5, <2>1, HandleTree DEF TInv
<1> QED BY <1>3, <1>4, <1>5 DEF RecvRReq

LEMMA WithinKept == TInv /\ Within /\ [Next]_vars => Within'
<1> SUFFICES ASSUME TInv, Within, [Next]_vars, NEW p \in Node
             PROVE  asked'[p] =< MaxRequests[p]
  BY DEF Within
<1>1. asked \in [Node -> Nat] /\ MaxRequests[p] \in Nat /\ asked[p] =< MaxRequests[p]
  BY BoundAssumption DEF TInv, Typed, TypeOK, RequestId, Within
<1>2. ASSUME NEW n \in Node, NEW dst \in Node, SendRequest(n, dst)
      PROVE  asked'[p] =< MaxRequests[p]
  <2>1. asked[n] < MaxRequests[n] /\ asked' = [asked EXCEPT ![n] = @ + 1]
    BY <1>2 DEF SendRequest
  <2>2. MaxRequests[n] \in Nat
    BY BoundAssumption
  <2> QED BY <1>1, <2>1, <2>2
<1>3. ASSUME asked' = asked PROVE asked'[p] =< MaxRequests[p]
  BY <1>1, <1>3
<1> QED
  BY <1>2, <1>3 DEF Next, SendDeferredRequest, RreqRateLimitTimerExpire, RecvRReq,
     AckTimerExpire, Tick, vars

LEMMA InitTreeInv == Init => TreeInv
  BY BoundAssumption DEF Init, TreeInv, Carried, Within, ReverseRouteIsAPath

LEMMA StepTreeInv ==
    TInv /\ TInv' /\ FloodInv /\ TreeInv /\ [Next]_vars => TreeInv'
<1> SUFFICES ASSUME TInv, TInv', FloodInv, TreeInv, [Next]_vars PROVE TreeInv'
  OBVIOUS
<1>1. Within' /\ \A p \in Node : Paths(table[p], p)
  BY WithinKept, PathsOfTables DEF TreeInv
<1>2. ASSUME NEW n \in Node, NEW dst \in Node, NEW waiting, now' = now,
             Originate(n, dst) \/ Defer(n, dst, waiting)
      PROVE  TreeInv'
  <2>1. CASE Originate(n, dst)
    BY <1>1, <1>2, <2>1, OriginateTree DEF TInv
  <2>2. CASE Defer(n, dst, waiting)
    BY <1>1, <2>2, QuietTree DEF Defer
  <2> QED BY <1>2, <2>1, <2>2
<1>3. ASSUME NEW n \in Node, NEW dst \in Node, SendRequest(n, dst) PROVE TreeInv'
  BY <1>2, <1>3 DEF SendRequest
<1>4. ASSUME NEW n \in Node, SendDeferredRequest(n) PROVE TreeInv'
  <2> DEFINE first == deferred[n]
             dst == Head(first)
  <2>1. first \in Seq(Node \ {n}) /\ Len(first) > 0
    BY <1>4, DueCall
  <2>2. now' = now /\ (Originate(n, dst) \/ Defer(n, dst, Tail(first)))
    BY <1>4 DEF SendDeferredRequest
  <2> HIDE DEF first
  <2>3. dst \in Node
    BY <2>1, HeadTailProperties
  <2> HIDE DEF dst
  <2> QED BY <1>2, <2>2, <2>3
<1>5. CASE \E n \in Node : RreqRateLimitTimerExpire(n)
  BY <1>1, <1>5, QuietTree DEF RreqRateLimitTimerExpire
<1>6. ASSUME NEW n \in Node, NEW m \in air, RecvRReq(n, m) PROVE TreeInv'
  BY <1>1, <1>6, RecvRReqTree
<1>7. ASSUME NEW n \in Node, NEW nb \in Node, AckTimerExpire(n, nb) PROVE TreeInv'
  <2>1. /\ table' = [table EXCEPT ![n] = MarkLinkAsUnidirectional(@, nb)]
        /\ UNCHANGED <<air, handled>>
    BY <1>7 DEF AckTimerExpire
  <2>2. ASSUME NEW p \in Node PROVE Paths(table'[p], p)
    <3>1. table \in [Node -> Table]
      BY DEF TInv, Typed
    <3>2. Paths(MarkLinkAsUnidirectional(table[p], nb), p)
      BY <1>1, <3>1, MarkKeepsPaths
    <3> QED BY <1>1, <2>1, <3>1, <3>2
  <2> QED BY <1>1, <2>1, <2>2, QuietTree
<1>8. CASE Tick
  BY <1>1, <1>8, QuietTree DEF Tick
<1>9. CASE UNCHANGED vars
  BY <1>1, <1>9, QuietTree DEF vars
<1> QED BY <1>3, <1>4, <1>5, <1>6, <1>7, <1>8, <1>9 DEF Next

LEMMA AlwaysTreeInv == Spec => [](TInv /\ FloodInv /\ TreeInv)
<1>1. Init => TInv /\ FloodInv /\ TreeInv
  BY InitTInv, InitFloodInv, InitTreeInv
<1>2. (TInv /\ FloodInv /\ TreeInv) /\ [Next]_vars => (TInv /\ FloodInv /\ TreeInv)'
  BY StepTInv, StepFloodInv, StepTreeInv
<1> QED BY <1>1, <1>2, PTL DEF Spec

\* Every reverse route is one hop of a path some RREQ took, for any number of
\* nodes and any loss, delay and reordering.
THEOREM ReverseRoutesArePaths == Spec => []ReverseRouteIsAPath
<1>1. TInv /\ FloodInv /\ TreeInv => ReverseRouteIsAPath
  BY DEF TreeInv
<1> QED BY <1>1, AlwaysTreeInv, PTL

-----------------------------------------------------------------------------
(* How long a reverse route stays *)

\* The last moment an answer to h may come.
Until(h) == h.at + 2 * NetTraversalTime - 2 * h.hop * NodeTraversalTime

\* The table t has a route to d up to the moment last.
Serves(t, d, last) ==
    now =< last => d \in DOMAIN t /\ t[d].lifeTime >= last

\* The table u serves whatever t serves.
Outlasts(t, u) == \A d \in Node, last \in Int : Serves(t, d, last) => Serves(u, d, last)

LEMMA UntilTyped ==
    ASSUME NEW h \in Handling
    PROVE  Until(h) \in Int
  BY TimeAssumption DEF Until, Handling

\* The purge takes or touches expired entries only.
LEMMA PurgeOutlasts ==
    ASSUME NEW t \in Table, now \in Nat
    PROVE  Outlasts(t, Purge(t, now, DeletePeriod))
<1> DEFINE p == Purge(t, now, DeletePeriod)
<1> SUFFICES ASSUME NEW d \in Node, NEW last \in Int, Serves(t, d, last), now =< last
             PROVE  d \in DOMAIN p /\ p[d].lifeTime >= last
  BY DEF Outlasts, Serves
<1>1. d \in DOMAIN t /\ t[d].lifeTime >= last
  BY DEF Serves
<1>2. t[d].lifeTime \in Int
  BY <1>1, TableElim DEF Entry
<1>3. ~Expired(t[d], now)
  BY <1>1, <1>2 DEF Expired
<1>4. d \in DOMAIN p /\ p[d] = t[d]
  BY <1>1, <1>3 DEF Purge
<1> QED BY <1>1, <1>4

\* An entry written anew with the lifetime it had, or more, serves as before.
LEMMA KeptOutlasts ==
    ASSUME NEW t \in Table, NEW u,
           \A d \in DOMAIN t : d \in DOMAIN u /\ u[d].lifeTime \in Int
                               /\ u[d].lifeTime >= t[d].lifeTime
    PROVE  Outlasts(t, u)
<1> SUFFICES ASSUME NEW d \in Node, NEW last \in Int, Serves(t, d, last), now =< last
             PROVE  d \in DOMAIN u /\ u[d].lifeTime >= last
  BY DEF Outlasts, Serves
<1>1. d \in DOMAIN t /\ t[d].lifeTime >= last
  BY DEF Serves
<1>2. t[d].lifeTime \in Int
  BY <1>1, TableElim DEF Entry
<1> QED BY <1>1, <1>2

LEMMA OutlastsTransitive ==
    ASSUME NEW t, NEW u, NEW w, Outlasts(t, u), Outlasts(u, w)
    PROVE  Outlasts(t, w)
  BY DEF Outlasts

LEMMA MarkOutlasts ==
    ASSUME NEW t \in Table, NEW nb
    PROVE  Outlasts(t, MarkLinkAsUnidirectional(t, nb))
<1> DEFINE u == MarkLinkAsUnidirectional(t, nb)
<1>1. ASSUME NEW d \in DOMAIN t
      PROVE  d \in DOMAIN u /\ u[d].lifeTime = t[d].lifeTime /\ t[d].lifeTime \in Int
  <2>1. t[d] \in Entry
    BY TableElim
  <2> QED BY <2>1 DEF MarkLinkAsUnidirectional, Entry
<1> HIDE DEF u
<1> QED BY <1>1, KeptOutlasts DEF u

\* A new entry takes no other's place.
LEMMA InsertOutlasts ==
    ASSUME NEW t \in Table, NEW d, NEW e
    PROVE  Outlasts(t, Insert(t, d, e))
<1>1. \A x \in DOMAIN t : x \in DOMAIN Insert(t, d, e) /\ Insert(t, d, e)[x] = t[x]
                          /\ t[x].lifeTime \in Int
  BY TableElim DEF Insert, Entry
<1> QED BY <1>1, KeptOutlasts

LEMMA SearchingOutlasts ==
    ASSUME NEW t \in Table, NEW dst \in Node, now \in Nat
    PROVE  Outlasts(t, Searching(t, dst))
<1>1. CASE dst \in DOMAIN t
  <2> DEFINE e == [t[dst] EXCEPT !.flag = "IN_SEARCH"]
  <2>1. t[dst] \in Entry /\ \A d \in DOMAIN t : t[d].lifeTime \in Int
    BY <1>1, TableElim DEF Entry
  <2>2. e.lifeTime = t[dst].lifeTime
    BY <2>1 DEF Entry
  <2>3. Searching(t, dst) = Update(t, dst, e)
    BY <1>1 DEF Searching
  <2> HIDE DEF e
  <2>4. \A d \in DOMAIN t : /\ d \in DOMAIN Update(t, dst, e)
                            /\ Update(t, dst, e)[d].lifeTime = t[d].lifeTime
    BY <2>2 DEF Update
  <2> QED BY <2>1, <2>3, <2>4, KeptOutlasts
<1>2. CASE dst \notin DOMAIN t
  <2> DEFINE p == Purge(t, now, DeletePeriod)
             e == [NewEntry(FALSE, 0, 0, NoNode, now) EXCEPT !.flag = "IN_SEARCH"]
  <2>1. Searching(t, dst) = Insert(p, dst, e)
    BY <1>2 DEF Searching, AddRoute
  <2>2. p \in Table /\ Outlasts(t, p)
    BY PurgeTyped, PurgeOutlasts
  <2> HIDE DEF p, e
  <2> QED BY <2>1, <2>2, InsertOutlasts, OutlastsTransitive
<1> QED BY <1>1, <1>2

\* The reverse route is written for the time its RREQ needs, or keeps a longer one.
LEMMA ReverseRouteServes ==
    ASSUME NEW t \in Table, NEW src \in Node, NEW rreq \in Rreq, NEW hop \in 0 .. 255,
           now \in Nat
    PROVE  /\ Outlasts(t, WithReverseRoute(t, src, rreq, hop))
           /\ Serves(WithReverseRoute(t, src, rreq, hop), rreq.origin, ReverseLifeTime(hop))
<1> DEFINE o == rreq.origin
           w == WithReverseRoute(t, src, rreq, hop)
           life == ReverseLifeTime(hop)
<1>1. life \in Int
  BY ReverseLifeTimeTyped
<1> HIDE DEF life
<1>2. CASE o \in DOMAIN t
  <2> DEFINE e == t[o]
             top == Max2(life, e.lifeTime)
             f == [e EXCEPT !.seqNo = ReverseSeqNo(e, rreq), !.validSeqNo = TRUE,
                            !.nextHop = src, !.hops = hop, !.lifeTime = Max2(life, @)]
  <2>1. e \in Entry /\ \A d \in DOMAIN t : t[d].lifeTime \in Int
    BY <1>2, TableElim DEF Entry
  <2>2. w = Update(t, o, f)
    BY <1>2 DEF WithReverseRoute, life
  <2>3. f.lifeTime = top
    BY <2>1 DEF Entry
  <2>4. top \in Int /\ top >= life /\ top >= e.lifeTime
    BY <1>1, <2>1 DEF Max2, Entry
  <2> HIDE DEF f, top, o, w
  <2>5. \A d \in DOMAIN t : /\ d \in DOMAIN w
                            /\ w[d].lifeTime = IF d = o THEN top ELSE t[d].lifeTime
    BY <2>2, <2>3 DEF Update
  <2>6. \A d \in DOMAIN t : /\ d \in DOMAIN w /\ w[d].lifeTime \in Int
                            /\ w[d].lifeTime >= t[d].lifeTime
    BY <2>1, <2>4, <2>5
  <2>7. Outlasts(t, w)
    BY <2>6, KeptOutlasts
  <2>8. Serves(w, o, life)
    BY <1>2, <2>4, <2>5 DEF Serves
  <2> QED BY <2>7, <2>8 DEF w, o, life
<1>3. CASE o \notin DOMAIN t
  <2> DEFINE p == Purge(t, now, DeletePeriod)
             e == NewEntry(TRUE, rreq.originSeqno, hop, src, life)
  <2>1. w = Insert(p, o, e)
    BY <1>3 DEF WithReverseRoute, AddRoute, life
  <2>2. p \in Table /\ Outlasts(t, p) /\ o \notin DOMAIN p
    BY <1>3, PurgeTyped, PurgeOutlasts
  <2>3. e.lifeTime = life
    BY DEF NewEntry
  <2> HIDE DEF p, e, o, w
  <2>4. o \in DOMAIN w /\ w[o] = e
    BY <2>1, <2>2 DEF Insert
  <2>5. Outlasts(t, w)
    BY <2>1, <2>2, InsertOutlasts, OutlastsTransitive
  <2>6. Serves(w, o, life)
    BY <1>1, <2>3, <2>4 DEF Serves
  <2> QED BY <2>5, <2>6 DEF w, o, life
<1> QED BY <1>2, <1>3

LEMMA TableAfterServes ==
    ASSUME Typed, NEW n \in Node, NEW m \in air
    PROVE  /\ Outlasts(table[n], TableAfter(n, m))
           /\ Serves(TableAfter(n, m), m.rreq.origin,
                     ReverseLifeTime((m.rreq.hopCount + 1) % 256))
<1>1. m.rreq \in Rreq /\ m.from \in Node /\ m.rreq.origin \in Node
  BY AirTyped
<1>2. PICK hop \in 0 .. 255 : hop = (m.rreq.hopCount + 1) % 256
  BY <1>1 DEF Rreq
<1>3. now \in Nat /\ table[n] \in Table
  BY NowTyped DEF Typed
<1>4. PICK p : p = Purged(n)
  OBVIOUS
<1>5. p \in Table /\ Outlasts(table[n], p)
  BY <1>3, <1>4, PurgeTyped, PurgeOutlasts DEF Purged
<1>6. PICK w : w = WithReverseRoute(p, m.from, m.rreq, hop)
  OBVIOUS
<1>7. w \in Table /\ Outlasts(p, w) /\ Serves(w, m.rreq.origin, ReverseLifeTime(hop))
  BY <1>1, <1>3, <1>5, <1>6, WithReverseRouteTyped, ReverseRouteServes
<1>8. TableAfter(n, m) = Purge(w, now, DeletePeriod)
  BY <1>2, <1>4, <1>6 DEF TableAfter
<1>9. Outlasts(w, TableAfter(n, m))
  BY <1>3, <1>7, <1>8, PurgeOutlasts
<1>10. Serves(TableAfter(n, m), m.rreq.origin, ReverseLifeTime(hop))
  BY <1>1, <1>3, <1>7, <1>9, ReverseLifeTimeTyped DEF Outlasts
<1> QED BY <1>2, <1>5, <1>7, <1>9, <1>10, OutlastsTransitive

\* No step that leaves the clock alone takes a route away before its time.
LEMMA StepOutlasts ==
    ASSUME TInv, Next, ~Tick, NEW p \in Node
    PROVE  Outlasts(table[p], table'[p])
<1>1. now \in Nat /\ table \in [Node -> Table] /\ Purged(p) \in Table
  BY NowTyped, PurgeTyped DEF TInv, Typed, Purged
<1>2. Outlasts(table[p], Purged(p)) /\ Outlasts(table[p], table[p])
  BY <1>1, PurgeOutlasts DEF Purged, Outlasts
<1>3. ASSUME NEW n \in Node, NEW dst \in Node, NEW waiting,
             Originate(n, dst) \/ Defer(n, dst, waiting)
      PROVE  Outlasts(table[p], table'[p])
  <2>1. CASE Originate(n, dst)
    <3>1. table' = [table EXCEPT ![n] = Searching(Purged(n), dst)]
      BY <2>1 DEF Originate
    <3>2. Outlasts(table[p], Searching(Purged(p), dst))
      BY <1>1, <1>2, SearchingOutlasts, OutlastsTransitive
    <3> QED BY <1>1, <1>2, <3>1, <3>2
  <2>2. CASE Defer(n, dst, waiting)
    BY <1>2, <2>2 DEF Defer
  <2> QED BY <1>3, <2>1, <2>2
<1>4. ASSUME NEW n \in Node, NEW dst \in Node, SendRequest(n, dst)
      PROVE  Outlasts(table[p], table'[p])
  BY <1>3, <1>4 DEF SendRequest
<1>5. ASSUME NEW n \in Node, SendDeferredRequest(n)
      PROVE  Outlasts(table[p], table'[p])
  <2> DEFINE first == deferred[n]
             dst == Head(first)
  <2>1. first \in Seq(Node \ {n}) /\ Len(first) > 0
    BY <1>5, DueCall
  <2>2. Originate(n, dst) \/ Defer(n, dst, Tail(first))
    BY <1>5 DEF SendDeferredRequest
  <2> HIDE DEF first
  <2>3. dst \in Node
    BY <2>1, HeadTailProperties
  <2> HIDE DEF dst
  <2> QED BY <1>3, <2>2, <2>3
<1>6. ASSUME NEW n \in Node, NEW m \in air, RecvRReq(n, m)
      PROVE  Outlasts(table[p], table'[p])
  <2>1. \/ table' = [table EXCEPT ![n] = Purged(n)]
        \/ table' = [table EXCEPT ![n] = TableAfter(n, m)]
    BY <1>6 DEF RecvRReq, IgnoreBlacklisted, IgnoreDuplicate, HandleRReq
  <2>2. Outlasts(table[n], TableAfter(n, m))
    BY TableAfterServes DEF TInv
  <2> QED BY <1>1, <1>2, <2>1, <2>2
<1>7. ASSUME NEW n \in Node, NEW nb \in Node, AckTimerExpire(n, nb)
      PROVE  Outlasts(table[p], table'[p])
  <2>1. table' = [table EXCEPT ![n] = MarkLinkAsUnidirectional(@, nb)]
    BY <1>7 DEF AckTimerExpire
  <2>2. Outlasts(table[p], MarkLinkAsUnidirectional(table[p], nb))
    BY <1>1, MarkOutlasts
  <2> QED BY <1>1, <1>2, <2>1, <2>2
<1>8. CASE \E n \in Node : RreqRateLimitTimerExpire(n)
  BY <1>2, <1>8 DEF RreqRateLimitTimerExpire
<1> QED BY <1>4, <1>5, <1>6, <1>7, <1>8 DEF Next

\* What a step handles beyond the handled RREQs, it handles now; unless the node
\* is the originator its table then serves the answer.
LEMMA NewIsServed ==
    ASSUME TInv, Next, ~Tick, NEW k \in handled' \ handled, k.node # k.origin
    PROVE  Serves(table'[k.node], k.origin, Until(k))
<1>1. table \in [Node -> Table]
  BY DEF TInv, Typed
<1>2. ASSUME NEW n \in Node, NEW dst, NEW waiting, Originate(n, dst) \/ Defer(n, dst, waiting)
      PROVE  FALSE
  <2> DEFINE r == [node |-> n, origin |-> n, id |-> requestId[n] + 1, from |-> n,
                   hop |-> 0, at |-> now, wants |-> NewRreq(n, dst).dstSeqno]
  <2>1. handled' = handled \/ handled' = handled \cup {r}
    BY <1>2 DEF Originate, Defer
  <2> QED BY <2>1
<1>3. ASSUME NEW n \in Node, NEW m \in air, RecvRReq(n, m)
      PROVE  Serves(table'[k.node], k.origin, Until(k))
  <2> DEFINE hop == (m.rreq.hopCount + 1) % 256
             r == [node |-> n, origin |-> m.rreq.origin, id |-> m.rreq.id,
                   from |-> m.from, hop |-> hop, at |-> now, wants |-> m.rreq.dstSeqno]
  <2>1. /\ table' = [table EXCEPT ![n] = TableAfter(n, m)]
        /\ handled' = handled \cup {r}
    BY <1>3 DEF RecvRReq, IgnoreBlacklisted, IgnoreDuplicate, HandleRReq
  <2>2. k.node = n /\ k.origin = m.rreq.origin /\ k.hop = hop /\ k.at = now
    BY <2>1
  <2> HIDE DEF hop
  <2>3. Until(k) = ReverseLifeTime(hop)
    BY <2>2 DEF Until, ReverseLifeTime
  <2>4. Serves(TableAfter(n, m), m.rreq.origin, ReverseLifeTime(hop))
    BY TableAfterServes DEF TInv, hop
  <2> QED BY <1>1, <2>1, <2>2, <2>3, <2>4
<1> QED
  BY <1>2, <1>3 DEF Next, SendRequest, SendDeferredRequest, RreqRateLimitTimerExpire,
     AckTimerExpire

LEMMA ServesAnswers ==
    ReverseRouteOutlastsAnswer <=>
        \A h \in handled : h.node # h.origin => Serves(table[h.node], h.origin, Until(h))
  BY DEF ReverseRouteOutlastsAnswer, Serves, Until

LEMMA ServesAnswersPrime ==
    ReverseRouteOutlastsAnswer' <=>
        \A h \in handled' :
            h.node # h.origin => Serves(table[h.node], h.origin, Until(h))'
  BY DEF ReverseRouteOutlastsAnswer, Serves, Until

\* A reverse route stays, unexpired, as long as the answer to its RREQ may take,
\* for any number of nodes and whatever else the tables go through meanwhile.
THEOREM ReverseRoutesOutlastAnswers == Spec => []ReverseRouteOutlastsAnswer
<1>1. Init => ReverseRouteOutlastsAnswer
  BY DEF Init, ReverseRouteOutlastsAnswer
<1>2. TInv /\ ReverseRouteOutlastsAnswer /\ [Next]_vars => ReverseRouteOutlastsAnswer'
  <2> SUFFICES ASSUME TInv, ReverseRouteOutlastsAnswer, [Next]_vars,
                      NEW h \in handled', h.node # h.origin
               PROVE  Serves(table[h.node], h.origin, Until(h))'
    BY ServesAnswersPrime
  <2>1. now \in Nat
    BY NowTyped DEF TInv
  <2>2. ASSUME h \in handled
        PROVE  /\ h.node \in Node /\ h.origin \in Node /\ Until(h) \in Int
               /\ Serves(table[h.node], h.origin, Until(h))
    <3>1. h \in Handling
      BY <2>2 DEF TInv, Typed, TypeOK
    <3>2. h.node \in Node /\ h.origin \in Node
      BY <3>1 DEF Handling
    <3> QED BY <2>2, <3>1, <3>2, UntilTyped, ServesAnswers
  <2>3. CASE Tick
    <3>1. h \in handled /\ now' = now + 1 /\ table' = table
      BY <2>3 DEF Tick
    <3> QED BY <2>1, <2>2, <3>1 DEF Serves
  <2>4. CASE Next /\ ~Tick
    <3>1. now' = now
      BY <2>4 DEF Next, SendRequest, SendDeferredRequest, RreqRateLimitTimerExpire,
         RecvRReq, AckTimerExpire
    <3>2. Serves(table'[h.node], h.origin, Until(h))
      <4>1. CASE h \in handled
        BY <2>2, <2>4, <4>1, StepOutlasts DEF Outlasts
      <4>2. CASE h \notin handled
        BY <2>4, <4>2, NewIsServed
      <4> QED BY <4>1, <4>2
    <3> QED BY <3>1, <3>2 DEF Serves
  <2>5. CASE UNCHANGED vars
    BY <2>2, <2>5 DEF vars, Serves
  <2> QED BY <2>3, <2>4, <2>5
<1> QED BY <1>1, <1>2, AlwaysTInv, PTL DEF Spec

-----------------------------------------------------------------------------
(* The refinement *)

\* What FloodTree sees of a handling.
Seen(h) == [node |-> h.node, origin |-> h.origin, id |-> h.id, from |-> h.from,
            hop |-> h.hop]

LEMMA OriginateRoots ==
    ASSUME TInv, FloodInv, TInv', Within', NEW n \in Node, NEW dst \in Node,
           Originate(n, dst)
    PROVE  Tree!Next
<1>1. requestId \in [Node -> Nat]
  BY DEF TInv, Typed, TypeOK, RequestId
<1>2. PICK i \in Nat : i = requestId[n] + 1
  BY <1>1
<1> DEFINE r == [node |-> n, origin |-> n, id |-> i, from |-> n, hop |-> 0,
                 at |-> now, wants |-> NewRreq(n, dst).dstSeqno]
<1>3. handled' = handled \cup {r} /\ requestId' = [requestId EXCEPT ![n] = @ + 1]
  BY <1>2 DEF Originate
<1>4. r.node = n /\ r.origin = n /\ r.id = i /\ r.from = n /\ r.hop = 0
  OBVIOUS
<1> HIDE DEF r
<1>5. i \in UNION {1 .. MaxRequests[p] : p \in Node}
  <2>1. i = requestId'[n] /\ asked'[n] = requestId'[n] + Len(deferred'[n])
    BY <1>1, <1>2, <1>3 DEF TInv, NoDiscoveryLost
  <2>2. Len(deferred'[n]) \in Nat /\ asked'[n] \in Nat /\ asked'[n] =< MaxRequests[n]
    BY DEF TInv, Waiting, Typed, TypeOK, RequestId, Within
  <2>3. MaxRequests[n] \in Nat
    BY BoundAssumption
  <2>4. i # 0
    BY <1>1, <1>2
  <2>5. i \in 1 .. MaxRequests[n]
    BY <2>1, <2>2, <2>3, <2>4
  <2> QED BY <2>5
<1>6. \A h \in handled : h.origin = n => h.id < i
  <2> SUFFICES ASSUME NEW h \in handled, h.origin = n PROVE h.id < i
    OBVIOUS
  <2>1. h.id =< requestId[n] /\ h.id \in Nat
    BY DEF FloodInv, PastOnly, TInv, Typed, TypeOK, Handling, RequestId
  <2> QED BY <1>1, <1>2, <2>1
<1>7. Tree!Root(n, i)
  BY <1>3, <1>4, <1>6 DEF Tree!Root
<1> QED BY <1>5, <1>7 DEF Tree!Next

LEMMA HandleJoins ==
    ASSUME TInv, FloodInv, TreeInv, NEW n \in Node, NEW m \in air, HandleRReq(n, m)
    PROVE  Tree!Next
<1> DEFINE o == m.rreq.origin
           i == m.rreq.id
           r == [node |-> n, origin |-> o, id |-> i, from |-> m.from,
                 hop |-> (m.rreq.hopCount + 1) % 256, at |-> now,
                 wants |-> m.rreq.dstSeqno]
<1>1. PICK g \in handled : /\ g.node = m.from /\ g.origin = o /\ g.id = i
                           /\ g.hop = m.rreq.hopCount
  BY DEF TreeInv, Carried
<1>2. handled' = handled \cup {r}
  BY DEF HandleRReq
<1>3. /\ r.node = n /\ r.origin = o /\ r.id = i /\ r.from = m.from
      /\ r.hop = (m.rreq.hopCount + 1) % 256
  OBVIOUS
<1>4. \A h \in handled : ~(h.node = n /\ h.origin = o /\ h.id = i)
  BY PassesOnce DEF HandleRReq
<1> HIDE DEF o, i, r
<1>5. PICK v : v = Seen(g)
  OBVIOUS
<1>6. /\ v.node = g.node /\ v.origin = g.origin /\ v.id = g.id /\ v.hop = g.hop
      /\ v \in {Seen(h) : h \in handled}
  BY <1>5 DEF Seen
<1>7. Tree!Join(n, v)
  BY <1>1, <1>2, <1>3, <1>4, <1>6 DEF Tree!Join
<1> QED BY <1>6, <1>7 DEF Tree!Next, Seen

LEMMA StepTree ==
    TInv /\ FloodInv /\ TreeInv /\ TInv' /\ TreeInv' /\ [Next]_vars
        => [Tree!Next]_({Seen(h) : h \in handled})
<1> SUFFICES ASSUME TInv, FloodInv, TreeInv, TInv', TreeInv', [Next]_vars
             PROVE  Tree!Next \/ handled' = handled
  BY DEF Seen
<1>1. ASSUME NEW n \in Node, NEW dst \in Node, SendRequest(n, dst)
      PROVE  Tree!Next \/ handled' = handled
  BY <1>1, OriginateRoots DEF SendRequest, Defer, TreeInv
<1>2. ASSUME NEW n \in Node, SendDeferredRequest(n)
      PROVE  Tree!Next \/ handled' = handled
  <2> DEFINE first == deferred[n]
             dst == Head(first)
  <2>1. first \in Seq(Node \ {n}) /\ Len(first) > 0
    BY <1>2, DueCall
  <2>2. Originate(n, dst) \/ Defer(n, dst, Tail(first))
    BY <1>2 DEF SendDeferredRequest
  <2> HIDE DEF first
  <2>3. dst \in Node
    BY <2>1, HeadTailProperties
  <2> HIDE DEF dst
  <2> QED BY <2>2, <2>3, OriginateRoots DEF Defer, TreeInv
<1>3. ASSUME NEW n \in Node, NEW m \in air, RecvRReq(n, m)
      PROVE  Tree!Next \/ handled' = handled
  BY <1>3, HandleJoins DEF RecvRReq, IgnoreBlacklisted, IgnoreDuplicate
<1> QED
  BY <1>1, <1>2, <1>3 DEF Next, RreqRateLimitTimerExpire, AckTimerExpire, Tick, vars

\* Route discovery implements FloodTree, for any number of nodes, any timing and
\* any loss.
THEOREM FloodsRefineTrees == Spec => FloodsAreTrees
<1>1. Init => Tree!Init
  BY DEF Init, Tree!Init
<1>2. TInv /\ FloodInv /\ TreeInv /\ TInv' /\ TreeInv' /\ [Next]_vars
        => [Tree!Next]_({[node |-> h.node, origin |-> h.origin, id |-> h.id,
                          from |-> h.from, hop |-> h.hop] : h \in handled})
  BY StepTree DEF Seen
<1> QED BY <1>1, <1>2, AlwaysTreeInv, PTL DEF Spec, FloodsAreTrees, Tree!Spec

-----------------------------------------------------------------------------
(* What a flood is good for: its paths lead back to its originator *)

Members == {[node |-> h.node, origin |-> h.origin, id |-> h.id, from |-> h.from,
             hop |-> h.hop] : h \in handled}

\* v is where w got the RREQ from.
Before(v, w) == v.node = w.from /\ v.origin = w.origin /\ v.id = w.id

JoinedOnce(T) ==
    \A v, w \in T : v.node = w.node /\ v.origin = w.origin /\ v.id = w.id => v = w

Connected(T) == \A w \in T : w.node = w.origin \/ \E v \in T : Before(v, w)

\* However members of the floods T are picked, one of them is an originator or
\* has the RREQ from a node that was not picked.
PathsEnd(T) ==
    \A S \in SUBSET T :
        S # {} => \E w \in S : w.node = w.origin \/ \A v \in S : ~Before(v, w)

Shape(T) == JoinedOnce(T) /\ Connected(T) /\ PathsEnd(T)

\* An originator starts a flood that has no members yet.
LEMMA RootKeepsShape ==
    ASSUME NEW T, Shape(T), NEW k, k.node = k.origin,
           \A v \in T : ~(v.origin = k.origin /\ v.id = k.id)
    PROVE  Shape(T \cup {k})
<1>1. JoinedOnce(T \cup {k})
  BY DEF Shape, JoinedOnce
<1>2. Connected(T \cup {k})
  BY DEF Shape, Connected
<1>3. ASSUME NEW S \in SUBSET (T \cup {k}), S # {}
      PROVE  \E w \in S : w.node = w.origin \/ \A v \in S : ~Before(v, w)
  <2>1. CASE k \in S
    BY <2>1
  <2>2. CASE k \notin S
    <3>1. S \in SUBSET T
      BY <2>2
    <3> QED BY <1>3, <3>1 DEF Shape, PathsEnd
  <2> QED BY <2>1, <2>2
<1> QED BY <1>1, <1>2, <1>3 DEF Shape, PathsEnd

\* A new member has no followers: whoever names it as the node before named a
\* member that was there already.
LEMMA JoinKeepsShape ==
    ASSUME NEW T, Shape(T), NEW k, NEW u \in T, Before(u, k),
           \A v \in T : ~(v.node = k.node /\ v.origin = k.origin /\ v.id = k.id)
    PROVE  Shape(T \cup {k})
<1>1. JoinedOnce(T \cup {k})
  BY DEF Shape, JoinedOnce
<1>2. Connected(T \cup {k})
  BY DEF Shape, Connected
<1>3. ASSUME NEW w \in T, Before(k, w) PROVE w.node = w.origin
  <2>1. CASE \E v \in T : Before(v, w)
    <3>1. PICK v \in T : Before(v, w)
      BY <2>1
    <3> QED BY <1>3, <3>1 DEF Before
  <2> QED BY <2>1 DEF Shape, Connected
<1>4. ~Before(k, k)
  BY DEF Before
<1>5. ASSUME NEW S \in SUBSET (T \cup {k}), S # {}
      PROVE  \E w \in S : w.node = w.origin \/ \A v \in S : ~Before(v, w)
  <2>1. CASE S = {k}
    BY <1>4, <2>1
  <2>2. CASE S # {k}
    <3> DEFINE R == S \ {k}
    <3>1. R \in SUBSET T /\ R # {}
      BY <1>5, <2>2
    <3>2. PICK w \in R : w.node = w.origin \/ \A v \in R : ~Before(v, w)
      <4> HIDE DEF R
      <4> QED BY <3>1 DEF Shape, PathsEnd
    <3>3. w \in S /\ w \in T /\ S \subseteq R \cup {k}
      BY <3>1
    <3> HIDE DEF R
    <3> QED BY <1>3, <3>2, <3>3
  <2> QED BY <2>1, <2>2
<1> QED BY <1>1, <1>2, <1>5 DEF Shape, PathsEnd

\* The abstract specification keeps the shape of its trees.
THEOREM TreesHaveShape == FloodsAreTrees => []Shape(Members)
<1>1. Tree!Init => Shape(Members)
  BY DEF Tree!Init, Members, Shape, JoinedOnce, Connected, PathsEnd
<1>2. ASSUME Shape(Members), Tree!Next PROVE Shape(Members)'
  <2> DEFINE T == Members
             U == Members'
  <2>1. Shape(T)
    BY <1>2
  <2>2. ASSUME NEW o \in Node, NEW i \in UNION {1 .. MaxRequests[n] : n \in Node},
               Tree!Root(o, i)
        PROVE  Shape(U)
    <3> DEFINE k == [node |-> o, origin |-> o, id |-> i, from |-> o, hop |-> 0]
    <3>1. i \in Nat
      BY BoundAssumption
    <3>2. U = T \cup {k} /\ \A v \in T : v.origin = o => v.id < i
      BY <2>2 DEF Tree!Root, Members
    <3>3. \A v \in T : ~(v.origin = k.origin /\ v.id = k.id)
      BY <3>1, <3>2
    <3>4. k.node = k.origin
      OBVIOUS
    <3> HIDE DEF k, T, U
    <3> QED BY <2>1, <3>2, <3>3, <3>4, RootKeepsShape
  <2>3. ASSUME NEW n \in Node, NEW v \in T, Tree!Join(n, v)
        PROVE  Shape(U)
    <3> DEFINE k == [node |-> n, origin |-> v.origin, id |-> v.id,
                     from |-> v.node, hop |-> (v.hop + 1) % 256]
    <3>1. /\ U = T \cup {k}
          /\ \A w \in T : ~(w.node = n /\ w.origin = v.origin /\ w.id = v.id)
      BY <2>3 DEF Tree!Join, Members
    <3>2. Before(v, k) /\ \A w \in T : ~(w.node = k.node /\ w.origin = k.origin /\ w.id = k.id)
      BY <3>1 DEF Before
    <3> HIDE DEF k, T, U
    <3> QED BY <2>1, <2>3, <3>1, <3>2, JoinKeepsShape
  <2>4. \/ \E o \in Node, i \in UNION {1 .. MaxRequests[n] : n \in Node} : Tree!Root(o, i)
        \/ \E n \in Node, v \in T : Tree!Join(n, v)
    BY <1>2 DEF Tree!Next, Members
  <2>5. Shape(U)
    <3> HIDE DEF T, U
    <3> QED BY <2>2, <2>3, <2>4
  <2> QED BY <2>5
<1>3. ASSUME Shape(Members), Members' = Members PROVE Shape(Members)'
  BY <1>3 DEF Shape, JoinedOnce, Connected, PathsEnd
<1>4. Shape(Members) /\ [Tree!Next]_Members => Shape(Members)'
  BY <1>2, <1>3
<1> QED BY <1>1, <1>4, PTL DEF FloodsAreTrees, Tree!Spec, Members

\* The reason for reverse routes: whoever follows the copies of an RREQ back, from
\* next hop to next hop, never goes in a circle and comes to its originator, for
\* any number of nodes.  (Hop counts could not tell: they are counted modulo 256.)
THEOREM FloodsLeadBack == Spec => [](Connected(Members) /\ PathsEnd(Members))
<1>1. Shape(Members) => Connected(Members) /\ PathsEnd(Members)
  BY DEF Shape
<1> QED BY <1>1, FloodsRefineTrees, TreesHaveShape, PTL
=============================================================================
