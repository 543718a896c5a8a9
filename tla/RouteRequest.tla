---------------------------- MODULE RouteRequest ----------------------------
(***************************************************************************)
(* Route discovery: RoutingProtocol::SendRequest and RecvRReq on every     *)
(* node, over a radio that loses, delays and reorders.                     *)
(*                                                                         *)
(* A broadcast is heard by any subset of the other nodes (mobility and     *)
(* loss in one choice); a copy that is heard is handed to RecvRReq at most *)
(* HopDelay after it was sent, in any order.  One interface per node.      *)
(* Left out: after a broadcast both handlers start m_htimer if it is not   *)
(* running (offchain-routing.cc 408-415, 565-572); no function is set for  *)
(* that timer, and nothing but this test looks at it.                      *)
(***************************************************************************)
EXTENDS Integers, Sequences, FiniteSets, IdCache, RTable

CONSTANTS
    Node,                  \* addresses of the nodes
    NoNode,                \* Ipv4Address (): the next hop of an entry IN_SEARCH
    DestinationOnlyNodes,  \* nodes configured with DestinationOnly = true
    RreqRateLimit,
    NodeTraversalTime, NetTraversalTime,
    PathDiscoveryTime,     \* lifetime of the entries of m_rreqIdCache
    DeletePeriod,          \* m_badLinkLifetime of the routing table
    HopDelay,              \* bound: the longest a copy stays in the air
    MaxTime,               \* bound: the clock stops here
    MaxRequests,           \* bound: calls of SendRequest, per node
    AskedFor,              \* bound: the <<node, dst>> it is called with
    Unacked                \* bound: <<node, neighbor>> whose RREP_ACKs may be lost

VARIABLES
    now,        \* Simulator::Now ()
    seqNo,      \* m_seqNo, per node
    requestId,  \* m_requestId
    rreqCount,  \* m_rreqCount
    deferred,   \* SendRequest events waiting for the rate limit timer, in order
    due,        \* how many of them the timer has made due
    table,      \* m_routingTable
    cache,      \* m_rreqIdCache
    air,        \* copies of RREQs heard and not yet handled
    asked,      \* history: calls of SendRequest made by the layers above
    handled,    \* history: the RREQs each node let through its filters
    replies     \* history: calls of SendReply and SendReplyByIntermediateNode

vars == <<now, seqNo, requestId, rreqCount, deferred, due, table, cache, air,
          asked, handled, replies>>

\* uint32_t counters, kept below 2^31 by CounterAssumption.
RequestId == Nat

Rreq == [origin : Node, id : RequestId, originSeqno : RequestId, dst : Node,
         dstSeqno : RequestId, unknownSeqno : BOOLEAN, hopCount : 0 .. 255,
         destinationOnly : BOOLEAN]

Entry == [validSeqNo : BOOLEAN, seqNo : RequestId, hops : 0 .. 255,
          nextHop : Node \cup {NoNode}, lifeTime : Int, flag : RouteFlags,
          unidirectional : BOOLEAN]

Handling == [node : Node, origin : Node, id : RequestId, from : Node,
             hop : 0 .. 255, at : Nat, wants : RequestId]

ASSUME NodeAssumption ==
    /\ IsFiniteSet(Node) /\ NoNode \notin Node
    /\ DestinationOnlyNodes \subseteq Node
    /\ Unacked \subseteq Node \X Node

ASSUME TimeAssumption ==
    /\ NodeTraversalTime \in Nat /\ NetTraversalTime \in Nat
    /\ DeletePeriod \in Nat /\ PathDiscoveryTime \in Nat
    /\ HopDelay \in Nat /\ MaxTime \in Nat

\* A uint16_t, which the count it is compared with never leaves.
ASSUME RateAssumption == RreqRateLimit \in Nat

ASSUME BoundAssumption ==
    /\ MaxRequests \in [Node -> Nat]
    /\ AskedFor \subseteq {p \in Node \X Node : p[1] # p[2]}

\* Below 2^31 the signed comparisons of the code are those of the integers.
ASSUME CounterAssumption == \A n \in Node : MaxRequests[n] =< 2147483647

\* The configuration the duplicate filter needs: an entry of the cache outlives
\* a flood.  The defaults give it 2 * NetTraversalTime = 4 * NetDiameter hops.
ASSUME CacheOutlivesFlood == Cardinality(Node) * HopDelay =< PathDiscoveryTime

-----------------------------------------------------------------------------

Init ==
    /\ now = 0
    /\ seqNo = [n \in Node |-> 0]
    /\ requestId = [n \in Node |-> 0]
    /\ rreqCount = [n \in Node |-> 0]
    /\ deferred = [n \in Node |-> <<>>]
    /\ due = [n \in Node |-> 0]
    /\ table = [n \in Node |-> [d \in {} |-> 0]]
    /\ cache = [n \in Node |-> {}]
    /\ air = {}
    /\ asked = [n \in Node |-> 0]
    /\ handled = {}
    /\ replies = {}

\* socket->SendTo (broadcast address): heard by any subset of the others.
Copies(n, rreq, heard) ==
    {[from |-> n, to |-> h, sent |-> now, rreq |-> rreq] : h \in heard}

Purged(n) == Purge(table[n], now, DeletePeriod)

-----------------------------------------------------------------------------
(* SendRequest *)

\* The table after SendRequest: the entry for dst, found or created, IN_SEARCH.
Searching(t, dst) ==
    IF dst \in DOMAIN t
    THEN Update(t, dst, [t[dst] EXCEPT !.flag = "IN_SEARCH"])
    ELSE AddRoute(t, now, DeletePeriod, dst,
                  [NewEntry(FALSE, 0, 0, NoNode, now) EXCEPT !.flag = "IN_SEARCH"])

KnowsSeqNo(t, dst) == dst \in DOMAIN t /\ t[dst].validSeqNo

\* The RREQ n originates for dst, its counters already advanced.
NewRreq(n, dst) ==
    LET t == Purged(n) IN
    [origin |-> n, id |-> requestId[n] + 1, originSeqno |-> seqNo[n] + 1,
     dst |-> dst,
     dstSeqno |-> IF KnowsSeqNo(t, dst) THEN t[dst].seqNo ELSE 0,
     unknownSeqno |-> ~KnowsSeqNo(t, dst), hopCount |-> 0,
     destinationOnly |-> n \in DestinationOnlyNodes]

\* Mutant: one request more than the limit is let through.
AtRateLimitLate(n) == rreqCount[n] > RreqRateLimit

\* Mutant: the request that would reach the limit is put off already.
AtRateLimitEarly(n) == rreqCount[n] + 1 >= RreqRateLimit

AtRateLimit(n) == rreqCount[n] = RreqRateLimit

\* SendRequest when the rate limit allows it.
Originate(n, dst) ==
    /\ ~AtRateLimit(n)
    /\ rreqCount' = [rreqCount EXCEPT ![n] = @ + 1]
    /\ table' = [table EXCEPT ![n] = Searching(Purged(n), dst)]
    /\ seqNo' = [seqNo EXCEPT ![n] = @ + 1]
    /\ requestId' = [requestId EXCEPT ![n] = @ + 1]
    /\ cache' = [cache EXCEPT ![n] =
                    Registered(@, now, PathDiscoveryTime, n, requestId[n] + 1)]
    /\ handled' = handled \cup {[node |-> n, origin |-> n, id |-> requestId[n] + 1,
                                 from |-> n, hop |-> 0, at |-> now,
                                 wants |-> NewRreq(n, dst).dstSeqno]}
    /\ \E heard \in SUBSET (Node \ {n}) :
            air' = air \cup Copies(n, NewRreq(n, dst), heard)

\* Mutant: the call is dropped at the limit.
DeferForgets(n, dst, waiting) ==
    /\ AtRateLimit(n)
    /\ deferred' = [deferred EXCEPT ![n] = waiting]
    /\ UNCHANGED <<rreqCount, table, seqNo, requestId, cache, handled, air>>

\* SendRequest at the limit: the call is put off until after the timer.
Defer(n, dst, waiting) ==
    /\ AtRateLimit(n)
    /\ deferred' = [deferred EXCEPT ![n] = Append(waiting, dst)]
    /\ UNCHANGED <<rreqCount, table, seqNo, requestId, cache, handled, air>>

\* A route is asked for by the layers above (or once more by the retry timer).
SendRequest(n, dst) ==
    /\ asked[n] < MaxRequests[n]
    /\ <<n, dst>> \in AskedFor
    /\ asked' = [asked EXCEPT ![n] = @ + 1]
    /\ \/ Originate(n, dst) /\ UNCHANGED deferred
       \/ Defer(n, dst, deferred[n])
    /\ UNCHANGED <<now, due, replies>>

\* A call put off earlier runs; it may be put off again.
SendDeferredRequest(n) ==
    /\ due[n] > 0
    /\ due' = [due EXCEPT ![n] = @ - 1]
    /\ \/ /\ Originate(n, Head(deferred[n]))
          /\ deferred' = [deferred EXCEPT ![n] = Tail(@)]
       \/ Defer(n, Head(deferred[n]), Tail(deferred[n]))
    /\ UNCHANGED <<now, asked, replies>>

\* External (declared, defined nowhere): resets the count every second.  The
\* calls put off until now run 100 us later.  When it fires is left open.
RreqRateLimitTimerExpire(n) ==
    /\ rreqCount[n] > 0
    /\ due[n] = 0
    /\ rreqCount' = [rreqCount EXCEPT ![n] = 0]
    /\ due' = [due EXCEPT ![n] = Len(deferred[n])]
    /\ UNCHANGED <<now, seqNo, requestId, deferred, table, cache, air, asked,
                   handled, replies>>

-----------------------------------------------------------------------------
(* RecvRReq *)

Blacklisted(n, src) == src \in DOMAIN Purged(n) /\ Purged(n)[src].unidirectional

Max2(a, b) == IF a >= b THEN a ELSE b

\* MinimalLifetime of a reverse route hop hops long.
ReverseLifeTime(hop) == now + 2 * NetTraversalTime - 2 * hop * NodeTraversalTime

\* int32_t (a) - int32_t (b) > 0 for counters below 2^31
Newer(a, b) == a - b > 0

\* Mutant: the number of the RREQ is copied without the comparison.
ReverseSeqNoCopied(rt, rreq) == rreq.originSeqno

\* Mutant: the next number, not the one received.
ReverseSeqNoAhead(rt, rreq) == rreq.originSeqno + 1

\* The sequence number an existing reverse route rt has after the RREQ.
ReverseSeqNo(rt, rreq) ==
    IF rt.validSeqNo /\ ~Newer(rreq.originSeqno, rt.seqNo) THEN rt.seqNo
    ELSE rreq.originSeqno

\* Mutant: an existing reverse route keeps its hop count.
WithReverseRouteOldHops(t, src, rreq, hop) ==
    LET o == rreq.origin IN
    IF o \in DOMAIN t
    THEN Update(t, o, [t[o] EXCEPT !.seqNo = ReverseSeqNo(t[o], rreq),
                                   !.validSeqNo = TRUE, !.nextHop = src,
                                   !.lifeTime = Max2(ReverseLifeTime(hop), @)])
    ELSE AddRoute(t, now, DeletePeriod, o,
                  NewEntry(TRUE, rreq.originSeqno, hop, src, ReverseLifeTime(hop)))

\* Mutant: an entry that is there keeps its lifetime.
WithReverseRouteOldLifeTime(t, src, rreq, hop) ==
    LET o == rreq.origin IN
    IF o \in DOMAIN t
    THEN Update(t, o, [t[o] EXCEPT !.seqNo = ReverseSeqNo(t[o], rreq),
                                   !.validSeqNo = TRUE, !.nextHop = src, !.hops = hop])
    ELSE AddRoute(t, now, DeletePeriod, o,
                  NewEntry(TRUE, rreq.originSeqno, hop, src, ReverseLifeTime(hop)))

\* The reverse route to the originator is created or updated; its flag and its
\* blacklist mark stay what they were.
WithReverseRoute(t, src, rreq, hop) ==
    LET o == rreq.origin IN
    IF o \in DOMAIN t
    THEN Update(t, o, [t[o] EXCEPT !.seqNo = ReverseSeqNo(t[o], rreq),
                                   !.validSeqNo = TRUE, !.nextHop = src,
                                   !.hops = hop,
                                   !.lifeTime = Max2(ReverseLifeTime(hop), @)])
    ELSE AddRoute(t, now, DeletePeriod, o,
                  NewEntry(TRUE, rreq.originSeqno, hop, src, ReverseLifeTime(hop)))

\* The table at every exit of RecvRReq: the lookups that follow the update of
\* the reverse route purge once more.
TableAfter(n, m) ==
    Purge(WithReverseRoute(Purged(n), m.from, m.rreq, (m.rreq.hopCount + 1) % 256),
          now, DeletePeriod)

\* Mutant: the hop count is incremented in a copy that is not the one relayed.
AdvancedNotCounted(m) == m.rreq

\* The RREQ as it leaves the filters, its hop count incremented.
Advanced(m) == [m.rreq EXCEPT !.hopCount = (@ + 1) % 256]

\* Mutant: any valid sequence number will do.
FreshEnoughAny(rt, rreq) == rt.validSeqNo

\* What the node knows of the destination is at least as fresh as the RREQ's.
FreshEnough(rt, rreq) ==
    (rreq.unknownSeqno \/ ~Newer(rreq.dstSeqno, rt.seqNo)) /\ rt.validSeqNo

\* The copy goes to AODV_PORT, declared nowhere: read as the port RREQs go to.
Relay(n, m, rreq) ==
    /\ \E heard \in SUBSET (Node \ {n}) :
            air' = (air \ {m}) \cup Copies(n, rreq, heard)
    /\ UNCHANGED replies

AnswerAsDestination(n, m) ==
    /\ m.rreq.dst = n
    /\ replies' = replies \cup {[by |-> n, origin |-> m.rreq.origin, id |-> m.rreq.id,
                                 dst |-> n, seqNo |-> seqNo[n]]}
    /\ air' = air \ {m}

\* This node's route to the destination leads back to the sender.
DropLoop(m, rt) ==
    /\ rt.nextHop = m.from
    /\ air' = air \ {m}
    /\ UNCHANGED replies

AnswerAsIntermediate(n, m, rt) ==
    /\ rt.nextHop # m.from
    /\ FreshEnough(rt, m.rreq) /\ ~m.rreq.destinationOnly /\ rt.flag = "VALID"
    /\ replies' = replies \cup {[by |-> n, origin |-> m.rreq.origin, id |-> m.rreq.id,
                                 dst |-> m.rreq.dst, seqNo |-> rt.seqNo]}
    /\ air' = air \ {m}

RelayFresher(n, m, rt) ==
    /\ rt.nextHop # m.from
    /\ FreshEnough(rt, m.rreq) /\ (m.rreq.destinationOnly \/ rt.flag # "VALID")
    /\ Relay(n, m, [Advanced(m) EXCEPT !.dstSeqno = rt.seqNo, !.unknownSeqno = FALSE])

RelayUnchanged(n, m, t) ==
    /\ m.rreq.dst \in DOMAIN t =>
            /\ t[m.rreq.dst].nextHop # m.from
            /\ ~FreshEnough(t[m.rreq.dst], m.rreq)
    /\ Relay(n, m, Advanced(m))

ForwardRReq(n, m, t) ==
    /\ m.rreq.dst # n
    /\ \/ /\ m.rreq.dst \in DOMAIN t
          /\ \/ DropLoop(m, t[m.rreq.dst])
             \/ AnswerAsIntermediate(n, m, t[m.rreq.dst])
             \/ RelayFresher(n, m, t[m.rreq.dst])
       \/ RelayUnchanged(n, m, t)

\* The RREQ passes the filters: reverse route, then answer, drop or relay.
HandleRReq(n, m) ==
    /\ ~Blacklisted(n, m.from)
    /\ ~IsDuplicate(cache[n], now, m.rreq.origin, m.rreq.id)
    /\ cache' = [cache EXCEPT ![n] =
                    Registered(@, now, PathDiscoveryTime, m.rreq.origin, m.rreq.id)]
    /\ table' = [table EXCEPT ![n] = TableAfter(n, m)]
    /\ handled' = handled \cup
            {[node |-> n, origin |-> m.rreq.origin, id |-> m.rreq.id, from |-> m.from,
              hop |-> (m.rreq.hopCount + 1) % 256, at |-> now,
              wants |-> m.rreq.dstSeqno]}
    /\ AnswerAsDestination(n, m) \/ ForwardRReq(n, m, TableAfter(n, m))

\* The sender is on the blacklist.
IgnoreBlacklisted(n, m) ==
    /\ Blacklisted(n, m.from)
    /\ table' = [table EXCEPT ![n] = Purged(n)]
    /\ air' = air \ {m}
    /\ UNCHANGED <<cache, handled, replies>>

\* The RREQ was seen before.
IgnoreDuplicate(n, m) ==
    /\ ~Blacklisted(n, m.from)
    /\ IsDuplicate(cache[n], now, m.rreq.origin, m.rreq.id)
    /\ table' = [table EXCEPT ![n] = Purged(n)]
    /\ cache' = [cache EXCEPT ![n] = LiveIds(@, now)]
    /\ air' = air \ {m}
    /\ UNCHANGED <<handled, replies>>

RecvRReq(n, m) ==
    /\ m.to = n
    /\ IgnoreBlacklisted(n, m) \/ IgnoreDuplicate(n, m) \/ HandleRReq(n, m)
    /\ UNCHANGED <<now, seqNo, requestId, rreqCount, deferred, due, asked>>

-----------------------------------------------------------------------------
(* Timers and time *)

\* External (declared, defined nowhere): no RREP_ACK came from neighbor, which
\* goes on the blacklist.
AckTimerExpire(n, neighbor) ==
    /\ <<n, neighbor>> \in Unacked
    /\ neighbor \in DOMAIN table[n]
    /\ ~table[n][neighbor].unidirectional
    /\ table' = [table EXCEPT ![n] = MarkLinkAsUnidirectional(@, neighbor)]
    /\ UNCHANGED <<now, seqNo, requestId, rreqCount, deferred, due, cache, air,
                   asked, handled, replies>>

\* Time passes, but not past the moment a copy in the air must be handled by.
Tick ==
    /\ now < MaxTime
    /\ \A m \in air : now < m.sent + HopDelay
    /\ now' = now + 1
    /\ UNCHANGED <<seqNo, requestId, rreqCount, deferred, due, table, cache, air,
                   asked, handled, replies>>

Next ==
    \/ \E n \in Node : \/ \E dst \in Node : SendRequest(n, dst)
                       \/ SendDeferredRequest(n)
                       \/ RreqRateLimitTimerExpire(n)
                       \/ \E m \in air : RecvRReq(n, m)
                       \/ \E neighbor \in Node : AckTimerExpire(n, neighbor)
    \/ Tick

\* The simulator runs the events it was given: the rate limit timer, which
\* restarts itself, and the calls it makes due.
Fairness ==
    \A n \in Node : WF_vars(RreqRateLimitTimerExpire(n)) /\ WF_vars(SendDeferredRequest(n))

Spec == Init /\ [][Next]_vars /\ Fairness

-----------------------------------------------------------------------------
(* Properties *)

TypeOK ==
    /\ now \in 0 .. MaxTime
    /\ seqNo \in [Node -> RequestId]
    /\ requestId \in [Node -> RequestId]
    /\ rreqCount \in [Node -> 0 .. RreqRateLimit]
    /\ deferred \in [Node -> Seq(Node)]
    /\ due \in [Node -> Nat]
    /\ \A n \in Node : /\ DOMAIN table[n] \subseteq Node
                      /\ table[n] \in [DOMAIN table[n] -> Entry]
    /\ cache \in [Node -> SUBSET [context : Node, id : RequestId, expire : Nat]]
    /\ air \subseteq [from : Node, to : Node, sent : Nat, rreq : Rreq]
    /\ asked \in [Node -> RequestId]
    /\ handled \subseteq Handling
    /\ replies \subseteq [by : Node, origin : Node, id : RequestId, dst : Node,
                          seqNo : RequestId]

\* A node never handles the same RREQ twice, however late, from whomever and
\* over however many paths the copies arrive: the duplicate cache of
\* offchain-id.cc forgets a pair only when no copy of that flood is left.
HandledOnce ==
    \A g, h \in handled :
        g.node = h.node /\ g.origin = h.origin /\ g.id = h.id => g = h

\* No node ever holds a route to itself: RecvRReq has no test for an RREQ of its
\* own coming back, only the id that SendRequest registered beforehand.
NoRouteToSelf == \A n \in Node : n \notin DOMAIN table[n]

\* A reverse route is one hop of a path some RREQ really took: the next hop
\* handled the same RREQ with a hop count one smaller (a uint8_t), and not later.
ReverseRouteIsAPath ==
    \A n \in Node : \A d \in DOMAIN table[n] :
        table[n][d].nextHop # NoNode =>
            \E g, h \in handled :
                /\ h.node = n /\ h.origin = d /\ h.from = table[n][d].nextHop
                /\ h.hop = table[n][d].hops
                /\ g.node = h.from /\ g.origin = d /\ g.id = h.id
                /\ h.hop = (g.hop + 1) % 256 /\ g.at =< h.at

\* The reverse route an RREQ left behind is still there, and not expired, as long
\* as the answer may take (MinimalLifetime): no later RREQ, search, purge or
\* blacklisting takes it away or shortens it.
ReverseRouteOutlastsAnswer ==
    \A h \in handled :
        LET until == h.at + 2 * NetTraversalTime - 2 * h.hop * NodeTraversalTime IN
        h.node # h.origin /\ now =< until =>
            /\ h.origin \in DOMAIN table[h.node]
            /\ table[h.node][h.origin].lifeTime >= until

\* Sequence numbers are never invented: whatever a table, an RREQ in the air or
\* an answer says of a node's sequence number, the node itself has reached it.
SeqNoAuthentic ==
    /\ \A n \in Node : \A d \in DOMAIN table[n] :
            table[n][d].validSeqNo => table[n][d].seqNo =< seqNo[d]
    /\ \A m \in air : /\ m.rreq.originSeqno =< seqNo[m.rreq.origin]
                      /\ m.rreq.dstSeqno =< seqNo[m.rreq.dst]
    /\ \A r \in replies : r.seqNo =< seqNo[r.dst]

\* An answer is never staler than what the originator knew when it asked.
AnswerFreshEnough ==
    \A r \in replies : \A h \in handled :
        h.node = h.origin /\ h.origin = r.origin /\ h.id = r.id => r.seqNo >= h.wants

\* The calls asked for are the RREQs originated plus the calls still waiting:
\* the rate limit delays a discovery and neither loses nor repeats one.
NoDiscoveryLost ==
    \A n \in Node : asked[n] = requestId[n] + Len(deferred[n])

\* While a node keeps an entry, the sequence number in it never goes back, even
\* when an older RREQ of the same originator overtakes a newer one.
SeqNoNeverGoesBack ==
    [][\A n \in Node : \A d \in DOMAIN Purged(n) \cap DOMAIN table'[n] :
            table[n][d].validSeqNo =>
                table'[n][d].validSeqNo /\ table'[n][d].seqNo >= table[n][d].seqNo]_vars

\* The floods as FloodTree sees them.
Tree == INSTANCE FloodTree WITH
    Id <- UNION {1 .. MaxRequests[n] : n \in Node},
    tree <- {[node |-> h.node, origin |-> h.origin, id |-> h.id, from |-> h.from,
              hop |-> h.hop] : h \in handled}

\* Loss, delay, reordering, purges, blacklists and rate limits notwithstanding,
\* every flood grows as FloodTree says.
FloodsAreTrees == Tree!Spec

\* A discovery put off by the rate limit is sent in the end.
DeferredGetsSent == \A n \in Node : deferred[n] # <<>> ~> deferred[n] = <<>>
=============================================================================
