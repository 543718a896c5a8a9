------------------------- MODULE RouteRequestProofs -------------------------
(***************************************************************************)
(* Proofs about route discovery, for any number of nodes, any timing and   *)
(* any loss: types, conservation of discoveries, that no node handles an   *)
(* RREQ twice, and that no node ever holds a route to itself.              *)
(***************************************************************************)
EXTENDS RouteRequest, FiniteSetTheorems, SequenceTheorems, TLAPS

-----------------------------------------------------------------------------
(* Types *)

\* The routing tables there are.
Table == UNION {[S -> Entry] : S \in SUBSET Node}

\* The type invariant, with the set every table is drawn from.
Typed == TypeOK /\ table \in [Node -> Table]

LEMMA TableIntro ==
    ASSUME NEW S \in SUBSET Node, NEW f \in [S -> Entry]
    PROVE  f \in Table
  BY DEF Table

LEMMA TableElim ==
    ASSUME NEW t \in Table
    PROVE  /\ DOMAIN t \in SUBSET Node
           /\ t \in [DOMAIN t -> Entry]
           /\ \A d \in DOMAIN t : t[d] \in Entry
  BY DEF Table

LEMMA InvalidateTyped ==
    ASSUME NEW rt \in Entry, NEW time \in Nat
    PROVE  Invalidate(rt, time, DeletePeriod) \in Entry
<1> DEFINE down == [rt EXCEPT !.flag = "INVALID"]
<1>1. down \in Entry
  BY DEF Entry, RouteFlags
<1> HIDE DEF down
<1>2. [down EXCEPT !.lifeTime = time + DeletePeriod] \in Entry
  <2>1. time + DeletePeriod \in Int
    BY TimeAssumption
  <2> QED BY <1>1, <2>1 DEF Entry
<1>3. [rt EXCEPT !.flag = "INVALID", !.lifeTime = time + DeletePeriod]
        = [down EXCEPT !.lifeTime = time + DeletePeriod]
  BY DEF down
<1> QED BY <1>2, <1>3 DEF Invalidate

LEMMA PurgeTyped ==
    ASSUME NEW t \in Table, NEW time \in Nat
    PROVE  /\ Purge(t, time, DeletePeriod) \in Table
           /\ DOMAIN Purge(t, time, DeletePeriod) \subseteq DOMAIN t
<1> DEFINE S == {e \in DOMAIN t : ~(Expired(t[e], time) /\ t[e].flag = "INVALID")}
           p == Purge(t, time, DeletePeriod)
<1>1. S \in SUBSET Node /\ S \subseteq DOMAIN t
  BY TableElim
<1>2. ASSUME NEW d \in S PROVE p[d] \in Entry
  <2>1. t[d] \in Entry
    BY TableElim
  <2>2. Invalidate(t[d], time, DeletePeriod) \in Entry
    BY <2>1, InvalidateTyped
  <2>3. p[d] \in {t[d], Invalidate(t[d], time, DeletePeriod)}
    BY DEF Purge
  <2> QED BY <2>1, <2>2, <2>3
<1>3. p \in [S -> Entry]
  BY <1>2 DEF Purge
<1> QED BY <1>1, <1>3, TableIntro DEF Purge

LEMMA UpdateTyped ==
    ASSUME NEW t \in Table, NEW d, NEW rt \in Entry
    PROVE  Update(t, d, rt) \in Table /\ DOMAIN Update(t, d, rt) = DOMAIN t
  BY TableElim, TableIntro DEF Update

LEMMA AddRouteTyped ==
    ASSUME NEW t \in Table, NEW time \in Nat, NEW d \in Node, NEW rt \in Entry
    PROVE  /\ AddRoute(t, time, DeletePeriod, d, rt) \in Table
           /\ DOMAIN AddRoute(t, time, DeletePeriod, d, rt) \subseteq DOMAIN t \cup {d}
<1> DEFINE p == Purge(t, time, DeletePeriod)
<1>1. p \in Table /\ DOMAIN p \subseteq DOMAIN t
  BY PurgeTyped
<1>2. DOMAIN p \cup {d} \in SUBSET Node
  BY <1>1, TableElim
<1> HIDE DEF p
<1>3. \A e \in DOMAIN p : p[e] \in Entry
  BY <1>1, TableElim
<1>4. Insert(p, d, rt) \in [DOMAIN p \cup {d} -> Entry]
  BY <1>3 DEF Insert
<1> QED BY <1>1, <1>2, <1>4, TableIntro DEF AddRoute, Insert, p

LEMMA MarkTyped ==
    ASSUME NEW t \in Table, NEW nb
    PROVE  /\ MarkLinkAsUnidirectional(t, nb) \in Table
           /\ DOMAIN MarkLinkAsUnidirectional(t, nb) = DOMAIN t
<1>1. ASSUME NEW d \in DOMAIN t
      PROVE  MarkLinkAsUnidirectional(t, nb)[d] \in Entry
  <2>1. t[d] \in Entry
    BY TableElim
  <2>2. [t[d] EXCEPT !.unidirectional = TRUE] \in Entry
    BY <2>1 DEF Entry
  <2> QED BY <2>1, <2>2 DEF MarkLinkAsUnidirectional
<1> QED BY <1>1, TableElim, TableIntro DEF MarkLinkAsUnidirectional

LEMMA NewEntryTyped ==
    ASSUME NEW valid \in BOOLEAN, NEW s \in Nat, NEW hop \in 0 .. 255,
           NEW next \in Node \cup {NoNode}, NEW life \in Int
    PROVE  NewEntry(valid, s, hop, next, life) \in Entry
  BY DEF NewEntry, Entry, RouteFlags, RequestId

LEMMA SearchingTyped ==
    ASSUME NEW t \in Table, NEW dst \in Node, now \in Nat
    PROVE  /\ Searching(t, dst) \in Table
           /\ DOMAIN Searching(t, dst) \subseteq DOMAIN t \cup {dst}
<1>1. CASE dst \in DOMAIN t
  <2>1. t[dst] \in Entry
    BY <1>1, TableElim
  <2>2. [t[dst] EXCEPT !.flag = "IN_SEARCH"] \in Entry
    BY <2>1 DEF Entry, RouteFlags
  <2>3. Searching(t, dst) = Update(t, dst, [t[dst] EXCEPT !.flag = "IN_SEARCH"])
    BY <1>1 DEF Searching
  <2> QED BY <2>2, <2>3, UpdateTyped
<1>2. CASE dst \notin DOMAIN t
  <2> DEFINE e == NewEntry(FALSE, 0, 0, NoNode, now)
  <2>1. e \in Entry
    BY DEF NewEntry, Entry, RouteFlags, RequestId
  <2>2. Searching(t, dst)
          = AddRoute(t, now, DeletePeriod, dst, [e EXCEPT !.flag = "IN_SEARCH"])
    BY <1>2 DEF Searching
  <2> HIDE DEF e
  <2>3. [e EXCEPT !.flag = "IN_SEARCH"] \in Entry
    BY <2>1 DEF Entry, RouteFlags
  <2> QED BY <2>2, <2>3, AddRouteTyped
<1> QED BY <1>1, <1>2

LEMMA ReverseLifeTimeTyped ==
    ASSUME now \in Nat, NEW hop \in 0 .. 255
    PROVE  ReverseLifeTime(hop) \in Int
  BY TimeAssumption DEF ReverseLifeTime

LEMMA WithReverseRouteTyped ==
    ASSUME NEW t \in Table, NEW src \in Node, NEW rreq \in Rreq, NEW hop \in 0 .. 255,
           now \in Nat
    PROVE  /\ WithReverseRoute(t, src, rreq, hop) \in Table
           /\ DOMAIN WithReverseRoute(t, src, rreq, hop) \subseteq DOMAIN t \cup {rreq.origin}
<1> DEFINE o == rreq.origin
           w == WithReverseRoute(t, src, rreq, hop)
           life == ReverseLifeTime(hop)
<1>1. o \in Node /\ rreq.originSeqno \in Nat /\ life \in Int
  BY ReverseLifeTimeTyped DEF Rreq, RequestId
<1> HIDE DEF life
<1>2. CASE o \in DOMAIN t
  <2> DEFINE e == t[o]
             s == ReverseSeqNo(e, rreq)
             top == Max2(life, e.lifeTime)
             e1 == [e EXCEPT !.seqNo = s]
             e2 == [e1 EXCEPT !.validSeqNo = TRUE]
             e3 == [e2 EXCEPT !.nextHop = src]
             e4 == [e3 EXCEPT !.hops = hop]
             e5 == [e4 EXCEPT !.lifeTime = top]
  <2>1. e \in Entry
    BY <1>2, TableElim
  <2>2. s \in Nat /\ top \in Int
    BY <1>1, <2>1 DEF Entry, RequestId, ReverseSeqNo, Max2
  <2>3. [e EXCEPT !.seqNo = s, !.validSeqNo = TRUE, !.nextHop = src, !.hops = hop,
                  !.lifeTime = Max2(life, @)] = e5
    BY <2>1 DEF Entry
  <2>4. w = Update(t, o, e5)
    BY <1>2, <2>3 DEF WithReverseRoute, life
  <2> HIDE DEF e, s, top
  <2>5. e1 \in Entry
    BY <2>1, <2>2 DEF Entry, RequestId
  <2> HIDE DEF e1
  <2>6. e2 \in Entry
    BY <2>5 DEF Entry
  <2> HIDE DEF e2
  <2>7. e3 \in Entry
    BY <2>6 DEF Entry
  <2> HIDE DEF e3
  <2>8. e4 \in Entry
    BY <2>7 DEF Entry
  <2> HIDE DEF e4
  <2>9. e5 \in Entry
    BY <2>8, <2>2 DEF Entry
  <2> QED BY <2>4, <2>9, UpdateTyped
<1>3. CASE o \notin DOMAIN t
  <2> DEFINE e == NewEntry(TRUE, rreq.originSeqno, hop, src, life)
  <2>1. w = AddRoute(t, now, DeletePeriod, o, e)
    BY <1>3 DEF WithReverseRoute, life
  <2>2. e \in Entry
    BY <1>1, NewEntryTyped
  <2> HIDE DEF e, o, w
  <2>3. w \in Table /\ DOMAIN w \subseteq DOMAIN t \cup {o}
    BY <1>1, <2>1, <2>2, AddRouteTyped
  <2> QED BY <2>3 DEF w, o
<1> QED BY <1>2, <1>3

\* A node of the table it holds when RecvRReq returns was there before, or is
\* the originator of the RREQ.
LEMMA TableAfterTyped ==
    ASSUME Typed, NEW n \in Node, NEW m \in air
    PROVE  /\ TableAfter(n, m) \in Table
           /\ DOMAIN TableAfter(n, m) \subseteq DOMAIN table[n] \cup {m.rreq.origin}
<1>1. now \in Nat /\ table[n] \in Table /\ m.from \in Node /\ m.rreq \in Rreq
  <2>1. now \in Nat
    BY TimeAssumption DEF Typed, TypeOK
  <2>2. table[n] \in Table
    BY DEF Typed
  <2>3. m \in [from : Node, to : Node, sent : Nat, rreq : Rreq]
    BY DEF Typed, TypeOK
  <2> QED BY <2>1, <2>2, <2>3
<1>2. (m.rreq.hopCount + 1) % 256 \in 0 .. 255
  BY <1>1 DEF Rreq
<1>3. Purged(n) \in Table /\ DOMAIN Purged(n) \subseteq DOMAIN table[n]
  BY <1>1, PurgeTyped DEF Purged
<1> DEFINE h == (m.rreq.hopCount + 1) % 256
           w == WithReverseRoute(Purged(n), m.from, m.rreq, h)
<1>4. TableAfter(n, m) = Purge(w, now, DeletePeriod)
  BY DEF TableAfter
<1>5. w \in Table /\ DOMAIN w \subseteq DOMAIN Purged(n) \cup {m.rreq.origin}
  <2>1. h \in 0 .. 255
    BY <1>2
  <2> HIDE DEF h
  <2> QED BY <1>1, <2>1, <1>3, WithReverseRouteTyped
<1> HIDE DEF w
<1>6. TableAfter(n, m) \in Table /\ DOMAIN TableAfter(n, m) \subseteq DOMAIN w
  BY <1>1, <1>4, <1>5, PurgeTyped
<1> QED BY <1>3, <1>5, <1>6

LEMMA CountersTyped ==
    Typed => requestId \in [Node -> Nat] /\ seqNo \in [Node -> Nat]
  BY DEF Typed, TypeOK, RequestId

LEMMA AirTyped ==
    ASSUME Typed, NEW m \in air
    PROVE  /\ m.rreq \in Rreq /\ m.sent \in Nat /\ m.from \in Node /\ m.to \in Node
           /\ m.rreq.origin \in Node /\ m.rreq.id \in Nat
<1>1. m \in [from : Node, to : Node, sent : Nat, rreq : Rreq]
  BY DEF Typed, TypeOK
<1>2. m.rreq \in Rreq
  BY <1>1
<1> QED BY <1>1, <1>2 DEF Rreq, RequestId

LEMMA HandledTyped ==
    ASSUME Typed, NEW h \in handled
    PROVE  h.node \in Node /\ h.origin \in Node /\ h.id \in Nat /\ h.at \in Nat
<1>1. h \in Handling
  BY DEF Typed, TypeOK
<1> QED BY <1>1 DEF Handling, RequestId

LEMMA NewRreqTyped ==
    ASSUME Typed, NEW n \in Node, NEW dst \in Node
    PROVE  NewRreq(n, dst) \in Rreq
<1>1. Purged(n) \in Table
  BY PurgeTyped, TimeAssumption DEF Typed, TypeOK, Purged
<1>2. KnowsSeqNo(Purged(n), dst) => Purged(n)[dst].seqNo \in Nat
  BY <1>1, TableElim DEF KnowsSeqNo, Entry, RequestId
<1>3. KnowsSeqNo(Purged(n), dst) \in BOOLEAN
  BY <1>1, TableElim DEF KnowsSeqNo, Entry
<1>4. requestId[n] + 1 \in Nat /\ seqNo[n] + 1 \in Nat
  BY CountersTyped
<1> DEFINE k == KnowsSeqNo(Purged(n), dst)
           d == IF k THEN Purged(n)[dst].seqNo ELSE 0
<1>5. d \in Nat /\ k \in BOOLEAN
  BY <1>2, <1>3
<1> HIDE DEF k, d
<1>6. NewRreq(n, dst) = [origin |-> n, id |-> requestId[n] + 1,
          originSeqno |-> seqNo[n] + 1, dst |-> dst, dstSeqno |-> d,
          unknownSeqno |-> ~k, hopCount |-> 0,
          destinationOnly |-> n \in DestinationOnlyNodes]
  BY DEF NewRreq, k, d
<1> QED BY <1>4, <1>5, <1>6 DEF Rreq, RequestId

LEMMA AdvancedTyped ==
    ASSUME Typed, NEW m \in air
    PROVE  /\ Advanced(m) \in Rreq
           /\ Advanced(m).origin = m.rreq.origin
           /\ Advanced(m).id = m.rreq.id
<1>1. m.rreq \in Rreq
  BY DEF Typed, TypeOK
<1>2. (m.rreq.hopCount + 1) % 256 \in 0 .. 255
  BY <1>1 DEF Rreq
<1> DEFINE hop == (m.rreq.hopCount + 1) % 256
<1>3. Advanced(m) = [m.rreq EXCEPT !.hopCount = hop]
  BY <1>1 DEF Advanced, Rreq
<1> HIDE DEF hop
<1> QED BY <1>1, <1>2, <1>3 DEF Rreq, hop

-----------------------------------------------------------------------------
(* Types, the queue of deferred calls, and conservation of discoveries *)

\* No node asks for a route to itself, and the calls due are calls waiting.
Waiting ==
    \A n \in Node : /\ deferred[n] \in Seq(Node \ {n})
                    /\ due[n] =< Len(deferred[n])

TInv == Typed /\ Waiting /\ NoDiscoveryLost

\* The state components Originate, Defer and HandleRReq write, with their types.
SentTyped ==
    /\ seqNo \in [Node -> RequestId]
    /\ requestId \in [Node -> RequestId]
    /\ rreqCount \in [Node -> 0 .. RreqRateLimit]
    /\ table \in [Node -> Table]
    /\ cache \in [Node -> SUBSET [context : Node, id : RequestId, expire : Nat]]
    /\ air \subseteq [from : Node, to : Node, sent : Nat, rreq : Rreq]
    /\ handled \subseteq Handling

RestTyped ==
    /\ now \in 0 .. MaxTime
    /\ deferred \in [Node -> Seq(Node)]
    /\ due \in [Node -> Nat]
    /\ asked \in [Node -> RequestId]
    /\ replies \subseteq [by : Node, origin : Node, id : RequestId, dst : Node,
                          seqNo : RequestId]

LEMMA TypedParts == Typed <=> SentTyped /\ RestTyped
<1>1. ASSUME table \in [Node -> Table], NEW n \in Node
      PROVE  /\ DOMAIN table[n] \subseteq Node
             /\ table[n] \in [DOMAIN table[n] -> Entry]
  BY <1>1, TableElim
<1> QED BY <1>1 DEF Typed, TypeOK, SentTyped, RestTyped

LEMMA TypedPartsPrime == Typed' <=> SentTyped' /\ RestTyped'
<1>1. ASSUME table' \in [Node -> Table], NEW n \in Node
      PROVE  /\ DOMAIN table'[n] \subseteq Node
             /\ table'[n] \in [DOMAIN table'[n] -> Entry]
  BY <1>1, TableElim
<1> QED BY <1>1 DEF Typed, TypeOK, SentTyped, RestTyped

LEMMA RateNat == RreqRateLimit \in Nat /\ 0 \in 0 .. RreqRateLimit
  BY RateAssumption

LEMMA NowTyped == Typed => now \in Nat
  BY TimeAssumption DEF Typed, TypeOK

LEMMA CopiesTyped ==
    ASSUME Typed, NEW n \in Node, NEW rreq \in Rreq, NEW heard \in SUBSET (Node \ {n})
    PROVE  Copies(n, rreq, heard)
             \subseteq [from : Node, to : Node, sent : Nat, rreq : Rreq]
  BY NowTyped DEF Copies

LEMMA RegisteredTyped ==
    ASSUME Typed, NEW n \in Node, NEW o \in Node, NEW i \in Nat
    PROVE  Registered(cache[n], now, PathDiscoveryTime, o, i)
             \in SUBSET [context : Node, id : RequestId, expire : Nat]
<1>1. now + PathDiscoveryTime \in Nat
  BY NowTyped, TimeAssumption
<1>2. cache[n] \in SUBSET [context : Node, id : RequestId, expire : Nat]
  BY DEF Typed, TypeOK
<1> QED BY <1>1, <1>2 DEF Registered, LiveIds, RequestId

LEMMA OriginateTyped ==
    ASSUME Typed, NEW n \in Node, NEW dst \in Node, Originate(n, dst)
    PROVE  SentTyped'
<1>1. requestId[n] + 1 \in Nat /\ seqNo[n] + 1 \in Nat
  BY CountersTyped
<1>2. rreqCount' \in [Node -> 0 .. RreqRateLimit]
  <2>1. rreqCount[n] + 1 \in 0 .. RreqRateLimit
    <3>1. rreqCount[n] # RreqRateLimit
      BY DEF Originate, AtRateLimit
    <3>2. rreqCount[n] \in 0 .. RreqRateLimit
      BY DEF Typed, TypeOK
    <3> QED BY <3>1, <3>2, RateNat
  <2> QED BY <2>1 DEF Typed, TypeOK, Originate
<1>3. table' \in [Node -> Table]
  <2>1. Purged(n) \in Table
    BY NowTyped, PurgeTyped DEF Typed, Purged
  <2>2. Searching(Purged(n), dst) \in Table
    BY <2>1, NowTyped, SearchingTyped
  <2> QED BY <2>2 DEF Typed, Originate
<1>4. seqNo' \in [Node -> RequestId] /\ requestId' \in [Node -> RequestId]
  BY <1>1 DEF Typed, TypeOK, Originate, RequestId
<1>5. cache' \in [Node -> SUBSET [context : Node, id : RequestId, expire : Nat]]
  <2>1. Registered(cache[n], now, PathDiscoveryTime, n, requestId[n] + 1)
          \in SUBSET [context : Node, id : RequestId, expire : Nat]
    BY <1>1, RegisteredTyped
  <2> QED BY <2>1 DEF Typed, TypeOK, Originate
<1>6. NewRreq(n, dst) \in Rreq
  BY NewRreqTyped
<1>7. air' \subseteq [from : Node, to : Node, sent : Nat, rreq : Rreq]
  <2>1. PICK heard \in SUBSET (Node \ {n}) :
            air' = air \cup Copies(n, NewRreq(n, dst), heard)
    BY DEF Originate
  <2>2. Copies(n, NewRreq(n, dst), heard)
          \subseteq [from : Node, to : Node, sent : Nat, rreq : Rreq]
    BY <1>6, CopiesTyped
  <2> QED BY <2>1, <2>2 DEF Typed, TypeOK
<1>8. handled' \subseteq Handling
  <2> DEFINE h == [node |-> n, origin |-> n, id |-> requestId[n] + 1, from |-> n,
                   hop |-> 0, at |-> now, wants |-> NewRreq(n, dst).dstSeqno]
  <2>1. NewRreq(n, dst).dstSeqno \in Nat
    BY <1>6 DEF Rreq, RequestId
  <2>2. h \in Handling
    BY <1>1, <2>1, NowTyped DEF Handling, RequestId
  <2>3. handled' = handled \cup {h}
    BY DEF Originate
  <2> QED BY <2>2, <2>3 DEF Typed, TypeOK
<1> QED BY <1>2, <1>3, <1>4, <1>5, <1>7, <1>8 DEF SentTyped

LEMMA DeferTyped ==
    ASSUME Typed, NEW n \in Node, NEW dst, NEW waiting, Defer(n, dst, waiting)
    PROVE  SentTyped'
  BY TypedParts DEF Defer, SentTyped

\* The queues of deferred calls after one call of SendRequest for dst, made
\* when `waiting' were waiting: either it joins them, or it is an RREQ.
LEMMA QueueAfterCall ==
    ASSUME TInv, NEW n \in Node, NEW dst \in Node \ {n},
           NEW waiting \in Seq(Node \ {n}),
           \/ Originate(n, dst) /\ deferred' = [deferred EXCEPT ![n] = waiting]
           \/ Defer(n, dst, waiting)
    PROVE  \E queue \in Seq(Node \ {n}) :
               /\ deferred' = [deferred EXCEPT ![n] = queue]
               /\ Len(queue) >= Len(waiting)
               /\ requestId'[n] + Len(queue) = requestId[n] + Len(waiting) + 1
               /\ \A p \in Node \ {n} : requestId'[p] = requestId[p]
<1>1. requestId \in [Node -> Nat]
  BY DEF TInv, Typed, TypeOK, RequestId
<1>2. Len(waiting) \in Nat
  OBVIOUS
<1>3. CASE Originate(n, dst) /\ deferred' = [deferred EXCEPT ![n] = waiting]
  <2>1. requestId' = [requestId EXCEPT ![n] = @ + 1]
    BY <1>3 DEF Originate
  <2>2. requestId'[n] + Len(waiting) = requestId[n] + Len(waiting) + 1
    BY <1>1, <1>2, <2>1
  <2>3. Len(waiting) >= Len(waiting) /\ \A p \in Node \ {n} : requestId'[p] = requestId[p]
    BY <1>1, <1>2, <2>1
  <2> WITNESS waiting \in Seq(Node \ {n})
  <2> QED BY <1>3, <2>2, <2>3
<1>4. CASE Defer(n, dst, waiting)
  <2> DEFINE queue == Append(waiting, dst)
  <2>1. deferred' = [deferred EXCEPT ![n] = queue] /\ requestId' = requestId
    BY <1>4 DEF Defer
  <2>2. queue \in Seq(Node \ {n}) /\ Len(queue) = Len(waiting) + 1
    BY AppendProperties
  <2> HIDE DEF queue
  <2>3. /\ requestId'[n] + Len(queue) = requestId[n] + Len(waiting) + 1
        /\ Len(queue) >= Len(waiting)
    BY <1>1, <1>2, <2>1, <2>2
  <2>4. queue \in Seq(Node \ {n})
    BY <2>2
  <2> WITNESS queue \in Seq(Node \ {n})
  <2> QED BY <2>1, <2>3
<1> QED BY <1>3, <1>4

\* What replacing one queue does to the types of all of them.
LEMMA QueueReplaced ==
    ASSUME TInv, NEW n \in Node, NEW queue \in Seq(Node \ {n}),
           deferred' = [deferred EXCEPT ![n] = queue]
    PROVE  /\ deferred' \in [Node -> Seq(Node)]
           /\ deferred'[n] = queue
           /\ \A p \in Node : deferred'[p] \in Seq(Node \ {p})
           /\ \A p \in Node \ {n} : deferred'[p] = deferred[p]
<1>1. /\ deferred \in [Node -> Seq(Node)]
      /\ \A p \in Node : deferred[p] \in Seq(Node \ {p})
  BY DEF TInv, Waiting, Typed, TypeOK
<1>2. queue \in Seq(Node)
  OBVIOUS
<1>3. deferred' \in [Node -> Seq(Node)]
  BY <1>1, <1>2
<1>4. deferred'[n] = queue /\ \A p \in Node \ {n} : deferred'[p] = deferred[p]
  BY <1>1
<1> QED BY <1>1, <1>3, <1>4

LEMMA SendRequestTInv ==
    ASSUME TInv, NEW n \in Node, NEW dst \in Node, SendRequest(n, dst)
    PROVE  TInv'
<1> DEFINE waiting == deferred[n]
<1>1. dst \in Node \ {n}
  BY BoundAssumption DEF SendRequest
<1>2. waiting \in Seq(Node \ {n}) /\ deferred = [deferred EXCEPT ![n] = waiting]
  BY DEF TInv, Waiting, Typed, TypeOK
<1>3. \/ Originate(n, dst) /\ deferred' = [deferred EXCEPT ![n] = waiting]
      \/ Defer(n, dst, waiting)
  BY <1>2 DEF SendRequest
<1>4. SentTyped'
  BY <1>3, OriginateTyped, DeferTyped DEF TInv
<1>5. /\ asked' = [asked EXCEPT ![n] = @ + 1] /\ asked \in [Node -> Nat]
      /\ requestId \in [Node -> Nat]
  BY DEF SendRequest, TInv, Typed, TypeOK, RequestId
<1>6. asked[n] = requestId[n] + Len(waiting)
  BY DEF TInv, NoDiscoveryLost
<1> HIDE DEF waiting
<1>7. PICK queue \in Seq(Node \ {n}) :
          /\ deferred' = [deferred EXCEPT ![n] = queue]
          /\ Len(queue) >= Len(waiting)
          /\ requestId'[n] + Len(queue) = requestId[n] + Len(waiting) + 1
          /\ \A p \in Node \ {n} : requestId'[p] = requestId[p]
  BY <1>1, <1>2, <1>3, QueueAfterCall
<1>8. /\ deferred' \in [Node -> Seq(Node)]
      /\ deferred'[n] = queue
      /\ \A p \in Node : deferred'[p] \in Seq(Node \ {p})
      /\ \A p \in Node \ {n} : deferred'[p] = deferred[p]
  BY <1>7, QueueReplaced
<1>9. RestTyped'
  <2>1. asked' \in [Node -> RequestId]
    BY <1>5 DEF RequestId
  <2> QED BY <1>8, <2>1, TypedParts DEF TInv, RestTyped, SendRequest
<1>10. Waiting'
  <2> SUFFICES ASSUME NEW p \in Node PROVE due[p] =< Len(deferred'[p])
    BY <1>8 DEF Waiting, SendRequest
  <2>1. due[p] \in Nat /\ due[p] =< Len(deferred[p])
    BY DEF TInv, Waiting, Typed, TypeOK
  <2>2. CASE p # n
    BY <1>8, <2>1, <2>2
  <2>3. CASE p = n
    <3>1. Len(waiting) \in Nat /\ Len(queue) \in Nat
      BY <1>2
    <3>2. due[p] =< Len(waiting) /\ deferred'[p] = queue
      BY <1>8, <2>1, <2>3 DEF waiting
    <3> QED BY <1>7, <2>1, <3>1, <3>2
  <2> QED BY <2>2, <2>3
<1>11. NoDiscoveryLost'
  <2> SUFFICES ASSUME NEW p \in Node
               PROVE  asked'[p] = requestId'[p] + Len(deferred'[p])
    BY DEF NoDiscoveryLost
  <2>1. CASE p # n
    <3>1. asked[p] = requestId[p] + Len(deferred[p])
      BY DEF TInv, NoDiscoveryLost
    <3> QED BY <1>5, <1>7, <1>8, <2>1, <3>1
  <2>2. CASE p = n
    <3>1. asked'[p] = requestId[p] + Len(waiting) + 1
      BY <1>5, <1>6, <2>2
    <3> QED BY <1>7, <1>8, <2>2, <3>1
  <2> QED BY <2>1, <2>2
<1> QED BY <1>4, <1>9, <1>10, <1>11, TypedPartsPrime DEF TInv

\* A call that runs because the timer made it due is the first that waits.
LEMMA DueCall ==
    ASSUME TInv, NEW n \in Node, SendDeferredRequest(n)
    PROVE  deferred[n] \in Seq(Node \ {n}) /\ Len(deferred[n]) > 0
<1>1. deferred[n] \in Seq(Node \ {n}) /\ due[n] =< Len(deferred[n])
  BY DEF TInv, Waiting
<1>2. due[n] \in Nat
  BY DEF TInv, Typed, TypeOK
<1>3. due[n] > 0
  BY DEF SendDeferredRequest
<1>4. Len(deferred[n]) \in Nat
  BY <1>1
<1> QED BY <1>1, <1>2, <1>3, <1>4

LEMMA SendDeferredRequestTInv ==
    ASSUME TInv, NEW n \in Node, SendDeferredRequest(n)
    PROVE  TInv'
<1> DEFINE first == deferred[n]
           waiting == Tail(first)
           dst == Head(first)
<1>1. first \in Seq(Node \ {n}) /\ due[n] \in Nat /\ due[n] =< Len(first) /\ due[n] > 0
  BY DEF TInv, Waiting, Typed, TypeOK, SendDeferredRequest
<1>2. asked[n] = requestId[n] + Len(first)
  BY DEF TInv, NoDiscoveryLost
<1>3. \/ Originate(n, dst) /\ deferred' = [deferred EXCEPT ![n] = waiting]
      \/ Defer(n, dst, waiting)
  BY DEF SendDeferredRequest
<1> HIDE DEF first
<1>4. /\ dst \in Node \ {n} /\ waiting \in Seq(Node \ {n})
      /\ Len(first) = Len(waiting) + 1 /\ Len(waiting) \in Nat
  <2>1. first # << >>
    BY <1>1
  <2> QED BY <1>1, <2>1, HeadTailProperties
<1> HIDE DEF waiting, dst
<1>5. SentTyped'
  BY <1>3, <1>4, OriginateTyped, DeferTyped DEF TInv
<1>6. PICK queue \in Seq(Node \ {n}) :
          /\ deferred' = [deferred EXCEPT ![n] = queue]
          /\ Len(queue) >= Len(waiting)
          /\ requestId'[n] + Len(queue) = requestId[n] + Len(waiting) + 1
          /\ \A p \in Node \ {n} : requestId'[p] = requestId[p]
  BY <1>3, <1>4, QueueAfterCall
<1>7. /\ deferred' \in [Node -> Seq(Node)]
      /\ deferred'[n] = queue
      /\ \A p \in Node : deferred'[p] \in Seq(Node \ {p})
      /\ \A p \in Node \ {n} : deferred'[p] = deferred[p]
  BY <1>6, QueueReplaced
<1>8. due' = [due EXCEPT ![n] = @ - 1] /\ due \in [Node -> Nat]
  BY DEF SendDeferredRequest, TInv, Typed, TypeOK
<1>9. RestTyped'
  <2>1. due' \in [Node -> Nat]
    BY <1>1, <1>8
  <2> QED BY <1>7, <2>1, TypedParts DEF TInv, RestTyped, SendDeferredRequest
<1>10. Waiting'
  <2> SUFFICES ASSUME NEW p \in Node PROVE due'[p] =< Len(deferred'[p])
    BY <1>7 DEF Waiting
  <2>1. CASE p # n
    <3>1. due[p] =< Len(deferred[p])
      BY DEF TInv, Waiting
    <3> QED BY <1>7, <1>8, <2>1, <3>1
  <2>2. CASE p = n
    <3>1. due'[p] = due[n] - 1 /\ deferred'[p] = queue /\ Len(queue) \in Nat
      BY <1>7, <1>8, <2>2
    <3> QED BY <1>1, <1>4, <1>6, <3>1
  <2> QED BY <2>1, <2>2
<1>11. NoDiscoveryLost'
  <2> SUFFICES ASSUME NEW p \in Node
               PROVE  asked[p] = requestId'[p] + Len(deferred'[p])
    BY DEF NoDiscoveryLost, SendDeferredRequest
  <2>1. CASE p # n
    <3>1. asked[p] = requestId[p] + Len(deferred[p])
      BY DEF TInv, NoDiscoveryLost
    <3> QED BY <1>6, <1>7, <2>1, <3>1
  <2>2. CASE p = n
    <3>1. requestId[n] \in Nat
      BY DEF TInv, Typed, TypeOK, RequestId
    <3>2. requestId'[n] + Len(queue) = asked[n]
      <4>1. Len(first) = Len(waiting) + 1 /\ Len(waiting) \in Nat
        BY <1>4
      <4>2. requestId'[n] + Len(queue) = requestId[n] + Len(waiting) + 1
        BY <1>6
      <4>3. asked[n] = requestId[n] + Len(waiting) + 1
        BY <1>2, <3>1, <4>1
      <4> QED BY <4>2, <4>3
    <3> QED BY <1>7, <2>2, <3>2
  <2> QED BY <2>1, <2>2
<1> QED BY <1>5, <1>9, <1>10, <1>11, TypedPartsPrime DEF TInv

\* A relayed RREQ is the same RREQ, put in the air now.
LEMMA RelayTyped ==
    ASSUME Typed, NEW n \in Node, NEW m \in air, NEW rreq \in Rreq, Relay(n, m, rreq)
    PROVE  /\ air' \subseteq [from : Node, to : Node, sent : Nat, rreq : Rreq]
           /\ replies' = replies
           /\ \A c \in air' : c \in air \/ (c.sent = now /\ c.rreq = rreq)
<1>1. PICK heard \in SUBSET (Node \ {n}) : air' = (air \ {m}) \cup Copies(n, rreq, heard)
  BY DEF Relay
<1>2. Copies(n, rreq, heard) \subseteq [from : Node, to : Node, sent : Nat, rreq : Rreq]
  BY CopiesTyped
<1>3. \A c \in Copies(n, rreq, heard) : c.sent = now /\ c.rreq = rreq
  BY DEF Copies
<1>4. replies' = replies
  BY DEF Relay
<1> QED BY <1>1, <1>2, <1>3, <1>4 DEF Typed, TypeOK

\* Whatever becomes of an RREQ that passed the filters, the copies it adds to
\* the air are of the same RREQ and sent now.
LEMMA FateTyped ==
    ASSUME Typed, NEW n \in Node, NEW m \in air, NEW t \in Table,
           AnswerAsDestination(n, m) \/ ForwardRReq(n, m, t)
    PROVE  /\ air' \subseteq [from : Node, to : Node, sent : Nat, rreq : Rreq]
           /\ replies' \subseteq [by : Node, origin : Node, id : RequestId, dst : Node,
                                  seqNo : RequestId]
           /\ \A c \in air' : c \in air \/ /\ c.sent = now
                                           /\ c.rreq.origin = m.rreq.origin
                                           /\ c.rreq.id = m.rreq.id
<1>1. m.rreq \in Rreq /\ seqNo[n] \in Nat
  BY DEF Typed, TypeOK, RequestId
<1>2. m.rreq.origin \in Node /\ m.rreq.dst \in Node /\ m.rreq.id \in Nat
  BY <1>1 DEF Rreq, RequestId
<1>3. /\ air \subseteq [from : Node, to : Node, sent : Nat, rreq : Rreq]
      /\ replies \subseteq [by : Node, origin : Node, id : RequestId, dst : Node,
                            seqNo : RequestId]
  BY DEF Typed, TypeOK
<1>4. CASE AnswerAsDestination(n, m)
  BY <1>1, <1>2, <1>3, <1>4 DEF AnswerAsDestination, RequestId
<1>5. ASSUME m.rreq.dst \in DOMAIN t, DropLoop(m, t[m.rreq.dst])
      PROVE  air' = air \ {m} /\ replies' = replies
  BY <1>5 DEF DropLoop
<1>6. ASSUME m.rreq.dst \in DOMAIN t, AnswerAsIntermediate(n, m, t[m.rreq.dst])
      PROVE  /\ air' = air \ {m}
             /\ replies' \subseteq [by : Node, origin : Node, id : RequestId, dst : Node,
                                    seqNo : RequestId]
  <2>1. t[m.rreq.dst].seqNo \in RequestId
    BY <1>6, TableElim DEF Entry
  <2> QED BY <1>2, <1>3, <1>6, <2>1 DEF AnswerAsIntermediate, RequestId
<1>7. ASSUME m.rreq.dst \in DOMAIN t, RelayFresher(n, m, t[m.rreq.dst])
      PROVE  /\ air' \subseteq [from : Node, to : Node, sent : Nat, rreq : Rreq]
             /\ replies' = replies
             /\ \A c \in air' : c \in air \/ /\ c.sent = now
                                             /\ c.rreq.origin = m.rreq.origin
                                             /\ c.rreq.id = m.rreq.id
  <2> DEFINE a == Advanced(m)
             s == t[m.rreq.dst].seqNo
             b == [a EXCEPT !.dstSeqno = s]
             r == [b EXCEPT !.unknownSeqno = FALSE]
  <2>1. s \in RequestId
    BY <1>7, TableElim DEF Entry
  <2>2. a \in Rreq /\ a.origin = m.rreq.origin /\ a.id = m.rreq.id
    BY AdvancedTyped
  <2>3. Relay(n, m, [a EXCEPT !.dstSeqno = s, !.unknownSeqno = FALSE])
    BY <1>7 DEF RelayFresher
  <2> HIDE DEF a, s
  <2>4. [a EXCEPT !.dstSeqno = s, !.unknownSeqno = FALSE] = r
    BY <2>2 DEF Rreq
  <2>5. b \in Rreq /\ b.origin = m.rreq.origin /\ b.id = m.rreq.id
    BY <2>1, <2>2 DEF Rreq
  <2> HIDE DEF b
  <2>6. r \in Rreq /\ r.origin = m.rreq.origin /\ r.id = m.rreq.id
    BY <2>5 DEF Rreq
  <2> HIDE DEF r
  <2>7. Relay(n, m, r)
    BY <2>3, <2>4
  <2> QED BY <2>6, <2>7, RelayTyped
<1>8. ASSUME RelayUnchanged(n, m, t)
      PROVE  /\ air' \subseteq [from : Node, to : Node, sent : Nat, rreq : Rreq]
             /\ replies' = replies
             /\ \A c \in air' : c \in air \/ /\ c.sent = now
                                             /\ c.rreq.origin = m.rreq.origin
                                             /\ c.rreq.id = m.rreq.id
  <2>1. Relay(n, m, Advanced(m))
    BY <1>8 DEF RelayUnchanged
  <2> QED BY <2>1, AdvancedTyped, RelayTyped
<1>9. CASE ForwardRReq(n, m, t)
  <2>1. \/ m.rreq.dst \in DOMAIN t /\ DropLoop(m, t[m.rreq.dst])
        \/ m.rreq.dst \in DOMAIN t /\ AnswerAsIntermediate(n, m, t[m.rreq.dst])
        \/ m.rreq.dst \in DOMAIN t /\ RelayFresher(n, m, t[m.rreq.dst])
        \/ RelayUnchanged(n, m, t)
    BY <1>9 DEF ForwardRReq
  <2> QED BY <1>3, <1>5, <1>6, <1>7, <1>8, <2>1
<1> QED BY <1>4, <1>9

LEMMA HandleTyped ==
    ASSUME Typed, NEW n \in Node, NEW m \in air, HandleRReq(n, m)
    PROVE  /\ table' \in [Node -> Table]
           /\ cache' \in [Node -> SUBSET [context : Node, id : RequestId, expire : Nat]]
           /\ handled' \subseteq Handling
<1>1. m.rreq \in Rreq /\ m.from \in Node
  BY DEF Typed, TypeOK
<1>2. (m.rreq.hopCount + 1) % 256 \in 0 .. 255
  BY <1>1 DEF Rreq
<1>3. /\ m.rreq.origin \in Node /\ m.rreq.id \in Nat
      /\ m.rreq.dstSeqno \in Nat
  BY <1>1 DEF Rreq, RequestId
<1>4. table' \in [Node -> Table]
  BY TableAfterTyped DEF HandleRReq, Typed
<1>5. cache' \in [Node -> SUBSET [context : Node, id : RequestId, expire : Nat]]
  <2>1. Registered(cache[n], now, PathDiscoveryTime, m.rreq.origin, m.rreq.id)
          \in SUBSET [context : Node, id : RequestId, expire : Nat]
    BY <1>3, RegisteredTyped
  <2> QED BY <2>1 DEF Typed, TypeOK, HandleRReq
<1>6. handled' \subseteq Handling
  <2> DEFINE hop == (m.rreq.hopCount + 1) % 256
             h == [node |-> n, origin |-> m.rreq.origin, id |-> m.rreq.id,
                   from |-> m.from, hop |-> hop, at |-> now, wants |-> m.rreq.dstSeqno]
  <2>1. hop \in 0 .. 255
    BY <1>2
  <2>2. handled' = handled \cup {h}
    BY DEF HandleRReq
  <2> HIDE DEF hop
  <2>3. h \in Handling
    BY <1>1, <1>3, <2>1, NowTyped DEF Handling, RequestId
  <2> QED BY <2>2, <2>3 DEF Typed, TypeOK
<1> QED BY <1>4, <1>5, <1>6

LEMMA RecvRReqTInv ==
    ASSUME TInv, NEW n \in Node, NEW m \in air, RecvRReq(n, m)
    PROVE  TInv'
<1>1. Typed
  BY DEF TInv
<1>2. SentTyped /\ RestTyped
  BY <1>1, TypedParts
<1>3. Purged(n) \in Table
  BY <1>1, NowTyped, PurgeTyped DEF Typed, Purged
<1>4. SentTyped' /\ RestTyped'
  <2>1. CASE IgnoreBlacklisted(n, m)
    <3>1. /\ table' = [table EXCEPT ![n] = Purged(n)] /\ air' \subseteq air
          /\ UNCHANGED <<cache, handled, replies>>
      BY <2>1 DEF IgnoreBlacklisted
    <3> QED BY <1>2, <1>3, <3>1 DEF RecvRReq, SentTyped, RestTyped
  <2>2. CASE IgnoreDuplicate(n, m)
    <3>1. /\ table' = [table EXCEPT ![n] = Purged(n)] /\ air' \subseteq air
          /\ UNCHANGED <<handled, replies>>
          /\ cache' = [cache EXCEPT ![n] = LiveIds(@, now)]
      BY <2>2 DEF IgnoreDuplicate
    <3>2. LiveIds(cache[n], now) \subseteq cache[n]
      BY DEF LiveIds
    <3>3. cache' \in [Node -> SUBSET [context : Node, id : RequestId, expire : Nat]]
      BY <1>2, <3>1, <3>2 DEF SentTyped
    <3> QED BY <1>2, <1>3, <3>1, <3>3 DEF RecvRReq, SentTyped, RestTyped
  <2>3. CASE HandleRReq(n, m)
    <3>1. /\ table' \in [Node -> Table]
          /\ cache' \in [Node -> SUBSET [context : Node, id : RequestId, expire : Nat]]
          /\ handled' \subseteq Handling
      BY <1>1, <2>3, HandleTyped
    <3>2. TableAfter(n, m) \in Table
      BY <1>1, TableAfterTyped
    <3>3. AnswerAsDestination(n, m) \/ ForwardRReq(n, m, TableAfter(n, m))
      BY <2>3 DEF HandleRReq
    <3>4. /\ air' \subseteq [from : Node, to : Node, sent : Nat, rreq : Rreq]
          /\ replies' \subseteq [by : Node, origin : Node, id : RequestId, dst : Node,
                                 seqNo : RequestId]
      BY <1>1, <3>2, <3>3, FateTyped
    <3> QED BY <1>2, <3>1, <3>4 DEF RecvRReq, SentTyped, RestTyped
  <2> QED BY <2>1, <2>2, <2>3 DEF RecvRReq
<1>5. Waiting' /\ NoDiscoveryLost'
  BY DEF RecvRReq, TInv, Waiting, NoDiscoveryLost
<1> QED BY <1>4, <1>5, TypedPartsPrime DEF TInv

LEMMA InitTInv == Init => TInv
<1> SUFFICES ASSUME Init PROVE TInv
  OBVIOUS
<1>1. [d \in {} |-> 0] \in Table
  BY DEF Table
<1>2. SentTyped
  BY <1>1, RateNat DEF Init, SentTyped, RequestId
<1>3. \A S : << >> \in Seq(S) /\ Len(<< >>) = 0
  OBVIOUS
<1>4. RestTyped
  BY <1>3, TimeAssumption DEF Init, RestTyped, RequestId
<1>5. Waiting /\ NoDiscoveryLost
  BY <1>3 DEF Init, Waiting, NoDiscoveryLost
<1> QED BY <1>2, <1>4, <1>5, TypedParts DEF TInv

LEMMA StepTInv == TInv /\ [Next]_vars => TInv'
<1> SUFFICES ASSUME TInv, [Next]_vars PROVE TInv'
  OBVIOUS
<1>1. SentTyped /\ RestTyped
  BY TypedParts DEF TInv
<1>2. CASE \E n \in Node, dst \in Node : SendRequest(n, dst)
  BY <1>2, SendRequestTInv
<1>3. CASE \E n \in Node : SendDeferredRequest(n)
  BY <1>3, SendDeferredRequestTInv
<1>4. ASSUME NEW n \in Node, RreqRateLimitTimerExpire(n) PROVE TInv'
  <2>1. /\ rreqCount' = [rreqCount EXCEPT ![n] = 0]
        /\ due' = [due EXCEPT ![n] = Len(deferred[n])]
        /\ UNCHANGED <<now, seqNo, requestId, deferred, table, cache, air, asked,
                      handled, replies>>
    BY <1>4 DEF RreqRateLimitTimerExpire
  <2>2. Len(deferred[n]) \in Nat
    BY DEF TInv, Waiting
  <2>4. SentTyped' /\ RestTyped'
    BY <1>1, <2>1, <2>2, RateNat DEF SentTyped, RestTyped
  <2>5. Waiting'
    <3> SUFFICES ASSUME NEW p \in Node PROVE due'[p] =< Len(deferred[p])
      BY <2>1 DEF TInv, Waiting
    <3>1. due \in [Node -> Nat] /\ due[p] =< Len(deferred[p])
      BY <1>1 DEF RestTyped, TInv, Waiting
    <3> QED BY <2>1, <2>2, <3>1
  <2>6. NoDiscoveryLost'
    BY <2>1 DEF TInv, NoDiscoveryLost
  <2> QED BY <2>4, <2>5, <2>6, TypedPartsPrime DEF TInv
<1>5. CASE \E n \in Node, m \in air : RecvRReq(n, m)
  BY <1>5, RecvRReqTInv
<1>6. ASSUME NEW n \in Node, NEW nb \in Node, AckTimerExpire(n, nb) PROVE TInv'
  <2>1. MarkLinkAsUnidirectional(table[n], nb) \in Table
    BY <1>1, MarkTyped DEF SentTyped
  <2>2. /\ table' = [table EXCEPT ![n] = MarkLinkAsUnidirectional(@, nb)]
        /\ UNCHANGED <<now, seqNo, requestId, rreqCount, deferred, due, cache, air,
                      asked, handled, replies>>
    BY <1>6 DEF AckTimerExpire
  <2>3. SentTyped' /\ RestTyped'
    BY <1>1, <2>1, <2>2 DEF SentTyped, RestTyped
  <2>4. Waiting' /\ NoDiscoveryLost'
    BY <2>2 DEF TInv, Waiting, NoDiscoveryLost
  <2> QED BY <2>3, <2>4, TypedPartsPrime DEF TInv
<1>7. CASE Tick
  <2>1. now' \in 0 .. MaxTime
    BY <1>7, TimeAssumption DEF Tick, TInv, Typed, TypeOK
  <2>2. UNCHANGED <<seqNo, requestId, rreqCount, deferred, due, table, cache, air, asked,
                    handled, replies>>
    BY <1>7 DEF Tick
  <2>3. SentTyped' /\ RestTyped'
    BY <1>1, <2>1, <2>2 DEF SentTyped, RestTyped
  <2>4. Waiting' /\ NoDiscoveryLost'
    BY <2>2 DEF TInv, Waiting, NoDiscoveryLost
  <2> QED BY <2>3, <2>4, TypedPartsPrime DEF TInv
<1>8. CASE UNCHANGED vars
  <2>1. SentTyped' /\ RestTyped'
    BY <1>1, <1>8 DEF vars, SentTyped, RestTyped
  <2>2. Waiting' /\ NoDiscoveryLost'
    BY <1>8 DEF vars, TInv, Waiting, NoDiscoveryLost
  <2> QED BY <2>1, <2>2, TypedPartsPrime DEF TInv
<1> QED BY <1>2, <1>3, <1>4, <1>5, <1>6, <1>7, <1>8 DEF Next

LEMMA AlwaysTInv == Spec => []TInv
  BY InitTInv, StepTInv, PTL DEF Spec

\* Every variable keeps its type, whatever the nodes, the timing and the loss.
THEOREM TypeCorrect == Spec => []TypeOK
<1>1. TInv => TypeOK
  BY DEF TInv, Typed
<1> QED BY <1>1, AlwaysTInv, PTL

\* Calls of SendRequest are conserved: each is an RREQ sent or a call waiting.
THEOREM DiscoveriesConserved == Spec => []NoDiscoveryLost
<1>1. TInv => NoDiscoveryLost
  BY DEF TInv
<1> QED BY <1>1, AlwaysTInv, PTL

-----------------------------------------------------------------------------
(* The flood: no node handles an RREQ twice.                               *)
(*                                                                         *)
(* A copy in the air was sent before its originator's clock advanced one   *)
(* HopDelay for each node that handled the RREQ: a flood is over when that *)
(* many HopDelays have passed, and CacheOutlivesFlood says that no node    *)
(* has forgotten the RREQ by then.                                         *)

Handlers(o, i) == {h.node : h \in {g \in handled : g.origin = o /\ g.id = i}}

\* g is the originator's own handling of its RREQ <<o, i>>.
Root(g, o, i) == g.node = o /\ g.origin = o /\ g.id = i

PastOnly ==
    \A h \in handled : h.id =< requestId[h.origin] /\ h.at =< now

Rooted ==
    \A h \in handled : \E g \in handled : Root(g, h.origin, h.id) /\ g.at =< h.at

InTime ==
    \A m \in air :
        /\ m.sent =< now /\ now =< m.sent + HopDelay
        /\ \E g \in handled :
              /\ Root(g, m.rreq.origin, m.rreq.id)
              /\ m.sent + HopDelay
                    =< g.at + Cardinality(Handlers(m.rreq.origin, m.rreq.id)) * HopDelay

Remembered ==
    \A h \in handled : now =< h.at + PathDiscoveryTime =>
        \E u \in cache[h.node] : /\ u.context = h.origin /\ u.id = h.id
                                 /\ u.expire = h.at + PathDiscoveryTime

FloodInv == PastOnly /\ Rooted /\ InTime /\ Remembered /\ HandledOnce /\ NoRouteToSelf

LEMMA TimesMonotone ==
    ASSUME NEW a \in Nat, NEW b \in Nat, NEW d \in Nat, a =< b
    PROVE  a * d =< b * d
<1>1. PICK c \in Nat : b = a + c
  <2>1. b - a \in Nat /\ b = a + (b - a)
    OBVIOUS
  <2> QED BY <2>1
<1>2. b * d = a * d + c * d
  BY <1>1
<1>3. c * d \in Nat /\ a * d \in Nat
  OBVIOUS
<1> QED BY <1>2, <1>3

LEMMA HandlersFinite ==
    ASSUME Typed, NEW o, NEW i
    PROVE  /\ IsFiniteSet(Handlers(o, i)) /\ Handlers(o, i) \subseteq Node
           /\ Cardinality(Handlers(o, i)) \in Nat
           /\ Cardinality(Node) \in Nat
           /\ Cardinality(Handlers(o, i)) =< Cardinality(Node)
<1>1. Handlers(o, i) \subseteq Node
  BY DEF Handlers, Typed, TypeOK, Handling
<1>2. IsFiniteSet(Node)
  BY NodeAssumption
<1> QED BY <1>1, <1>2, FS_Subset, FS_CardinalityType

LEMMA HandlersFinitePrime ==
    ASSUME Typed', NEW o, NEW i
    PROVE  IsFiniteSet(Handlers(o, i)') /\ Cardinality(Handlers(o, i)') \in Nat
<1>1. Handlers(o, i)' \subseteq Node
  <2>1. handled' \subseteq Handling
    BY DEF Typed, TypeOK
  <2> QED BY <2>1 DEF Handlers, Handling
<1>2. IsFiniteSet(Node)
  BY NodeAssumption
<1> QED BY <1>1, <1>2, FS_Subset, FS_CardinalityType

\* Steps that handle nothing and forget only ids that have expired.
LEMMA QuietFlood ==
    ASSUME TInv, FloodInv, now' = now, handled' = handled, requestId' = requestId,
           air' \subseteq air,
           \A n \in Node : LiveIds(cache[n], now) \subseteq cache'[n],
           \A n \in Node : DOMAIN table'[n] \subseteq DOMAIN table[n]
    PROVE  FloodInv'
<1>1. PastOnly' /\ Rooted' /\ HandledOnce'
  BY DEF FloodInv, PastOnly, Rooted, HandledOnce, Root
<1>2. InTime'
  <2>1. \A o, i : Handlers(o, i)' = Handlers(o, i)
    BY DEF Handlers
  <2> QED BY <2>1 DEF FloodInv, InTime, Root
<1>3. Remembered'
  <2> SUFFICES ASSUME NEW h \in handled, now =< h.at + PathDiscoveryTime
               PROVE  \E u \in cache'[h.node] :
                         /\ u.context = h.origin /\ u.id = h.id
                         /\ u.expire = h.at + PathDiscoveryTime
    BY DEF Remembered
  <2>1. PICK u \in cache[h.node] : /\ u.context = h.origin /\ u.id = h.id
                                   /\ u.expire = h.at + PathDiscoveryTime
    BY DEF FloodInv, Remembered
  <2>2. h.node \in Node /\ h.at + PathDiscoveryTime \in Nat /\ now \in Nat
    <3>1. h.node \in Node /\ h.at \in Nat
      BY DEF TInv, Typed, TypeOK, Handling
    <3> QED BY <3>1, NowTyped, TimeAssumption DEF TInv
  <2>3. u \in LiveIds(cache[h.node], now)
    BY <2>1, <2>2 DEF LiveIds
  <2> QED BY <2>1, <2>2, <2>3
<1>4. NoRouteToSelf'
  BY DEF FloodInv, NoRouteToSelf
<1> QED BY <1>1, <1>2, <1>3, <1>4 DEF FloodInv

LEMMA TickFlood ==
    ASSUME TInv, FloodInv, Tick
    PROVE  FloodInv'
<1>1. /\ now' = now + 1 /\ now \in Nat
      /\ UNCHANGED <<requestId, table, cache, air, handled>>
      /\ \A m \in air : now < m.sent + HopDelay
  BY NowTyped DEF Tick, TInv
<1>2. /\ \A h \in handled : h.at \in Nat
      /\ \A m \in air : m.sent \in Nat
  BY DEF TInv, Typed, TypeOK, Handling
<1>3. PastOnly'
  BY <1>1, <1>2 DEF FloodInv, PastOnly
<1>4. Rooted' /\ HandledOnce' /\ NoRouteToSelf'
  BY <1>1 DEF FloodInv, Rooted, Root, HandledOnce, NoRouteToSelf
<1>5. InTime'
  <2>1. \A o, i : Handlers(o, i)' = Handlers(o, i)
    BY <1>1 DEF Handlers
  <2>2. \A m \in air : m.sent =< now' /\ now' =< m.sent + HopDelay
    BY <1>1, <1>2, TimeAssumption DEF FloodInv, InTime
  <2> QED BY <1>1, <2>1, <2>2 DEF FloodInv, InTime, Root
<1>6. Remembered'
  <2> SUFFICES ASSUME NEW h \in handled, now' =< h.at + PathDiscoveryTime
               PROVE  \E u \in cache[h.node] :
                         /\ u.context = h.origin /\ u.id = h.id
                         /\ u.expire = h.at + PathDiscoveryTime
    BY <1>1 DEF Remembered
  <2>1. now =< h.at + PathDiscoveryTime
    BY <1>1, <1>2, TimeAssumption
  <2> QED BY <2>1 DEF FloodInv, Remembered
<1> QED BY <1>3, <1>4, <1>5, <1>6 DEF FloodInv

\* Node n handles an RREQ it has not handled before, and registers its id.
LEMMA NewHandling ==
    ASSUME TInv, FloodInv, NEW n \in Node, NEW k \in Handling,
           k.node = n, k.at = now, now' = now, handled' = handled \cup {k},
           \A h \in handled : ~(h.node = n /\ h.origin = k.origin /\ h.id = k.id),
           \A o \in Node : requestId[o] =< requestId'[o],
           requestId' \in [Node -> Nat], k.id =< requestId'[k.origin],
           \E g \in handled' : Root(g, k.origin, k.id) /\ g.at =< now,
           cache' = [cache EXCEPT ![n] =
                        Registered(@, now, PathDiscoveryTime, k.origin, k.id)]
    PROVE  PastOnly' /\ Rooted' /\ Remembered' /\ HandledOnce'
<1>1. now \in Nat /\ requestId \in [Node -> Nat] /\ PathDiscoveryTime \in Nat
  BY NowTyped, TimeAssumption DEF TInv, Typed, TypeOK, RequestId
<1>2. \A h \in handled : /\ h.node \in Node /\ h.origin \in Node /\ h.id \in Nat
                         /\ h.at \in Nat
  BY HandledTyped DEF TInv
<1>3. PastOnly'
  <2> SUFFICES ASSUME NEW h \in handled' PROVE h.id =< requestId'[h.origin] /\ h.at =< now
    BY DEF PastOnly
  <2>1. CASE h = k
    BY <1>1, <2>1
  <2>2. CASE h \in handled
    <3>1. h.id =< requestId[h.origin] /\ h.at =< now
      BY <2>2 DEF FloodInv, PastOnly
    <3>2. requestId[h.origin] =< requestId'[h.origin]
      BY <1>2, <2>2
    <3>3. requestId[h.origin] \in Nat /\ requestId'[h.origin] \in Nat /\ h.id \in Nat
      BY <1>1, <1>2, <2>2
    <3> QED BY <3>1, <3>2, <3>3
  <2> QED BY <2>1, <2>2
<1>4. Rooted'
  BY DEF FloodInv, Rooted, Root
<1>5. HandledOnce'
  BY DEF FloodInv, HandledOnce
<1>6. Remembered'
  <2> SUFFICES ASSUME NEW h \in handled', now =< h.at + PathDiscoveryTime
               PROVE  \E u \in cache'[h.node] :
                         /\ u.context = h.origin /\ u.id = h.id
                         /\ u.expire = h.at + PathDiscoveryTime
    BY DEF Remembered
  <2>1. cache'[n] = Registered(cache[n], now, PathDiscoveryTime, k.origin, k.id)
    BY DEF TInv, Typed, TypeOK
  <2>2. \A p \in Node \ {n} : cache'[p] = cache[p]
    BY DEF TInv, Typed, TypeOK
  <2>3. CASE h = k
    <3> DEFINE u == [context |-> k.origin, id |-> k.id, expire |-> now + PathDiscoveryTime]
    <3>1. u \in cache'[n]
      BY <2>1 DEF Registered
    <3>2. u.context = h.origin /\ u.id = h.id /\ u.expire = h.at + PathDiscoveryTime
      BY <2>3
    <3> QED BY <2>3, <3>1, <3>2
  <2>4. CASE h \in handled
    <3>1. PICK u \in cache[h.node] : /\ u.context = h.origin /\ u.id = h.id
                                     /\ u.expire = h.at + PathDiscoveryTime
      BY <2>4 DEF FloodInv, Remembered
    <3>2. u.expire \in Nat
      BY <1>1, <1>2, <2>4, <3>1
    <3>3. u \in LiveIds(cache[h.node], now)
      BY <1>1, <3>1, <3>2 DEF LiveIds
    <3>4. u \in cache'[h.node]
      BY <1>2, <2>1, <2>2, <2>4, <3>1, <3>3 DEF Registered
    <3> QED BY <3>1, <3>4
  <2> QED BY <2>3, <2>4
<1> QED BY <1>3, <1>4, <1>5, <1>6

\* The copies in the air stay in time when the copies added are of the RREQ
\* just handled, sent now, and one HopDelay fits below the new bound.
LEMMA AirInTime ==
    ASSUME TInv, FloodInv, NEW k \in Handling, Typed', handled' = handled \cup {k},
           now' = now,
           \E g \in handled' :
               /\ Root(g, k.origin, k.id)
               /\ now + HopDelay
                     =< g.at + Cardinality(Handlers(k.origin, k.id)') * HopDelay,
           \A c \in air' : c \in air \/ /\ c.sent = now
                                        /\ c.rreq.origin = k.origin
                                        /\ c.rreq.id = k.id
    PROVE  InTime'
<1> SUFFICES ASSUME NEW c \in air'
             PROVE  /\ c.sent =< now /\ now =< c.sent + HopDelay
                    /\ \E g \in handled' :
                          /\ Root(g, c.rreq.origin, c.rreq.id)
                          /\ c.sent + HopDelay =< g.at +
                                Cardinality(Handlers(c.rreq.origin, c.rreq.id)') * HopDelay
  BY DEF InTime, Root
<1>1. now \in Nat /\ HopDelay \in Nat
  BY NowTyped, TimeAssumption DEF TInv
<1>2. CASE c.sent = now /\ c.rreq.origin = k.origin /\ c.rreq.id = k.id
  BY <1>1, <1>2
<1>3. CASE c \in air
  <2> DEFINE o == c.rreq.origin
             i == c.rreq.id
             before == Cardinality(Handlers(o, i))
             after == Cardinality(Handlers(o, i)')
  <2>1. PICK g \in handled : Root(g, o, i) /\ c.sent + HopDelay =< g.at + before * HopDelay
    BY <1>3 DEF FloodInv, InTime
  <2>2. before \in Nat
    BY HandlersFinite DEF TInv
  <2>3. IsFiniteSet(Handlers(o, i)')
    BY HandlersFinitePrime
  <2>4. Handlers(o, i) \subseteq Handlers(o, i)'
    BY DEF Handlers
  <2>5. after \in Nat /\ before =< after
    BY <2>3, <2>4, FS_Subset, FS_CardinalityType
  <2>6. c.sent \in Nat /\ g.at \in Nat
    BY <1>3, <2>1 DEF TInv, Typed, TypeOK, Handling
  <2> HIDE DEF before, after, o, i
  <2>7. before * HopDelay =< after * HopDelay
    BY <1>1, <2>2, <2>5, TimesMonotone
  <2>8. before * HopDelay \in Nat /\ after * HopDelay \in Nat
    BY <1>1, <2>2, <2>5
  <2>9. c.sent + HopDelay =< g.at + after * HopDelay
    BY <1>1, <2>1, <2>6, <2>7, <2>8
  <2>10. c.sent =< now /\ now =< c.sent + HopDelay
    BY <1>3 DEF FloodInv, InTime
  <2>11. g \in handled'
    BY <2>1
  <2> QED BY <2>1, <2>9, <2>10, <2>11 DEF o, i, after
<1> QED BY <1>2, <1>3

LEMMA OriginateFlood ==
    ASSUME TInv, FloodInv, Typed', NEW n \in Node, NEW dst \in Node \ {n},
           Originate(n, dst), now' = now
    PROVE  FloodInv'
<1>0. requestId \in [Node -> Nat] /\ requestId[n] + 1 \in Nat
  <2>1. requestId \in [Node -> Nat]
    BY DEF TInv, Typed, TypeOK, RequestId
  <2> QED BY <2>1
<1>1. now \in Nat /\ HopDelay \in Nat
  BY NowTyped, TimeAssumption DEF TInv
<1> PICK i \in Nat : i = requestId[n] + 1
  BY <1>0
<1> PICK k \in Handling :
        /\ k = [node |-> n, origin |-> n, id |-> i, from |-> n, hop |-> 0, at |-> now,
                wants |-> NewRreq(n, dst).dstSeqno]
        /\ handled' = handled \cup {k}
  <2> DEFINE r == [node |-> n, origin |-> n, id |-> i, from |-> n, hop |-> 0,
                   at |-> now, wants |-> NewRreq(n, dst).dstSeqno]
  <2>1. handled' = handled \cup {r}
    BY DEF Originate
  <2>2. r \in Handling
    BY <2>1 DEF Typed, TypeOK
  <2> QED BY <2>1, <2>2
<1>2. handled' = handled \cup {k}
  OBVIOUS
<1>3. requestId' = [requestId EXCEPT ![n] = i]
  BY DEF Originate
<1>4. cache' = [cache EXCEPT ![n] = Registered(@, now, PathDiscoveryTime, n, i)]
  BY DEF Originate
<1>5. k \in Handling
  OBVIOUS
<1>6. NewRreq(n, dst).origin = n /\ NewRreq(n, dst).id = i
  BY DEF NewRreq
<1>7. \A c \in air' : c \in air \/ (c.sent = now /\ c.rreq.origin = n /\ c.rreq.id = i)
  <2>1. PICK heard \in SUBSET (Node \ {n}) :
            air' = air \cup Copies(n, NewRreq(n, dst), heard)
    BY DEF Originate
  <2>2. \A c \in Copies(n, NewRreq(n, dst), heard) : c.sent = now /\ c.rreq = NewRreq(n, dst)
    BY DEF Copies
  <2> QED BY <1>6, <2>1, <2>2
<1>8. k.node = n /\ k.origin = n /\ k.id = i /\ k.at = now
  OBVIOUS
<1>9. \A h \in handled : ~(h.node = n /\ h.origin = n /\ h.id = i)
  <2> SUFFICES ASSUME NEW h \in handled, h.origin = n, h.id = i PROVE FALSE
    OBVIOUS
  <2>1. h.id =< requestId[n]
    BY DEF FloodInv, PastOnly
  <2> QED BY <1>0, <2>1
<1>10. /\ \A o \in Node : requestId[o] =< requestId'[o]
       /\ requestId' \in [Node -> Nat] /\ requestId'[n] = i
  BY <1>0, <1>3
<1>11. k \in handled' /\ Root(k, n, i) /\ k.at =< now
  BY <1>1, <1>2, <1>8 DEF Root
<1>12. PastOnly' /\ Rooted' /\ Remembered' /\ HandledOnce'
  <2>1. k.id =< requestId'[k.origin]
    BY <1>8, <1>10
  <2>2. \A h \in handled : ~(h.node = n /\ h.origin = k.origin /\ h.id = k.id)
    BY <1>8, <1>9
  <2>3. cache' = [cache EXCEPT ![n] =
                     Registered(@, now, PathDiscoveryTime, k.origin, k.id)]
    BY <1>4, <1>8
  <2>4. \E g \in handled' : Root(g, k.origin, k.id) /\ g.at =< now
    BY <1>8, <1>11
  <2>5. k.node = n /\ k.at = now
    BY <1>8
  <2> QED BY <1>2, <1>10, <2>1, <2>2, <2>3, <2>4, <2>5, NewHandling
<1>13. InTime'
  <2> DEFINE c == Cardinality(Handlers(n, i)')
  <2>1. n \in Handlers(n, i)'
    BY <1>2, <1>8 DEF Handlers
  <2>2. IsFiniteSet(Handlers(n, i)') /\ c \in Nat
    BY HandlersFinitePrime
  <2>3. c # 0
    BY <2>1, <2>2, FS_EmptySet
  <2> HIDE DEF c
  <2>4. 1 * HopDelay =< c * HopDelay /\ c * HopDelay \in Nat
    BY <1>1, <2>2, <2>3, TimesMonotone
  <2>5. now + HopDelay =< k.at + c * HopDelay
    BY <1>1, <1>8, <2>4
  <2> QED BY <1>2, <1>5, <1>7, <1>8, <1>11, <2>5, AirInTime DEF c
<1>14. NoRouteToSelf'
  <2> SUFFICES ASSUME NEW p \in Node PROVE p \notin DOMAIN table'[p]
    BY DEF NoRouteToSelf
  <2>1. table[p] \in Table /\ p \notin DOMAIN table[p] /\ table \in [Node -> Table]
    BY DEF TInv, Typed, FloodInv, NoRouteToSelf
  <2>2. CASE p # n
    BY <2>1, <2>2 DEF Originate
  <2>3. CASE p = n
    <3>1. Purged(n) \in Table /\ DOMAIN Purged(n) \subseteq DOMAIN table[n]
      BY <1>1, <2>1, <2>3, PurgeTyped DEF Purged
    <3>2. DOMAIN Searching(Purged(n), dst) \subseteq DOMAIN Purged(n) \cup {dst}
      BY <1>1, <3>1, SearchingTyped
    <3> QED BY <2>1, <2>3, <3>1, <3>2 DEF Originate
  <2> QED BY <2>2, <2>3
<1> QED BY <1>12, <1>13, <1>14 DEF FloodInv

\* The heart of the argument: a copy that passes the duplicate filter is the
\* first of its RREQ to do so at this node.
LEMMA PassesOnce ==
    ASSUME TInv, FloodInv, NEW n \in Node, NEW m \in air,
           ~IsDuplicate(cache[n], now, m.rreq.origin, m.rreq.id)
    PROVE  \A h \in handled :
               ~(h.node = n /\ h.origin = m.rreq.origin /\ h.id = m.rreq.id)
<1> DEFINE o == m.rreq.origin
           i == m.rreq.id
           c == Cardinality(Handlers(o, i))
           all == Cardinality(Node)
<1> SUFFICES ASSUME NEW h \in handled, h.node = n, h.origin = o, h.id = i PROVE FALSE
  OBVIOUS
<1>1. PICK g \in handled : Root(g, o, i) /\ m.sent + HopDelay =< g.at + c * HopDelay
  BY DEF FloodInv, InTime
<1>2. now =< m.sent + HopDelay
  BY DEF FloodInv, InTime
<1>3. g.at =< h.at
  <2>1. PICK f \in handled : Root(f, o, i) /\ f.at =< h.at
    BY DEF FloodInv, Rooted
  <2>2. f = g
    BY <1>1, <2>1 DEF FloodInv, HandledOnce, Root
  <2> QED BY <2>1, <2>2
<1>4. c \in Nat /\ all \in Nat /\ c =< all
  BY HandlersFinite DEF TInv
<1>5. now \in Nat /\ HopDelay \in Nat /\ PathDiscoveryTime \in Nat
  BY NowTyped, TimeAssumption DEF TInv
<1>6. m.sent \in Nat /\ g.at \in Nat /\ h.at \in Nat
  BY AirTyped, HandledTyped DEF TInv
<1>7. all * HopDelay =< PathDiscoveryTime
  BY CacheOutlivesFlood
<1> HIDE DEF o, i, c, all
<1>8. c * HopDelay =< all * HopDelay /\ c * HopDelay \in Nat /\ all * HopDelay \in Nat
  BY <1>4, <1>5, TimesMonotone
<1>9. now =< h.at + PathDiscoveryTime
  BY <1>1, <1>2, <1>3, <1>5, <1>6, <1>7, <1>8
<1>10. PICK u \in cache[n] : /\ u.context = o /\ u.id = i
                             /\ u.expire = h.at + PathDiscoveryTime
  BY <1>9 DEF FloodInv, Remembered
<1>11. ~(u.expire < now)
  BY <1>5, <1>6, <1>9, <1>10
<1> QED BY <1>10, <1>11 DEF IsDuplicate, LiveIds, o, i

LEMMA HandleFlood ==
    ASSUME TInv, FloodInv, Typed', NEW n \in Node, NEW m \in air,
           HandleRReq(n, m), now' = now, requestId' = requestId
    PROVE  FloodInv'
<1> DEFINE o == m.rreq.origin
           i == m.rreq.id
           c == Cardinality(Handlers(o, i))
           d == Cardinality(Handlers(o, i)')
<1>1. now \in Nat /\ HopDelay \in Nat /\ requestId \in [Node -> Nat]
  BY NowTyped, TimeAssumption DEF TInv, Typed, TypeOK, RequestId
<1>0. PICK k \in Handling :
        /\ k = [node |-> n, origin |-> o, id |-> i, from |-> m.from,
                hop |-> (m.rreq.hopCount + 1) % 256, at |-> now,
                wants |-> m.rreq.dstSeqno]
        /\ handled' = handled \cup {k}
  <2> DEFINE r == [node |-> n, origin |-> o, id |-> i, from |-> m.from,
                   hop |-> (m.rreq.hopCount + 1) % 256, at |-> now,
                   wants |-> m.rreq.dstSeqno]
  <2>1. handled' = handled \cup {r}
    BY DEF HandleRReq
  <2>2. r \in Handling
    BY <2>1 DEF Typed, TypeOK
  <2> QED BY <2>1, <2>2
<1>2. handled' = handled \cup {k}
  BY <1>0
<1>3. cache' = [cache EXCEPT ![n] = Registered(@, now, PathDiscoveryTime, o, i)]
  BY DEF HandleRReq
<1>5. k.node = n /\ k.origin = o /\ k.id = i /\ k.at = now
  BY <1>0
<1>6. \A h \in handled : ~(h.node = n /\ h.origin = o /\ h.id = i)
  BY PassesOnce DEF HandleRReq
<1>7. PICK g \in handled : Root(g, o, i) /\ m.sent + HopDelay =< g.at + c * HopDelay
  BY DEF FloodInv, InTime
<1>8. g.at =< now /\ g.at \in Nat /\ m.sent \in Nat
  <2>1. g.at =< now
    BY DEF FloodInv, PastOnly
  <2> QED BY <2>1, AirTyped, HandledTyped DEF TInv
<1>9. now =< m.sent + HopDelay
  BY DEF FloodInv, InTime
<1>10. \A a \in air' : a \in air \/ (a.sent = now /\ a.rreq.origin = o /\ a.rreq.id = i)
  <2>1. TableAfter(n, m) \in Table
    BY TableAfterTyped DEF TInv
  <2>2. AnswerAsDestination(n, m) \/ ForwardRReq(n, m, TableAfter(n, m))
    BY DEF HandleRReq
  <2> QED BY <2>1, <2>2, FateTyped DEF TInv
<1>11. d = c + 1 /\ c \in Nat
  <2>1. Handlers(o, i)' = Handlers(o, i) \cup {n}
    BY <1>2, <1>5 DEF Handlers
  <2>2. n \notin Handlers(o, i)
    BY <1>6 DEF Handlers
  <2>3. IsFiniteSet(Handlers(o, i)) /\ c \in Nat
    BY HandlersFinite DEF TInv
  <2> QED BY <2>1, <2>2, <2>3, FS_AddElement
<1>12. o \in Node /\ i \in Nat
  BY AirTyped DEF TInv
<1> HIDE DEF c, d
<1>13. g \in handled' /\ k.id =< requestId'[k.origin]
  <2>1. g.id =< requestId[g.origin] /\ g.id = i /\ g.origin = o
    BY <1>7 DEF FloodInv, PastOnly, Root
  <2> QED BY <1>2, <1>5, <2>1
<1>14. PastOnly' /\ Rooted' /\ Remembered' /\ HandledOnce'
  <2>2. \A p \in Node : requestId[p] =< requestId'[p]
    BY <1>1
  <2>3. \A h \in handled : ~(h.node = n /\ h.origin = k.origin /\ h.id = k.id)
    BY <1>5, <1>6
  <2>4. cache' = [cache EXCEPT ![n] =
                     Registered(@, now, PathDiscoveryTime, k.origin, k.id)]
    BY <1>3, <1>5
  <2>5. requestId' \in [Node -> Nat] /\ k.id =< requestId'[k.origin]
    BY <1>1, <1>13
  <2>6. k.node = n /\ k.at = now
    BY <1>5
  <2>7. \E f \in handled' : Root(f, k.origin, k.id) /\ f.at =< now
    <3>1. g \in handled' /\ Root(g, k.origin, k.id) /\ g.at =< now
      BY <1>5, <1>7, <1>8, <1>13
    <3> QED BY <3>1
  <2> QED BY <1>2, <2>2, <2>3, <2>4, <2>5, <2>6, <2>7, NewHandling
<1>15. InTime'
  <2>1. d * HopDelay = c * HopDelay + HopDelay /\ c * HopDelay \in Nat
    BY <1>1, <1>11
  <2>2. now + HopDelay =< g.at + d * HopDelay
    BY <1>1, <1>7, <1>8, <1>9, <2>1
  <2>3. now + HopDelay =< g.at + Cardinality(Handlers(k.origin, k.id)') * HopDelay
    BY <1>5, <2>2 DEF d
  <2>4. Root(g, k.origin, k.id)
    BY <1>5, <1>7
  <2>5. \A a \in air' : a \in air \/ (a.sent = now /\ a.rreq.origin = k.origin
                                                   /\ a.rreq.id = k.id)
    BY <1>5, <1>10
  <2> QED BY <1>2, <1>13, <2>3, <2>4, <2>5, AirInTime
<1>16. NoRouteToSelf'
  <2> SUFFICES ASSUME NEW p \in Node PROVE p \notin DOMAIN table'[p]
    BY DEF NoRouteToSelf
  <2>1. p \notin DOMAIN table[p] /\ table \in [Node -> Table]
    BY DEF TInv, Typed, FloodInv, NoRouteToSelf
  <2>2. table' = [table EXCEPT ![n] = TableAfter(n, m)]
    BY DEF HandleRReq
  <2>3. CASE p # n
    BY <2>1, <2>2, <2>3
  <2>4. CASE p = n
    <3>1. o # n
      BY <1>6, <1>7 DEF Root
    <3>2. DOMAIN TableAfter(n, m) \subseteq DOMAIN table[n] \cup {o}
      BY TableAfterTyped DEF TInv
    <3> QED BY <2>1, <2>2, <2>4, <3>1, <3>2
  <2> QED BY <2>3, <2>4
<1> QED BY <1>14, <1>15, <1>16 DEF FloodInv

LEMMA PurgedDomain ==
    ASSUME TInv, NEW n \in Node
    PROVE  DOMAIN Purged(n) \subseteq DOMAIN table[n]
  BY NowTyped, PurgeTyped DEF TInv, Typed, Purged

LEMMA DeferFlood ==
    ASSUME TInv, FloodInv, now' = now, NEW n \in Node, NEW dst, NEW waiting,
           Defer(n, dst, waiting)
    PROVE  FloodInv'
<1>1. UNCHANGED <<table, requestId, cache, handled, air>>
  BY DEF Defer
<1>2. \A p \in Node : LiveIds(cache[p], now) \subseteq cache'[p]
  BY <1>1 DEF LiveIds
<1> QED BY <1>1, <1>2, QuietFlood

LEMMA RecvRReqFlood ==
    ASSUME TInv, TInv', FloodInv, NEW n \in Node, NEW m \in air, RecvRReq(n, m)
    PROVE  FloodInv'
<1>1. now' = now /\ requestId' = requestId
  BY DEF RecvRReq
<1>2. table \in [Node -> Table] /\ DOMAIN Purged(n) \subseteq DOMAIN table[n]
  BY PurgedDomain DEF TInv, Typed
<1>3. ASSUME table' = [table EXCEPT ![n] = Purged(n)], air' = air \ {m},
             handled' = handled,
             \A p \in Node : LiveIds(cache[p], now) \subseteq cache'[p]
      PROVE  FloodInv'
  <2>1. \A p \in Node : DOMAIN table'[p] \subseteq DOMAIN table[p]
    BY <1>2, <1>3
  <2> QED BY <1>1, <1>3, <2>1, QuietFlood
<1>4. CASE IgnoreBlacklisted(n, m)
  <2>1. \A p \in Node : LiveIds(cache[p], now) \subseteq cache'[p]
    BY <1>4 DEF IgnoreBlacklisted, LiveIds
  <2> QED BY <1>3, <1>4, <2>1 DEF IgnoreBlacklisted
<1>5. CASE IgnoreDuplicate(n, m)
  <2>1. cache \in [Node -> SUBSET [context : Node, id : RequestId, expire : Nat]]
    BY DEF TInv, Typed, TypeOK
  <2>2. cache' = [cache EXCEPT ![n] = LiveIds(@, now)]
    BY <1>5 DEF IgnoreDuplicate
  <2>3. \A p \in Node : LiveIds(cache[p], now) \subseteq cache'[p]
    BY <2>1, <2>2 DEF LiveIds
  <2> QED BY <1>3, <1>5, <2>3 DEF IgnoreDuplicate
<1>6. CASE HandleRReq(n, m)
  BY <1>1, <1>6, HandleFlood DEF TInv
<1> QED BY <1>4, <1>5, <1>6 DEF RecvRReq

LEMMA InitFloodInv == Init => FloodInv
  BY DEF Init, FloodInv, PastOnly, Rooted, InTime, Remembered, HandledOnce, NoRouteToSelf

LEMMA StepFloodInv == TInv /\ TInv' /\ FloodInv /\ [Next]_vars => FloodInv'
<1> SUFFICES ASSUME TInv, TInv', FloodInv, [Next]_vars PROVE FloodInv'
  OBVIOUS
<1>1. \A p \in Node : LiveIds(cache[p], now) \subseteq cache[p]
  BY DEF LiveIds
<1>2. ASSUME NEW n \in Node, NEW dst \in Node, SendRequest(n, dst) PROVE FloodInv'
  <2>1. dst \in Node \ {n} /\ now' = now
    BY <1>2, BoundAssumption DEF SendRequest
  <2>2. CASE Originate(n, dst)
    BY <2>1, <2>2, OriginateFlood DEF TInv
  <2>3. CASE Defer(n, dst, deferred[n])
    BY <2>1, <2>3, DeferFlood
  <2> QED BY <1>2, <2>2, <2>3 DEF SendRequest
<1>3. ASSUME NEW n \in Node, SendDeferredRequest(n) PROVE FloodInv'
  <2> DEFINE first == deferred[n]
             dst == Head(first)
  <2>1. first \in Seq(Node \ {n}) /\ Len(first) > 0
    BY <1>3, DueCall
  <2>2. now' = now
    BY <1>3 DEF SendDeferredRequest
  <2>3. Originate(n, dst) \/ Defer(n, dst, Tail(first))
    BY <1>3 DEF SendDeferredRequest
  <2> HIDE DEF first
  <2>4. dst \in Node \ {n}
    BY <2>1, HeadTailProperties
  <2> HIDE DEF dst
  <2>5. CASE Originate(n, dst)
    BY <2>2, <2>4, <2>5, OriginateFlood DEF TInv
  <2>6. CASE Defer(n, dst, Tail(first))
    BY <2>2, <2>6, DeferFlood
  <2> QED BY <2>3, <2>5, <2>6
<1>4. CASE \E n \in Node : RreqRateLimitTimerExpire(n)
  <2>1. UNCHANGED <<now, requestId, table, cache, air, handled>>
    BY <1>4 DEF RreqRateLimitTimerExpire
  <2> QED BY <1>1, <2>1, QuietFlood
<1>5. CASE \E n \in Node, m \in air : RecvRReq(n, m)
  BY <1>5, RecvRReqFlood
<1>6. ASSUME NEW n \in Node, NEW nb \in Node, AckTimerExpire(n, nb) PROVE FloodInv'
  <2>1. /\ table' = [table EXCEPT ![n] = MarkLinkAsUnidirectional(@, nb)]
        /\ UNCHANGED <<now, requestId, cache, air, handled>>
    BY <1>6 DEF AckTimerExpire
  <2>2. \A p \in Node : DOMAIN table'[p] \subseteq DOMAIN table[p]
    <3>1. table \in [Node -> Table] /\ table[n] \in Table
      BY DEF TInv, Typed
    <3>2. DOMAIN MarkLinkAsUnidirectional(table[n], nb) = DOMAIN table[n]
      BY <3>1, MarkTyped
    <3> QED BY <2>1, <3>1, <3>2
  <2> QED BY <1>1, <2>1, <2>2, QuietFlood
<1>7. CASE Tick
  BY <1>7, TickFlood
<1>8. CASE UNCHANGED vars
  BY <1>1, <1>8, QuietFlood DEF vars
<1> QED BY <1>2, <1>3, <1>4, <1>5, <1>6, <1>7, <1>8 DEF Next

LEMMA AlwaysFloodInv == Spec => []FloodInv
<1>1. Init => TInv /\ FloodInv
  BY InitTInv, InitFloodInv
<1>2. (TInv /\ FloodInv) /\ [Next]_vars => (TInv /\ FloodInv)'
  BY StepTInv, StepFloodInv
<1>3. Spec => [](TInv /\ FloodInv)
  BY <1>1, <1>2, PTL DEF Spec
<1>4. TInv /\ FloodInv => FloodInv
  OBVIOUS
<1> QED BY <1>3, <1>4, PTL

\* No node handles an RREQ twice, for any number of nodes, any order and loss,
\* as long as the lifetime of a cached id covers one HopDelay per node.
THEOREM HandlesOnce == Spec => []HandledOnce
<1>1. FloodInv => HandledOnce
  BY DEF FloodInv
<1> QED BY <1>1, AlwaysFloodInv, PTL

\* No node ever holds a route to itself: its own RREQ, coming back, is always
\* a duplicate.
THEOREM NeverRoutesToSelf == Spec => []NoRouteToSelf
<1>1. FloodInv => NoRouteToSelf
  BY DEF FloodInv
<1> QED BY <1>1, AlwaysFloodInv, PTL
=============================================================================
