----------------------------- MODULE SeqNoProofs -----------------------------
(***************************************************************************)
(* Proofs about the sequence numbers of route discovery: none is invented, *)
(* none goes back while its entry is kept, and no answer is staler than    *)
(* what its originator knew when it asked.                                 *)
(***************************************************************************)
EXTENDS RouteRequestProofs

-----------------------------------------------------------------------------
(* What the operations of the table do to sequence numbers *)

\* What u says of destination d's sequence number is what t says.
SameNumber(t, u, d) ==
    /\ d \in DOMAIN t
    /\ u[d].validSeqNo = t[d].validSeqNo
    /\ u[d].seqNo = t[d].seqNo

LEMMA PurgeNumbers ==
    ASSUME NEW t \in Table, NEW time \in Nat
    PROVE  \A d \in DOMAIN Purge(t, time, DeletePeriod) :
               SameNumber(t, Purge(t, time, DeletePeriod), d)
<1> SUFFICES ASSUME NEW d \in DOMAIN Purge(t, time, DeletePeriod)
             PROVE  SameNumber(t, Purge(t, time, DeletePeriod), d)
  OBVIOUS
<1>1. d \in DOMAIN t
  BY DEF Purge
<1>2. t[d] \in Entry
  BY <1>1, TableElim
<1>3. /\ Invalidate(t[d], time, DeletePeriod).validSeqNo = t[d].validSeqNo
      /\ Invalidate(t[d], time, DeletePeriod).seqNo = t[d].seqNo
  BY <1>2 DEF Invalidate, Entry
<1>4. Purge(t, time, DeletePeriod)[d] \in {t[d], Invalidate(t[d], time, DeletePeriod)}
  BY DEF Purge
<1> QED BY <1>1, <1>3, <1>4 DEF SameNumber

LEMMA MarkNumbers ==
    ASSUME NEW t \in Table, NEW nb
    PROVE  \A d \in DOMAIN t : SameNumber(t, MarkLinkAsUnidirectional(t, nb), d)
<1> SUFFICES ASSUME NEW d \in DOMAIN t
             PROVE  SameNumber(t, MarkLinkAsUnidirectional(t, nb), d)
  OBVIOUS
<1>1. t[d] \in Entry
  BY TableElim
<1> QED BY <1>1 DEF MarkLinkAsUnidirectional, Entry, SameNumber

\* SendRequest: an entry keeps its number, and a new one has none.
LEMMA SearchingNumbers ==
    ASSUME NEW t \in Table, NEW dst \in Node, now \in Nat
    PROVE  \A d \in DOMAIN Searching(t, dst) :
               \/ SameNumber(t, Searching(t, dst), d)
               \/ d \notin DOMAIN t /\ Searching(t, dst)[d].validSeqNo = FALSE
<1>1. CASE dst \in DOMAIN t
  <2>1. t[dst] \in Entry
    BY <1>1, TableElim
  <2>2. /\ [t[dst] EXCEPT !.flag = "IN_SEARCH"].validSeqNo = t[dst].validSeqNo
        /\ [t[dst] EXCEPT !.flag = "IN_SEARCH"].seqNo = t[dst].seqNo
    BY <2>1 DEF Entry
  <2>3. Searching(t, dst) = Update(t, dst, [t[dst] EXCEPT !.flag = "IN_SEARCH"])
    BY <1>1 DEF Searching
  <2> QED BY <2>2, <2>3 DEF Update, SameNumber
<1>2. CASE dst \notin DOMAIN t
  <2> DEFINE p == Purge(t, now, DeletePeriod)
             e == [NewEntry(FALSE, 0, 0, NoNode, now) EXCEPT !.flag = "IN_SEARCH"]
  <2>1. Searching(t, dst) = Insert(p, dst, e)
    BY <1>2 DEF Searching, AddRoute
  <2>2. e.validSeqNo = FALSE
    BY DEF NewEntry
  <2>3. \A d \in DOMAIN p : SameNumber(t, p, d)
    BY PurgeNumbers
  <2> HIDE DEF p, e
  <2> QED BY <1>2, <2>1, <2>2, <2>3 DEF Insert, SameNumber
<1> QED BY <1>1, <1>2

\* The reverse route carries the number of the RREQ or the later one it had.
ReverseNumber(t, w, rreq) ==
    LET o == rreq.origin IN
    /\ w[o].validSeqNo
    /\ \/ w[o].seqNo = rreq.originSeqno
       \/ o \in DOMAIN t /\ t[o].validSeqNo /\ w[o].seqNo = t[o].seqNo
    /\ o \in DOMAIN t /\ t[o].validSeqNo => w[o].seqNo >= t[o].seqNo

LEMMA ReverseNumbers ==
    ASSUME NEW t \in Table, NEW src \in Node, NEW rreq \in Rreq, NEW hop \in 0 .. 255,
           now \in Nat
    PROVE  LET w == WithReverseRoute(t, src, rreq, hop) IN
           /\ ReverseNumber(t, w, rreq)
           /\ \A d \in DOMAIN w \ {rreq.origin} : SameNumber(t, w, d)
<1> DEFINE o == rreq.origin
           w == WithReverseRoute(t, src, rreq, hop)
           life == ReverseLifeTime(hop)
<1>0. rreq.originSeqno \in Nat
  BY DEF Rreq, RequestId
<1>1. CASE o \in DOMAIN t
  <2> DEFINE e == t[o]
             s == ReverseSeqNo(e, rreq)
             top == Max2(life, e.lifeTime)
             f == [e EXCEPT !.seqNo = s, !.validSeqNo = TRUE, !.nextHop = src,
                            !.hops = hop, !.lifeTime = top]
  <2>1. e \in Entry
    BY <1>1, TableElim
  <2>2. [e EXCEPT !.seqNo = s, !.validSeqNo = TRUE, !.nextHop = src, !.hops = hop,
                  !.lifeTime = Max2(life, @)] = f
    BY <2>1 DEF Entry
  <2>3. w = Update(t, o, f)
    BY <1>1, <2>2 DEF WithReverseRoute
  <2>4. /\ s = rreq.originSeqno \/ (e.validSeqNo /\ s = e.seqNo)
        /\ e.validSeqNo => s >= e.seqNo
    <3>1. e.seqNo \in Nat
      BY <2>1 DEF Entry, RequestId
    <3> HIDE DEF e
    <3> QED BY <1>0, <3>1 DEF ReverseSeqNo, Newer
  <2> HIDE DEF s, top
  <2>5. f.seqNo = s /\ f.validSeqNo = TRUE
    BY <2>1 DEF Entry
  <2> HIDE DEF f, w
  <2>6. w[o] = f /\ \A d \in DOMAIN w \ {o} : SameNumber(t, w, d)
    BY <1>1, <2>3 DEF Update, SameNumber
  <2>7. ReverseNumber(t, w, rreq)
    BY <1>1, <2>4, <2>5, <2>6 DEF ReverseNumber
  <2> QED BY <2>6, <2>7 DEF w
<1>2. CASE o \notin DOMAIN t
  <2> DEFINE e == NewEntry(TRUE, rreq.originSeqno, hop, src, life)
             p == Purge(t, now, DeletePeriod)
  <2>1. w = Insert(p, o, e)
    BY <1>2 DEF WithReverseRoute, AddRoute
  <2>2. e.validSeqNo = TRUE /\ e.seqNo = rreq.originSeqno
    BY DEF NewEntry
  <2>3. \A d \in DOMAIN p : SameNumber(t, p, d)
    BY PurgeNumbers
  <2> HIDE DEF e, p, w
  <2>4. o \notin DOMAIN p
    BY <1>2, <2>3 DEF SameNumber
  <2>5. w[o] = e /\ \A d \in DOMAIN w \ {o} : d \in DOMAIN p /\ w[d] = p[d]
    BY <2>1, <2>4 DEF Insert
  <2>6. \A d \in DOMAIN w \ {o} : SameNumber(t, w, d)
    BY <2>3, <2>5 DEF SameNumber
  <2>7. ReverseNumber(t, w, rreq)
    BY <1>2, <2>2, <2>5 DEF ReverseNumber
  <2> QED BY <2>6, <2>7 DEF w
<1> QED BY <1>1, <1>2

\* The table at the exits of RecvRReq.
LEMMA TableAfterNumbers ==
    ASSUME Typed, NEW n \in Node, NEW m \in air
    PROVE  \A d \in DOMAIN TableAfter(n, m) :
               IF d = m.rreq.origin THEN ReverseNumber(Purged(n), TableAfter(n, m), m.rreq)
               ELSE SameNumber(Purged(n), TableAfter(n, m), d)
<1>1. m.rreq \in Rreq /\ m.from \in Node /\ now \in Nat
  BY NowTyped DEF Typed, TypeOK
<1>2. PICK hop \in 0 .. 255 : hop = (m.rreq.hopCount + 1) % 256
  BY <1>1 DEF Rreq
<1>3. Purged(n) \in Table
  BY <1>1, PurgeTyped DEF Typed, Purged
<1>4. PICK w : w = WithReverseRoute(Purged(n), m.from, m.rreq, hop)
  OBVIOUS
<1>5. PICK t : t = TableAfter(n, m)
  OBVIOUS
<1>6. /\ ReverseNumber(Purged(n), w, m.rreq)
      /\ \A d \in DOMAIN w \ {m.rreq.origin} : SameNumber(Purged(n), w, d)
  BY <1>1, <1>3, <1>4, ReverseNumbers
<1>7. w \in Table
  BY <1>1, <1>3, <1>4, WithReverseRouteTyped
<1>8. t = Purge(w, now, DeletePeriod)
  BY <1>2, <1>4, <1>5 DEF TableAfter
<1>9. \A d \in DOMAIN t : SameNumber(w, t, d)
  BY <1>1, <1>7, <1>8, PurgeNumbers
<1>10. ASSUME NEW d \in DOMAIN t
       PROVE  IF d = m.rreq.origin THEN ReverseNumber(Purged(n), t, m.rreq)
              ELSE SameNumber(Purged(n), t, d)
  <2>1. SameNumber(w, t, d)
    BY <1>9
  <2>2. CASE d = m.rreq.origin
    BY <1>6, <2>1, <2>2 DEF SameNumber, ReverseNumber
  <2>3. CASE d # m.rreq.origin
    BY <1>6, <2>1, <2>3 DEF SameNumber
  <2> QED BY <2>2, <2>3
<1> QED BY <1>5, <1>10

-----------------------------------------------------------------------------
(* No number goes back *)

\* No entry that t and u share loses its number or gets an older one.
Forward(t, u) ==
    \A d \in DOMAIN t \cap DOMAIN u :
        t[d].validSeqNo => u[d].validSeqNo /\ u[d].seqNo >= t[d].seqNo

LEMMA SameIsForward ==
    ASSUME NEW t \in Table, NEW u,
           \A d \in DOMAIN u : SameNumber(t, u, d) \/ d \notin DOMAIN t
    PROVE  Forward(t, u)
<1> SUFFICES ASSUME NEW d \in DOMAIN t \cap DOMAIN u, t[d].validSeqNo
             PROVE  u[d].validSeqNo /\ u[d].seqNo >= t[d].seqNo
  BY DEF Forward
<1>1. t[d] \in Entry /\ SameNumber(t, u, d)
  BY TableElim
<1>2. t[d].seqNo \in Nat
  BY <1>1 DEF Entry, RequestId
<1> QED BY <1>1, <1>2 DEF SameNumber

LEMMA StepForward ==
    ASSUME TInv, [Next]_vars, NEW p \in Node
    PROVE  Forward(Purged(p), table'[p])
<1>1. now \in Nat /\ table \in [Node -> Table] /\ Purged(p) \in Table
  BY NowTyped, PurgeTyped DEF TInv, Typed, Purged
<1>2. \A d \in DOMAIN Purged(p) : SameNumber(table[p], Purged(p), d)
  BY <1>1, PurgeNumbers DEF Purged
<1>3. CASE table'[p] = table[p]
  <2>1. \A d \in DOMAIN table[p] :
           SameNumber(Purged(p), table[p], d) \/ d \notin DOMAIN Purged(p)
    BY <1>2 DEF SameNumber
  <2> QED BY <1>1, <1>3, <2>1, SameIsForward
<1>4. CASE table'[p] = Purged(p)
  <2>1. \A d \in DOMAIN Purged(p) : SameNumber(Purged(p), Purged(p), d)
    BY DEF SameNumber
  <2> QED BY <1>1, <1>4, <2>1, SameIsForward
<1>5. ASSUME NEW dst \in Node, table'[p] = Searching(Purged(p), dst)
      PROVE  Forward(Purged(p), table'[p])
  <2>1. PICK u : u = Searching(Purged(p), dst)
    OBVIOUS
  <2>2. \A d \in DOMAIN u : SameNumber(Purged(p), u, d) \/ d \notin DOMAIN Purged(p)
    BY <1>1, <2>1, SearchingNumbers
  <2> QED BY <1>1, <1>5, <2>1, <2>2, SameIsForward
<1>6. ASSUME NEW n \in Node, NEW dst \in Node, NEW waiting,
             Originate(n, dst) \/ Defer(n, dst, waiting)
      PROVE  Forward(Purged(p), table'[p])
  <2>1. CASE Originate(n, dst)
    <3>1. table' = [table EXCEPT ![n] = Searching(Purged(n), dst)]
      BY <2>1 DEF Originate
    <3> QED BY <1>1, <1>3, <1>5, <3>1
  <2>2. CASE Defer(n, dst, waiting)
    BY <1>3, <2>2 DEF Defer
  <2> QED BY <1>6, <2>1, <2>2
<1>7. ASSUME NEW n \in Node, NEW dst \in Node, SendRequest(n, dst)
      PROVE  Forward(Purged(p), table'[p])
  BY <1>6, <1>7 DEF SendRequest
<1>8. ASSUME NEW n \in Node, SendDeferredRequest(n)
      PROVE  Forward(Purged(p), table'[p])
  <2> DEFINE first == deferred[n]
             dst == Head(first)
  <2>1. first \in Seq(Node \ {n}) /\ Len(first) > 0
    BY <1>8, DueCall
  <2>2. Originate(n, dst) \/ Defer(n, dst, Tail(first))
    BY <1>8 DEF SendDeferredRequest
  <2> HIDE DEF first
  <2>3. dst \in Node
    BY <2>1, HeadTailProperties
  <2> HIDE DEF dst
  <2> QED BY <1>6, <2>2, <2>3
<1>9. ASSUME NEW n \in Node, NEW m \in air, RecvRReq(n, m)
      PROVE  Forward(Purged(p), table'[p])
  <2>1. CASE IgnoreBlacklisted(n, m) \/ IgnoreDuplicate(n, m)
    <3>1. table' = [table EXCEPT ![n] = Purged(n)]
      BY <2>1 DEF IgnoreBlacklisted, IgnoreDuplicate
    <3> QED BY <1>1, <1>3, <1>4, <3>1
  <2>2. CASE HandleRReq(n, m)
    <3>1. table' = [table EXCEPT ![n] = TableAfter(n, m)]
      BY <2>2 DEF HandleRReq
    <3>2. CASE p # n
      BY <1>1, <1>3, <3>1, <3>2
    <3>3. CASE p = n
      <4>1. PICK t : t = TableAfter(p, m)
        OBVIOUS
      <4>2. \A d \in DOMAIN t :
               IF d = m.rreq.origin THEN ReverseNumber(Purged(p), t, m.rreq)
               ELSE SameNumber(Purged(p), t, d)
        BY <4>1, TableAfterNumbers DEF TInv
      <4>3. ASSUME NEW d \in DOMAIN Purged(p) \cap DOMAIN t, Purged(p)[d].validSeqNo
            PROVE  t[d].validSeqNo /\ t[d].seqNo >= Purged(p)[d].seqNo
        <5>1. Purged(p)[d].seqNo \in Nat
          BY <1>1, TableElim DEF Entry, RequestId
        <5>2. CASE d = m.rreq.origin
          BY <4>2, <4>3, <5>2 DEF ReverseNumber
        <5>3. CASE d # m.rreq.origin
          BY <4>2, <4>3, <5>1, <5>3 DEF SameNumber
        <5> QED BY <5>2, <5>3
      <4>4. table'[p] = t
        BY <1>1, <3>1, <3>3, <4>1
      <4> QED BY <4>3, <4>4 DEF Forward
    <3> QED BY <3>2, <3>3
  <2> QED BY <1>9, <2>1, <2>2 DEF RecvRReq
<1>10. ASSUME NEW n \in Node, NEW nb \in Node, AckTimerExpire(n, nb)
       PROVE  Forward(Purged(p), table'[p])
  <2>1. table' = [table EXCEPT ![n] = MarkLinkAsUnidirectional(@, nb)]
    BY <1>10 DEF AckTimerExpire
  <2>2. CASE p # n
    BY <1>1, <1>3, <2>1, <2>2
  <2>3. CASE p = n
    <3>1. PICK t : t = MarkLinkAsUnidirectional(table[p], nb)
      OBVIOUS
    <3>2. DOMAIN t = DOMAIN table[p] /\ \A d \in DOMAIN table[p] : SameNumber(table[p], t, d)
      BY <1>1, <3>1, MarkTyped, MarkNumbers
    <3>3. \A d \in DOMAIN t : SameNumber(Purged(p), t, d) \/ d \notin DOMAIN Purged(p)
      BY <1>2, <3>2 DEF SameNumber
    <3>4. table'[p] = t
      BY <1>1, <2>1, <2>3, <3>1
    <3> QED BY <1>1, <3>3, <3>4, SameIsForward
  <2> QED BY <2>2, <2>3
<1>11. ASSUME table' = table PROVE Forward(Purged(p), table'[p])
  BY <1>3, <1>11
<1> QED
  BY <1>7, <1>8, <1>9, <1>10, <1>11 DEF Next, RreqRateLimitTimerExpire, Tick, vars

\* While an entry is kept its number never goes back, whatever overtakes what.
THEOREM NumbersNeverGoBack == Spec => SeqNoNeverGoesBack
<1>1. TInv /\ [Next]_vars =>
        [\A n \in Node : \A d \in DOMAIN Purged(n) \cap DOMAIN table'[n] :
            table[n][d].validSeqNo =>
                table'[n][d].validSeqNo /\ table'[n][d].seqNo >= table[n][d].seqNo]_vars
  <2> SUFFICES ASSUME TInv, [Next]_vars, NEW n \in Node,
                      NEW d \in DOMAIN Purged(n) \cap DOMAIN table'[n],
                      table[n][d].validSeqNo
               PROVE  table'[n][d].validSeqNo /\ table'[n][d].seqNo >= table[n][d].seqNo
    OBVIOUS
  <2>1. Forward(Purged(n), table'[n])
    BY StepForward
  <2>2. SameNumber(table[n], Purged(n), d)
    BY NowTyped, PurgeNumbers DEF TInv, Typed, Purged
  <2> QED BY <2>1, <2>2 DEF Forward, SameNumber
<1> QED BY <1>1, AlwaysTInv, PTL DEF Spec, SeqNoNeverGoesBack

-----------------------------------------------------------------------------
(* What becomes of an RREQ *)

\* The number dstSeqno and its unknown flag come from the RREQ r, or from an entry
\* of the table t that is at least as fresh.
NoOlder(r, t, number) ==
    /\ r.dst \in DOMAIN t /\ t[r.dst].validSeqNo /\ number = t[r.dst].seqNo
    /\ r.unknownSeqno \/ number >= r.dstSeqno

RelayedFrom(r, t, c) ==
    /\ c.origin = r.origin /\ c.id = r.id /\ c.dst = r.dst
    /\ c.originSeqno = r.originSeqno
    /\ \/ c.dstSeqno = r.dstSeqno /\ c.unknownSeqno = r.unknownSeqno
       \/ NoOlder(r, t, c.dstSeqno) /\ c.unknownSeqno = FALSE

AnswersTo(n, r, t, a) ==
    /\ a.origin = r.origin /\ a.id = r.id /\ a.dst = r.dst
    /\ \/ r.dst = n /\ a.seqNo = seqNo[n]
       \/ NoOlder(r, t, a.seqNo)

LEMMA FateNumbers ==
    ASSUME Typed, NEW n \in Node, NEW m \in air, NEW t \in Table,
           AnswerAsDestination(n, m) \/ ForwardRReq(n, m, t)
    PROVE  /\ \A c \in air' : c \in air \/ RelayedFrom(m.rreq, t, c.rreq)
           /\ \A a \in replies' : a \in replies \/ AnswersTo(n, m.rreq, t, a)
<1>0. PICK r : r = m.rreq
  OBVIOUS
<1> DEFINE Fate == /\ \A c \in air' : c \in air \/ RelayedFrom(r, t, c.rreq)
                   /\ \A a \in replies' : a \in replies \/ AnswersTo(n, r, t, a)
<1> SUFFICES Fate
  BY <1>0
<1>1. r \in Rreq /\ r.dstSeqno \in Nat
  BY <1>0 DEF Typed, TypeOK, Rreq, RequestId
<1>2. PICK x : x = Advanced(m)
  OBVIOUS
<1>3. /\ x \in Rreq /\ x.origin = r.origin /\ x.id = r.id /\ x.dst = r.dst
      /\ x.originSeqno = r.originSeqno
      /\ x.dstSeqno = r.dstSeqno /\ x.unknownSeqno = r.unknownSeqno
  <2>1. x \in Rreq
    BY <1>0, <1>1, <1>2, AdvancedTyped DEF Typed, TypeOK
  <2>2. /\ x.origin = r.origin /\ x.id = r.id /\ x.dst = r.dst
        /\ x.originSeqno = r.originSeqno
        /\ x.dstSeqno = r.dstSeqno /\ x.unknownSeqno = r.unknownSeqno
    BY <1>0, <1>1, <1>2 DEF Rreq, Advanced
  <2> QED BY <2>1, <2>2
<1>4. ASSUME NEW c, Relay(n, m, c)
      PROVE  replies' = replies /\ \A k \in air' : k \in air \/ k.rreq = c
  BY <1>4 DEF Relay, Copies
<1>5. CASE AnswerAsDestination(n, m)
  <2>1. PICK a : /\ a = [by |-> n, origin |-> r.origin, id |-> r.id, dst |-> n,
                         seqNo |-> seqNo[n]]
                 /\ replies' = replies \cup {a} /\ air' = air \ {m} /\ r.dst = n
    BY <1>0, <1>5 DEF AnswerAsDestination
  <2>2. AnswersTo(n, r, t, a)
    BY <2>1 DEF AnswersTo
  <2> QED BY <2>1, <2>2
<1>6. CASE ForwardRReq(n, m, t)
  <2> DEFINE rt == t[r.dst]
  <2>1. \/ r.dst \in DOMAIN t /\ \/ DropLoop(m, rt)
                                 \/ AnswerAsIntermediate(n, m, rt)
                                 \/ RelayFresher(n, m, rt)
        \/ RelayUnchanged(n, m, t)
    BY <1>0, <1>6 DEF ForwardRReq
  <2>2. CASE r.dst \in DOMAIN t /\ DropLoop(m, rt)
    BY <2>2 DEF DropLoop
  <2>3. ASSUME r.dst \in DOMAIN t, FreshEnough(rt, r)
        PROVE  NoOlder(r, t, rt.seqNo)
    <3>1. rt.seqNo \in Nat /\ rt.validSeqNo
      BY <2>3, TableElim DEF FreshEnough, Entry, RequestId
    <3>2. r.unknownSeqno \/ ~(r.dstSeqno - rt.seqNo > 0)
      BY <2>3 DEF FreshEnough, Newer
    <3>3. r.unknownSeqno \/ rt.seqNo >= r.dstSeqno
      <4> HIDE DEF rt
      <4> QED BY <1>1, <3>1, <3>2
    <3> QED BY <2>3, <3>1, <3>3 DEF NoOlder
  <2>4. CASE r.dst \in DOMAIN t /\ AnswerAsIntermediate(n, m, rt)
    <3>1. PICK a : /\ a = [by |-> n, origin |-> r.origin, id |-> r.id, dst |-> r.dst,
                           seqNo |-> rt.seqNo]
                   /\ replies' = replies \cup {a} /\ air' = air \ {m}
      BY <1>0, <2>4 DEF AnswerAsIntermediate
    <3>2. NoOlder(r, t, rt.seqNo)
      BY <1>0, <2>3, <2>4 DEF AnswerAsIntermediate
    <3>3. AnswersTo(n, r, t, a)
      BY <3>1, <3>2 DEF AnswersTo
    <3> HIDE DEF rt
    <3> QED BY <3>1, <3>3
  <2>5. CASE r.dst \in DOMAIN t /\ RelayFresher(n, m, rt)
    <3>1. PICK c : c = [x EXCEPT !.dstSeqno = rt.seqNo, !.unknownSeqno = FALSE]
      OBVIOUS
    <3>2. Relay(n, m, c) /\ NoOlder(r, t, rt.seqNo)
      BY <1>0, <1>2, <2>3, <2>5, <3>1 DEF RelayFresher
    <3>3. /\ c.origin = x.origin /\ c.id = x.id /\ c.dst = x.dst
          /\ c.originSeqno = x.originSeqno
          /\ c.dstSeqno = rt.seqNo /\ c.unknownSeqno = FALSE
      BY <1>3, <3>1 DEF Rreq
    <3>4. RelayedFrom(r, t, c)
      BY <1>3, <3>2, <3>3 DEF RelayedFrom
    <3> HIDE DEF rt
    <3> QED BY <1>4, <3>2, <3>4
  <2>6. CASE RelayUnchanged(n, m, t)
    <3>1. Relay(n, m, x)
      BY <1>0, <1>2, <2>6 DEF RelayUnchanged
    <3>2. RelayedFrom(r, t, x)
      BY <1>3 DEF RelayedFrom
    <3> QED BY <1>4, <3>1, <3>2
  <2> QED BY <2>1, <2>2, <2>4, <2>5, <2>6
<1> QED BY <1>5, <1>6

-----------------------------------------------------------------------------
(* The invariant *)

\* The table t says nothing that the nodes, at s, have not reached.
Known(t, s) == \A d \in DOMAIN t : t[d].validSeqNo => t[d].seqNo =< s[d]

\* A copy asks for nothing older than its originator did.
AsksFor == \A m \in air, g \in handled :
    Root(g, m.rreq.origin, m.rreq.id) =>
        /\ m.rreq.dstSeqno >= g.wants
        /\ m.rreq.unknownSeqno => g.wants = 0

AnsweredPast == \A r \in replies : r.id =< requestId[r.origin]

SeqNoInv == SeqNoAuthentic /\ AnswerFreshEnough /\ AsksFor /\ AnsweredPast

LEMMA AuthenticParts ==
    SeqNoAuthentic <=>
        /\ \A n \in Node : Known(table[n], seqNo)
        /\ \A m \in air : /\ m.rreq.originSeqno =< seqNo[m.rreq.origin]
                          /\ m.rreq.dstSeqno =< seqNo[m.rreq.dst]
        /\ \A r \in replies : r.seqNo =< seqNo[r.dst]
  BY DEF SeqNoAuthentic, Known

LEMMA AuthenticPartsPrime ==
    SeqNoAuthentic' <=>
        /\ \A n \in Node : Known(table'[n], seqNo')
        /\ \A m \in air' : /\ m.rreq.originSeqno =< seqNo'[m.rreq.origin]
                           /\ m.rreq.dstSeqno =< seqNo'[m.rreq.dst]
        /\ \A r \in replies' : r.seqNo =< seqNo'[r.dst]
  BY DEF SeqNoAuthentic, Known

LEMMA SameIsKnown ==
    ASSUME NEW t, NEW u, NEW s, Known(t, s),
           \A d \in DOMAIN u : SameNumber(t, u, d) \/ u[d].validSeqNo = FALSE
    PROVE  Known(u, s)
<1> SUFFICES ASSUME NEW d \in DOMAIN u, u[d].validSeqNo PROVE u[d].seqNo =< s[d]
  BY DEF Known
<1>1. SameNumber(t, u, d)
  OBVIOUS
<1> QED BY <1>1 DEF SameNumber, Known

LEMMA KnownLater ==
    ASSUME NEW t \in Table, NEW s \in [Node -> Nat], NEW u \in [Node -> Nat],
           \A o \in Node : s[o] =< u[o], Known(t, s)
    PROVE  Known(t, u)
<1> SUFFICES ASSUME NEW d \in DOMAIN t, t[d].validSeqNo PROVE t[d].seqNo =< u[d]
  BY DEF Known
<1>1. d \in Node /\ t[d] \in Entry /\ t[d].seqNo =< s[d]
  BY TableElim DEF Known
<1>2. t[d].seqNo \in Nat /\ s[d] \in Nat /\ u[d] \in Nat
  BY <1>1 DEF Entry, RequestId
<1> QED BY <1>1, <1>2

\* Steps that number, handle and send nothing.
LEMMA QuietNumbers ==
    ASSUME SeqNoInv, seqNo' = seqNo, requestId' = requestId, handled' = handled,
           air' \subseteq air, replies' = replies,
           \A n \in Node : Known(table'[n], seqNo)
    PROVE  SeqNoInv'
<1>1. SeqNoAuthentic'
  BY AuthenticPartsPrime DEF SeqNoInv, SeqNoAuthentic
<1>2. AnswerFreshEnough' /\ AsksFor' /\ AnsweredPast'
  BY DEF SeqNoInv, AnswerFreshEnough, AsksFor, AnsweredPast, Root
<1> QED BY <1>1, <1>2 DEF SeqNoInv

LEMMA PurgedKnown ==
    ASSUME TInv, SeqNoInv, NEW n \in Node
    PROVE  Known(table[n], seqNo) /\ Known(Purged(n), seqNo)
<1>1. Known(table[n], seqNo)
  BY AuthenticParts DEF SeqNoInv
<1>2. \A d \in DOMAIN Purged(n) : SameNumber(table[n], Purged(n), d)
  BY NowTyped, PurgeNumbers DEF TInv, Typed, Purged
<1>3. Known(Purged(n), seqNo)
  BY <1>1, <1>2, SameIsKnown
<1> QED BY <1>1, <1>3

LEMMA OriginateNumbers ==
    ASSUME TInv, FloodInv, SeqNoInv, NEW n \in Node, NEW dst \in Node,
           Originate(n, dst), replies' = replies
    PROVE  SeqNoInv'
<1> DEFINE i == requestId[n] + 1
           s == seqNo'
<1>1. /\ now \in Nat /\ table \in [Node -> Table] /\ Purged(n) \in Table
      /\ seqNo \in [Node -> Nat] /\ requestId \in [Node -> Nat]
  BY NowTyped, PurgeTyped DEF TInv, Typed, TypeOK, RequestId, Purged
<1>2. /\ seqNo' = [seqNo EXCEPT ![n] = @ + 1]
      /\ requestId' = [requestId EXCEPT ![n] = @ + 1]
      /\ table' = [table EXCEPT ![n] = Searching(Purged(n), dst)]
  BY DEF Originate
<1>3. /\ s \in [Node -> Nat] /\ s[n] = seqNo[n] + 1 /\ \A o \in Node : seqNo[o] =< s[o]
      /\ requestId'[n] = i /\ \A o \in Node : requestId[o] =< requestId'[o]
      /\ requestId' \in [Node -> Nat]
  BY <1>1, <1>2
<1>4. PICK q : q = NewRreq(n, dst)
  OBVIOUS
<1>5. /\ q.origin = n /\ q.id = i /\ q.dst = dst /\ q.originSeqno = seqNo[n] + 1
      /\ q.dstSeqno \in Nat /\ q.dstSeqno =< seqNo[dst]
      /\ q.unknownSeqno => q.dstSeqno = 0
  <2>1. Known(Purged(n), seqNo)
    BY PurgedKnown
  <2>2. q.dstSeqno = IF KnowsSeqNo(Purged(n), dst) THEN Purged(n)[dst].seqNo ELSE 0
    BY <1>4 DEF NewRreq
  <2>3. q.unknownSeqno => ~KnowsSeqNo(Purged(n), dst)
    BY <1>4 DEF NewRreq
  <2>4. KnowsSeqNo(Purged(n), dst) =>
            Purged(n)[dst].seqNo \in Nat /\ Purged(n)[dst].seqNo =< seqNo[dst]
    BY <1>1, <2>1, TableElim DEF KnowsSeqNo, Known, Entry, RequestId
  <2>5. q.origin = n /\ q.id = i /\ q.dst = dst /\ q.originSeqno = seqNo[n] + 1
    BY <1>4 DEF NewRreq
  <2> QED BY <1>1, <2>2, <2>3, <2>4, <2>5
<1>6. PICK k : /\ handled' = handled \cup {k} /\ k.id = i /\ k.origin = n
               /\ k.wants = q.dstSeqno
  <2>1. PICK k : k = [node |-> n, origin |-> n, id |-> i, from |-> n, hop |-> 0,
                      at |-> now, wants |-> q.dstSeqno]
    OBVIOUS
  <2>2. handled' = handled \cup {k}
    BY <1>4, <2>1 DEF Originate
  <2> QED BY <2>1, <2>2
<1>7. \A c \in air' : c \in air \/ c.rreq = q
  BY <1>4 DEF Originate, Copies
<1>8. ASSUME NEW c \in air
      PROVE  /\ c.rreq.origin \in Node /\ c.rreq.dst \in Node
             /\ c.rreq.originSeqno \in Nat /\ c.rreq.dstSeqno \in Nat
             /\ c.rreq.id \in Nat /\ c.rreq.id =< requestId[c.rreq.origin]
             /\ c.rreq.originSeqno =< seqNo[c.rreq.origin]
             /\ c.rreq.dstSeqno =< seqNo[c.rreq.dst]
  <2>1. c.rreq \in Rreq
    BY DEF TInv, Typed, TypeOK
  <2>2. c.rreq.id =< requestId[c.rreq.origin]
    BY DEF FloodInv, InTime, Root, PastOnly
  <2> QED BY <2>1, <2>2 DEF Rreq, RequestId, SeqNoInv, SeqNoAuthentic
<1>9. ASSUME NEW r \in replies
      PROVE  /\ r.dst \in Node /\ r.seqNo \in Nat /\ r.id \in Nat /\ r.origin \in Node
             /\ r.id =< requestId[r.origin] /\ r.seqNo =< seqNo[r.dst]
  <2>1. /\ r.dst \in Node /\ r.seqNo \in Nat /\ r.id \in Nat /\ r.origin \in Node
    BY DEF TInv, Typed, TypeOK, RequestId
  <2> QED BY <2>1 DEF SeqNoInv, SeqNoAuthentic, AnsweredPast
<1> HIDE DEF s, i
<1>10. SeqNoAuthentic'
  <2>1. ASSUME NEW p \in Node PROVE Known(table'[p], s)
    <3>1. CASE p # n
      <4>1. Known(table[p], s)
        BY <1>1, <1>3, PurgedKnown, KnownLater
      <4> QED BY <1>1, <1>2, <3>1, <4>1
    <3>2. CASE p = n
      <4>1. Known(Purged(n), s)
        BY <1>1, <1>3, PurgedKnown, KnownLater
      <4>2. PICK u : u = Searching(Purged(n), dst)
        OBVIOUS
      <4>3. \A d \in DOMAIN u : SameNumber(Purged(n), u, d) \/ u[d].validSeqNo = FALSE
        <5>1. \A d \in DOMAIN Searching(Purged(n), dst) :
                 \/ SameNumber(Purged(n), Searching(Purged(n), dst), d)
                 \/ Searching(Purged(n), dst)[d].validSeqNo = FALSE
          BY <1>1, SearchingNumbers
        <5> QED BY <4>2, <5>1
      <4>4. Known(u, s)
        BY <4>1, <4>3, SameIsKnown
      <4> QED BY <1>1, <1>2, <3>2, <4>2, <4>4
    <3> QED BY <3>1, <3>2
  <2>2. ASSUME NEW c \in air'
        PROVE  c.rreq.originSeqno =< s[c.rreq.origin] /\ c.rreq.dstSeqno =< s[c.rreq.dst]
    <3>1. CASE c \in air
      <4>1. /\ seqNo[c.rreq.origin] \in Nat /\ s[c.rreq.origin] \in Nat
            /\ seqNo[c.rreq.dst] \in Nat /\ s[c.rreq.dst] \in Nat
            /\ seqNo[c.rreq.origin] =< s[c.rreq.origin]
            /\ seqNo[c.rreq.dst] =< s[c.rreq.dst]
        BY <1>1, <1>3, <1>8, <3>1
      <4> QED BY <1>8, <3>1, <4>1
    <3>2. CASE c.rreq = q
      <4>1. seqNo[dst] \in Nat /\ s[dst] \in Nat /\ seqNo[dst] =< s[dst] /\ seqNo[n] \in Nat
        BY <1>1, <1>3
      <4> QED BY <1>3, <1>5, <3>2, <4>1
    <3> QED BY <1>7, <3>1, <3>2
  <2>3. ASSUME NEW r \in replies' PROVE r.seqNo =< s[r.dst]
    <3>1. seqNo[r.dst] \in Nat /\ s[r.dst] \in Nat /\ seqNo[r.dst] =< s[r.dst]
      BY <1>1, <1>3, <1>9
    <3> QED BY <1>9, <3>1
  <2> QED BY <2>1, <2>2, <2>3, AuthenticPartsPrime DEF s
<1>11. ~(i =< requestId[n])
  BY <1>1 DEF i
<1>12. AnswerFreshEnough'
  <2> SUFFICES ASSUME NEW r \in replies, NEW h \in handled',
                      h.node = h.origin, h.origin = r.origin, h.id = r.id
               PROVE  r.seqNo >= h.wants
    BY DEF AnswerFreshEnough
  <2>1. h # k
    BY <1>6, <1>9, <1>11
  <2> QED BY <1>6, <2>1 DEF SeqNoInv, AnswerFreshEnough
<1>13. AsksFor'
  <2> SUFFICES ASSUME NEW c \in air', NEW g \in handled', Root(g, c.rreq.origin, c.rreq.id)
               PROVE  /\ c.rreq.dstSeqno >= g.wants
                      /\ c.rreq.unknownSeqno => g.wants = 0
    BY DEF AsksFor, Root
  <2>1. CASE c \in air
    <3>1. g # k
      BY <1>6, <1>8, <1>11, <2>1 DEF Root
    <3> QED BY <1>6, <2>1, <3>1 DEF SeqNoInv, AsksFor
  <2>2. CASE c.rreq = q
    <3>1. g \notin handled
      BY <1>5, <1>11, <2>2 DEF Root, FloodInv, PastOnly
    <3>2. g.wants = q.dstSeqno
      BY <1>6, <3>1
    <3> QED BY <1>5, <2>2, <3>2
  <2> QED BY <1>7, <2>1, <2>2
<1>14. AnsweredPast'
  <2> SUFFICES ASSUME NEW r \in replies PROVE r.id =< requestId'[r.origin]
    BY DEF AnsweredPast
  <2>1. /\ requestId[r.origin] \in Nat /\ requestId'[r.origin] \in Nat
        /\ requestId[r.origin] =< requestId'[r.origin]
    BY <1>1, <1>3, <1>9
  <2> QED BY <1>9, <2>1
<1> QED BY <1>10, <1>12, <1>13, <1>14 DEF SeqNoInv

LEMMA HandleNumbers ==
    ASSUME TInv, FloodInv, SeqNoInv, NEW n \in Node, NEW m \in air, HandleRReq(n, m),
           seqNo' = seqNo, requestId' = requestId
    PROVE  SeqNoInv'
<1>1. /\ now \in Nat /\ table \in [Node -> Table] /\ Purged(n) \in Table
      /\ seqNo \in [Node -> Nat]
  BY NowTyped, PurgeTyped DEF TInv, Typed, TypeOK, RequestId, Purged
<1>2. PICK r : r = m.rreq
  OBVIOUS
<1>3. PICK t : t = TableAfter(n, m)
  OBVIOUS
<1>4. /\ r.origin \in Node /\ r.dst \in Node /\ r.originSeqno \in Nat /\ r.dstSeqno \in Nat
      /\ r.originSeqno =< seqNo[r.origin] /\ r.dstSeqno =< seqNo[r.dst]
  <2>1. r \in Rreq
    BY <1>2 DEF TInv, Typed, TypeOK
  <2> QED BY <1>2, <2>1 DEF Rreq, RequestId, SeqNoInv, SeqNoAuthentic
<1>5. table' = [table EXCEPT ![n] = t]
  BY <1>3 DEF HandleRReq
<1>6. t \in Table
  BY <1>3, TableAfterTyped DEF TInv
<1>7. Known(t, seqNo)
  <2>1. Known(Purged(n), seqNo)
    BY PurgedKnown
  <2>2. \A d \in DOMAIN t : IF d = r.origin THEN ReverseNumber(Purged(n), t, r)
                            ELSE SameNumber(Purged(n), t, d)
    BY <1>2, <1>3, TableAfterNumbers DEF TInv
  <2> SUFFICES ASSUME NEW d \in DOMAIN t, t[d].validSeqNo PROVE t[d].seqNo =< seqNo[d]
    BY DEF Known
  <2>3. CASE d = r.origin
    BY <1>4, <2>1, <2>2, <2>3 DEF ReverseNumber, Known
  <2>4. CASE d # r.origin
    BY <2>1, <2>2, <2>4 DEF SameNumber, Known
  <2> QED BY <2>3, <2>4
<1>8. /\ \A c \in air' : c \in air \/ RelayedFrom(r, t, c.rreq)
      /\ \A a \in replies' : a \in replies \/ AnswersTo(n, r, t, a)
  BY <1>2, <1>3, <1>6, FateNumbers DEF HandleRReq, TInv
<1>9. ASSUME NEW number, NoOlder(r, t, number)
      PROVE  /\ number \in Nat /\ number =< seqNo[r.dst]
             /\ r.unknownSeqno \/ number >= r.dstSeqno
  BY <1>6, <1>7, <1>9, TableElim DEF NoOlder, Known, Entry, RequestId
<1>10. PICK k : handled' = handled \cup {k} /\ k.node = n /\ k.origin = r.origin
  <2>1. PICK k : k = [node |-> n, origin |-> m.rreq.origin, id |-> m.rreq.id,
                      from |-> m.from, hop |-> (m.rreq.hopCount + 1) % 256, at |-> now,
                      wants |-> m.rreq.dstSeqno]
    OBVIOUS
  <2>2. handled' = handled \cup {k}
    BY <2>1 DEF HandleRReq
  <2>3. k.node = n /\ k.origin = m.rreq.origin
    BY <2>1
  <2> QED BY <1>2, <2>2, <2>3
\* The originator handled the RREQ itself, so n is not the originator.
<1>11. n # r.origin
  <2>1. \A h \in handled : ~(h.node = n /\ h.origin = r.origin /\ h.id = r.id)
    BY <1>2, PassesOnce DEF HandleRReq
  <2>2. PICK g \in handled : Root(g, r.origin, r.id)
    BY <1>2 DEF FloodInv, InTime
  <2> QED BY <2>1, <2>2 DEF Root
<1>12. \A g \in handled' : \A o, i : Root(g, o, i) => g \in handled
  BY <1>10, <1>11 DEF Root
<1>13. \A g \in handled : Root(g, r.origin, r.id) =>
           g.wants \in Nat /\ r.dstSeqno >= g.wants /\ (r.unknownSeqno => g.wants = 0)
  <2>1. \A g \in handled : g.wants \in Nat
    BY DEF TInv, Typed, TypeOK, Handling, RequestId
  <2> QED BY <1>2, <2>1 DEF SeqNoInv, AsksFor
<1>14. \A g \in handled : \A number : Root(g, r.origin, r.id) /\ NoOlder(r, t, number) =>
           number >= g.wants
  <2> SUFFICES ASSUME NEW g \in handled, NEW number, Root(g, r.origin, r.id),
                      NoOlder(r, t, number)
               PROVE  number >= g.wants
    OBVIOUS
  <2>1. /\ number \in Nat /\ (r.unknownSeqno \/ number >= r.dstSeqno)
        /\ g.wants \in Nat /\ r.dstSeqno >= g.wants /\ (r.unknownSeqno => g.wants = 0)
    BY <1>9, <1>13
  <2> QED BY <1>4, <2>1
<1>15. SeqNoAuthentic'
  <2>1. ASSUME NEW p \in Node PROVE Known(table'[p], seqNo)
    BY <1>1, <1>5, <1>7, PurgedKnown
  <2>2. ASSUME NEW c \in air'
        PROVE  /\ c.rreq.originSeqno =< seqNo[c.rreq.origin]
               /\ c.rreq.dstSeqno =< seqNo[c.rreq.dst]
    <3>1. CASE c \in air
      BY <3>1 DEF SeqNoInv, SeqNoAuthentic
    <3>2. CASE RelayedFrom(r, t, c.rreq)
      BY <1>4, <1>9, <3>2 DEF RelayedFrom
    <3> QED BY <1>8, <3>1, <3>2
  <2>3. ASSUME NEW a \in replies' PROVE a.seqNo =< seqNo[a.dst]
    <3>1. CASE a \in replies
      BY <3>1 DEF SeqNoInv, SeqNoAuthentic
    <3>2. CASE AnswersTo(n, r, t, a)
      BY <1>1, <1>9, <3>2 DEF AnswersTo
    <3> QED BY <1>8, <3>1, <3>2
  <2> QED BY <2>1, <2>2, <2>3, AuthenticPartsPrime
<1>16. AnswerFreshEnough'
  <2> SUFFICES ASSUME NEW a \in replies', NEW h \in handled',
                      h.node = h.origin, h.origin = a.origin, h.id = a.id
               PROVE  a.seqNo >= h.wants
    BY DEF AnswerFreshEnough
  <2>1. h \in handled
    BY <1>12 DEF Root
  <2>2. CASE a \in replies
    BY <2>1, <2>2 DEF SeqNoInv, AnswerFreshEnough
  <2>3. CASE AnswersTo(n, r, t, a)
    <3>1. Root(h, r.origin, r.id)
      BY <2>3 DEF AnswersTo, Root
    <3>2. CASE r.dst = n /\ a.seqNo = seqNo[n]
      BY <1>1, <1>4, <1>13, <2>1, <3>1, <3>2
    <3>3. CASE NoOlder(r, t, a.seqNo)
      BY <1>14, <2>1, <3>1, <3>3
    <3> QED BY <2>3, <3>2, <3>3 DEF AnswersTo
  <2> QED BY <1>8, <2>2, <2>3
<1>17. AsksFor'
  <2> SUFFICES ASSUME NEW c \in air', NEW g \in handled', Root(g, c.rreq.origin, c.rreq.id)
               PROVE  /\ c.rreq.dstSeqno >= g.wants
                      /\ c.rreq.unknownSeqno => g.wants = 0
    BY DEF AsksFor, Root
  <2>1. g \in handled
    BY <1>12
  <2>2. CASE c \in air
    BY <2>1, <2>2 DEF SeqNoInv, AsksFor
  <2>3. CASE RelayedFrom(r, t, c.rreq)
    <3>1. Root(g, r.origin, r.id)
      BY <2>3 DEF RelayedFrom
    <3>2. CASE c.rreq.dstSeqno = r.dstSeqno /\ c.rreq.unknownSeqno = r.unknownSeqno
      BY <1>13, <2>1, <3>1, <3>2
    <3>3. CASE NoOlder(r, t, c.rreq.dstSeqno) /\ c.rreq.unknownSeqno = FALSE
      BY <1>14, <2>1, <3>1, <3>3
    <3> QED BY <2>3, <3>2, <3>3 DEF RelayedFrom
  <2> QED BY <1>8, <2>2, <2>3
<1>18. AnsweredPast'
  <2> SUFFICES ASSUME NEW a \in replies' PROVE a.id =< requestId[a.origin]
    BY DEF AnsweredPast
  <2>1. r.id =< requestId[r.origin]
    BY <1>2 DEF FloodInv, InTime, Root, PastOnly
  <2> QED BY <1>8, <2>1 DEF AnswersTo, SeqNoInv, AnsweredPast
<1> QED BY <1>15, <1>16, <1>17, <1>18 DEF SeqNoInv

LEMMA InitSeqNoInv == Init => SeqNoInv
  BY DEF Init, SeqNoInv, SeqNoAuthentic, AnswerFreshEnough, AsksFor, AnsweredPast

LEMMA StepSeqNoInv == TInv /\ FloodInv /\ SeqNoInv /\ [Next]_vars => SeqNoInv'
<1> SUFFICES ASSUME TInv, FloodInv, SeqNoInv, [Next]_vars PROVE SeqNoInv'
  OBVIOUS
<1>1. table \in [Node -> Table] /\ \A n \in Node : Known(table[n], seqNo)
  BY PurgedKnown DEF TInv, Typed
<1>2. ASSUME NEW n \in Node, NEW dst \in Node, NEW waiting, replies' = replies,
             Originate(n, dst) \/ Defer(n, dst, waiting)
      PROVE  SeqNoInv'
  <2>1. CASE Originate(n, dst)
    BY <1>2, <2>1, OriginateNumbers
  <2>2. CASE Defer(n, dst, waiting)
    BY <1>1, <1>2, <2>2, QuietNumbers DEF Defer
  <2> QED BY <1>2, <2>1, <2>2
<1>3. ASSUME NEW n \in Node, NEW dst \in Node, SendRequest(n, dst) PROVE SeqNoInv'
  BY <1>2, <1>3 DEF SendRequest
<1>4. ASSUME NEW n \in Node, SendDeferredRequest(n) PROVE SeqNoInv'
  <2> DEFINE first == deferred[n]
             dst == Head(first)
  <2>1. first \in Seq(Node \ {n}) /\ Len(first) > 0
    BY <1>4, DueCall
  <2>2. replies' = replies /\ (Originate(n, dst) \/ Defer(n, dst, Tail(first)))
    BY <1>4 DEF SendDeferredRequest
  <2> HIDE DEF first
  <2>3. dst \in Node
    BY <2>1, HeadTailProperties
  <2> HIDE DEF dst
  <2> QED BY <1>2, <2>2, <2>3
<1>5. CASE \E n \in Node : RreqRateLimitTimerExpire(n)
  BY <1>1, <1>5, QuietNumbers DEF RreqRateLimitTimerExpire
<1>6. ASSUME NEW n \in Node, NEW m \in air, RecvRReq(n, m) PROVE SeqNoInv'
  <2>1. seqNo' = seqNo /\ requestId' = requestId
    BY <1>6 DEF RecvRReq
  <2>2. CASE IgnoreBlacklisted(n, m) \/ IgnoreDuplicate(n, m)
    <3>1. /\ table' = [table EXCEPT ![n] = Purged(n)] /\ air' \subseteq air
          /\ handled' = handled /\ replies' = replies
      BY <2>2 DEF IgnoreBlacklisted, IgnoreDuplicate
    <3>2. \A p \in Node : Known(table'[p], seqNo)
      BY <1>1, <3>1, PurgedKnown
    <3> QED BY <2>1, <3>1, <3>2, QuietNumbers
  <2>3. CASE HandleRReq(n, m)
    BY <2>1, <2>3, HandleNumbers
  <2> QED BY <1>6, <2>2, <2>3 DEF RecvRReq
<1>7. ASSUME NEW n \in Node, NEW nb \in Node, AckTimerExpire(n, nb) PROVE SeqNoInv'
  <2>1. /\ table' = [table EXCEPT ![n] = MarkLinkAsUnidirectional(@, nb)]
        /\ UNCHANGED <<seqNo, requestId, air, handled, replies>>
    BY <1>7 DEF AckTimerExpire
  <2>2. PICK u : u = MarkLinkAsUnidirectional(table[n], nb)
    OBVIOUS
  <2>3. \A d \in DOMAIN u : SameNumber(table[n], u, d)
    BY <1>1, <2>2, MarkTyped, MarkNumbers
  <2>4. Known(u, seqNo)
    BY <1>1, <2>3, SameIsKnown
  <2>5. \A p \in Node : Known(table'[p], seqNo)
    BY <1>1, <2>1, <2>2, <2>4
  <2> QED BY <2>1, <2>5, QuietNumbers
<1>8. CASE Tick
  BY <1>1, <1>8, QuietNumbers DEF Tick
<1>9. CASE UNCHANGED vars
  BY <1>1, <1>9, QuietNumbers DEF vars
<1> QED BY <1>3, <1>4, <1>5, <1>6, <1>7, <1>8, <1>9 DEF Next

LEMMA AlwaysSeqNoInv == Spec => []SeqNoInv
<1>1. Init => TInv /\ FloodInv /\ SeqNoInv
  BY InitTInv, InitFloodInv, InitSeqNoInv
<1>2. (TInv /\ FloodInv /\ SeqNoInv) /\ [Next]_vars => (TInv /\ FloodInv /\ SeqNoInv)'
  BY StepTInv, StepFloodInv, StepSeqNoInv
<1>3. Spec => [](TInv /\ FloodInv /\ SeqNoInv)
  BY <1>1, <1>2, PTL DEF Spec
<1> QED BY <1>3, PTL

\* No table, RREQ or answer says of a node more than its sequence number reached,
\* for any number of nodes and any loss, delay and reordering.
THEOREM NumbersAreAuthentic == Spec => []SeqNoAuthentic
<1>1. SeqNoInv => SeqNoAuthentic
  BY DEF SeqNoInv
<1> QED BY <1>1, AlwaysSeqNoInv, PTL

\* No answer to an RREQ, by the destination or on its behalf, is staler than what
\* its originator knew when it asked.
THEOREM AnswersAreFreshEnough == Spec => []AnswerFreshEnough
<1>1. SeqNoInv => AnswerFreshEnough
  BY DEF SeqNoInv
<1> QED BY <1>1, AlwaysSeqNoInv, PTL
=============================================================================
