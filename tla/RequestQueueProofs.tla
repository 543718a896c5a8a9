------------------------- MODULE RequestQueueProofs -------------------------
(***************************************************************************)
(* Proofs about the queue of packets that wait for a route, for any        *)
(* packets, limits and timeouts: what is accepted ends exactly once, no    *)
(* packet is queued twice, and packets leave in order and in time.         *)
(***************************************************************************)
EXTENDS RequestQueue, FiniteSetTheorems, WellFoundedInduction, TLAPS

\* An entry is known by its ticket.
TicketsUnique == \A e, f \in queue : e.ticket = f.ticket => e = f

IInv ==
    /\ TypeOK
    /\ IsFiniteSet(queue)
    /\ TicketsUnique
    /\ NoPacketQueuedTwice
    /\ EveryPacketEndsOnce
    /\ WithinLimitUnlessUndercut

\* The entry with the least ticket exists: the vector of the code has a front.
LEMMA FrontIsFirst ==
    ASSUME NEW S \in SUBSET Entry, S # {}
    PROVE  Front(S) \in S /\ \A f \in S : Front(S).ticket =< f.ticket
<1> DEFINE R == OpToRel(<, Nat)
           T == {e.ticket : e \in S}
<1>1. T \subseteq Nat /\ T # {}
  BY QueueAssumption DEF Entry, Ticket
<1>2. IsWellFoundedOn(R, Nat)
  BY NatLessThanWellFounded
<1>3. \E t \in T : \A s \in T : ~(<<s, t>> \in R)
  <2> HIDE DEF R, T
  <2> QED BY <1>1, <1>2, WFMin
<1>4. \E t \in T : \A s \in T : t =< s
  <2>1. \A s, t \in Nat : s < t => <<s, t>> \in R
    BY DEF OpToRel
  <2> HIDE DEF R
  <2>2. PICK t \in T : \A s \in T : ~(<<s, t>> \in R)
    BY <1>3
  <2>3. \A s \in T : s \in Nat /\ t \in Nat /\ ~(s < t)
    BY <1>1, <2>1, <2>2
  <2>4. \A s \in T : t =< s
    BY <2>3
  <2> HIDE DEF T
  <2> QED BY <2>4
<1>5. \E e \in S : \A f \in S : e.ticket =< f.ticket
  BY <1>4
<1> QED BY <1>5 DEF Front

\* An accepted ticket is above every ticket in the queue; the entries that are
\* purged are entries of the queue.
LEMMA QueueFacts ==
    ASSUME IInv
    PROVE  /\ accepted \in Nat /\ MaxAccepted \in Nat /\ maxLen \in Nat \ {0}
           /\ now \in Nat /\ timeout \in Nat
           /\ Live \subseteq queue /\ Outdated \subseteq queue
           /\ Live \cap Outdated = {} /\ Live \cup Outdated = queue
           /\ IsFiniteSet(Live) /\ Live \in SUBSET Entry
           /\ \A e \in queue : e.ticket \in 1 .. accepted
<1>1. accepted \in 0 .. MaxAccepted /\ MaxAccepted \in Nat
  BY QueueAssumption DEF IInv, TypeOK
<1>2. maxLen \in Nat \ {0} /\ timeout \in Nat /\ now \in Nat
  BY QueueAssumption DEF IInv, TypeOK
<1>3. /\ Live \subseteq queue /\ Outdated \subseteq queue
      /\ Live \cap Outdated = {} /\ Live \cup Outdated = queue
  BY DEF Live, Outdated
<1>4. IsFiniteSet(Live)
  BY <1>3, FS_Subset DEF IInv
<1>5. queue \subseteq Entry
  BY DEF IInv, TypeOK
<1>6. ASSUME NEW e \in queue PROVE e.ticket \in 1 .. accepted
  <2>1. e.ticket \in Ticket
    BY <1>5 DEF Entry
  <2>2. drops[e.ticket] \in Nat
    BY <2>1 DEF IInv, TypeOK
  <2>3. 1 + (IF e.ticket \in dequeued THEN 1 ELSE 0) + drops[e.ticket]
          = (IF e.ticket =< accepted THEN 1 ELSE 0)
    BY <2>1 DEF IInv, EveryPacketEndsOnce
  <2>4. e.ticket =< accepted
    BY <2>2, <2>3
  <2> QED BY <1>1, <2>1, <2>4 DEF Ticket
<1> QED BY <1>1, <1>2, <1>3, <1>4, <1>5, <1>6

LEMMA InitIInv == Init => IInv
<1> SUFFICES ASSUME Init PROVE IInv
  OBVIOUS
<1>1. TypeOK
  <2>1. now \in 0 .. MaxTime /\ accepted \in 0 .. MaxAccepted
    BY QueueAssumption DEF Init
  <2>2. /\ queue \subseteq Entry /\ maxLen \in Limit /\ timeout \in Timeout
        /\ dequeued \subseteq Ticket /\ drops \in [Ticket -> Nat]
    BY DEF Init
  <2>3. undercut \in BOOLEAN
    BY DEF Init
  <2> QED BY <2>1, <2>2, <2>3 DEF TypeOK
<1>2. IsFiniteSet(queue) /\ Cardinality(queue) = 0
  BY FS_EmptySet DEF Init
<1>3. maxLen \in Nat
  BY QueueAssumption DEF Init
<1>4. TicketsUnique /\ NoPacketQueuedTwice
  BY DEF Init, TicketsUnique, NoPacketQueuedTwice
<1>5. EveryPacketEndsOnce
  BY QueueAssumption DEF Init, EveryPacketEndsOnce, Ticket
<1>6. WithinLimitUnlessUndercut
  BY <1>2, <1>3 DEF WithinLimitUnlessUndercut
<1> QED BY <1>1, <1>2, <1>4, <1>5, <1>6 DEF IInv

\* A step that removes the entries of S, with their callbacks, and hands out the
\* tickets of D: the invariant survives, since no entry is in both.
LEMMA Removing ==
    ASSUME IInv, NEW S \in SUBSET queue, NEW D \in SUBSET queue, S \cap D = {},
           queue' = queue \ (S \cup D), Drop(S),
           dequeued' = dequeued \cup {e.ticket : e \in D},
           UNCHANGED <<now, maxLen, timeout, accepted, undercut>>
    PROVE  IInv'
<1>1. TypeOK'
  <2>1. drops' \in [Ticket -> Nat]
    BY DEF Drop, IInv, TypeOK
  <2>2. dequeued' \subseteq Ticket
    BY DEF IInv, TypeOK, Entry
  <2> QED BY <2>1, <2>2 DEF IInv, TypeOK
<1>2. IsFiniteSet(queue') /\ Cardinality(queue') =< Cardinality(queue)
      /\ Cardinality(queue') \in Nat /\ Cardinality(queue) \in Nat
  BY FS_Subset, FS_CardinalityType DEF IInv
<1>3. TicketsUnique' /\ NoPacketQueuedTwice'
  BY DEF IInv, TicketsUnique, NoPacketQueuedTwice
<1>4. EveryPacketEndsOnce'
  <2> SUFFICES ASSUME NEW t \in Ticket
               PROVE  (IF \E e \in queue' : e.ticket = t THEN 1 ELSE 0)
                          + (IF t \in dequeued' THEN 1 ELSE 0) + drops'[t]
                          = (IF t =< accepted THEN 1 ELSE 0)
    BY DEF EveryPacketEndsOnce
  <2>1. (IF \E e \in queue : e.ticket = t THEN 1 ELSE 0)
            + (IF t \in dequeued THEN 1 ELSE 0) + drops[t]
            = (IF t =< accepted THEN 1 ELSE 0)
    BY DEF IInv, EveryPacketEndsOnce
  <2>2. drops[t] \in Nat
    BY DEF IInv, TypeOK
  <2>3. drops'[t] = IF \E e \in S : e.ticket = t THEN drops[t] + 1 ELSE drops[t]
    BY DEF Drop
  <2>4. \A e, f \in queue : e.ticket = f.ticket => e = f
    BY DEF IInv, TicketsUnique
  <2>5. CASE \E e \in S : e.ticket = t
    <3>1. ~\E e \in queue' : e.ticket = t
      BY <2>4, <2>5
    <3>2. t \notin dequeued
      BY <2>1, <2>2, <2>5
    <3>3. t \notin dequeued'
      BY <2>4, <2>5, <3>2
    <3> QED BY <2>1, <2>2, <2>3, <2>5, <3>1, <3>2, <3>3
  <2>6. CASE \E e \in D : e.ticket = t
    <3>1. ~\E e \in queue' : e.ticket = t
      BY <2>4, <2>6
    <3>2. t \notin dequeued /\ t \in dequeued'
      BY <2>1, <2>2, <2>6
    <3>3. ~\E e \in S : e.ticket = t
      BY <2>4, <2>6
    <3> QED BY <2>1, <2>2, <2>3, <2>6, <3>1, <3>2, <3>3
  <2>7. CASE ~(\E e \in S : e.ticket = t) /\ ~(\E e \in D : e.ticket = t)
    <3>1. (\E e \in queue' : e.ticket = t) <=> (\E e \in queue : e.ticket = t)
      BY <2>7
    <3>2. t \in dequeued' <=> t \in dequeued
      BY <2>7
    <3> QED BY <2>1, <2>3, <2>7, <3>1, <3>2
  <2> QED BY <2>5, <2>6, <2>7
<1>5. WithinLimitUnlessUndercut'
  <2>1. maxLen \in Nat
    BY QueueFacts
  <2> QED BY <1>2, <2>1 DEF IInv, WithinLimitUnlessUndercut
<1> QED BY <1>1, <1>2, <1>3, <1>4, <1>5 DEF IInv

LEMMA EnqueueIInv ==
    ASSUME IInv, NEW uid \in Uid, NEW dst \in Dst, Enqueue(uid, dst)
    PROVE  IInv'
<1> DEFINE a == accepted + 1
           entry == [ticket |-> a, uid |-> uid, dst |-> dst, expire |-> now + timeout]
           kept == Live \ Overflow
           S == Outdated \cup Overflow
<1>1. /\ accepted \in Nat /\ MaxAccepted \in Nat /\ maxLen \in Nat \ {0}
      /\ now \in Nat /\ timeout \in Nat
      /\ Live \subseteq queue /\ Outdated \subseteq queue
      /\ Live \cap Outdated = {} /\ Live \cup Outdated = queue
      /\ IsFiniteSet(Live) /\ Live \in SUBSET Entry
      /\ \A e \in queue : e.ticket \in 1 .. accepted
  BY QueueFacts
<1>2. /\ queue' = kept \cup {entry} /\ accepted' = a /\ accepted < MaxAccepted
      /\ Drop(S) /\ ~Present(uid, dst)
      /\ UNCHANGED <<now, maxLen, timeout, dequeued, undercut>>
  BY DEF Enqueue
<1>3. Overflow \subseteq Live
  <2>1. CASE Cardinality(Live) = maxLen
    <3>1. Live # {}
      BY <1>1, <2>1, FS_EmptySet
    <3> QED BY <1>1, <3>1, FrontIsFirst DEF Overflow
  <2>2. CASE Cardinality(Live) # maxLen
    BY <2>2 DEF Overflow
  <2> QED BY <2>1, <2>2
<1>4. kept \cup S = queue /\ kept \cap S = {} /\ kept \subseteq Live
  BY <1>1, <1>3
<1>5. a \in Ticket /\ entry \in Entry /\ entry \notin queue
  <2>1. a \in Ticket
    BY <1>1, <1>2 DEF Ticket
  <2>2. now + timeout \in Nat
    BY <1>1
  <2>3. entry.ticket = a /\ a \notin 1 .. accepted
    BY <1>1
  <2> QED BY <1>1, <2>1, <2>2, <2>3 DEF Entry
<1>6. TypeOK'
  <2>1. drops' \in [Ticket -> Nat]
    BY <1>2 DEF Drop, IInv, TypeOK
  <2>2. queue' \subseteq Entry
    BY <1>1, <1>2, <1>5
  <2>3. accepted' \in 0 .. MaxAccepted
    BY <1>1, <1>2
  <2> QED BY <1>2, <2>1, <2>2, <2>3 DEF IInv, TypeOK
<1>7. IsFiniteSet(kept)
  BY <1>1, FS_Subset
<1>8. IsFiniteSet(queue')
  BY <1>2, <1>7, FS_AddElement
<1>9. \A e \in kept : e.ticket # a
  BY <1>1, <1>4
<1>10. TicketsUnique'
  <2>1. \A e, f \in kept : e.ticket = f.ticket => e = f
    BY <1>1, <1>4 DEF IInv, TicketsUnique
  <2>2. entry.ticket = a
    OBVIOUS
  <2> HIDE DEF kept, entry, a
  <2> QED BY <1>2, <1>9, <2>1, <2>2 DEF TicketsUnique
<1>11. NoPacketQueuedTwice'
  <2>1. \A e, f \in kept : e.uid = f.uid /\ e.dst = f.dst => e = f
    BY <1>1, <1>4 DEF IInv, NoPacketQueuedTwice
  <2>2. entry.uid = uid /\ entry.dst = dst
    OBVIOUS
  <2>3. \A e \in kept : ~(e.uid = uid /\ e.dst = dst)
    BY <1>2, <1>4 DEF Present
  <2> HIDE DEF kept, entry
  <2> QED BY <1>2, <2>1, <2>2, <2>3 DEF NoPacketQueuedTwice
<1>12. EveryPacketEndsOnce'
  <2> SUFFICES ASSUME NEW t \in Ticket
               PROVE  (IF \E e \in queue' : e.ticket = t THEN 1 ELSE 0)
                          + (IF t \in dequeued THEN 1 ELSE 0) + drops'[t]
                          = (IF t =< a THEN 1 ELSE 0)
    BY <1>2 DEF EveryPacketEndsOnce
  <2>1. (IF \E e \in queue : e.ticket = t THEN 1 ELSE 0)
            + (IF t \in dequeued THEN 1 ELSE 0) + drops[t]
            = (IF t =< accepted THEN 1 ELSE 0)
    BY DEF IInv, EveryPacketEndsOnce
  <2>2. drops[t] \in Nat /\ t \in Nat
    BY <1>1 DEF IInv, TypeOK, Ticket
  <2>3. drops'[t] = IF \E e \in S : e.ticket = t THEN drops[t] + 1 ELSE drops[t]
    BY <1>2 DEF Drop
  <2>4. \A e, f \in queue : e.ticket = f.ticket => e = f
    BY DEF IInv, TicketsUnique
  <2>5. entry.ticket = a
    OBVIOUS
  <2>6. t =< a <=> t =< accepted \/ t = a
    BY <1>1, <2>2
  <2>7. ~(a =< accepted)
    BY <1>1
  <2> HIDE DEF S, kept, entry, a
  <2>8. CASE \E e \in S : e.ticket = t
    <3>1. t # a
      BY <1>1, <1>4, <2>7, <2>8
    <3>2. ~\E e \in queue' : e.ticket = t
      BY <1>2, <1>4, <2>4, <2>5, <2>8, <3>1
    <3>3. \E e \in queue : e.ticket = t
      BY <1>4, <2>8
    <3> QED BY <2>1, <2>2, <2>3, <2>6, <2>8, <3>1, <3>2, <3>3
  <2>9. CASE t = a
    <3>1. ~\E e \in queue : e.ticket = t
      BY <1>1, <2>7, <2>9
    <3>2. ~(\E e \in S : e.ticket = t) /\ \E e \in queue' : e.ticket = t
      BY <1>2, <1>4, <2>5, <2>9, <3>1
    <3> QED BY <2>1, <2>2, <2>3, <2>6, <2>7, <2>9, <3>1, <3>2
  <2>10. CASE ~(\E e \in S : e.ticket = t) /\ t # a
    <3>1. (\E e \in queue' : e.ticket = t) <=> (\E e \in queue : e.ticket = t)
      BY <1>2, <1>4, <2>5, <2>10
    <3> QED BY <2>1, <2>3, <2>6, <2>10, <3>1
  <2> QED BY <2>8, <2>9, <2>10
<1>13. WithinLimitUnlessUndercut'
  <2> SUFFICES ASSUME ~undercut PROVE Cardinality(queue') =< maxLen
    BY <1>2 DEF WithinLimitUnlessUndercut
  <2>1. Cardinality(queue) =< maxLen
    BY DEF IInv, WithinLimitUnlessUndercut
  <2>2. /\ Cardinality(Live) =< Cardinality(queue) /\ Cardinality(Live) \in Nat
        /\ Cardinality(queue) \in Nat
    BY <1>1, FS_Subset, FS_CardinalityType DEF IInv
  <2>3. Cardinality(kept) \in Nat /\ Cardinality(queue') = Cardinality(kept) + 1
    <3>1. entry \notin kept
      BY <1>4, <1>5
    <3> QED BY <1>2, <1>7, <3>1, FS_AddElement, FS_CardinalityType
  <2>4. Cardinality(kept) < maxLen
    <3>1. CASE Cardinality(Live) # maxLen
      <4>1. kept = Live
        BY <3>1 DEF Overflow
      <4>2. maxLen \in Nat
        BY <1>1
      <4>3. Cardinality(Live) < maxLen
        BY <2>1, <2>2, <3>1, <4>2
      <4> HIDE DEF kept
      <4> QED BY <4>1, <4>3
    <3>2. CASE Cardinality(Live) = maxLen
      <4>1. Overflow = {Front(Live)}
        BY <3>2 DEF Overflow
      <4>2. Front(Live) \in Live
        BY <1>3, <4>1
      <4>3. Cardinality(kept) = Cardinality(Live) - 1
        BY <1>1, <4>1, <4>2, FS_RemoveElement
      <4> QED BY <1>1, <2>2, <3>2, <4>3
    <3> QED BY <3>1, <3>2
  <2> QED BY <1>1, <2>3, <2>4
<1> QED BY <1>6, <1>8, <1>10, <1>11, <1>12, <1>13 DEF IInv

LEMMA StepIInv == IInv /\ [Next]_vars => IInv'
<1> SUFFICES ASSUME IInv, [Next]_vars PROVE IInv'
  OBVIOUS
<1>1. /\ Live \subseteq queue /\ Outdated \subseteq queue
      /\ Live \cap Outdated = {} /\ Live \cup Outdated = queue
      /\ Live \in SUBSET Entry
  BY QueueFacts
<1>2. CASE \E uid \in Uid, dst \in Dst : Enqueue(uid, dst)
  BY <1>2, EnqueueIInv
<1>3. ASSUME NEW dst \in Dst, Dequeue(dst) PROVE IInv'
  <2> DEFINE e == Front(WithDst(Live, dst))
  <2>1. WithDst(Live, dst) \in SUBSET Entry /\ WithDst(Live, dst) \subseteq Live
    BY <1>1 DEF WithDst
  <2>2. e \in Live
    BY <1>3, <2>1, FrontIsFirst DEF Dequeue
  <2>3. /\ queue' = Live \ {e} /\ dequeued' = dequeued \cup {e.ticket} /\ Drop(Outdated)
        /\ UNCHANGED <<now, maxLen, timeout, accepted, undercut>>
    BY <1>3 DEF Dequeue
  <2> HIDE DEF e
  <2>4. queue' = queue \ (Outdated \cup {e}) /\ Outdated \cap {e} = {}
    BY <1>1, <2>2, <2>3
  <2>5. dequeued' = dequeued \cup {f.ticket : f \in {e}}
    BY <2>3
  <2>6. {e} \in SUBSET queue /\ Outdated \in SUBSET queue
    BY <1>1, <2>2
  <2> QED BY <2>3, <2>4, <2>5, <2>6, Removing
<1>4. ASSUME NEW S \in SUBSET Live, queue' = Live \ S, Drop(Outdated \cup S),
             UNCHANGED <<now, maxLen, timeout, accepted, dequeued, undercut>>
      PROVE  IInv'
  <2> DEFINE T == Outdated \cup S
  <2>1. T \in SUBSET queue /\ queue' = queue \ (T \cup {}) /\ T \cap {} = {}
    BY <1>1, <1>4
  <2>2. {} \in SUBSET queue /\ dequeued' = dequeued \cup {e.ticket : e \in {}}
    BY <1>4
  <2>3. Drop(T)
    BY <1>4
  <2> HIDE DEF T
  <2> QED BY <1>4, <2>1, <2>2, <2>3, Removing
<1>5. CASE \E dst \in Dst : DropPacketWithDst(dst)
  <2>1. PICK dst \in Dst : DropPacketWithDst(dst)
    BY <1>5
  <2>2. WithDst(Live, dst) \in SUBSET Live
    BY DEF WithDst
  <2> QED BY <1>4, <2>1, <2>2 DEF DropPacketWithDst
<1>6. CASE JustPurge
  <2>1. queue' = Live \ {} /\ Drop(Outdated \cup {})
    BY <1>6 DEF JustPurge, Drop
  <2> QED BY <1>4, <1>6, <2>1 DEF JustPurge
<1>7. ASSUME NEW len \in Limit, SetMaxQueueLen(len) PROVE IInv'
  <2>1. /\ maxLen' = len /\ undercut' = (undercut \/ len < Cardinality(queue))
        /\ UNCHANGED <<now, queue, timeout, accepted, dequeued, drops>>
    BY <1>7 DEF SetMaxQueueLen
  <2>2. undercut' \in BOOLEAN
    BY <2>1
  <2>3. TypeOK'
    BY <2>1, <2>2 DEF IInv, TypeOK
  <2>4. Cardinality(queue) \in Nat /\ len \in Nat
    BY QueueAssumption, FS_CardinalityType DEF IInv
  <2>5. WithinLimitUnlessUndercut'
    <3> SUFFICES ASSUME ~undercut' PROVE Cardinality(queue) =< len
      BY <2>1 DEF WithinLimitUnlessUndercut
    <3>1. ~(len < Cardinality(queue))
      BY <2>1, Zenon
    <3> QED BY <2>4, <3>1
  <2> QED BY <2>1, <2>3, <2>5 DEF IInv, TicketsUnique, NoPacketQueuedTwice,
                                  EveryPacketEndsOnce
<1>8. ASSUME UNCHANGED <<queue, maxLen, accepted, dequeued, drops, undercut>>,
             timeout' \in Timeout, now' \in 0 .. MaxTime
      PROVE  IInv'
  BY <1>8 DEF IInv, TypeOK, TicketsUnique, NoPacketQueuedTwice, EveryPacketEndsOnce,
              WithinLimitUnlessUndercut
<1>9. CASE \E t \in Timeout : SetQueueTimeout(t)
  BY <1>8, <1>9 DEF SetQueueTimeout, IInv, TypeOK
<1>10. CASE Tick
  <2>1. now' \in 0 .. MaxTime
    BY <1>10, QueueAssumption DEF Tick, IInv, TypeOK
  <2> QED BY <1>8, <1>10, <2>1 DEF Tick, IInv, TypeOK
<1>11. CASE UNCHANGED vars
  BY <1>8, <1>11 DEF vars, IInv, TypeOK
<1> QED BY <1>2, <1>3, <1>5, <1>6, <1>7, <1>9, <1>10, <1>11 DEF Next

\* Each property of the queue follows from the inductive invariant.
LEMMA Invariant == Spec => []IInv
  BY InitIInv, StepIInv, PTL DEF Spec

THEOREM TypeCorrect == Spec => []TypeOK
<1>1. IInv => TypeOK
  BY DEF IInv
<1> QED BY <1>1, Invariant, PTL

\* Whatever the operations, no packet waits twice for one destination.
THEOREM NeverQueuedTwice == Spec => []NoPacketQueuedTwice
<1>1. IInv => NoPacketQueuedTwice
  BY DEF IInv
<1> QED BY <1>1, Invariant, PTL

\* Every accepted packet is queued, handed out or dropped: exactly one of them.
THEOREM EndsOnce == Spec => []EveryPacketEndsOnce
<1>1. IInv => EveryPacketEndsOnce
  BY DEF IInv
<1> QED BY <1>1, Invariant, PTL

\* The limit holds for as long as nobody sets it below the current length.
THEOREM WithinLimit == Spec => []WithinLimitUnlessUndercut
<1>1. IInv => WithinLimitUnlessUndercut
  BY DEF IInv
<1> QED BY <1>1, Invariant, PTL

\* Dequeue hands out the oldest packet of its destination, and none too late.
THEOREM InOrderAndInTime == Spec => DequeueInOrderAndInTime
<1> DEFINE Kept ==
        \A e \in queue : e.ticket \in dequeued' \ dequeued =>
            /\ e.expire >= now
            /\ \A f \in queue' : f.dst = e.dst => e.ticket < f.ticket
<1>1. IInv /\ [Next]_vars => [Kept]_vars
  <2> SUFFICES ASSUME IInv, Next, NEW e \in queue, e.ticket \in dequeued' \ dequeued
               PROVE  /\ e.expire >= now
                      /\ \A f \in queue' : f.dst = e.dst => e.ticket < f.ticket
    OBVIOUS
  <2>1. PICK dst \in Dst : Dequeue(dst)
    BY DEF Next, Enqueue, DropPacketWithDst, JustPurge, SetMaxQueueLen,
           SetQueueTimeout, Tick
  <2> DEFINE W == WithDst(Live, dst)
             first == Front(W)
  <2>2. W \in SUBSET Entry /\ W \subseteq Live /\ W # {}
    BY <2>1, QueueFacts DEF WithDst, Dequeue
  <2>3. first \in W /\ \A f \in W : first.ticket =< f.ticket
    <3> HIDE DEF W
    <3> QED BY <2>2, FrontIsFirst
  <2>4. queue' = Live \ {first} /\ dequeued' = dequeued \cup {first.ticket}
    BY <2>1 DEF Dequeue
  <2>5. Live \subseteq queue /\ now \in Nat
    BY QueueFacts
  <2>6. W = {f \in Live : f.dst = dst}
    BY DEF WithDst
  <2> HIDE DEF first, W
  <2>7. e = first
    BY <2>2, <2>3, <2>4, <2>5 DEF IInv, TicketsUnique
  <2>8. e.expire >= now
    <3>1. e \in Live /\ e.expire \in Nat
      BY <2>2, <2>3, <2>7 DEF Entry
    <3>2. ~(e.expire - now < 0)
      BY <3>1 DEF Live, Outdated
    <3> QED BY <2>5, <3>1, <3>2
  <2>9. ASSUME NEW f \in queue', f.dst = e.dst PROVE e.ticket < f.ticket
    <3>1. f \in W /\ f # e
      BY <2>3, <2>4, <2>6, <2>7, <2>9
    <3>2. e.ticket =< f.ticket
      BY <2>3, <2>7, <3>1
    <3>3. e.ticket # f.ticket
      BY <2>2, <2>5, <3>1 DEF IInv, TicketsUnique
    <3>4. e.ticket \in Nat /\ f.ticket \in Nat
      BY <2>2, <2>3, <2>7, <3>1, QueueAssumption DEF Entry, Ticket
    <3> QED BY <3>2, <3>3, <3>4
  <2> QED BY <2>8, <2>9
<1>2. Spec => [][Kept]_vars
  BY <1>1, Invariant, PTL DEF Spec
<1> QED BY <1>2 DEF DequeueInOrderAndInTime

\* An Enqueue can leave the queue above its limit only after somebody has set
\* the limit below the length: with one limit for good, as every queue has that
\* nobody reconfigures, EnqueueKeepsLimit holds.
THEOREM OneLimitIsKept ==
    ASSUME \A l, k \in Limit : l = k
    PROVE  Spec => EnqueueKeepsLimit
<1> DEFINE Whole == ~undercut
           Kept == accepted' # accepted => Cardinality(queue') =< maxLen
<1>1. Init => Whole
  BY DEF Init
<1>2. IInv /\ Whole /\ [Next]_vars => Whole'
  <2> SUFFICES ASSUME IInv, Whole, [Next]_vars PROVE Whole'
    OBVIOUS
  <2>1. CASE \E len \in Limit : SetMaxQueueLen(len)
    <3>1. PICK len \in Limit : SetMaxQueueLen(len)
      BY <2>1
    <3>2. len = maxLen /\ maxLen \in Nat
      BY QueueAssumption DEF IInv, TypeOK
    <3>3. Cardinality(queue) =< maxLen /\ Cardinality(queue) \in Nat
      BY QueueFacts, FS_CardinalityType DEF IInv, WithinLimitUnlessUndercut
    <3>4. ~(len < Cardinality(queue))
      BY <3>2, <3>3
    <3> QED BY <3>1, <3>4 DEF SetMaxQueueLen
  <2>2. CASE ~\E len \in Limit : SetMaxQueueLen(len)
    BY <2>2 DEF vars, Next, Enqueue, Dequeue, DropPacketWithDst, JustPurge,
                SetQueueTimeout, Tick
  <2> QED BY <2>1, <2>2
<1>3. IInv' /\ Whole' /\ [Next]_vars => [Kept]_vars
  <2> SUFFICES ASSUME IInv', Whole', Next, accepted' # accepted
               PROVE  Cardinality(queue') =< maxLen
    OBVIOUS
  <2>1. maxLen' = maxLen
    BY DEF Next, Enqueue, Dequeue, DropPacketWithDst, JustPurge, SetMaxQueueLen,
           SetQueueTimeout, Tick
  <2> QED BY <2>1 DEF IInv, WithinLimitUnlessUndercut
<1>4. Spec => [][Kept]_vars
  BY <1>1, <1>2, <1>3, Invariant, PTL DEF Spec
<1> QED BY <1>4 DEF EnqueueKeepsLimit
=============================================================================
