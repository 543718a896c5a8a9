---------------------------- MODULE RequestQueue ----------------------------
(***************************************************************************)
(* The queue of packets that wait for a route (routemsg-queue.cc).         *)
(*                                                                         *)
(* The vector of the code only grows at its end, so an entry carries the   *)
(* number of the Enqueue that accepted it (its ticket) and the vector is   *)
(* the set of its entries in the order of their tickets.                   *)
(***************************************************************************)
EXTENDS Integers, FiniteSets

CONSTANTS
    Uid, Dst,      \* packets and destinations
    Limit,         \* bound: the values m_maxLen takes
    Timeout,       \* bound: the values m_queueTimeout takes
    MaxTime,       \* bound: the clock stops here
    MaxAccepted    \* bound: entries accepted

\* A limit of 0 is left out: Enqueue would take the front of an empty vector.
ASSUME QueueAssumption ==
    /\ Limit \subseteq Nat \ {0} /\ Limit # {}
    /\ Timeout \subseteq Nat /\ Timeout # {}
    /\ MaxTime \in Nat /\ MaxAccepted \in Nat

VARIABLES
    now,
    queue,      \* m_queue
    maxLen,     \* m_maxLen
    timeout,    \* m_queueTimeout
    accepted,   \* history: entries accepted so far
    dequeued,   \* history: tickets handed out by Dequeue
    drops,      \* history: error callbacks, per ticket
    undercut    \* history: the limit was once set below the length

vars == <<now, queue, maxLen, timeout, accepted, dequeued, drops, undercut>>

Ticket == 1 .. MaxAccepted
Entry == [ticket : Ticket, uid : Uid, dst : Dst, expire : Nat]

Init ==
    /\ now = 0
    /\ queue = {}
    /\ maxLen \in Limit
    /\ timeout \in Timeout
    /\ accepted = 0
    /\ dequeued = {}
    /\ drops = [t \in Ticket |-> 0]
    /\ undercut = FALSE

\* Mutant: an entry is kept one instant too long.
OutdatedLate == {e \in queue : e.expire - now < -1}

\* What Purge drops and erases.
Outdated == {e \in queue : e.expire - now < 0}

Live == queue \ Outdated

Front(S) == CHOOSE e \in S : \A f \in S : e.ticket =< f.ticket

WithDst(S, dst) == {e \in S : e.dst = dst}

\* Mutant: only the first entry is compared.
PresentAtFront(uid, dst) ==
    Live # {} /\ Front(Live).uid = uid /\ Front(Live).dst = dst

\* Enqueue's search for an entry with the same packet and destination.
Present(uid, dst) == \E e \in Live : e.uid = uid /\ e.dst = dst

\* Drop: one error callback for every entry of S.
Drop(S) ==
    drops' = [t \in Ticket |->
                 IF \E e \in S : e.ticket = t THEN drops[t] + 1 ELSE drops[t]]

\* Mutant: the limit is only noticed when it is exceeded.
OverflowLate == IF Cardinality(Live) > maxLen THEN {Front(Live)} ELSE {}

\* The entry Enqueue makes room with: the first one, when the length is exactly
\* the limit.
Overflow == IF Cardinality(Live) = maxLen THEN {Front(Live)} ELSE {}

Enqueue(uid, dst) ==
    /\ accepted < MaxAccepted
    /\ ~Present(uid, dst)
    /\ accepted' = accepted + 1
    /\ queue' = (Live \ Overflow) \cup
                   {[ticket |-> accepted + 1, uid |-> uid, dst |-> dst,
                     expire |-> now + timeout]}
    /\ Drop(Outdated \cup Overflow)
    /\ UNCHANGED <<now, maxLen, timeout, dequeued, undercut>>

\* Every operation that only purges: GetSize, Enqueue of a pair already there,
\* Dequeue for a destination that has nothing queued.
JustPurge ==
    /\ Outdated # {}
    /\ queue' = Live
    /\ Drop(Outdated)
    /\ UNCHANGED <<now, maxLen, timeout, accepted, dequeued, undercut>>

\* Mutant: the packets of dst are erased without their callback.
DropPacketWithDstSilently(dst) ==
    /\ queue' = Live \ WithDst(Live, dst)
    /\ Drop(Outdated)
    /\ UNCHANGED <<now, maxLen, timeout, accepted, dequeued, undercut>>

DropPacketWithDst(dst) ==
    /\ queue' = Live \ WithDst(Live, dst)
    /\ Drop(Outdated \cup WithDst(Live, dst))
    /\ UNCHANGED <<now, maxLen, timeout, accepted, dequeued, undercut>>

Dequeue(dst) ==
    /\ WithDst(Live, dst) # {}
    /\ queue' = Live \ {Front(WithDst(Live, dst))}
    /\ dequeued' = dequeued \cup {Front(WithDst(Live, dst)).ticket}
    /\ Drop(Outdated)
    /\ UNCHANGED <<now, maxLen, timeout, accepted, undercut>>

\* Mutant: the limit counts from zero.
SetMaxQueueLenLess(len) ==
    /\ maxLen' = len - 1
    /\ undercut' = (undercut \/ len < Cardinality(queue))
    /\ UNCHANGED <<now, queue, timeout, accepted, dequeued, drops>>

\* Takes effect at the next Enqueue; what is queued is not cut to the new limit.
SetMaxQueueLen(len) ==
    /\ maxLen' = len
    /\ undercut' = (undercut \/ len < Cardinality(queue))
    /\ UNCHANGED <<now, queue, timeout, accepted, dequeued, drops>>

\* For entries enqueued from now on.
SetQueueTimeout(t) ==
    /\ timeout' = t
    /\ UNCHANGED <<now, queue, maxLen, accepted, dequeued, drops, undercut>>

Tick ==
    /\ now < MaxTime
    /\ now' = now + 1
    /\ UNCHANGED <<queue, maxLen, timeout, accepted, dequeued, drops, undercut>>

Next ==
    \/ \E uid \in Uid, dst \in Dst : Enqueue(uid, dst)
    \/ \E dst \in Dst : Dequeue(dst) \/ DropPacketWithDst(dst)
    \/ JustPurge
    \/ \E len \in Limit : SetMaxQueueLen(len)
    \/ \E t \in Timeout : SetQueueTimeout(t)
    \/ Tick

Spec == Init /\ [][Next]_vars

-----------------------------------------------------------------------------
(* Properties *)

TypeOK ==
    /\ now \in 0 .. MaxTime
    /\ queue \subseteq Entry
    /\ maxLen \in Limit /\ timeout \in Timeout
    /\ accepted \in 0 .. MaxAccepted
    /\ dequeued \subseteq Ticket
    /\ drops \in [Ticket -> Nat]
    /\ undercut \in BOOLEAN

\* No packet is ever queued twice for one destination: the header's promise of
\* Enqueue, kept across purges, drops and re-enqueues of the same packet.
NoPacketQueuedTwice ==
    \A e, f \in queue : e.uid = f.uid /\ e.dst = f.dst => e = f

\* Every packet the queue accepted is in it, or was handed out once, or was
\* dropped with exactly one error callback: none is lost and none ends twice.
EveryPacketEndsOnce ==
    \A t \in Ticket :
        (IF \E e \in queue : e.ticket = t THEN 1 ELSE 0)
            + (IF t \in dequeued THEN 1 ELSE 0) + drops[t]
            = (IF t =< accepted THEN 1 ELSE 0)

\* The queue stays within its limit as long as nobody sets the limit below the
\* current length (Enqueue tests the length with ==).
WithinLimitUnlessUndercut == ~undercut => Cardinality(queue) =< maxLen

\* "The maximum number of packets that we allow a routing protocol to buffer."
\* (routemsg-queue.h:92, of m_maxLen)  After an Enqueue the limit holds, whatever
\* it was before.
EnqueueKeepsLimit ==
    [][accepted' # accepted => Cardinality(queue') =< maxLen]_vars

\* Dequeue never hands out a packet that has outlived its time in the queue, nor
\* one that is younger than another waiting for the same destination.
DequeueInOrderAndInTime ==
    [][\A e \in queue : e.ticket \in dequeued' \ dequeued =>
            /\ e.expire >= now
            /\ \A f \in queue' : f.dst = e.dst => e.ticket < f.ticket]_vars
=============================================================================
