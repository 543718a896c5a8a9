-------------------------- MODULE NeighborsProofs --------------------------
(***************************************************************************)
(* Proofs about one channel table: its types, that no channel outlives its *)
(* expiry time, or the last call of ScheduleTimer, by more than the        *)
(* timer's period, that every channel opened is closed and reported        *)
(* exactly once, and that it keeps ChannelLease.                           *)
(***************************************************************************)
EXTENDS Neighbors, TLAPS

\* What the purge timer has to do with the entries: it runs while there are any,
\* it never lies in the past, and it fires at most Delay after each entry expires or
\* Delay after ScheduleTimer was last called.
TimerCovers ==
    /\ timer # NotRunning => now =< timer
    /\ DOMAIN nb # {} => timer # NotRunning
    /\ \A a \in DOMAIN nb : timer =< nb[a].expireTime + Delay \/ timer =< putOff + Delay

IInv == TypeOK /\ TimerCovers /\ EveryCloseReportedOnce /\ NoneLeftMarked

-----------------------------------------------------------------------------

\* Removing the closing entries keeps the table a table.
LEMMA RemainingIsTable ==
    ASSUME NEW t, DOMAIN t \subseteq Peer, \A a \in DOMAIN t : t[a] \in Entry
    PROVE  /\ DOMAIN Remaining(t, now) \subseteq DOMAIN t
           /\ DOMAIN Remaining(t, now) \subseteq Peer
           /\ \A a \in DOMAIN Remaining(t, now) :
                 /\ Remaining(t, now)[a] = t[a]
                 /\ Remaining(t, now)[a] \in Entry
                 /\ ~(t[a].expireTime < now)
                 /\ ~t[a].close
           /\ \A a \in DOMAIN t : a \in DOMAIN Remaining(t, now) <=> a \notin Closing(t, now)
           /\ Closing(t, now) \subseteq DOMAIN t
  BY DEF Remaining, Closing

\* A purge of a well-formed table re-establishes the invariant, whatever the
\* entries of that table said before: this is what every operation but the
\* refresh, Clear and the clock ends with.
LEMMA PurgeEstablishes ==
    ASSUME now \in 0 .. MaxTime, NEW t, NEW open,
           DOMAIN t \subseteq Peer, \A a \in DOMAIN t : t[a] \in Entry,
           timer \in Nat \cup {NotRunning}, timer # NotRunning => now =< timer,
           open \in [Peer -> Nat], closed \in [Peer -> Nat], cleared \in [Peer -> Nat],
           \A p \in Peer : open[p] = closed[p] + cleared[p]
                                        + (IF p \in DOMAIN t THEN 1 ELSE 0),
           Purge(t), now' = now, cleared' = cleared, opened' = open,
           putOff \in 0 .. now, putOff' = putOff
    PROVE  IInv'
<1> USE NeighborsAssumption
<1>0. /\ DOMAIN nb' \subseteq DOMAIN t
      /\ DOMAIN nb' \subseteq Peer
      /\ \A a \in DOMAIN nb' : /\ nb'[a] = t[a] /\ nb'[a] \in Entry
                             /\ ~(t[a].expireTime < now) /\ ~t[a].close
  BY RemainingIsTable DEF Purge
<1>1. TypeOK'
  <2>1. timer' \in Nat \cup {NotRunning}
    BY DEF Purge
  <2>2. closed' \in [Peer -> Nat]
    BY DEF Purge, Counted
  <2> QED BY <1>0, <2>1, <2>2 DEF TypeOK
<1>2. TimerCovers'
  <2>1. CASE DOMAIN t = {}
    BY <2>1, <1>0 DEF Purge, TimerCovers
  <2>2. CASE DOMAIN t # {}
    <3>1. timer' = now + Delay
      BY <2>2 DEF Purge
    <3>2. \A a \in DOMAIN nb' : timer' =< nb'[a].expireTime + Delay
      BY <1>0, <3>1 DEF Entry
    <3> QED BY <3>1, <3>2 DEF TimerCovers, NotRunning
  <2> QED BY <2>1, <2>2
<1>3. EveryCloseReportedOnce'
  <2> SUFFICES ASSUME NEW p \in Peer
               PROVE  opened'[p] = closed'[p] + cleared'[p]
                                     + (IF p \in DOMAIN nb' THEN 1 ELSE 0)
    BY DEF EveryCloseReportedOnce
  <2>1. closed'[p] = IF p \in Closing(t, now) THEN closed[p] + 1 ELSE closed[p]
    BY DEF Purge, Counted
  <2>2. p \in DOMAIN nb' <=> p \in DOMAIN t /\ p \notin Closing(t, now)
    BY DEF Purge, Remaining
  <2>3. Closing(t, now) \subseteq DOMAIN t
    BY DEF Closing
  <2> QED BY <2>1, <2>2, <2>3
<1>4. NoneLeftMarked'
  BY <1>0 DEF NoneLeftMarked
<1> QED BY <1>1, <1>2, <1>3, <1>4 DEF IInv

-----------------------------------------------------------------------------

LEMMA InitIInv == Init => IInv
  BY NeighborsAssumption
     DEF Init, IInv, TypeOK, TimerCovers, EveryCloseReportedOnce, NoneLeftMarked,
         NotRunning

LEMMA StepIInv == IInv /\ [Next]_vars => IInv'
<1> USE NeighborsAssumption
<1> SUFFICES ASSUME IInv, [Next]_vars PROVE IInv'
  OBVIOUS
<1>1. CASE Query
  BY <1>1, PurgeEstablishes
     DEF Query, IInv, TypeOK, TimerCovers, EveryCloseReportedOnce
<1>2. ASSUME NEW addr \in Peer, NEW pay \in Amount, DecChDeposit(addr, pay)
      PROVE  IInv'
  <2> DEFINE t == Decrease(nb, addr, pay, Modulus)
  <2>1. DOMAIN t = DOMAIN nb /\ \A a \in DOMAIN t : t[a] \in Entry
    BY DEF IInv, TypeOK, Decrease, Entry, Amount
  <2> QED BY <1>2, <2>1, PurgeEstablishes
     DEF DecChDeposit, IInv, TypeOK, TimerCovers, EveryCloseReportedOnce
<1>3. ASSUME NEW addr \in Peer, NEW pay \in Amount, IncChDeposit(addr, pay)
      PROVE  IInv'
  <2> DEFINE t == Increase(nb, addr, pay, Modulus)
  <2>1. DOMAIN t = DOMAIN nb /\ \A a \in DOMAIN t : t[a] \in Entry
    BY DEF IInv, TypeOK, Increase, Entry, Amount
  <2> QED BY <1>3, <2>1, PurgeEstablishes
     DEF IncChDeposit, IInv, TypeOK, TimerCovers, EveryCloseReportedOnce
<1>4. ASSUME NEW addr \in Peer, NEW amount \in Amount, NEW expire \in Lifetime,
             UpdateFound(addr, amount, now + expire)
      PROVE  IInv'
  <2>1. now + expire \in Nat /\ now \in Nat
    BY DEF IInv, TypeOK
  <2>2. DOMAIN nb' = DOMAIN nb
    BY <1>4 DEF UpdateFound, Refresh
  <2>3. \A a \in DOMAIN nb : /\ nb'[a] \in Entry
                             /\ nb'[a].expireTime >= nb[a].expireTime
                             /\ nb'[a].close = nb[a].close
    BY <1>4, <2>1 DEF UpdateFound, Refresh, IInv, TypeOK, Entry
  <2>4. UNCHANGED <<now, timer, opened, closed, cleared, putOff>>
    BY <1>4 DEF UpdateFound
  <2>5. TypeOK'
    BY <2>2, <2>3, <2>4 DEF IInv, TypeOK
  <2>6. TimerCovers'
    BY <2>2, <2>3, <2>4, <2>5 DEF IInv, TypeOK, TimerCovers, Entry, NotRunning
  <2>7. EveryCloseReportedOnce'
    BY <2>2, <2>4 DEF IInv, EveryCloseReportedOnce
  <2>8. NoneLeftMarked'
    BY <2>2, <2>3 DEF IInv, NoneLeftMarked
  <2> QED BY <2>5, <2>6, <2>7, <2>8 DEF IInv
<1>5. ASSUME NEW addr \in Peer, NEW amount \in Amount, NEW expire \in Lifetime,
             UpdateNew(addr, amount, now + expire)
      PROVE  IInv'
  <2>1. PICK avail \in Amount, peerAvail \in Amount :
           Purge(Push(nb, addr, NewNeighbor(InitDeposit, avail, amount, peerAvail,
                                            now + expire)))
    BY <1>5 DEF UpdateNew
  <2> DEFINE entry == NewNeighbor(InitDeposit, avail, amount, peerAvail, now + expire)
             t == Push(nb, addr, entry)
             open == Counted(opened, {addr})
  <2>2. entry \in Entry
    <3>1. now + expire \in Nat /\ InitDeposit \in Amount
      BY DEF IInv, TypeOK, Amount
    <3> QED BY <3>1 DEF NewNeighbor, Entry
  <2>3. DOMAIN t = DOMAIN nb \cup {addr} /\ \A a \in DOMAIN t : t[a] \in Entry
    BY <2>2 DEF Push, IInv, TypeOK
  <2>4. open \in [Peer -> Nat]
    BY DEF Counted, IInv, TypeOK
  <2>5. \A p \in Peer : open[p] = closed[p] + cleared[p]
                                    + (IF p \in DOMAIN t THEN 1 ELSE 0)
    BY <1>5, <2>3 DEF UpdateNew, Counted, IInv, TypeOK, EveryCloseReportedOnce
  <2>6. DOMAIN t \subseteq Peer
    BY <2>3 DEF IInv, TypeOK
  <2>7. now' = now /\ cleared' = cleared /\ opened' = open /\ putOff' = putOff
    BY <1>5 DEF UpdateNew
  <2>8. /\ now \in 0 .. MaxTime /\ putOff \in 0 .. now
        /\ closed \in [Peer -> Nat] /\ cleared \in [Peer -> Nat]
    BY DEF IInv, TypeOK
  <2>9. timer \in Nat \cup {NotRunning} /\ (timer # NotRunning => now =< timer)
    BY DEF IInv, TypeOK, TimerCovers
  <2>10. Purge(t)
    BY <2>1
  <2> HIDE DEF t, open
  <2> QED BY <2>3, <2>4, <2>5, <2>6, <2>7, <2>8, <2>9, <2>10, PurgeEstablishes
<1>6. ASSUME NEW addr \in Peer, ProcessTxError(addr)
      PROVE  IInv'
  <2> DEFINE t == MarkClosed(nb, addr)
  <2>1. DOMAIN t = DOMAIN nb /\ \A a \in DOMAIN t : t[a] \in Entry
    BY DEF IInv, TypeOK, MarkClosed, Entry
  <2> QED BY <1>6, <2>1, PurgeEstablishes
     DEF ProcessTxError, IInv, TypeOK, TimerCovers, EveryCloseReportedOnce
<1>7. CASE Clear
  BY <1>7 DEF Clear, Counted, IInv, TypeOK, TimerCovers, EveryCloseReportedOnce,
              NoneLeftMarked
<1>8. CASE ScheduleTimer
  BY <1>8 DEF ScheduleTimer, IInv, TypeOK, TimerCovers, EveryCloseReportedOnce,
              NoneLeftMarked, NotRunning
<1>9. CASE TimerExpires
  <2>1. CASE DOMAIN nb = {}
    <3>1. DOMAIN nb' = {} /\ Closing(nb, now) = {}
      BY <1>9, <2>1 DEF TimerExpires, Remaining, Closing
    <3> QED BY <1>9, <2>1, <3>1
       DEF TimerExpires, Counted, IInv, TypeOK, TimerCovers, EveryCloseReportedOnce,
           NoneLeftMarked
  <2>2. CASE DOMAIN nb # {}
    <3>1. Purge(nb)
      BY <1>9, <2>2 DEF TimerExpires, Purge
    <3> QED BY <1>9, <3>1, PurgeEstablishes
       DEF TimerExpires, IInv, TypeOK, TimerCovers, EveryCloseReportedOnce
  <2> QED BY <2>1, <2>2
<1>10. CASE Tick
  BY <1>10 DEF Tick, IInv, TypeOK, TimerCovers, EveryCloseReportedOnce, NoneLeftMarked,
               NotRunning
<1>11. CASE UNCHANGED vars
  BY <1>11 DEF vars, IInv, TypeOK, TimerCovers, EveryCloseReportedOnce, NoneLeftMarked
<1>12. ASSUME NEW addr \in Peer, NEW amount \in Amount, NEW expire \in Lifetime,
              NEW acked \in BOOLEAN, Update(addr, amount, expire, acked)
       PROVE  IInv'
  BY <1>12, <1>1, <1>4, <1>5 DEF Update
<1> QED
  BY <1>1, <1>2, <1>3, <1>6, <1>7, <1>8, <1>9, <1>10, <1>11, <1>12 DEF Next

\* IInv is an invariant of the table.
LEMMA Invariant == Spec => []IInv
  BY InitIInv, StepIInv, PTL DEF Spec

\* The table always has the types the code declares: in particular the balances
\* stay uint32_t whatever is paid.
THEOREM TypeCorrect == Spec => []TypeOK
<1>1. IInv => TypeOK
  BY DEF IInv
<1> QED BY <1>1, Invariant, PTL

\* No channel outlives its expiry time, or the last call of ScheduleTimer, by more
\* than the period of the timer, for any peers, lifetimes and timer period.
THEOREM ClosesInTime == Spec => []ClosedInTime
<1>1. IInv => ClosedInTime
  BY NeighborsAssumption
     DEF IInv, TypeOK, TimerCovers, ClosedInTime, Entry, NotRunning
<1> QED BY <1>1, Invariant, PTL

\* Every channel opened is open, reported closed exactly once, or was cleared.
THEOREM ReportsEveryClose == Spec => []EveryCloseReportedOnce
<1>1. IInv => EveryCloseReportedOnce
  BY DEF IInv
<1> QED BY <1>1, Invariant, PTL

\* A channel ProcessTxError marked never survives the call that marked it.
THEOREM LeavesNoneMarked == Spec => []NoneLeftMarked
<1>1. IInv => NoneLeftMarked
  BY DEF IInv
<1> QED BY <1>1, Invariant, PTL

-----------------------------------------------------------------------------
(* The table implements ChannelLease *)

Ends == {t + expire : t \in 0 .. MaxTime, expire \in Lifetime}

\* The leases of a table.
Leases(t) == [a \in DOMAIN t |-> t[a].expireTime]

\* A purge of a table with the leases of nb, where only p may be marked, settles
\* what is overdue and p if it is marked.
LEMMA PurgeSettles ==
    ASSUME IInv, NEW t, DOMAIN t = DOMAIN nb,
           \A a \in DOMAIN t : t[a].expireTime = nb[a].expireTime,
           NEW p \in Peer, \A a \in DOMAIN t : t[a].close => a = p,
           nb' = Remaining(t, now), closed' = Counted(closed, Closing(t, now)),
           UNCHANGED <<now, opened, cleared, putOff>>
    PROVE  Lease!Next
<1>1. PICK S : S = Closing(t, now)
  OBVIOUS
<1>2. S \in SUBSET DOMAIN Leases(nb)
  BY <1>1 DEF Closing, Leases
<1>3. Lease!Overdue = {a \in DOMAIN nb : nb[a].expireTime < now}
  BY DEF Lease!Overdue
<1>4. /\ Lease!Overdue \subseteq S /\ S \subseteq DOMAIN nb
      /\ S \subseteq Lease!Overdue \cup {p}
  BY <1>1, <1>3 DEF Closing
<1>5. Leases(nb)' = [a \in DOMAIN nb \ S |-> nb[a].expireTime]
  BY <1>1 DEF Leases, Remaining
<1>6. closed' = Lease!Plus(closed, S)
  BY <1>1 DEF Lease!Plus, Counted
<1>7. Lease!Settle(S, p)
  BY <1>4, <1>5, <1>6 DEF Lease!Settle, Leases
<1> QED BY <1>2, <1>7 DEF Lease!Next, Leases

\* So does a purge that marks nothing, or it changes nothing.
LEMMA PlainPurgeSettles ==
    ASSUME IInv, nb' = Remaining(nb, now), closed' = Counted(closed, Closing(nb, now)),
           UNCHANGED <<now, opened, cleared, putOff>>
    PROVE  [Lease!Next]_(Lease!vars)
<1>1. CASE DOMAIN nb = {}
  <2>1. Closing(nb, now) = {} /\ DOMAIN nb' = {}
    BY <1>1 DEF Closing, Remaining
  <2>2. closed' = closed
    BY <2>1 DEF Counted, IInv, TypeOK
  <2>3. Leases(nb)' = Leases(nb)
    BY <1>1, <2>1 DEF Leases
  <2> QED BY <2>2, <2>3 DEF Lease!vars, Leases
<1>2. ASSUME NEW p \in DOMAIN nb PROVE Lease!Next
  <2>1. p \in Peer /\ \A a \in DOMAIN nb : ~nb[a].close
    BY DEF IInv, TypeOK, NoneLeftMarked
  <2> QED BY <2>1, PurgeSettles
<1> QED BY <1>1, <1>2

\* An entry pushed before the purge is a channel opened.
LEMMA UpdateNewOpens ==
    ASSUME IInv, NEW addr \in Peer, NEW amount \in Amount, NEW expire \in Lifetime,
           UpdateNew(addr, amount, now + expire)
    PROVE  Lease!Next
<1> USE NeighborsAssumption
<1>1. now \in Nat /\ expire \in Nat /\ now \in 0 .. MaxTime
  BY DEF IInv, TypeOK
<1>2. PICK end \in Ends : end = now + expire
  BY <1>1 DEF Ends
<1>3. PICK avail \in Amount, peerAvail \in Amount :
         Purge(Push(nb, addr, NewNeighbor(InitDeposit, avail, amount, peerAvail, end)))
  BY <1>2 DEF UpdateNew
<1> DEFINE entry == NewNeighbor(InitDeposit, avail, amount, peerAvail, end)
           t == Push(nb, addr, entry)
<1>4. Purge(t) /\ entry.expireTime = end /\ entry.close = FALSE
  <2>1. Purge(t)
    BY <1>3
  <2>2. entry.expireTime = end /\ entry.close = FALSE
    BY DEF NewNeighbor
  <2> QED BY <2>1, <2>2
<1> HIDE DEF entry
<1>5. /\ addr \notin DOMAIN nb /\ opened' = Counted(opened, {addr})
      /\ now' = now /\ cleared' = cleared /\ putOff' = putOff
      /\ nb' = Remaining(t, now) /\ closed' = Counted(closed, Closing(t, now))
  BY <1>4 DEF UpdateNew, Purge
<1>6. \A a \in DOMAIN nb : ~nb[a].close
  BY DEF IInv, NoneLeftMarked
<1>7. Lease!Overdue = {a \in DOMAIN nb : nb[a].expireTime < now}
  BY DEF Lease!Overdue
<1>8. ~(end < now) /\ end >= now
  BY <1>1, <1>2
<1>9. Closing(t, now) = Lease!Overdue
  BY <1>4, <1>5, <1>6, <1>7, <1>8 DEF Closing, Push
<1>10. /\ DOMAIN nb' = (DOMAIN nb \ Lease!Overdue) \cup {addr}
       /\ \A a \in DOMAIN nb' :
              nb'[a].expireTime = IF a = addr THEN end ELSE nb[a].expireTime
  BY <1>4, <1>5, <1>7, <1>9 DEF Remaining, Push
<1>11. Leases(nb)' = [a \in (DOMAIN nb \ Lease!Overdue) \cup {addr} |->
                         IF a = addr THEN end ELSE nb[a].expireTime]
  BY <1>10 DEF Leases
<1>12. Lease!Open(addr, end)
  BY <1>5, <1>7, <1>8, <1>9, <1>11 DEF Lease!Open, Lease!Plus, Counted, Leases
<1> QED BY <1>12 DEF Lease!Next, Ends

LEMMA UpdateFoundRenews ==
    ASSUME IInv, NEW addr \in Peer, NEW amount \in Amount, NEW expire \in Lifetime,
           UpdateFound(addr, amount, now + expire)
    PROVE  [Lease!Next]_(Lease!vars)
<1> USE NeighborsAssumption
<1>1. now \in Nat /\ expire \in Nat /\ now \in 0 .. MaxTime
  BY DEF IInv, TypeOK
<1>2. PICK end \in Ends : end = now + expire
  BY <1>1 DEF Ends
<1>3. addr \in DOMAIN nb /\ nb[addr] \in Entry /\ end \in Nat
  BY <1>1, <1>2 DEF UpdateFound, IInv, TypeOK
<1>4. UNCHANGED <<now, opened, closed, cleared, putOff>>
  BY DEF UpdateFound
<1>5. CASE Matches(nb, addr, amount) /\ end >= nb[addr].expireTime
  <2>1. nb' = [nb EXCEPT ![addr].expireTime = end]
    BY <1>2, <1>5 DEF UpdateFound, Refresh
  <2>2. Leases(nb)' = [Leases(nb) EXCEPT ![addr] = end]
    BY <1>3, <2>1 DEF Leases, Entry, IInv, TypeOK
  <2>3. Lease!Renew(addr, end)
    BY <1>3, <1>4, <1>5, <2>2 DEF Lease!Renew, Leases
  <2> QED BY <2>3 DEF Lease!Next, Ends
<1>6. CASE ~(Matches(nb, addr, amount) /\ end >= nb[addr].expireTime)
  <2>1. Leases(nb)' = Leases(nb)
    BY <1>2, <1>3, <1>6 DEF UpdateFound, Refresh, Leases, Entry, IInv, TypeOK
  <2> QED BY <1>4, <2>1 DEF Lease!vars, Leases
<1> QED BY <1>5, <1>6

LEMMA StepLease == IInv /\ [Next]_vars => [Lease!Next]_(Lease!vars)
<1> USE NeighborsAssumption
<1> SUFFICES ASSUME IInv, [Next]_vars PROVE [Lease!Next]_(Lease!vars)
  OBVIOUS
<1>1. CASE Query
  BY <1>1, PlainPurgeSettles DEF Query, Purge
<1>2. ASSUME NEW addr \in Peer, NEW pay \in Amount,
             DecChDeposit(addr, pay) \/ IncChDeposit(addr, pay) \/ ProcessTxError(addr)
      PROVE  [Lease!Next]_(Lease!vars)
  <2>1. ASSUME NEW t, Purge(t), UNCHANGED <<now, opened, cleared, putOff>>,
               t \in {Decrease(nb, addr, pay, Modulus), Increase(nb, addr, pay, Modulus),
                      MarkClosed(nb, addr)}
        PROVE  Lease!Next
    <3>1. /\ DOMAIN t = DOMAIN nb
          /\ \A a \in DOMAIN t : /\ t[a].expireTime = nb[a].expireTime
                                 /\ t[a].close => a = addr
      BY <2>1 DEF Decrease, Increase, MarkClosed, IInv, TypeOK, Entry, NoneLeftMarked
    <3> QED BY <2>1, <3>1, PurgeSettles DEF Purge
  <2> QED BY <1>2, <2>1 DEF DecChDeposit, IncChDeposit, ProcessTxError
<1>3. ASSUME NEW addr \in Peer, NEW amount \in Amount, NEW expire \in Lifetime,
             NEW acked \in BOOLEAN, Update(addr, amount, expire, acked)
      PROVE  [Lease!Next]_(Lease!vars)
  BY <1>1, <1>3, UpdateNewOpens, UpdateFoundRenews DEF Update
<1>4. CASE Clear
  <2>1. /\ Leases(nb)' = [a \in {} |-> 0]
        /\ cleared' = Lease!Plus(cleared, DOMAIN nb)
        /\ UNCHANGED <<now, opened, closed, putOff>>
    BY <1>4 DEF Clear, Leases, Lease!Plus, Counted
  <2>2. Lease!Abandon
    BY <2>1 DEF Lease!Abandon, Leases
  <2> QED BY <2>2 DEF Lease!Next
<1>5. CASE ScheduleTimer
  <2>1. Lease!PutOff
    BY <1>5 DEF ScheduleTimer, Lease!PutOff
  <2> QED BY <2>1 DEF Lease!Next
<1>6. CASE TimerExpires
  BY <1>6, PlainPurgeSettles DEF TimerExpires
<1>7. CASE Tick
  <2>1. ASSUME NEW a \in DOMAIN nb PROVE now < nb[a].expireTime + Delay \/ now < putOff + Delay
    <3>1. /\ now =< timer /\ timer # now
          /\ timer =< nb[a].expireTime + Delay \/ timer =< putOff + Delay
      BY <1>7 DEF Tick, IInv, TimerCovers
    <3>2. now \in Nat /\ timer \in Nat /\ nb[a].expireTime \in Nat /\ putOff \in Nat
      BY DEF IInv, TypeOK, TimerCovers, NotRunning, Entry
    <3> QED BY <3>1, <3>2
  <2>2. Lease!Pass
    BY <1>7, <2>1 DEF Tick, Lease!Pass
  <2> QED BY <2>2 DEF Lease!Next
<1>8. CASE UNCHANGED vars
  BY <1>8 DEF vars, Lease!vars
<1>9. 0 \in Amount
  BY DEF Amount
<1> QED
  BY <1>1, <1>2, <1>3, <1>4, <1>5, <1>6, <1>7, <1>8, <1>9 DEF Next

\* The table implements ChannelLease, for any peers, lifetimes and timer period.
THEOREM LeasesRefined == Spec => LeasesAreKept
<1>1. Init => Lease!Init
  <2> SUFFICES ASSUME Init PROVE Lease!Init
    OBVIOUS
  <2>1. Leases(nb) = [p \in {} |-> 0]
    BY DEF Init, Leases
  <2> QED BY <2>1 DEF Init, Lease!Init, Leases
<1> QED BY <1>1, StepLease, Invariant, PTL DEF Spec, LeasesAreKept, Lease!Spec

\* The expiry time of an open channel never moves back, whatever the hellos say.
THEOREM ExpiryMonotone == Spec => ExpiryNeverMovesBack
<1>1. IInv /\ IInv' /\ [Next]_vars =>
        \A a \in DOMAIN nb \cap DOMAIN nb' :
            opened'[a] = opened[a] => nb'[a].expireTime >= nb[a].expireTime
  <2> SUFFICES ASSUME IInv, [Next]_vars, NEW a \in DOMAIN nb \cap DOMAIN nb',
                      opened'[a] = opened[a]
               PROVE  nb'[a].expireTime >= nb[a].expireTime
    OBVIOUS
  <2>1. a \in Peer /\ nb[a] \in Entry /\ nb[a].expireTime \in Nat
    BY DEF IInv, TypeOK, Entry
  <2>2. PICK old, new : old = Leases(nb) /\ new = Leases(nb)'
    OBVIOUS
  <2>3. /\ a \in DOMAIN old /\ a \in DOMAIN new /\ old[a] \in Nat
        /\ old[a] = nb[a].expireTime /\ new[a] = nb'[a].expireTime
    BY <2>1, <2>2 DEF Leases
  <2>4. ASSUME NEW p, NEW end, Lease!Open(p, end) PROVE new[a] >= old[a]
    <3>1. p \notin DOMAIN old
      BY <2>2, <2>4 DEF Lease!Open, Leases
    <3>2. new = [q \in (DOMAIN old \ Lease!Overdue) \cup {p} |->
                    IF q = p THEN end ELSE old[q]]
      BY <2>2, <2>4 DEF Lease!Open, Leases
    <3> QED BY <2>3, <3>1, <3>2
  <2>5. ASSUME NEW p, NEW end, Lease!Renew(p, end) PROVE new[a] >= old[a]
    <3>1. end >= old[p] /\ new = [old EXCEPT ![p] = end]
      BY <2>2, <2>5 DEF Lease!Renew, Leases
    <3> QED BY <2>3, <3>1
  <2>6. ASSUME NEW p, NEW S, Lease!Settle(S, p) PROVE new[a] >= old[a]
    <3>1. new = [q \in DOMAIN old \ S |-> old[q]]
      BY <2>2, <2>6 DEF Lease!Settle, Leases
    <3> QED BY <2>3, <3>1
  <2>7. CASE Lease!Abandon
    BY <2>1, <2>2, <2>3, <2>7 DEF Lease!Abandon, Leases
  <2>8. CASE Lease!Pass
    <3>1. new = old
      BY <2>2, <2>8 DEF Lease!Pass, Leases
    <3> QED BY <2>3, <3>1
  <2>9. CASE Lease!PutOff
    BY <2>2, <2>3, <2>9 DEF Lease!PutOff, Leases
  <2>10. CASE Lease!Next
    BY <2>3, <2>4, <2>5, <2>6, <2>7, <2>8, <2>9, <2>10 DEF Lease!Next
  <2>11. CASE Leases(nb)' = Leases(nb)
    BY <2>2, <2>3, <2>11
  <2> QED BY <2>10, <2>11, StepLease DEF Lease!vars, Leases
<1> QED BY <1>1, Invariant, PTL DEF Spec, ExpiryNeverMovesBack
=============================================================================
