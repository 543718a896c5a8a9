----------------------------- MODULE Neighbors -----------------------------
(***************************************************************************)
(* One object of class Neighbors on its own: the public operations in any  *)
(* order, the clock, and the timer that purges the table.  The link        *)
(* failure callback is set, as RoutingProtocol's constructor sets it.      *)
(***************************************************************************)
EXTENDS Integers, NeighborTable

CONSTANTS
    Peer,
    InitDeposit,    \* m_initDeposit
    Delay,          \* delay of m_ntimer (HelloInterval)
    Lifetime,       \* bound: the lifetimes Update is called with
    Modulus,        \* 2^32 in the code
    MaxTime,        \* bound: the clock stops here
    MaxOpen         \* bound: channels opened with one peer

ASSUME NeighborsAssumption ==
    /\ Delay \in Nat \ {0} /\ Lifetime \subseteq Nat /\ MaxTime \in Nat
    /\ Modulus \in Nat \ {0} /\ InitDeposit \in 0 .. Modulus - 1
    /\ MaxOpen \in Nat

VARIABLES
    now,
    nb,       \* m_nb
    timer,    \* when m_ntimer fires; NotRunning when it is not running
    opened,   \* history: entries pushed, per peer
    closed,   \* history: calls of m_handleLinkFailure, per peer
    cleared,  \* history: entries removed by Clear, per peer
    putOff    \* history: when ScheduleTimer was last called

vars == <<now, nb, timer, opened, closed, cleared, putOff>>

NotRunning == -1
Amount == 0 .. Modulus - 1

Entry == [expireTime : Nat, total : Amount, avail : Amount, peerTotal : Amount,
          peerAvail : Amount, close : BOOLEAN]

Counted(count, S) == [p \in Peer |-> IF p \in S THEN count[p] + 1 ELSE count[p]]

Init ==
    /\ now = 0
    /\ nb = [a \in {} |-> 0]
    /\ timer = NotRunning
    /\ opened = [p \in Peer |-> 0]
    /\ closed = [p \in Peer |-> 0]
    /\ cleared = [p \in Peer |-> 0]
    /\ putOff = 0

\* Mutant: the timer is not started again.
PurgeNoRestart(t) ==
    /\ nb' = Remaining(t, now)
    /\ closed' = Counted(closed, Closing(t, now))
    /\ UNCHANGED timer

\* Purge, called on the table t: nothing at all when it is empty, else every
\* closing entry is reported and removed and the timer starts again.
Purge(t) ==
    /\ nb' = Remaining(t, now)
    /\ closed' = Counted(closed, Closing(t, now))
    /\ timer' = IF DOMAIN t = {} THEN timer ELSE now + Delay

\* IsNeighbor, GetExpireTime and the four deposit getters: a purge and an answer.
Query ==
    /\ Purge(nb)
    /\ UNCHANGED <<now, opened, cleared, putOff>>

\* The code purges first; a purge does not look at amounts, so the order of the
\* two is immaterial.
DecChDeposit(addr, pay) ==
    /\ Purge(Decrease(nb, addr, pay, Modulus))
    /\ UNCHANGED <<now, opened, cleared, putOff>>

IncChDeposit(addr, pay) ==
    /\ Purge(Increase(nb, addr, pay, Modulus))
    /\ UNCHANGED <<now, opened, cleared, putOff>>

\* Mutant: an entry whose amount disagrees is erased on the spot.
UpdateFoundErases(addr, amount, expireTime) ==
    /\ addr \in DOMAIN nb
    /\ nb' = IF Matches(nb, addr, amount) THEN Refresh(nb, addr, expireTime)
             ELSE [a \in DOMAIN nb \ {addr} |-> nb[a]]
    /\ UNCHANGED <<now, timer, opened, closed, cleared, putOff>>

\* Update on an entry: refreshed when the amount is the one stored, else left
\* to expire.  Neither way is the table purged first.
UpdateFound(addr, amount, expireTime) ==
    /\ addr \in DOMAIN nb
    /\ nb' = IF Matches(nb, addr, amount) THEN Refresh(nb, addr, expireTime) ELSE nb
    /\ UNCHANGED <<now, timer, opened, closed, cleared, putOff>>

\* Update for an unknown peer: a new entry if the hello asked for it.
UpdateNew(addr, amount, expireTime) ==
    /\ addr \notin DOMAIN nb
    /\ opened[addr] < MaxOpen
    /\ \E avail, peerAvail \in Amount :
           Purge(Push(nb, addr,
                      NewNeighbor(InitDeposit, avail, amount, peerAvail, expireTime)))
    /\ opened' = Counted(opened, {addr})
    /\ UNCHANGED <<now, cleared, putOff>>

Update(addr, amount, expire, acked) ==
    \/ UpdateFound(addr, amount, now + expire)
    \/ acked /\ UpdateNew(addr, amount, now + expire)
    \/ /\ ~acked /\ addr \notin DOMAIN nb
       /\ Query

ProcessTxError(addr) ==
    /\ Purge(MarkClosed(nb, addr))
    /\ UNCHANGED <<now, opened, cleared, putOff>>

\* Clear empties the table; nobody is told and the timer keeps running.
Clear ==
    /\ nb' = [a \in {} |-> 0]
    /\ cleared' = Counted(cleared, DOMAIN nb)
    /\ UNCHANGED <<now, timer, opened, closed, putOff>>

\* ScheduleTimer starts the timer again and purges nothing: called while it runs
\* it puts the next purge off.
ScheduleTimer ==
    /\ timer' = now + Delay
    /\ putOff' = now
    /\ UNCHANGED <<now, nb, opened, closed, cleared>>

\* m_ntimer fires and calls Purge; on an empty table it stays stopped.
TimerExpires ==
    /\ timer = now
    /\ nb' = Remaining(nb, now)
    /\ closed' = Counted(closed, Closing(nb, now))
    /\ timer' = IF DOMAIN nb = {} THEN NotRunning ELSE now + Delay
    /\ UNCHANGED <<now, opened, cleared, putOff>>

\* Time passes, but not past an event that is due.
Tick ==
    /\ now < MaxTime
    /\ timer # now
    /\ now' = now + 1
    /\ UNCHANGED <<nb, timer, opened, closed, cleared, putOff>>

Next ==
    \/ Query
    \/ \E addr \in Peer :
          \/ \E pay \in Amount : DecChDeposit(addr, pay) \/ IncChDeposit(addr, pay)
          \/ \E amount \in Amount, expire \in Lifetime, acked \in BOOLEAN :
                Update(addr, amount, expire, acked)
          \/ ProcessTxError(addr)
    \/ Clear
    \/ ScheduleTimer
    \/ TimerExpires
    \/ Tick

Spec == Init /\ [][Next]_vars

-----------------------------------------------------------------------------
(* Properties *)

TypeOK ==
    /\ now \in 0 .. MaxTime
    /\ DOMAIN nb \subseteq Peer
    /\ \A a \in DOMAIN nb : nb[a] \in Entry
    /\ timer \in Nat \cup {NotRunning}
    /\ opened \in [Peer -> Nat] /\ closed \in [Peer -> Nat] /\ cleared \in [Peer -> Nat]
    /\ putOff \in 0 .. now

\* No channel outlives its expiry time, or the last call of ScheduleTimer if that
\* was later, by more than the period of the purge timer, although Purge stops
\* restarting the timer when the table is empty and Update refreshes or refuses
\* an entry without purging.
ClosedInTime ==
    \A a \in DOMAIN nb : now =< nb[a].expireTime + Delay \/ now =< putOff + Delay

\* Every channel ever opened is still open, was reported closed exactly once to
\* the link failure callback, or was wiped by Clear.
EveryCloseReportedOnce ==
    \A p \in Peer :
        opened[p] = closed[p] + cleared[p] + (IF p \in DOMAIN nb THEN 1 ELSE 0)

\* While a channel stays open its expiry time never moves back: a hello with a
\* shorter lifetime does not cut the time an earlier one promised.
ExpiryNeverMovesBack ==
    [][\A a \in DOMAIN nb \cap DOMAIN nb' :
            opened'[a] = opened[a] => nb'[a].expireTime >= nb[a].expireTime]_vars

\* A channel is closed and reported in the same step as the transmission error
\* that broke it: no entry is ever left marked.
NoneLeftMarked == \A a \in DOMAIN nb : ~nb[a].close

\* The table as ChannelLease sees it.
Lease == INSTANCE ChannelLease WITH
    lease <- [a \in DOMAIN nb |-> nb[a].expireTime],
    settled <- closed,
    abandoned <- cleared,
    End <- {t + expire : t \in 0 .. MaxTime, expire \in Lifetime},
    Grace <- Delay

\* Whatever the order of hellos, payments, transmission errors and purges, and
\* although the timer stops whenever the table runs empty, the channels are
\* leases as ChannelLease describes them.
LeasesAreKept == Lease!Spec
=============================================================================
