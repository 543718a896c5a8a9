------------------------------ MODULE Channels ------------------------------
(***************************************************************************)
(* Payment channels between nodes: each node broadcasts hellos, answers    *)
(* those it hears, and keeps its own table of channels (NeighborTable).    *)
(*                                                                         *)
(* A hello is lost, or arrives after any delay and in any order.  The      *)
(* module says what RecvHello does with the hellos it is given.  As the    *)
(* code stands it is given none: TypeHeader::Deserialize does not know     *)
(* their type and leaves RREQ in place, so HandleOffchainMsg hands them to *)
(* RecvRReq.  Behaviours in which every hello is lost are behaviours of    *)
(* this module too, so its properties hold of the channels either way.     *)
(*                                                                         *)
(* StartApplication copies a table over the one the constructor of         *)
(* RoutingProtocol set up.  The copy shares the implementation of its      *)
(* purge timer with the argument of SetNeighborTable, which deletes it     *)
(* when it is destroyed, so starting that timer is undefined: the program  *)
(* may end there, or go on with a timer that purges this table or never    *)
(* does (TimerExpires).                                                    *)
(***************************************************************************)
EXTENDS Integers, FiniteSets, NeighborTable

CONSTANTS
    Node,
    MultiHomed,   \* nodes that may hear a hello on an interface other than 1
    Life,         \* AllowedHelloLoss * HelloInterval
    Interval,     \* TIME_INTERVAL
    Jitter,       \* rand () / RAND_MAX takes values in 0 .. Jitter
    Events,       \* numberOfEvents, per node (1000 in the code)
    InitDeposit,  \* m_initDeposit
    Memory,       \* bound: the amounts uninitialised memory may hold
    Modulus,      \* 2^32 in the code
    MaxAir,       \* bound: hellos in the air at once
    MaxTime       \* bound: the clock stops here

ASSUME ChannelsAssumption ==
    /\ IsFiniteSet(Node) /\ MultiHomed \subseteq Node
    /\ Life \in Nat /\ Interval \in Nat \ {0} /\ Jitter \in 0 .. Interval - 1
    /\ Events \in [Node -> Nat]
    /\ Modulus \in Nat \ {0} /\ InitDeposit \in 0 .. Modulus - 1
    /\ Memory \subseteq 0 .. Modulus - 1
    /\ MaxAir \in Nat /\ MaxTime \in Nat

VARIABLES
    now,
    started,   \* nodes whose application has started
    nb,        \* m_nb, per node
    next,      \* when SendChMaintain runs next, per node
    left,      \* how many of its events are still scheduled, per node
    air,       \* hellos under way
    heard      \* history: when a node last handled a hello, per sender

vars == <<now, started, nb, next, left, air, heard>>

Amount == 0 .. Modulus - 1

Channel == [expireTime : Nat, total : Amount, avail : Amount, peerTotal : Amount,
            peerAvail : Amount, close : BOOLEAN]

\* A hello on its way; `exchange' (a history) names the broadcast that began the
\* exchange it belongs to and the node that heard it.  Neither the answer flag,
\* which is not serialised, nor the lifetime, which RecvHello does not read.
Hello == [from : Node, to : Node, deposit : Amount,
          exchange : [by : Node, event : Nat, heardBy : Node]]

Never == -1

Init ==
    /\ now = 0
    /\ started = {}
    /\ nb = [n \in Node |-> [p \in {} |-> 0]]
    /\ next = [n \in Node |-> 0]
    /\ left = [n \in Node |-> 0]
    /\ air = {}
    /\ heard = [n \in Node |-> [p \in Node |-> Never]]

\* External: any of the hellos sent arrive.
SendSome(base, sent) ==
    \E arriving \in SUBSET sent :
        /\ air' = base \cup arriving
        /\ arriving # {} => Cardinality(air') =< MaxAir

-----------------------------------------------------------------------------
(* The application *)

\* StartApplication: the table is replaced by a copy of m_ngbChTable, which is
\* empty, and the hellos are scheduled.  The delay given to
\* Schedule contains the present time once more.
StartApplication(n) ==
    /\ n \notin started
    /\ started' = started \cup {n}
    /\ nb' = [nb EXCEPT ![n] = [p \in {} |-> 0]]
    /\ \E rand \in 0 .. Jitter :
          next' = [next EXCEPT ![n] = now + (now + rand + Interval)]
    /\ left' = [left EXCEPT ![n] = Events[n]]
    /\ UNCHANGED <<now, air, heard>>

Due(n) == left[n] > 0 /\ next[n] = now

\* SendChMaintain: one broadcast.  The loop that would send hellos to the known
\* neighbors runs over m_ngbChTable, which nothing ever fills.
SendChMaintain(n) ==
    /\ Due(n)
    /\ left' = [left EXCEPT ![n] = @ - 1]
    /\ next' = [next EXCEPT ![n] = @ + Interval]
    /\ SendSome(air, {[from |-> n, to |-> p, deposit |-> 0,
                       exchange |-> [by |-> n, event |-> left[n], heardBy |-> p]] :
                         p \in started \ {n}})
    /\ UNCHANGED <<now, started, nb, heard>>

-----------------------------------------------------------------------------
(* RecvHello *)

\* Mutant: the answer for a missing channel stays negative.
OfferSigned(t, p) == IF p \in DOMAIN t THEN t[p].avail ELSE -1

\* The deposit SendHello offers: `< 0' is never true of a uint32_t, so the answer
\* (uint32_t) -1 of GetChMyAvailDeposit goes out as it is.
Offer(t, p) == IF p \in DOMAIN t THEN t[p].avail ELSE Modulus - 1

\* Mutant: the answer is broadcast.
AnswerAll(n, h, t) ==
    SendSome(air \ {h}, {[from |-> n, to |-> p, deposit |-> Offer(t, h.from),
                          exchange |-> h.exchange] : p \in started \ {n}})

\* SendHello (sender, true), with the table t.
Answer(n, h, t) ==
    SendSome(air \ {h}, {[from |-> n, to |-> h.from, deposit |-> Offer(t, h.from),
                          exchange |-> h.exchange]})

Alive(n) == Remaining(nb[n], now)

\* Mutant: each hello adds its lifetime to what the channel still has.
RefreshedAddsUp(t, p, amount) ==
    IF Matches(t, p, amount) THEN Refresh(t, p, t[p].expireTime + Life) ELSE t

\* Neighbors::Update on an entry.
Refreshed(t, p, amount) ==
    IF Matches(t, p, amount) THEN Refresh(t, p, now + Life) ELSE t

\* Case 1: heard on another interface, no channel: ask for one.
AskForChannel(n, h) ==
    /\ n \in MultiHomed
    /\ h.from \notin DOMAIN Alive(n)
    /\ nb' = [nb EXCEPT ![n] = Alive(n)]
    /\ Answer(n, h, Alive(n))

\* Heard on another interface, channel open: nothing but the purge.
AlreadyOpen(n, h) ==
    /\ n \in MultiHomed
    /\ h.from \in DOMAIN Alive(n)
    /\ nb' = [nb EXCEPT ![n] = Alive(n)]
    /\ air' = air \ {h}

\* Case 3 on a channel that is there, expired or not: Update refreshes it or not
\* without a purge; the purge comes with the deposit of the answer.
AcceptAgain(n, h) ==
    /\ h.from \in DOMAIN nb[n]
    /\ LET t == Remaining(Refreshed(nb[n], h.from, h.deposit), now) IN
          nb' = [nb EXCEPT ![n] = t] /\ Answer(n, h, t)

\* Case 3, no channel: one is opened, its two available deposits uninitialised.
AcceptNew(n, h) ==
    /\ h.from \notin DOMAIN nb[n]
    /\ \E avail, peerAvail \in Memory :
          LET t == Remaining(Push(nb[n], h.from,
                                NewNeighbor(InitDeposit, avail, h.deposit, peerAvail,
                                            now + Life)), now)
          IN nb' = [nb EXCEPT ![n] = t] /\ Answer(n, h, t)

\* Case 2: no answer required; a channel that has not expired is refreshed.
KeepAlive(n, h) ==
    /\ nb' = [nb EXCEPT ![n] = IF h.from \in DOMAIN Alive(n)
                              THEN Refreshed(Alive(n), h.from, h.deposit) ELSE Alive(n)]
    /\ air' = air \ {h}

\* Which of the cases is taken is open: the answer flag is read from memory that
\* nothing initialises.
RecvHello(n, h) ==
    /\ h.to = n
    /\ \/ AskForChannel(n, h) \/ AlreadyOpen(n, h)
       \/ AcceptAgain(n, h) \/ AcceptNew(n, h)
       \/ KeepAlive(n, h)
    /\ heard' = [heard EXCEPT ![n][h.from] = now]
    /\ UNCHANGED <<now, started, next, left>>

-----------------------------------------------------------------------------

\* The purge timer, among the outcomes in which the program goes on: it purges this
\* table, at any time, or it never does and this action is not taken.
TimerExpires(n) ==
    /\ DOMAIN nb[n] # {}
    /\ nb' = [nb EXCEPT ![n] = Alive(n)]
    /\ UNCHANGED <<now, started, next, left, air, heard>>

\* Time passes, but not past an event that is due.
Tick ==
    /\ now < MaxTime
    /\ \A n \in Node : ~Due(n)
    /\ now' = now + 1
    /\ UNCHANGED <<started, nb, next, left, air, heard>>

Next ==
    \/ \E n \in Node : \/ StartApplication(n)
                       \/ SendChMaintain(n)
                       \/ \E h \in air : RecvHello(n, h)
                       \/ TimerExpires(n)
    \/ Tick

Spec == Init /\ [][Next]_vars

-----------------------------------------------------------------------------
(* Properties *)

TypeOK ==
    /\ now \in 0 .. MaxTime
    /\ started \subseteq Node
    /\ DOMAIN nb = Node
    /\ \A n \in Node : /\ DOMAIN nb[n] \subseteq Node \ {n}
                      /\ \A p \in DOMAIN nb[n] : nb[n][p] \in Channel
    /\ next \in [Node -> Nat]
    /\ left \in [Node -> Nat]
    /\ air \subseteq Hello
    /\ heard \in [Node -> [Node -> Nat \cup {Never}]]

\* No channel is promised for longer than Life after the last hello of its peer,
\* and none is open without one: the lifetime a peer announces, the answer flag
\* it never sent and an uninitialised amount cannot stretch it.
PromisedByLastHello ==
    \A n \in Node : \A p \in DOMAIN nb[n] :
        heard[n][p] # Never /\ nb[n][p].expireTime =< heard[n][p] + Life

\* Hellos do not multiply although every answer requires an answer: of each
\* exchange, begun by one node hearing one broadcast, at most one hello is under
\* way at any time.
OneHelloPerExchange ==
    \A g, h \in air : g.exchange = h.exchange => g = h
=============================================================================
