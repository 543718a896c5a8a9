# Verification of the off-chain payment network simulation

The repository is an ns-3 module: nodes of a mobile ad hoc network open payment
channels with their neighbors, find routes for payments with an AODV-like
protocol, and exchange contents over opportunistic encounters. This directory
holds TLA+ models of its protocol code, the TLC configurations that check them
on small instances, and TLAPS proofs for instances of any size.

The code does not compile as it is: some calls name members that do not exist
(`m_nb.update`, `GetChAvailDeposit`), the relay of an RREQ is sent to a port that is
declared nowhere (`AODV_PORT`), `rtable.cc` includes a header that is not
in the tree, and a dozen declared functions have no definition. The models read
a misspelt name as the only member it can mean, and treat a declared function
without a definition as *external*: its effect is taken from how the code uses it.

## The system

| part | source | state | operations | modelled by |
|---|---|---|---|---|
| Route discovery | `model/offchain-routing.cc` | own sequence number, request id, RREQ count, deferred calls | `SendRequest`, `RecvRReq`, rate limit timer, ACK timer | `RouteRequest` |
| Routing table | `model/rtable.cc` | one entry per destination: sequence number, next hop, hops, lifetime, flag, precursors, blacklist mark | look-up with purge, add, update, delete, invalidate, mark, precursors, interface down | `RTable` (operators), `RoutingTable` (machine) |
| Duplicate RREQ cache | `model/offchain-id.cc` | pairs (origin, id) with an expiry time | `IsDuplicate`, `Purge` | `IdCache` (operators) |
| Payment channel table | `model/neighbors.cc` | one entry per peer: expiry time, deposits, close mark; purge timer | `Update`, deposit getters and setters, `Purge`, `ProcessTxError`, `Clear`, `ScheduleTimer` | `NeighborTable` (operators), `Neighbors` (machine) |
| Queue of packets without a route | `model/routemsg-queue.cc` | vector of packets with expiry times, limit, timeout | `Enqueue`, `Dequeue`, `DropPacketWithDst`, `GetSize`, setters | `RequestQueue` |
| Content relay | `model/payment-network.cc` | wanted content, known providers, interests seen, three pending lists | `RequestContent`, `StartApplication`, `HandleHello`, `HandleDigest`, `HandleData`, `HandleInterest...` | `InterestRelay` |
| Channel hellos | `model/offchain-routing.cc` 211-327 | a channel table per node, the schedule of the broadcasts | `SendHello`, `RecvHello`, `SendChMaintain`, `SetNeighborTable` | `Channels` |
| Packet headers, dispatch | `model/payroute-packet.cc`, `HandleOffchainMsg` | none | serialise, parse, dispatch by type | the records `Rreq` and `Hello`; the rest not modelled |
| Duplicate packet detection | `model/offchain-dpd.cc` | an `IdCache` over packet uids | `IsDuplicate` | no caller; not modelled |
| Helper, example, test, notebook | `helper/`, `examples/`, `test/`, `gradClass/` | none | install applications; a skeleton; a test that does nothing; an unrelated notebook | not modelled |

How they interact. ns-3 runs one event at a time, so a handler is atomic and the
concurrency is between events: packets of other nodes, timers, scheduled calls.
`RouteRequest` calls the routing table and the cache inside its handlers (so
their operators are applied there, in the order of the code, with every purge
that a look-up makes). `Channels` composes one `NeighborTable` per node with the
hellos that travel between them. The channel table reports a closed channel through a
callback and hears of lost links from the MAC layer. The content relay and
route discovery share no state.

What is hard, and what makes each part correct:

- **Route discovery.** Copies of one flood arrive over many paths, late and out
  of order; the duplicate filter works only while the cached id outlives the
  slowest copy (`HandledOnce`, `FloodsAreTrees`). A node has no test for its own RREQs
  (`NoRouteToSelf`). Reverse routes are overwritten by older requests
  (`ReverseRouteIsAPath`, `SeqNoNeverGoesBack`, `SeqNoAuthentic`) and must outlast the
  answer (`ReverseRouteOutlastsAnswer`), intermediate
  nodes answer from tables that may be stale (`AnswerFreshEnough`), and the rate
  limit puts calls off, perhaps repeatedly (`NoDiscoveryLost`, `DeferredGetsSent`).
- **Routing table.** Handlers write whole copies back while marks are set in place;
  every look-up purges; `SetEntryState` changes a flag and no lifetime; a blacklist
  mark is made for a time (`HeldWithEntry`, `BlacklistedForTimeout`,
  `NoRouteThroughLostHop`, `ForgottenOnlyAfterDown`).
- **Channel table.** The purge timer is not restarted by a purge of an empty
  table, `ScheduleTimer` puts it off, `Update` may refuse to refresh, and there are
  three ways to close
  (`ClosedInTime`, `EveryCloseReportedOnce`, `NoneLeftMarked`, `ExpiryNeverMovesBack`, `LeasesAreKept`).
- **Channel hellos.** Every answer requires an answer, the flag that says so is never
  serialised, amounts are uninitialised, and the table was copied from another
  (`OneHelloPerExchange`, `PromisedByLastHello`).
- **Packet queue.** Every operation purges first, limit and timeout change at
  run time (`EveryPacketEndsOnce`, `NoPacketQueuedTwice`,
  `WithinLimitUnlessUndercut`, `DequeueInOrderAndInTime`).
- **Content relay.** Interests and DATA climb by rankings that change, packets
  get lost, lists are kept at every relay (`SeenHasOneFate`, `FatesAreFinal`, `PendingDataOnce`,
  `OnlyWhatWasAsked`, `DataClimbs`).

`PROJECT.json` lists the hazards with their lines, also those no property covers yet.

## The modules and the code

Names are those of the code where TLA+ allows it; `PROJECT.json` maps each
definition to its lines. Operators named as mutants in a comment are
deliberately wrong variants of the definition below them, used to confirm that
each property can fail.

**`RouteRequest`** (extends `RTable`, `IdCache`). A variable per member of
`RoutingProtocol`, as a function of the node. `SendRequest` is `Originate` or
`Defer`; `SendDeferredRequest` is the call that was put off. `RecvRReq` is
`IgnoreBlacklisted`, `IgnoreDuplicate` or `HandleRReq`; the last creates the
reverse route and then answers, drops or relays, each exit of the handler a
disjunct. `air` is the set of copies heard and not yet handled: any subset of
the other nodes hears a broadcast, and a copy arrives in any order at most
`HopDelay` later. `handled`, `asked` and `replies` are histories. Times are
absolute. Sequence numbers are naturals: `CounterAssumption` keeps them below
2^31, where the signed comparison of the code agrees with `Newer`. Each node
has one interface. Hop counts wrap at 256 as the byte of the header does.

**`FloodTree`** is the abstract specification of route discovery: floods that grow as
trees, with neither radio, clock, cache nor routing table. `FloodsAreTrees` says
that `RouteRequest` implements it; the mapping `Tree` forgets all of `handled` but
who joined which flood, through whom, and how far out.

**`RTable`, `RoutingTable`.** A table is a function from destinations to entries.
`RoutingTable` is one object driven by any caller. `Update` is called as the two
handlers call it, on the copy a look-up gave, in the same event: `RefreshRoute`,
`SearchRoute`, `ChangePrecursors`. `LoseNextHop` makes the list of destinations and
invalidates it. Hop count and sequence number are carried and never tested by
`rtable.cc`; they belong to `RouteRequest`. An entry `IN_SEARCH` has neither next hop
nor interface. `down`, `held` and `broken` are histories; `held` has the time of the last
mark, which the code stores as a timeout and never reads.

**`NeighborTable`, `Neighbors`.** The vector `m_nb` is a function from peers to
entries, since `Update` looks an address up before it pushes. `Neighbors` is
one object driven by any caller; `timer` is the moment `m_ntimer` fires.
`ScheduleTimer`, which nothing in the repository calls, may be called at any time, as
often as one likes; `putOff` is the history of its last call. The
two available deposits of a new entry are not initialised by its constructor
and take any value. Amounts wrap at `Modulus`.

**`ChannelLease`** is the abstract specification of a channel table: leases that are
prolonged, never cut, and settled at most `Grace` after they run out or after
somebody last put settling off.
`LeasesAreKept` says that `Neighbors` implements it with the timer's delay as grace.

**`Channels`** (extends `NeighborTable`). A table per node and the hellos in the air,
any of which is lost, late or overtaken. `RecvHello` has its three cases and the one
that only purges; as the answer flag is read from uninitialised memory, the choice
among those the addresses allow is open. A node of `MultiHomed` may hear a hello
on another interface than its first. `StartApplication` replaces the table by a copy and schedules the broadcasts with a
delay that contains the present time twice. The purge timer of the copy uses an
implementation that was destroyed with the argument of `SetNeighborTable`; of the
undefined outcomes, the model has those in which the program goes on, and `TimerExpires`
may purge the table at any time or never. `exchange` and `heard` are histories.
The module says what `RecvHello` does with the hellos it is given. As the code stands
it is given none (see below, *Met while reading*), so its properties are about the
protocol as written in `SendHello` and `RecvHello`, not about a running program.

**`RequestQueue`.** The vector only grows at its end, so each entry carries the
number of the call that accepted it and the order is that of the numbers.
`JustPurge` is every operation that changes nothing but the expired entries.
A limit of 0 is excluded by `QueueAssumption`: `Enqueue` would take the front of
an empty vector, for which C++ defines no outcome.

**`InterestRelay`.** Each handler is an action; `HandleRead`, which would call
them, has no definition, so packets addressed to a node reach the handler of
their type. The relationship tables are external, and a `standing` (a ranking of
the nodes by level, centrality and tie) is chosen at every encounter. The
pending lists are sets because the code visits all entries and ignores their
order. A DIGEST carries the contents known when it is sent: the code puts a
pointer to the sender's array into the header.

**`InterestService`** is the abstract specification of the relay: a node issues one
interest, and every node decides once what becomes of an interest it hears. There
are no packets, lists, encounters or rankings in it. `FatesAreFinal` says that
`InterestRelay` implements it; the mapping reads the decisions off the pending lists
(`FatesAt`), so an entry that moves to another list, or goes, shows as a step that
`InterestService` does not have.

## The runs

| run | asks | instance |
|---|---|---|
| `route_two` | `NoRouteToSelf`, `HandledOnce`, `ReverseRouteIsAPath`, `ReverseRouteOutlastsAnswer`, `FloodsAreTrees` | three nodes; two originate one RREQ each, the third may blacklist one of them; entries expire and are deleted; ids are cached for exactly the three hop delays the assumption asks for |
| `route_overtake` | `SeqNoAuthentic`, `AnswerFreshEnough`, `SeqNoNeverGoesBack` | two RREQs of one originator and one for it, all in flight together |
| `route_rate` | `TypeOK`, `NoDiscoveryLost`, `DeferredGetsSent` | three calls against a limit of one |
| `routing_table` | `TypeOK`, `HeldWithEntry`, `NoRouteThroughLostHop`, `ForgottenOnlyAfterDown` | two nodes, routes born alive or expired, with an interface or, while searched for, without, two ticks |
| `neighbors` | `TypeOK`, `ClosedInTime`, `EveryCloseReportedOnce`, `NoneLeftMarked`, `ExpiryNeverMovesBack`, `LeasesAreKept` | two peers, two openings each, five ticks with a timer of two |
| `channels` | `TypeOK`, `PromisedByLastHello`, `OneHelloPerExchange` | three nodes, two of which broadcast and one of which hears on two interfaces |
| `request_queue` | `TypeOK`, `NoPacketQueuedTwice`, `EveryPacketEndsOnce`, `WithinLimitUnlessUndercut`, `DequeueInOrderAndInTime` | two packets, two destinations, four acceptances, limits 1-2, timeouts 0-1 |
| `relay` | `TypeOK`, `SeenHasOneFate`, `PendingDataOnce`, `OnlyWhatWasAsked`, `FatesAreFinal` | three nodes, one of which asks and may change its mind before or after its interest is on the way; rankings that turn round |
| `relay_settled` | `DataClimbs`, `PendingDataOnce` | four nodes, two of which ask for the same content; one ranking: levels lead to the provider, ties back to each requester |
| `blacklist` | `BlacklistedForTimeout`, violated | as `routing_table` |
| `queue_limit` | `EnqueueKeepsLimit`, violated | as `request_queue` |
| `known_type` | `ProviderStaysKnown`, violated | three nodes, one of which asks |

Bounds and why they are enough:

- *Route discovery.* `MaxRequests`, `AskedFor` and `MaxTime` bound a behaviour;
  `HopDelay` is the longest a copy is in the air. Three nodes are the smallest
  net with a relay, and its two ends give floods in both directions; a copy may
  come back by the third node after all delays, when the cached id is about to
  expire. In `route_overtake` time stands still, so that only the order of
  messages counts; entries that expire are the subject of `route_two`.
- *Routing table.* Two nodes are destinations and next hops of each other; two
  ticks let an entry that is born expired be kept as INVALID, be forgotten and be learned
  again, and a mark outlast its time. Nodes are symmetric, no property is a liveness
  property. More ticks and interfaces are left to the proofs.
- *Channel table.* A timer period of two with lifetimes zero and two lets an
  entry expire before, at and after the timer; two openings let a peer come back. Five
  ticks leave room for `ScheduleTimer` to put a purge off twice.
- *Channel hellos.* One broadcast each and a life of one tick let a channel be opened,
  refreshed, expire and be opened again while hellos of both broadcasts are under way.
- *Queue.* Four acceptances with limits one and two reach overflow, undercut and a
  packet queued again. Two timeouts let a younger packet expire first.
- *Content relay.* `MaxLoad` bounds the interests issued plus the interests and DATA
  under way, `MaxDigests` the DIGESTs. A packet beyond the bound is lost, never the
  handler that sends it. `relay` has one interest, one packet and one DIGEST under way
  at a time, which may stay there as long as they like while nodes meet, start, ask
  and learn. `relay_settled` has four nodes, so that a relay is followed by a relay,
  and two interests with two packets that overtake each other, so that DATA for one
  requester meets a relay that waits for the same content itself. It has no DIGESTs:
  they only decide which list an interest is kept in, which `relay` covers. What the
  two runs bound, the proofs do not.

`CHECK_DEADLOCK FALSE` is set where the clock or the requests run out and the
system really stops: all but the channel table and the packet queue.

**Fairness.** Only `route_rate` checks liveness. It assumes weak fairness of the
rate limit timer, which restarts itself as long as the simulation runs, and of
`SendDeferredRequest`, an event handed to `Simulator::Schedule`. No fairness is assumed
of the network: nothing is said to arrive.

## Findings

- `queue_limit` (`routemsg-queue.cc:36`): `Enqueue` makes room when the length
  *equals* the limit. Once `SetMaxQueueLen` lowers the limit below the length,
  the test is never true again and the queue grows without a limit, against the
  comment of `m_maxLen`. Without such a call the limit holds, and this is proved
  (`OneLimitIsKept`).
- `known_type` (`payment-network.cc:329`): an interest that names its provider is
  sent with the type of one that does not, so a relay without a digest of the
  provider handles it as an interest whose provider is unknown, and
  `HandleInterestKnownContentProvider` is never reached.
- `blacklist` (`rtable.cc:403`): a neighbor is marked "for blacklistTimeout period"
  (`rtable.h:213`), but nothing reads the time stored and no code ends a mark, so it is
  ignored until its entry goes. That a mark is neither lost early nor revived does
  hold (`HeldWithEntry`).

Met while reading, and not a property of a run:
- `GetListOfDestinationWithNextHop` lists all destinations of a next hop, where
  `rtable.h:197` says those with a list of precursors that is not empty.
- `TypeHeader::Deserialize` does not know the hello type (`payroute-packet.cc:53-63`) and
  leaves the RREQ in place that `HandleOffchainMsg` constructs its header with
  (`payment-network.cc:194`), so hellos go to `RecvRReq` and `RecvHello` is never called.
- The constructor of `RoutingProtocol` gives its channel table the callback that is to
  "record balance proof to the main chain" (`offchain-routing.cc:242`);
  `StartApplication` assigns a table without a callback over it. It would matter as soon
  as hellos reach `RecvHello` and channels are opened.

## The proofs

For every value of the constants that satisfies the named assumptions.

**`RouteRequestProofs`**, from `NodeAssumption`, `RateAssumption`,
`TimeAssumption`, `BoundAssumption` and, for the flood, `CacheOutlivesFlood`.

- `TypeCorrect`, `DiscoveriesConserved`. `TypeOK` alone says that a table's domain
  is a set of nodes; the proof needs the set the tables are drawn from (`Typed`).
  `NoDiscoveryLost` is inductive together with `Waiting`: no more calls are due than
  are deferred, so `Head` and `Tail` are never taken of an empty queue.
- `HandlesOnce`, `NeverRoutesToSelf`. `HandledOnce` is not inductive: it depends on
  how late a copy can be. The invariant `FloodInv` adds that no time is in the
  future (`PastOnly`), that each flood begins with the handling its originator
  records (`Rooted`), that a copy sent at `s` of a flood with `k` handlers begun at
  `r` has `s + HopDelay =< r + k * HopDelay` (`InTime`), and that a node which
  handled an RREQ has its id in the cache until `PathDiscoveryTime` after
  (`Remembered`). As `k` is at most the number of nodes and a cached id lives for
  at least that many hop delays (`CacheOutlivesFlood`), a copy always finds
  the id of an earlier handling alive, so each relay adds a new handler and the
  bound carries on. `NoRouteToSelf` follows because the originator is itself the first
  handler of its RREQ, so a copy that comes home is a duplicate.
  The defaults cache an id for 5.6 s, 140 times the 40 ms of `NodeTraversalTime`: the
  assumption holds for up to 140 nodes if no copy takes longer than that.

**`FloodTreeProofs`**, from the same assumptions. `ReverseRoutesArePaths`: the invariant
`TreeInv` adds that a copy in the air was sent by a node that handled its RREQ and
carries that node's hop count (`Carried`). `FloodsRefineTrees`: with `HandledOnce` from
`RouteRequestProofs`, every step of `RouteRequest` is a `Root`, a `Join` or a
stutter of `FloodTree`.
`TreesHaveShape` is about the abstract specification alone: its floods are connected, no
node is in one twice, and following them back never goes round (`PathsEnd`). The
refinement carries this over to the code (`FloodsLeadBack`), where hop counts could not
tell, since they wrap at 256. `ReverseRoutesOutlastAnswers` follows the two lifetimes
an entry may have: it stays in the table with a lifetime of at least the answer's time
(`Serves`), through every look-up, purge, mark, search and
later RREQ (`KeptOutlasts`, `PurgeOutlasts`). It needs that RecvRReq never shortens
a lifetime: `std::max` in `offchain-routing.cc:495`.

**`SeqNoProofs`.** `NumbersNeverGoBack` follows from what each operation of the table does
to a number (`Forward`). `NumbersAreAuthentic` and `AnswersAreFreshEnough` share one
invariant, `SeqNoInv`: a copy asks for at least the number its originator wanted
(`AsksFor`), and no answer precedes its request (`AnsweredPast`).

**`NeighborsProofs`.** `TypeCorrect`, `ClosesInTime`, `ReportsEveryClose`,
`LeavesNoneMarked`, from one invariant: it adds that while the table has an entry the
timer runs, and that it never fires later than `Delay` after any entry expires or after
`ScheduleTimer` was last called (`TimerCovers`). `PurgeEstablishes` is the lemma for every operation
that ends in a purge. `LeasesRefined` and `ExpiryMonotone` use the same invariant; the
clock may tick only because `TimerCovers` bounds how far over a lease can be.

**`RoutingTableProofs`**, from `RoutingTableAssumption`. `TypeCorrect`,
`MarksHeldWithEntry`, `LostHopUnused`, `NothingForgottenEarly`. The invariant says more
than `HeldWithEntry`: the code never ends a mark (`HeldExactly`). It adds
`DownInv`: an entry the table took down has a lifetime of at least
`BadLinkLifetime` from then on. `FallenTo` says once what purging and invalidating
can do to a table, and every operation is proved through it.

**`ChannelsProofs`**, from `ChannelsAssumption`. `TypeCorrect`, `PromisesFollowHellos`,
`HellosDoNotMultiply`. A hello is answered by at most one, so an exchange cannot
grow; that two broadcasts never begin the same exchange needs `BegunBefore`, and
that no promise is ahead of its hello needs `HeardBefore`.

**`InterestRelayProofs`**, from `RelayAssumption`. `TypeCorrect`, `DataKeptOnce`,
`NothingUnasked`, `SeenOnceServedOnce`. The heart is `AskedOnce`: a node issues one
interest, so the requester tells the content. A provider that is asked for the first
time therefore has no DATA of that requester, whichever relay brought it DATA
back (`NewToProvider`). `Fate` adds to `SeenHasOneFate` that an interest not yet seen has no
entries. `DataOnlyClimbs` assumes what "settled" means,
`SettledRankings`, and that no node changes its request
(`OneRequestEach`): a requester that did would keep DATA it no longer waits for,
wherever it stands. `RelayRefinesService`: `Holds` says when an interest has which fate,
and `HoldsAt` that this is what `FatesAt` reads off the lists. An encounter rewrites entries
and keeps their number (`EncounterSettles`); a new interest has no fate at the
node before, by `Fate`, and exactly one after (`InterestDecides`). The invariant adds
that a provider which answered has seen the interest (`AnsweredSeen`).

**`RequestQueueProofs`.** `TypeCorrect`, `NeverQueuedTwice`, `EndsOnce`,
`WithinLimit`, `InOrderAndInTime`, `OneLimitIsKept`. The invariant adds that the queue is
finite and tickets identify entries (`TicketsUnique`); `Removing` covers the operations that only
take entries out, `EnqueueIInv` the one that adds.

**Only model-checked:** `DeferredGetsSent`, since liveness under fairness and `ENABLED` are
beyond the prover. Induction over data and `RECURSIVE` operators are
beyond it as well; the modules use none. Every other property of a passing run is
a theorem. `CounterAssumption` is not cited by a proof:
it is the condition under which naturals stand for 32-bit counters.

## Not modelled, and why

- `SendReply`, `SendReplyByIntermediateNode`, `RecvReply`, `ScheduleRreqRetry`,
  `RreqRateLimitTimerExpire`, `AckTimerExpire`, `Start`, RERR handling, `HandleRead`,
  `Relationship`, `ContentManager`, `InterestManager`, `PktHeader`: declared or used,
  defined nowhere. Those the modelled handlers depend on are external actions or
  values; the answers are recorded in `replies`.
- `m_reqCount`, `m_routeRequestTimout` and `m_blackListTimeout` of a routing table entry:
  written and never read (see *Findings* for the last). The pointer that copies of an entry share
  (`rtable.cc:187`): every caller here writes its copy back in the same event.
- The hello timer `m_htimer`, started after an RREQ is broadcast
  (`offchain-routing.cc` 408-415, 565-572): no function is set for it, `HelloTimerExpire` is
  defined nowhere, and no other code looks at it.
- `HandleInterestKnownContentProvider`: no packet of its type is ever sent.
- Serialisation: fixed-width fields in order, for RREP, RREP_ACK and RERR of packets that
  nothing sends. A hello reaches `RecvHello` in `Channels` although `TypeHeader` would hand it to
  `RecvRReq`, which reads 27 bytes of a header of 20: no outcome is defined for that.
- Duplicate packet detection: an `IdCache` over packet uids without a caller.
- `TimerExpire` and tracing, printing, sockets: input and output without protocol state.

## Plan

What is left needs code that is not in the tree yet. When `SendReply` and `RecvReply` are
written: forward routes, and that a route found leads to its destination. When
`RouteRequestTimerExpire` is: that an unanswered discovery ends and its entry leaves
`IN_SEARCH`. When `HandleRead` and `Relationship` are: the rankings of `InterestRelay` from
real tie tables, and the interest that names its provider under its own type. When the
copy of the channel table keeps its callback and timer, and `TypeHeader` knows hellos: that
every close is recorded, and the composition of
`Channels` with `Neighbors`, in which each end reports what it closes.
