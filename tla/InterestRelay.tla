---------------------------- MODULE InterestRelay ----------------------------
(***************************************************************************)
(* Content requests in payment-network.cc: a node's interest climbs from   *)
(* encounter to encounter towards whoever provides the content, and the    *)
(* DATA climbs back towards the requester.  Each handler of PktHeaders is  *)
(* an action; HandleRead, which would call them, is declared and defined   *)
(* nowhere.                                                                *)
(*                                                                         *)
(* A content is named by the address of its provider.  StartApplication is *)
(* the only place that issues an interest, once, so its broadcastId is     *)
(* always 0 and is left out.  The vectors of pending entries are sets: the *)
(* code visits all entries and never looks at their order.                 *)
(***************************************************************************)
EXTENDS Integers, FiniteSets

CONSTANTS
    Node,
    NoNode,              \* Ipv4Address ("0.0.0.0")
    Level, Centrality,   \* the two rankings that are not towards a node
    Standings,           \* external: what a Relationship may contain
    Requests,            \* bound: the <<node, content>> RequestContent is given
    MaxLoad,             \* bound: interests asked for plus packets in the air
    MaxDigests           \* bound: DIGESTs in the air at once

\* A standing ranks the nodes by tie towards each node, by level and by
\* centrality.  GetHigher...(a, b) picks between different nodes, so no two
\* nodes rank the same.
ASSUME RelayAssumption ==
    /\ NoNode \notin Node /\ Level \notin Node /\ Centrality \notin Node
    /\ Requests \subseteq Node \X Node /\ MaxLoad \in Nat /\ MaxDigests \in Nat
    /\ \A s \in Standings : \A k \in Node \cup {Level, Centrality} :
          /\ s[k] \in [Node -> Nat]
          /\ \A a, b \in Node : s[k][a] = s[k][b] => a = b

VARIABLES
    started,      \* nodes whose application has started
    wanted,       \* m_initialRequestedContent
    known,        \* m_contentManager
    seen,         \* m_interestManager: <<requester, content>>
    pendUnknown,  \* m_pending_interest_unknown_content_provider
    pendKnown,    \* m_pending_interest_known_content_provider
    pendData,     \* m_pending_data
    air,          \* interests and DATA sent
    digests,      \* DIGEST packets sent
    asked,        \* history: the interests StartApplication issued
    answered      \* history: interests a provider answered without relays

vars == <<started, wanted, known, seen, pendUnknown, pendKnown, pendData, air, digests,
          asked, answered>>

\* An own entry is the one StartApplication made; all others were heard.
Pending == [requester : Node, content : Node, relay : Node \cup {NoNode}, own : BOOLEAN]

Packet == [type : {"Interest", "Data"}, from : Node, to : Node,
           requester : Node, content : Node, provider : Node \cup {NoNode}]

NewPending(requester, content, own) ==
    [requester |-> requester, content |-> content, relay |-> NoNode, own |-> own]

Init ==
    /\ started = {}
    /\ wanted = [n \in Node |-> NoNode]
    /\ known = [n \in Node |-> {}]
    /\ seen = [n \in Node |-> {}]
    /\ pendUnknown = [n \in Node |-> {}]
    /\ pendKnown = [n \in Node |-> {}]
    /\ pendData = [n \in Node |-> {}]
    /\ air = {}
    /\ digests = {}
    /\ asked = {}
    /\ answered = {}

-----------------------------------------------------------------------------
(* Packets *)

DataPacket(n, to, p) ==
    [type |-> "Data", from |-> n, to |-> to, requester |-> p.requester,
     content |-> p.content, provider |-> NoNode]

UnknownPacket(n, to, p) ==
    [type |-> "Interest", from |-> n, to |-> to, requester |-> p.requester,
     content |-> p.content, provider |-> NoNode]

\* The packet names the provider, but its type is that of UnknownPacket: the
\* code sets InterestUnknownContentProvider here as well.
KnownPacket(n, to, p) == [UnknownPacket(n, to, p) EXCEPT !.provider = p.content]

-----------------------------------------------------------------------------
(* The application *)

RequestContent(n, content) ==
    /\ <<n, content>> \in Requests
    /\ wanted[n] # content
    /\ wanted' = [wanted EXCEPT ![n] = content]
    /\ UNCHANGED <<started, known, seen, pendUnknown, pendKnown, pendData,
                   air, digests, asked, answered>>

\* Mutant: an application without a request issues an interest as well.
HasRequestAlways(n) == TRUE

HasRequest(n) == wanted[n] # NoNode

\* A node owns the content of its name and issues the interest it has by now.
StartApplication(n) ==
    /\ n \notin started
    /\ started' = started \cup {n}
    /\ known' = [known EXCEPT ![n] = @ \cup {n}]
    /\ IF HasRequest(n)
       THEN /\ pendUnknown' = [pendUnknown EXCEPT
                                  ![n] = @ \cup {NewPending(n, wanted[n], TRUE)}]
            /\ asked' = asked \cup {<<n, wanted[n]>>}
       ELSE UNCHANGED <<pendUnknown, asked>>
    /\ UNCHANGED <<wanted, seen, pendKnown, pendData, air, digests, answered>>

-----------------------------------------------------------------------------
(* HandleHello: what a node sends to a node it encounters *)

\* GetHigher...(other, encounter) is the encounter.
Prefers(s, k, encounter, other) == s[k][encounter] >= s[k][other]

\* Mutant: the encounter is not compared with this node.
ClimbsFromRelay(s, k, n, encounter, p) ==
    p.relay = NoNode \/ Prefers(s, k, encounter, p.relay)

\* The encounter ranks above this node and above the last relay.
Climbs(s, k, n, encounter, p) ==
    /\ Prefers(s, k, encounter, n)
    /\ p.relay = NoNode \/ Prefers(s, k, encounter, p.relay)

\* What the encounters of an entry are ranked by: the tie towards the requester
\* (DATA) or the provider, or the level.
Rank(list, p) ==
    CASE list = "data" -> p.requester
      [] list = "known" -> p.content
      [] list = "unknown" -> Level

\* The entries sent to the encounter: the node an entry is to reach gets it
\* whatever its rank.
Sent(s, list, n, encounter, entries) ==
    {p \in entries : \/ Rank(list, p) = encounter
                     \/ Climbs(s, Rank(list, p), n, encounter, p)}

\* Mutant: an entry is forgotten once it is sent.
RelayedOnce(s, list, n, encounter, entries) ==
    entries \ Sent(s, list, n, encounter, entries)

\* The entries after the encounter: none is removed.
Relayed(s, list, n, encounter, entries) ==
    {IF Rank(list, p) # encounter /\ Climbs(s, Rank(list, p), n, encounter, p)
        THEN [p EXCEPT !.relay = encounter] ELSE p : p \in entries}

\* External: of the packets a handler sends, any may be lost on the way.
SendSome(base, sent) ==
    \E arriving \in SUBSET sent :
        /\ air' = base \cup arriving
        /\ arriving # {} => Cardinality(air') + Cardinality(asked) =< MaxLoad

\* ProcessPendingData, ...KnownContentProvider and ...UnknownContentProvider,
\* after the table was merged and the digest sent.
HandleHello(n, encounter) ==
    /\ n \in started /\ encounter \in started \ {n}
    /\ \E s \in Standings :
          /\ \/ UNCHANGED digests
             \/ /\ Prefers(s, Centrality, encounter, n)
                /\ digests' = digests \cup {[to |-> encounter, names |-> known[n]]}
          /\ pendData' = [pendData EXCEPT ![n] = Relayed(s, "data", n, encounter, @)]
          /\ pendKnown' = [pendKnown EXCEPT ![n] = Relayed(s, "known", n, encounter, @)]
          /\ pendUnknown' = [pendUnknown EXCEPT ![n] = Relayed(s, "unknown", n, encounter, @)]
          /\ SendSome(air,
                {DataPacket(n, encounter, p) : p \in Sent(s, "data", n, encounter, pendData[n])}
                \cup {KnownPacket(n, encounter, p) :
                         p \in Sent(s, "known", n, encounter, pendKnown[n])}
                \cup {UnknownPacket(n, encounter, p) :
                         p \in Sent(s, "unknown", n, encounter, pendUnknown[n])})
    /\ Cardinality(digests') =< MaxDigests
    /\ UNCHANGED <<started, wanted, known, seen, asked, answered>>

-----------------------------------------------------------------------------
(* Packets received.  A packet for another node is ignored. *)

\* Mutant: an interest is passed on to a provider that a DIGEST makes known.
HandleDigestMoves(n, d) ==
    LET moving == {p \in pendUnknown[n] : ~p.own /\ p.content \in d.names} IN
    /\ d.to = n
    /\ known' = [known EXCEPT ![n] = @ \cup d.names]
    /\ pendKnown' = [pendKnown EXCEPT ![n] = @ \cup moving]
    /\ pendUnknown' = [pendUnknown EXCEPT ![n] = @ \ moving]
    /\ digests' = digests \ {d}
    /\ UNCHANGED <<started, wanted, seen, pendData, air, asked, answered>>

HandleDigest(n, d) ==
    /\ d.to = n
    /\ known' = [known EXCEPT ![n] = @ \cup d.names]
    /\ digests' = digests \ {d}
    /\ UNCHANGED <<started, wanted, seen, pendUnknown, pendKnown, pendData,
                   air, asked, answered>>

\* Mutant: pending DATA of the same requester is not looked for.
KeepDataAgain(n, m) ==
    pendData' = [pendData EXCEPT ![n] = @ \cup {NewPending(m.requester, m.content, FALSE)}]

\* DATA for someone else is kept, once per interest.
KeepData(n, m) ==
    pendData' = IF \E p \in pendData[n] : p.requester = m.requester THEN pendData
                ELSE [pendData EXCEPT
                         ![n] = @ \cup {NewPending(m.requester, m.content, FALSE)}]

\* DATA this node waits for ends here, even when another node asked for it.
HandleData(n, m) ==
    /\ m.type = "Data" /\ m.to = n
    /\ IF wanted[n] = m.content THEN UNCHANGED pendData ELSE KeepData(n, m)
    /\ air' = air \ {m}
    /\ UNCHANGED <<started, wanted, known, seen, pendUnknown, pendKnown,
                   digests, asked, answered>>

\* Mutant: whoever knows the provider answers in its place.
HasContentKnown(n, m) == m.content \in known[n]

HasContent(n, m) == n = m.content

AnswerRequester(n, m) ==
    /\ HasContent(n, m) /\ m.from = m.requester
    /\ SendSome(air \ {m}, {DataPacket(n, m.from, m)})
    /\ answered' = answered \cup {<<m.requester, m.content>>}
    /\ UNCHANGED <<pendUnknown, pendKnown, pendData>>

KeepAnswer(n, m) ==
    /\ HasContent(n, m) /\ m.from # m.requester
    /\ pendData' = [pendData EXCEPT
                       ![n] = @ \cup {NewPending(m.requester, m.content, FALSE)}]
    /\ air' = air \ {m}
    /\ UNCHANGED <<pendUnknown, pendKnown, answered>>

RelayToProvider(n, m) ==
    /\ ~HasContent(n, m) /\ m.content \in known[n]
    /\ pendKnown' = [pendKnown EXCEPT
                        ![n] = @ \cup {NewPending(m.requester, m.content, FALSE)}]
    /\ air' = air \ {m}
    /\ UNCHANGED <<pendUnknown, pendData, answered>>

RelayUpwards(n, m) ==
    /\ ~HasContent(n, m) /\ m.content \notin known[n]
    /\ pendUnknown' = [pendUnknown EXCEPT
                          ![n] = @ \cup {NewPending(m.requester, m.content, FALSE)}]
    /\ air' = air \ {m}
    /\ UNCHANGED <<pendKnown, pendData, answered>>

\* HandleInterestUnknownContentProvider, for an interest not seen before.
\* (HandleInterestKnownContentProvider handles a type that nothing sends.)
HandleInterest(n, m) ==
    /\ m.type = "Interest" /\ m.to = n
    /\ <<m.requester, m.content>> \notin seen[n]
    /\ seen' = [seen EXCEPT ![n] = @ \cup {<<m.requester, m.content>>}]
    /\ \/ AnswerRequester(n, m) \/ KeepAnswer(n, m)
       \/ RelayToProvider(n, m) \/ RelayUpwards(n, m)
    /\ UNCHANGED <<started, wanted, known, digests, asked>>

IgnoreInterest(n, m) ==
    /\ m.type = "Interest" /\ m.to = n
    /\ <<m.requester, m.content>> \in seen[n]
    /\ air' = air \ {m}
    /\ UNCHANGED <<started, wanted, known, seen, pendUnknown, pendKnown,
                   pendData, digests, asked, answered>>

Next ==
    \E n \in Node :
       \/ \E content \in Node : RequestContent(n, content)
       \/ StartApplication(n)
       \/ \E encounter \in Node : HandleHello(n, encounter)
       \/ \E d \in digests : HandleDigest(n, d)
       \/ \E m \in air : HandleData(n, m) \/ HandleInterest(n, m) \/ IgnoreInterest(n, m)

Spec == Init /\ [][Next]_vars

-----------------------------------------------------------------------------
(* Properties *)

TypeOK ==
    /\ started \subseteq Node
    /\ wanted \in [Node -> Node \cup {NoNode}]
    /\ known \in [Node -> SUBSET Node]
    /\ seen \in [Node -> SUBSET (Node \X Node)]
    /\ pendUnknown \in [Node -> SUBSET Pending]
    /\ pendKnown \in [Node -> SUBSET Pending]
    /\ pendData \in [Node -> SUBSET Pending]
    /\ air \subseteq Packet
    /\ digests \subseteq [to : Node, names : SUBSET Node]
    /\ asked \subseteq Node \X Node
    /\ answered \subseteq Node \X Node

Key(p) == <<p.requester, p.content>>

Heard(n, i) == {p \in pendUnknown[n] : ~p.own /\ Key(p) = i}
OnTheWay(n, i) == {p \in pendKnown[n] : Key(p) = i}
Ready(n, i) == {p \in pendData[n] : Key(p) = i}

\* "That means I already served DATA packet for that interest before, or I
\* already saved it to the pending interest list": an interest that a node has
\* seen has exactly one entry, for ever, or was answered at once.
SeenHasOneFate ==
    \A n \in Node : \A i \in seen[n] :
        IF n = i[2] THEN i \in answered \/ Cardinality(Ready(n, i)) = 1
        ELSE Cardinality(Heard(n, i)) + Cardinality(OnTheWay(n, i)) = 1

\* DATA for an interest is kept at most once, whichever handler kept it first.
PendingDataOnce ==
    \A n \in Node : \A p, q \in pendData[n] : p.requester = q.requester => p = q

\* Nothing travels that nobody asked for, and no DATA that its provider was not
\* asked for.
OnlyWhatWasAsked ==
    /\ \A n \in Node : \A p \in pendUnknown[n] \cup pendKnown[n] \cup pendData[n] :
            Key(p) \in asked
    /\ \A m \in air : Key(m) \in asked
    /\ \A m \in {m \in air : m.type = "Data"} \cup UNION {pendData[n] : n \in Node} :
            Key(m) \in seen[m.content]

Fated(n, i, fate) == [node |-> n, interest |-> i, fate |-> fate]

\* Which interests have which fate at n, as the lists of n tell it.
FatesAt(n) ==
    {Fated(n, Key(p), "upwards") : p \in {q \in pendUnknown[n] : ~q.own /\ q.content # n}}
    \cup {Fated(n, Key(p), "to provider") : p \in {q \in pendKnown[n] : q.content # n}}
    \cup {Fated(n, Key(p), "kept") :
            p \in {q \in pendData[n] : q.content = n /\ Key(q) \notin answered}}
    \cup {Fated(n, i, "answered") : i \in {j \in answered : j[2] = n}}

Service == INSTANCE InterestService WITH fates <- UNION {FatesAt(n) : n \in Node}

\* Whomever a node meets, whatever DIGEST it gets and however often an interest
\* comes again, what it decided of the interest stays.
FatesAreFinal == Service!Spec

\* With rankings that have settled, DATA only moves to nodes closer to the
\* requester than its provider and every holder before.
DataClimbs ==
    \A n \in Node : \A p \in pendData[n] : \A s \in Standings :
        LET tie == s[p.requester] IN
        /\ n # p.content => tie[n] > tie[p.content]
        /\ p.relay # NoNode => tie[p.relay] > tie[n]

\* "I do not have the content, so I am a relay node to a known content provider"
\* (payment-network.cc:872): a packet that names the provider is never kept as an
\* interest whose provider is unknown.
ProviderStaysKnown ==
    [][\A n \in Node : \A m \in air \ air' :
            m.to = n /\ m.provider # NoNode => pendUnknown'[n] = pendUnknown[n]]_vars
=============================================================================
