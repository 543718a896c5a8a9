------------------------ MODULE InterestRelayProofs ------------------------
(***************************************************************************)
(* Proofs about the content relay: its types, that every interest seen has *)
(* one fate, that DATA is kept once, and that nothing travels that nobody  *)
(* asked for; for any nodes, rankings and loads, and with every packet     *)
(* lost, late or overtaken.  The relay implements InterestService.  While  *)
(* the rankings stand still, DATA climbs.                                  *)
(***************************************************************************)
EXTENDS InterestRelay, FiniteSetTheorems, TLAPS

\* A node issues one interest in its life: the requester tells the content.
AskedOnce ==
    /\ \A i \in asked : i[1] \in started
    /\ \A i, j \in asked : i[1] = j[1] => i = j

One(S) == \E p \in S : S = {p}

\* The entries of one interest, with the given origin.
OfKey(S, own, i) == {p \in S : p.own \in own /\ Key(p) = i}

\* SeenHasOneFate together with what it says of an interest not yet seen.
Fate(n, i) ==
    /\ i \notin seen[n] => Heard(n, i) = {} /\ OnTheWay(n, i) = {}
    /\ i \in seen[n] =>
          IF n = i[2] THEN i \in answered \/ One(Ready(n, i))
          ELSE \/ One(Heard(n, i)) /\ OnTheWay(n, i) = {}
               \/ Heard(n, i) = {} /\ One(OnTheWay(n, i))

Fates == \A n \in Node : \A i \in Node \X Node : Fate(n, i)

IInv == TypeOK /\ AskedOnce /\ OnlyWhatWasAsked /\ PendingDataOnce /\ Fates

-----------------------------------------------------------------------------
(* Entries *)

\* An entry after an encounter.
Moved(s, list, n, encounter, p) ==
    IF Rank(list, p) # encounter /\ Climbs(s, Rank(list, p), n, encounter, p)
    THEN [p EXCEPT !.relay = encounter] ELSE p

LEMMA RelayedIsImage ==
    ASSUME NEW s, NEW list, NEW n, NEW encounter, NEW S
    PROVE  Relayed(s, list, n, encounter, S) = {Moved(s, list, n, encounter, p) : p \in S}
  BY DEF Relayed, Moved

\* An encounter changes nothing of an entry but its last relay.
LEMMA MovedKeeps ==
    ASSUME NEW s, NEW list, NEW n, NEW encounter \in Node, NEW p \in Pending
    PROVE  /\ Moved(s, list, n, encounter, p) \in Pending
           /\ Moved(s, list, n, encounter, p).requester = p.requester
           /\ Moved(s, list, n, encounter, p).content = p.content
           /\ Moved(s, list, n, encounter, p).own = p.own
  BY DEF Moved, Pending

LEMMA NewPendingType ==
    ASSUME NEW r \in Node, NEW c \in Node, NEW o \in BOOLEAN
    PROVE  /\ NewPending(r, c, o) \in Pending
           /\ NewPending(r, c, o).requester = r
           /\ NewPending(r, c, o).content = c
           /\ NewPending(r, c, o).own = o
           /\ Key(NewPending(r, c, o)) = <<r, c>>
  BY DEF NewPending, Pending, Key

LEMMA PacketsType ==
    ASSUME NEW n \in Node, NEW to \in Node, NEW p, p.requester \in Node, p.content \in Node
    PROVE  /\ DataPacket(n, to, p) \in Packet
           /\ UnknownPacket(n, to, p) \in Packet
           /\ KnownPacket(n, to, p) \in Packet
           /\ Key(DataPacket(n, to, p)) = Key(p)
           /\ Key(UnknownPacket(n, to, p)) = Key(p)
           /\ Key(KnownPacket(n, to, p)) = Key(p)
           /\ DataPacket(n, to, p).content = p.content
           /\ UnknownPacket(n, to, p).type = "Interest"
           /\ KnownPacket(n, to, p).type = "Interest"
  BY DEF DataPacket, UnknownPacket, KnownPacket, Packet, Key

\* What an encounter leaves of the entries of one interest.
LEMMA RelayedSelection ==
    ASSUME NEW s, NEW list, NEW n, NEW encounter \in Node, NEW S \in SUBSET Pending, NEW i
    PROVE  /\ Relayed(s, list, n, encounter, S) \in SUBSET Pending
           /\ \A q \in Relayed(s, list, n, encounter, S) : \E p \in S :
                 q.requester = p.requester /\ q.content = p.content /\ q.own = p.own
           /\ \A q, r \in Relayed(s, list, n, encounter, S) :
                 (\A p, o \in S : p.requester = o.requester => p = o)
                    /\ q.requester = r.requester => q = r
  BY RelayedIsImage, MovedKeeps

LEMMA RelayedStaysEmpty ==
    ASSUME NEW s, NEW list, NEW n, NEW encounter \in Node, NEW S \in SUBSET Pending, NEW i,
           NEW own \in SUBSET BOOLEAN,
           OfKey(S, own, i) = {}
    PROVE  OfKey(Relayed(s, list, n, encounter, S), own, i) = {}
  BY RelayedIsImage, MovedKeeps DEF Key, OfKey

LEMMA RelayedStaysOne ==
    ASSUME NEW s, NEW list, NEW n, NEW encounter \in Node, NEW S \in SUBSET Pending, NEW i,
           NEW own \in SUBSET BOOLEAN,
           One(OfKey(S, own, i))
    PROVE  One(OfKey(Relayed(s, list, n, encounter, S), own, i))
<1>1. PICK p \in S : OfKey(S, own, i) = {p}
  BY DEF One, OfKey
<1>2. p.own \in own /\ Key(p) = i
  BY <1>1 DEF OfKey
<1>3. \A q \in S : q.own \in own /\ Key(q) = i => q = p
  BY <1>1 DEF OfKey
<1> DEFINE M == Moved(s, list, n, encounter, p)
           R == OfKey(Relayed(s, list, n, encounter, S), own, i)
<1>4. M \in R
  BY <1>2, RelayedIsImage, MovedKeeps DEF Key, OfKey
<1>5. \A q \in R : q = M
  BY <1>3, RelayedIsImage, MovedKeeps DEF Key, OfKey
<1> QED BY <1>4, <1>5 DEF One

-----------------------------------------------------------------------------
(* The fate of one interest at one node *)

\* The three kinds of entries at an encounter: none appears, one stays one.
LEMMA EncounterKeepsEntries ==
    ASSUME TypeOK, NEW s, NEW n \in Node, NEW encounter \in Node,
           pendData' = [pendData EXCEPT ![n] = Relayed(s, "data", n, encounter, @)],
           pendKnown' = [pendKnown EXCEPT ![n] = Relayed(s, "known", n, encounter, @)],
           pendUnknown' = [pendUnknown EXCEPT ![n] = Relayed(s, "unknown", n, encounter, @)],
           NEW k \in Node, NEW i
    PROVE  /\ Heard(k, i) = {} => Heard(k, i)' = {}
           /\ OnTheWay(k, i) = {} => OnTheWay(k, i)' = {}
           /\ One(Heard(k, i)) => One(Heard(k, i)')
           /\ One(OnTheWay(k, i)) => One(OnTheWay(k, i)')
           /\ One(Ready(k, i)) => One(Ready(k, i)')
<1>1. CASE k # n
  <2>1. /\ pendData'[k] = pendData[k] /\ pendKnown'[k] = pendKnown[k]
        /\ pendUnknown'[k] = pendUnknown[k]
    BY <1>1 DEF TypeOK
  <2> QED BY <2>1 DEF Heard, OnTheWay, Ready
<1>2. CASE k = n
  <2> DEFINE D == Relayed(s, "data", n, encounter, pendData[n])
             K == Relayed(s, "known", n, encounter, pendKnown[n])
             U == Relayed(s, "unknown", n, encounter, pendUnknown[n])
  <2>1. /\ pendData[n] \in SUBSET Pending /\ pendKnown[n] \in SUBSET Pending
        /\ pendUnknown[n] \in SUBSET Pending
    BY DEF TypeOK
  <2>2. /\ pendData'[n] = D /\ pendKnown'[n] = K /\ pendUnknown'[n] = U
    BY DEF TypeOK
  <2>3. D \in SUBSET Pending /\ K \in SUBSET Pending /\ U \in SUBSET Pending
    BY <2>1, RelayedSelection
  <2> HIDE DEF D, K, U
  <2>9. {FALSE} \in SUBSET BOOLEAN /\ BOOLEAN \in SUBSET BOOLEAN
    OBVIOUS
  <2>4. /\ Heard(k, i) = OfKey(pendUnknown[n], {FALSE}, i)
        /\ OnTheWay(k, i) = OfKey(pendKnown[n], BOOLEAN, i)
        /\ Ready(k, i) = OfKey(pendData[n], BOOLEAN, i)
    <3>1. \A p \in Pending : p.own \in BOOLEAN
      BY DEF Pending
    <3> QED BY <1>2, <2>1, <3>1 DEF Heard, OnTheWay, Ready, OfKey
  <2>5. /\ Heard(k, i)' = OfKey(U, {FALSE}, i)
        /\ OnTheWay(k, i)' = OfKey(K, BOOLEAN, i)
        /\ Ready(k, i)' = OfKey(D, BOOLEAN, i)
    <3>1. \A p \in Pending : p.own \in BOOLEAN
      BY DEF Pending
    <3> QED BY <1>2, <2>2, <2>3, <3>1 DEF Heard, OnTheWay, Ready, Key, OfKey
  <2>6. /\ Heard(k, i) = {} => Heard(k, i)' = {}
        /\ One(Heard(k, i)) => One(Heard(k, i)')
    <3>1. OfKey(pendUnknown[n], {FALSE}, i) = {} => OfKey(U, {FALSE}, i) = {}
      BY <2>1, <2>9, RelayedStaysEmpty, Zenon DEF U
    <3>2. One(OfKey(pendUnknown[n], {FALSE}, i)) => One(OfKey(U, {FALSE}, i))
      BY <2>1, <2>9, RelayedStaysOne, Zenon DEF U
    <3> QED BY <2>4, <2>5, <3>1, <3>2, Zenon
  <2>7. /\ OnTheWay(k, i) = {} => OnTheWay(k, i)' = {}
        /\ One(OnTheWay(k, i)) => One(OnTheWay(k, i)')
    <3>1. OfKey(pendKnown[n], BOOLEAN, i) = {} => OfKey(K, BOOLEAN, i) = {}
      BY <2>1, <2>9, RelayedStaysEmpty, Zenon DEF K
    <3>2. One(OfKey(pendKnown[n], BOOLEAN, i)) => One(OfKey(K, BOOLEAN, i))
      BY <2>1, <2>9, RelayedStaysOne, Zenon DEF K
    <3> QED BY <2>4, <2>5, <3>1, <3>2, Zenon
  <2>8. One(Ready(k, i)) => One(Ready(k, i)')
    <3>1. One(OfKey(pendData[n], BOOLEAN, i)) => One(OfKey(D, BOOLEAN, i))
      BY <2>1, <2>9, RelayedStaysOne, Zenon DEF D
    <3> QED BY <2>4, <2>5, <3>1, Zenon
  <2> QED BY <2>6, <2>7, <2>8
<1> QED BY <1>1, <1>2

\* Steps that show a node nothing new keep every fate.
LEMMA FateKept ==
    ASSUME NEW k \in Node, NEW i \in Node \X Node, Fate(k, i),
           i \in seen'[k] <=> i \in seen[k], answered \subseteq answered',
           Heard(k, i) = {} => Heard(k, i)' = {},
           OnTheWay(k, i) = {} => OnTheWay(k, i)' = {},
           One(Heard(k, i)) => One(Heard(k, i)'),
           One(OnTheWay(k, i)) => One(OnTheWay(k, i)'),
           One(Ready(k, i)) => One(Ready(k, i)')
    PROVE  Fate(k, i)'
<1>1. One(Ready(k, i))' = One(Ready(k, i)') /\ One(Heard(k, i))' = One(Heard(k, i)')
      /\ One(OnTheWay(k, i))' = One(OnTheWay(k, i)')
  BY DEF One
<1> QED BY <1>1 DEF Fate

LEMMA FatesKept ==
    ASSUME Fates, seen' = seen, answered \subseteq answered',
           \A k \in Node : \A i \in Node \X Node :
              /\ Heard(k, i)' = Heard(k, i)
              /\ OnTheWay(k, i)' = OnTheWay(k, i)
              /\ One(Ready(k, i)) => One(Ready(k, i)')
    PROVE  Fates'
  BY FateKept DEF Fates

-----------------------------------------------------------------------------
(* The inductive invariant *)

LEMMA InitIInv == Init => IInv
<1> SUFFICES ASSUME Init PROVE IInv
  OBVIOUS
<1> USE RelayAssumption
<1>1. TypeOK
  BY DEF Init, TypeOK
<1>2. AskedOnce /\ OnlyWhatWasAsked /\ PendingDataOnce
  BY DEF Init, AskedOnce, OnlyWhatWasAsked, PendingDataOnce
<1>3. Fates
  BY DEF Init, Fates, Fate, Heard, OnTheWay
<1> QED BY <1>1, <1>2, <1>3 DEF IInv

LEMMA RequestContentKeeps ==
    ASSUME IInv, NEW n \in Node, NEW content \in Node, RequestContent(n, content)
    PROVE  IInv'
<1>1. TypeOK'
  BY DEF RequestContent, IInv, TypeOK
<1>2. AskedOnce' /\ OnlyWhatWasAsked' /\ PendingDataOnce'
  BY DEF RequestContent, IInv, AskedOnce, OnlyWhatWasAsked, PendingDataOnce, Key
<1>3. Fates'
  BY DEF RequestContent, IInv, Fates, Fate, Heard, OnTheWay, Ready, Key, One
<1> QED BY <1>1, <1>2, <1>3 DEF IInv

\* The entry of a node's own interest is none of those it heard.
LEMMA StartApplicationKeeps ==
    ASSUME IInv, NEW n \in Node, StartApplication(n)
    PROVE  IInv'
<1> DEFINE p == NewPending(n, wanted[n], TRUE)
<1>0. /\ TypeOK /\ AskedOnce /\ OnlyWhatWasAsked /\ PendingDataOnce /\ Fates
      /\ \A k \in Node : pendUnknown[k] \in SUBSET Pending
  BY DEF IInv, TypeOK
<1>1. HasRequest(n) => /\ wanted[n] \in Node /\ p \in Pending /\ p.own
                       /\ Key(p) = <<n, wanted[n]>>
  BY <1>0 DEF HasRequest, TypeOK, NewPending, Pending, Key
<1> HIDE DEF p
<1>2. \/ pendUnknown' = pendUnknown /\ asked' = asked
      \/ /\ HasRequest(n)
         /\ pendUnknown' = [pendUnknown EXCEPT ![n] = @ \cup {p}]
         /\ asked' = asked \cup {<<n, wanted[n]>>}
  BY DEF StartApplication, p
<1>3. TypeOK'
  <2>1. /\ started' \subseteq Node /\ known' \in [Node -> SUBSET Node]
        /\ UNCHANGED <<wanted, seen, pendKnown, pendData, air, digests, answered>>
    BY <1>0 DEF StartApplication, TypeOK
  <2>2. pendUnknown' \in [Node -> SUBSET Pending] /\ asked' \subseteq Node \X Node
    BY <1>0, <1>1, <1>2 DEF TypeOK
  <2> QED BY <1>0, <2>1, <2>2 DEF TypeOK
<1>4. AskedOnce'
  BY <1>0, <1>2 DEF AskedOnce, StartApplication
<1>5. \A k \in Node : \A q \in pendUnknown'[k] : q \in pendUnknown[k] \/ Key(q) \in asked'
  BY <1>0, <1>1, <1>2 DEF TypeOK
<1>6. OnlyWhatWasAsked'
  <2>1. asked \subseteq asked' /\ UNCHANGED <<seen, pendKnown, pendData, air>>
    BY <1>2 DEF StartApplication
  <2> QED BY <1>0, <1>5, <2>1 DEF OnlyWhatWasAsked, Key
<1>7. PendingDataOnce'
  BY <1>0 DEF StartApplication, PendingDataOnce
<1>8. Fates'
  <2>1. UNCHANGED <<seen, pendKnown, pendData, answered>>
    BY DEF StartApplication
  <2>2. \A k \in Node : \A q : ~q.own => (q \in pendUnknown'[k] <=> q \in pendUnknown[k])
    BY <1>0, <1>1, <1>2 DEF TypeOK
  <2>3. \A k \in Node : \A i \in Node \X Node : Heard(k, i)' = Heard(k, i)
    BY <2>2 DEF Heard, Key
  <2> QED BY <1>0, <2>1, <2>3, FatesKept DEF OnTheWay, Ready, Key
<1> QED BY <1>3, <1>4, <1>6, <1>7, <1>8 DEF IInv

LEMMA HandleHelloKeeps ==
    ASSUME IInv, NEW n \in Node, NEW encounter \in Node, HandleHello(n, encounter)
    PROVE  IInv'
<1>0. /\ TypeOK /\ AskedOnce /\ OnlyWhatWasAsked /\ PendingDataOnce /\ Fates
      /\ \A k \in Node : /\ pendUnknown[k] \in SUBSET Pending
                         /\ pendKnown[k] \in SUBSET Pending
                         /\ pendData[k] \in SUBSET Pending
  BY DEF IInv, TypeOK
<1>1. PICK s \in Standings :
          /\ \/ UNCHANGED digests
             \/ digests' = digests \cup {[to |-> encounter, names |-> known[n]]}
          /\ pendData' = [pendData EXCEPT ![n] = Relayed(s, "data", n, encounter, @)]
          /\ pendKnown' = [pendKnown EXCEPT ![n] = Relayed(s, "known", n, encounter, @)]
          /\ pendUnknown' = [pendUnknown EXCEPT ![n] = Relayed(s, "unknown", n, encounter, @)]
          /\ SendSome(air,
                {DataPacket(n, encounter, p) : p \in Sent(s, "data", n, encounter, pendData[n])}
                \cup {KnownPacket(n, encounter, p) :
                         p \in Sent(s, "known", n, encounter, pendKnown[n])}
                \cup {UnknownPacket(n, encounter, p) :
                         p \in Sent(s, "unknown", n, encounter, pendUnknown[n])})
  BY DEF HandleHello
<1>2. UNCHANGED <<started, wanted, known, seen, asked, answered>>
  BY DEF HandleHello
<1>3. \A m \in air' : \/ m \in air
                      \/ \E p \in pendData[n] : m = DataPacket(n, encounter, p)
                      \/ \E p \in pendKnown[n] : m = KnownPacket(n, encounter, p)
                      \/ \E p \in pendUnknown[n] : m = UnknownPacket(n, encounter, p)
  BY <1>1 DEF SendSome, Sent
<1>4. /\ \A k \in Node : /\ pendUnknown'[k] \in SUBSET Pending
                         /\ pendKnown'[k] \in SUBSET Pending
                         /\ pendData'[k] \in SUBSET Pending
      /\ \A k \in Node : \A q \in pendUnknown'[k] : \E p \in pendUnknown[k] : Key(q) = Key(p)
      /\ \A k \in Node : \A q \in pendKnown'[k] : \E p \in pendKnown[k] : Key(q) = Key(p)
      /\ \A k \in Node : \A q \in pendData'[k] : \E p \in pendData[k] :
            Key(q) = Key(p) /\ q.content = p.content
  BY <1>0, <1>1, RelayedSelection DEF TypeOK, Key
<1>5. \A p \in Pending : p.requester \in Node /\ p.content \in Node
  BY DEF Pending
<1>6. TypeOK'
  <2>1. air' \subseteq Packet
    BY <1>0, <1>3, <1>5, PacketsType DEF TypeOK
  <2>2. digests' \subseteq [to : Node, names : SUBSET Node]
    BY <1>0, <1>1 DEF TypeOK
  <2>3. /\ pendUnknown' \in [Node -> SUBSET Pending]
        /\ pendKnown' \in [Node -> SUBSET Pending]
        /\ pendData' \in [Node -> SUBSET Pending]
    BY <1>0, <1>1, <1>4 DEF TypeOK
  <2> QED BY <1>0, <1>2, <2>1, <2>2, <2>3 DEF TypeOK
<1>7. AskedOnce'
  BY <1>0, <1>2 DEF AskedOnce
<1>8. OnlyWhatWasAsked'
  <2>1. \A k \in Node : \A q \in pendUnknown'[k] \cup pendKnown'[k] \cup pendData'[k] :
            Key(q) \in asked
    BY <1>0, <1>4 DEF OnlyWhatWasAsked
  <2>2. \A m \in air' : /\ Key(m) \in asked
                        /\ m.type = "Data" => Key(m) \in seen[m.content]
    <3> SUFFICES ASSUME NEW m \in air'
                 PROVE  Key(m) \in asked /\ (m.type = "Data" => Key(m) \in seen[m.content])
      OBVIOUS
    <3>1. CASE m \in air
      BY <3>1, <1>0 DEF OnlyWhatWasAsked
    <3>2. ASSUME NEW p \in pendData[n], m = DataPacket(n, encounter, p)
          PROVE  Key(m) \in asked /\ Key(m) \in seen[m.content]
      BY <3>2, <1>0, <1>5, PacketsType DEF OnlyWhatWasAsked
    <3>3. ASSUME NEW p \in pendKnown[n], m = KnownPacket(n, encounter, p)
          PROVE  Key(m) \in asked /\ m.type = "Interest"
      BY <3>3, <1>0, <1>5, PacketsType DEF OnlyWhatWasAsked
    <3>4. ASSUME NEW p \in pendUnknown[n], m = UnknownPacket(n, encounter, p)
          PROVE  Key(m) \in asked /\ m.type = "Interest"
      BY <3>4, <1>0, <1>5, PacketsType DEF OnlyWhatWasAsked
    <3> QED BY <1>3, <3>1, <3>2, <3>3, <3>4
  <2>3. \A k \in Node : \A q \in pendData'[k] : Key(q) \in seen[q.content]
    BY <1>0, <1>4 DEF OnlyWhatWasAsked
  <2> QED BY <1>2, <2>1, <2>2, <2>3 DEF OnlyWhatWasAsked, Key
<1>9. PendingDataOnce'
  <2>1. \A k \in Node : k # n => pendData'[k] = pendData[k]
    BY <1>0, <1>1 DEF TypeOK
  <2>2. pendData'[n] = Relayed(s, "data", n, encounter, pendData[n])
    BY <1>0, <1>1 DEF TypeOK
  <2>3. \A p, o \in pendData[n] : p.requester = o.requester => p = o
    BY <1>0 DEF PendingDataOnce
  <2>4. \A q, r \in Relayed(s, "data", n, encounter, pendData[n]) :
            q.requester = r.requester => q = r
    BY <1>0, <2>3, RelayedSelection
  <2> QED BY <1>0, <2>1, <2>2, <2>4 DEF PendingDataOnce
<1>10. Fates'
  <2> SUFFICES ASSUME NEW k \in Node, NEW i \in Node \X Node PROVE Fate(k, i)'
    BY DEF Fates
  <2>1. /\ Heard(k, i) = {} => Heard(k, i)' = {}
        /\ OnTheWay(k, i) = {} => OnTheWay(k, i)' = {}
        /\ One(Heard(k, i)) => One(Heard(k, i)')
        /\ One(OnTheWay(k, i)) => One(OnTheWay(k, i)')
        /\ One(Ready(k, i)) => One(Ready(k, i)')
    BY <1>0, <1>1, EncounterKeepsEntries
  <2> QED BY <1>0, <1>2, <2>1, FateKept DEF Fates
<1> QED BY <1>6, <1>7, <1>8, <1>9, <1>10 DEF IInv

LEMMA HandleDigestKeeps ==
    ASSUME IInv, NEW n \in Node, NEW d \in digests, HandleDigest(n, d)
    PROVE  IInv'
<1>1. TypeOK'
  BY DEF HandleDigest, IInv, TypeOK
<1>2. AskedOnce' /\ OnlyWhatWasAsked' /\ PendingDataOnce'
  BY DEF HandleDigest, IInv, AskedOnce, OnlyWhatWasAsked, PendingDataOnce, Key
<1>3. Fates'
  BY DEF HandleDigest, IInv, Fates, Fate, Heard, OnTheWay, Ready, Key, One
<1> QED BY <1>1, <1>2, <1>3 DEF IInv

\* DATA is kept only at a node without DATA for that requester.
LEMMA HandleDataKeeps ==
    ASSUME IInv, NEW n \in Node, NEW m \in air, HandleData(n, m)
    PROVE  IInv'
<1> DEFINE p == NewPending(m.requester, m.content, FALSE)
<1>0. /\ TypeOK /\ AskedOnce /\ OnlyWhatWasAsked /\ PendingDataOnce /\ Fates
  BY DEF IInv
<1>1. UNCHANGED <<started, wanted, known, seen, pendUnknown, pendKnown, digests, asked,
                  answered>> /\ air' = air \ {m} /\ m.type = "Data"
  BY DEF HandleData
<1>2. m.requester \in Node /\ m.content \in Node
  BY <1>0 DEF TypeOK, Packet
<1>3. /\ p \in Pending /\ p.requester = m.requester /\ p.content = m.content
      /\ Key(p) = Key(m)
  BY <1>2 DEF NewPending, Pending, Key
<1> HIDE DEF p
<1>4. \/ pendData' = pendData
      \/ /\ \A q \in pendData[n] : q.requester # m.requester
         /\ pendData' = [pendData EXCEPT ![n] = @ \cup {p}]
  BY DEF HandleData, KeepData, p
<1>5. \A k \in Node : \A q \in pendData'[k] : q \in pendData[k] \/ (k = n /\ q = p)
  BY <1>0, <1>4 DEF TypeOK
<1>6. TypeOK'
  <2>1. pendData' \in [Node -> SUBSET Pending]
    BY <1>0, <1>3, <1>4 DEF TypeOK
  <2> QED BY <1>0, <1>1, <2>1 DEF TypeOK
<1>7. AskedOnce'
  BY <1>0, <1>1 DEF AskedOnce
<1>8. OnlyWhatWasAsked'
  <2>1. Key(m) \in asked /\ Key(m) \in seen[m.content]
    BY <1>0, <1>1 DEF OnlyWhatWasAsked
  <2>2. \A k \in Node : \A q \in pendData'[k] : Key(q) \in asked /\ Key(q) \in seen[q.content]
    BY <1>0, <1>3, <1>5, <2>1 DEF OnlyWhatWasAsked
  <2> QED BY <1>0, <1>1, <2>2 DEF OnlyWhatWasAsked, Key
<1>9. PendingDataOnce'
  BY <1>0, <1>3, <1>4 DEF PendingDataOnce, TypeOK
<1>10. Fates'
  <2>1. \A k \in Node : \A i \in Node \X Node : One(Ready(k, i)) => One(Ready(k, i)')
    <3> SUFFICES ASSUME NEW k \in Node, NEW i \in Node \X Node, One(Ready(k, i))
                 PROVE  One(Ready(k, i)')
      OBVIOUS
    <3>1. PICK q \in pendData[k] : Ready(k, i) = {q}
      BY DEF One, Ready
    <3>2. Key(q) = i
      BY <3>1 DEF Ready
    <3>3. k = n => ~(Key(p) = i /\ pendData' # pendData)
      BY <1>3, <1>4, <3>2 DEF Key
    <3>4. Ready(k, i)' = {q}
      BY <1>0, <1>4, <3>1, <3>3 DEF Ready, Key, TypeOK
    <3> QED BY <3>4 DEF One
  <2>2. \A k \in Node : \A i \in Node \X Node :
            Heard(k, i)' = Heard(k, i) /\ OnTheWay(k, i)' = OnTheWay(k, i)
    BY <1>1 DEF Heard, OnTheWay, Key
  <2> QED BY <1>0, <1>1, <2>1, <2>2, FatesKept
<1> QED BY <1>6, <1>7, <1>8, <1>9, <1>10 DEF IInv

LEMMA IgnoreInterestKeeps ==
    ASSUME IInv, NEW n \in Node, NEW m \in air, IgnoreInterest(n, m)
    PROVE  IInv'
<1>1. TypeOK'
  BY DEF IgnoreInterest, IInv, TypeOK
<1>2. AskedOnce' /\ OnlyWhatWasAsked' /\ PendingDataOnce'
  BY DEF IgnoreInterest, IInv, AskedOnce, OnlyWhatWasAsked, PendingDataOnce, Key
<1>3. Fates'
  BY DEF IgnoreInterest, IInv, Fates, Fate, Heard, OnTheWay, Ready, Key, One
<1> QED BY <1>1, <1>2, <1>3 DEF IInv

-----------------------------------------------------------------------------
(* A new interest *)

\* A provider that is asked has no DATA of that requester yet: the DATA would be
\* for the one interest of the requester, which it has not seen.
LEMMA NewToProvider ==
    ASSUME IInv, NEW n \in Node, NEW m \in air, m.content = n, Key(m) \notin seen[n]
    PROVE  \A q \in pendData[n] : q.requester # m.requester
<1> SUFFICES ASSUME NEW q \in pendData[n], q.requester = m.requester PROVE FALSE
  OBVIOUS
<1>1. Key(q) \in asked /\ Key(m) \in asked /\ Key(q) \in seen[q.content]
  BY DEF IInv, OnlyWhatWasAsked
<1>2. Key(q) = Key(m)
  BY <1>1 DEF IInv, AskedOnce, Key
<1> QED BY <1>1, <1>2 DEF Key

\* What HandleInterest adds to at most one of the three lists.
LEMMA InterestAdds ==
    ASSUME TypeOK, NEW n \in Node, NEW m \in air, HandleInterest(n, m),
           NEW p, p = NewPending(m.requester, m.content, FALSE)
    PROVE  \/ /\ n = m.content /\ answered' = answered \cup {Key(m)}
              /\ UNCHANGED <<pendUnknown, pendKnown, pendData>>
              /\ \A o \in air' : o \in air \/ o = DataPacket(n, m.from, m)
           \/ /\ n = m.content /\ UNCHANGED <<pendUnknown, pendKnown, answered>>
              /\ pendData' = [pendData EXCEPT ![n] = @ \cup {p}] /\ air' \subseteq air
           \/ /\ n # m.content /\ UNCHANGED <<pendUnknown, pendData, answered>>
              /\ pendKnown' = [pendKnown EXCEPT ![n] = @ \cup {p}] /\ air' \subseteq air
           \/ /\ n # m.content /\ UNCHANGED <<pendKnown, pendData, answered>>
              /\ pendUnknown' = [pendUnknown EXCEPT ![n] = @ \cup {p}] /\ air' \subseteq air
<1>1. CASE AnswerRequester(n, m)
  BY <1>1 DEF AnswerRequester, HasContent, SendSome, Key
<1>2. CASE KeepAnswer(n, m)
  BY <1>2 DEF KeepAnswer, HasContent
<1>3. CASE RelayToProvider(n, m)
  BY <1>3 DEF RelayToProvider, HasContent
<1>4. CASE RelayUpwards(n, m)
  BY <1>4 DEF RelayUpwards, HasContent
<1> QED BY <1>1, <1>2, <1>3, <1>4 DEF HandleInterest

LEMMA HandleInterestKeeps ==
    ASSUME IInv, NEW n \in Node, NEW m \in air, HandleInterest(n, m)
    PROVE  IInv'
<1>1. PICK p : p = NewPending(m.requester, m.content, FALSE)
  OBVIOUS
<1>0. TypeOK /\ AskedOnce /\ OnlyWhatWasAsked /\ PendingDataOnce /\ Fates
  BY DEF IInv
<1>2. /\ UNCHANGED <<started, wanted, known, digests, asked>>
      /\ Key(m) \notin seen[n]
      /\ seen' = [seen EXCEPT ![n] = @ \cup {Key(m)}]
  BY DEF HandleInterest, Key
<1>3. m.requester \in Node /\ m.content \in Node /\ m.from \in Node
  BY <1>0 DEF TypeOK, Packet
<1>4. /\ p \in Pending /\ p.requester = m.requester /\ p.content = m.content /\ ~p.own
      /\ Key(p) = Key(m) /\ Key(m) \in Node \X Node /\ Key(m)[2] = m.content
  BY <1>1, <1>3 DEF NewPending, Pending, Key
<1>5. \/ /\ n = m.content /\ answered' = answered \cup {Key(m)}
         /\ UNCHANGED <<pendUnknown, pendKnown, pendData>>
         /\ \A o \in air' : o \in air \/ o = DataPacket(n, m.from, m)
      \/ /\ n = m.content /\ UNCHANGED <<pendUnknown, pendKnown, answered>>
         /\ pendData' = [pendData EXCEPT ![n] = @ \cup {p}] /\ air' \subseteq air
      \/ /\ n # m.content /\ UNCHANGED <<pendUnknown, pendData, answered>>
         /\ pendKnown' = [pendKnown EXCEPT ![n] = @ \cup {p}] /\ air' \subseteq air
      \/ /\ n # m.content /\ UNCHANGED <<pendKnown, pendData, answered>>
         /\ pendUnknown' = [pendUnknown EXCEPT ![n] = @ \cup {p}] /\ air' \subseteq air
  BY <1>0, <1>1, InterestAdds
<1>6. \A k \in Node : seen[k] \subseteq seen'[k]
  BY <1>0, <1>2 DEF TypeOK
<1>7. /\ DataPacket(n, m.from, m) \in Packet
      /\ Key(DataPacket(n, m.from, m)) = Key(m)
      /\ DataPacket(n, m.from, m).content = m.content
  BY <1>3, PacketsType
<1>8. TypeOK'
  <2>1. seen' \in [Node -> SUBSET (Node \X Node)]
    BY <1>0, <1>2, <1>4 DEF TypeOK
  <2>2. air' \subseteq Packet /\ answered' \subseteq Node \X Node
    BY <1>0, <1>4, <1>5, <1>7 DEF TypeOK
  <2>3. pendData' \in [Node -> SUBSET Pending]
    BY <1>0, <1>4, <1>5 DEF TypeOK
  <2>4. pendKnown' \in [Node -> SUBSET Pending]
    BY <1>0, <1>4, <1>5 DEF TypeOK
  <2>5. pendUnknown' \in [Node -> SUBSET Pending]
    BY <1>0, <1>4, <1>5 DEF TypeOK
  <2> QED BY <1>0, <1>2, <2>1, <2>2, <2>3, <2>4, <2>5 DEF TypeOK
<1>9. AskedOnce'
  BY <1>0, <1>2 DEF AskedOnce
<1>10. OnlyWhatWasAsked'
  <2>1. Key(m) \in asked /\ Key(m) \in seen'[n]
    BY <1>0, <1>2 DEF OnlyWhatWasAsked, TypeOK
  <2>2. \A k \in Node : /\ \A q \in pendUnknown'[k] : q \in pendUnknown[k] \/ q = p
                        /\ \A q \in pendKnown'[k] : q \in pendKnown[k] \/ q = p
                        /\ \A q \in pendData'[k] : q \in pendData[k] \/ (q = p /\ n = m.content)
    BY <1>0, <1>5 DEF TypeOK
  <2>3. \A k \in Node : \A q \in pendUnknown'[k] \cup pendKnown'[k] \cup pendData'[k] :
            Key(q) \in asked
    BY <1>0, <1>4, <2>1, <2>2 DEF OnlyWhatWasAsked
  <2>4. \A k \in Node : \A q \in pendData'[k] : Key(q) \in seen'[q.content]
    <3> SUFFICES ASSUME NEW k \in Node, NEW q \in pendData'[k]
                 PROVE  Key(q) \in seen'[q.content]
      OBVIOUS
    <3>1. CASE q \in pendData[k]
      <4>1. Key(q) \in seen[q.content] /\ q.content \in Node
        BY <3>1, <1>0 DEF OnlyWhatWasAsked, TypeOK, Pending
      <4> QED BY <4>1, <1>6
    <3>2. CASE q = p /\ n = m.content
      BY <3>2, <1>4, <2>1
    <3> QED BY <2>2, <3>1, <3>2
  <2>5. \A o \in air' : Key(o) \in asked /\ (o.type = "Data" => Key(o) \in seen'[o.content])
    <3> SUFFICES ASSUME NEW o \in air'
                 PROVE  Key(o) \in asked /\ (o.type = "Data" => Key(o) \in seen'[o.content])
      OBVIOUS
    <3>1. CASE o \in air
      <4>1. /\ Key(o) \in asked /\ o.content \in Node
            /\ o.type = "Data" => Key(o) \in seen[o.content]
        BY <3>1, <1>0 DEF OnlyWhatWasAsked, TypeOK, Packet
      <4> QED BY <4>1, <1>6
    <3>2. CASE o = DataPacket(n, m.from, m) /\ n = m.content
      BY <3>2, <1>7, <2>1
    <3> QED BY <1>5, <3>1, <3>2
  <2> QED BY <1>2, <2>3, <2>4, <2>5 DEF OnlyWhatWasAsked, Key
<1>11. PendingDataOnce'
  <2>1. n = m.content => \A q \in pendData[n] : q.requester # m.requester
    BY <1>2, NewToProvider
  <2> QED BY <1>0, <1>4, <1>5, <2>1 DEF PendingDataOnce, TypeOK
<1>12. Fates'
  <2> SUFFICES ASSUME NEW k \in Node, NEW i \in Node \X Node PROVE Fate(k, i)'
    BY DEF Fates
  <2>0. Fate(k, i)
    BY <1>0 DEF Fates
  <2>1. CASE k = n /\ i = Key(m)
    <3>1. Heard(n, i) = {} /\ OnTheWay(n, i) = {} /\ i \in seen'[n]
      BY <2>0, <2>1, <1>0, <1>2 DEF Fate, TypeOK
    <3>2. CASE n = m.content
      <4>1. CASE answered' = answered \cup {Key(m)}
        BY <3>1, <3>2, <4>1, <2>1, <1>4 DEF Fate
      <4>2. CASE pendData' = [pendData EXCEPT ![n] = @ \cup {p}]
        <5>1. Ready(n, i)' = {p}
          <6>1. \A q \in pendData[n] : Key(q) # i
            BY <3>2, <2>1, <1>2, NewToProvider, <1>3 DEF Key
          <6>2. pendData'[n] = pendData[n] \cup {p}
            BY <4>2, <1>0 DEF TypeOK
          <6> QED BY <6>1, <6>2, <2>1, <1>4 DEF Ready, Key
        <5> QED BY <3>1, <3>2, <5>1, <2>1, <1>4 DEF Fate, One
      <4> QED BY <3>2, <4>1, <4>2, <1>5
    <3>3. CASE n # m.content
      <4>1. CASE UNCHANGED pendUnknown /\ pendKnown' = [pendKnown EXCEPT ![n] = @ \cup {p}]
        <5>1. pendKnown'[n] = pendKnown[n] \cup {p}
          BY <4>1, <1>0 DEF TypeOK
        <5>2. OnTheWay(n, i)' = {p} /\ Heard(n, i)' = {}
          BY <5>1, <4>1, <3>1, <2>1, <1>4 DEF OnTheWay, Heard, Key
        <5> QED BY <5>2, <3>1, <3>3, <2>1, <1>4 DEF Fate, One
      <4>2. CASE UNCHANGED pendKnown /\ pendUnknown' = [pendUnknown EXCEPT ![n] = @ \cup {p}]
        <5>1. pendUnknown'[n] = pendUnknown[n] \cup {p}
          BY <4>2, <1>0 DEF TypeOK
        <5>2. Heard(n, i)' = {p} /\ OnTheWay(n, i)' = {}
          BY <5>1, <4>2, <3>1, <2>1, <1>4 DEF OnTheWay, Heard, Key
        <5> QED BY <5>2, <3>1, <3>3, <2>1, <1>4 DEF Fate, One
      <4> QED BY <3>3, <4>1, <4>2, <1>5
    <3> QED BY <3>2, <3>3
  <2>2. CASE ~(k = n /\ i = Key(m))
    <3>1. (i \in seen'[k] <=> i \in seen[k]) /\ answered \subseteq answered'
      BY <2>2, <1>0, <1>2, <1>5 DEF TypeOK
    <3>2. Heard(k, i)' = Heard(k, i)
      BY <2>2, <1>0, <1>4, <1>5 DEF TypeOK, Heard, Key
    <3>3. OnTheWay(k, i)' = OnTheWay(k, i)
      BY <2>2, <1>0, <1>4, <1>5 DEF TypeOK, OnTheWay, Key
    <3>4. Ready(k, i)' = Ready(k, i)
      BY <2>2, <1>0, <1>4, <1>5 DEF TypeOK, Ready, Key
    <3> QED BY <2>0, <3>1, <3>2, <3>3, <3>4, FateKept
  <2> QED BY <2>1, <2>2
<1> QED BY <1>8, <1>9, <1>10, <1>11, <1>12 DEF IInv

LEMMA StutterKeeps == IInv /\ UNCHANGED vars => IInv'
<1> SUFFICES ASSUME IInv, UNCHANGED vars PROVE IInv'
  OBVIOUS
<1>1. UNCHANGED <<started, wanted, known, seen, pendUnknown, pendKnown, pendData,
                  air, digests, asked, answered>>
  BY DEF vars
<1>2. TypeOK' /\ AskedOnce'
  BY <1>1 DEF IInv, TypeOK, AskedOnce
<1>3. OnlyWhatWasAsked'
  BY <1>1 DEF IInv, OnlyWhatWasAsked, Key
<1>4. PendingDataOnce'
  BY <1>1 DEF IInv, PendingDataOnce
<1>5. Fates'
  <2> SUFFICES ASSUME NEW k \in Node, NEW i \in Node \X Node PROVE Fate(k, i)'
    BY DEF Fates
  <2>1. Fate(k, i)
    BY DEF IInv, Fates
  <2>2. /\ Heard(k, i)' = Heard(k, i) /\ OnTheWay(k, i)' = OnTheWay(k, i)
        /\ Ready(k, i)' = Ready(k, i)
    BY <1>1 DEF Heard, OnTheWay, Ready, Key
  <2> QED BY <1>1, <2>1, <2>2, FateKept
<1> QED BY <1>2, <1>3, <1>4, <1>5 DEF IInv

\* Every reachable state of the content relay satisfies the inductive invariant.
THEOREM Invariance == Spec => []IInv
<1>1. Init => IInv
  BY InitIInv
<1>2. IInv /\ [Next]_vars => IInv'
  <2> SUFFICES ASSUME IInv, [Next]_vars PROVE IInv'
    OBVIOUS
  <2>1. CASE UNCHANGED vars
    BY <2>1, StutterKeeps
  <2>2. CASE Next
    <3>1. PICK n \in Node :
             \/ \E content \in Node : RequestContent(n, content)
             \/ StartApplication(n)
             \/ \E encounter \in Node : HandleHello(n, encounter)
             \/ \E d \in digests : HandleDigest(n, d)
             \/ \E m \in air : HandleData(n, m) \/ HandleInterest(n, m) \/ IgnoreInterest(n, m)
      BY <2>2 DEF Next
    <3> QED BY <3>1, RequestContentKeeps, StartApplicationKeeps, HandleHelloKeeps,
               HandleDigestKeeps, HandleDataKeeps, HandleInterestKeeps, IgnoreInterestKeeps
  <2> QED BY <2>1, <2>2
<1> QED BY <1>1, <1>2, PTL DEF Spec

-----------------------------------------------------------------------------

\* Every variable of the content relay keeps its type.
THEOREM TypeCorrect == Spec => []TypeOK
  BY Invariance, PTL DEF IInv

\* PendingDataEntry: two entries of one requester never wait at one node, whether
\* HandleData or the provider's own handler kept them.
THEOREM DataKeptOnce == Spec => []PendingDataOnce
  BY Invariance, PTL DEF IInv

\* Interests and DATA in the lists and in the air go back to an interest that
\* StartApplication issued, and DATA to a provider that was asked.
THEOREM NothingUnasked == Spec => []OnlyWhatWasAsked
  BY Invariance, PTL DEF IInv

\* An interest that a node has seen keeps one fate there, however often it comes
\* again, whatever DIGEST arrives in between and whomever the node meets.
THEOREM SeenOnceServedOnce == Spec => []SeenHasOneFate
<1>1. \A S : One(S) => Cardinality(S) = 1
  BY FS_Singleton DEF One
<1>2. Cardinality({}) = 0
  BY FS_EmptySet
<1>3. IInv => SeenHasOneFate
  <2> SUFFICES ASSUME IInv, NEW n \in Node, NEW i \in seen[n]
               PROVE  IF n = i[2] THEN i \in answered \/ Cardinality(Ready(n, i)) = 1
                      ELSE Cardinality(Heard(n, i)) + Cardinality(OnTheWay(n, i)) = 1
    BY DEF SeenHasOneFate
  <2>1. i \in Node \X Node
    BY DEF IInv, TypeOK
  <2>2. Fate(n, i)
    BY <2>1 DEF IInv, Fates
  <2> QED BY <2>2, <1>1, <1>2 DEF Fate
<1> QED BY <1>3, Invariance, PTL

-----------------------------------------------------------------------------
(* The refinement *)

\* The fates as InterestService sees them, and, under the invariant, when an
\* interest i has the fate k at n.
Settlements == UNION {FatesAt(n) : n \in Node}

Holds(n, i, k) ==
    \/ k = "upwards" /\ n # i[2] /\ Heard(n, i) # {}
    \/ k = "to provider" /\ n # i[2] /\ OnTheWay(n, i) # {}
    \/ k = "kept" /\ n = i[2] /\ i \in seen[n] /\ i \notin answered
    \/ k = "answered" /\ n = i[2] /\ i \in answered

\* Whoever answered has seen the interest.
AnsweredSeen == \A i \in answered : i \in seen[i[2]]

SInv == IInv /\ AnsweredSeen

LEMMA KeysType ==
    ASSUME TypeOK, NEW n \in Node,
           NEW p \in pendUnknown[n] \cup pendKnown[n] \cup pendData[n]
    PROVE  Key(p) \in Node \X Node /\ Key(p)[2] = p.content
<1>1. p \in Pending
  BY DEF TypeOK
<1> QED BY <1>1 DEF Pending, Key

\* Keeping DATA and having seen the interest without an answer are one for its
\* provider.
LEMMA KeptIsSeen ==
    ASSUME IInv, NEW n \in Node, NEW i \in Node \X Node, n = i[2], i \notin answered
    PROVE  i \in seen[n] <=> Ready(n, i) # {}
<1>1. ASSUME i \in seen[n] PROVE Ready(n, i) # {}
  BY <1>1 DEF IInv, Fates, Fate, One
<1>2. ASSUME Ready(n, i) # {} PROVE i \in seen[n]
  <2>1. PICK p \in pendData[n] : Key(p) = i
    BY <1>2 DEF Ready
  <2>2. p.content = n
    BY <2>1, KeysType DEF IInv
  <2> QED BY <2>1, <2>2 DEF IInv, OnlyWhatWasAsked
<1> QED BY <1>1, <1>2

LEMMA HoldsAt ==
    ASSUME IInv, NEW n \in Node, NEW f
    PROVE  f \in FatesAt(n) <=>
              \E i \in Node \X Node : \E k : Holds(n, i, k) /\ f = Fated(n, i, k)
<1> DEFINE Up == {Fated(n, Key(p), "upwards") :
                    p \in {q \in pendUnknown[n] : ~q.own /\ q.content # n}}
           To == {Fated(n, Key(p), "to provider") :
                    p \in {q \in pendKnown[n] : q.content # n}}
           Kept == {Fated(n, Key(p), "kept") :
                      p \in {q \in pendData[n] : q.content = n /\ Key(q) \notin answered}}
           Done == {Fated(n, i, "answered") : i \in {j \in answered : j[2] = n}}
<1>0. TypeOK
  BY DEF IInv
<1>1. f \in Up <=> \E i \in Node \X Node : /\ n # i[2] /\ Heard(n, i) # {}
                                           /\ f = Fated(n, i, "upwards")
  BY <1>0, KeysType DEF Heard
<1>2. f \in To <=> \E i \in Node \X Node : /\ n # i[2] /\ OnTheWay(n, i) # {}
                                           /\ f = Fated(n, i, "to provider")
  BY <1>0, KeysType DEF OnTheWay
<1>3. f \in Kept <=> \E i \in Node \X Node : /\ n = i[2] /\ i \in seen[n] /\ i \notin answered
                                             /\ f = Fated(n, i, "kept")
  <2>1. f \in Kept <=> \E i \in Node \X Node : /\ n = i[2] /\ Ready(n, i) # {}
                                               /\ i \notin answered
                                               /\ f = Fated(n, i, "kept")
    BY <1>0, KeysType DEF Ready
  <2> HIDE DEF Kept
  <2> QED BY <2>1, KeptIsSeen
<1>4. f \in Done <=> \E i \in Node \X Node : /\ n = i[2] /\ i \in answered
                                             /\ f = Fated(n, i, "answered")
  BY <1>0 DEF TypeOK
<1>5. FatesAt(n) = Up \cup To \cup Kept \cup Done
  BY DEF FatesAt
<1> HIDE DEF Up, To, Kept, Done
<1> QED BY <1>1, <1>2, <1>3, <1>4, <1>5 DEF Holds

LEMMA Settled ==
    IInv => \A f : f \in Settlements <=>
                \E n \in Node, i \in Node \X Node : \E k : Holds(n, i, k) /\ f = Fated(n, i, k)
  BY HoldsAt DEF Settlements

LEMMA SettledPrime ==
    IInv' => \A f : f \in Settlements' <=>
                \E n \in Node, i \in Node \X Node : \E k : Holds(n, i, k)' /\ f = Fated(n, i, k)
<1>1. (IInv => \A f : f \in Settlements <=>
         \E n \in Node, i \in Node \X Node : \E k : Holds(n, i, k) /\ f = Fated(n, i, k))'
  BY Settled, PTL
<1> QED BY <1>1 DEF Fated

\* Steps that show a node nothing new change no fate.
LEMMA SettlementsKept ==
    ASSUME IInv, IInv', seen' = seen, answered' = answered,
           \A n \in Node : \A i \in Node \X Node :
              n # i[2] => /\ Heard(n, i)' = {} <=> Heard(n, i) = {}
                          /\ OnTheWay(n, i)' = {} <=> OnTheWay(n, i) = {}
    PROVE  Settlements' = Settlements
<1>1. ASSUME NEW n \in Node, NEW i \in Node \X Node, NEW k
      PROVE  Holds(n, i, k)' <=> Holds(n, i, k)
  <2>1. (n # i[2] /\ Heard(n, i) # {})' <=> n # i[2] /\ Heard(n, i) # {}
    BY <1>1
  <2>2. (n # i[2] /\ OnTheWay(n, i) # {})' <=> n # i[2] /\ OnTheWay(n, i) # {}
    BY <1>1
  <2> QED BY <2>1, <2>2 DEF Holds
<1>2. \A f : f \in Settlements' <=> f \in Settlements
  BY <1>1, Settled, SettledPrime
<1> QED BY <1>2

LEMMA EncounterSettles ==
    ASSUME IInv, IInv', NEW n \in Node, NEW encounter \in Node, HandleHello(n, encounter)
    PROVE  Settlements' = Settlements
<1>1. PICK s \in Standings :
          /\ pendData' = [pendData EXCEPT ![n] = Relayed(s, "data", n, encounter, @)]
          /\ pendKnown' = [pendKnown EXCEPT ![n] = Relayed(s, "known", n, encounter, @)]
          /\ pendUnknown' = [pendUnknown EXCEPT ![n] = Relayed(s, "unknown", n, encounter, @)]
  BY DEF HandleHello
<1>2. seen' = seen /\ answered' = answered
  BY DEF HandleHello
<1>3. ASSUME NEW k \in Node, NEW i \in Node \X Node, k # i[2]
      PROVE  /\ Heard(k, i)' = {} <=> Heard(k, i) = {}
             /\ OnTheWay(k, i)' = {} <=> OnTheWay(k, i) = {}
  <2>1. /\ Heard(k, i) = {} => Heard(k, i)' = {}
        /\ OnTheWay(k, i) = {} => OnTheWay(k, i)' = {}
        /\ One(Heard(k, i)) => One(Heard(k, i)')
        /\ One(OnTheWay(k, i)) => One(OnTheWay(k, i)')
    BY <1>1, EncounterKeepsEntries DEF IInv
  <2>2. /\ Heard(k, i) = {} \/ One(Heard(k, i))
        /\ OnTheWay(k, i) = {} \/ One(OnTheWay(k, i))
    BY <1>3 DEF IInv, Fates, Fate
  <2> QED BY <2>1, <2>2 DEF One
<1> QED BY <1>2, <1>3, SettlementsKept

LEMMA StartIssues ==
    ASSUME IInv, IInv', NEW n \in Node, StartApplication(n)
    PROVE  Service!Next \/ UNCHANGED <<asked, Settlements>>
<1> DEFINE p == NewPending(n, wanted[n], TRUE)
<1>1. p.own
  BY DEF NewPending
<1> HIDE DEF p
<1>2. /\ UNCHANGED <<seen, pendKnown, answered>>
      /\ \/ pendUnknown' = pendUnknown /\ asked' = asked
         \/ /\ HasRequest(n)
            /\ pendUnknown' = [pendUnknown EXCEPT ![n] = @ \cup {p}]
            /\ asked' = asked \cup {<<n, wanted[n]>>}
  BY DEF StartApplication, p
<1>3. \A k \in Node : \A q : ~q.own => (q \in pendUnknown'[k] <=> q \in pendUnknown[k])
  BY <1>1, <1>2 DEF IInv, TypeOK
<1>4. \A k \in Node : \A i \in Node \X Node :
          Heard(k, i)' = Heard(k, i) /\ OnTheWay(k, i)' = OnTheWay(k, i)
  BY <1>2, <1>3 DEF Heard, OnTheWay, Key
<1>5. Settlements' = Settlements
  BY <1>2, <1>4, SettlementsKept
<1>6. CASE asked' = asked
  BY <1>5, <1>6
<1>7. CASE HasRequest(n) /\ asked' = asked \cup {<<n, wanted[n]>>}
  <2>1. wanted[n] \in Node
    BY <1>7 DEF HasRequest, IInv, TypeOK
  <2>2. \A i \in asked : i[1] # n
    BY DEF StartApplication, IInv, AskedOnce
  <2>3. Service!Issue(n, wanted[n])
    BY <1>5, <1>7, <2>2 DEF Service!Issue, Settlements
  <2> QED BY <2>1, <2>3 DEF Service!Next
<1> QED BY <1>2, <1>6, <1>7

\* A new interest gets its fate at the node, and nothing else changes.
LEMMA InterestDecides ==
    ASSUME SInv, IInv', NEW n \in Node, NEW m \in air, HandleInterest(n, m)
    PROVE  Service!Next
<1>1. PICK i : i = Key(m)
  OBVIOUS
<1>2. /\ m.requester \in Node /\ m.content \in Node
      /\ i \in Node \X Node /\ i[2] = m.content /\ i \in asked
  <2>1. m.requester \in Node /\ m.content \in Node
    BY DEF SInv, IInv, TypeOK, Packet
  <2> QED BY <1>1, <2>1 DEF Key, SInv, IInv, OnlyWhatWasAsked
<1>3. /\ i \notin seen[n] /\ asked' = asked
      /\ seen' = [seen EXCEPT ![n] = @ \cup {i}]
  BY <1>1 DEF HandleInterest, Key
<1>4. Heard(n, i) = {} /\ OnTheWay(n, i) = {} /\ (n = i[2] => i \notin answered)
  BY <1>2, <1>3 DEF SInv, IInv, Fates, Fate, AnsweredSeen
<1>5. PICK p : p = NewPending(m.requester, m.content, FALSE)
  OBVIOUS
<1>6. Key(p) = i /\ ~p.own
  BY <1>1, <1>5 DEF NewPending, Key
<1>7. \/ /\ n = i[2] /\ answered' = answered \cup {i}
         /\ UNCHANGED <<pendUnknown, pendKnown>>
      \/ n = i[2] /\ UNCHANGED <<pendUnknown, pendKnown, answered>>
      \/ /\ n # i[2] /\ UNCHANGED <<pendUnknown, answered>>
         /\ pendKnown' = [pendKnown EXCEPT ![n] = @ \cup {p}]
      \/ /\ n # i[2] /\ UNCHANGED <<pendKnown, answered>>
         /\ pendUnknown' = [pendUnknown EXCEPT ![n] = @ \cup {p}]
  <2>1. TypeOK
    BY DEF SInv, IInv
  <2>2. \/ /\ n = m.content /\ answered' = answered \cup {Key(m)}
           /\ UNCHANGED <<pendUnknown, pendKnown>>
        \/ n = m.content /\ UNCHANGED <<pendUnknown, pendKnown, answered>>
        \/ /\ n # m.content /\ UNCHANGED <<pendUnknown, answered>>
           /\ pendKnown' = [pendKnown EXCEPT ![n] = @ \cup {p}]
        \/ /\ n # m.content /\ UNCHANGED <<pendKnown, answered>>
           /\ pendUnknown' = [pendUnknown EXCEPT ![n] = @ \cup {p}]
    BY <1>5, <2>1, InterestAdds
  <2> QED BY <1>1, <1>2, <2>2
<1>8. ASSUME NEW k \in Node, NEW j \in Node \X Node, ~(k = n /\ j = i), NEW fate
      PROVE  Holds(k, j, fate)' <=> Holds(k, j, fate)
  <2>1. Heard(k, j)' = Heard(k, j) /\ OnTheWay(k, j)' = OnTheWay(k, j)
    <3>1. Heard(k, j)' = Heard(k, j)
      BY <1>6, <1>7, <1>8 DEF SInv, IInv, TypeOK, Heard, Key
    <3>2. OnTheWay(k, j)' = OnTheWay(k, j)
      BY <1>6, <1>7, <1>8 DEF SInv, IInv, TypeOK, OnTheWay, Key
    <3> QED BY <3>1, <3>2
  <2>2. j \in seen'[k] <=> j \in seen[k]
    BY <1>3, <1>8 DEF SInv, IInv, TypeOK
  <2>3. k = j[2] => (j \in answered' <=> j \in answered)
    BY <1>7, <1>8
  <2> QED BY <2>1, <2>2, <2>3 DEF Holds
<1>9. PICK fate \in Service!Choices(n, i) : \A k : Holds(n, i, k)' <=> k = fate
  <2>1. i \in seen'[n]
    BY <1>3 DEF SInv, IInv, TypeOK
  <2>2. CASE n = i[2] /\ i \in answered'
    BY <2>1, <2>2 DEF Holds, Service!Choices
  <2>3. CASE n = i[2] /\ i \notin answered'
    BY <2>1, <2>3 DEF Holds, Service!Choices
  <2>4. CASE n # i[2] /\ UNCHANGED pendUnknown /\ pendKnown' = [pendKnown EXCEPT ![n] = @ \cup {p}]
    <3>1. p \in pendKnown'[n]
      BY <2>4 DEF SInv, IInv, TypeOK
    <3>2. OnTheWay(n, i)' # {} /\ Heard(n, i)' = {}
      BY <1>4, <1>6, <2>4, <3>1 DEF OnTheWay, Heard, Key
    <3> QED BY <2>4, <3>2 DEF Holds, Service!Choices
  <2>5. CASE n # i[2] /\ UNCHANGED pendKnown /\ pendUnknown' = [pendUnknown EXCEPT ![n] = @ \cup {p}]
    <3>1. p \in pendUnknown'[n]
      BY <2>5 DEF SInv, IInv, TypeOK
    <3>2. Heard(n, i)' # {} /\ OnTheWay(n, i)' = {}
      BY <1>4, <1>6, <2>5, <3>1 DEF OnTheWay, Heard, Key
    <3> QED BY <2>5, <3>2 DEF Holds, Service!Choices
  <2> QED BY <1>7, <2>2, <2>3, <2>4, <2>5
<1>10. \A k : ~Holds(n, i, k)
  BY <1>3, <1>4 DEF Holds
<1>11. Settlements' = Settlements \cup {Fated(n, i, fate)}
  <2>1. \A f : f \in Settlements' <=> f \in Settlements \/ f = Fated(n, i, fate)
    BY <1>2, <1>8, <1>9, <1>10, Settled, SettledPrime DEF SInv
  <2> QED BY <2>1
<1>12. \A f \in Settlements : ~(f.node = n /\ f.interest = i)
  BY <1>10, Settled DEF SInv, Fated
<1>13. Service!Decide(n, i)
  BY <1>3, <1>9, <1>11, <1>12 DEF Service!Decide, Settlements, Fated
<1> QED BY <1>2, <1>13 DEF Service!Next

\* Every step of the relay is one of InterestService, or none.
LEMMA StepService ==
    SInv /\ IInv' /\ [Next]_vars => Service!Next \/ UNCHANGED <<asked, Settlements>>
<1> SUFFICES ASSUME SInv, IInv', [Next]_vars
             PROVE  Service!Next \/ UNCHANGED <<asked, Settlements>>
  OBVIOUS
<1>1. ASSUME UNCHANGED <<seen, answered, pendUnknown, pendKnown>>
      PROVE  Settlements' = Settlements
  <2>1. \A k \in Node : \A i \in Node \X Node :
           Heard(k, i)' = Heard(k, i) /\ OnTheWay(k, i)' = OnTheWay(k, i)
    BY <1>1 DEF Heard, OnTheWay, Key
  <2> QED BY <1>1, <2>1, SettlementsKept DEF SInv
<1>2. ASSUME NEW n \in Node,
             \/ \E content \in Node : RequestContent(n, content)
             \/ \E d \in digests : HandleDigest(n, d)
             \/ \E m \in air : HandleData(n, m) \/ IgnoreInterest(n, m)
      PROVE  UNCHANGED <<asked, seen, answered, pendUnknown, pendKnown>>
  BY <1>2 DEF RequestContent, HandleDigest, HandleData, IgnoreInterest
<1>3. ASSUME NEW n \in Node, NEW encounter \in Node, HandleHello(n, encounter)
      PROVE  UNCHANGED <<asked, Settlements>>
  BY <1>3, EncounterSettles DEF SInv, HandleHello
<1>4. CASE UNCHANGED vars
  BY <1>1, <1>4 DEF vars
<1>5. CASE Next
  BY <1>1, <1>2, <1>3, <1>5, StartIssues, InterestDecides DEF SInv, Next
<1> QED BY <1>4, <1>5

LEMMA AnsweredSeenStep == IInv /\ AnsweredSeen /\ [Next]_vars => AnsweredSeen'
<1> SUFFICES ASSUME IInv, AnsweredSeen, [Next]_vars PROVE AnsweredSeen'
  OBVIOUS
<1>1. ASSUME UNCHANGED <<seen, answered>> PROVE AnsweredSeen'
  BY <1>1 DEF AnsweredSeen
<1>2. ASSUME NEW n \in Node, NEW m \in air, HandleInterest(n, m) PROVE AnsweredSeen'
  <2>1. PICK p : p = NewPending(m.requester, m.content, FALSE)
    OBVIOUS
  <2>2. answered' = answered \/ (n = m.content /\ answered' = answered \cup {Key(m)})
    BY <1>2, <2>1, InterestAdds DEF IInv
  <2>3. seen' = [seen EXCEPT ![n] = @ \cup {Key(m)}] /\ Key(m)[2] = m.content
    BY <1>2 DEF HandleInterest, Key
  <2>4. \A i \in answered : i[2] \in Node
    BY DEF IInv, TypeOK
  <2> QED BY <2>2, <2>3, <2>4 DEF AnsweredSeen, IInv, TypeOK
<1>3. ASSUME NEW n \in Node,
             \/ \E content \in Node : RequestContent(n, content)
             \/ StartApplication(n)
             \/ \E encounter \in Node : HandleHello(n, encounter)
             \/ \E d \in digests : HandleDigest(n, d)
             \/ \E m \in air : HandleData(n, m) \/ IgnoreInterest(n, m)
      PROVE  UNCHANGED <<seen, answered>>
  BY <1>3 DEF RequestContent, StartApplication, HandleHello, HandleDigest, HandleData,
     IgnoreInterest
<1>4. CASE UNCHANGED vars
  BY <1>1, <1>4 DEF vars
<1>5. CASE Next
  BY <1>1, <1>2, <1>3, <1>5 DEF Next
<1> QED BY <1>4, <1>5

\* The content relay implements InterestService: what a node decided of an interest
\* stays, for any nodes, rankings, loads, losses and delays.
THEOREM RelayRefinesService == Spec => FatesAreFinal
<1>1. Init => Service!Init /\ AnsweredSeen
  <2> SUFFICES ASSUME Init PROVE Service!Init /\ AnsweredSeen
    OBVIOUS
  <2>1. \A n \in Node : FatesAt(n) = {}
    BY DEF Init, FatesAt
  <2> QED BY <2>1 DEF Init, Service!Init, AnsweredSeen
<1>2. IInv /\ AnsweredSeen /\ IInv' /\ [Next]_vars
         => [Service!Next]_<<asked, UNION {FatesAt(n) : n \in Node}>> /\ AnsweredSeen'
  BY StepService, AnsweredSeenStep DEF SInv, Settlements
<1> QED BY <1>1, <1>2, Invariance, PTL DEF Spec, FatesAreFinal, Service!Spec

-----------------------------------------------------------------------------
(* Rankings that have settled *)

SettledRankings == \A s, t \in Standings : s = t

\* No node changes its mind, as none does that calls RequestContent once.
OneRequestEach == \A r, q \in Requests : r[1] = q[1] => r = q

\* What a step does to the DATA kept: it is new for its requester, or was there
\* and kept its relay or went on to a better one.
LEMMA DataSteps ==
    ASSUME IInv, [Next]_vars, NEW n \in Node, NEW q \in pendData'[n]
    PROVE  \/ q \in pendData[n]
           \/ \E p \in pendData[n], encounter \in Node \ {n}, s \in Standings :
                 /\ q = [p EXCEPT !.relay = encounter]
                 /\ Climbs(s, p.requester, n, encounter, p)
           \/ /\ \A p \in pendData[n] : p.requester # q.requester
              /\ \E m \in air :
                    /\ q = NewPending(m.requester, m.content, FALSE)
                    /\ n = m.content \/ (HandleData(n, m) /\ wanted[n] # m.content)
<1>1. ASSUME NEW k \in Node, NEW encounter \in Node, HandleHello(k, encounter)
      PROVE  \/ q \in pendData[n]
             \/ \E p \in pendData[n], e \in Node \ {n}, s \in Standings :
                   q = [p EXCEPT !.relay = e] /\ Climbs(s, p.requester, n, e, p)
  <2>1. PICK s \in Standings :
           pendData' = [pendData EXCEPT ![k] = Relayed(s, "data", k, encounter, @)]
    BY <1>1 DEF HandleHello
  <2>2. encounter # k
    BY <1>1 DEF HandleHello
  <2>3. CASE n # k
    BY <2>1, <2>3 DEF IInv, TypeOK
  <2>4. CASE n = k
    <3>1. q \in Relayed(s, "data", n, encounter, pendData[n])
      BY <2>1, <2>4 DEF IInv, TypeOK
    <3>2. PICK p \in pendData[n] : q = Moved(s, "data", n, encounter, p)
      BY <3>1, RelayedIsImage
    <3>3. Rank("data", p) = p.requester
      BY DEF Rank
    <3> QED BY <2>2, <2>4, <3>2, <3>3 DEF Moved
  <2> QED BY <2>3, <2>4
<1>2. ASSUME NEW k \in Node, NEW m \in air, HandleData(k, m)
      PROVE  \/ q \in pendData[n]
             \/ /\ \A p \in pendData[n] : p.requester # q.requester
                /\ q = NewPending(m.requester, m.content, FALSE)
                /\ HandleData(n, m) /\ wanted[n] # m.content
  <2>1. PICK r : r = NewPending(m.requester, m.content, FALSE)
    OBVIOUS
  <2>2. \/ pendData' = pendData
        \/ /\ \A p \in pendData[k] : p.requester # m.requester
           /\ wanted[k] # m.content
           /\ pendData' = [pendData EXCEPT ![k] = @ \cup {r}]
    BY <1>2, <2>1 DEF HandleData, KeepData
  <2>3. r.requester = m.requester
    BY <2>1 DEF NewPending
  <2>4. q \in pendData[n] \/ (n = k /\ q = r /\ wanted[k] # m.content
                               /\ \A p \in pendData[k] : p.requester # m.requester)
    BY <2>2 DEF IInv, TypeOK
  <2> QED BY <1>2, <2>1, <2>3, <2>4
<1>3. ASSUME NEW k \in Node, NEW m \in air, HandleInterest(k, m)
      PROVE  \/ q \in pendData[n]
             \/ /\ \A p \in pendData[n] : p.requester # q.requester
                /\ q = NewPending(m.requester, m.content, FALSE)
                /\ n = m.content
  <2>1. PICK r : r = NewPending(m.requester, m.content, FALSE)
    OBVIOUS
  <2>2. \/ pendData' = pendData
        \/ k = m.content /\ pendData' = [pendData EXCEPT ![k] = @ \cup {r}]
    BY <1>3, <2>1, InterestAdds DEF IInv
  <2>3. k = m.content => \A p \in pendData[k] : p.requester # m.requester
    BY <1>3, NewToProvider DEF HandleInterest, Key
  <2>4. r.requester = m.requester
    BY <2>1 DEF NewPending
  <2>5. q \in pendData[n] \/ (n = k /\ q = r /\ k = m.content)
    BY <2>2 DEF IInv, TypeOK
  <2> QED BY <2>1, <2>3, <2>4, <2>5
<1>4. ASSUME UNCHANGED pendData PROVE q \in pendData[n]
  BY <1>4
<1> QED
  <2>1. CASE UNCHANGED vars
    BY <2>1, <1>4 DEF vars
  <2>2. CASE Next
    <3>1. PICK k \in Node :
             \/ \E content \in Node : RequestContent(k, content)
             \/ StartApplication(k)
             \/ \E encounter \in Node : HandleHello(k, encounter)
             \/ \E d \in digests : HandleDigest(k, d)
             \/ \E m \in air : HandleData(k, m) \/ HandleInterest(k, m) \/ IgnoreInterest(k, m)
      BY <2>2 DEF Next
    <3>2. (\E content \in Node : RequestContent(k, content)) \/ StartApplication(k)
             \/ (\E d \in digests : HandleDigest(k, d)) \/ (\E m \in air : IgnoreInterest(k, m))
             => UNCHANGED pendData
      BY DEF RequestContent, StartApplication, HandleDigest, IgnoreInterest
    <3> QED BY <3>1, <3>2, <1>1, <1>2, <1>3, <1>4
  <2> QED BY <2>1, <2>2

\* A requester waits for what it asked for, as long as nobody changes their mind.
MindKept ==
    /\ \A n \in Node : wanted[n] # NoNode => <<n, wanted[n]>> \in Requests
    /\ \A i \in asked : wanted[i[1]] = i[2]

\* DataClimbs of one entry, under one ranking.
ClimbsAt(n, p, s) ==
    /\ n # p.content => s[p.requester][n] > s[p.requester][p.content]
    /\ p.relay # NoNode => s[p.requester][p.relay] > s[p.requester][n]

\* DATA under way to a relay goes up from its provider.
DataRises ==
    \A m \in air : m.type = "Data" /\ m.to # m.requester /\ m.to # m.content =>
        \A s \in Standings : s[m.requester][m.to] > s[m.requester][m.content]

LEMMA MindKeptStep ==
    ASSUME OneRequestEach, IInv, MindKept, [Next]_vars
    PROVE  MindKept'
<1>1. ASSUME NEW n \in Node, NEW content \in Node, RequestContent(n, content)
      PROVE  MindKept'
  <2>1. wanted[n] = NoNode
    BY <1>1 DEF RequestContent, MindKept, OneRequestEach
  <2>2. \A i \in asked : i[1] \in Node /\ i[2] \in Node
    BY DEF IInv, TypeOK
  <2>3. \A i \in asked : i[1] # n
    BY <2>1, <2>2, RelayAssumption DEF MindKept
  <2> QED BY <1>1, <2>3 DEF RequestContent, MindKept, IInv, TypeOK
<1>2. ASSUME NEW n \in Node, StartApplication(n)
      PROVE  MindKept'
  <2>1. \A i \in asked' : i \in asked \/ i = <<n, wanted[n]>>
    BY <1>2 DEF StartApplication
  <2>2. wanted' = wanted
    BY <1>2 DEF StartApplication
  <2> QED BY <2>1, <2>2 DEF MindKept
<1>3. ASSUME UNCHANGED <<wanted, asked>>
      PROVE  MindKept'
  BY <1>3 DEF MindKept
<1>4. ASSUME NEW n \in Node, NEW encounter \in Node, HandleHello(n, encounter)
      PROVE  UNCHANGED <<wanted, asked>>
  BY <1>4 DEF HandleHello
<1>5. ASSUME NEW n \in Node, NEW d \in digests, HandleDigest(n, d)
      PROVE  UNCHANGED <<wanted, asked>>
  BY <1>5 DEF HandleDigest
<1>6. ASSUME NEW n \in Node, NEW m \in air,
             HandleData(n, m) \/ HandleInterest(n, m) \/ IgnoreInterest(n, m)
      PROVE  UNCHANGED <<wanted, asked>>
  BY <1>6 DEF HandleData, HandleInterest, IgnoreInterest
<1> QED BY <1>1, <1>2, <1>3, <1>4, <1>5, <1>6 DEF Next, vars

\* The DATA a step sends goes to its requester or climbs from where it was kept.
LEMMA AirSteps ==
    ASSUME IInv, [Next]_vars, NEW o \in air'
    PROVE  \/ o \in air \/ o.type = "Interest" \/ o.to = o.requester
           \/ \E n \in Node, e \in Node : \E p \in pendData[n], s \in Standings :
                 n # e /\ o = DataPacket(n, e, p) /\ Climbs(s, p.requester, n, e, p)
<1>1. ASSUME NEW n \in Node, NEW e \in Node, HandleHello(n, e)
      PROVE  \/ o \in air \/ o.type = "Interest" \/ o.to = o.requester
             \/ \E p \in pendData[n], s \in Standings :
                   n # e /\ o = DataPacket(n, e, p) /\ Climbs(s, p.requester, n, e, p)
  <2>1. PICK s \in Standings :
          SendSome(air,
                {DataPacket(n, e, p) : p \in Sent(s, "data", n, e, pendData[n])}
                \cup {KnownPacket(n, e, p) : p \in Sent(s, "known", n, e, pendKnown[n])}
                \cup {UnknownPacket(n, e, p) : p \in Sent(s, "unknown", n, e, pendUnknown[n])})
    BY <1>1 DEF HandleHello
  <2>2. n # e
    BY <1>1 DEF HandleHello
  <2>3. \/ o \in air
        \/ \E p \in Sent(s, "data", n, e, pendData[n]) : o = DataPacket(n, e, p)
        \/ \E p : o = KnownPacket(n, e, p) \/ o = UnknownPacket(n, e, p)
    BY <2>1 DEF SendSome
  <2>4. ASSUME NEW p, o = KnownPacket(n, e, p) \/ o = UnknownPacket(n, e, p)
        PROVE  o.type = "Interest"
    BY <2>4 DEF KnownPacket, UnknownPacket
  <2>5. ASSUME NEW p \in Sent(s, "data", n, e, pendData[n]), o = DataPacket(n, e, p)
        PROVE  \/ o.to = o.requester
               \/ p \in pendData[n] /\ Climbs(s, p.requester, n, e, p)
    <3>1. Rank("data", p) = p.requester
      BY DEF Rank
    <3>2. o.to = e /\ o.requester = p.requester
      BY <2>5 DEF DataPacket
    <3> QED BY <2>5, <3>1, <3>2 DEF Sent
  <2> QED BY <2>2, <2>3, <2>4, <2>5
<1>2. ASSUME NEW n \in Node, NEW m \in air, HandleInterest(n, m)
      PROVE  o \in air \/ o.to = o.requester
  <2>1. CASE AnswerRequester(n, m)
    BY <2>1 DEF AnswerRequester, SendSome, DataPacket
  <2>2. CASE KeepAnswer(n, m) \/ RelayToProvider(n, m) \/ RelayUpwards(n, m)
    BY <2>2 DEF KeepAnswer, RelayToProvider, RelayUpwards
  <2> QED BY <1>2, <2>1, <2>2 DEF HandleInterest
<1>3. ASSUME NEW n \in Node, NEW m \in air, HandleData(n, m) \/ IgnoreInterest(n, m)
      PROVE  o \in air
  BY <1>3 DEF HandleData, IgnoreInterest
<1>4. ASSUME NEW n \in Node,
             \/ \E content \in Node : RequestContent(n, content)
             \/ StartApplication(n)
             \/ \E d \in digests : HandleDigest(n, d)
      PROVE  o \in air
  BY <1>4 DEF RequestContent, StartApplication, HandleDigest
<1>5. CASE UNCHANGED vars
  BY <1>5 DEF vars
<1> QED BY <1>1, <1>2, <1>3, <1>4, <1>5 DEF Next

LEMMA ClimbStep ==
    ASSUME SettledRankings, IInv, MindKept, DataRises, DataClimbs, [Next]_vars
    PROVE  DataRises' /\ DataClimbs'
<1>0. /\ \A s \in Standings : \A k, n \in Node : s[k][n] \in Nat
      /\ \A s \in Standings : \A k, n, e \in Node : s[k][n] = s[k][e] => n = e
  BY RelayAssumption
<1>1. \A n \in Node : \A p \in pendData[n] : p \in Pending
  BY DEF IInv, TypeOK
<1>2. \A p \in Pending : p.requester \in Node /\ p.content \in Node
  BY DEF Pending
\* An encounter above this node is above the provider as well.
<1>3. ASSUME NEW n \in Node, NEW e \in Node \ {n}, NEW p \in pendData[n], NEW s \in Standings,
             Climbs(s, p.requester, n, e, p), NEW t \in Standings
      PROVE  /\ t[p.requester][e] > t[p.requester][n]
             /\ t[p.requester][e] > t[p.requester][p.content]
  <2>1. s = t /\ p.requester \in Node /\ p.content \in Node
    BY <1>1, <1>2 DEF SettledRankings
  <2>2. t[p.requester][e] >= t[p.requester][n] /\ t[p.requester][e] # t[p.requester][n]
    BY <1>0, <1>3, <2>1 DEF Climbs, Prefers
  <2>3. n # p.content => t[p.requester][n] > t[p.requester][p.content]
    BY DEF DataClimbs
  <2> QED BY <1>0, <2>1, <2>2, <2>3
<1>4. DataRises'
  <2> SUFFICES ASSUME NEW o \in air', o.type = "Data", o.to # o.requester, o.to # o.content,
                      NEW t \in Standings
               PROVE  t[o.requester][o.to] > t[o.requester][o.content]
    BY DEF DataRises
  <2>1. CASE o \in air
    BY <2>1 DEF DataRises
  <2>2. ASSUME NEW n \in Node, NEW e \in Node, NEW p \in pendData[n], NEW s \in Standings,
               n # e, o = DataPacket(n, e, p), Climbs(s, p.requester, n, e, p)
        PROVE  t[o.requester][o.to] > t[o.requester][o.content]
    <3>1. o.to = e /\ o.requester = p.requester /\ o.content = p.content
      BY <2>2 DEF DataPacket
    <3> QED BY <1>3, <2>2, <3>1
  <2> QED BY <2>1, <2>2, AirSteps
<1>5. DataClimbs'
  <2> SUFFICES ASSUME NEW n \in Node, NEW q \in pendData'[n], NEW t \in Standings
               PROVE  ClimbsAt(n, q, t)
    BY DEF DataClimbs, ClimbsAt
  <2>1. CASE q \in pendData[n]
    BY <2>1 DEF DataClimbs, ClimbsAt
  <2>2. ASSUME NEW p \in pendData[n], NEW e \in Node \ {n}, NEW s \in Standings,
               q = [p EXCEPT !.relay = e], Climbs(s, p.requester, n, e, p)
        PROVE  ClimbsAt(n, q, t)
    <3>1. q.relay = e /\ q.requester = p.requester /\ q.content = p.content
      BY <1>1, <2>2 DEF Pending
    <3>2. n # p.content => t[p.requester][n] > t[p.requester][p.content]
      BY DEF DataClimbs
    <3> QED BY <1>3, <2>2, <3>1, <3>2 DEF ClimbsAt
  <2>3. ASSUME NEW m \in air, q = NewPending(m.requester, m.content, FALSE),
               n = m.content \/ (HandleData(n, m) /\ wanted[n] # m.content)
        PROVE  ClimbsAt(n, q, t)
    <3>1. q.requester = m.requester /\ q.content = m.content /\ q.relay = NoNode
      BY <2>3 DEF NewPending
    <3>2. ASSUME HandleData(n, m), wanted[n] # m.content, n # m.content
          PROVE  t[m.requester][n] > t[m.requester][m.content]
      <4>1. m.type = "Data" /\ m.to = n
        BY <3>2 DEF HandleData
      <4>2. <<m.requester, m.content>> \in asked
        BY DEF IInv, OnlyWhatWasAsked, Key
      <4>3. m.requester # n
        BY <3>2, <4>2 DEF MindKept
      <4> QED BY <3>2, <4>1, <4>3 DEF DataRises
    <3> QED BY <2>3, <3>1, <3>2 DEF ClimbsAt
  <2>4. \/ q \in pendData[n]
        \/ \E p \in pendData[n], e \in Node \ {n}, s \in Standings :
              q = [p EXCEPT !.relay = e] /\ Climbs(s, p.requester, n, e, p)
        \/ \E m \in air :
              /\ q = NewPending(m.requester, m.content, FALSE)
              /\ n = m.content \/ (HandleData(n, m) /\ wanted[n] # m.content)
    BY DataSteps, Zenon
  <2> QED BY <2>1, <2>2, <2>3, <2>4, Zenon
<1> QED BY <1>4, <1>5

\* ProcessPendingData and HandleData: while the rankings stand still and nobody
\* changes their mind, DATA is only kept closer to its requester than its provider
\* and every holder before.
THEOREM DataOnlyClimbs ==
    ASSUME SettledRankings, OneRequestEach
    PROVE  Spec => []DataClimbs
<1>1. Init => MindKept /\ DataRises /\ DataClimbs
  BY DEF Init, MindKept, DataRises, DataClimbs
<1>2. IInv /\ MindKept /\ DataRises /\ DataClimbs /\ [Next]_vars
         => (MindKept /\ DataRises /\ DataClimbs)'
  BY MindKeptStep, ClimbStep
<1> QED BY <1>1, <1>2, Invariance, PTL DEF Spec
=============================================================================
