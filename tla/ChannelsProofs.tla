--------------------------- MODULE ChannelsProofs ---------------------------
(***************************************************************************)
(* Proofs about channels between nodes: their types, that no channel is    *)
(* promised for longer than the last hello of the peer allows, and that    *)
(* the hellos of an exchange do not multiply.                              *)
(***************************************************************************)
EXTENDS Channels, TLAPS

HeardBefore == \A n, p \in Node : heard[n][p] =< now

\* A hello crosses from one node to another, and belongs to a broadcast that is
\* no longer to come.
BegunBefore ==
    \A h \in air : /\ h.from # h.to
                   /\ h.exchange.by \in started
                   /\ left[h.exchange.by] < h.exchange.event

IInv == TypeOK /\ PromisedByLastHello /\ OneHelloPerExchange /\ HeardBefore /\ BegunBefore

-----------------------------------------------------------------------------
(* The table of one node *)

\* A table of node n that keeps to the times hd its peers were last heard.
Promises(t, n, hd) ==
    /\ DOMAIN t \subseteq Node \ {n}
    /\ \A p \in DOMAIN t : /\ t[p] \in Channel
                           /\ hd[p] # Never
                           /\ t[p].expireTime =< hd[p] + Life

LEMMA RemainingPromises ==
    ASSUME NEW t, NEW n, NEW hd, Promises(t, n, hd)
    PROVE  Promises(Remaining(t, now), n, hd)
  BY DEF Promises, Remaining

LEMMA RefreshedPromises ==
    ASSUME now \in Nat, NEW t, NEW n, NEW hd, Promises(t, n, hd),
           NEW p, hd[p] = now, NEW amount
    PROVE  Promises(Refreshed(t, p, amount), n, hd)
<1> USE ChannelsAssumption
<1>1. CASE ~Matches(t, p, amount)
  BY <1>1 DEF Refreshed
<1>2. CASE Matches(t, p, amount)
  <2> DEFINE later == IF now + Life >= t[p].expireTime THEN now + Life ELSE t[p].expireTime
             e == [t[p] EXCEPT !.expireTime = later]
             u == Refreshed(t, p, amount)
  <2>1. p \in DOMAIN t /\ t[p] \in Channel
    BY <1>2 DEF Matches, Promises
  <2>2. /\ DOMAIN u = DOMAIN t /\ \A q \in DOMAIN t : q # p => u[q] = t[q]
        /\ u[p] = e
    BY <1>2, <2>1 DEF Refreshed, Refresh, Channel
  <2>3. later \in Nat /\ later =< now + Life
    <3>1. t[p].expireTime \in Nat /\ t[p].expireTime =< now + Life
      BY <2>1 DEF Channel, Promises
    <3> QED BY <3>1
  <2> HIDE DEF later, u
  <2>4. e \in Channel /\ e.expireTime = later
    BY <2>1, <2>3 DEF Channel
  <2> HIDE DEF e
  <2>5. Promises(u, n, hd)
    BY <2>2, <2>3, <2>4 DEF Promises
  <2> QED BY <2>5 DEF u
<1> QED BY <1>1, <1>2

LEMMA PushPromises ==
    ASSUME now \in Nat, NEW t, NEW n, NEW hd, Promises(t, n, hd),
           NEW p \in Node, p # n, hd[p] = now,
           NEW avail \in Memory, NEW peerAvail \in Memory, NEW amount \in Amount
    PROVE  Promises(Push(t, p, NewNeighbor(InitDeposit, avail, amount, peerAvail,
                                           now + Life)), n, hd)
<1> USE ChannelsAssumption
<1> DEFINE e == NewNeighbor(InitDeposit, avail, amount, peerAvail, now + Life)
           u == Push(t, p, e)
<1>1. now + Life \in Nat /\ now # Never
  BY DEF Never
<1>2. avail \in Amount /\ peerAvail \in Amount /\ InitDeposit \in Amount
  BY DEF Amount
<1>3. e \in Channel /\ e.expireTime = now + Life
  BY <1>1, <1>2 DEF NewNeighbor, Channel
<1>4. DOMAIN u = DOMAIN t \cup {p} /\ \A q \in DOMAIN u : u[q] = IF q = p THEN e ELSE t[q]
  BY DEF Push
<1> HIDE DEF e, u
<1>5. ASSUME NEW q \in DOMAIN u
      PROVE  u[q] \in Channel /\ hd[q] # Never /\ u[q].expireTime =< hd[q] + Life
  <2>1. CASE q = p
    BY <1>1, <1>3, <1>4, <2>1
  <2>2. CASE q # p
    BY <1>4, <2>2 DEF Promises
  <2> QED BY <2>1, <2>2
<1>6. Promises(u, n, hd)
  BY <1>4, <1>5 DEF Promises
<1> QED BY <1>6 DEF e, u

-----------------------------------------------------------------------------
(* The answer *)

\* A hello h is handled by n: it leaves the air, and at most one of the same
\* exchange takes its place, back to the sender.
Replaced(n, h) ==
    \E r \in Hello : /\ air' \subseteq (air \ {h}) \cup {r}
                     /\ r.from = n /\ r.to = h.from /\ r.exchange = h.exchange

LEMMA AnswerReplaces ==
    ASSUME NEW n \in Node, NEW h \in Hello, NEW t,
           \A p \in DOMAIN t : t[p] \in Channel, Answer(n, h, t)
    PROVE  Replaced(n, h)
<1> DEFINE r == [from |-> n, to |-> h.from, deposit |-> Offer(t, h.from),
                 exchange |-> h.exchange]
<1>1. Offer(t, h.from) \in Amount
  BY ChannelsAssumption DEF Offer, Channel, Amount
<1>2. r \in Hello /\ r.from = n /\ r.to = h.from /\ r.exchange = h.exchange
  BY <1>1 DEF Hello
<1>3. air' \subseteq (air \ {h}) \cup {r}
  BY DEF Answer, SendSome
<1> HIDE DEF r
<1> QED BY <1>2, <1>3 DEF Replaced

LEMMA SilenceReplaces ==
    ASSUME NEW n \in Node, NEW h \in Hello, air' = air \ {h}
    PROVE  Replaced(n, h)
<1> DEFINE r == [h EXCEPT !.from = n, !.to = h.from]
<1>1. r \in Hello /\ r.from = n /\ r.to = h.from /\ r.exchange = h.exchange
  BY DEF Hello
<1> HIDE DEF r
<1> QED BY <1>1 DEF Replaced

-----------------------------------------------------------------------------
(* The steps *)

LEMMA RecvHelloKeeps ==
    ASSUME IInv, NEW n \in Node, NEW h \in air, RecvHello(n, h)
    PROVE  IInv'
<1> USE ChannelsAssumption
<1>1. now \in Nat /\ h \in Hello /\ h.from \in Node /\ h.from # n /\ h.to = n
      /\ h.deposit \in Amount
  BY DEF IInv, TypeOK, BegunBefore, RecvHello, Hello
<1> DEFINE hd == [heard[n] EXCEPT ![h.from] = now]
<1>2. /\ heard \in [Node -> [Node -> Nat \cup {Never}]]
      /\ heard' = [heard EXCEPT ![n] = hd]
      /\ hd \in [Node -> Nat \cup {Never}] /\ hd[h.from] = now
      /\ \A p \in Node : p # h.from => hd[p] = heard[n][p]
      /\ \A p \in Node : hd[p] =< now
      /\ \A p \in Node : heard[n][p] # Never => hd[p] # Never /\ heard[n][p] =< hd[p]
  <2>1. heard \in [Node -> [Node -> Nat \cup {Never}]]
    BY DEF IInv, TypeOK
  <2>2. heard' = [heard EXCEPT ![n] = hd]
    BY <2>1 DEF RecvHello
  <2>3. hd \in [Node -> Nat \cup {Never}] /\ hd[h.from] = now
        /\ \A p \in Node : p # h.from => hd[p] = heard[n][p]
    BY <1>1, <2>1
  <2>4. \A p \in Node : heard[n][p] =< now /\ heard[n][p] \in Nat \cup {Never}
    BY <2>1 DEF IInv, HeardBefore
  <2> HIDE DEF hd
  <2>5. ASSUME NEW p \in Node
        PROVE  /\ hd[p] =< now
               /\ heard[n][p] # Never => hd[p] # Never /\ heard[n][p] =< hd[p]
    <3>1. CASE p = h.from
      BY <1>1, <2>3, <2>4, <3>1 DEF Never
    <3>2. CASE p # h.from
      BY <1>1, <2>3, <2>4, <3>2 DEF Never
    <3> QED BY <3>1, <3>2
  <2> QED BY <2>1, <2>2, <2>3, <2>5
<1> HIDE DEF hd
<1>3. /\ now' = now /\ started' = started
      /\ next' = next /\ left' = left
  BY DEF RecvHello
<1>4. Promises(nb[n], n, hd)
  <2>1. DOMAIN nb[n] \subseteq Node \ {n} /\ \A p \in DOMAIN nb[n] : nb[n][p] \in Channel
    BY DEF IInv, TypeOK
  <2>2. \A p \in DOMAIN nb[n] : heard[n][p] # Never
                                 /\ nb[n][p].expireTime =< heard[n][p] + Life
    BY DEF IInv, PromisedByLastHello
  <2>3. ASSUME NEW p \in DOMAIN nb[n]
        PROVE  hd[p] # Never /\ nb[n][p].expireTime =< hd[p] + Life
    <3>1. p \in Node /\ heard[n][p] # Never /\ nb[n][p].expireTime =< heard[n][p] + Life
      BY <2>1, <2>2
    <3>2. nb[n][p].expireTime \in Nat
      BY <2>1 DEF Channel
    <3>3. hd[p] \in Nat \cup {Never} /\ heard[n][p] \in Nat \cup {Never}
      BY <1>2, <3>1
    <3> QED BY <1>2, <3>1, <3>2, <3>3 DEF Never
  <2> QED BY <2>1, <2>3 DEF Promises
<1>5. Promises(Alive(n), n, hd)
  BY <1>4, RemainingPromises DEF Alive
<1>6. \E t : nb' = [nb EXCEPT ![n] = t] /\ Promises(t, n, hd) /\ Replaced(n, h)
  <2>1. CASE AskForChannel(n, h)
    <3>1. Answer(n, h, Alive(n)) /\ nb' = [nb EXCEPT ![n] = Alive(n)]
      BY <2>1 DEF AskForChannel
    <3>2. Replaced(n, h)
      BY <1>1, <1>5, <3>1, AnswerReplaces DEF Promises
    <3> QED BY <1>5, <3>1, <3>2
  <2>2. CASE AlreadyOpen(n, h)
    <3>1. air' = air \ {h} /\ nb' = [nb EXCEPT ![n] = Alive(n)]
      BY <2>2 DEF AlreadyOpen
    <3> QED BY <1>1, <1>5, <3>1, SilenceReplaces
  <2>3. CASE AcceptAgain(n, h)
    <3> DEFINE t == Remaining(Refreshed(nb[n], h.from, h.deposit), now)
    <3>1. nb' = [nb EXCEPT ![n] = t] /\ Answer(n, h, t)
      BY <2>3 DEF AcceptAgain
    <3>2. Promises(t, n, hd)
      BY <1>1, <1>2, <1>4, RefreshedPromises, RemainingPromises
    <3> HIDE DEF t
    <3>3. Replaced(n, h)
      BY <1>1, <3>1, <3>2, AnswerReplaces DEF Promises
    <3> QED BY <3>1, <3>2, <3>3
  <2>4. CASE AcceptNew(n, h)
    <3>1. PICK avail \in Memory, peerAvail \in Memory :
             LET t == Remaining(Push(nb[n], h.from,
                        NewNeighbor(InitDeposit, avail, h.deposit, peerAvail,
                                    now + Life)), now)
             IN nb' = [nb EXCEPT ![n] = t] /\ Answer(n, h, t)
      BY <2>4 DEF AcceptNew
    <3> DEFINE u == Push(nb[n], h.from, NewNeighbor(InitDeposit, avail, h.deposit,
                                                    peerAvail, now + Life))
               t == Remaining(u, now)
    <3>2. Promises(u, n, hd)
      BY <1>1, <1>2, <1>4, PushPromises
    <3>3. nb' = [nb EXCEPT ![n] = t] /\ Answer(n, h, t)
      BY <3>1
    <3> HIDE DEF u
    <3>4. Promises(t, n, hd)
      BY <3>2, RemainingPromises
    <3> HIDE DEF t
    <3>5. Replaced(n, h)
      BY <1>1, <3>3, <3>4, AnswerReplaces DEF Promises
    <3> QED BY <3>3, <3>4, <3>5
  <2>5. CASE KeepAlive(n, h)
    <3> DEFINE t == IF h.from \in DOMAIN Alive(n)
                    THEN Refreshed(Alive(n), h.from, h.deposit) ELSE Alive(n)
    <3>1. nb' = [nb EXCEPT ![n] = t] /\ air' = air \ {h}
      BY <2>5 DEF KeepAlive
    <3>2. Promises(t, n, hd)
      BY <1>1, <1>2, <1>5, RefreshedPromises
    <3> HIDE DEF t
    <3> QED BY <1>1, <3>1, <3>2, SilenceReplaces
  <2> QED BY <2>1, <2>2, <2>3, <2>4, <2>5 DEF RecvHello
<1>7. PICK t : nb' = [nb EXCEPT ![n] = t] /\ Promises(t, n, hd) /\ Replaced(n, h)
  BY <1>6
<1>8. PICK r \in Hello : /\ air' \subseteq (air \ {h}) \cup {r}
                         /\ r.from = n /\ r.to = h.from /\ r.exchange = h.exchange
  BY <1>7 DEF Replaced
<1>9. \A m \in Node : /\ nb'[m] = IF m = n THEN t ELSE nb[m]
                      /\ heard'[m] = IF m = n THEN hd ELSE heard[m]
  BY <1>2, <1>7 DEF IInv, TypeOK
<1>10. \A m \in Node : Promises(nb'[m], m, heard'[m])
  <2> SUFFICES ASSUME NEW m \in Node, m # n PROVE Promises(nb[m], m, heard[m])
    BY <1>7, <1>9
  <2> QED BY DEF IInv, TypeOK, PromisedByLastHello, Promises
<1>11. heard' \in [Node -> [Node -> Nat \cup {Never}]]
  BY <1>2
<1>12. TypeOK'
  <2>1. \A m \in Node : /\ DOMAIN nb'[m] \subseteq Node \ {m}
                        /\ \A p \in DOMAIN nb'[m] : nb'[m][p] \in Channel
    BY <1>10 DEF Promises
  <2>2. DOMAIN nb' = Node
    BY <1>7 DEF IInv, TypeOK
  <2>3. air' \subseteq Hello
    BY <1>8 DEF IInv, TypeOK
  <2> QED BY <1>3, <1>11, <2>1, <2>2, <2>3 DEF IInv, TypeOK
<1>13. PromisedByLastHello'
  BY <1>10 DEF Promises, PromisedByLastHello
<1>14. OneHelloPerExchange'
  <2> SUFFICES ASSUME NEW g \in air', NEW k \in air', g.exchange = k.exchange
               PROVE  g = k
    BY DEF OneHelloPerExchange
  <2>1. \A x \in air \ {h} : x.exchange # h.exchange
    BY DEF IInv, OneHelloPerExchange
  <2>2. \A x, y \in air : x.exchange = y.exchange => x = y
    BY DEF IInv, OneHelloPerExchange
  <2> QED BY <1>8, <2>1, <2>2
<1>15. HeardBefore'
  BY <1>2, <1>3, <1>9 DEF IInv, HeardBefore
<1>16. BegunBefore'
  <2>1. r.from # r.to /\ r.exchange = h.exchange
    BY <1>1, <1>8
  <2> QED BY <1>3, <1>8, <2>1 DEF IInv, BegunBefore
<1> QED BY <1>12, <1>13, <1>14, <1>15, <1>16 DEF IInv

LEMMA StartApplicationKeeps ==
    ASSUME IInv, NEW n \in Node, StartApplication(n)
    PROVE  IInv'
<1>1. /\ n \notin started /\ started' = started \cup {n}
      /\ nb' = [nb EXCEPT ![n] = [p \in {} |-> 0]]
      /\ left' = [left EXCEPT ![n] = Events[n]]
      /\ now' = now /\ air' = air /\ heard' = heard
  BY DEF StartApplication
<1>2. PICK rand \in 0 .. Jitter :
         next' = [next EXCEPT ![n] = now + (now + rand + Interval)]
  BY DEF StartApplication
<1>3. next' \in [Node -> Nat]
  <2>1. now + (now + rand + Interval) \in Nat
    BY ChannelsAssumption DEF IInv, TypeOK
  <2> QED BY <1>2, <2>1 DEF IInv, TypeOK
<1>4. DOMAIN nb' = Node /\ \A m \in Node : nb'[m] = IF m = n THEN [p \in {} |-> 0] ELSE nb[m]
  BY <1>1 DEF IInv, TypeOK
<1>5. left' \in [Node -> Nat] /\ \A m \in Node : m # n => left'[m] = left[m]
  BY <1>1, ChannelsAssumption DEF IInv, TypeOK
<1>6. TypeOK'
  BY <1>1, <1>3, <1>4, <1>5 DEF IInv, TypeOK
<1>7. PromisedByLastHello'
  BY <1>1, <1>4 DEF IInv, PromisedByLastHello
<1>8. OneHelloPerExchange' /\ HeardBefore'
  BY <1>1 DEF IInv, OneHelloPerExchange, HeardBefore
<1>9. BegunBefore'
  <2> SUFFICES ASSUME NEW h \in air
               PROVE  /\ h.from # h.to /\ h.exchange.by \in started'
                      /\ left'[h.exchange.by] < h.exchange.event
    BY <1>1 DEF BegunBefore
  <2>1. h.exchange.by \in started /\ h.exchange.by # n
    BY <1>1 DEF IInv, BegunBefore
  <2>2. h.exchange.by \in Node
    BY <2>1 DEF IInv, TypeOK
  <2> QED BY <1>1, <1>5, <2>1, <2>2 DEF IInv, BegunBefore
<1> QED BY <1>6, <1>7, <1>8, <1>9 DEF IInv

LEMMA SendChMaintainKeeps ==
    ASSUME IInv, NEW n \in Node, SendChMaintain(n), n \in started
    PROVE  IInv'
<1> DEFINE sent == {[from |-> n, to |-> p, deposit |-> 0,
                     exchange |-> [by |-> n, event |-> left[n], heardBy |-> p]] :
                       p \in started \ {n}}
<1>1. /\ left' = [left EXCEPT ![n] = @ - 1] /\ next' = [next EXCEPT ![n] = @ + Interval]
      /\ left[n] > 0 /\ air' \subseteq air \cup sent
      /\ now' = now /\ started' = started
      /\ nb' = nb /\ heard' = heard
  BY DEF SendChMaintain, SendSome, Due
<1>2. left \in [Node -> Nat] /\ next \in [Node -> Nat] /\ started \subseteq Node
  BY DEF IInv, TypeOK
<1>3. left' \in [Node -> Nat] /\ left'[n] = left[n] - 1
      /\ \A m \in Node : m # n => left'[m] = left[m]
  BY <1>1, <1>2
<1>4. next' \in [Node -> Nat]
  BY <1>1, <1>2, ChannelsAssumption
<1>5. ASSUME NEW h \in sent
      PROVE  /\ h \in Hello /\ h.from # h.to /\ h.exchange.by = n
             /\ h.exchange.event = left[n]
             /\ h = [from |-> n, to |-> h.exchange.heardBy, deposit |-> 0,
                     exchange |-> h.exchange]
  <2>1. PICK p \in started \ {n} :
           h = [from |-> n, to |-> p, deposit |-> 0,
                exchange |-> [by |-> n, event |-> left[n], heardBy |-> p]]
    BY <1>5
  <2>2. p \in Node /\ p # n /\ left[n] \in Nat /\ 0 \in Amount
    BY <1>2, ChannelsAssumption DEF Amount
  <2> QED BY <2>1, <2>2 DEF Hello
<1> HIDE DEF sent
<1>6. TypeOK'
  <2>1. air' \subseteq Hello
    BY <1>1, <1>5 DEF IInv, TypeOK
  <2> QED BY <1>1, <1>3, <1>4, <2>1 DEF IInv, TypeOK
<1>7. PromisedByLastHello' /\ HeardBefore'
  BY <1>1 DEF IInv, PromisedByLastHello, HeardBefore
<1>8. OneHelloPerExchange'
  <2> SUFFICES ASSUME NEW g \in air', NEW k \in air', g.exchange = k.exchange
               PROVE  g = k
    BY DEF OneHelloPerExchange
  <2>1. \A x \in air, y \in sent : x.exchange # y.exchange
    <3> SUFFICES ASSUME NEW x \in air, NEW y \in sent, x.exchange = y.exchange
                 PROVE  FALSE
      OBVIOUS
    <3>1. x.exchange.by = n /\ x.exchange.event = left[n]
      BY <1>5
    <3>2. left[n] < left[n]
      BY <3>1 DEF IInv, BegunBefore
    <3> QED BY <1>2, <3>2
  <2>2. \A x, y \in air : x.exchange = y.exchange => x = y
    BY DEF IInv, OneHelloPerExchange
  <2>3. \A x, y \in sent : x.exchange = y.exchange => x = y
    <3> SUFFICES ASSUME NEW x \in sent, NEW y \in sent, x.exchange = y.exchange
                 PROVE  x = y
      OBVIOUS
    <3> QED BY <1>5
  <2> QED BY <1>1, <2>1, <2>2, <2>3
<1>9. BegunBefore'
  <2> SUFFICES ASSUME NEW h \in air'
               PROVE  /\ h.from # h.to /\ h.exchange.by \in started
                      /\ left'[h.exchange.by] < h.exchange.event
    BY <1>1 DEF BegunBefore
  <2>1. CASE h \in sent
    BY <1>2, <1>3, <1>5, <2>1
  <2>2. CASE h \in air
    <3>1. /\ h.from # h.to /\ h.exchange.by \in started
          /\ left[h.exchange.by] < h.exchange.event
      BY <2>2 DEF IInv, BegunBefore
    <3>2. h.exchange.by \in Node /\ h.exchange.event \in Nat
      BY <2>2 DEF IInv, TypeOK, Hello
    <3>3. left'[h.exchange.by] =< left[h.exchange.by]
      BY <1>2, <1>3, <3>2
    <3> QED BY <1>2, <1>3, <3>1, <3>2, <3>3
  <2> QED BY <1>1, <2>1, <2>2
<1> QED BY <1>6, <1>7, <1>8, <1>9 DEF IInv

LEMMA TimerExpiresKeeps ==
    ASSUME IInv, NEW n \in Node, TimerExpires(n)
    PROVE  IInv'
<1>1. /\ nb' = [nb EXCEPT ![n] = Alive(n)]
      /\ now' = now /\ started' = started
      /\ next' = next /\ left' = left /\ air' = air /\ heard' = heard
  BY DEF TimerExpires
<1>2. \A m \in Node : Promises(nb[m], m, heard[m])
  BY DEF IInv, TypeOK, PromisedByLastHello, Promises
<1>3. Promises(Alive(n), n, heard[n])
  BY <1>2, RemainingPromises DEF Alive
<1>4. DOMAIN nb' = Node /\ \A m \in Node : nb'[m] = IF m = n THEN Alive(n) ELSE nb[m]
  BY <1>1 DEF IInv, TypeOK
<1>5. \A m \in Node : Promises(nb'[m], m, heard[m])
  BY <1>2, <1>3, <1>4
<1>6. TypeOK'
  <2>1. \A m \in Node : /\ DOMAIN nb'[m] \subseteq Node \ {m}
                        /\ \A p \in DOMAIN nb'[m] : nb'[m][p] \in Channel
    BY <1>5 DEF Promises
  <2> QED BY <1>1, <1>4, <2>1 DEF IInv, TypeOK
<1>7. PromisedByLastHello'
  BY <1>1, <1>5 DEF Promises, PromisedByLastHello
<1>8. OneHelloPerExchange' /\ HeardBefore' /\ BegunBefore'
  BY <1>1 DEF IInv, OneHelloPerExchange, HeardBefore, BegunBefore
<1> QED BY <1>6, <1>7, <1>8 DEF IInv

LEMMA TickKeeps ==
    ASSUME IInv, Tick PROVE IInv'
<1>1. /\ now < MaxTime /\ now' = now + 1 /\ UNCHANGED <<started, nb, next, left, air, heard>>
  BY DEF Tick
<1>2. now \in Nat /\ now' \in 0 .. MaxTime
  BY <1>1, ChannelsAssumption DEF IInv, TypeOK
<1>3. TypeOK'
  BY <1>1, <1>2 DEF IInv, TypeOK
<1>4. HeardBefore'
  <2>1. \A n, p \in Node : heard[n][p] \in Int /\ heard[n][p] =< now
    BY DEF IInv, TypeOK, HeardBefore, Never
  <2> QED BY <1>1, <1>2, <2>1 DEF HeardBefore
<1>5. PromisedByLastHello' /\ OneHelloPerExchange' /\ BegunBefore'
  BY <1>1 DEF IInv, PromisedByLastHello, OneHelloPerExchange, BegunBefore
<1> QED BY <1>3, <1>4, <1>5 DEF IInv

-----------------------------------------------------------------------------
(* The invariant *)

\* Only a node that has started has hellos scheduled.
OnlyStartedSend ==
    left \in [Node -> Nat] /\ \A n \in Node : left[n] > 0 => n \in started

LEMMA OnlyStartedSendHolds == Spec => []OnlyStartedSend
<1>1. Init => OnlyStartedSend
  BY DEF Init, OnlyStartedSend
<1>2. OnlyStartedSend /\ [Next]_vars => OnlyStartedSend'
  <2> SUFFICES ASSUME OnlyStartedSend, [Next]_vars PROVE OnlyStartedSend'
    OBVIOUS
  <2>1. ASSUME NEW n \in Node, StartApplication(n) PROVE OnlyStartedSend'
    BY <2>1, ChannelsAssumption DEF OnlyStartedSend, StartApplication
  <2>2. ASSUME NEW n \in Node, SendChMaintain(n) PROVE OnlyStartedSend'
    BY <2>2 DEF OnlyStartedSend, SendChMaintain, Due
  <2>3. ASSUME NEW n \in Node, NEW h \in air, RecvHello(n, h) PROVE OnlyStartedSend'
    BY <2>3 DEF OnlyStartedSend, RecvHello
  <2>4. ASSUME NEW n \in Node, TimerExpires(n) PROVE OnlyStartedSend'
    BY <2>4 DEF OnlyStartedSend, TimerExpires
  <2>5. CASE Tick \/ UNCHANGED vars
    BY <2>5 DEF OnlyStartedSend, Tick, vars
  <2> QED BY <2>1, <2>2, <2>3, <2>4, <2>5 DEF Next
<1> QED BY <1>1, <1>2, PTL DEF Spec

LEMMA InitHolds == Init => IInv
<1> SUFFICES ASSUME Init PROVE IInv
  OBVIOUS
<1>1. TypeOK
  <2>1. 0 \in 0 .. MaxTime
    BY ChannelsAssumption
  <2>2. heard \in [Node -> [Node -> Nat \cup {Never}]]
    BY DEF Init
  <2> QED BY <2>1, <2>2 DEF Init, TypeOK
<1>2. HeardBefore
  BY DEF Init, HeardBefore, Never
<1>3. PromisedByLastHello /\ OneHelloPerExchange /\ BegunBefore
  BY DEF Init, PromisedByLastHello, OneHelloPerExchange, BegunBefore
<1> QED BY <1>1, <1>2, <1>3 DEF IInv

LEMMA NextKeeps == IInv /\ OnlyStartedSend /\ [Next]_vars => IInv'
<1> SUFFICES ASSUME IInv, OnlyStartedSend, [Next]_vars PROVE IInv'
  OBVIOUS
<1>1. ASSUME NEW n \in Node, StartApplication(n) PROVE IInv'
  BY <1>1, StartApplicationKeeps
<1>2. ASSUME NEW n \in Node, SendChMaintain(n) PROVE IInv'
  <2>1. n \in started
    BY <1>2 DEF SendChMaintain, Due, OnlyStartedSend
  <2> QED BY <1>2, <2>1, SendChMaintainKeeps
<1>3. ASSUME NEW n \in Node, NEW h \in air, RecvHello(n, h) PROVE IInv'
  BY <1>3, RecvHelloKeeps
<1>4. ASSUME NEW n \in Node, TimerExpires(n) PROVE IInv'
  BY <1>4, TimerExpiresKeeps
<1>5. CASE Tick
  BY <1>5, TickKeeps
<1>6. CASE UNCHANGED vars
  BY <1>6 DEF vars, IInv, TypeOK, PromisedByLastHello, OneHelloPerExchange,
              HeardBefore, BegunBefore
<1> QED BY <1>1, <1>2, <1>3, <1>4, <1>5, <1>6 DEF Next

LEMMA InvariantHolds == Spec => []IInv
<1>1. Init => IInv
  BY InitHolds
<1>2. IInv /\ OnlyStartedSend /\ [Next]_vars => IInv'
  BY NextKeeps
<1> QED BY <1>1, <1>2, OnlyStartedSendHolds, PTL DEF Spec

\* Tables, events and hellos keep their types; in particular every deposit a
\* hello carries is a uint32_t, and no node opens a channel with itself
\* (offchain-routing.cc 245-327).
THEOREM TypeCorrect == Spec => []TypeOK
<1>1. IInv => TypeOK
  BY DEF IInv
<1> QED BY <1>1, InvariantHolds, PTL

\* No channel is promised for longer than Life after the last hello of its peer
\* (RecvHello, offchain-routing.cc 302-327).
THEOREM PromisesFollowHellos == Spec => []PromisedByLastHello
<1>1. IInv => PromisedByLastHello
  BY DEF IInv
<1> QED BY <1>1, InvariantHolds, PTL

\* However many nodes, hellos, losses and delays: the answers that require an
\* answer never multiply (RecvHello and SendHello).
THEOREM HellosDoNotMultiply == Spec => []OneHelloPerExchange
<1>1. IInv => OneHelloPerExchange
  BY DEF IInv
<1> QED BY <1>1, InvariantHolds, PTL
=============================================================================
