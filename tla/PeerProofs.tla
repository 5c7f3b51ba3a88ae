------------------------------ MODULE PeerProofs ------------------------------
(***************************************************************************)
(* Two incoming connections from one device are never both alive, for any  *)
(* number of devices, links and faults: the main socket of a link is in    *)
(* one place only, from the queue of the acceptor through m_pending to one *)
(* PeerConnection.                                                         *)
(***************************************************************************)
EXTENDS NetworkProofs

\* The main sockets a device has: those to be accepted, and those that wait for
\* their partner, by address; the PeerConnections have the rest.
Queue(d) == backlog[d]["main"]
Waits(d) == [e \in Devices |-> pending[d][e]["main"]]

\* Of any queue q, sockets w that wait, and PeerConnections ps: socket l is among
\* them, and no socket is among them twice.
Has(q, w, ps, l) ==
  \/ \E i \in 1..Len(q) : q[i] = l
  \/ \E e \in Devices : w[e] = l
  \/ \E p \in ps : p.main = l

Single(q, w, ps) ==
  /\ \A i, j \in 1..Len(q) : q[i] = q[j] => i = j
  /\ \A e, f \in Devices : w[e] # 0 /\ w[e] = w[f] => e = f
  /\ \A p, r \in ps : p.main = r.main => p = r
  /\ \A i \in 1..Len(q) : \A e \in Devices : q[i] # w[e]
  /\ \A i \in 1..Len(q) : \A p \in ps : q[i] # p.main
  /\ \A e \in Devices : \A p \in ps : w[e] # p.main

\* What they are made of, for links L.
Typed(L, q, w, ps) ==
  /\ 0 \notin L
  /\ q \in Seq(L)
  /\ w \in [Devices -> L \cup {0}]
  /\ ps \in SUBSET [ip : Devices, main : L, file : L]

\* TCP may still establish the link's main connection.
ToMake(l) == link[l].open /\ "main" \in link[l].connecting \ link[l].made

\* A main connection that is still to be made has no socket on any device.
MadeOnce ==
  \A l \in DOMAIN link : ToMake(l) => \A d \in Devices : ~Has(Queue(d), Waits(d), peers[d], l)

OnePlace == \A d \in Devices : Single(Queue(d), Waits(d), peers[d])

\* A PeerConnection has the address its main socket comes from.
PeerAddress == \A d \in Devices : \A p \in peers[d] : link[p.main].from = p.ip

Places == MadeOnce /\ OnePlace /\ PeerAddress

-----------------------------------------------------------------------------
\* Sockets in any queue, waiting, and paired.

\* One fewer in the queue.
LEMMA Leaves ==
  ASSUME NEW L, NEW q, NEW w, NEW ps, Typed(L, q, w, ps), Single(q, w, ps), q # <<>>
  PROVE  /\ Typed(L, Tail(q), w, ps) /\ Single(Tail(q), w, ps)
         /\ Head(q) \in L
         /\ ~Has(Tail(q), w, ps, Head(q))
         /\ \A l : Has(Tail(q), w, ps, l) => Has(q, w, ps, l)
         /\ Has(q, w, ps, Head(q))
  <1>1. /\ Tail(q) \in Seq(L) /\ Len(Tail(q)) = Len(q) - 1
        /\ \A i \in 1..Len(Tail(q)) : Tail(q)[i] = q[i + 1]
        /\ Head(q) \in L /\ Head(q) = q[1] /\ Len(q) \in Nat /\ 1 \in 1..Len(q)
    BY HeadTailProperties DEF Typed
  <1>. DEFINE t == Tail(q)
  <1>2. t \in Seq(L) /\ Len(t) = Len(q) - 1 /\ \A i \in 1..Len(t) : t[i] = q[i + 1]
    BY <1>1
  <1>. HIDE DEF t
  <1>3. \A i \in 1..Len(t) : i + 1 \in 1..Len(q) /\ i + 1 # 1
    BY <1>1, <1>2
  <1>4. Single(t, w, ps)
    <2>1. ASSUME NEW i \in 1..Len(t), NEW j \in 1..Len(t), t[i] = t[j]
          PROVE  i = j
      <3>1. i + 1 = j + 1
        BY <1>2, <1>3, <2>1 DEF Single
      <3>. QED BY <3>1
    <2>2. \A i \in 1..Len(t) : (\A e \in Devices : t[i] # w[e]) /\ (\A p \in ps : t[i] # p.main)
      BY <1>2, <1>3 DEF Single
    <2>. QED BY <2>1, <2>2 DEF Single
  <1>5. ~Has(t, w, ps, Head(q))
    <2>1. \A i \in 1..Len(t) : t[i] # q[1]
      BY <1>1, <1>2, <1>3 DEF Single
    <2>2. (\A e \in Devices : w[e] # q[1]) /\ (\A p \in ps : p.main # q[1])
      BY <1>1 DEF Single
    <2>. QED BY <1>1, <2>1, <2>2 DEF Has
  <1>6. \A l : Has(t, w, ps, l) => Has(q, w, ps, l)
    BY <1>2, <1>3 DEF Has
  <1>7. Has(q, w, ps, Head(q))
    BY <1>1 DEF Has
  <1>8. Typed(L, t, w, ps)
    BY <1>2 DEF Typed
  <1>. QED BY <1>1, <1>4, <1>5, <1>6, <1>7, <1>8 DEF t

\* One more in the queue.
LEMMA Joins ==
  ASSUME NEW L, NEW q, NEW w, NEW ps, Typed(L, q, w, ps), Single(q, w, ps),
         NEW l \in L, ~Has(q, w, ps, l)
  PROVE  /\ Single(Append(q, l), w, ps)
         /\ \A k : Has(Append(q, l), w, ps, k) => k = l \/ Has(q, w, ps, k)
  <1>. DEFINE t == Append(q, l)
  <1>1. /\ Len(t) = Len(q) + 1 /\ Len(q) \in Nat
        /\ \A i \in 1..Len(t) : (i \in 1..Len(q) /\ t[i] = q[i]) \/ (i = Len(q) + 1 /\ t[i] = l)
    BY DEF Typed
  <1>. HIDE DEF t
  <1>2. /\ \A i \in 1..Len(q) : q[i] # l
        /\ \A e \in Devices : w[e] # l
        /\ \A p \in ps : p.main # l
    BY DEF Has
  <1>3. Single(t, w, ps)
    <2>1. ASSUME NEW i \in 1..Len(t), NEW j \in 1..Len(t), t[i] = t[j]
          PROVE  i = j
      BY <1>1, <1>2, <2>1 DEF Single
    <2>2. \A i \in 1..Len(t) : (\A e \in Devices : t[i] # w[e]) /\ (\A p \in ps : t[i] # p.main)
      BY <1>1, <1>2 DEF Single
    <2>. QED BY <2>1, <2>2 DEF Single
  <1>4. \A k : Has(t, w, ps, k) => k = l \/ Has(q, w, ps, k)
    BY <1>1 DEF Has
  <1>. QED BY <1>3, <1>4 DEF t

\* A socket takes a place beside its partner.
LEMMA Replaces ==
  ASSUME NEW L, NEW q, NEW w, NEW ps, Typed(L, q, w, ps), Single(q, w, ps),
         NEW e \in Devices, NEW l \in L, ~Has(q, w, ps, l),
         NEW w2, w2 = [w EXCEPT ![e] = l]
  PROVE  /\ Typed(L, q, w2, ps) /\ Single(q, w2, ps)
         /\ \A k : Has(q, w2, ps, k) => k = l \/ Has(q, w, ps, k)
  <1>1. \A f \in Devices : w2[f] = IF f = e THEN l ELSE w[f]
    BY DEF Typed
  <1>2. Typed(L, q, w2, ps)
    BY DEF Typed
  <1>3. /\ \A i \in 1..Len(q) : q[i] # l
        /\ \A f \in Devices : w[f] # l
        /\ \A p \in ps : p.main # l
    BY DEF Has
  <1>4. Single(q, w2, ps)
    <2>1. \A f, g \in Devices : w2[f] # 0 /\ w2[f] = w2[g] => f = g
      BY <1>1, <1>3 DEF Single
    <2>2. \A f \in Devices : (\A i \in 1..Len(q) : q[i] # w2[f]) /\ (\A p \in ps : w2[f] # p.main)
      BY <1>1, <1>3 DEF Single
    <2>. QED BY <2>1, <2>2 DEF Single
  <1>5. \A k : Has(q, w2, ps, k) => k = l \/ Has(q, w, ps, k)
    BY <1>1 DEF Has
  <1>. QED BY <1>2, <1>4, <1>5

\* A socket's place beside its partner is given up.
LEMMA GivesUp ==
  ASSUME NEW L, NEW q, NEW w, NEW ps, Typed(L, q, w, ps), Single(q, w, ps),
         NEW e \in Devices, NEW w2, w2 = [w EXCEPT ![e] = 0]
  PROVE  /\ Typed(L, q, w2, ps) /\ Single(q, w2, ps)
         /\ \A k : k # 0 /\ Has(q, w2, ps, k) => Has(q, w, ps, k)
         /\ w[e] # 0 => ~Has(q, w2, ps, w[e])
  <1>1. \A f \in Devices : w2[f] = IF f = e THEN 0 ELSE w[f]
    BY DEF Typed
  <1>2. Typed(L, q, w2, ps)
    BY DEF Typed
  <1>3. (\A i \in 1..Len(q) : q[i] # 0) /\ (\A p \in ps : p.main # 0)
    <2>1. \A i \in 1..Len(q) : q[i] \in L
      BY DEF Typed
    <2>2. \A p \in ps : p.main \in L
      BY DEF Typed
    <2>. QED BY <2>1, <2>2 DEF Typed
  <1>4. Single(q, w2, ps)
    <2>1. \A f, g \in Devices : w2[f] # 0 /\ w2[f] = w2[g] => f = g
      BY <1>1 DEF Single
    <2>2. \A f \in Devices : (\A i \in 1..Len(q) : q[i] # w2[f]) /\ (\A p \in ps : w2[f] # p.main)
      BY <1>1, <1>3 DEF Single
    <2>. QED BY <2>1, <2>2 DEF Single
  <1>5. \A k : k # 0 /\ Has(q, w2, ps, k) => Has(q, w, ps, k)
    BY <1>1 DEF Has
  <1>6. ASSUME w[e] # 0
        PROVE  ~Has(q, w2, ps, w[e])
    <2>1. (\A i \in 1..Len(q) : q[i] # w[e]) /\ (\A p \in ps : p.main # w[e])
      BY DEF Single
    <2>2. \A f \in Devices : w2[f] # w[e]
      BY <1>1, <1>6 DEF Single
    <2>. QED BY <2>1, <2>2 DEF Has
  <1>. QED BY <1>2, <1>4, <1>5, <1>6

\* Two partners become a PeerConnection.
LEMMA Pairs ==
  ASSUME NEW L, NEW q, NEW w, NEW ps, Typed(L, q, w, ps), Single(q, w, ps),
         NEW p, ~Has(q, w, ps, p.main), p.main # 0
  PROVE  /\ Single(q, w, ps \cup {p})
         /\ \A k : Has(q, w, ps \cup {p}, k) => k = p.main \/ Has(q, w, ps, k)
  <1>1. /\ \A i \in 1..Len(q) : q[i] # p.main
        /\ \A e \in Devices : w[e] # p.main
        /\ \A r \in ps : r.main # p.main
    BY DEF Has
  <1>2. Single(q, w, ps \cup {p})
    BY <1>1 DEF Single
  <1>. QED BY <1>2 DEF Has

\* PeerConnections go.
LEMMA Goes ==
  ASSUME NEW q, NEW w, NEW ps, Single(q, w, ps), NEW ps2 \in SUBSET ps
  PROVE  /\ Single(q, w, ps2)
         /\ \A k : Has(q, w, ps2, k) => Has(q, w, ps, k)
  <1>1. Single(q, w, ps2)
    BY DEF Single
  <1>. QED BY <1>1 DEF Has

-----------------------------------------------------------------------------
\* What a step leaves alone.

LEMMA PlacesTyped ==
  ASSUME Inv, NEW d \in Devices
  PROVE  Typed(DOMAIN link, Queue(d), Waits(d), peers[d])
  <1>1. "main" \in Channels /\ 0 \notin DOMAIN link
    BY DEF Channels, Inv, Tables, TablesType, Links
  <1>2. Queue(d) \in Seq(DOMAIN link)
    BY <1>1 DEF Inv, Sockets, SocketsType, Queue
  <1>3. Waits(d) \in [Devices -> DOMAIN link \cup {0}]
    BY <1>1 DEF Inv, Sockets, SocketsType, Waits
  <1>4. peers[d] \in SUBSET [ip : Devices, main : DOMAIN link, file : DOMAIN link]
    BY DEF Inv, Sockets, SocketsType
  <1>. QED BY <1>1, <1>2, <1>3, <1>4 DEF Typed

\* Whoever has a socket has that of a link.
LEMMA HasLinks ==
  ASSUME Inv, NEW d \in Devices, NEW l, l # 0, Has(Queue(d), Waits(d), peers[d], l)
  PROVE  l \in DOMAIN link
  <1>. DEFINE q == Queue(d)
              w == Waits(d)
              ps == peers[d]
  <1>1. Typed(DOMAIN link, q, w, ps) /\ Has(q, w, ps, l)
    BY PlacesTyped
  <1>. HIDE DEF q, w, ps
  <1>2. /\ \A i \in 1..Len(q) : q[i] \in DOMAIN link
        /\ \A e \in Devices : w[e] # 0 => w[e] \in DOMAIN link
        /\ \A r \in ps : r.main \in DOMAIN link
    BY <1>1 DEF Typed
  <1>. QED BY <1>1, <1>2 DEF Has

\* No main connection becomes one that is still to be made but a new link's, and
\* nobody gets the socket of one.
LEMMA MadeOnceKept ==
  ASSUME Inv, Inv', MadeOnce,
         \A l \in DOMAIN link \cap DOMAIN link' : ToMake(l)' => ToMake(l),
         \A l \in DOMAIN link' : ToMake(l)' =>
           \A d \in Devices : Has(Queue(d)', Waits(d)', peers'[d], l) => Has(Queue(d), Waits(d), peers[d], l)
  PROVE  MadeOnce'
  <1>1. ASSUME NEW l \in DOMAIN link', ToMake(l)', NEW d \in Devices
        PROVE  ~Has(Queue(d)', Waits(d)', peers'[d], l)
    <2>1. l # 0
      BY DEF Inv, Tables, TablesType, Links
    <2>2. Has(Queue(d)', Waits(d)', peers'[d], l) => Has(Queue(d), Waits(d), peers[d], l)
      BY <1>1
    <2>3. Has(Queue(d), Waits(d), peers[d], l) => l \in DOMAIN link
      BY <2>1, HasLinks
    <2>4. l \in DOMAIN link => ~Has(Queue(d), Waits(d), peers[d], l)
      BY <1>1 DEF MadeOnce
    <2>. QED BY <2>2, <2>3, <2>4
  <1>2. MadeOnce' <=> \A l \in DOMAIN link' : ToMake(l)' =>
                        \A d \in Devices : ~Has(Queue(d)', Waits(d)', peers'[d], l)
    BY DEF MadeOnce, Has
  <1>. QED BY <1>1, <1>2

\* Links that exist stay as they are, or advance, or close.
Advances ==
  \A l \in DOMAIN link \cap DOMAIN link' :
    /\ link'[l].from = link[l].from
    /\ link'[l].open => link[l].open
    /\ "main" \in link'[l].connecting \ link'[l].made => "main" \in link[l].connecting \ link[l].made

LEMMA AdvancesToMake ==
  ASSUME Advances
  PROVE  \A l \in DOMAIN link \cap DOMAIN link' : ToMake(l)' => ToMake(l)
  BY DEF Advances, ToMake

\* A step that leaves every device its sockets.
LEMMA PlacesFrame ==
  ASSUME Inv, Inv', Places, UNCHANGED serverVars, Advances
  PROVE  Places'
  <1>1. \A d \in Devices : Queue(d)' = Queue(d) /\ Waits(d)' = Waits(d) /\ peers'[d] = peers[d]
    BY DEF serverVars, Queue, Waits
  <1>2. MadeOnce'
    BY <1>1, AdvancesToMake, MadeOnceKept DEF Places
  <1>3. OnePlace'
    <2>1. \A d \in Devices : Single(Queue(d)', Waits(d)', peers'[d])
      BY <1>1 DEF Places, OnePlace
    <2>. QED BY <2>1 DEF OnePlace, Single
  <1>4. PeerAddress'
    <2>1. ASSUME NEW d \in Devices, NEW p \in peers'[d]
          PROVE  link'[p.main].from = p.ip
      <3>1. p \in peers[d] /\ p.main \in DOMAIN link
        BY <1>1 DEF Inv, Sockets, SocketsType
      <3>2. p.main \in DOMAIN link'
        BY <2>1 DEF Inv, Sockets, SocketsType
      <3>. QED BY <3>1, <3>2 DEF Advances, Places, PeerAddress
    <2>. QED BY <2>1 DEF PeerAddress
  <1>. QED BY <1>2, <1>3, <1>4 DEF Places

-----------------------------------------------------------------------------
\* The steps.

\* close() leaves the handlers of a link to come.
LEMMA CloseAdvances ==
  ASSUME TablesType, NEW l \in DOMAIN link \cup {0}
  PROVE  \A k \in DOMAIN link :
           /\ Closed(link, l)[k].from = link[k].from
           /\ Closed(link, l)[k].open => link[k].open
           /\ Closed(link, l)[k].connecting = link[k].connecting
           /\ Closed(link, l)[k].made = link[k].made
  <1>1. CASE l = 0
    BY <1>1 DEF Closed
  <1>2. CASE l # 0
    <2>1. link \in [DOMAIN link -> LinkStates] /\ l \in DOMAIN link
      BY <1>2 DEF TablesType
    <2>2. Closed(link, l) = [link EXCEPT ![l] = [link[l] EXCEPT !.open = FALSE, !.connected = FALSE]]
      BY <1>2, <2>1 DEF Closed, LinkStates
    <2>3. \A k \in DOMAIN link : k # l => Closed(link, l)[k] = link[k]
      BY <2>2
    <2>4. Closed(link, l)[l] = [link[l] EXCEPT !.open = FALSE, !.connected = FALSE]
      BY <2>1, <2>2
    <2>5. /\ Closed(link, l)[l].from = link[l].from /\ ~Closed(link, l)[l].open
          /\ Closed(link, l)[l].connecting = link[l].connecting
          /\ Closed(link, l)[l].made = link[l].made
      BY <2>1, <2>4 DEF LinkStates
    <2>. QED BY <2>3, <2>5
  <1>. QED BY <1>1, <1>2

LEMMA ConnectToAdvances ==
  ASSUME TablesType, NEW d \in Devices, NEW e \in Devices, ConnectTo(d, e)
  PROVE  Advances
  <1>1. CASE UNCHANGED link
    BY <1>1 DEF Advances
  <1>2. CASE ~UNCHANGED link
    <2>. DEFINE l == CHOOSE k \in Links \ DOMAIN link : TRUE
    <2>1. /\ Links \ DOMAIN link # {}
          /\ link' = [k \in DOMAIN link \cup {l} |->
                        IF k = l THEN Link(d, e) ELSE Closed(link, clients[d][e])[k]]
      BY <1>2 DEF ConnectTo, MakesWay
    <2>2. l \notin DOMAIN link
      BY <2>1
    <2>. HIDE DEF l
    <2>3. \A k \in DOMAIN link : link'[k] = Closed(link, clients[d][e])[k]
      BY <2>1, <2>2
    <2>4. clients[d][e] \in DOMAIN link \cup {0}
      BY DEF TablesType
    <2>. QED BY <2>3, <2>4, CloseAdvances DEF Advances
  <1>. QED BY <1>1, <1>2

LEMMA ConnectDoneAdvances ==
  ASSUME TablesType, NEW l \in DOMAIN link, NEW c \in Channels, NEW ok \in BOOLEAN, ConnectDone(l, c, ok)
  PROVE  Advances
  <1>. DEFINE rest == link[l].connecting \ {c}
              handled == [link EXCEPT ![l].connecting = rest, ![l].made = @ \ {c}]
              kept == [link[l] EXCEPT !.connecting = rest, !.made = @ \ {c}]
  <1>1. link \in [DOMAIN link -> LinkStates] /\ link[l] \in LinkStates /\ l # 0
    BY DEF TablesType, Links
  <1>2. handled = [link EXCEPT ![l] = kept]
    BY <1>1 DEF LinkStates
  <1>3. /\ kept.from = link[l].from /\ kept.open = link[l].open
        /\ kept.connecting = link[l].connecting \ {c} /\ kept.made = link[l].made \ {c}
        /\ kept \in LinkStates
    BY <1>1 DEF LinkStates
  <1>4. \/ link' = [handled EXCEPT ![l].connected = link[l].open /\ rest = {}]
        \/ link' = Closed(handled, l)
    BY DEF ConnectDone
  <1>5. \/ link' = [handled EXCEPT ![l].connected = link[l].open /\ rest = {}]
        \/ link' = [handled EXCEPT ![l].open = FALSE, ![l].connected = FALSE]
    BY <1>1, <1>4 DEF Closed
  <1>. DEFINE both == link[l].open /\ rest = {}
  <1>. HIDE DEF handled, kept, rest, both
  <1>6. handled \in [DOMAIN link -> LinkStates] /\ handled[l] = kept
        /\ \A k \in DOMAIN link : k # l => handled[k] = link[k]
    BY <1>1, <1>2, <1>3
  <1>7. \/ link' = [handled EXCEPT ![l].connected = both]
        \/ link' = [handled EXCEPT ![l].open = FALSE, ![l].connected = FALSE]
    BY <1>5 DEF both
  <1>8. /\ \A k \in DOMAIN link : k # l => link'[k] = link[k]
        /\ link'[l].from = kept.from /\ (link'[l].open => kept.open)
        /\ link'[l].connecting = kept.connecting /\ link'[l].made = kept.made
    <2>1. CASE link' = [handled EXCEPT ![l].connected = both]
      BY <1>1, <1>3, <1>6, <2>1 DEF LinkStates
    <2>2. CASE link' = [handled EXCEPT ![l].open = FALSE, ![l].connected = FALSE]
      BY <1>1, <1>3, <1>6, <2>2 DEF LinkStates
    <2>. QED BY <1>7, <2>1, <2>2
  <1>9. "main" \in link'[l].connecting \ link'[l].made => "main" \in link[l].connecting \ link[l].made
    BY <1>3, <1>8
  <1>. QED BY <1>3, <1>8, <1>9 DEF Advances

\* A main connection that TCP establishes joins one queue, and is not made again.
LEMMA EstablishPlaces ==
  ASSUME Inv, Inv', Places, NEW l \in DOMAIN link, NEW cs \in SUBSET Channels, Establish(l, cs)
  PROVE  Places'
  <1>1. /\ link[l].open /\ cs \subseteq link[l].connecting \ link[l].made
        /\ link' = [link EXCEPT ![l].made = @ \cup cs]
        /\ backlog' = [backlog EXCEPT ![link[l].to] =
                         [c \in Channels |-> IF c \in cs THEN Append(@[c], l) ELSE @[c]]]
        /\ UNCHANGED <<pending, peers>>
    BY DEF Establish
  <1>2. link \in [DOMAIN link -> LinkStates] /\ link[l] \in LinkStates /\ l # 0
    BY DEF Inv, Tables, TablesType, Links
  <1>3. /\ DOMAIN link' = DOMAIN link
        /\ \A k \in DOMAIN link : k # l => link'[k] = link[k]
        /\ link'[l].from = link[l].from /\ link'[l].open = link[l].open
        /\ link'[l].connecting = link[l].connecting /\ link'[l].made = link[l].made \cup cs
    <2>1. link' = [link EXCEPT ![l] = [link[l] EXCEPT !.made = @ \cup cs]]
      BY <1>1, <1>2 DEF LinkStates
    <2>2. link'[l] = [link[l] EXCEPT !.made = @ \cup cs]
      BY <1>2, <2>1
    <2>. QED BY <1>2, <2>1, <2>2 DEF LinkStates
  <1>4. Advances
    BY <1>3 DEF Advances
  <1>5. "main" \in Channels /\ link[l].to \in Devices
    BY <1>2 DEF Channels, LinkStates
  <1>6. ASSUME NEW d \in Devices
        PROVE  /\ Queue(d)' = IF d = link[l].to /\ "main" \in cs THEN Append(Queue(d), l) ELSE Queue(d)
               /\ Waits(d)' = Waits(d) /\ peers'[d] = peers[d]
    BY <1>1, <1>5 DEF Queue, Waits, Inv, Sockets, SocketsType
  <1>7. ASSUME NEW d \in Devices
        PROVE  /\ Single(Queue(d)', Waits(d)', peers'[d])
               /\ \A k : Has(Queue(d)', Waits(d)', peers'[d], k) =>
                      Has(Queue(d), Waits(d), peers[d], k) \/ (k = l /\ "main" \in cs)
    <2>1. Single(Queue(d), Waits(d), peers[d])
      BY DEF Places, OnePlace
    <2>2. CASE ~(d = link[l].to /\ "main" \in cs)
      BY <1>6, <2>1, <2>2
    <2>3. CASE d = link[l].to /\ "main" \in cs
      <3>1. ToMake(l)
        BY <1>1, <2>3 DEF ToMake
      <3>2. ~Has(Queue(d), Waits(d), peers[d], l)
        BY <3>1 DEF Places, MadeOnce
      <3>3. /\ Single(Append(Queue(d), l), Waits(d), peers[d])
            /\ \A k : Has(Append(Queue(d), l), Waits(d), peers[d], k) =>
                   k = l \/ Has(Queue(d), Waits(d), peers[d], k)
        BY <2>1, <3>2, PlacesTyped, Joins
      <3>. QED BY <1>6, <2>3, <3>3
    <2>. QED BY <2>2, <2>3
  <1>8. "main" \in cs => ~ToMake(l)'
    BY <1>3 DEF ToMake
  <1>9. MadeOnce'
    <2>1. ASSUME NEW k \in DOMAIN link', ToMake(k)', NEW d \in Devices,
                 Has(Queue(d)', Waits(d)', peers'[d], k)
          PROVE  Has(Queue(d), Waits(d), peers[d], k)
      BY <1>7, <1>8, <2>1
    <2>. QED BY <1>4, <2>1, AdvancesToMake, MadeOnceKept DEF Places
  <1>10. OnePlace'
    BY <1>7 DEF OnePlace, Single
  <1>11. PeerAddress'
    <2>1. ASSUME NEW d \in Devices, NEW p \in peers'[d]
          PROVE  link'[p.main].from = p.ip
      <3>1. p \in peers[d] /\ p.main \in DOMAIN link
        BY <1>1 DEF Inv, Sockets, SocketsType
      <3>. QED BY <1>3, <3>1 DEF Places, PeerAddress
    <2>. QED BY <2>1 DEF PeerAddress
  <1>. QED BY <1>9, <1>10, <1>11 DEF Places

\* A socket that is accepted goes from the queue to those that wait, and with its
\* partner to a PeerConnection; what stood in its place goes.
LEMMA AcceptMoves ==
  ASSUME Inv, Places, NEW d \in Devices, NEW c \in Channels, Accept(d, c)
  PROVE  /\ link' = link
         /\ \A a \in Devices :
              /\ Single(Queue(a)', Waits(a)', peers'[a])
              /\ \A k : k # 0 /\ Has(Queue(a)', Waits(a)', peers'[a], k) =>
                     Has(Queue(a), Waits(a), peers[a], k)
         /\ PeerAddress'
  <1>. DEFINE l == Head(backlog[d][c])
              e == link[l].from
              pair == [pending[d][e] EXCEPT ![c] = l]
              new == [ip |-> e, main |-> pair["main"], file |-> pair["file"]]
  <1>1. /\ backlog[d][c] # <<>>
        /\ backlog' = [backlog EXCEPT ![d][c] = Tail(backlog[d][c])]
        /\ Pair(d, e, pair) \/ UNCHANGED <<pending, peers>>
        /\ link' = link
    BY DEF Accept, Inv, Sockets, SocketsType
  <1>2. backlog[d][c] \in Seq(DOMAIN link) /\ "main" \in Channels /\ "file" \in Channels
    BY DEF Inv, Sockets, SocketsType, Channels
  <1>3. l \in DOMAIN link /\ l # 0
    <2>. DEFINE b == backlog[d][c]
    <2>1. b \in Seq(DOMAIN link) /\ b # <<>>
      BY <1>1, <1>2
    <2>. HIDE DEF b
    <2>2. Head(b) \in DOMAIN link
      BY <2>1, HeadTailProperties
    <2>3. 0 \notin DOMAIN link
      BY DEF Inv, Tables, TablesType, Links
    <2>. QED BY <2>2, <2>3 DEF b
  <1>4. e \in Devices
    BY <1>3 DEF Inv, Tables, TablesType, LinkStates
  <1>5. /\ pair["main"] = IF c = "main" THEN l ELSE pending[d][e]["main"]
        /\ pending[d][e] \in [Channels -> DOMAIN link \cup {0}]
    <2>1. pending[d][e] \in [Channels -> DOMAIN link \cup {0}]
      BY <1>4 DEF Inv, Sockets, SocketsType
    <2>. DEFINE n == pending[d][e]
    <2>2. n \in [Channels -> DOMAIN link \cup {0}]
      BY <2>1
    <2>. HIDE DEF n, l
    <2>3. [n EXCEPT ![c] = l]["main"] = IF c = "main" THEN l ELSE n["main"]
      BY <1>2, <2>2
    <2>. QED BY <2>1, <2>3 DEF n
  <1>6. pair["main"] # 0 => link[pair["main"]].from = e
    <2>. DEFINE n == pending[d][e]["main"]
    <2>1. n # 0 => link[n].from = e
      <3>1. e \in Devices /\ "main" \in Channels /\ SocketsMatch
        BY <1>2, <1>4 DEF Inv, Sockets
      <3>. HIDE DEF e
      <3>. QED BY <3>1 DEF SocketsMatch
    <2>2. pair["main"] = l \/ pair["main"] = n
      BY <1>5
    <2>3. link[l].from = e
      OBVIOUS
    <2>. HIDE DEF n, l, e, pair
    <2>. QED BY <2>1, <2>2, <2>3
  <1>7. \/ UNCHANGED <<pending, peers>>
        \/ pending' = [pending EXCEPT ![d][e] = pair] /\ peers' = peers
        \/ /\ pair["main"] # 0
           /\ pending' = [pending EXCEPT ![d][e] = None]
           /\ peers' = [peers EXCEPT ![d] = @ \cup {new}]
    BY <1>1, <1>2 DEF Pair
  <1>8. new.ip = e /\ new.main = pair["main"]
    OBVIOUS
  <1>. HIDE DEF pair, new
  <1>9. ASSUME NEW a \in Devices
        PROVE  Queue(a)' = IF a = d /\ c = "main" THEN Tail(Queue(d)) ELSE Queue(a)
    BY <1>1, <1>2 DEF Queue, Inv, Sockets, SocketsType
  <1>10. /\ UNCHANGED pending => \A a \in Devices : Waits(a)' = Waits(a)
         /\ pending' = [pending EXCEPT ![d][e] = pair] =>
              \A a \in Devices : Waits(a)' = IF a = d THEN [Waits(d) EXCEPT ![e] = pair["main"]] ELSE Waits(a)
         /\ pending' = [pending EXCEPT ![d][e] = None] =>
              \A a \in Devices : Waits(a)' = IF a = d THEN [Waits(d) EXCEPT ![e] = 0] ELSE Waits(a)
    <2>1. UNCHANGED pending => \A a \in Devices : Waits(a)' = Waits(a)
      BY DEF Waits
    <2>2. ASSUME NEW n, pending' = [pending EXCEPT ![d][e] = n], NEW a \in Devices
          PROVE  Waits(a)' = IF a = d THEN [Waits(d) EXCEPT ![e] = n["main"]] ELSE Waits(a)
      <3>1. \A f \in Devices : pending'[a][f] = IF a = d /\ f = e THEN n ELSE pending[a][f]
        BY <1>4, <2>2 DEF Inv, Sockets, SocketsType
      <3>2. CASE a = d
        BY <3>1, <3>2 DEF Waits
      <3>3. CASE a # d
        BY <3>1, <3>3 DEF Waits
      <3>. QED BY <3>2, <3>3
    <2>3. None["main"] = 0
      BY <1>2 DEF None
    <2>. QED BY <2>1, <2>2, <2>3
  <1>. DEFINE q == Queue(d)
              w == Waits(d)
              ps == peers[d]
              q2 == Queue(d)'
  <1>11. Typed(DOMAIN link, q, w, ps) /\ Single(q, w, ps)
    BY PlacesTyped DEF Places, OnePlace
  <1>12. w[e] = pending[d][e]["main"] /\ (c = "main" => l = Head(q) /\ q # <<>>)
    BY <1>1, <1>4 DEF Waits, Queue
  <1>13. c = "main" => q2 = Tail(q)
    BY <1>9
  <1>14. c # "main" => q2 = q
    BY <1>9
  <1>. HIDE DEF q, w, ps, q2, l, e
  <1>15. /\ Typed(DOMAIN link, q2, w, ps) /\ Single(q2, w, ps)
         /\ c = "main" => ~Has(q2, w, ps, l) /\ Has(q, w, ps, l)
         /\ \A k : Has(q2, w, ps, k) => Has(q, w, ps, k)
    <2>1. CASE c = "main"
      <3>1. q # <<>> /\ l = Head(q) /\ q2 = Tail(q)
        BY <1>12, <1>13, <2>1
      <3>2. /\ Typed(DOMAIN link, Tail(q), w, ps) /\ Single(Tail(q), w, ps)
            /\ ~Has(Tail(q), w, ps, Head(q)) /\ Has(q, w, ps, Head(q))
            /\ \A k : Has(Tail(q), w, ps, k) => Has(q, w, ps, k)
        BY <1>11, <3>1, Leaves
      <3>. QED BY <3>1, <3>2
    <2>2. CASE c # "main"
      BY <1>11, <1>14, <2>2
    <2>. QED BY <2>1, <2>2
  <1>16. /\ Single(q2, Waits(d)', peers'[d])
         /\ \A k : k # 0 /\ Has(q2, Waits(d)', peers'[d], k) => Has(q, w, ps, k)
    <2>1. CASE UNCHANGED <<pending, peers>>
      <3>1. Waits(d)' = w /\ peers'[d] = ps
        BY <1>10, <2>1 DEF w, ps
      <3>. QED BY <1>15, <3>1
    <2>2. CASE pending' = [pending EXCEPT ![d][e] = pair] /\ peers' = peers
      <3>1. Waits(d)' = [w EXCEPT ![e] = pair["main"]] /\ peers'[d] = ps
        BY <1>10, <2>2 DEF w, ps
      <3>2. CASE c = "main"
        <4>1. Waits(d)' = [w EXCEPT ![e] = l]
          BY <1>5, <3>1, <3>2
        <4>. DEFINE w2 == [w EXCEPT ![e] = l]
        <4>2. /\ Single(q2, w2, ps)
              /\ \A k : k # 0 /\ Has(q2, w2, ps, k) => k = l \/ Has(q2, w, ps, k)
          BY <1>3, <1>4, <1>15, <3>2, Replaces
        <4>3. \A k : k # 0 /\ Has(q2, w2, ps, k) => Has(q, w, ps, k)
          BY <1>15, <3>2, <4>2
        <4>. QED BY <3>1, <4>1, <4>2, <4>3
      <3>3. CASE c # "main"
        <4>1. [w EXCEPT ![e] = pair["main"]] = w
          BY <1>5, <1>11, <1>12, <3>3 DEF Typed
        <4>. QED BY <1>15, <3>1, <4>1
      <3>. QED BY <3>2, <3>3
    <2>3. CASE /\ pair["main"] # 0
               /\ pending' = [pending EXCEPT ![d][e] = None]
               /\ peers' = [peers EXCEPT ![d] = @ \cup {new}]
      <3>. DEFINE w2 == [w EXCEPT ![e] = 0]
      <3>1. Waits(d)' = w2 /\ peers'[d] = ps \cup {new}
        BY <1>10, <2>3 DEF w, ps, Inv, Sockets, SocketsType
      <3>. HIDE DEF w2
      <3>2. /\ Typed(DOMAIN link, q2, w2, ps) /\ Single(q2, w2, ps)
            /\ \A k : k # 0 /\ Has(q2, w2, ps, k) => Has(q2, w, ps, k)
            /\ w[e] # 0 => ~Has(q2, w2, ps, w[e])
        <4>1. w2 = [w EXCEPT ![e] = 0]
          BY DEF w2
        <4>. QED BY <1>4, <1>15, <4>1, GivesUp
      <3>3. ~Has(q2, w2, ps, new.main) /\ new.main # 0 /\ Has(q, w, ps, new.main)
        <4>1. CASE c = "main"
          BY <1>3, <1>5, <1>8, <1>15, <3>2, <4>1
        <4>2. CASE c # "main"
          <5>1. new.main = w[e] /\ w[e] # 0
            BY <1>5, <1>8, <1>12, <2>3, <4>2
          <5>2. Has(q, w, ps, w[e])
            BY <1>4 DEF Has
          <5>. QED BY <3>2, <5>1, <5>2
        <4>. QED BY <4>1, <4>2
      <3>4. /\ Single(q2, w2, ps \cup {new})
            /\ \A k : Has(q2, w2, ps \cup {new}, k) => k = new.main \/ Has(q2, w2, ps, k)
        BY <3>2, <3>3, Pairs
      <3>5. \A k : k # 0 /\ Has(q2, w2, ps \cup {new}, k) => Has(q, w, ps, k)
        BY <1>15, <3>2, <3>3, <3>4
      <3>. QED BY <3>1, <3>4, <3>5
    <2>. QED BY <1>7, <2>1, <2>2, <2>3
  <1>17. ASSUME NEW a \in Devices
         PROVE  /\ Single(Queue(a)', Waits(a)', peers'[a])
                /\ \A k : k # 0 /\ Has(Queue(a)', Waits(a)', peers'[a], k) =>
                       Has(Queue(a), Waits(a), peers[a], k)
    <2>1. CASE a = d
      BY <1>16, <2>1 DEF q, w, ps, q2
    <2>2. CASE a # d
      <3>1. Queue(a)' = Queue(a) /\ Waits(a)' = Waits(a)
        BY <1>7, <1>9, <1>10, <2>2
      <3>2. peers'[a] = peers[a]
        BY <1>7, <2>2 DEF Inv, Sockets, SocketsType
      <3>. QED BY <3>1, <3>2 DEF Places, OnePlace
    <2>. QED BY <2>1, <2>2
  <1>18. PeerAddress'
    <2>1. ASSUME NEW a \in Devices, NEW p \in peers'[a]
          PROVE  link'[p.main].from = p.ip
      <3>1. p \in peers[a] \/ (p = new /\ pair["main"] # 0)
        BY <1>7 DEF Inv, Sockets, SocketsType
      <3>. QED BY <1>1, <1>6, <1>8, <3>1 DEF Places, PeerAddress
    <2>. QED BY <2>1 DEF PeerAddress
  <1>. QED BY <1>1, <1>17, <1>18

\* Sockets that only go, and links that only advance.
LEMMA PlacesShrink ==
  ASSUME Inv, Inv', Places, Advances,
         \A d \in Devices :
           /\ Single(Queue(d)', Waits(d)', peers'[d])
           /\ \A k : k # 0 /\ Has(Queue(d)', Waits(d)', peers'[d], k) =>
                  Has(Queue(d), Waits(d), peers[d], k)
  PROVE  MadeOnce' /\ OnePlace'
  <1>1. 0 \notin DOMAIN link'
    BY DEF Inv, Tables, TablesType, Links
  <1>2. MadeOnce'
    BY <1>1, AdvancesToMake, MadeOnceKept DEF Places
  <1>3. OnePlace'
    BY DEF OnePlace, Single
  <1>. QED BY <1>2, <1>3

LEMMA AcceptPlaces ==
  ASSUME Inv, Inv', Places, NEW d \in Devices, NEW c \in Channels, Accept(d, c)
  PROVE  Places'
  <1>1. Advances
    BY AcceptMoves DEF Advances
  <1>. QED BY <1>1, AcceptMoves, PlacesShrink DEF Places

LEMMA PeerLostPlaces ==
  ASSUME Inv, Inv', Places, NEW d \in Devices, NEW p \in peers[d], PeerLost(d, p)
  PROVE  Places'
  <1>1. /\ UNCHANGED <<backlog, pending>>
        /\ peers' = [peers EXCEPT ![d] = @ \ {p}]
        /\ link' = Closed(link, clients[d][p.ip])
    BY DEF PeerLost, OnPeerClosed
  <1>2. p.ip \in Devices /\ clients[d][p.ip] \in DOMAIN link \cup {0}
    BY DEF Inv, Sockets, SocketsType, Tables, TablesType
  <1>3. Advances
    BY <1>1, <1>2, CloseAdvances DEF Advances, Inv, Tables
  <1>4. \A a \in Devices : /\ Queue(a)' = Queue(a) /\ Waits(a)' = Waits(a)
                           /\ peers'[a] \in SUBSET peers[a]
    BY <1>1 DEF Queue, Waits, Inv, Sockets, SocketsType
  <1>5. ASSUME NEW a \in Devices
        PROVE  /\ Single(Queue(a)', Waits(a)', peers'[a])
               /\ \A k : k # 0 /\ Has(Queue(a)', Waits(a)', peers'[a], k) =>
                      Has(Queue(a), Waits(a), peers[a], k)
    <2>1. Single(Queue(a), Waits(a), peers[a]) /\ peers'[a] \in SUBSET peers[a]
      BY <1>4 DEF Places, OnePlace
    <2>2. /\ Single(Queue(a), Waits(a), peers'[a])
          /\ \A k : Has(Queue(a), Waits(a), peers'[a], k) => Has(Queue(a), Waits(a), peers[a], k)
      BY <2>1, Goes
    <2>3. Queue(a)' = Queue(a) /\ Waits(a)' = Waits(a)
      BY <1>4
    <2>. QED BY <2>2, <2>3
  <1>6. PeerAddress'
    <2>1. ASSUME NEW a \in Devices, NEW r \in peers'[a]
          PROVE  link'[r.main].from = r.ip
      <3>1. r \in peers[a]
        BY <1>4
      <3>2. r.main \in DOMAIN link /\ r.main \in DOMAIN link'
        BY <3>1 DEF Inv, Sockets, SocketsType
      <3>. QED BY <1>3, <3>1, <3>2 DEF Advances, Places, PeerAddress
    <2>. QED BY <2>1 DEF PeerAddress
  <1>. QED BY <1>3, <1>5, <1>6, PlacesShrink DEF Places

LEMMA CrashPlaces ==
  ASSUME Inv, Inv', Places, NEW d \in Devices, Crash(d)
  PROVE  Places'
  <1>1. /\ backlog' = [backlog EXCEPT ![d] = [c \in Channels |-> <<>>]]
        /\ pending' = [pending EXCEPT ![d] = [e \in Devices |-> None]]
        /\ peers' = [peers EXCEPT ![d] = {}]
        /\ link' = [l \in DOMAIN link |->
                      IF link[l].from = d
                      THEN [link[l] EXCEPT !.open = FALSE, !.connected = FALSE,
                                           !.connecting = {}, !.made = {}]
                      ELSE link[l]]
    BY DEF Crash
  <1>2. Advances
    <2>1. ASSUME NEW l \in DOMAIN link
          PROVE  link'[l] = link[l] \/ (link'[l].from = link[l].from /\ ~link'[l].open /\ link'[l].connecting = {})
      <3>1. link[l] \in LinkStates
        BY DEF Inv, Tables, TablesType
      <3>2. CASE link[l].from = d
        <4>1. link'[l] = [link[l] EXCEPT !.open = FALSE, !.connected = FALSE,
                                         !.connecting = {}, !.made = {}]
          BY <1>1, <3>2
        <4>. QED BY <3>1, <4>1 DEF LinkStates
      <3>3. CASE link[l].from # d
        BY <1>1, <3>3
      <3>. QED BY <3>2, <3>3
    <2>. QED BY <2>1 DEF Advances
  <1>3. "main" \in Channels
    BY DEF Channels
  <1>4. ASSUME NEW a \in Devices
        PROVE  /\ a # d => Queue(a)' = Queue(a) /\ Waits(a)' = Waits(a) /\ peers'[a] = peers[a]
               /\ a = d => Queue(a)' = <<>> /\ peers'[a] = {} /\ \A e \in Devices : Waits(a)'[e] = 0
    <2>1. a # d => Queue(a)' = Queue(a) /\ Waits(a)' = Waits(a) /\ peers'[a] = peers[a]
      BY <1>1 DEF Queue, Waits, Inv, Sockets, SocketsType
    <2>2. a = d => Queue(a)' = <<>> /\ peers'[a] = {}
      BY <1>1, <1>3 DEF Queue, Inv, Sockets, SocketsType
    <2>3. a = d => \A e \in Devices : pending'[a][e]["main"] = 0
      BY <1>1, <1>3 DEF None, Inv, Sockets, SocketsType
    <2>4. Waits(a)' = [e \in Devices |-> pending'[a][e]["main"]]
      BY DEF Waits
    <2>. QED BY <2>1, <2>2, <2>3, <2>4
  <1>5. ASSUME NEW a \in Devices
        PROVE  /\ Single(Queue(a)', Waits(a)', peers'[a])
               /\ \A k : k # 0 /\ Has(Queue(a)', Waits(a)', peers'[a], k) =>
                      Has(Queue(a), Waits(a), peers[a], k)
    <2>1. CASE a # d
      BY <1>4, <2>1 DEF Places, OnePlace
    <2>2. CASE a = d
      <3>1. Len(Queue(a)') = 0 /\ peers'[a] = {} /\ \A e \in Devices : Waits(a)'[e] = 0
        BY <1>4, <2>2
      <3>2. 1..Len(Queue(a)') = {}
        BY <3>1
      <3>3. Single(Queue(a)', Waits(a)', peers'[a])
        BY <3>1, <3>2 DEF Single
      <3>4. \A k : k # 0 => ~Has(Queue(a)', Waits(a)', peers'[a], k)
        BY <3>1, <3>2 DEF Has
      <3>. QED BY <3>3, <3>4
    <2>. QED BY <2>1, <2>2
  <1>6. PeerAddress'
    <2>1. ASSUME NEW a \in Devices, NEW r \in peers'[a]
          PROVE  link'[r.main].from = r.ip
      <3>1. r \in peers[a]
        BY <1>4
      <3>2. r.main \in DOMAIN link /\ r.main \in DOMAIN link'
        BY <3>1, <2>1 DEF Inv, Sockets, SocketsType
      <3>. QED BY <1>2, <3>1, <3>2 DEF Advances, Places, PeerAddress
    <2>. QED BY <2>1 DEF PeerAddress
  <1>. QED BY <1>2, <1>5, <1>6, PlacesShrink DEF Places

LEMMA PlacesInit == Init => Places
  <1>. SUFFICES ASSUME Init PROVE Places
    OBVIOUS
  <1>1. DOMAIN link = {} /\ "main" \in Channels /\ "file" \in Channels
    BY DEF Init, Channels
  <1>2. ASSUME NEW d \in Devices
        PROVE  Queue(d) = <<>> /\ peers[d] = {} /\ \A e \in Devices : Waits(d)[e] = 0
    BY <1>1 DEF Init, Queue, Waits, None
  <1>3. \A d \in Devices : 1..Len(Queue(d)) = {}
    <2>1. 1..Len(<<>>) = {}
      OBVIOUS
    <2>. QED BY <1>2, <2>1
  <1>4. OnePlace
    BY <1>2, <1>3 DEF OnePlace, Single
  <1>. QED BY <1>1, <1>2, <1>4 DEF Places, MadeOnce, PeerAddress

LEMMA PlacesStep == Inv /\ Places /\ [Next]_vars => Places'
  <1>. SUFFICES ASSUME Inv, Places, [Next]_vars PROVE Places'
    OBVIOUS
  <1>1. Inv'
    BY InvStep
  <1>2. CASE Forgotten
    <2>1. PICK l \in DOMAIN link : Forget(l)
      BY <1>2 DEF Forgotten
    <2>2. UNCHANGED serverVars /\ link' = [k \in DOMAIN link \ {l} |-> link[k]]
      BY <2>1 DEF Forget
    <2>3. Advances
      BY <2>2 DEF Advances
    <2>. QED BY <1>1, <2>2, <2>3, PlacesFrame
  <1>3. CASE \/ \E d \in Devices : Find(d)
             \/ \E d \in Devices : \E e \in Others(d) : Probe(d, e)
             \/ Answered \/ \E d \in Devices : Restart(d)
    <2>1. UNCHANGED serverVars /\ UNCHANGED link
      BY <1>3 DEF Find, Probe, Answered, Match, Restart
    <2>2. Advances
      BY <2>1 DEF Advances
    <2>. QED BY <1>1, <2>1, <2>2, PlacesFrame
  <1>4. CASE Matched
    <2>1. PICK m \in datagrams : OnMatch(m)
      BY <1>4 DEF Matched
    <2>2. m.to \in Devices /\ m.from \in Devices
      BY DEF Inv, WorldType
    <2>3. UNCHANGED serverVars /\ ConnectTo(m.to, m.from)
      BY <2>1 DEF OnMatch
    <2>4. Advances
      BY <2>2, <2>3, ConnectToAdvances DEF Inv, Tables
    <2>. QED BY <1>1, <2>3, <2>4, PlacesFrame
  <1>5. CASE Established
    BY <1>1, <1>5, EstablishPlaces DEF Established
  <1>6. CASE Handled
    <2>1. PICK l \in DOMAIN link, c \in Channels, ok \in BOOLEAN : ConnectDone(l, c, ok)
      BY <1>6 DEF Handled
    <2>2. UNCHANGED serverVars
      BY <2>1 DEF ConnectDone
    <2>3. Advances
      BY <2>1, ConnectDoneAdvances DEF Inv, Tables
    <2>. QED BY <1>1, <2>2, <2>3, PlacesFrame
  <1>7. CASE Accepted
    BY <1>1, <1>7, AcceptPlaces DEF Accepted
  <1>8. CASE Noticed
    BY <1>1, <1>8, PeerLostPlaces DEF Noticed
  <1>9. CASE \E l \in DOMAIN link : SendFails(l)
    <2>1. PICK l \in DOMAIN link : SendFails(l)
      BY <1>9
    <2>2. UNCHANGED serverVars /\ link' = Closed(link, l)
      BY <2>1 DEF SendFails
    <2>3. Advances
      BY <2>2, CloseAdvances DEF Advances, Inv, Tables
    <2>. QED BY <1>1, <2>2, <2>3, PlacesFrame
  <1>10. CASE \E d \in Devices : Crash(d)
    BY <1>1, <1>10, CrashPlaces
  <1>11. CASE UNCHANGED vars
    <2>1. UNCHANGED serverVars /\ UNCHANGED link
      BY <1>11 DEF vars, serverVars
    <2>2. Advances
      BY <2>1 DEF Advances
    <2>. QED BY <1>1, <2>1, <2>2, PlacesFrame
  <1>. QED BY <1>2, <1>3, <1>4, <1>5, <1>6, <1>7, <1>8, <1>9, <1>10, <1>11 DEF Next, Step

\* m_pending and the acceptors never give a device two live incoming connections
\* from another, whatever order its sockets are accepted in and however often it
\* connects anew.
THEOREM OnePeerAlive == Spec => []OneLivePeer
  <1>1. Inv /\ Places => OneLivePeer
    <2>1. ASSUME Inv, Places, NEW d \in Devices, NEW p \in peers[d], NEW r \in peers[d],
                 p.ip = r.ip, link[p.main].open, link[r.main].open
          PROVE  p = r
      <3>1. p.main \in DOMAIN link /\ r.main \in DOMAIN link
        BY <2>1 DEF Inv, Sockets, SocketsType
      <3>2. /\ link[p.main].to = d /\ link[r.main].to = d
            /\ link[p.main].from = p.ip /\ link[r.main].from = r.ip
        BY <2>1 DEF Inv, Sockets, SocketsMatch, Places, PeerAddress
      <3>3. clients[p.ip][d] = p.main /\ clients[r.ip][d] = r.main
        BY <2>1, <3>1, <3>2 DEF Inv, Tables, OpenLinksAreHeld
      <3>. QED BY <2>1, <3>3 DEF Places, OnePlace, Single
    <2>. QED BY <2>1 DEF OneLivePeer
  <1>2. Init => Inv /\ Places
    BY InitInv, PlacesInit
  <1>3. Inv /\ Places /\ [Next]_vars => (Inv /\ Places)'
    BY InvStep, PlacesStep
  <1>. QED BY <1>1, <1>2, <1>3, PTL DEF Spec
=============================================================================
