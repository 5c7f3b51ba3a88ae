---------------------------- MODULE NetworkProofs ----------------------------
(***************************************************************************)
(* The controllers' tables for any number of devices, links and faults:    *)
(* they agree, they refer to links that exist, and no open link is         *)
(* forgotten.                                                              *)
(***************************************************************************)
EXTENDS Network, SequenceTheorems, TLAPS

\* The client listed for a device is a link to that device.
ClientsMatch ==
  \A d, e \in Devices :
    clients[d][e] # 0 => link[clients[d][e]].from = d /\ link[clients[d][e]].to = e

\* The sockets a device has accepted, or will, are of links to it, and those
\* waiting for a partner are filed under the device they come from.
SocketsMatch ==
  /\ \A d \in Devices, c \in Channels : \A i \in 1..Len(backlog[d][c]) :
       link[backlog[d][c][i]].to = d
  /\ \A d, e \in Devices, c \in Channels :
       pending[d][e][c] # 0 => link[pending[d][e][c]].to = d /\ link[pending[d][e][c]].from = e
  /\ \A d \in Devices : \A p \in peers[d] : link[p.main].to = d /\ link[p.file].to = d

Tables == TablesType /\ ClientsMatch /\ ListedHaveClients /\ OpenLinksAreHeld
Sockets == SocketsType /\ SocketsMatch
Inv == WorldType /\ Tables /\ Sockets

\* The initial state satisfies the invariant.
LEMMA InitInv == Init => Inv
  <1>. SUFFICES ASSUME Init PROVE Inv
    OBVIOUS
  <1>. USE DEF Init
  <1>1. WorldType
    BY NetworkAssumption DEF WorldType, NetworkAssumption
  <1>2. TablesType
    <2>1. DOMAIN link = {}
      OBVIOUS
    <2>. QED BY <2>1 DEF TablesType
  <1>3. ClientsMatch /\ ListedHaveClients /\ OpenLinksAreHeld
    BY DEF ClientsMatch, ListedHaveClients, OpenLinksAreHeld
  <1>4. SocketsType
    BY DEF SocketsType, None
  <1>5. SocketsMatch
    BY DEF SocketsMatch, None
  <1>. QED BY <1>1, <1>2, <1>3, <1>4, <1>5 DEF Inv, Tables, Sockets

-----------------------------------------------------------------------------
\* A sequence is one over every set that has its elements.
LEMMA SeqOver ==
  ASSUME NEW S, NEW T, NEW s \in Seq(S), \A i \in 1..Len(s) : s[i] \in T
  PROVE  s \in Seq(T)
  <1>1. s \in [1..Len(s) -> T] /\ Len(s) \in Nat
    OBVIOUS
  <1>. QED BY <1>1, SeqDef

\* Links that exist stay, with the same ends.
SameEnds ==
  /\ DOMAIN link \subseteq DOMAIN link'
  /\ \A l \in DOMAIN link : link'[l].from = link[l].from /\ link'[l].to = link[l].to

\* Sockets that were there before, of links with the same ends, still match.
LEMMA OtherSockets ==
  ASSUME Sockets, SameEnds, UNCHANGED <<backlog, pending>>,
         \A b \in Devices : peers'[b] \subseteq peers[b]
  PROVE  SocketsMatch'
  <1>. USE DEF Sockets, SameEnds
  <1>1. ASSUME NEW d \in Devices, NEW c \in Channels, NEW i \in 1..Len(backlog[d][c])
        PROVE  link'[backlog[d][c][i]].to = d
    <2>1. backlog[d][c] \in Seq(DOMAIN link)
      BY DEF SocketsType
    <2>. QED BY <2>1 DEF SocketsMatch
  <1>2. ASSUME NEW d \in Devices, NEW e \in Devices, NEW c \in Channels, pending[d][e][c] # 0
        PROVE  link'[pending[d][e][c]].to = d /\ link'[pending[d][e][c]].from = e
    <2>1. pending[d][e][c] \in DOMAIN link
      BY <1>2 DEF SocketsType
    <2>. QED BY <1>2, <2>1 DEF SocketsMatch
  <1>3. ASSUME NEW d \in Devices, NEW p \in peers'[d]
        PROVE  link'[p.main].to = d /\ link'[p.file].to = d
    <2>1. p \in peers[d]
      OBVIOUS
    <2>2. p.main \in DOMAIN link /\ p.file \in DOMAIN link
      BY <2>1 DEF SocketsType
    <2>. QED BY <2>1, <2>2 DEF SocketsMatch
  <1>. QED BY <1>1, <1>2, <1>3 DEF SocketsMatch

\* The sockets a device has accepted are not concerned by what becomes of the
\* other end of their links.
LEMMA SocketsFrame ==
  ASSUME Sockets, SameEnds, UNCHANGED serverVars
  PROVE  Sockets'
  <1>. USE DEF Sockets, SameEnds, serverVars
  <1>1. backlog' \in [Devices -> [Channels -> Seq(DOMAIN link')]]
    <2>1. ASSUME NEW d \in Devices, NEW c \in Channels
          PROVE  backlog[d][c] \in Seq(DOMAIN link')
      <3>1. backlog[d][c] \in Seq(DOMAIN link)
        BY DEF SocketsType
      <3>2. \A i \in 1..Len(backlog[d][c]) : backlog[d][c][i] \in DOMAIN link'
        BY <3>1
      <3>. QED BY <3>1, <3>2, SeqOver
    <2>. QED BY <2>1 DEF SocketsType
  <1>2. pending' \in [Devices -> [Devices -> [Channels -> DOMAIN link' \cup {0}]]]
    BY DEF SocketsType
  <1>3. peers' \in [Devices -> SUBSET [ip : Devices, main : DOMAIN link', file : DOMAIN link']]
    BY DEF SocketsType
  <1>4. SocketsMatch'
    BY OtherSockets
  <1>. QED BY <1>1, <1>2, <1>3, <1>4 DEF SocketsType

-----------------------------------------------------------------------------
\* close() changes nothing of a link but that it is closed.
LEMMA ClosedEffect ==
  ASSUME TablesType, NEW l \in DOMAIN link \cup {0}
  PROVE  /\ Closed(link, l) \in [DOMAIN link -> LinkStates]
         /\ \A k \in DOMAIN link :
              /\ Closed(link, l)[k].from = link[k].from /\ Closed(link, l)[k].to = link[k].to
              /\ Closed(link, l)[k].open => link[k].open /\ k # l
  <1>. USE DEF TablesType
  <1>1. 0 \notin DOMAIN link
    BY DEF Links
  <1>2. CASE l = 0
    BY <1>1, <1>2 DEF Closed
  <1>3. CASE l # 0
    <2>1. link \in [DOMAIN link -> LinkStates] /\ l \in DOMAIN link
      BY <1>3
    <2>2. Closed(link, l) = [link EXCEPT ![l] = [link[l] EXCEPT !.open = FALSE, !.connected = FALSE]]
      BY <1>3, <2>1 DEF Closed, LinkStates
    <2>3. [link[l] EXCEPT !.open = FALSE, !.connected = FALSE] \in LinkStates
      BY <2>1 DEF LinkStates
    <2>4. Closed(link, l) \in [DOMAIN link -> LinkStates]
      BY <2>1, <2>2, <2>3
    <2>5. \A k \in DOMAIN link : k # l => Closed(link, l)[k] = link[k]
      BY <2>2
    <2>6. Closed(link, l)[l] = [link[l] EXCEPT !.open = FALSE, !.connected = FALSE]
      BY <2>1, <2>2
    <2>7. /\ Closed(link, l)[l].from = link[l].from /\ Closed(link, l)[l].to = link[l].to
          /\ ~Closed(link, l)[l].open
      BY <2>1, <2>6 DEF LinkStates
    <2>. QED BY <2>4, <2>5, <2>7
  <1>. QED BY <1>2, <1>3

\* The tables stay in step with links that change otherwise than by opening.
LEMMA TablesFrame ==
  ASSUME Tables, UNCHANGED <<devices, clients>>, SameEnds,
         link' \in [DOMAIN link -> LinkStates],
         \A l \in DOMAIN link : link'[l].open => link[l].open
  PROVE  Tables'
  <1>1. DOMAIN link' = DOMAIN link
    OBVIOUS
  <1>2. TablesType'
    BY <1>1 DEF Tables, TablesType
  <1>3. ClientsMatch'
    <2>1. ASSUME NEW d \in Devices, NEW e \in Devices, clients[d][e] # 0
          PROVE  link'[clients[d][e]].from = d /\ link'[clients[d][e]].to = e
      <3>1. clients[d][e] \in DOMAIN link
        BY <2>1 DEF Tables, TablesType
      <3>. QED BY <2>1, <3>1 DEF Tables, ClientsMatch, SameEnds
    <2>. QED BY <2>1 DEF ClientsMatch
  <1>4. ListedHaveClients'
    BY DEF Tables, ListedHaveClients
  <1>5. OpenLinksAreHeld'
    BY <1>1 DEF Tables, OpenLinksAreHeld, SameEnds
  <1>. QED BY <1>2, <1>3, <1>4, <1>5 DEF Tables

\* A device whose incoming connection is lost leaves both tables at once, and
\* its link is closed.
LEMMA OnPeerClosedStep ==
  ASSUME Tables, NEW d \in Devices, NEW e \in Devices, OnPeerClosed(d, e)
  PROVE  Tables' /\ SameEnds /\ DOMAIN link' = DOMAIN link
  <1>. DEFINE l == clients[d][e]
  <1>1. l \in DOMAIN link \cup {0}
    BY DEF Tables, TablesType
  <1>2. /\ link' \in [DOMAIN link -> LinkStates]
        /\ \A k \in DOMAIN link : link'[k].from = link[k].from /\ link'[k].to = link[k].to
        /\ \A k \in DOMAIN link : link'[k].open => link[k].open /\ k # l
    BY <1>1, ClosedEffect DEF Tables, OnPeerClosed
  <1>3. DOMAIN link' = DOMAIN link /\ SameEnds
    BY <1>2 DEF SameEnds
  <1>4. /\ clients' = [clients EXCEPT ![d][e] = 0]
        /\ devices' = [devices EXCEPT ![d] = @ \ {e}]
    BY DEF OnPeerClosed
  <1>5. TablesType'
    BY <1>2, <1>3, <1>4 DEF Tables, TablesType
  <1>6. \A a, b \in Devices : clients'[a][b] = IF a = d /\ b = e THEN 0 ELSE clients[a][b]
    BY <1>4 DEF Tables, TablesType
  <1>7. ClientsMatch'
    <2>1. ASSUME NEW a \in Devices, NEW b \in Devices, clients'[a][b] # 0
          PROVE  link'[clients'[a][b]].from = a /\ link'[clients'[a][b]].to = b
      <3>1. clients'[a][b] = clients[a][b] /\ clients[a][b] \in DOMAIN link
        BY <1>6, <2>1 DEF Tables, TablesType
      <3>. QED BY <1>2, <2>1, <3>1 DEF Tables, ClientsMatch
    <2>. QED BY <2>1 DEF ClientsMatch
  <1>8. ListedHaveClients'
    <2>1. ASSUME NEW a \in Devices, NEW b \in Devices
          PROVE  b \in devices'[a] <=> clients'[a][b] # 0
      <3>1. b \in devices'[a] <=> b \in devices[a] /\ ~(a = d /\ b = e)
        BY <1>4 DEF Tables, TablesType
      <3>2. b \in devices[a] <=> clients[a][b] # 0
        BY DEF Tables, ListedHaveClients
      <3>. QED BY <1>6, <3>1, <3>2
    <2>. QED BY <2>1 DEF ListedHaveClients
  <1>9. OpenLinksAreHeld'
    <2>1. ASSUME NEW k \in DOMAIN link, link'[k].open
          PROVE  clients'[link'[k].from][link'[k].to] = k
      <3>1. link[k].open /\ k # l
        BY <1>2, <2>1
      <3>2. clients[link[k].from][link[k].to] = k
        BY <3>1 DEF Tables, OpenLinksAreHeld
      <3>3. link[k].from \in Devices /\ link[k].to \in Devices
        BY DEF Tables, TablesType, LinkStates
      <3>. QED BY <1>2, <1>6, <3>1, <3>2, <3>3
    <2>. QED BY <1>3, <2>1 DEF OpenLinksAreHeld
  <1>. QED BY <1>3, <1>5, <1>7, <1>8, <1>9 DEF Tables

\* connectTo() puts a new link in the place of one it closes.
LEMMA ReplaceStep ==
  ASSUME Tables, NEW d \in Devices, NEW e \in Devices,
         devices' = [devices EXCEPT ![d] = @ \cup {e}],
         ~Connected(d, e), ConnectTo(d, e)
  PROVE  Tables' /\ SameEnds
  <1>. DEFINE old == clients[d][e]
              l == CHOOSE k \in Links \ DOMAIN link : TRUE
  <1>1. /\ Links \ DOMAIN link # {}
        /\ clients' = [clients EXCEPT ![d][e] = l]
        /\ link' = [k \in DOMAIN link \cup {l} |->
                      IF k = l THEN Link(d, e) ELSE Closed(link, old)[k]]
    BY DEF ConnectTo, MakesWay
  <1>2. l \in Links /\ l \notin DOMAIN link /\ l # 0
    BY <1>1 DEF Links
  <1>3. old \in DOMAIN link \cup {0}
    BY DEF Tables, TablesType
  <1>. HIDE DEF l, old
  <1>4. DOMAIN link' = DOMAIN link \cup {l} /\ link'[l] = Link(d, e)
    BY <1>1
  <1>5. \A k \in DOMAIN link : link'[k] = Closed(link, old)[k]
    BY <1>1, <1>2
  <1>6. /\ Closed(link, old) \in [DOMAIN link -> LinkStates]
        /\ \A k \in DOMAIN link :
             /\ Closed(link, old)[k].from = link[k].from /\ Closed(link, old)[k].to = link[k].to
             /\ Closed(link, old)[k].open => link[k].open /\ k # old
    BY <1>3, ClosedEffect DEF Tables
  <1>7. SameEnds
    BY <1>4, <1>5, <1>6 DEF SameEnds
  <1>8. Link(d, e) \in LinkStates /\ Link(d, e).from = d /\ Link(d, e).to = e
    BY DEF Link, LinkStates
  <1>9. link' \in [DOMAIN link' -> LinkStates]
    BY <1>1, <1>4, <1>5, <1>6, <1>8
  <1>10. \A a, b \in Devices : clients'[a][b] = IF a = d /\ b = e THEN l ELSE clients[a][b]
    BY <1>1 DEF Tables, TablesType
  <1>11. TablesType'
    <2>1. DOMAIN link' \in SUBSET Links
      BY <1>2, <1>4 DEF Tables, TablesType
    <2>2. clients' \in [Devices -> [Devices -> DOMAIN link' \cup {0}]]
      BY <1>1, <1>4 DEF Tables, TablesType
    <2>. QED BY <1>9, <2>1, <2>2 DEF Tables, TablesType
  <1>12. ClientsMatch'
    <2>1. ASSUME NEW a \in Devices, NEW b \in Devices, clients'[a][b] # 0
          PROVE  link'[clients'[a][b]].from = a /\ link'[clients'[a][b]].to = b
      <3>1. CASE a = d /\ b = e
        BY <1>4, <1>8, <1>10, <3>1
      <3>2. CASE ~(a = d /\ b = e)
        <4>1. clients'[a][b] = clients[a][b] /\ clients[a][b] \in DOMAIN link
          BY <1>10, <2>1, <3>2 DEF Tables, TablesType
        <4>. QED BY <1>7, <2>1, <4>1 DEF Tables, ClientsMatch, SameEnds
      <3>. QED BY <3>1, <3>2
    <2>. QED BY <2>1 DEF ClientsMatch
  <1>13. ListedHaveClients'
    <2>1. ASSUME NEW a \in Devices, NEW b \in Devices
          PROVE  b \in devices'[a] <=> clients'[a][b] # 0
      <3>1. b \in devices'[a] <=> b \in devices[a] \/ (a = d /\ b = e)
        BY DEF Tables, TablesType
      <3>2. b \in devices[a] <=> clients[a][b] # 0
        BY DEF Tables, ListedHaveClients
      <3>. QED BY <1>2, <1>10, <3>1, <3>2
    <2>. QED BY <2>1 DEF ListedHaveClients
  <1>14. OpenLinksAreHeld'
    <2>1. ASSUME NEW k \in DOMAIN link', link'[k].open
          PROVE  clients'[link'[k].from][link'[k].to] = k
      <3>1. CASE k = l
        BY <1>4, <1>8, <1>10, <3>1
      <3>2. CASE k # l
        <4>1. k \in DOMAIN link /\ link[k].open /\ k # old
          BY <1>4, <1>5, <1>6, <2>1, <3>2
        <4>2. clients[link[k].from][link[k].to] = k
          BY <4>1 DEF Tables, OpenLinksAreHeld
        <4>3. link[k].from \in Devices /\ link[k].to \in Devices
          BY <4>1 DEF Tables, TablesType, LinkStates
        <4>4. ~(link[k].from = d /\ link[k].to = e)
          BY <4>1, <4>2 DEF old
        <4>. QED BY <1>5, <1>6, <1>10, <4>1, <4>2, <4>3, <4>4
      <3>. QED BY <3>1, <3>2
    <2>. QED BY <2>1 DEF OpenLinksAreHeld
  <1>. QED BY <1>7, <1>11, <1>12, <1>13, <1>14 DEF Tables

\* A device that is connected already is in the table already.
LEMMA ConnectedStep ==
  ASSUME Tables, NEW d \in Devices, NEW e \in Devices,
         devices' = [devices EXCEPT ![d] = @ \cup {e}],
         Connected(d, e), UNCHANGED <<clients, link>>
  PROVE  Tables' /\ SameEnds
  <1>1. e \in devices[d]
    BY DEF Tables, ListedHaveClients, Connected
  <1>2. devices' = devices
    BY <1>1 DEF Tables, TablesType
  <1>. QED BY <1>2 DEF Tables, TablesType, ClientsMatch, ListedHaveClients,
                       OpenLinksAreHeld, SameEnds

\* A link that nobody refers to can go.
LEMMA ForgetStep ==
  ASSUME Inv, NEW l \in DOMAIN link, Forget(l)
  PROVE  Inv'
  <1>. USE DEF Inv
  <1>1. /\ link' = [k \in DOMAIN link \ {l} |-> link[k]]
        /\ UNCHANGED <<up, faults, datagrams, devices, clients, backlog, pending, peers>>
    BY DEF Forget, serverVars
  <1>2. DOMAIN link' = DOMAIN link \ {l} /\ \A k \in DOMAIN link' : link'[k] = link[k]
    BY <1>1
  <1>3. \A d, e \in Devices : clients[d][e] # l
    <2>1. ASSUME NEW d \in Devices, NEW e \in Devices, clients[d][e] = l
          PROVE  FALSE
      <3>1. l # 0
        BY DEF Tables, TablesType, Links
      <3>2. link[l].from = d /\ link[l].to = e
        BY <2>1, <3>1 DEF Tables, ClientsMatch
      <3>. QED BY <2>1, <3>2 DEF Forget, Over
    <2>. QED BY <2>1
  <1>4. \A d, e \in Devices : clients[d][e] \in DOMAIN link' \cup {0}
    BY <1>2, <1>3 DEF Tables, TablesType
  <1>5. \A d \in Devices, c \in Channels : \A i \in 1..Len(backlog[d][c]) :
          backlog[d][c][i] \in DOMAIN link'
    <2>1. ASSUME NEW d \in Devices, NEW c \in Channels, NEW i \in 1..Len(backlog[d][c])
          PROVE  backlog[d][c][i] \in DOMAIN link'
      <3>1. backlog[d][c] \in Seq(DOMAIN link)
        BY DEF Sockets, SocketsType
      <3>2. backlog[d][c][i] # l
        BY DEF Forget, Over, Waiting
      <3>. QED BY <1>2, <3>1, <3>2
    <2>. QED BY <2>1
  <1>6. \A d, e \in Devices, c \in Channels : pending[d][e][c] \in DOMAIN link' \cup {0}
    <2>1. ASSUME NEW d \in Devices, NEW e \in Devices, NEW c \in Channels
          PROVE  pending[d][e][c] # l
      <3>1. l # 0
        BY DEF Tables, TablesType, Links
      <3>2. pending[d][e][c] = l => link[l].to = d /\ link[l].from = e
        BY <3>1 DEF Sockets, SocketsMatch
      <3>. QED BY <3>2 DEF Forget, Over, Held
    <2>. QED BY <1>2, <2>1 DEF Sockets, SocketsType
  <1>7. \A d \in Devices : \A p \in peers[d] : p.main \in DOMAIN link' /\ p.file \in DOMAIN link'
    <2>1. ASSUME NEW d \in Devices, NEW p \in peers[d]
          PROVE  p.main # l /\ p.file # l
      <3>1. p.main = l => link[l].to = d
        BY DEF Sockets, SocketsMatch
      <3>2. p.file = l => link[l].to = d
        BY DEF Sockets, SocketsMatch
      <3>3. p["main"] = l => Held(l, "main")
        BY <3>1 DEF Held
      <3>4. p["file"] = l => Held(l, "file")
        BY <3>2 DEF Held
      <3>. QED BY <3>3, <3>4 DEF Forget, Over, Channels
    <2>2. ASSUME NEW d \in Devices, NEW p \in peers[d]
          PROVE  p.main \in DOMAIN link /\ p.file \in DOMAIN link
      BY DEF Sockets, SocketsType
    <2>. QED BY <1>2, <2>1, <2>2
  <1>8. WorldType'
    BY <1>1 DEF WorldType
  <1>9. TablesType'
    <2>1. link' \in [DOMAIN link' -> LinkStates]
      BY <1>1, <1>2 DEF Tables, TablesType
    <2>2. clients' \in [Devices -> [Devices -> DOMAIN link' \cup {0}]]
      BY <1>1, <1>4 DEF Tables, TablesType
    <2>. QED BY <1>1, <1>2, <2>1, <2>2 DEF Tables, TablesType
  <1>10. ClientsMatch' /\ ListedHaveClients' /\ OpenLinksAreHeld'
    <2>1. ClientsMatch'
      BY <1>1, <1>2, <1>4 DEF Tables, ClientsMatch
    <2>2. ListedHaveClients'
      BY <1>1 DEF Tables, ListedHaveClients
    <2>3. OpenLinksAreHeld'
      BY <1>1, <1>2 DEF Tables, OpenLinksAreHeld
    <2>. QED BY <2>1, <2>2, <2>3
  <1>11. SocketsType'
    <2>1. backlog' \in [Devices -> [Channels -> Seq(DOMAIN link')]]
      <3>1. ASSUME NEW d \in Devices, NEW c \in Channels
            PROVE  backlog[d][c] \in Seq(DOMAIN link')
        <4>1. backlog[d][c] \in Seq(DOMAIN link)
          BY DEF Sockets, SocketsType
        <4>. QED BY <1>5, <4>1, SeqOver
      <3>. QED BY <1>1, <3>1 DEF Sockets, SocketsType
    <2>2. pending' \in [Devices -> [Devices -> [Channels -> DOMAIN link' \cup {0}]]]
      BY <1>1, <1>6 DEF Sockets, SocketsType
    <2>3. peers' \in [Devices -> SUBSET [ip : Devices, main : DOMAIN link', file : DOMAIN link']]
      BY <1>1, <1>7 DEF Sockets, SocketsType
    <2>. QED BY <2>1, <2>2, <2>3 DEF SocketsType
  <1>12. SocketsMatch'
    <2>1. ASSUME NEW d \in Devices, NEW c \in Channels, NEW i \in 1..Len(backlog'[d][c])
          PROVE  link'[backlog'[d][c][i]].to = d
      <3>1. backlog' = backlog
        BY <1>1
      <3>2. backlog[d][c][i] \in DOMAIN link'
        BY <1>5, <3>1
      <3>. QED BY <1>2, <3>1, <3>2 DEF Sockets, SocketsMatch
    <2>2. ASSUME NEW d \in Devices, NEW e \in Devices, NEW c \in Channels, pending'[d][e][c] # 0
          PROVE  link'[pending'[d][e][c]].to = d /\ link'[pending'[d][e][c]].from = e
      <3>1. pending' = pending /\ pending[d][e][c] \in DOMAIN link'
        BY <1>1, <1>6, <2>2
      <3>. QED BY <1>2, <2>2, <3>1 DEF Sockets, SocketsMatch
    <2>3. ASSUME NEW d \in Devices, NEW p \in peers'[d]
          PROVE  link'[p.main].to = d /\ link'[p.file].to = d
      <3>1. p \in peers[d] /\ p.main \in DOMAIN link' /\ p.file \in DOMAIN link'
        BY <1>1, <1>7
      <3>. QED BY <1>2, <3>1 DEF Sockets, SocketsMatch
    <2>. QED BY <2>1, <2>2, <2>3, Zenon DEF SocketsMatch
  <1>. QED BY <1>8, <1>9, <1>10, <1>11, <1>12 DEF Tables, Sockets

-----------------------------------------------------------------------------
\* Discovery sends packets, and does nothing else.
LEMMA PacketStep ==
  ASSUME Inv, UNCHANGED <<up, faults, devices, clients, link>>, UNCHANGED serverVars,
         datagrams' \in SUBSET [kind : {"discover", "match"}, from : Devices, to : Devices]
  PROVE  Inv'
  <1>1. WorldType'
    BY DEF Inv, WorldType
  <1>2. Tables'
    BY DEF Inv, Tables, TablesType, ClientsMatch, ListedHaveClients, OpenLinksAreHeld
  <1>3. Sockets'
    BY DEF Inv, Sockets, SocketsType, SocketsMatch, serverVars
  <1>. QED BY <1>1, <1>2, <1>3 DEF Inv

\* An answer that arrives keeps the tables in step.
LEMMA OnMatchStep ==
  ASSUME Inv, NEW m \in datagrams, OnMatch(m)
  PROVE  Inv'
  <1>1. m.to \in Devices /\ m.from \in Devices
    BY DEF Inv, WorldType
  <1>2. /\ devices' = [devices EXCEPT ![m.to] = @ \cup {m.from}]
        /\ ConnectTo(m.to, m.from)
        /\ UNCHANGED <<up, faults, datagrams>> /\ UNCHANGED serverVars
    BY DEF OnMatch
  <1>3. Tables' /\ SameEnds
    <2>1. CASE Connected(m.to, m.from)
      BY <1>1, <1>2, <2>1, ConnectedStep DEF ConnectTo, Inv
    <2>2. CASE ~Connected(m.to, m.from)
      BY <1>1, <1>2, <2>2, ReplaceStep DEF Inv
    <2>. QED BY <2>1, <2>2
  <1>4. Sockets'
    BY <1>2, <1>3, SocketsFrame DEF Inv
  <1>5. WorldType'
    BY <1>2 DEF Inv, WorldType
  <1>. QED BY <1>3, <1>4, <1>5 DEF Inv

-----------------------------------------------------------------------------
\* A connection that is established joins the queue of the device it leads to.
LEMMA EstablishStep ==
  ASSUME Inv, NEW l \in DOMAIN link, NEW cs \in SUBSET Channels, Establish(l, cs)
  PROVE  Inv'
  <1>1. /\ link' = [link EXCEPT ![l].made = @ \cup cs]
        /\ backlog' = [backlog EXCEPT ![link[l].to] =
                         [c \in Channels |-> IF c \in cs THEN Append(@[c], l) ELSE @[c]]]
        /\ UNCHANGED <<up, faults, datagrams, devices, clients, pending, peers>>
    BY DEF Establish
  <1>2. link \in [DOMAIN link -> LinkStates] /\ link[l] \in LinkStates
    BY DEF Inv, Tables, TablesType
  <1>3. link' = [link EXCEPT ![l] = [link[l] EXCEPT !.made = @ \cup cs]]
    BY <1>1, <1>2 DEF LinkStates
  <1>4. [link[l] EXCEPT !.made = @ \cup cs] \in LinkStates
    BY <1>2 DEF LinkStates
  <1>5. link' \in [DOMAIN link -> LinkStates]
    BY <1>2, <1>3, <1>4
  <1>6. \A k \in DOMAIN link : /\ link'[k].from = link[k].from /\ link'[k].to = link[k].to
                               /\ link'[k].open = link[k].open
    <2>1. \A k \in DOMAIN link : k # l => link'[k] = link[k]
      BY <1>3
    <2>2. link'[l] = [link[l] EXCEPT !.made = @ \cup cs]
      BY <1>2, <1>3
    <2>. QED BY <1>2, <2>1, <2>2 DEF LinkStates
  <1>7. DOMAIN link' = DOMAIN link /\ SameEnds
    BY <1>5, <1>6 DEF SameEnds
  <1>8. Tables'
    BY <1>1, <1>5, <1>6, <1>7, TablesFrame DEF Inv
  <1>. DEFINE t == link[l].to
  <1>9. t \in Devices
    BY <1>2 DEF LinkStates
  <1>. HIDE DEF t
  <1>10. ASSUME NEW d \in Devices, NEW c \in Channels
         PROVE  backlog'[d][c] = IF d = t /\ c \in cs THEN Append(backlog[d][c], l)
                                                      ELSE backlog[d][c]
    BY <1>1, <1>9 DEF t, Inv, Sockets, SocketsType
  <1>11. ASSUME NEW d \in Devices, NEW c \in Channels
         PROVE  /\ backlog'[d][c] \in Seq(DOMAIN link')
                /\ \A i \in 1..Len(backlog'[d][c]) : link'[backlog'[d][c][i]].to = d
    <2>. DEFINE q == backlog[d][c]
    <2>1. q \in Seq(DOMAIN link)
      BY DEF Inv, Sockets, SocketsType
    <2>2. \A i \in 1..Len(q) : link[q[i]].to = d
      BY DEF Inv, Sockets, SocketsMatch
    <2>. HIDE DEF q
    <2>3. \A i \in 1..Len(q) : link'[q[i]].to = d
      BY <1>6, <2>1, <2>2
    <2>4. CASE ~(d = t /\ c \in cs)
      <3>1. backlog'[d][c] = q
        BY <1>10, <2>4 DEF q
      <3>. QED BY <1>7, <2>1, <2>3, <3>1
    <2>5. CASE d = t /\ c \in cs
      <3>1. backlog'[d][c] = Append(q, l)
        BY <1>10, <2>5 DEF q
      <3>2. Append(q, l) \in Seq(DOMAIN link)
        BY <2>1
      <3>3. \A i \in 1..Len(Append(q, l)) : Append(q, l)[i] = l \/ (i \in 1..Len(q) /\ Append(q, l)[i] = q[i])
        BY <2>1
      <3>4. link'[l].to = d
        BY <1>6, <2>5 DEF t
      <3>5. \A i \in 1..Len(Append(q, l)) : link'[Append(q, l)[i]].to = d
        BY <2>3, <3>3, <3>4
      <3>. QED BY <1>7, <3>1, <3>2, <3>5
    <2>. QED BY <2>4, <2>5
  <1>12. SocketsType'
    <2>1. /\ DOMAIN backlog' = Devices
          /\ \A d \in Devices : DOMAIN backlog'[d] = Channels
          /\ backlog' = [d \in Devices |-> backlog'[d]]
          /\ \A d \in Devices : backlog'[d] = [c \in Channels |-> backlog'[d][c]]
      BY <1>1, <1>9 DEF t, Inv, Sockets, SocketsType
    <2>2. backlog' \in [Devices -> [Channels -> Seq(DOMAIN link')]]
      BY <1>11, <2>1
    <2>. QED BY <1>1, <1>7, <2>2 DEF Inv, Sockets, SocketsType
  <1>13. SocketsMatch'
    <2>1. \A d \in Devices, c \in Channels : \A i \in 1..Len(backlog'[d][c]) :
            link'[backlog'[d][c][i]].to = d
      BY <1>11
    <2>2. ASSUME NEW d \in Devices, NEW e \in Devices, NEW c \in Channels, pending'[d][e][c] # 0
          PROVE  link'[pending'[d][e][c]].to = d /\ link'[pending'[d][e][c]].from = e
      <3>1. pending'[d][e][c] = pending[d][e][c] /\ pending[d][e][c] \in DOMAIN link
        BY <1>1, <2>2 DEF Inv, Sockets, SocketsType
      <3>. QED BY <1>6, <2>2, <3>1 DEF Inv, Sockets, SocketsMatch
    <2>3. ASSUME NEW d \in Devices, NEW p \in peers'[d]
          PROVE  link'[p.main].to = d /\ link'[p.file].to = d
      <3>1. p \in peers[d] /\ p.main \in DOMAIN link /\ p.file \in DOMAIN link
        BY <1>1 DEF Inv, Sockets, SocketsType
      <3>. QED BY <1>6, <3>1 DEF Inv, Sockets, SocketsMatch
    <2>. QED BY <2>1, <2>2, <2>3, Zenon DEF SocketsMatch
  <1>14. WorldType'
    BY <1>1 DEF Inv, WorldType
  <1>. QED BY <1>8, <1>12, <1>13, <1>14 DEF Inv, Sockets

\* A link that changes, otherwise than by opening, disturbs no table.
LEMMA QuietStep ==
  ASSUME Inv, WorldType', UNCHANGED <<devices, clients>>, UNCHANGED serverVars,
         link' \in [DOMAIN link -> LinkStates],
         \A l \in DOMAIN link : /\ link'[l].from = link[l].from /\ link'[l].to = link[l].to
                                /\ link'[l].open => link[l].open
  PROVE  Inv'
  <1>1. SameEnds
    BY DEF SameEnds
  <1>2. Tables'
    BY <1>1, TablesFrame DEF Inv
  <1>3. Sockets'
    BY <1>1, SocketsFrame DEF Inv
  <1>. QED BY <1>2, <1>3 DEF Inv

\* The handlers of the two connects, in any order, successful or not.
LEMMA ConnectDoneStep ==
  ASSUME Inv, NEW l \in DOMAIN link, NEW c \in Channels, NEW ok \in BOOLEAN, ConnectDone(l, c, ok)
  PROVE  Inv'
  <1>. DEFINE rest == link[l].connecting \ {c}
              handled == [link EXCEPT ![l].connecting = rest, ![l].made = @ \ {c}]
              kept == [link[l] EXCEPT !.connecting = rest, !.made = @ \ {c}]
  <1>1. link \in [DOMAIN link -> LinkStates] /\ link[l] \in LinkStates
    BY DEF Inv, Tables, TablesType
  <1>2. rest \in SUBSET Channels
    BY <1>1 DEF LinkStates
  <1>3. handled = [link EXCEPT ![l] = kept]
    BY <1>1 DEF LinkStates
  <1>4. /\ kept \in LinkStates
        /\ kept.from = link[l].from /\ kept.to = link[l].to /\ kept.open = link[l].open
    BY <1>1, <1>2 DEF LinkStates
  <1>5. /\ UNCHANGED <<up, faults, datagrams, devices, clients>> /\ UNCHANGED serverVars
        /\ \/ link' = [handled EXCEPT ![l].connected = link[l].open /\ rest = {}]
           \/ link' = Closed(handled, l)
    BY DEF ConnectDone
  <1>. HIDE DEF rest, handled, kept
  <1>6. handled \in [DOMAIN link -> LinkStates] /\ handled[l] = kept
    BY <1>1, <1>3, <1>4
  <1>7. \E k \in LinkStates : /\ k.from = link[l].from /\ k.to = link[l].to
                              /\ k.open => link[l].open
                              /\ link' = [link EXCEPT ![l] = k]
    <2>1. CASE link' = [handled EXCEPT ![l].connected = link[l].open /\ rest = {}]
      <3>. DEFINE both == link[l].open /\ rest = {}
                  k == [kept EXCEPT !.connected = both]
      <3>1. both \in BOOLEAN
        BY DEF both
      <3>. HIDE DEF both
      <3>2. k \in LinkStates /\ k.from = link[l].from /\ k.to = link[l].to /\ k.open = link[l].open
        BY <1>4, <3>1 DEF LinkStates
      <3>3. link' = [handled EXCEPT ![l].connected = both]
        BY <2>1 DEF both
      <3>4. link' = [link EXCEPT ![l] = k]
        BY <1>1, <1>3, <1>6, <3>3
      <3>. QED BY <3>2, <3>4
    <2>2. CASE link' = Closed(handled, l)
      <3>. DEFINE k == [kept EXCEPT !.open = FALSE, !.connected = FALSE]
      <3>1. l # 0
        BY DEF Inv, Tables, TablesType, Links
      <3>2. k \in LinkStates /\ k.from = link[l].from /\ k.to = link[l].to /\ ~k.open
        BY <1>4 DEF LinkStates
      <3>3. Closed(handled, l) = [handled EXCEPT ![l].open = FALSE, ![l].connected = FALSE]
        BY <3>1 DEF Closed
      <3>4. link' = [link EXCEPT ![l] = k]
        BY <1>1, <1>3, <1>4, <1>6, <2>2, <3>3 DEF LinkStates
      <3>. QED BY <3>2, <3>4
    <2>. QED BY <1>5, <2>1, <2>2
  <1>8. link' \in [DOMAIN link -> LinkStates]
    BY <1>1, <1>7
  <1>9. \A k \in DOMAIN link : /\ link'[k].from = link[k].from /\ link'[k].to = link[k].to
                               /\ link'[k].open => link[k].open
    BY <1>1, <1>7
  <1>10. WorldType'
    BY <1>5 DEF Inv, WorldType
  <1>. QED BY <1>5, <1>8, <1>9, <1>10, QuietStep

\* One more fault, or none, is within the bound.
LEMMA FaultsStep ==
  ASSUME WorldType, UNCHANGED <<up, datagrams>>, Fault \/ UNCHANGED faults
  PROVE  WorldType'
  BY NetworkAssumption DEF NetworkAssumption, WorldType, Fault

\* A write that fails closes the link.
LEMMA SendFailsStep ==
  ASSUME Inv, NEW l \in DOMAIN link, SendFails(l)
  PROVE  Inv'
  <1>1. /\ link' = Closed(link, l)
        /\ UNCHANGED <<up, datagrams, devices, clients>> /\ UNCHANGED serverVars
        /\ Fault \/ UNCHANGED faults
    BY DEF SendFails
  <1>2. WorldType'
    BY <1>1, FaultsStep DEF Inv
  <1>3. /\ link' \in [DOMAIN link -> LinkStates]
        /\ \A k \in DOMAIN link : /\ link'[k].from = link[k].from /\ link'[k].to = link[k].to
                                  /\ link'[k].open => link[k].open
    BY <1>1, ClosedEffect DEF Inv, Tables
  <1>. QED BY <1>1, <1>2, <1>3, QuietStep

-----------------------------------------------------------------------------
\* A PeerConnection that goes takes its device's link to the other end with it.
LEMMA PeerLostStep ==
  ASSUME Inv, NEW d \in Devices, NEW p \in peers[d], PeerLost(d, p)
  PROVE  Inv'
  <1>1. /\ UNCHANGED <<up, datagrams, backlog, pending>>
        /\ Fault \/ UNCHANGED faults
        /\ peers' = [peers EXCEPT ![d] = @ \ {p}]
        /\ OnPeerClosed(d, p.ip)
    BY DEF PeerLost
  <1>2. p.ip \in Devices
    BY DEF Inv, Sockets, SocketsType
  <1>3. Tables' /\ SameEnds /\ DOMAIN link' = DOMAIN link
    BY <1>1, <1>2, OnPeerClosedStep DEF Inv
  <1>4. \A b \in Devices : peers'[b] \subseteq peers[b]
    BY <1>1 DEF Inv, Sockets, SocketsType
  <1>5. WorldType'
    BY <1>1, FaultsStep DEF Inv
  <1>6. SocketsType'
    BY <1>1, <1>3 DEF Inv, Sockets, SocketsType
  <1>7. SocketsMatch'
    BY <1>1, <1>3, <1>4, OtherSockets DEF Inv
  <1>. QED BY <1>3, <1>5, <1>6, <1>7 DEF Inv, Sockets

\* A socket that is accepted leaves the queue, and takes its place among those
\* that wait, or beside the one it completes a PeerConnection with.
LEMMA AcceptStep ==
  ASSUME Inv, NEW d \in Devices, NEW c \in Channels, Accept(d, c)
  PROVE  Inv'
  <1>. DEFINE q == backlog[d][c]
              l == Head(q)
              e == link[l].from
              pair == [pending[d][e] EXCEPT ![c] = l]
  <1>1. /\ q # <<>>
        /\ backlog' = [backlog EXCEPT ![d][c] = Tail(q)]
        /\ Pair(d, e, pair) \/ UNCHANGED <<pending, peers>>
        /\ UNCHANGED <<up, faults, datagrams, devices, clients, link>>
    BY DEF Accept, Inv, Sockets, SocketsType
  <1>2. q \in Seq(DOMAIN link) /\ \A i \in 1..Len(q) : link[q[i]].to = d
    BY DEF Inv, Sockets, SocketsType, SocketsMatch
  <1>3. pending[d] \in [Devices -> [Channels -> DOMAIN link \cup {0}]]
    BY DEF Inv, Sockets, SocketsType
  <1>. HIDE DEF q
  <1>4. l \in DOMAIN link /\ link[l].to = d
    BY <1>1, <1>2
  <1>5. e \in Devices /\ link[l].from = e
    BY <1>4 DEF Inv, Tables, TablesType, LinkStates
  <1>6. l # 0
    BY <1>4 DEF Inv, Tables, TablesType, Links
  <1>7. /\ Tail(q) \in Seq(DOMAIN link)
        /\ \A i \in 1..Len(Tail(q)) : link[Tail(q)[i]].to = d
    BY <1>1, <1>2
  <1>. HIDE DEF l, e
  <1>8. ASSUME NEW b \in Devices, NEW k \in Channels
        PROVE  backlog'[b][k] = IF b = d /\ k = c THEN Tail(q) ELSE backlog[b][k]
    BY <1>1 DEF Inv, Sockets, SocketsType
  <1>9. /\ backlog' \in [Devices -> [Channels -> Seq(DOMAIN link)]]
        /\ \A b \in Devices, k \in Channels : \A i \in 1..Len(backlog'[b][k]) :
             link[backlog'[b][k][i]].to = b
    <2>1. backlog' \in [Devices -> [Channels -> Seq(DOMAIN link)]]
      BY <1>1, <1>7 DEF Inv, Sockets, SocketsType
    <2>2. ASSUME NEW b \in Devices, NEW k \in Channels, NEW i \in 1..Len(backlog'[b][k])
          PROVE  link[backlog'[b][k][i]].to = b
      <3>1. CASE b = d /\ k = c
        BY <1>7, <1>8, <3>1
      <3>2. CASE ~(b = d /\ k = c)
        BY <1>8, <3>2 DEF Inv, Sockets, SocketsMatch
      <3>. QED BY <3>1, <3>2
    <2>. QED BY <2>1, <2>2
  <1>10. /\ pair \in [Channels -> DOMAIN link \cup {0}]
         /\ \A k \in Channels : pair[k] # 0 => link[pair[k]].to = d /\ link[pair[k]].from = e
    <2>1. pair \in [Channels -> DOMAIN link \cup {0}]
      BY <1>3, <1>4, <1>5
    <2>2. ASSUME NEW k \in Channels, pair[k] # 0
          PROVE  link[pair[k]].to = d /\ link[pair[k]].from = e
      <3>1. CASE k = c
        BY <1>3, <1>4, <1>5, <3>1
      <3>2. CASE k # c
        <4>1. pair[k] = pending[d][e][k]
          BY <1>3, <1>5, <3>2
        <4>. QED BY <1>5, <2>2, <4>1 DEF Inv, Sockets, SocketsMatch
      <3>. QED BY <3>1, <3>2
    <2>. QED BY <2>1, <2>2
  <1>. HIDE DEF pair
  <1>11. /\ pending' \in [Devices -> [Devices -> [Channels -> DOMAIN link \cup {0}]]]
         /\ \A a, b \in Devices, k \in Channels : pending'[a][b][k] # 0 =>
              link[pending'[a][b][k]].to = a /\ link[pending'[a][b][k]].from = b
    <2>1. CASE UNCHANGED pending
      BY <2>1 DEF Inv, Sockets, SocketsType, SocketsMatch
    <2>2. ASSUME NEW new \in {None, pair}, pending' = [pending EXCEPT ![d][e] = new]
          PROVE  /\ pending' \in [Devices -> [Devices -> [Channels -> DOMAIN link \cup {0}]]]
                 /\ \A a, b \in Devices, k \in Channels : pending'[a][b][k] # 0 =>
                      link[pending'[a][b][k]].to = a /\ link[pending'[a][b][k]].from = b
      <3>1. /\ new \in [Channels -> DOMAIN link \cup {0}]
            /\ \A k \in Channels : new[k] # 0 => link[new[k]].to = d /\ link[new[k]].from = e
        BY <1>10 DEF None
      <3>2. pending' \in [Devices -> [Devices -> [Channels -> DOMAIN link \cup {0}]]]
        BY <1>5, <2>2, <3>1 DEF Inv, Sockets, SocketsType
      <3>3. ASSUME NEW a \in Devices, NEW b \in Devices
            PROVE  pending'[a][b] = IF a = d /\ b = e THEN new ELSE pending[a][b]
        BY <1>5, <2>2 DEF Inv, Sockets, SocketsType
      <3>4. ASSUME NEW a \in Devices, NEW b \in Devices, NEW k \in Channels, pending'[a][b][k] # 0
            PROVE  link[pending'[a][b][k]].to = a /\ link[pending'[a][b][k]].from = b
        <4>1. CASE a = d /\ b = e
          BY <3>1, <3>3, <3>4, <4>1
        <4>2. CASE ~(a = d /\ b = e)
          BY <3>3, <3>4, <4>2 DEF Inv, Sockets, SocketsMatch
        <4>. QED BY <4>1, <4>2
      <3>. QED BY <3>2, <3>4
    <2>. QED BY <1>1, <2>1, <2>2 DEF Pair
  <1>12. /\ peers' \in [Devices -> SUBSET [ip : Devices, main : DOMAIN link, file : DOMAIN link]]
         /\ \A b \in Devices : \A p \in peers'[b] : link[p.main].to = b /\ link[p.file].to = b
    <2>1. CASE UNCHANGED peers
      BY <2>1 DEF Inv, Sockets, SocketsType, SocketsMatch
    <2>2. CASE /\ \A k \in Channels : pair[k] # 0
               /\ peers' = [peers EXCEPT ![d] =
                              @ \cup {[ip |-> e, main |-> pair["main"], file |-> pair["file"]]}]
      <3>. DEFINE new == [ip |-> e, main |-> pair["main"], file |-> pair["file"]]
      <3>1. "main" \in Channels /\ "file" \in Channels
        BY DEF Channels
      <3>2. pair["main"] \in DOMAIN link /\ pair["file"] \in DOMAIN link
        BY <1>10, <2>2, <3>1
      <3>3. new \in [ip : Devices, main : DOMAIN link, file : DOMAIN link]
        BY <1>5, <3>2
      <3>4. link[new.main].to = d /\ link[new.file].to = d
        BY <1>10, <2>2, <3>1
      <3>. HIDE DEF new
      <3>5. peers' = [peers EXCEPT ![d] = @ \cup {new}]
        BY <2>2 DEF new
      <3>6. peers' \in [Devices -> SUBSET [ip : Devices, main : DOMAIN link, file : DOMAIN link]]
        BY <3>3, <3>5 DEF Inv, Sockets, SocketsType
      <3>7. ASSUME NEW b \in Devices, NEW p \in peers'[b]
            PROVE  link[p.main].to = b /\ link[p.file].to = b
        <4>1. p \in peers[b] \/ (b = d /\ p = new)
          BY <3>5 DEF Inv, Sockets, SocketsType
        <4>. QED BY <3>4, <4>1 DEF Inv, Sockets, SocketsMatch
      <3>. QED BY <3>6, <3>7
    <2>. QED BY <1>1, <2>1, <2>2 DEF Pair
  <1>13. link' = link
    BY <1>1
  <1>14. SocketsType'
    BY <1>9, <1>11, <1>12, <1>13 DEF SocketsType
  <1>15. SocketsMatch'
    <2>1. \A b \in Devices, k \in Channels : \A i \in 1..Len(backlog'[b][k]) :
            link'[backlog'[b][k][i]].to = b
      BY <1>9, <1>13
    <2>2. \A a, b \in Devices, k \in Channels : pending'[a][b][k] # 0 =>
            link'[pending'[a][b][k]].to = a /\ link'[pending'[a][b][k]].from = b
      BY <1>11, <1>13
    <2>3. \A b \in Devices : \A p \in peers'[b] : link'[p.main].to = b /\ link'[p.file].to = b
      BY <1>12, <1>13
    <2>. QED BY <2>1, <2>2, <2>3, Zenon DEF SocketsMatch
  <1>16. Tables'
    BY <1>1 DEF Inv, Tables, TablesType, ClientsMatch, ListedHaveClients, OpenLinksAreHeld
  <1>17. WorldType'
    BY <1>1 DEF Inv, WorldType
  <1>. QED BY <1>14, <1>15, <1>16, <1>17 DEF Inv, Sockets

-----------------------------------------------------------------------------
\* A program that ends leaves no table, no socket and no open link behind.
LEMMA CrashStep ==
  ASSUME Inv, NEW d \in Devices, Crash(d)
  PROVE  Inv'
  <1>1. /\ up' = up \ {d} /\ faults < MaxFaults /\ faults' = faults + 1
        /\ UNCHANGED datagrams
        /\ devices' = [devices EXCEPT ![d] = {}]
        /\ clients' = [clients EXCEPT ![d] = [e \in Devices |-> 0]]
        /\ backlog' = [backlog EXCEPT ![d] = [c \in Channels |-> <<>>]]
        /\ pending' = [pending EXCEPT ![d] = [e \in Devices |-> None]]
        /\ peers' = [peers EXCEPT ![d] = {}]
        /\ link' = [l \in DOMAIN link |->
                      IF link[l].from = d
                      THEN [link[l] EXCEPT !.open = FALSE, !.connected = FALSE,
                                           !.connecting = {}, !.made = {}]
                      ELSE link[l]]
    BY DEF Crash
  <1>2. ASSUME NEW l \in DOMAIN link
        PROVE  /\ link'[l] \in LinkStates
               /\ link'[l].from = link[l].from /\ link'[l].to = link[l].to
               /\ link'[l].open => link[l].open /\ link[l].from # d
    <2>1. link[l] \in LinkStates
      BY DEF Inv, Tables, TablesType
    <2>2. CASE link[l].from = d
      <3>1. link'[l] = [link[l] EXCEPT !.open = FALSE, !.connected = FALSE,
                                       !.connecting = {}, !.made = {}]
        BY <1>1, <2>2
      <3>. QED BY <2>1, <3>1 DEF LinkStates
    <2>3. CASE link[l].from # d
      BY <1>1, <2>1, <2>3
    <2>. QED BY <2>2, <2>3
  <1>3. link' \in [DOMAIN link -> LinkStates] /\ DOMAIN link' = DOMAIN link /\ SameEnds
    BY <1>1, <1>2 DEF SameEnds
  <1>4. WorldType'
    <2>1. faults' \in 0..MaxFaults
      <3>1. faults \in 0..MaxFaults
        BY DEF Inv, WorldType
      <3>2. faults < MaxFaults /\ faults' = faults + 1
        BY <1>1
      <3>. QED BY <3>1, <3>2, NetworkAssumption DEF NetworkAssumption
    <2>2. up' \in SUBSET Devices
      BY <1>1 DEF Inv, WorldType
    <2>. QED BY <1>1, <2>1, <2>2 DEF Inv, WorldType
  <1>5. \A a \in Devices : /\ devices'[a] = IF a = d THEN {} ELSE devices[a]
                           /\ \A b \in Devices : clients'[a][b] = IF a = d THEN 0 ELSE clients[a][b]
    BY <1>1 DEF Inv, Tables, TablesType
  <1>6. TablesType'
    <2>1. clients' \in [Devices -> [Devices -> DOMAIN link \cup {0}]]
      BY <1>1 DEF Inv, Tables, TablesType
    <2>2. devices' \in [Devices -> SUBSET Devices]
      BY <1>1 DEF Inv, Tables, TablesType
    <2>. QED BY <1>3, <2>1, <2>2 DEF Inv, Tables, TablesType
  <1>7. ClientsMatch'
    <2>1. ASSUME NEW a \in Devices, NEW b \in Devices, clients'[a][b] # 0
          PROVE  link'[clients'[a][b]].from = a /\ link'[clients'[a][b]].to = b
      <3>1. clients'[a][b] = clients[a][b] /\ clients[a][b] \in DOMAIN link
        BY <1>5, <2>1 DEF Inv, Tables, TablesType
      <3>. QED BY <1>2, <2>1, <3>1 DEF Inv, Tables, ClientsMatch
    <2>. QED BY <2>1 DEF ClientsMatch
  <1>8. ListedHaveClients'
    BY <1>5 DEF Inv, Tables, ListedHaveClients
  <1>9. OpenLinksAreHeld'
    <2>1. ASSUME NEW l \in DOMAIN link, link'[l].open
          PROVE  clients'[link'[l].from][link'[l].to] = l
      <3>1. link[l].from \in Devices /\ link[l].to \in Devices
        BY DEF Inv, Tables, TablesType, LinkStates
      <3>. QED BY <1>2, <1>5, <2>1, <3>1 DEF Inv, Tables, OpenLinksAreHeld
    <2>. QED BY <1>3, <2>1 DEF OpenLinksAreHeld
  <1>10. SocketsType'
    <2>1. backlog' \in [Devices -> [Channels -> Seq(DOMAIN link)]]
      <3>. DEFINE none == [c \in Channels |-> <<>>]
      <3>1. none \in [Channels -> Seq(DOMAIN link)]
        OBVIOUS
      <3>2. backlog' = [backlog EXCEPT ![d] = none]
        BY <1>1
      <3>. HIDE DEF none
      <3>. QED BY <3>1, <3>2 DEF Inv, Sockets, SocketsType
    <2>2. pending' \in [Devices -> [Devices -> [Channels -> DOMAIN link \cup {0}]]]
      BY <1>1 DEF Inv, Sockets, SocketsType, None
    <2>3. peers' \in [Devices -> SUBSET [ip : Devices, main : DOMAIN link, file : DOMAIN link]]
      BY <1>1 DEF Inv, Sockets, SocketsType
    <2>. QED BY <1>3, <2>1, <2>2, <2>3 DEF SocketsType
  <1>11. SocketsMatch'
    <2>1. ASSUME NEW b \in Devices, NEW c \in Channels, NEW i \in 1..Len(backlog'[b][c])
          PROVE  link'[backlog'[b][c][i]].to = b
      <3>1. b # d /\ backlog'[b][c] = backlog[b][c]
        <4>1. CASE b = d
          <5>1. backlog'[b][c] = <<>>
            BY <1>1, <4>1 DEF Inv, Sockets, SocketsType
          <5>2. 1..Len(<<>>) = {}
            OBVIOUS
          <5>. QED BY <5>1, <5>2
        <4>2. CASE b # d
          BY <1>1, <4>2 DEF Inv, Sockets, SocketsType
        <4>. QED BY <4>1, <4>2
      <3>2. backlog[b][c] \in Seq(DOMAIN link)
        BY DEF Inv, Sockets, SocketsType
      <3>3. backlog[b][c][i] \in DOMAIN link
        BY <3>1, <3>2
      <3>. QED BY <1>2, <3>1, <3>3 DEF Inv, Sockets, SocketsMatch
    <2>2. ASSUME NEW a \in Devices, NEW b \in Devices, NEW c \in Channels, pending'[a][b][c] # 0
          PROVE  link'[pending'[a][b][c]].to = a /\ link'[pending'[a][b][c]].from = b
      <3>1. pending'[a][b][c] = pending[a][b][c]
        BY <1>1, <2>2 DEF Inv, Sockets, SocketsType, None
      <3>2. pending[a][b][c] \in DOMAIN link
        BY <2>2, <3>1 DEF Inv, Sockets, SocketsType
      <3>. QED BY <1>2, <2>2, <3>1, <3>2 DEF Inv, Sockets, SocketsMatch
    <2>3. ASSUME NEW b \in Devices, NEW p \in peers'[b]
          PROVE  link'[p.main].to = b /\ link'[p.file].to = b
      <3>1. p \in peers[b]
        BY <1>1 DEF Inv, Sockets, SocketsType
      <3>2. p.main \in DOMAIN link /\ p.file \in DOMAIN link
        BY <3>1 DEF Inv, Sockets, SocketsType
      <3>. QED BY <1>2, <3>1, <3>2 DEF Inv, Sockets, SocketsMatch
    <2>. QED BY <2>1, <2>2, <2>3 DEF SocketsMatch
  <1>. QED BY <1>4, <1>6, <1>7, <1>8, <1>9, <1>10, <1>11 DEF Inv, Tables, Sockets

\* A program that starts again has nothing yet.
LEMMA RestartStep ==
  ASSUME Inv, NEW d \in Devices, Restart(d)
  PROVE  Inv'
  <1>1. /\ up' = up \cup {d}
        /\ UNCHANGED <<faults, datagrams, devices, clients, link>> /\ UNCHANGED serverVars
    BY DEF Restart
  <1>2. WorldType'
    BY <1>1 DEF Inv, WorldType
  <1>3. Tables'
    BY <1>1 DEF Inv, Tables, TablesType, ClientsMatch, ListedHaveClients, OpenLinksAreHeld
  <1>4. Sockets'
    BY <1>1 DEF Inv, Sockets, SocketsType, SocketsMatch, serverVars
  <1>. QED BY <1>2, <1>3, <1>4 DEF Inv

-----------------------------------------------------------------------------
\* Every step preserves the invariant.
LEMMA InvStep == Inv /\ [Next]_vars => Inv'
  <1>. SUFFICES ASSUME Inv, [Next]_vars PROVE Inv'
    OBVIOUS
  <1>1. CASE Forgotten
    BY <1>1, ForgetStep DEF Forgotten
  <1>2. CASE Step
    <2>1. ASSUME NEW d \in Devices, Find(d) PROVE Inv'
      <3>1. datagrams' \in SUBSET [kind : {"discover", "match"}, from : Devices, to : Devices]
        BY <2>1 DEF Find, Packet, Others, Inv, WorldType
      <3>. QED BY <2>1, <3>1, PacketStep DEF Find
    <2>2. ASSUME NEW d \in Devices, NEW e \in Others(d), Probe(d, e) PROVE Inv'
      <3>1. datagrams' \in SUBSET [kind : {"discover", "match"}, from : Devices, to : Devices]
        BY <2>2 DEF Probe, Packet, Others, Inv, WorldType
      <3>. QED BY <2>2, <3>1, PacketStep DEF Probe
    <2>3. ASSUME NEW m \in datagrams, Match(m) PROVE Inv'
      <3>1. datagrams' \in SUBSET [kind : {"discover", "match"}, from : Devices, to : Devices]
        BY <2>3 DEF Match, Packet, Inv, WorldType
      <3>. QED BY <2>3, <3>1, PacketStep DEF Match
    <2>4. CASE Matched
      BY <2>4, OnMatchStep DEF Matched
    <2>5. CASE Established
      BY <2>5, EstablishStep DEF Established
    <2>6. CASE Handled
      BY <2>6, ConnectDoneStep DEF Handled
    <2>7. CASE Accepted
      BY <2>7, AcceptStep DEF Accepted
    <2>8. CASE Noticed
      BY <2>8, PeerLostStep DEF Noticed
    <2>9. ASSUME NEW l \in DOMAIN link, SendFails(l) PROVE Inv'
      BY <2>9, SendFailsStep
    <2>10. ASSUME NEW d \in Devices, Crash(d) \/ Restart(d) PROVE Inv'
      BY <2>10, CrashStep, RestartStep
    <2>. QED BY <1>2, <2>1, <2>2, <2>3, <2>4, <2>5, <2>6, <2>7, <2>8, <2>9, <2>10
             DEF Step, Answered
  <1>3. CASE UNCHANGED vars
    <2>1. UNCHANGED <<up, faults, devices, clients, link>> /\ UNCHANGED serverVars /\ UNCHANGED datagrams
      BY <1>3 DEF vars, serverVars
    <2>. QED BY <2>1, PacketStep DEF Inv, WorldType
  <1>. QED BY <1>1, <1>2, <1>3 DEF Next

\* The tables and the sockets stay as described, whatever is lost and whoever
\* ends, for any number of devices, links and faults.
THEOREM Invariance == Spec => []Inv
  <1>. QED BY InitInv, InvStep, PTL DEF Spec

\* m_clients, the queues of the acceptors, m_pending and the PeerConnections only
\* refer to links that still exist.
THEOREM NetworkTypeCorrect == Spec => []NetworkTypeOK
  <1>1. Inv => NetworkTypeOK
    BY DEF Inv, Tables, Sockets, NetworkTypeOK
  <1>. QED BY <1>1, Invariance, PTL

\* m_devices and m_clients agree: what is listed can be reached by connectTo() and
\* onPeerClosed(), and nothing that is not listed keeps a client.
THEOREM ListedAgree == Spec => []ListedHaveClients
  <1>1. Inv => ListedHaveClients
    BY DEF Inv, Tables
  <1>. QED BY <1>1, Invariance, PTL

\* connectTo() and onPeerClosed() leave no ClientSocket open that m_clients does
\* not hold.
THEOREM NoForgottenLink == Spec => []OpenLinksAreHeld
  <1>1. Inv => OpenLinksAreHeld
    BY DEF Inv, Tables
  <1>. QED BY <1>1, Invariance, PTL
=============================================================================
