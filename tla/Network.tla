------------------------------- MODULE Network --------------------------------
(***************************************************************************)
(* How the devices of a LAN find and connect to each other: discovery over *)
(* UDP (FinderClient.cpp, FinderServer.cpp), the table of devices and of   *)
(* outgoing connections (AppController.cpp), and the pairing of incoming   *)
(* sockets (ServerSocket.cpp).                                             *)
(*                                                                         *)
(* Every device runs the same program on one io thread; an action is one   *)
(* handler on one device, or a step of the network.  Datagrams are lost,   *)
(* duplicated and reordered.  A connection (a `link') is a ClientSocket on *)
(* one device and two TCP connections, which the other device accepts one  *)
(* by one.  What travels on them is left to ClientSocket and FileTransfer; *)
(* here a link only opens, is heard or not, and closes.                    *)
(***************************************************************************)
EXTENDS Integers, Sequences, FiniteSets

CONSTANTS
  Devices,     \* the devices, each known by its address
  MaxLinks,    \* bound: links that exist at a time
  MaxFaults    \* bound: how often a program ends or a connection breaks, in all

ASSUME NetworkAssumption ==
  /\ IsFiniteSet(Devices)
  /\ MaxLinks \in Nat
  /\ MaxFaults \in Nat

VARIABLES
  up,         \* the devices whose program is running
  faults,     \* how often one has ended, or the network has broken a connection
  datagrams,  \* discovery packets sent; each may arrive, ever again, or never
  devices,    \* m_devices: the addresses each device has listed
  clients,    \* m_clients: each device's link to another, 0 if none
  link,       \* the links that exist, by number
  backlog,    \* connections established and not yet accepted, per acceptor
  pending,    \* m_pending: sockets waiting for their partner, 0 if none
  peers       \* the PeerConnections that are listening

vars == <<up, faults, datagrams, devices, clients, link, backlog, pending, peers>>
serverVars == <<backlog, pending, peers>>

Channels == {"main", "file"}
Links == 1..MaxLinks
Others(d) == Devices \ {d}
None == [c \in Channels |-> 0]
Packet(kind, from, to) == [kind |-> kind, from |-> from, to |-> to]

\* A ClientSocket: whether its sockets are open, which connects are still to be
\* handled, which of these TCP has established, and m_connected.
Link(from, to) ==
  [from |-> from, to |-> to, open |-> TRUE, connecting |-> Channels,
   made |-> {}, connected |-> FALSE]

Init ==
  /\ up = Devices
  /\ faults = 0
  /\ datagrams = {}
  /\ devices = [d \in Devices |-> {}]
  /\ clients = [d \in Devices |-> [e \in Devices |-> 0]]
  /\ link = << >>
  /\ backlog = [d \in Devices |-> [c \in Channels |-> <<>>]]
  /\ pending = [d \in Devices |-> [e \in Devices |-> None]]
  /\ peers = [d \in Devices |-> {}]

-----------------------------------------------------------------------------
\* Discovery.

\* A device asks everybody, every three seconds.
Find(d) ==
  /\ d \in up
  /\ datagrams' = datagrams \cup {Packet("discover", d, e) : e \in Others(d)}
  /\ UNCHANGED <<up, faults, devices, clients, link>>
  /\ UNCHANGED serverVars

\* The user adds an address by hand: one device is asked.
Probe(d, e) ==
  /\ d \in up
  /\ datagrams' = datagrams \cup {Packet("discover", d, e)}
  /\ UNCHANGED <<up, faults, devices, clients, link>>
  /\ UNCHANGED serverVars

\* A datagram arrives.  What has been sent may always arrive once more, or never.
Received(m) == m \in datagrams /\ m.to \in up

\* A question is answered.
Match(m) ==
  /\ m.kind = "discover"
  /\ Received(m)
  /\ datagrams' = datagrams \cup {Packet("match", m.to, m.from)}
  /\ UNCHANGED <<up, faults, devices, clients, link>>
  /\ UNCHANGED serverVars

-----------------------------------------------------------------------------
\* The controller.

\* ClientSocket::close() on link l; 0 stands for no link.
Closed(links, l) ==
  IF l = 0 THEN links ELSE [links EXCEPT ![l].open = FALSE, ![l].connected = FALSE]

\* MUTANT: a client is not replaced, connected or not.
HasClient(d, e) == clients[d][e] # 0

\* The device is already connected.
Connected(d, e) == clients[d][e] # 0 /\ link[clients[d][e]].connected

\* MUTANT: a client that makes way for a new one is not closed.
LeftOpen(l) == link

\* A client that makes way for a new one is closed.
MakesWay(l) == Closed(link, l)

\* connectTo()
ConnectTo(d, e) ==
  \/ Connected(d, e) /\ UNCHANGED <<clients, link>>
  \/ /\ ~Connected(d, e)
     /\ Links \ DOMAIN link # {}
     /\ LET l == CHOOSE k \in Links \ DOMAIN link : TRUE IN
        /\ clients' = [clients EXCEPT ![d][e] = l]
        /\ link' = [k \in DOMAIN link \cup {l} |->
                      IF k = l THEN Link(d, e) ELSE MakesWay(clients[d][e])[k]]

\* An answer lists the device and connects to it.
OnMatch(m) ==
  /\ m.kind = "match"
  /\ Received(m)
  /\ devices' = [devices EXCEPT ![m.to] = @ \cup {m.from}]
  /\ ConnectTo(m.to, m.from)
  /\ UNCHANGED <<up, faults, datagrams>>
  /\ UNCHANGED serverVars

\* MUTANT: the client is closed and stays in the table.
CloseOnly(d, e) ==
  /\ link' = Closed(link, clients[d][e])
  /\ devices' = [devices EXCEPT ![d] = @ \ {e}]
  /\ UNCHANGED clients

\* MUTANT: the client is forgotten and stays open.
EraseWithoutClose(d, e) ==
  /\ clients' = [clients EXCEPT ![d][e] = 0]
  /\ devices' = [devices EXCEPT ![d] = @ \ {e}]
  /\ UNCHANGED link

\* onPeerClosed(): an incoming connection of e was lost.
OnPeerClosed(d, e) ==
  /\ link' = Closed(link, clients[d][e])
  /\ clients' = [clients EXCEPT ![d][e] = 0]
  /\ devices' = [devices EXCEPT ![d] = @ \ {e}]

-----------------------------------------------------------------------------
\* Outgoing connections.

\* TCP establishes some of a link's connections; the device accepts them later.
Establish(l, cs) ==
  /\ link[l].open
  /\ link[l].to \in up
  /\ cs \subseteq link[l].connecting \ link[l].made
  /\ link' = [link EXCEPT ![l].made = @ \cup cs]
  /\ backlog' = [backlog EXCEPT ![link[l].to] =
                   [c \in Channels |-> IF c \in cs THEN Append(@[c], l) ELSE @[c]]]
  /\ UNCHANGED <<up, faults, datagrams, devices, clients, pending, peers>>

\* onOne, for a connect that succeeded or failed.  A connect cancelled by close()
\* may have succeeded before; nobody asks a closed link whether it is connected.
ConnectDone(l, c, ok) ==
  LET rest == link[l].connecting \ {c}
      handled == [link EXCEPT ![l].connecting = rest, ![l].made = @ \ {c}]
  IN  /\ c \in link[l].connecting
      /\ \/ ok /\ c \in link[l].made
            /\ link' = [handled EXCEPT ![l].connected = link[l].open /\ rest = {}]
         \/ ~ok /\ (c \notin link[l].made \/ ~link[l].open)
            /\ link' = Closed(handled, l)
      /\ UNCHANGED <<up, faults, datagrams, devices, clients>>
      /\ UNCHANGED serverVars

Waiting(l) == \E d \in Devices, c \in Channels : \E i \in 1..Len(backlog[d][c]) : backlog[d][c][i] = l

\* The other device has the socket of link l for channel c.
Held(l, c) ==
  LET k == link[l] IN
  pending[k.to][k.from][c] = l \/ \E p \in peers[k.to] : p[c] = l

\* The network breaks a connection, as seen from one of its ends.
Fault == faults < MaxFaults /\ faults' = faults + 1

\* The user sends on a link of which the other end is gone: the write fails and
\* the link is closed, but stays in the table.
SendFails(l) ==
  /\ link[l].connected
  /\ \/ Fault
     \/ ~Waiting(l) /\ (\E c \in Channels : ~Held(l, c)) /\ UNCHANGED faults
  /\ link' = Closed(link, l)
  /\ UNCHANGED <<up, datagrams, devices, clients>>
  /\ UNCHANGED serverVars

\* MUTANT: nobody's reference but the handlers' is counted.
OverWhenClosed(l) == ~link[l].open /\ link[l].connecting = {}

\* The link is closed, its handlers are over, and neither end has a use for it.
Over(l) ==
  /\ ~link[l].open /\ link[l].connecting = {}
  /\ ~Waiting(l)
  /\ \A c \in Channels : ~Held(l, c)
  /\ clients[link[l].from][link[l].to] # l

\* It goes with the last reference to it, and its number is free.
Forget(l) ==
  /\ Over(l)
  /\ link' = [k \in DOMAIN link \ {l} |-> link[k]]
  /\ UNCHANGED <<up, faults, datagrams, devices, clients>>
  /\ UNCHANGED serverVars

-----------------------------------------------------------------------------
\* Incoming connections.

\* The two sockets waiting from e on d are `pair`: with both of them there the
\* PeerConnection listens and waits no longer.
Pair(d, e, pair) ==
  IF \A c \in Channels : pair[c] # 0
  THEN /\ peers' = [peers EXCEPT ![d] = @ \cup {[ip |-> e, main |-> pair["main"], file |-> pair["file"]]}]
       /\ pending' = [pending EXCEPT ![d][e] = None]
  ELSE /\ pending' = [pending EXCEPT ![d][e] = pair]
       /\ UNCHANGED peers

\* acceptLoop(): the socket takes its place beside the one from the same address,
\* and the place of one that came before it.  A socket whose other end has closed
\* may be accepted like any other, or have no address any more.
Accept(d, c) ==
  /\ d \in up
  /\ backlog[d][c] # <<>>
  /\ backlog' = [backlog EXCEPT ![d][c] = Tail(@)]
  /\ LET l == Head(backlog[d][c])  e == link[l].from IN
     \/ Pair(d, e, [pending[d][e] EXCEPT ![c] = l])
     \/ ~link[l].open /\ UNCHANGED <<pending, peers>>
  /\ UNCHANGED <<up, faults, datagrams, devices, clients, link>>

\* The other end of one of the sockets has closed.
Gone(p) == ~link[p.main].open \/ ~link[p.file].open

\* handleLost(): a read has failed.
PeerLost(d, p) ==
  /\ d \in up
  /\ Fault \/ (Gone(p) /\ UNCHANGED faults)
  /\ peers' = [peers EXCEPT ![d] = @ \ {p}]
  /\ OnPeerClosed(d, p.ip)
  /\ UNCHANGED <<up, datagrams, backlog, pending>>

-----------------------------------------------------------------------------
\* A program ends, and the system closes its sockets; it is started again.

Crash(d) ==
  /\ d \in up
  /\ faults < MaxFaults
  /\ up' = up \ {d}
  /\ faults' = faults + 1
  /\ devices' = [devices EXCEPT ![d] = {}]
  /\ clients' = [clients EXCEPT ![d] = [e \in Devices |-> 0]]
  /\ link' = [l \in DOMAIN link |->
                IF link[l].from = d
                THEN [link[l] EXCEPT !.open = FALSE, !.connected = FALSE,
                                     !.connecting = {}, !.made = {}]
                ELSE link[l]]
  /\ backlog' = [backlog EXCEPT ![d] = [c \in Channels |-> <<>>]]
  /\ pending' = [pending EXCEPT ![d] = [e \in Devices |-> None]]
  /\ peers' = [peers EXCEPT ![d] = {}]
  /\ UNCHANGED datagrams

Restart(d) ==
  /\ d \notin up
  /\ up' = up \cup {d}
  /\ UNCHANGED <<faults, datagrams, devices, clients, link>>
  /\ UNCHANGED serverVars

-----------------------------------------------------------------------------
Answered == \E m \in datagrams : Match(m)
Matched == \E m \in datagrams : OnMatch(m)
Established == \E l \in DOMAIN link, cs \in (SUBSET Channels) \ {{}} : Establish(l, cs)
Handled == \E l \in DOMAIN link, c \in Channels, ok \in BOOLEAN : ConnectDone(l, c, ok)
Accepted == \E d \in Devices, c \in Channels : Accept(d, c)
Noticed == \E d \in Devices : \E p \in peers[d] : PeerLost(d, p)
Forgotten == \E l \in DOMAIN link : Forget(l)

Step ==
  \/ \E d \in Devices : Find(d)
  \/ \E d \in Devices : \E e \in Others(d) : Probe(d, e)
  \/ Answered
  \/ Matched
  \/ Established
  \/ Handled
  \/ Accepted
  \/ Noticed
  \/ \E l \in DOMAIN link : SendFails(l)
  \/ \E d \in Devices : Crash(d) \/ Restart(d)

Next ==
  \/ Forgotten
  \/ (\A l \in DOMAIN link : ~Over(l)) /\ Step

Spec == Init /\ [][Next]_vars

\* What is established is handled and accepted, and what has closed is noticed.
FairSpec == Spec /\ WF_vars(Forgotten) /\ WF_vars(Handled) /\ WF_vars(Accepted) /\ WF_vars(Noticed)

-----------------------------------------------------------------------------
\* The environment in which devices meet: the two connects of an attempt succeed
\* or fail together, and before the next answer interferes.  Questions and answers
\* get through if they are repeated, and so do attempts to connect.

Calm ==
  \A l \in DOMAIN link \cap DOMAIN link' :
    /\ link'[l].open => (link'[l].connecting \ link'[l].made) \in {{}, Channels}
    /\ link[l].open /\ ~link'[l].open => link[l].connecting \in {{}, Channels} /\ link[l].made = {}

From(d) == {l \in DOMAIN link : link[l].from = d}

MeetFairness ==
  /\ WF_vars(Forgotten)
  /\ \A d \in Devices :
       /\ WF_vars(Find(d))
       /\ WF_vars(\E l \in From(d), c \in Channels, ok \in BOOLEAN : ConnectDone(l, c, ok))
       /\ SF_vars(\E l \in From(d) : Establish(l, Channels))
       /\ \A c \in Channels : WF_vars(Accept(d, c))
       /\ \A e \in Others(d) :
            /\ WF_vars(Match(Packet("discover", d, e)))
            /\ SF_vars(OnMatch(Packet("match", e, d)) /\ Calm)

MeetSpec == Init /\ [][Next /\ Calm]_vars /\ MeetFairness

-----------------------------------------------------------------------------
WorldType ==
  /\ up \in SUBSET Devices
  /\ faults \in 0..MaxFaults
  /\ datagrams \in SUBSET [kind : {"discover", "match"}, from : Devices, to : Devices]

LinkStates ==
  [from : Devices, to : Devices, open : BOOLEAN, connecting : SUBSET Channels,
   made : SUBSET Channels, connected : BOOLEAN]

TablesType ==
  /\ devices \in [Devices -> SUBSET Devices]
  /\ DOMAIN link \in SUBSET Links
  /\ link \in [DOMAIN link -> LinkStates]
  /\ clients \in [Devices -> [Devices -> DOMAIN link \cup {0}]]

SocketsType ==
  /\ backlog \in [Devices -> [Channels -> Seq(DOMAIN link)]]
  /\ pending \in [Devices -> [Devices -> [Channels -> DOMAIN link \cup {0}]]]
  /\ peers \in [Devices -> SUBSET [ip : Devices, main : DOMAIN link, file : DOMAIN link]]

\* The type invariant: no table and no queue refers to a link that is gone.
NetworkTypeOK == WorldType /\ TablesType /\ SocketsType

\* A device is listed if and only if it has a client.
ListedHaveClients ==
  \A d, e \in Devices : e \in devices[d] <=> clients[d][e] # 0

\* No ClientSocket is left open and forgotten: a link with open sockets is the
\* one in its device's table.  So there is one open link to a device at most.
OpenLinksAreHeld ==
  \A l \in DOMAIN link : link[l].open => clients[link[l].from][link[l].to] = l

\* Two incoming connections from one device are never both alive.
OneLivePeer ==
  \A d \in Devices : \A p, q \in peers[d] :
    (p.ip = q.ip /\ link[p.main].open /\ link[q.main].open) => p = q

\* A link that counts as connected is heard by the other device in the end, or
\* closed: one that is neither would not be retried (AppController.cpp:135).
Heard(l) == \E p \in peers[link[l].to] : p.main = l /\ p.file = l
HeardOrRetried ==
  \A l \in Links : (l \in DOMAIN link /\ link[l].connected) ~>
                   (l \notin DOMAIN link \/ ~link[l].connected \/ Heard(l))

\* Devices find each other and each hears the other, for good.
Meet == <>[](\A d \in Devices : \A e \in Others(d) : clients[d][e] # 0 /\ Heard(clients[d][e]))
=============================================================================
