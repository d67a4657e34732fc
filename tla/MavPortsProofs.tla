---------------------------- MODULE MavPortsProofs ----------------------------
(* Proofs about the connections of mavutil.py: what is read comes from the     *)
(* open socket and not from ourselves (MavPorts), for every set of devices and *)
(* every number of sockets; and the clients of a UDP server link (MavUdp), for *)
(* every set of addresses, every timeout and without a bound on time.          *)
EXTENDS MavPorts, MavUdp, TLAPS

-----------------------------------------------------------------------------
(* Ports.  Sockets are numbered from Listener on, so that a number is neither  *)
(* None's nor that of a FakeSerial; a connection that has no class has no      *)
(* port, and one of a serial port always has something in its place.  The      *)
(* kernel's socket is in a state the code tells apart, and a client of a       *)
(* WebSocket is past its handshake.                                            *)
Numbered ==
    /\ opened \in 1..MaxSockets + 1
    /\ port \in 0..MaxSockets + 1 \union {Fake}
    /\ kind = "none" => port = 0
    /\ kind = "mavserial" => port # 0
    /\ kind \in Servers => port # Fake
SocketKnown ==
    /\ sock \in {"up", "eof", "reset", "broken"}
    /\ kind = "mavwebsocket_client" => ws \in {"open", "closing"}
PortIInv == Numbered /\ SocketKnown /\ PortsSound

(* Whatever opens a socket keeps the numbering; its select waits on the new one. *)
LEMMA OpensNumbered ==
    ASSUME Numbered, NEW handshake, Opens(handshake)
    PROVE  /\ opened' \in 1..MaxSockets + 1 /\ port' \in 1..MaxSockets + 1
           /\ port' = New /\ port' # 0 /\ port' # Fake'
BY PortsAssumption DEF Numbered, Opens, New, Fake

LEMMA QuietNumbered ==
    ASSUME Numbered, Quiet2, kind' = kind
    PROVE  Numbered' /\ port' = port /\ Fake' = Fake
BY DEF Numbered, Quiet2, Fake

LEMMA PortsInitially == PortInit => PortIInv
BY PortsAssumption DEF PortInit, PortIInv, Numbered, SocketKnown, PortsSound, SelectsRight, NoEcho, Servers

(* The constructors: a serial port that is not there is replaced by a FakeSerial *)
(* or is an error, and a server waits on its listening socket.                   *)
LEMMA OpenKeeps == ASSUME PortIInv, Open PROVE PortIInv'
<1> USE DEF PortIInv
<1>1. kind = "none" /\ port = 0 /\ got' = <<>> /\ Numbered
  BY DEF Open, Numbered
<1>2. NoEcho'
  BY <1>1 DEF NoEcho
<1>3. PICK class \in Streams :
        CASE class = "mavserial" -> OpenSerial
          [] class = "mavtcp" -> OpenClient(class, "none")
          [] class = "mavwebsocket_client" -> OpenClient(class, "open")
          [] class \in Servers -> OpenServer(class)
          [] class \in {"mavchildexec", "mavmcast"} -> kind' = class /\ Opens("none") /\ fd' = New
  BY DEF Open
<1>4. CASE class = "mavserial"
  <2>1. OpenSerial
    BY <1>3, <1>4 DEF Servers
  <2>2. CASE there
    BY <1>1, <1>2, <2>1, <2>2, OpensNumbered
    DEF OpenSerial, Numbered, SocketKnown, SelectsRight, PortsSound, Servers, Opens
  <2>3. CASE ~there
    BY <1>1, <1>2, <2>1, <2>3, PortsAssumption
    DEF OpenSerial, Numbered, SocketKnown, SelectsRight, PortsSound, Servers, Fake
  <2>4. QED
    BY <2>2, <2>3
<1>5. CASE class \in {"mavtcp", "mavwebsocket_client"}
  <2>1. PICK h \in {"none", "open"} :
          OpenClient(class, h) /\ (class = "mavwebsocket_client" => h = "open")
    BY <1>3, <1>5 DEF Servers
  <2>2. CASE there
    BY <1>1, <1>2, <1>5, <2>1, <2>2, OpensNumbered
    DEF OpenClient, Numbered, SocketKnown, SelectsRight, PortsSound, Servers, Opens
  <2>3. CASE ~there
    BY <1>1, <1>2, <2>1, <2>3
    DEF OpenClient, Numbered, SocketKnown, SelectsRight, PortsSound, Servers, Quiet2, Fake
  <2>4. QED
    BY <2>2, <2>3
<1>6. CASE class \in Servers
  <2>1. OpenServer(class)
    BY <1>3, <1>6 DEF Servers
  <2>2. Numbered' /\ SocketKnown' /\ SelectsRight'
    BY <1>1, <1>6, <2>1, PortsAssumption
    DEF OpenServer, Numbered, SocketKnown, SelectsRight, Servers, Quiet2, Fake, Listener
  <2>3. QED
    BY <1>2, <2>2 DEF PortsSound
<1>7. CASE class \in {"mavchildexec", "mavmcast"}
  <2>1. kind' = class /\ Opens("none")
    BY <1>3, <1>7 DEF Servers
  <2>2. Numbered' /\ SocketKnown' /\ SelectsRight'
    BY <1>1, <1>7, <2>1, OpensNumbered DEF Numbered, SocketKnown, SelectsRight, Servers, Opens
  <2>3. QED
    BY <1>2, <2>2 DEF PortsSound
<1>8. QED
  BY <1>4, <1>5, <1>6, <1>7 DEF Streams, Servers

(* Serial ports: a reset sets the descriptor together with the port. *)
LEMMA SerialKeeps == ASSUME PortIInv, RecvSerial \/ WriteSerial PROVE PortIInv'
<1> USE DEF PortIInv
<1>1. kind = "mavserial" /\ kind' = kind /\ Numbered
  BY DEF RecvSerial, WriteSerial, Kept
<1>2. NoEcho'
  BY <1>1 DEF NoEcho
<1>3. CASE UNCHANGED <<port, opened, fd, sock>>
  BY <1>1, <1>2, <1>3 DEF Numbered, SocketKnown, SelectsRight, Servers, Fake, PortsSound
<1>4. CASE Opens("none") /\ fd' = New
  BY <1>1, <1>2, <1>4, OpensNumbered
  DEF Numbered, SocketKnown, SelectsRight, Servers, PortsSound, Opens
<1>5. QED
  BY <1>3, <1>4 DEF RecvSerial, WriteSerial, reset, Quiet2

(* Clients of TCP and WebSocket: their descriptor is not what select waits on. *)
LEMMA ClientKeeps ==
    ASSUME PortIInv, RecvTcp \/ WriteTcp \/ RecvClient \/ WriteClient
    PROVE  PortIInv'
<1> USE DEF PortIInv
<1>1. kind \in {"mavtcp", "mavwebsocket_client"} /\ kind' = kind /\ Numbered
  BY DEF RecvTcp, WriteTcp, RecvClient, WriteClient, Kept
<1>2. NoEcho' /\ SelectsRight'
  BY <1>1 DEF NoEcho, SelectsRight
<1>3. ASSUME UNCHANGED <<port, opened>>, ws' = ws \/ ws' = "closing",
             sock' \in {sock, "reset", "broken"}
      PROVE  PortIInv'
  BY <1>1, <1>2, <1>3 DEF Numbered, SocketKnown, Fake, PortsSound, Servers
<1>4. ASSUME port' = 0, UNCHANGED <<opened, sock, ws>> PROVE PortIInv'
  BY <1>1, <1>2, <1>4, PortsAssumption DEF Numbered, SocketKnown, PortsSound, Servers, Fake
<1>5. ASSUME NEW h, Opens(h), kind = "mavwebsocket_client" => h = "open" PROVE PortIInv'
  BY <1>1, <1>2, <1>5, OpensNumbered DEF Numbered, SocketKnown, PortsSound, Servers, Opens
<1>6. CASE RecvTcp
  <2>1. ASSUME NEW ACTION r, kind = "mavtcp", ReconnectTcp(r) PROVE PortIInv'
    BY <2>1, <1>3, <1>4, <1>5 DEF ReconnectTcp, Quiet2
  <2>2. CASE port = 0
    BY <1>6, <2>1, <2>2 DEF RecvTcp
  <2>3. CASE port # 0
    BY <1>6, <2>1, <2>3, <1>3 DEF RecvTcp, Quiet2, Told, SocketKnown
  <2>4. QED
    BY <2>2, <2>3
<1>7. CASE WriteTcp
  <2>1. ASSUME NEW ACTION r, kind = "mavtcp", ReconnectTcp(r) PROVE PortIInv'
    BY <2>1, <1>3, <1>4, <1>5 DEF ReconnectTcp, Quiet2
  <2>2. CASE port = 0
    BY <1>7, <2>1, <2>2, <1>3 DEF WriteTcp, Quiet2
  <2>3. CASE port # 0
    BY <1>7, <2>1, <2>3, <1>3 DEF WriteTcp, Quiet2, Told, SocketKnown
  <2>4. QED
    BY <2>2, <2>3
<1>8. CASE RecvClient
  <2>1. ASSUME connect PROVE PortIInv'
    BY <2>1, <1>4, <1>5 DEF connect
  <2>2. QED
    BY <1>8, <2>1, <1>3 DEF RecvClient, Quiet2
<1>9. CASE WriteClient
  <2>1. ASSUME connect PROVE PortIInv'
    BY <2>1, <1>4, <1>5 DEF connect
  <2>2. QED
    BY <1>9, <2>1, <1>3 DEF WriteClient, Quiet2, Told, SocketKnown
<1>10. QED
  BY <1>6, <1>7, <1>8, <1>9

(* Servers: accepting waits on the new socket, closing on the listening one again. *)
LEMMA ServerKeeps ==
    ASSUME PortIInv, RecvTcpIn \/ RecvWebSocket \/ WriteServer
    PROVE  PortIInv'
<1> USE DEF PortIInv
<1>1. kind \in Servers /\ kind' = kind /\ Numbered
  BY DEF RecvTcpIn, RecvWebSocket, WriteServer, Kept, Servers
<1>2. NoEcho'
  BY <1>1 DEF NoEcho, Servers
<1>3. ASSUME UNCHANGED <<port, opened, fd>>, sock' \in {sock, "reset", "broken"} PROVE PortIInv'
  BY <1>1, <1>2, <1>3 DEF Numbered, SocketKnown, SelectsRight, Servers, Fake, PortsSound
<1>4. ASSUME ClosePort PROVE PortIInv'
  BY <1>1, <1>2, <1>4, PortsAssumption
  DEF ClosePort, Numbered, SocketKnown, SelectsRight, Servers, Fake, Listener, PortsSound
<1>5. ASSUME NEW h, Accept(h) PROVE PortIInv'
  <2>1. CASE knocking
    BY <1>1, <1>2, <1>5, <2>1, OpensNumbered
    DEF Accept, Numbered, SocketKnown, SelectsRight, Servers, PortsSound, Opens
  <2>2. CASE ~knocking
    BY <1>3, <1>5, <2>2 DEF Accept, Quiet2
  <2>3. QED
    BY <2>1, <2>2
<1>6. ASSUME NoBytes PROVE PortIInv'
  BY <1>3, <1>4, <1>6 DEF NoBytes, Quiet2
<1>7. CASE RecvTcpIn
  BY <1>3, <1>5, <1>6, <1>7 DEF RecvTcpIn
<1>8. CASE RecvWebSocket
  <2>1. ASSUME Events PROVE PortIInv'
    BY <1>3, <1>4, <2>1 DEF Events
  <2>2. QED
    BY <1>4, <1>5, <1>6, <1>8, <2>1 DEF RecvWebSocket
<1>9. CASE WriteServer
  <2>1. ASSUME SendsOrCloses PROVE PortIInv'
    BY <1>3, <1>4, <2>1 DEF SendsOrCloses, Quiet2, Told, SocketKnown
  <2>2. QED
    BY <1>3, <1>9, <2>1 DEF WriteServer, Quiet2
<1>10. QED
  BY <1>7, <1>8, <1>9

(* A multicast link knows its own port before the first datagram is judged. *)
LEMMA GroupKeeps ==
    ASSUME PortIInv, RecvMulticast \/ WriteMulticast \/ RecvChild \/ WriteChild
    PROVE  PortIInv'
<1> USE DEF PortIInv
<1>1. kind \in {"mavmcast", "mavchildexec"} /\ UNCHANGED <<kind, port, fd, opened, sock>> /\ Numbered
  BY DEF RecvMulticast, WriteMulticast, RecvChild, WriteChild, Kept, Quiet2
<1>2. Numbered' /\ SocketKnown' /\ SelectsRight'
  BY <1>1 DEF Numbered, SocketKnown, SelectsRight, Servers, Fake
<1>3. NoEcho'
  <2>1. SUFFICES ASSUME kind = "mavmcast" PROVE \A i \in DOMAIN got' : got'[i] # "own"
    BY <1>1 DEF NoEcho
  <2>2. New # 0
    BY <1>1, PortsAssumption DEF Numbered, New
  <2>3. got' = <<>> \/ (got' = <<Head(queue)>> /\ Head(queue) # "own")
    BY <2>1, <2>2 DEF RecvMulticast, WriteMulticast, RecvChild, WriteChild, RecvGroup, Heard, Returns
  <2>4. QED
    BY <2>3
<1>4. QED
  BY <1>2, <1>3 DEF PortsSound

(* What the other end does changes neither the port nor what was read. *)
LEMMA OthersKeep ==
    ASSUME PortIInv, PeerSends \/ PeerCloses \/ Goes \/ Comes \/ Knocks \/ UNCHANGED portvars
    PROVE  PortIInv'
<1>1. UNCHANGED <<kind, port, fd, opened, got, ws>> /\ sock' \in {sock, "eof", "reset"}
  BY DEF PeerSends, PeerCloses, Goes, Comes, Knocks, Calm, portvars
<1>2. QED
  BY <1>1 DEF PortIInv, Numbered, SocketKnown, PortsSound, SelectsRight, NoEcho, Servers, Fake

LEMMA PortsInductive == PortIInv /\ [PortNext]_portvars => PortIInv'
BY OpenKeeps, SerialKeeps, ClientKeeps, ServerKeeps, GroupKeeps, OthersKeep
DEF PortNext, Recv, Write

(* However a connection is lost and opened again: a serial port and a server   *)
(* wait in select on the socket they read from, and a multicast link never     *)
(* returns what it sent itself (the classes of mavutil.py, for any devices).   *)
THEOREM PortsSoundAlways == PortSpec => []PortsSound
<1>1. PortIInv => PortsSound
  BY DEF PortIInv
<1>2. QED
  BY PortsInitially, PortsInductive, <1>1, PTL DEF PortSpec

-----------------------------------------------------------------------------
(* Clients of a UDP server.                                                    *)
(* What is known of a client is what was heard of it; whoever was heard within *)
(* the timeout is a client whose time is known, and was reached.               *)
TimesKnown ==
    /\ clock \in Nat
    /\ \A a \in DOMAIN heard : heard[a] \in Nat
    /\ DOMAIN clients_last_alive \subseteq clients
    /\ clients \subseteq DOMAIN heard
    /\ \A a \in DOMAIN clients_last_alive : clients_last_alive[a] = heard[a]
LiveKnown ==
    \A a \in DOMAIN heard : Live(a) => a \in DOMAIN clients_last_alive /\
        (wrote = "all" => a \in reached)
IInv == TimesKnown /\ LiveKnown /\ SomeoneLeft

(* A client heard within the timeout is one a write sends to and does not drop. *)
LEMMA LiveSends ==
    ASSUME TimesKnown, LiveKnown, NEW a \in DOMAIN heard, Live(a)
    PROVE  a \in clients /\ Sends(a)
<1>1. a \in clients /\ clients_last_alive[a] = heard[a]
  BY DEF TimesKnown, LiveKnown
<1>2. QED
  BY <1>1 DEF Sends, Live

LEMMA NotExpired ==
    ASSUME TimesKnown, LiveKnown, NEW seen, NEW a \in DOMAIN heard, Live(a)
    PROVE  a \notin Expired(seen)
BY LiveSends DEF Expired

(* A write that comes to its end leaves a client. *)
LEMMA OneIsLeft ==
    ASSUME clients # {}, NEW gone \in Dropped(clients)
    PROVE  clients \ gone # {}
<1>1. Expired(clients) \subseteq clients
  BY DEF Expired
<1>2. CASE Expired(clients) = clients
  <2>1. PICK a \in clients : gone = clients \ {a}
    BY <1>2 DEF Dropped
  <2>2. QED
    BY <2>1
<1>3. CASE Expired(clients) # clients
  <2>1. gone = Expired(clients)
    BY <1>3 DEF Dropped
  <2>2. QED
    BY <1>1, <1>3, <2>1
<1>4. QED
  BY <1>2, <1>3

(* ... and forgets no one who was heard within the timeout. *)
LEMMA LiveNotGone ==
    ASSUME TimesKnown, LiveKnown, NEW gone \in Dropped(clients), NEW a \in DOMAIN heard, Live(a)
    PROVE  a \notin gone
<1>1. a \in clients /\ a \notin Expired(clients)
  BY LiveSends, NotExpired
<1>2. gone = Expired(clients)
  BY <1>1 DEF Dropped
<1>3. QED
  BY <1>1, <1>2

LEMMA Initially == UdpInit => IInv
BY DEF UdpInit, IInv, TimesKnown, LiveKnown, SomeoneLeft, Live

LEMMA Inductive == IInv /\ [UdpNext]_udpvars => IInv'
<1> SUFFICES ASSUME IInv, [UdpNext]_udpvars PROVE IInv'
  OBVIOUS
<1> USE DEF IInv
<1>1. CASE Hear
  <2>1. PICK a \in Address :
          /\ clients' = clients \union {a}
          /\ clients_last_alive' = With(clients_last_alive, a, clock)
          /\ heard' = With(heard, a, clock)
          /\ wrote' = "none" /\ clock' = clock
    BY <1>1 DEF Hear
  <2>2. /\ DOMAIN heard' = DOMAIN heard \union {a}
        /\ DOMAIN clients_last_alive' = DOMAIN clients_last_alive \union {a}
        /\ heard'[a] = clock /\ clients_last_alive'[a] = clock
        /\ \A b \in DOMAIN heard \ {a} : heard'[b] = heard[b]
        /\ \A b \in DOMAIN clients_last_alive \ {a} : clients_last_alive'[b] = clients_last_alive[b]
    BY <2>1 DEF With
  <2>3. TimesKnown'
    BY <2>1, <2>2 DEF TimesKnown
  <2>4. LiveKnown'
    BY <2>1, <2>2 DEF LiveKnown, Live
  <2>5. QED
    BY <2>1, <2>3, <2>4 DEF SomeoneLeft
<1>2. CASE Pass
  <2> USE <1>2 DEF Pass
  <2>1. TimesKnown'
    BY DEF TimesKnown
  <2>2. ASSUME NEW a \in DOMAIN heard, heard[a] + Timeout > clock + 1 PROVE Live(a)
    <3>1. heard[a] \in Nat /\ clock \in Nat /\ Timeout \in Nat
      BY UdpAssumption DEF TimesKnown
    <3>2. QED
      BY <2>2, <3>1 DEF Live
  <2>3. LiveKnown'
    BY <2>2 DEF LiveKnown, Live
  <2>4. QED
    BY <2>1, <2>3 DEF SomeoneLeft
<1>3. CASE WriteAll
  <2>1. PICK gone \in Dropped(clients) :
          /\ clients' = clients \ gone
          /\ clients_last_alive' = Without(clients_last_alive, gone)
    BY <1>3 DEF WriteAll
  <2>2. /\ clock' = clock /\ heard' = heard /\ reached' = {a \in clients : Sends(a)}
    BY <1>3 DEF WriteAll
  <2>3. /\ DOMAIN clients_last_alive' = DOMAIN clients_last_alive \ gone
        /\ \A b \in DOMAIN clients_last_alive \ gone :
             clients_last_alive'[b] = clients_last_alive[b]
    BY <2>1 DEF Without
  <2>4. TimesKnown'
    BY <2>1, <2>2, <2>3 DEF TimesKnown
  <2>5. ASSUME NEW a \in DOMAIN heard,
      Live(a) PROVE a \in DOMAIN clients_last_alive \ gone /\ a \in clients /\ Sends(a)
    BY <2>5, LiveNotGone, LiveSends DEF LiveKnown
  <2>6. LiveKnown'
    BY <2>2, <2>3, <2>5 DEF LiveKnown, Live
  <2>7. SomeoneLeft'
    BY <2>1, <2>2, OneIsLeft DEF SomeoneLeft
  <2>8. QED
    BY <2>4, <2>6, <2>7
<1>4. CASE WriteStops
  <2>1. PICK seen \in SUBSET clients :
      clients_last_alive' = Without(clients_last_alive, Expired(seen))
    BY <1>4 DEF WriteStops
  <2>2. clients' = clients /\ clock' = clock /\ heard' = heard /\ wrote' # "all"
    BY <1>4 DEF WriteStops
  <2>3. /\ DOMAIN clients_last_alive' = DOMAIN clients_last_alive \ Expired(seen)
        /\ \A b \in DOMAIN clients_last_alive \ Expired(seen) :
             clients_last_alive'[b] = clients_last_alive[b]
    BY <2>1 DEF Without
  <2>4. TimesKnown'
    BY <2>2, <2>3 DEF TimesKnown
  <2>5. LiveKnown'
    BY <2>2, <2>3, NotExpired DEF LiveKnown, Live
  <2>6. QED
    BY <2>2, <2>4, <2>5 DEF SomeoneLeft
<1>5. CASE UNCHANGED udpvars
  BY <1>5 DEF udpvars, TimesKnown, LiveKnown, Live, SomeoneLeft
<1>6. QED
  BY <1>1, <1>2, <1>3, <1>4, <1>5 DEF UdpNext

(* Whatever datagrams come, whatever writes fail and whatever they drop before  *)
(* they fail: a client heard within the timeout is never forgotten and a whole  *)
(* write reaches it, and the last client stays (mavudp.recv and mavudp.write).  *)
THEOREM ClientsServedAlways == UdpSpec => []ClientsServed
<1>1. IInv => ClientsServed
  BY DEF IInv, TimesKnown, LiveKnown, ClientsServed, LiveServed
<1>2. QED
  BY Initially, Inductive, <1>1, PTL DEF UdpSpec
=============================================================================
