------------------------------- MODULE MavPorts -------------------------------
(* The connections of mavutil.py below the messages: mavlink_connection       *)
(* chooses a class by the name of the device, and the classes open, read,      *)
(* write, lose and open again a serial port, a TCP or WebSocket connection,    *)
(* the socket of a server, a child process or a multicast group.               *)
EXTENDS Naturals, Sequences

CONSTANTS
    Devices,            \* what is opened: [device, autoreconnect, force_connected]
    MaxSockets          \* bound of the checked instance: sockets opened, and disturbances

ASSUME PortsAssumption == MaxSockets \in Nat

VARIABLES
    dev, kind,          \* the device, and the class that was chosen for it ("none": not opened yet)
    port,               \* the number of the open socket, 0 for None, Fake for a FakeSerial
    fd,                 \* the file descriptor select waits on, as the number of its socket, 0 for None
    portdead,
    ws,                 \* WebSocket: "none", "handshake", "open"
    myport,             \* multicast: our own port, 0 for not known yet
    sock,               \* the kernel's end of the open socket: "up", "eof", "reset", "broken"
    queue,              \* what waits to be read: "data", "own", "request", "close"
    there,              \* the device or the server at the other end is there
    knocking,           \* a client waits to be accepted
    opened,             \* how many sockets there have been
    raised,             \* the last call ended with an exception
    got                 \* what the last recv returned

portvars == <<dev, kind, port, fd, portdead,
              ws, myport, sock, queue, there, knocking, opened, raised, got>>

Fake == MaxSockets + 2
Listener == 1           \* a server's listening socket has number 1
Servers == {"mavtcpin", "mavwebsocket"}

(* device: its prefix, its suffix, whether it has a colon, whether it is a file, whether that *)
(* is a text log, whether it is a program                                                      *)
mavlink_connection(d) ==
    CASE d.prefix = "tcp" -> "mavtcp"
      [] d.prefix = "tcpin" -> "mavtcpin"
      [] d.prefix \in {"udp", "udpin", "udpout", "udpbcast"} -> "mavudp"
      [] d.prefix = "wsserver" -> "mavwebsocket"
      [] d.prefix = "ws" -> "mavwebsocket_client"
      [] d.prefix = "mcast" -> "mavmcast"
      [] d.prefix = "csv" -> "CSVReader"
      [] d.prefix \in {"", "other"} ->
           CASE d.suffix \in {"bin", "px4log"} -> "DFReader_binary"
             [] d.suffix = "log" /\ d.text -> "DFReader_text"
             [] d.suffix \notin {"bin", "px4log"} /\ ~(d.suffix = "log" /\ d.text) ->
                  CASE d.prefix = "other" /\
                      d.suffix \notin {"mavlink", "log", "raw", "tlog"} -> "mavudp"
                    [] ~(d.prefix = "other" /\ d.suffix \notin {"mavlink", "log", "raw", "tlog"}) ->
                         CASE ~d.file -> "mavserial"
                           [] d.file /\ d.program -> "mavchildexec"
                           [] d.file /\ ~d.program /\ ~d.write -> "mavmmaplog"
                           [] d.file /\ ~d.program /\ d.write -> "mavlogfile"

Streams == {"mavserial", "mavtcp", "mavtcpin",
            "mavwebsocket", "mavwebsocket_client", "mavchildexec", "mavmcast"}
autoreconnect == dev.autoreconnect \/ dev.force_connected

PortInit ==
    /\ dev \in Devices /\ kind = "none" /\
         port = 0 /\ fd = 0 /\ portdead = FALSE /\ ws = "none" /\ myport = 0
    /\ sock = "eof" /\ queue = <<>> /\ there \in BOOLEAN /\ knocking = FALSE /\ opened = 1
    /\ raised = FALSE /\ got = <<>>

Kept == UNCHANGED <<dev, kind, there>>
New == opened + 1                                  \* the number of the next socket

(* the new socket of the connection; fd stays what it was unless the class sets it *)
Opens(handshake) ==
    /\ opened <= MaxSockets
    /\ port' = New /\ opened' = New /\ sock' = "up" /\ queue' = <<>> /\ ws' = handshake
Quiet2 == UNCHANGED <<port, opened, sock, queue, ws>>
Returns(x) == raised' = FALSE /\ got' = x
Raises == raised' = TRUE /\ got' = <<>>

(* ------------------------------- constructors ------------------------------ *)
(* what an exception of the constructor leaves is no connection *)
OpenSerial ==
    /\ kind' = IF there \/ dev.force_connected THEN "mavserial" ELSE "none"
    /\ IF there THEN Opens("none") /\ fd' = New
       ELSE /\ port' = IF dev.force_connected THEN Fake ELSE 0
            /\ fd' = 0 /\ UNCHANGED <<opened, sock, queue, ws>>

OpenClient(class, handshake) ==
    /\ kind' = IF there THEN class ELSE "none"
    /\ IF there THEN Opens(handshake) /\ fd' = New ELSE Quiet2 /\ UNCHANGED fd

OpenServer(class) == kind' = class /\ fd' = Listener /\ Quiet2

Open ==
    /\ kind = "none"
    /\ LET class == mavlink_connection(dev.device) IN
       /\ class \in Streams
       /\ CASE class = "mavserial" -> OpenSerial
            [] class = "mavtcp" -> OpenClient(class, "none")
            [] class = "mavwebsocket_client" -> OpenClient(class, "open")
            [] class \in Servers -> OpenServer(class)
            [] class \in {"mavchildexec", "mavmcast"} -> kind' = class /\ Opens("none") /\ fd' = New
       /\ raised' = (kind' = "none") /\ got' = <<>>
    /\ UNCHANGED <<dev, there, portdead, myport, knocking>>

(* ---------------------------------- serial --------------------------------- *)
resetOnce ==
    IF ~there \/ portdead THEN Quiet2 /\ fd' = fd /\ portdead' = TRUE
    ELSE Opens("none") /\ fd' = New /\ portdead' = FALSE

(* reset: with force_connected a FakeSerial is made and thrown away, and the old port stays *)
reset ==
    IF ~there THEN Quiet2 /\ fd' = fd /\ portdead' = TRUE
    ELSE Opens("none") /\ fd' = New /\ portdead' = FALSE

RecvSerial ==
    /\ kind = "mavserial"
    /\ IF port = Fake THEN Returns(<<>>) /\ UNCHANGED queue
       ELSE IF queue # <<>> THEN Returns(queue) /\ queue' = <<>>
       ELSE (IF sock = "up" THEN Returns(<<>>) ELSE Raises) /\ UNCHANGED queue
    /\ Kept /\ UNCHANGED <<port, fd, portdead, ws, myport, sock, knocking, opened>>

WriteSerial ==
    /\ kind = "mavserial" /\ Returns(<<>>)
    /\ IF port # Fake /\ sock = "up" THEN Quiet2 /\ UNCHANGED <<fd, portdead>>
       ELSE IF autoreconnect THEN reset
       ELSE Quiet2 /\ fd' = fd /\ portdead' = TRUE
    /\ Kept /\ UNCHANGED <<myport, knocking>>

(* ------------------------------- TCP, as client ---------------------------- *)
(* the socket is closed and a new one connected, or it stays; fd is not set anew; a failure *)
(* to connect is an exception that leaves port None                                          *)
ReconnectTcp(result) ==
    IF ~autoreconnect THEN Quiet2 /\ result
    ELSE IF there THEN Opens("none") /\ result
    ELSE port' = 0 /\ Raises /\ UNCHANGED <<opened, sock, queue, ws>>

(* the error of a socket that was reset is told once; then it is at its end *)
Told == sock' = "broken" /\ UNCHANGED <<port, opened, queue, ws>>

RecvTcp ==
    /\ kind = "mavtcp"
    /\ IF port = 0 THEN ReconnectTcp(Returns(<<>>))
       ELSE IF queue # <<>> THEN Returns(queue) /\
           queue' = <<>> /\ UNCHANGED <<port, opened, sock, ws>>
       ELSE CASE sock = "up" -> Quiet2 /\ Returns(<<>>)
              [] sock = "reset" /\ ~autoreconnect -> Told /\ Raises
              [] sock = "reset" /\ autoreconnect -> ReconnectTcp(Raises)
              [] sock \in {"eof", "broken"} -> ReconnectTcp(Returns(<<>>))
    /\ Kept /\ UNCHANGED <<fd, portdead, myport, knocking>>

(* an error of reconnect is swallowed when there was no port, and raised when the old one is broken *)
WriteTcp ==
    /\ kind = "mavtcp"
    /\ IF port = 0 THEN IF there THEN ReconnectTcp(Returns(<<>>)) ELSE Quiet2 /\ Returns(<<>>)
       ELSE CASE sock = "up" -> Quiet2 /\ Returns(<<>>)
              [] sock = "eof" -> sock' = "reset" /\
                  Returns(<<>>) /\ UNCHANGED <<port, opened, queue, ws>>
              [] sock = "reset" /\ ~autoreconnect -> Told /\ Returns(<<>>)
              [] sock = "broken" \/ (sock = "reset" /\ autoreconnect) -> ReconnectTcp(Returns(<<>>))
    /\ Kept /\ UNCHANGED <<fd, portdead, myport, knocking>>

(* ---------------------------------- servers -------------------------------- *)
ClosePort == port' = 0 /\ fd' = Listener /\
    ws' = "none" /\ sock' = "eof" /\ queue' = <<>> /\ UNCHANGED opened

Accept(handshake) ==
    /\ IF knocking THEN Opens(handshake) /\ fd' = New ELSE Quiet2 /\ UNCHANGED fd
    /\ knocking' = FALSE /\ Returns(<<>>)

(* what a server does when there are no bytes: a client that closed in good order is kept *)
NoBytes ==
    /\ IF sock = "reset" THEN ClosePort ELSE Quiet2 /\ UNCHANGED fd
    /\ UNCHANGED knocking /\ Returns(<<>>)

RecvTcpIn ==
    /\ kind = "mavtcpin"
    /\ CASE port = 0 -> Accept("none")
         [] port # 0 /\ queue = <<>> -> NoBytes
         [] port # 0 /\ queue # <<>> -> Returns(queue) /\
             queue' = <<>> /\ UNCHANGED <<port, opened, sock, ws, fd, knocking>>
    /\ Kept /\ UNCHANGED <<portdead, myport>>

(* the events of what was read: a request is answered, data returned, and a close ends the connection *)
Events ==
    LET data == SelectSeq(queue, LAMBDA x : x = "data") IN
    /\ Returns(data)
    /\ IF \E i \in DOMAIN queue : queue[i] = "close" THEN ClosePort
       ELSE queue' = <<>> /\ ws' = "open" /\ UNCHANGED <<port, opened, sock, fd>>
    /\ UNCHANGED knocking

(* the end of the stream during the handshake may be an error of the protocol *)
RecvWebSocket ==
    /\ kind = "mavwebsocket"
    /\ CASE port = 0 -> Accept("handshake")
         [] port # 0 /\ queue = <<>> -> NoBytes \/ (/\ ws = "handshake" /\
                                                         sock \in {"eof", "broken"}
                                                    /\ ClosePort /\
                                                         UNCHANGED knocking /\ Returns(<<>>))
         [] port # 0 /\ queue # <<>> -> Events
    /\ Kept /\ UNCHANGED <<portdead, myport>>

(* only EPIPE closes the port; ECONNRESET is passed over *)
SendsOrCloses ==
    /\ CASE port = 0 \/ sock = "up" -> Quiet2 /\ UNCHANGED fd
         [] port # 0 /\ sock = "eof" -> sock' = "reset" /\ UNCHANGED <<port, opened, queue, ws, fd>>
         [] port # 0 /\ sock = "reset" -> (Told /\ UNCHANGED fd) \/ ClosePort
         [] port # 0 /\ sock = "broken" -> ClosePort
    /\ Returns(<<>>)

WriteServer ==
    /\ kind \in Servers
    /\ IF kind = "mavwebsocket" /\ ws = "handshake" THEN Quiet2 /\ Raises /\ UNCHANGED fd
       ELSE SendsOrCloses
    /\ Kept /\ UNCHANGED <<portdead, myport, knocking>>

(* ---------------------------- WebSocket, as client ------------------------- *)
connect ==
    /\ IF there THEN Opens("open") ELSE port' = 0 /\ queue' = <<>> /\ UNCHANGED <<opened, sock, ws>>
    /\ Returns(<<>>)

(* a close is not followed by anything: the socket stays, and what was read before it is for the next call *)
RecvClient ==
    /\ kind = "mavwebsocket_client"
    /\ LET closes == \E i \in DOMAIN queue : queue[i] = "close" IN
       CASE port = 0 \/ (queue = <<>> /\ sock = "reset") -> connect
         [] port # 0 /\ queue = <<>> /\ sock # "reset" -> Quiet2 /\ Returns(<<>>)
         [] port # 0 /\ queue # <<>> /\ closes ->
              /\ queue' = SelectSeq(queue, LAMBDA x : x # "close") /\ ws' = "closing"
              /\ Returns(<<>>) /\ UNCHANGED <<port, opened, sock>>
         [] port # 0 /\ queue # <<>> /\ ~closes -> Returns(queue) /\
             queue' = <<>> /\ UNCHANGED <<port, opened, sock, ws>>
    /\ Kept /\ UNCHANGED <<fd, portdead, myport, knocking>>

WriteClient ==
    /\ kind = "mavwebsocket_client"
    /\ CASE port = 0 \/ (ws = "open" /\ sock = "broken") -> connect
         [] port # 0 /\ ws = "closing" -> Quiet2 /\ Raises
         [] port # 0 /\ ws = "open" /\ sock = "up" -> Quiet2 /\ Returns(<<>>)
         [] port # 0 /\ ws = "open" /\ sock = "eof" -> sock' = "reset" /\
             Returns(<<>>) /\ UNCHANGED <<port, opened, queue, ws>>
         [] port # 0 /\ ws = "open" /\ sock = "reset" -> (Told /\ Returns(<<>>)) \/ connect
    /\ Kept /\ UNCHANGED <<fd, portdead, myport, knocking>>

(* --------------------------- children and multicast ------------------------ *)
(* one byte; when there is none read gives None, and recv_msg asks for its length *)
RecvChild ==
    /\ kind = "mavchildexec"
    /\ IF queue # <<>> THEN Returns(<<Head(queue)>>) /\ queue' = Tail(queue)
       ELSE (IF sock = "up" THEN Raises ELSE Returns(<<>>)) /\ UNCHANGED queue
    /\ Kept /\ UNCHANGED <<port, fd, portdead, ws, myport, sock, knocking, opened>>

WriteChild ==
    /\ kind = "mavchildexec" /\ IF sock = "up" THEN Returns(<<>>) ELSE Raises
    /\ Kept /\ Quiet2 /\ UNCHANGED <<fd, portdead, myport, knocking>>

(* our own port is known from the first datagram on, and what we sent ourselves is discarded *)
Heard(known) == IF Head(queue) = "own" /\ known # 0 THEN <<>> ELSE <<Head(queue)>>

RecvGroupLate == Returns(Heard(myport))
RecvGroup == Returns(Heard(New))

RecvMulticast ==
    /\ kind = "mavmcast"
    /\ IF queue = <<>> THEN Returns(<<>>) /\ UNCHANGED <<queue, myport>>
       ELSE RecvGroup /\ queue' = Tail(queue) /\ myport' = IF myport = 0 THEN New ELSE myport
    /\ Kept /\ UNCHANGED <<port, fd, portdead, ws, sock, knocking, opened>>

WriteMulticast ==
    /\ kind = "mavmcast" /\ Len(queue) < 2
    /\ queue' = Append(queue, "own") /\ Returns(<<>>)
    /\ Kept /\ UNCHANGED <<port, fd, portdead, ws, myport, sock, knocking, opened>>

(* ------------------------------ the other end ------------------------------ *)
Calm == UNCHANGED <<dev, kind, port, fd, portdead, ws, myport, opened, raised, got>>
Connected == port \notin {0, Fake} /\ sock = "up"

PeerData ==
    IF kind \notin {"mavwebsocket", "mavwebsocket_client"} THEN {"data"}
    ELSE IF ws = "handshake" /\ queue = <<>> THEN {"request"} ELSE {"data", "close"}

PeerSends ==
    /\ Connected /\ Len(queue) < 2 /\ \A i \in DOMAIN queue : queue[i] # "close"
    /\ \E x \in PeerData : queue' = Append(queue, x)
    /\ Calm /\ UNCHANGED <<sock, there, knocking>>

PeerCloses ==
    /\ Connected /\ kind # "mavmcast" /\ opened <= MaxSockets
    /\ \/ sock' = "eof" /\ UNCHANGED queue
       \/ kind \notin {"mavserial", "mavchildexec"} /\ sock' = "reset" /\ queue' = <<>>
    /\ Calm /\ UNCHANGED <<there, knocking>>

Goes ==
    /\ there /\ opened <= MaxSockets /\ there' = FALSE
    /\ sock' = IF Connected /\ kind \in {"mavserial", "mavtcp", "mavwebsocket_client"} THEN "eof"
               ELSE sock
    /\ Calm /\ UNCHANGED <<queue, knocking>>

Comes == ~there /\ there' = TRUE /\ Calm /\ UNCHANGED <<queue, sock, knocking>>

Knocks == kind \in Servers /\ ~knocking /\
    knocking' = TRUE /\ Calm /\ UNCHANGED <<queue, sock, there>>

Recv == RecvSerial \/ RecvTcp \/ RecvTcpIn \/
    RecvWebSocket \/ RecvClient \/ RecvChild \/ RecvMulticast
Write == WriteSerial \/ WriteTcp \/ WriteServer \/ WriteClient \/ WriteChild \/ WriteMulticast

PortNext == Open \/ Recv \/ Write \/ PeerSends \/ PeerCloses \/ Goes \/ Comes \/ Knocks

(* the program opens its connection, reads in its loop and writes its heartbeats, an exception or not *)
PortFairness == WF_portvars(Open) /\ WF_portvars(Recv) /\ WF_portvars(Write)

PortSpec == PortInit /\ [][PortNext]_portvars /\ PortFairness

-----------------------------------------------------------------------------
(* A serial port and a server wait in select on what they read from: the new socket after *)
(* reset and accept, the listening one after a client is gone.                             *)
SelectsRight ==
    kind \in {"mavserial", "mavtcpin", "mavwebsocket"} =>
        fd = CASE port = Fake -> 0 [] port = 0 -> Listener [] OTHER -> port

(* Nothing a multicast link sent itself is read from it, not even before its port was known. *)
NoEcho == kind = "mavmcast" => \A i \in DOMAIN got : got[i] # "own"

(* Both: what is read comes from the connection that is open, and from somebody else. *)
PortsSound == SelectsRight /\ NoEcho

(* Whatever was lost, a program that goes on reading and writing has its link again when  *)
(* the device, the server or a client is there to stay (autoreconnect for a serial port    *)
(* and for TCP).  Without the writes it does not hold: a serial port is only reset, and     *)
(* a client of a server that closed in good order is only noticed, when writing fails.      *)
Waited == IF kind \in Servers THEN knocking ELSE there
Recovering == kind = "mavtcpin" \/ (kind \in {"mavserial", "mavtcp"} /\ autoreconnect)
Reconnects == ~<>[](Recovering /\ Waited /\ ~Connected)
=============================================================================
