-------------------------------- MODULE MCLinks --------------------------------
(* Connections of every class that is a stream, the clients of a UDP server,   *)
(* and links with noise, losses and repetitions, for every reader.             *)
EXTENDS MavPorts, MavUdp, MavLink

VARIABLE part           \* which of the three modules runs
allvars == <<part, portvars, udpvars, linkvars>>

Named(prefix) == [prefix |-> prefix, suffix |-> "",
                  file |-> FALSE, text |-> FALSE, program |-> FALSE, write |-> FALSE]
MCDevices ==
    [device : {Named(p) : p \in {"", "tcp"}}, autoreconnect : BOOLEAN, force_connected : BOOLEAN]
    \union [device : {Named(p) : p \in {"tcpin", "ws", "wsserver", "mcast"}}
                     \union {[Named("") EXCEPT !.suffix = "elf", !.file = TRUE, !.program = TRUE]},
            autoreconnect : {FALSE}, force_connected : {FALSE}]

MCKnown == [i \in {0, 22, 24, 30, 235} |->
    CASE i = 0 -> [size |-> 4, crc_extra |-> 50] [] i = 22 -> [size |-> 2, crc_extra |-> 220]
      [] i = 24 -> [size |-> 1, crc_extra |-> 24] [] i = 30 -> [size |-> 2, crc_extra |-> 39]
      [] i = 235 -> [size |-> 4, crc_extra |-> 179]]
MCInstanceField == [i \in DOMAIN MCKnown |-> IF i = 30 THEN 1 ELSE 0]

Beat(from) == [from |-> from, id |-> 0, payload |-> <<2, 3, 129, 4>>, v1 |-> FALSE, join |-> FALSE]
Station(from) == [Beat(from) EXCEPT !.payload = <<6, 8, 0, 0>>]
Param(from, n, v) == [Beat(from) EXCEPT !.id = 22, !.payload = <<n, v>>]
Fix(from, f) == [Beat(from) EXCEPT !.id = 24, !.payload = <<f>>]
Tagged(from, instance, v) == [Beat(from) EXCEPT !.id = 30, !.payload = <<instance, v>>]
High(from) == [Beat(from) EXCEPT !.id = 235, !.payload = <<2, 3, 1, 4>>]
Radio(from) == [Beat(from) EXCEPT !.id = 24, !.payload = <<1>>]
Noise(bytes) == [Beat(0) EXCEPT !.payload = bytes]
Old(e) == [e EXCEPT !.v1 = TRUE]
Joined(e) == [e EXCEPT !.join = TRUE]

Sys(n, comp) == [sys |-> n, comp |-> comp,
                 wire |-> 2, key |-> 0, link |-> 0, seq |-> 254, now |-> 0, vehicle |-> n < 200]
Signing(n, key, now) == [Sys(n, 1) EXCEPT !.key = key, !.link = 3, !.now = now]

Quiet == [reader |-> "stream", wire |-> 2, robust |-> TRUE, key |-> 0, allowed |-> {}, now |-> 0,
          peers |-> <<Sys(1, 1), Sys(255, 190)>>,
              script |-> <<>>, budget |-> [lost |-> 0, again |-> 0, back |-> 0],
          calls |-> {}, requests |-> FALSE, jump |-> 5, patience |-> 8]

Mixed == <<Noise(<<7, 8>>), Beat(1), Param(2, 1, 0),
           Noise(<<253, 1>>), Param(1, 2, 0), Fix(1, 3), Noise(<<9>>), Beat(1)>>
Both == <<Station(2), Old(Beat(1)), Noise(<<254>>), Param(2, 1, 0), Old(Fix(1, 3)), Beat(1)>>
Clean == <<Beat(1), Joined(Param(1, 5, 6)), Fix(1, 0), Joined(Fix(1, 2))>>
Lossy == <<Station(2), Beat(1), Param(1, 1, 5), Tagged(1, 1, 7),
           Joined(Fix(1, 3)), Tagged(1, 2, 8), Param(1, 1, 6), Station(2), High(1)>>
Signals == <<Beat(1), Param(1, 1, 5), Fix(2, 2), Beat(1)>>
Other == <<Noise(<<253, 1, 0, 0, 0, 9, 9, 99, 0, 0, 5, 6, 7>>),
           Station(2), Noise(<<253, 1, 2, 0, 0, 9, 9, 22, 0, 0, 5, 6, 7>>), Beat(1)>>

MCScenarios ==
    {[Quiet EXCEPT !.script = Mixed, !.reader = r] : r \in {"stream", "nextgen", "stable"}}
    \union {[Quiet EXCEPT !.script = Both, !.wire = w] : w \in {1, 2}}
    \union {[Quiet EXCEPT !.script = Other, !.reader = r, !.robust = b] :
        r \in {"stream", "datagram"}, b \in BOOLEAN}
    \union {[Quiet EXCEPT !.script = Clean, !.reader = r] : r \in {"wlua", "spin2"}}
    \union {[Quiet EXCEPT !.script = Lossy,
             !.reader = "datagram", !.budget.lost = 2, !.budget.again = n] : n \in {0, 1}}
    \union {[Quiet EXCEPT !.script = Signals,
             !.reader = "datagram", !.key = 5, !.allowed = {24}, !.now = n,
                          !.peers = <<Signing(1, 5, 10), Signing(2, 6, 10)>>,
                              !.budget.again = 2] : n \in {0, 400}}
    \union {[Quiet EXCEPT !.script = <<Station(2), Beat(1), Fix(1, 3)>>, !.budget.back = 1,
                          !.calls = {[types |-> {24}, timeout |-> 2],
                                     [types |-> {}, timeout |-> -1]}],
            [Quiet EXCEPT !.script = <<Radio(3), Beat(1), Param(1, 1, 5)>>,
             !.requests = TRUE, !.wire = 1, !.key = 5,
                          !.allowed = {0, 22},
                              !.reader = "datagram", !.peers = @ \o <<Sys(51, 68)>>]}

NoPort == PortInit /\ ~there /\ dev = (CHOOSE d \in Devices : TRUE)
NoUdp == UdpInit
NoLink == sc = [Quiet EXCEPT !.reader = "none", !.robust = FALSE] /\ peers = 0 /\ next = 0 /\
    line = 0 /\ budget = 0 /\ reader = 0 /\ sent = 0 /\ fed = 0 /\ items = 0 /\ caller = 0

MCInit ==
    \/ part = "ports" /\ PortInit /\ NoUdp /\ NoLink
    \/ part = "udp" /\ UdpInit /\ NoPort /\ NoLink
    \/ part = "link" /\ LinkInit /\ NoPort /\ NoUdp
MCNext ==
    \/ part = "ports" /\ PortNext /\ UNCHANGED <<part, udpvars, linkvars>>
    \/ part = "udp" /\ UdpNext /\ UNCHANGED <<part, portvars, linkvars>>
    \/ part = "link" /\ LinkNext /\ UNCHANGED <<part, portvars, udpvars>>
MCFairness == part = "ports" => PortFairness
MCSpec == MCInit /\ [][MCNext]_allvars /\ MCFairness

(* What a connection knows of a vehicle is what it was told, and callers do not wait   *)
(* longer than their timeout (post_message, recv_match).                               *)
CallersServed == part = "link" => KnowsVehicle /\ WaitBounded
=============================================================================
