------------------------------- MODULE MavLink -------------------------------
(* A link: peers put frames and noise on it, some are lost or arrive twice,    *)
(* and one reader takes what arrives: a connection of mavutil.py over a stream *)
(* or over datagrams, or one of the readers of the other languages.  A caller  *)
(* waits in recv_match and makes requests of the system the connection knows.  *)
EXTENDS MavUtil, MavReaders, FiniteSets

CONSTANTS
    Scenarios           \* who sends what, and who reads it

(* a script has bytes of noise, from 0, and messages of the peers; a key that is not set is 0 *)
Numbers == {"wire", "sys", "comp", "seq", "key", "link", "now"}
ASSUME ScenariosAssumption ==
    \A s \in Scenarios :
        /\ s.wire \in Nat /\ s.key \in Nat /\ s.now \in Nat /\ s.robust \in BOOLEAN /\ s.allowed \subseteq Nat
        /\ \A i \in DOMAIN s.peers : \A f \in Numbers : s.peers[i][f] \in Nat
        /\ s.script \in Seq([from : {0} \union DOMAIN s.peers, id : DOMAIN Known,
                             payload : Seq(0 .. 255), v1 : BOOLEAN, join : BOOLEAN])

VARIABLES
    sc,                 \* the scenario
    peers,              \* the MAVLink objects that send
    next,               \* position in the script
    line,               \* what is under way: bytes, or the bytes of datagrams
    budget,             \* losses and repetitions that are left
    reader,             \* the connection or the reader
    sent,               \* history: the frames and the noise put on the line, in order, with their numbers
    fed,                \* history: the bytes the reader has been given
    items,              \* history: what it made of them
    caller              \* the caller of recv_match, and its requests

linkvars == <<sc, peers, next, line, budget, reader, sent, fed, items, caller>>

Python == {"stream", "datagram"}
JavaScript == {"nextgen", "stable"}
Whole == {"datagram", "wlua"}           \* readers that are given whole packets

Opened(s) ==
    LET c == [mavfile(s.wire) EXCEPT !.mav.robust_parsing = s.robust] IN
    CASE s.reader \in Python -> setup_signing(c, s.key, FALSE, s.allowed, s.now, 0)
      [] s.reader \in JavaScript ->
            [MAVLinkProcessor(IF s.wire = 2 THEN PROTOCOL_MARKER_V2 ELSE PROTOCOL_MARKER_V1)
                EXCEPT !.signing.secret_key = s.key, !.signing.allow_unsigned = s.allowed]
      [] OTHER -> NoPacket

Peer(p) ==
    [MAVLink(p.wire, p.sys, p.comp) EXCEPT
        !.seq = p.seq, !.signing = [@ EXCEPT !.secret_key = p.key, !.sign_outgoing = p.key # 0,
                                           !.link_id = p.link, !.timestamp = p.now]]

NoCaller == [call |-> recv_match({}, -1, 0), on |-> FALSE, now |-> 0,
             spent |-> 0, rolls |-> 0, got |-> NoMessage, asked |-> Nothing, chosen |-> 0]

LinkInit ==
    /\ sc \in Scenarios
    /\ peers = [i \in DOMAIN sc.peers |-> Peer(sc.peers[i])]
    /\ next = 1 /\ line = <<>> /\ budget = sc.budget
    /\ reader = Opened(sc)
    /\ sent = <<>> /\ fed = <<>> /\ items = <<>>
    /\ caller = NoCaller

(* --------------------------------- the line -------------------------------- *)
Frame(s) == _pack(peers[s.from], s.id, s.payload, s.v1)
OnLine(bytes, join) ==
    line' = CASE sc.reader \notin Whole -> line \o bytes
              [] sc.reader \in Whole /\ join /\
                  line # <<>> -> [line EXCEPT ![Len(line)] = @ \o bytes]
              [] OTHER -> Append(line, bytes)

(* how many messages a peer has sent before *)
Number(i) == (peers[i].seq - sc.peers[i].seq) % 256

(* the next entry of the script: noise, or a message of a peer *)
Send ==
    /\ next <= Len(sc.script)
    /\ next' = next + 1
    /\ LET s == sc.script[next]
           bytes == IF s.from = 0 THEN s.payload ELSE Frame(s) IN
       /\ OnLine(bytes, s.join)
       /\ sent' = Append(sent, [from |-> s.from, bytes |-> bytes,
                                number |-> IF s.from = 0 THEN 0 ELSE Number(s.from)])
       /\ peers' = IF s.from = 0 THEN peers ELSE [peers EXCEPT ![s.from] = send(@, s.v1)]
    /\ UNCHANGED <<sc, budget, reader, fed, items, caller>>

Lose ==
    /\ budget.lost > 0 /\ next <= Len(sc.script) /\ sc.script[next].from # 0
    /\ next' = next + 1 /\ budget' = [budget EXCEPT !.lost = @ - 1]
    /\ peers' = [peers EXCEPT ![sc.script[next].from] = send(@, sc.script[next].v1)]
    /\ UNCHANGED <<sc, line, reader, sent, fed, items, caller>>

(* a datagram arrives a second time *)
Repeat ==
    /\ budget.again > 0 /\ sc.reader \in Whole
    /\ budget' = [budget EXCEPT !.again = @ - 1]
    /\ \E i \in DOMAIN sent :
        /\ OnLine(sent[i].bytes, FALSE) /\ sent' = Append(sent, sent[i])
    /\ UNCHANGED <<sc, peers, next, reader, fed, items, caller>>

(* -------------------------------- the readers ------------------------------ *)
Took(s, m) ==
    /\ fed' = fed \o s
    /\ items' = IF m = NoMessage THEN items ELSE Append(items, m)

(* the message ends the caller's wait, or it is passed over *)
Caller(m) == IF caller.on /\ Matches(caller.call, m) THEN [caller EXCEPT !.on = FALSE, !.got = m]
             ELSE caller

(* a stream gives what has arrived, at most what was asked for *)
ReadStream ==
    /\ sc.reader = "stream"
    /\ \E n \in 0..Len(line) :
        /\ n <= bytes_needed(reader.mav) /\ (n = 0 => line = <<>>)
        /\ LET r == ReadBytes(reader, Front2(line, n)) IN
           /\ n > 0 \/ r.m # NoMessage
           /\ reader' = r.c /\ Took(Front2(line, n), r.m) /\ caller' = Caller(r.m)
        /\ line' = Drop(line, n)
    /\ UNCHANGED <<sc, peers, next, budget, sent>>

ReadDatagrams ==
    /\ sc.reader = "datagram"
    /\ LET s == IF line = <<>> THEN <<>> ELSE Head(line)
           r == ReadDatagram(reader, s) IN
       /\ s # <<>> \/ r.m # NoMessage
       /\ reader' = r.c /\ Took(s, r.m) /\ caller' = Caller(r.m)
       /\ line' = IF line = <<>> THEN line ELSE Tail(line)
    /\ UNCHANGED <<sc, peers, next, budget, sent>>

(* parseChar with bytes, then without any until there is no message *)
ReadJavaScript ==
    /\ sc.reader \in JavaScript
    /\ \E n \in 0..Len(line) :
        LET s == Front2(line, n)
            r == IF sc.reader = "nextgen" THEN js_parseChar(reader, s)
                 ELSE stable_parseChar(reader, s) IN
        /\ n <= js_bytes_needed(reader) /\ (n > 0 \/ r.m # NoMessage)
        /\ reader' = r.mav /\ Took(s, r.m) /\ line' = Drop(line, n)
    /\ UNCHANGED <<sc, peers, next, budget, sent, caller>>

(* the dissector: one item of its list is one message, what it does not reach is left out *)
Dissect ==
    /\ sc.reader = "wlua" /\ line # <<>>
    /\ LET packet == Head(line)
           shown == dissector(packet) IN
       /\ fed' = fed \o packet
       /\ items' = items \o [i \in DOMAIN shown |->
                        [NoMessage EXCEPT !.kind = shown[i].kind,
                         !.bytes = SubSeq(packet, shown[i].from + 1, shown[i].to)]]
    /\ line' = Tail(line)
    /\ UNCHANGED <<sc, peers, next, budget, reader, sent, caller>>

(* receive of the Spin2 parser; a packet is not read before all of it has arrived *)
Receive ==
    /\ sc.reader = "spin2" /\ line # <<>>
    /\ line[1] = PROTOCOL_MARKER_V2 =>
        next > Len(sc.script) \/ (Len(line) >= 2 /\ Len(line) >= line[2] + 12)
    /\ LET r == spin_receive(line) IN
       /\ Took(Front2(line, r.used),
               [NoMessage EXCEPT !.kind = IF r.has /\
                   r.packet.state = "CRC2" THEN "message" ELSE "bad",
                                 !.bytes = Front2(line, r.used)])
       /\ reader' = r.packet
       /\ line' = Drop(line, r.used)
    /\ UNCHANGED <<sc, peers, next, budget, sent, caller>>

(* -------------------------------- the caller ------------------------------- *)
Call ==
    /\ sc.reader \in Python /\ ~caller.on /\ caller.spent = 0
    /\ \E q \in sc.calls : caller' = [caller EXCEPT !.on = TRUE,
                                      !.call = recv_match(q.types, q.timeout, caller.now)]
    /\ UNCHANGED <<sc, peers, next, line, budget, reader, sent, fed, items>>

(* nothing to read: time passes in select, and the loop looks at the clock *)
Wait ==
    /\ caller.on /\ line = <<>> /\ caller.spent < sc.patience
    /\ LET now == caller.now + 1 IN
       caller' = [caller EXCEPT !.now = now,
                  !.spent = @ + 1, !.call = Started(@, now), !.on = ~GivesUp(caller.call, now)]
    /\ UNCHANGED <<sc, peers, next, line, budget, reader, sent, fed, items>>

(* another process sets the clock back *)
SetBack ==
    /\ caller.on /\ budget.back > 0 /\ budget' = [budget EXCEPT !.back = @ - 1]
    /\ caller' = [caller EXCEPT !.now = @ - sc.jump, !.rolls = @ + 1]
    /\ UNCHANGED <<sc, peers, next, line, reader, sent, fed, items>>

Requests(c) ==
    <<waypoint_send(c, "request_list", <<>>),
      waypoint_send(c, "set_current", <<1>>), param_fetch_one(c, 1),
     param_set_send(c, 1, 2), set_mode_auto(c),
         set_mode_rtl(c), set_mode_manual(c), set_mode_fbwa(c),
     set_mode_loiter(c), set_relay(c, 0, 1),
         calibrate_pressure(c), calibrate_level(c), set_servo(c, 1, 2),
     reboot_autopilot(c, FALSE, FALSE), arducopter_arm(c, 1),
         set_mode_flag(c, 2, TRUE), set_mode(c, 4)>>

Request ==
    /\ sc.reader \in Python /\ sc.requests /\ ~caller.on
    /\ \/ \E q \in DOMAIN Requests(reader) :
         caller' = [caller EXCEPT !.asked = Requests(reader)[q]] /\ UNCHANGED reader
       \/ \E s \in DOMAIN reader.sysid_state \ {0} :
              reader' = set_target_system(reader, s) /\ caller' = [caller EXCEPT !.chosen = s]
       \/ reader' = set_target_component(reader, 1) /\ UNCHANGED caller
       \/ reader' = disable_signing(reader) /\ UNCHANGED caller
       \/ LET r == param_fetch_all(reader, caller.now) IN reader' = r.c /\
            caller' = [caller EXCEPT !.asked = r.ask]
    /\ UNCHANGED <<sc, peers, next, line, budget, sent, fed, items>>

LinkNext ==
    \/ Send \/ Lose \/ Repeat
    \/ ReadStream \/ ReadDatagrams \/ ReadJavaScript \/ Dissect \/ Receive
    \/ Call \/ Wait \/ SetBack \/ Request

LinkSpec == LinkInit /\ [][LinkNext]_linkvars

-----------------------------------------------------------------------------
Bytes(xs) == FoldLeft(LAMBDA acc, x : acc \o x.bytes, <<>>, xs)
Before(xs, i) == Len(Bytes(Front2(xs, i - 1)))
Buffer == IF sc.reader \in Python THEN reader.mav.buf
          ELSE IF sc.reader \in JavaScript THEN reader.buf ELSE <<>>

(* nothing is under way, and the reader has made what it can of its bytes *)
Idle ==
    /\ line = <<>>
    /\ CASE sc.reader \in Python -> parse_char(reader.mav, <<>>).m = NoMessage
         [] sc.reader = "nextgen" -> js_parseChar(reader, <<>>).m = NoMessage
         [] sc.reader = "stable" -> stable_parseChar(reader, <<>>).m = NoMessage
         [] OTHER -> TRUE

(* item i, or what is left in the buffer for i one past the items, is taken for a frame   *)
(* because noise holds a marker, and it reaches into the frame k                          *)
Hides(i, k) ==
    LET part == IF i \in DOMAIN items THEN items[i].bytes ELSE Buffer IN
    /\ part # <<>> /\ part[1] \in Markers
    /\ i \in DOMAIN items => items[i].kind \in {"bad", "raised"}
    /\ Before(items, i) < Before(sent, k) /\ Before(items, i) + Len(part) > Before(sent, k)

Whole2(k, i) == Before(items, i) = Before(sent, k) /\ items[i].bytes = sent[k].bytes

MessagesOf(ms) == LET good ==
  SelectSeq(ms, LAMBDA m : m.kind = "message") IN [i \in DOMAIN good |-> good[i].bytes]

(* No byte is lost between the line and the messages: what was read is the bytes of the   *)
(* messages, of the bad data and of the buffer, in this order; and a frame that was put   *)
(* whole on the line is one message, unless noise before it looks like the head of a      *)
(* frame that reaches into it; and however the bytes were cut, the messages are those of   *)
(* all of them at once (MAVLink.parse_char and parse_buffer of the dialects, parseChar of the       *)
(* JavaScript ones, the dissector and the parser of Spin2).                               *)
NothingSwallowed ==
    sc.robust =>
        /\ fed = Bytes(items) \o Buffer
        /\ Idle => \A k \in DOMAIN sent :
              sent[k].from # 0 =>
                  \/ \E i \in DOMAIN items : Whole2(k, i) /\
                       (sc.key = 0 => items[i].kind = "message")
                  \/ \E i \in 1..(Len(items) + 1) : Hides(i, k)
        /\ Idle /\ sc.reader = "stream" /\ reader.wire = sc.wire =>
              MessagesOf(parse_buffer(Opened(sc).mav, fed).ms) = MessagesOf(items)

Messages == {i \in DOMAIN items : items[i].kind = "message"}

(* As long as a connection has its key, a signed message is accepted once, in the order   *)
(* its sender gave, although datagrams come twice and noise comes between them; and       *)
(* nothing unsigned is accepted but what allow_unsigned lists (check_signature and decode *)
(* of mavgen_python.py).  The key goes with signing that is disabled, and with a change    *)
(* of the version (auto_mavlink_version).                                                  *)
HasKey == sc.reader \in Python /\ reader.mav.signing.secret_key # 0
AcceptedOnce ==
    HasKey =>
        /\ \A i, j \in Messages : i < j /\ items[i].signed /\ items[j].signed
                /\ Stream(items[i].bytes) = Stream(items[j].bytes)
                => Timestamp(items[i].bytes) < Timestamp(items[j].bytes)
        /\ \A i \in Messages : ~items[i].signed => items[i].id \in sc.allowed

Source(i) == <<items[i].sys, items[i].comp>>
Earliest(S) == CHOOSE i \in S : \A j \in S : i <= j
Latest(S) == CHOOSE i \in S : \A j \in S : j <= i
OfPeer(p) == {i \in Messages : Source(i) = <<sc.peers[p].sys, sc.peers[p].comp>>}
NumberOf(p, i) == (items[i].seq - sc.peers[p].seq) % 256
LostBetween(p) ==
    IF OfPeer(p) = {} \/ <<sc.peers[p].sys, sc.peers[p].comp>> = RadioTuple THEN 0
    ELSE NumberOf(p, Latest(OfPeer(p))) - NumberOf(p,
                                                   Earliest(OfPeer(p))) + 1 - Cardinality(OfPeer(p))
Vehicles == {i \in Messages : /\ items[i].id \in {HEARTBEAT, HIGH_LATENCY2}
                              /\ \E p \in DOMAIN sc.peers : sc.peers[p].vehicle /\ i \in OfPeer(p)}

LostOfAll == FoldLeft(LAMBDA n, p : n + LostBetween(p), 0, [p \in DOMAIN sc.peers |-> p])
Counted == Cardinality({i \in Messages : items[i].id >= 0 /\ Source(i) # RadioTuple})
Beats(s) == {i \in Vehicles : items[i].sys = s /\
    (items[i].id = HEARTBEAT \/ items[i].fields[2] = MAV_AUTOPILOT_ARDUPILOTMEGA)}

(* What the connection knows is what it was told: the system it talks to is the one that  *)
(* was chosen or else the first vehicle it heard of; the losses it counts are the messages *)
(* lost between the first and the last it received of each source, and the share of them   *)
(* is of all it received; its motors are armed if its last heartbeat said so; the          *)
(* parameters and the last message of a type it keeps of a source are the last it received *)
(* (post_message).                                                                         *)
KnowsVehicle ==
    sc.reader \in Python =>
        /\ reader.sysid = IF caller.chosen # 0 THEN caller.chosen
                          ELSE IF Vehicles = {} THEN 0 ELSE items[Earliest(Vehicles)].sys
        /\ sc.budget.again = 0 =>
              /\ reader.mav_loss = LostOfAll
              /\ packet_loss(reader) = IF Counted = 0 THEN 0
                                       ELSE (100 * LostOfAll) \div (Counted + LostOfAll)
        /\ motors_armed(reader) = (Beats(reader.sysid) # {} /\
             items[Latest(Beats(reader.sysid))].fields[3] >= ARMED)
        /\ \A i \in Messages :
              LET of(j) == Source(j) = Source(i) /\
                  items[j].id = items[i].id /\ items[j].fields[1] = items[i].fields[1] IN
              items[i].id = PARAM_VALUE /\ (\A j \in Messages : j > i => ~of(j))
                  => reader.param_state[Source(i)][items[i].fields[1]] = items[i].fields[2]
        /\ \A i \in Messages :
              (\A j \in Messages : j > i
                  => items[j].id # items[i].id \/ items[j].sys # items[i].sys)
                  => reader.sysid_state[items[i].sys].messages[<<items[i].id>>].fields =
                      items[i].fields

(* A caller of recv_match waits no longer than its timeout, once more for every time the  *)
(* clock was set back.                                                                    *)
WaitBounded == caller.on /\ caller.call.timeout >= 0
    => caller.spent <= (1 + caller.rolls) * (caller.call.timeout + 1)
=============================================================================
