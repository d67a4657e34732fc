------------------------------- MODULE MavUtil -------------------------------
(* Class mavfile of mavutil.py: what a ground station knows of the systems at  *)
(* the other end of a link, kept up by the messages it reads, and the requests *)
(* it makes of them.  A connection is a record `c`; a method is a function of  *)
(* it.  Systems, components and message types are their numbers.               *)
EXTENDS MavFrame

CONSTANTS
    InstanceField,      \* message id -> position of the field that tells instances apart, 0 for none
    SecondsBetweenFetches   \* param_fetch_all asks again after this many seconds

HEARTBEAT == 0
PARAM_VALUE == 22
GPS_RAW_INT == 24
HIGH_LATENCY2 == 235
MAV_COMP_ID_GIMBAL == 154
NotVehicles == {6, 26, 27, 18}          \* GCS, GIMBAL, ADSB, ONBOARD_CONTROLLER
MAV_AUTOPILOT_INVALID == 8
MAV_AUTOPILOT_PX4 == 12
MAV_AUTOPILOT_ARDUPILOTMEGA == 3
ARMED == 128
MAV_MODE_STABILIZE_ARMED == 208
MAV_MODE_MANUAL_ARMED == 192
RadioTuple == <<51, 68>>                 \* '3', 'D'

(* payloads: a heartbeat is <<type, autopilot, base_mode, custom_mode>>, a parameter <<name, value>>, *)
(* a position starts with its fix type; home is the payload of the message kept as HOME             *)
mavfile_state ==
    [messages |-> <<>>, home |-> <<0>>, flightmode |-> <<"UNKNOWN">>,
     mav_type |-> 1, autopilot |-> 0,
     base_mode |-> 0, armed |-> FALSE]

mavfile(wire) ==
    [mav |-> [MAVLink(wire, 255, 0) EXCEPT !.robust_parsing = TRUE],
     wire |-> wire, first_byte |-> TRUE,
     sysid |-> 0, param_sysid |-> <<0, 0>>, sysid_state |-> [s \in {0} |-> mavfile_state],
     param_state |-> [s \in {<<0, 0>>} |-> <<>>],
         last_seq |-> <<>>, mav_loss |-> 0, mav_count |-> 0,
     param_fetch_start |-> -SecondsBetweenFetches,
         logfile |-> <<>>, logfile_raw |-> <<>>, hooks |-> <<>>]

(* ----------------------- targets and their parameters ---------------------- *)
WithKey(f, x, new) == IF x \in DOMAIN f THEN f ELSE Updated(f, x, new)

WithParams(c, src) == [c EXCEPT !.param_sysid = src, !.param_state = WithKey(@, src, <<>>)]

set_target_system(c, value) ==
    LET n == [c EXCEPT !.sysid = value, !.sysid_state = WithKey(@, value, mavfile_state)] IN
    IF value # c.param_sysid[1] THEN WithParams(n, <<value, c.param_sysid[2]>>) ELSE n

set_target_component(c, value) ==
    IF value # c.param_sysid[2] THEN WithParams(c, <<c.param_sysid[1], value>>) ELSE c

params(c) ==
    IF c.param_sysid[2] = 0 /\
        <<c.sysid, 1>> \in DOMAIN c.param_state THEN c.param_state[<<c.sysid, 1>>]
    ELSE c.param_state[c.param_sysid]

messages(c) == c.sysid_state[c.sysid].messages
target_component(c) == c.param_sysid[2]
mavlink10(c) == c.wire >= 1

(* the messages of a system, the last of each type and of each instance of a type *)
add_message(ms, m) ==
    LET i == InstanceField[m.id]
        value == IF i = 0 THEN 0 ELSE m.fields[i] IN
    IF i = 0 THEN Updated(ms, <<m.id>>, m)
    ELSE Updated(Updated(ms, <<m.id, value>>, m), <<m.id>>, m)

(* ------------------------- the version of the protocol --------------------- *)
(* the new object keeps the callbacks and nothing else: buffer, sequence and signing start again *)
auto_mavlink_version(c, buf) ==
    LET magic == buf[1]
        switch == CASE magic = 254 /\ c.wire = 0 -> 1
                    [] magic = 85 /\ c.wire = 1 -> 0
                    [] magic = PROTOCOL_MARKER_V2 /\ c.wire # 2 -> 2
                    [] OTHER -> c.wire IN
    IF magic \notin {85, 254, 253} THEN c
    ELSE IF switch = c.wire THEN [c EXCEPT !.first_byte = FALSE]
    ELSE [c EXCEPT !.first_byte = FALSE, !.wire = switch,
                   !.mav = [MAVLink(switch, 255, 0) EXCEPT !.robust_parsing = TRUE]]

(* --------------------------- what a message changes ------------------------ *)
probably_vehicle_heartbeat(m) ==
    LET p == m.fields IN
    /\ m.comp # MAV_COMP_ID_GIMBAL /\ p[1] \notin NotVehicles /\ p[2] # MAV_AUTOPILOT_INVALID

(* an unknown message and bad data have no source: system and component are 0 *)
Stored(c, m) ==
    LET known == [c EXCEPT !.sysid_state = WithKey(@, m.sys, mavfile_state)]
        own == [known EXCEPT !.sysid_state[m.sys].messages = IF m.id >= 0 THEN add_message(@, m)
                                                             ELSE Updated(@, <<m.id>>, m)] IN
    IF <<m.sys, m.comp>> = RadioTuple
    THEN [own EXCEPT !.sysid_state = [s \in DOMAIN @ |->
        [@[s] EXCEPT !.messages = Updated(@, <<m.id>>, m)]]]
    ELSE own

LossAbsolute(c, m) ==
    LET src == <<m.sys, m.comp>>
        last == IF src \in DOMAIN c.last_seq THEN c.last_seq[src] ELSE -1
        lost == IF m.seq > last + 1 THEN m.seq - last - 1 ELSE 0 IN
    IF src = RadioTuple \/ m.id < 0 THEN c
    ELSE [c EXCEPT !.mav_loss = IF last = -1 THEN @ ELSE @ + lost,
                   !.last_seq = Updated(@, src, m.seq), !.mav_count = @ + 1]

(* the gap in the sequence numbers of a source is a number of lost messages; the radio's are not counted *)
LossCount(c, m) ==
    LET src == <<m.sys, m.comp>>
        last == IF src \in DOMAIN c.last_seq THEN c.last_seq[src] ELSE -1 IN
    IF src = RadioTuple \/ m.id < 0 THEN c
    ELSE [c EXCEPT !.mav_loss = IF last = -1 THEN @ ELSE @ + ((m.seq - last - 1) % 256),
                   !.last_seq = Updated(@, src, m.seq), !.mav_count = @ + 1]

packet_loss(c) == IF c.mav_count = 0 THEN 0 ELSE (100 * c.mav_loss) \div (c.mav_count + c.mav_loss)

mode_string_v10(m) ==
    LET p == m.fields IN
    CASE p[2] = MAV_AUTOPILOT_PX4 /\ m.id # HIGH_LATENCY2 -> <<"px4", p[3], p[4]>>
      [] p[2] # MAV_AUTOPILOT_PX4 /\ m.id # HIGH_LATENCY2 /\ p[3] % 2 = 0 -> <<"base mode", p[3]>>
      [] p[2] # MAV_AUTOPILOT_PX4 /\ (m.id = HIGH_LATENCY2 \/ p[3] % 2 = 1) -> <<"apm", p[1], p[4]>>
      [] OTHER -> <<"custom mode", p[4]>>

LockOn(c, m) == IF c.sysid = 0 THEN [c EXCEPT !.sysid = m.sys] ELSE c

Heartbeat(c, m) ==
    LET p == m.fields IN
    [LockOn(c, m) EXCEPT !.sysid_state[m.sys].flightmode = mode_string_v10(m),
        !.sysid_state[m.sys].armed = p[3] >= ARMED, !.sysid_state[m.sys].mav_type = p[1],
        !.sysid_state[m.sys].autopilot = p[2]]

HighLatency(c, m) ==
    LET p == m.fields
        h == Heartbeat(c, m) IN
    IF p[2] = MAV_AUTOPILOT_ARDUPILOTMEGA THEN [h EXCEPT !.sysid_state[m.sys].base_mode = p[3]]
    ELSE [h EXCEPT !.sysid_state[m.sys].armed = c.sysid_state[m.sys].armed]

Parameter(c, m) ==
    LET src == <<m.sys, m.comp>>
        p == m.fields IN
    [c EXCEPT !.param_state = Updated(@, src, Updated(WithKey(@, src, <<>>)[src], p[1], p[2]))]

Home(c, m) ==
    IF c.sysid_state[m.sys].home[1] < 3 THEN [c EXCEPT !.sysid_state[m.sys].home = m.fields] ELSE c

ByType(c, m) ==
    CASE m.id = HEARTBEAT /\ probably_vehicle_heartbeat(m) -> Heartbeat(c, m)
      [] m.id = HIGH_LATENCY2 -> HighLatency(c, m)
      [] m.id = PARAM_VALUE -> Parameter(c, m)
      [] m.id = GPS_RAW_INT -> Home(c, m)
      [] OTHER -> c

(* an unset link_id follows the first one the target signs with *)
LinkId(c, m) ==
    IF /\ m.signed /\ c.mav.signing.link_id = 0 /\ m.link_id # 0
       /\ c.sysid = m.sys /\ target_component(c) = m.comp
    THEN [c EXCEPT !.mav.signing.link_id = m.link_id] ELSE c

post_message(c, m) == LinkId(ByType(LossCount(Stored(c, m), m), m), m)

(* --------------------------------- reading --------------------------------- *)
Logged(c, m) == IF m.kind = "bad" THEN c ELSE [c EXCEPT !.logfile = Append(@, m.bytes)]

(* one turn of the loop of recv_msg: bytes from recv, at most one message; it ends *)
(* with a message, or without one when there were no bytes                         *)
ReadBytes(c, s) ==
    LET raw == [c EXCEPT !.logfile_raw = @ \o s]
        v == IF s # <<>> /\ c.first_byte THEN auto_mavlink_version(raw, s) ELSE raw
        r == parse_char(v.mav, s)
        n == [v EXCEPT !.mav = r.mav] IN
    [c |-> IF r.m.kind \in {"none", "raised"} THEN n ELSE post_message(Logged(n, r.m), r.m),
     m |-> r.m]

(* recv_msg of the datagram links, which logs nothing and returns after one turn *)
ReadDatagram(c, s) ==
    LET v == IF s # <<>> /\ c.first_byte THEN auto_mavlink_version(c, s) ELSE c
        r == parse_char(v.mav, s)
        n == [v EXCEPT !.mav = r.mav] IN
    [c |-> IF r.m.kind \in {"none", "raised"} THEN n ELSE post_message(n, r.m), m |-> r.m]

(* a caller's recv_match: the types it waits for, how long, and since when *)
recv_match(types, timeout, now) == [types |-> types, timeout |-> timeout, start |-> now]

(* a clock that is set back does not make the wait longer *)
Started(call, now) == IF now < call.start THEN [call EXCEPT !.start = now] ELSE call

GivesUp(call, now) == call.timeout >= 0 /\ Started(call, now).start + call.timeout < now
Matches(call, m) == m.kind \notin {"none", "raised"} /\ (call.types = {} \/ m.id \in call.types)

(* --------------------------------- signing --------------------------------- *)
setup_signing(c, key, sign_outgoing, allowed, timestamp, link_id) ==
    [c EXCEPT !.mav.signing.secret_key = key, !.mav.signing.sign_outgoing = sign_outgoing,
              !.mav.signing.allow_unsigned = allowed, !.mav.signing.timestamp = timestamp,
              !.mav.signing.link_id = link_id]

disable_signing(c) == setup_signing(c, 0, FALSE, {}, 0, 0)

(* --------------------------------- requests -------------------------------- *)
Target(c) == <<c.sysid, target_component(c)>>

(* what a connection asks of its target: a message by its name, or a long command *)
Ask(c, name, what, args) == [name |-> name, what |-> what, to |-> Target(c), args |-> args]
Command(c, command, args) == Ask(c, "command_long", command, args)
Nothing == [name |-> None, what |-> "", to |-> <<0, 0>>, args |-> <<>>]

(* the messages of missions had other names before 1.0 *)
waypoint_send(c, what, args) == Ask(c, IF mavlink10(c) THEN "mission" ELSE "waypoint", what, args)

param_fetch_all(c, now) ==
    IF now - c.param_fetch_start < SecondsBetweenFetches THEN [c |-> c, ask |-> Nothing]
    ELSE [c |-> [c EXCEPT !.param_fetch_start = now],
          ask |-> Ask(c, "param_request_list", "", <<>>)]

param_fetch_one(c, name) == Ask(c, "param_request_read", "", <<name>>)
param_set_send(c, name, value) ==
  Ask(c, "param_set", IF mavlink10(c) THEN "FLOAT" ELSE "", <<name, value>>)

(* commands that were actions before 1.0, and those that are refused there *)
Action(c, command, args, action) ==
    CASE mavlink10(c) -> Command(c, command, args)
      [] ~mavlink10(c) /\ action # 0 -> Ask(c, "action", "", <<action>>)
      [] OTHER -> Nothing

set_mode_auto(c) == Action(c, "MISSION_START", <<>>, 13)
set_mode_rtl(c) == Action(c, "NAV_RETURN_TO_LAUNCH", <<>>, 3)
set_mode_manual(c) == Action(c, "DO_SET_MODE", <<MAV_MODE_MANUAL_ARMED>>, 12)
set_mode_fbwa(c) == Action(c, "DO_SET_MODE", <<MAV_MODE_STABILIZE_ARMED>>, 0)
set_mode_loiter(c) == Action(c, "NAV_LOITER_UNLIM", <<>>, 27)
set_relay(c, pin, on) == Action(c, "DO_SET_RELAY", <<pin, on>>, 0)
calibrate_pressure(c) == Action(c, "PREFLIGHT_CALIBRATION", <<0, 0, 1>>, 20)
calibrate_level(c) == Command(c, "PREFLIGHT_CALIBRATION", <<1, 1>>)
set_servo(c, channel, pwm) == Command(c, "DO_SET_SERVO", <<channel, pwm>>)
reboot_autopilot(c, hold, force) ==
    Action(c, "PREFLIGHT_REBOOT_SHUTDOWN",
           <<IF hold THEN 3 ELSE 1, IF force THEN 20190226 ELSE 0>>, 0)
arducopter_arm(c, on) == Action(c, "COMPONENT_ARM_DISARM", <<on>>, 0)
motors_armed(c) == c.sysid_state[c.sysid].armed

(* a flag of base_mode is set or cleared, the rest is the base_mode last known *)
set_mode_flag(c, flag, enable) ==
    LET mode == c.sysid_state[c.sysid].base_mode
        on == (mode \div flag) % 2 = 1 IN
    Action(c, "DO_SET_MODE",
           <<IF on = enable THEN mode ELSE IF enable THEN mode + flag ELSE mode - flag>>, 0)

(* the mode's numbers come from the autopilot of the last vehicle heartbeat, *)
(* the way they are sent from the last heartbeat of any component            *)
mode_mapping(c) == c.sysid_state[c.sysid].autopilot
set_mode(c, mode) ==
    LET ms == messages(c)
        px4 == <<HEARTBEAT>> \in DOMAIN ms /\ ms[<<HEARTBEAT>>].fields[2] = MAV_AUTOPILOT_PX4 IN
    Command(c, IF px4 THEN "DO_SET_MODE px4" ELSE "DO_SET_MODE", <<mode_mapping(c), mode>>)
=============================================================================
