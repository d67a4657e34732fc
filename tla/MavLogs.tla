------------------------------- MODULE MavLogs -------------------------------
(* Reading dataflash logs (DFReader.py, CSVReader.py): an index of the offsets *)
(* of every message type made once, messages read in order or by their types,  *)
(* the clock that gives them times, and what is known along the way.           *)
(* A log is a sequence of cells: of a binary log the header of a message or    *)
(* one piece of its body, of a text log or table a line.  A type is its name;  *)
(* a time is a number of ticks.  Conditions on messages and messages on the    *)
(* console are left out.                                                       *)
EXTENDS Integers, FiniteSets, Sequences, SequencesExt

CONSTANTS
    Logs,               \* the logs of the instance: a sequence of [kind, fast, zero_time_base, data]
    AskedTypes,         \* the sets of types a caller asks for
    Tail528,            \* 528 bytes, in cells: a bad message nearer to the end ends the log
    MaxPasses           \* bound of the checked instance: readings of the log

ASSUME LogAssumption == Tail528 \in Nat /\ MaxPasses \in Nat /\ Len(Logs) > 0

None == -1
Nothing == [type |-> "", body |-> <<>>, at |-> None, time |-> None]
Smallest(S) == CHOOSE x \in S : \A y \in S : x <= y
Largest(S) == CHOOSE x \in S : \A y \in S : y <= x
Put(f, k, v) == [x \in DOMAIN f \union {k} |-> IF x = k THEN v ELSE f[x]]
Get(f, k, default) == IF k \in DOMAIN f THEN f[k] ELSE default

(* a field of a message, 0 or none: getattr(m, name, default) *)
Field(m, name) == Get(m.body, name, None)
Field0(m, name) == Get(m.body, name, 0)

(* ---------------------------------- formats -------------------------------- *)
(* columns with units; `scaled` ones have a multiplier of their own *)
DFFormat(b, old) ==
    [name |-> b.Name, type |-> b.Type, len |-> b.Length, columns |-> b.Columns, scaled |-> b.Scaled,
     broken |-> b.Broken, units |-> old.units, instance_field |-> old.instance_field]
NewFormat == [units |-> <<>>, instance_field |-> ""]
FMT == DFFormat([Name |-> "FMT", Type |-> 128, Length |-> 2, Scaled |-> {}, Broken |-> FALSE,
                 Columns |-> <<"Type", "Length", "Name", "Columns", "Scaled", "Broken">>],
                     NewFormat)

set_unit_ids(fmt, ids, lookup) ==
    [fmt EXCEPT !.units = [c \in ToSet(fmt.columns) |-> <<"", Get(lookup, Get(ids, c, ""), "")>>],
                !.instance_field = IF \E c \in DOMAIN ids : ids[c] = "#"
                                   THEN CHOOSE c \in DOMAIN ids : ids[c] = "#" ELSE @]

set_mult_ids(fmt, ids, lookup) ==
    [fmt EXCEPT !.units = [c \in DOMAIN @ |->
        IF c \in fmt.scaled \/ @[c][2] = "" THEN @[c]
        ELSE <<Get(lookup, Get(ids, c, ""), ""), @[c][2]>>]]

AddFormat(rd, b) ==
    [rd EXCEPT !.formats = Put(@, b.Name, DFFormat(b, Get(@, b.Name, NewFormat))),
               !.name_to_id = @ \union {b.Name}]

AddUnits(rd, b) ==
    IF b.FmtType \notin DOMAIN rd.formats THEN rd
    ELSE [rd EXCEPT !.formats[b.FmtType] =
            set_mult_ids(set_unit_ids(@, b.UnitIds, rd.unit_lookup), b.MultIds, rd.mult_lookup)]

AddUnit(rd, b) == [rd EXCEPT !.unit_lookup = Put(@, b.Id, b.Label)]
AddMult(rd, b) == [rd EXCEPT !.mult_lookup = Put(@, b.Id, b.Mult)]

(* ---------------------------------- clocks --------------------------------- *)
Week == 1000
_gpsTimeToTime(week, ms) == week * Week + ms
DFReaderClock(kind) ==
    [kind |-> kind, timebase |-> 0, timestamp |-> 0, first |-> None, px4_timebase |-> 0,
     msg_rate |-> <<>>, counts_since_gps |-> <<>>]

find_time_base_usec(clock, gps, first) ==
    [clock EXCEPT !.timebase = _gpsTimeToTime(gps.body.GWk, gps.body.GMS) - Field0(gps, "TimeUS"),
     !.first = first]
find_time_base_msec(clock, gps, first) ==
    [clock EXCEPT !.timebase = _gpsTimeToTime(gps.body.Week, Field0(gps, "TimeMS")) - gps.body.T,
     !.first = first]
find_time_base_px4(clock, gps) == [clock EXCEPT !.timebase = gps.body.GPSTime - clock.px4_timebase]

rewind_event(clock) ==
    CASE clock.kind \in {"usec", "msec"} ->
            [clock EXCEPT !.timestamp = clock.timebase + IF clock.first = None THEN 0
                                                         ELSE clock.first]
      [] clock.kind = "gps" -> [clock EXCEPT !.counts_since_gps = <<>>]
      [] OTHER -> clock

(* a rate is a fraction: messages, and the ticks they took *)
Faster(r, s) == r[1] * s[2] > s[1] * r[2]
GpsTime(m) ==
    CASE Field(m, "Week") # None -> _gpsTimeToTime(m.body.Week, Field0(m, "TimeMS"))
      [] Field(m, "Week") = None /\ Field(m, "GWk") # None ->
          _gpsTimeToTime(m.body.GWk, Field0(m, "GMS"))
      [] Field(m, "Week") = None /\ Field(m, "GWk") = None /\
          Field(m, "Wk") # None -> _gpsTimeToTime(m.body.Wk, Field0(m, "TWk"))
      [] OTHER -> 0

MessageRate(clock, type, deltat) ==
    LET since == <<clock.counts_since_gps[type], deltat>> IN
    CASE type = "IMU" -> <<1, 1>>
      [] type # "IMU" /\ type \in DOMAIN clock.counts_since_gps
            /\ (type \notin DOMAIN clock.msg_rate \/ Faster(since, clock.msg_rate[type])) -> since
      [] OTHER -> clock.msg_rate[type]

gps_message_arrived(clock, t) ==
    IF t <= clock.timebase THEN clock
    ELSE [clock EXCEPT !.msg_rate = [x \in DOMAIN @
        \union DOMAIN clock.counts_since_gps \union {"IMU"} |->
                                        MessageRate(clock, x, t - clock.timebase)],
                       !.timebase = t, !.counts_since_gps = <<>>]

Counted(clock, m) == [clock EXCEPT !.counts_since_gps = Put(@, m.type, Get(@, m.type, 0) + 1)]
message_arrived(clock, m) ==
    CASE clock.kind = "px4" /\ m.type = "TIME" /\ Field(m, "StartTime") # None ->
            [clock EXCEPT !.px4_timebase = m.body.StartTime]
      [] clock.kind = "gps" /\ m.type \in {"GPS", "GPS2"} ->
          gps_message_arrived(Counted(clock, m), GpsTime(m))
      [] clock.kind = "gps" /\ m.type \notin {"GPS", "GPS2"} -> Counted(clock, m)
      [] OTHER -> clock

FirstIs(m, name) == m.fields # <<>> /\ m.fields[1] = name
NotOurClock == {"ACC1", "GYR1"}               \* types that start with ACC or GYR
should_use_msec_field0(clock, m) ==
    /\ m.type \notin NotOurClock /\ FirstIs(m, "TimeMS")
    /\ clock.timebase + m.body.TimeMS >= clock.timestamp

(* the default rate is 50 a second, one a tick; a rate below one a second is the default too *)
Interpolated(clock, m) ==
    LET r == Get(clock.msg_rate, m.type, <<1, 1>>)
        rate == IF (50 * r[1]) \div r[2] = 0 THEN <<1, 1>> ELSE r IN
    clock.timebase + (Get(clock.counts_since_gps, m.type, 0) * rate[2]) \div rate[1]

set_message_timestamp(clock, m) ==
    CASE clock.kind = "usec" -> IF FirstIs(m, "TimeUS") THEN clock.timebase + m.body.TimeUS
                                ELSE IF should_use_msec_field0(clock,
                                    m) THEN clock.timebase + m.body.TimeMS
                                ELSE clock.timestamp
      [] clock.kind = "msec" -> IF FirstIs(m, "TimeMS") THEN clock.timebase + m.body.TimeMS
                                ELSE IF m.type \in {"GPS", "GPS2"} THEN clock.timebase + m.body.T
                                ELSE clock.timestamp
      [] clock.kind = "px4" -> clock.timebase + clock.px4_timebase
      [] clock.kind = "gps" -> Interpolated(clock, m)

(* the reader's timestamp is 0 and stays so: a message without fields, or before there is a clock, has time 0 *)
_set_time(clock, m) ==
    IF clock.kind = "none" \/ m.fields = <<>> THEN <<clock, 0>>
    ELSE LET t == set_message_timestamp(clock, m) IN
         <<IF clock.kind \in {"usec", "msec"} THEN [clock EXCEPT !.timestamp = t] ELSE clock, t>>

(* ----------------------------- what a message tells ------------------------ *)
Vehicles == {"Rover", "Plane", "Copter", "Antenna", "ArduSub", "Blimp"}
ModeName(mav_type, n) == <<mav_type, n>>      \* mode_mapping_bynumber

FlightMode(rd, m) ==
    CASE m.type = "MODE" /\ rd.log.kind = "text" -> <<m.body.Mode>>
      [] m.type = "MODE" /\ rd.log.kind # "text" /\
          Field(m, "ModeNum") # None -> ModeName(rd.mav_type, m.body.ModeNum)
      [] m.type = "MODE" /\ rd.log.kind # "text" /\
          Field(m, "ModeNum") = None -> <<"acm", m.body.Mode>>
      [] m.type = "STAT" /\ Field(m, "MainState") # None -> <<"px4", m.body.MainState>>
      [] OTHER -> rd.flightmode

(* a binary MSG or VER of another vehicle changes mav_type before the mode is looked up *)
Vehicle(rd, m) ==
    CASE m.type = "MSG" /\ m.body.Message \in Vehicles -> m.body.Message
      [] m.type = "VER" /\ Field(m, "BU") \in Vehicles -> m.body.BU
      [] OTHER -> rd.mav_type

Noted(rd, m) ==
    LET i == rd.formats[m.type].instance_field
        kept == Put(rd.messages, <<m.type>>, m.at) IN
    [rd EXCEPT !.messages = IF i = "" THEN kept ELSE Put(kept, <<m.type, Field(m, i)>>, m.at),
               !.clock = message_arrived(@, m), !.mav_type = Vehicle(rd, m)]
Told(rd, m) ==
    [rd EXCEPT !.flightmode = FlightMode(rd, m),
               !.params = IF m.type = "PARM" THEN Put(@, m.body.Name, m.body.Value) ELSE @]
Stamped(rd, m, timed) == [rd |-> [rd EXCEPT !.clock = timed[1]], m |-> [m EXCEPT !.time = timed[2]]]
Set(rd, m) == Stamped(rd, m, _set_time(rd.clock, m))
_add_msg(rd, m) == Set(Told(Noted(rd, m), m), m)

(* ------------------------------ the next message --------------------------- *)
Size(rd) == Len(rd.log.data)
Cell(rd, i) == rd.log.data[i + 1]             \* offsets start at 0
Mark(rd, i) == Cell(rd, i).mark               \* of a binary log: a header; of a text log: a line with two elements

(* a body that is not of this format is read as one of zeros *)
Body(rd, i, fmt) ==
    LET b == Cell(rd, i).body IN
    IF DOMAIN b = ToSet(fmt.columns) THEN b ELSE [c \in ToSet(fmt.columns) |-> 0]
Read(rd, at, i, fmt) ==
  [type |-> fmt.name, fields |-> fmt.columns, body |-> Body(rd, i, fmt), at |-> at, time |-> None]

RECURSIVE ParseBinary(_), ParseText(_)

(* a body that does not unpack is passed over; out of data ends the log.  FMTU messages change  *)
(* nothing here: the type they are for is looked for in their first column, which is the time.  *)
Defined(rd, m) ==
  IF m.type = "FMT" THEN [AddFormat(rd, m.body) EXCEPT !.name_to_id = rd.name_to_id] ELSE rd
ParseHead(rd, at) ==
    LET fmt == rd.formats[Cell(rd, at).type]
        left == Size(rd) - at IN
    CASE left < fmt.len \/ (fmt.broken /\ left - 1 < Tail528) ->
        [rd |-> [rd EXCEPT !.offset = at + 1], m |-> Nothing]
      [] left >= fmt.len /\ fmt.broken /\
          left - 1 >= Tail528 -> ParseBinary([rd EXCEPT !.offset = at + 1])
      [] OTHER -> LET m == Read(rd, at, at + 1, fmt) IN
          _add_msg([Defined(rd, m) EXCEPT !.offset = at + fmt.len], m)

(* bytes are skipped up to a header of a known type *)
ParseBinary(rd) ==
    LET heads == {i \in rd.offset .. Size(rd) - 1 : Mark(rd, i) /\
        Cell(rd, i).type \in DOMAIN rd.formats} IN
    IF heads = {} THEN [rd |-> [rd EXCEPT !.offset = Size(rd)], m |-> Nothing]
    ELSE ParseHead(rd, Smallest(heads))

(* a line of an unknown type or with too few columns is passed over *)
Learnt(rd, m) ==
    CASE m.type = "FMT" -> AddFormat(rd, m.body)
      [] m.type = "FMTU" -> AddUnits(rd, m.body)
      [] m.type = "UNIT" -> AddUnit(rd, m.body)
      [] m.type = "MULT" -> AddMult(rd, m.body)
      [] OTHER -> rd
ParseLine(rd, at) ==
    LET on == [rd EXCEPT !.offset = at + 1]
        type == Cell(rd, at).type IN
    IF type \notin DOMAIN rd.formats \/ Cell(rd, at).short THEN ParseText(on)
    ELSE LET m == Read(rd, at, at, rd.formats[type]) IN _add_msg(Learnt(on, m), m)
ParseText(rd) ==
    LET lines == {i \in rd.offset .. Size(rd) - 1 : Mark(rd, i)} IN
    IF lines = {} THEN [rd |-> [rd EXCEPT !.offset = Size(rd) + 1], m |-> Nothing]
    ELSE ParseLine(rd, Smallest(lines))

ParseTable(rd) ==
    IF rd.offset >= Size(rd) THEN [rd |-> rd, m |-> Nothing]
    ELSE [rd |-> [rd EXCEPT !.offset = @ + 1, !.messages = Put(@, <<"CSV">>, rd.offset)],
          m |-> [type |-> "CSV", fields |-> <<"t">>,
                 body |-> Cell(rd, rd.offset).body, at |-> rd.offset,
                 time |-> Cell(rd, rd.offset).body.t]]

_parse_next(rd) ==
    CASE rd.log.kind = "binary" -> ParseBinary(rd)
      [] rd.log.kind = "text" -> ParseText(rd)
      [] rd.log.kind = "table" -> ParseTable(rd)
recv_msg(rd) == _parse_next(rd)

(* ---------------------------------- the index ------------------------------ *)
Indexed(rd, type, at) == [rd EXCEPT !.offsets = Put(@, type, Append(Get(@, type, <<>>), at))]
ParseAt(rd, at) == _parse_next([rd EXCEPT !.offset = at]).rd
Missing(rd, at, len) == Size(rd) - at < len

Taught(rd, type, at) == Learnt(rd, Read(rd, at, at + 1, rd.formats[type]))

(* the message at an offset is parsed when it is the first of its type or of its instance *)
Met(rd, met, type, at) ==
    LET i == rd.formats[type].instance_field
        value == <<type, Body(rd, at + 1, rd.formats[type])[i]>>
        last == at + 1 >= Size(rd) IN
    CASE type \notin DOMAIN met.lengths ->
            [rd |-> ParseAt(rd, at), lengths |-> Put(met.lengths, type, rd.formats[type].len),
             instances |-> met.instances]
      [] type \in DOMAIN met.lengths /\ i # "" /\ ~last ->
            [rd |-> IF value \in met.instances THEN rd ELSE ParseAt(rd, at),
             lengths |-> met.lengths, instances |-> met.instances \union {value}]
      [] OTHER -> [rd |-> rd, lengths |-> met.lengths, instances |-> met.instances]

RECURSIVE init_arrays(_, _, _), scan_offsets(_, _, _), TextArrays(_, _)

(* the lengths of the first format of a type are used to the end; a type without a format ends the index *)
NextIndex(met, type, at) ==
    LET len == met.lengths[type]
        told == type \in {"FMT", "FMTU", "UNIT", "MULT"} IN
    IF told /\ Missing(met.rd, at, len) THEN met.rd
    ELSE init_arrays(IF told THEN Taught(met.rd, type, at) ELSE met.rd, met, at + len)
init_arrays(rd, met, at) ==
    LET type == Cell(rd, at).type IN
    IF at + 1 >= Size(rd) THEN rd
    ELSE IF ~Mark(rd, at) THEN init_arrays(rd, met, at + 1)
    ELSE IF type \notin DOMAIN rd.formats THEN Indexed(rd, type, at)
    ELSE NextIndex(Met(Indexed(rd, type, at), met, type, at), type, at)

(* the same in C: the lengths are those of the last format; a type without one ends the program *)
scan_offsets(rd, lengths, at) ==
    LET type == Cell(rd, at).type
        told == IF type = "FMT" THEN Put(lengths, Cell(rd, at + 1).body.Name,
                                         Cell(rd, at + 1).body.Length) ELSE lengths IN
    IF at + 1 >= Size(rd) THEN rd
    ELSE IF ~Mark(rd, at) THEN scan_offsets(rd, lengths, at + 1)
    ELSE IF type \notin DOMAIN told THEN [rd EXCEPT !.dead = TRUE]
    ELSE scan_offsets(Indexed(rd, type, at), told, at + told[type])

(* the messages of one type that are whole, up to the first that is not *)
WholeOnes(rd, type) ==
  SelectSeq(Get(rd.offsets, type, <<>>), LAMBDA at : ~Missing(rd, at, rd.formats[type].len))
Teach(rd, type) ==
    FoldLeft(LAMBDA r, at : Taught(r, type, at), rd,
             IF type \in rd.name_to_id \union {"FMT"} THEN WholeOnes(rd, type) ELSE <<>>)

(* the first message of a type, and the first of each of its instances; a message may be parsed twice *)
Sample(rd, type) ==
    LET i == rd.formats[type].instance_field
        all == Get(rd.offsets, type, <<>>)
        Value(at) == Body(rd, at + 1, rd.formats[type])[i]
        first == {n \in DOMAIN all : n = 1 \/
            (i # "" /\ \A k \in 1 .. n - 1 : Value(all[k]) # Value(all[n]))} IN
    FoldLeft(LAMBDA r, n : IF n \in first THEN ParseAt(r, all[n]) ELSE r,
             rd, [n \in DOMAIN all |-> n])

ByNumber(formats) ==
    LET Before(t) == {u \in DOMAIN formats : formats[u].type < formats[t].type} IN
    [n \in 1 .. Cardinality(DOMAIN formats) |->
        CHOOSE t \in DOMAIN formats : Cardinality(Before(t)) = n - 1]
SampleAll(rd) == FoldLeft(Sample, rd, ByNumber(rd.formats))

init_arrays_fast(rd) ==
    LET scanned == scan_offsets(rd, [t \in {"FMT"} |-> FMT.len], 0) IN
    IF scanned.dead THEN scanned
    ELSE SampleAll(Teach(Teach(Teach(Teach(scanned, "FMT"), "UNIT"), "MULT"), "FMTU"))

(* every line but a short last one, by its first word; each FMT and FMTU is parsed when it is met *)
FirstLine(rd, type, at) ==
    IF type \in DOMAIN rd.offsets THEN Indexed(rd, type, at) ELSE ParseAt(Indexed(rd, type, at), at)
TextArrays(rd, at) ==
    LET type == Cell(rd, at).type
        known == FirstLine(rd, type, at) IN
    IF at >= Size(rd) \/ (at = Size(rd) - 1 /\ rd.log.short_end) THEN rd
    ELSE TextArrays(IF type \in {"FMT", "FMTU"} THEN ParseAt(known, at) ELSE known, at + 1)

(* --------------------------- reading by type of message -------------------- *)
KeyTypes == {"MODE", "MSG", "PARM", "STAT", "ORGN", "VER"}
Asked(types, strict) == IF strict THEN types ELSE types \union KeyTypes

(* the types of the first call after a rewind are looked up, those of later calls are not *)
Looking(rd, types, strict) ==
    IF rd.types # <<>> THEN rd
    ELSE LET ts == IF rd.log.kind = "binary" THEN Asked(types, strict) \intersect rd.name_to_id
                   ELSE Asked(types, strict) IN
         [rd EXCEPT !.types = <<ts>>, !.indexes = [t \in ts |-> 0]]

ToNext(rd) ==
    LET left == {t \in rd.types[1] : rd.indexes[t] < Len(Get(rd.offsets, t, <<>>))}
        Offset(t) == rd.offsets[t][rd.indexes[t] + 1]
        next == CHOOSE t \in left : \A u \in left : Offset(t) <= Offset(u) IN
    CASE left # {} -> [rd EXCEPT !.indexes[next] = @ + 1, !.offset = Offset(next)]
      [] left = {} /\ rd.log.kind = "binary" -> [rd EXCEPT !.offset = Size(rd)]
      [] OTHER -> rd
skip_to_type(rd, types, strict) == IF rd.log.kind = "table" THEN rd
                                   ELSE ToNext(Looking(rd, types, strict))

RECURSIVE recv_match(_, _, _)
MatchOrGoOn(n, types, strict) ==
    IF n.m = Nothing \/ n.m.type \in types THEN n ELSE recv_match(n.rd, types, strict)
recv_match(rd, types, strict) ==
  MatchOrGoOn(recv_msg(skip_to_type(rd, types, strict)), types, strict)

(* -------------------------------- rewinding -------------------------------- *)
FirstFMT(rd) == Smallest({i \in 0 .. Size(rd) - 1 : Cell(rd, i).type = "FMT"})

RewindMode(rd, keep_messages) ==
    [rd EXCEPT !.messages = IF keep_messages THEN @ ELSE <<>>, !.flightmode = <<"UNKNOWN">>,
               !.clock = rewind_event(@), !.types = <<>>,
               !.offset = IF rd.log.kind = "text" THEN FirstFMT(rd) ELSE 0]

_rewind(rd, keep_messages) ==
    [rd EXCEPT !.messages = IF keep_messages THEN @ ELSE <<>>,
               !.flightmode = IF rd.modes # <<>> /\ rd.modes[1] # <<>> THEN rd.modes[1][1].mode
                              ELSE <<"UNKNOWN">>,
               !.clock = rewind_event(@), !.types = <<>>,
               !.offset = IF rd.log.kind = "text" THEN FirstFMT(rd) ELSE 0]

(* -------------------------------- the clock -------------------------------- *)
Modern(m) == \A f \in {"TimeUS", "GWk", "GMS"} : Field(m, f) # None

RECURSIVE FirstGps(_, _), FindClock(_, _)

(* the first GPS message with a time, reading parameters on the way *)
GpsOrGoOn(n, gps) ==
    CASE n.m = Nothing \/ (n.m.type = "GPS" /\ ~Modern(n.m)) -> [rd |-> n.rd, gps |-> gps]
      [] n.m.type = "PARM" -> FirstGps(n.rd, gps)
      [] n.m.type = "GPS" /\ Modern(n.m) ->
            IF n.m.body.GWk > 0 THEN [rd |-> n.rd, gps |-> n.m] ELSE FirstGps(n.rd, n.m)
FirstGps(rd, gps) == GpsOrGoOn(recv_match(rd, {"GPS", "PARM"}, TRUE), gps)

Based(rd, kind, clock) == IF rd.log.zero_time_base THEN DFReaderClock(kind) ELSE clock
Clocked(rd, kind, clock) == [rd EXCEPT !.clock = Based(rd, kind, clock)]

(* what is found on the way: st = [us, ms, gps, px4_time, px4_gps, gps1], times None and messages Nothing before *)
ClockOrGoOn(n, st) ==
    LET m == n.m
        us == IF st.us = None THEN Field(m, "TimeUS") ELSE st.us
        isGps == m.type \in {"GPS", "GPS2"}
        ms == IF st.ms = None /\ ~isGps THEN Field(m, "TimeMS") ELSE st.ms
        isFirst == st.us = None /\ us # None /\ st.gps # Nothing
        first == IF ms = None THEN Field0(m, "T") ELSE ms
        next == [st EXCEPT !.us = us, !.ms = ms,
                           !.px4_gps = IF isGps /\ Field0(m, "GPSTime") > 0 THEN m ELSE @,
                           !.gps1 = IF isGps /\ Field0(m, "Week") > 0 THEN m ELSE @,
                           !.px4_time = IF m.type = "TIME" /\ Field(m, "StartTime") # None THEN m
                                        ELSE @]
        usGps == isGps /\ Field0(m, "TimeUS") > 0 /\ Field0(m, "GWk") > 0
        msGps == isGps /\ Field0(m, "T") > 0 /\ Field0(m, "Week") > 0
        again == /\ isGps /\ Field0(m, "Week") > 0 /\ st.gps1 # Nothing
                 /\ Field(st.gps1, "TimeMS") # Field(m, "TimeMS") \/
                      st.gps1.body.Week # m.body.Week IN
    CASE m = Nothing \/ (isFirst /\ st.gps.body.GWk <= 0) ->
            IF us = None /\ ms = None THEN n.rd
            ELSE [n.rd EXCEPT !.clock = DFReaderClock(IF us # None THEN "usec" ELSE "msec")]
      [] m # Nothing /\ isFirst /\ st.gps.body.GWk > 0 ->
            Clocked(n.rd, "usec", find_time_base_usec(DFReaderClock("usec"), st.gps, us))
      [] m # Nothing /\ ~isFirst /\ usGps ->
            Clocked(n.rd, "usec", find_time_base_usec(DFReaderClock("usec"), m, us))
      [] m # Nothing /\ ~isFirst /\ ~usGps /\ msGps ->
            Clocked(n.rd, "msec", find_time_base_msec(DFReaderClock("msec"), m, first))
      [] m # Nothing /\ ~isFirst /\ ~usGps /\ again /\ Field0(m, "T") = 0 -> n.rd
      [] OTHER ->
            IF next.px4_time # Nothing /\ next.px4_gps # Nothing
            THEN Clocked(n.rd, "px4",
                         find_time_base_px4([DFReaderClock("px4") EXCEPT !.px4_timebase =
                             next.px4_time.body.StartTime],
                                                         next.px4_gps))
            ELSE FindClock(n.rd, next)
FindClock(rd, st) == ClockOrGoOn(recv_msg(rd), st)

Unknown == [us |-> None, ms |-> None, gps |-> Nothing,
            px4_time |-> Nothing, px4_gps |-> Nothing, gps1 |-> Nothing]
AfterGps(g) == FindClock(_rewind(g.rd, TRUE), [Unknown EXCEPT !.gps = g.gps])
init_clock(rd) ==
    _rewind(AfterGps(FirstGps([_rewind(rd, TRUE) EXCEPT !.clock = DFReaderClock("gps")],
                              Nothing)), TRUE)

(* ------------------------------- opening a log ----------------------------- *)
DFReader(log) ==
    [log |-> log, offset |-> 0, formats |-> [t \in {"FMT"} |-> FMT],
     name_to_id |-> {}, offsets |-> <<>>,
     types |-> <<>>, indexes |-> <<>>, unit_lookup |-> <<>>,
         mult_lookup |-> <<>>, messages |-> <<>>,
     params |-> <<>>, mav_type |-> "Plane", flightmode |-> <<"UNKNOWN">>, modes |-> <<>>,
     clock |-> DFReaderClock("none"), linecount |-> None, dead |-> FALSE]

Index(rd) ==
    CASE rd.log.kind = "binary" /\ ~rd.log.fast ->
        init_arrays(rd, [lengths |-> <<>>, instances |-> {}], 0)
      [] rd.log.kind = "binary" /\ rd.log.fast -> init_arrays_fast(rd)
      [] rd.log.kind = "text" -> TextArrays(rd, FirstFMT(rd))

Ready(rd) == IF rd.dead THEN rd ELSE init_clock(rd)
Opened(log) ==
    IF log.kind = "table" THEN [recv_msg(DFReader(log)).rd EXCEPT !.offset = 0]
    ELSE Ready(Index(DFReader(log)))

(* --------------------------------- the modes ------------------------------- *)
(* of the types' last offsets the highest, and of a binary log the second highest when that is cut *)
LastOffsets(rd) == {rd.offsets[t][Len(rd.offsets[t])] : t \in DOMAIN rd.offsets}
OrSecond(n) ==
    LET lasts == LastOffsets(n.rd) IN
    IF n.m = Nothing /\ n.rd.log.kind = "binary"
    THEN recv_msg([n.rd EXCEPT !.offset = Largest((lasts \ {Largest(lasts)}) \union {0})]) ELSE n
last_timestamp(rd) == OrSecond(recv_msg([rd EXCEPT !.offset = Largest(LastOffsets(rd) \union {0})]))

RECURSIVE ModesOf(_, _)
Closed(list, t) == IF list = <<>> THEN list ELSE [list EXCEPT ![Len(list)].to = t]
ModeOrEnd(n, list) ==
    IF n.m = Nothing THEN [rd |-> n.rd, list |-> list]
    ELSE ModesOf(n.rd, IF list # <<>> /\ list[Len(list)].mode = n.rd.flightmode THEN list
                       ELSE Append(Closed(list, n.m.time),
                                   [mode |-> n.rd.flightmode, from |-> n.m.time, to |-> None]))
ModesOf(rd, list) == ModeOrEnd(recv_match(rd, {"MODE", "PARM"}, TRUE), list)

Listed(rd, list) == _rewind([rd EXCEPT !.modes = <<list>>], FALSE)
WithEnd(l, list) == Listed(l.rd, Closed(list, l.m.time))
ListModes(d) == IF d.list = <<>> THEN Listed(d.rd, d.list)
                ELSE WithEnd(last_timestamp(d.rd), d.list)
flightmode_list(rd) ==
    IF rd.modes # <<>> THEN _rewind(rd, FALSE)
    ELSE ListModes(ModesOf([_rewind(rd, FALSE) EXCEPT !.modes = <<<<>>>>], <<>>))

(* -------------------------------- the caller ------------------------------- *)
VARIABLES
    rd,                 \* the reader
    how,                \* history: how the log has been read since it was rewound: [types, strict], or "all"
    seen,               \* history: the messages returned since, ...
    ended,              \* ... whether that came to an end, ...
    passes              \* ... and how often the log was rewound

logvars == <<rd, how, seen, ended, passes>>

All == [types |-> {}, strict |-> FALSE]
Hows == {All} \union [types : AskedTypes, strict : BOOLEAN]

LogInit ==
    /\ \E i \in DOMAIN Logs : rd = Opened(Logs[i])
    /\ how \in Hows
    /\ seen = <<>> /\ ended = FALSE /\ passes = 1

Took(n) ==
    /\ rd' = n.rd
    /\ seen' = IF n.m = Nothing THEN seen ELSE Append(seen,
         [at |-> n.m.at, type |-> n.m.type, body |-> n.m.body, time |-> n.m.time])
    /\ ended' = (n.m = Nothing)
    /\ UNCHANGED <<how, passes>>

Next1 == ~rd.dead /\ ~ended /\ how = All /\ Took(recv_msg(rd))
Match == ~rd.dead /\ ~ended /\ how # All /\ Took(recv_match(rd, how.types, how.strict))

Again(r) ==
    /\ passes < MaxPasses /\ ~rd.dead
    /\ rd' = r /\ how' \in Hows
    /\ seen' = <<>> /\ ended' = FALSE /\ passes' = passes + 1

Rewind == Again(IF rd.log.kind = "table" THEN [rd EXCEPT !.offset = 0] ELSE _rewind(rd, FALSE))
Modes == rd.log.kind # "table" /\ Again(flightmode_list(rd))

(* the number of messages of a table is counted once, which rewinds it *)
Count ==
    /\ rd.log.kind = "table" /\ rd.linecount = None
    /\ Again([rd EXCEPT !.linecount = Size(rd), !.offset = 0])

LogNext == Next1 \/ Match \/ Rewind \/ Modes \/ Count
LogSpec == LogInit /\ [][LogNext]_logvars

-----------------------------------------------------------------------------
(* the messages of a log as recv_msg returns them from its start to its end *)
RECURSIVE Whole(_)
AndRest(n) == IF n.m = Nothing THEN <<>> ELSE <<n.m>> \o Whole(n.rd)
Whole(r) == AndRest(recv_msg(r))
Sequence == Whole(IF rd.log.kind = "table" THEN [rd EXCEPT !.offset = 0] ELSE _rewind(rd, TRUE))
Places(ms) == [i \in DOMAIN ms |-> <<ms[i].at, ms[i].type>>]
OfTypes(ms) == IF how = All THEN ms ELSE SelectSeq(ms, LAMBDA m : m.type \in how.types)

(* Reading by type returns what reading everything returns of these types: each message  *)
(* once, in the order of the log, whatever was read, listed or rewound before; the index *)
(* made at the start and the parser agree.                                               *)
Damaged == \E i \in 0 .. Size(rd) - 1 : rd.log.kind = "text" /\ Cell(rd, i).short
ReadsByType ==
    (~rd.dead /\ ~Damaged) =>
        LET all == Places(OfTypes(Sequence)) IN
        /\ IsPrefix(Places(seen), all)
        /\ ended => Places(seen) = all

(* Both indexers, the one in Python and the one with the offsets from C, make the same   *)
(* index: offsets, formats with units and instances, and the names in `messages`.        *)
IndexersAgree ==
    (rd.log.kind = "binary" /\ seen = <<>> /\ passes = 1) =>
        LET slow == Index(DFReader([rd.log EXCEPT !.fast = FALSE]))
            fast == Index(DFReader([rd.log EXCEPT !.fast = TRUE])) IN
        fast.dead \/ (/\ slow.offsets = fast.offsets /\ slow.formats = fast.formats
                      /\ DOMAIN slow.messages = DOMAIN fast.messages /\
                           slow.name_to_id = fast.name_to_id)

(* Of a log whose own times go forward the messages' times go forward in every reading,   *)
(* those of messages without a time of their own too, after every rewind.                 *)
TimesForward ==
    rd.clock.kind \in {"usec", "msec"}
        => \A i \in 1 .. Len(seen) - 1 : seen[i].time <= seen[i + 1].time

(* The list of flight modes and the mode known while reading agree: read in order, the   *)
(* mode is that of the interval the time of the last message is in.                       *)
ModeAt(t) ==
    LET l == rd.modes[1]
        in == {i \in DOMAIN l : l[i].from <= t} IN
    IF in = {} THEN l[1].mode ELSE l[Largest(in)].mode
ModesAgree ==
    (rd.modes # <<>> /\ rd.modes[1] # <<>> /\ how = All /\ seen # <<>> /\ rd.clock.kind # "gps") =>
        rd.flightmode = ModeAt(seen[Len(seen)].time)
=============================================================================
