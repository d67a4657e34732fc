------------------------------- MODULE MavTlog -------------------------------
(* Reading telemetry logs (classes mavlogfile and mavmmaplog of mavutil.py): a *)
(* file of frames, each after a time stamp of eight bytes, read by the same    *)
(* parser as a link, in order or, through an index, by the types of messages.  *)
EXTENDS MavUtil, FiniteSets

CONSTANTS
    Tlogs,              \* the files: sequences of [time, frame]; a time of -1 is noise in the place of both
    TypeSets,           \* the sets of types a caller asks for
    ThreeDays,          \* how far a time stamp may be from the last one after bad data
    MaxReadings         \* bound of the checked instance

VARIABLES
    tl,                 \* the reader
    entries,            \* the entries of the file
    types,              \* history: the types it is read by since it was rewound, {} for all, ...
    got,                \* ... the messages returned since, with their times, ...
    over,               \* ... whether that came to an end, ...
    readings            \* ... and how often it was rewound

tlogvars == <<tl, entries, types, got, over, readings>>

(* a time stamp of these days starts with the same five bytes; of other bytes it is far away *)
Stamp(t) == <<0, 5, 99, 99, 99, t \div 65536, (t \div 256) % 256, t % 256>>
Never == 1000000000
TimeOf(b) == IF Front2(b, 5) = Front2(Stamp(0), 5) THEN 65536 * b[6] + 256 * b[7] + b[8] ELSE Never
Distance(a, b) == IF a > b THEN a - b ELSE b - a

Bytes(es) == FoldLeft(LAMBDA bytes, e : bytes
    \o IF e.time = -1 THEN e.frame ELSE Stamp(e.time) \o e.frame, <<>>, es)

mavlogfile(data) ==
    [c |-> mavfile(2), data |-> data, pos |-> 0,
     timestamp |-> 0, last_bad |-> FALSE, last_timestamp |-> -1, link |-> 0,
     offsets |-> <<>>, nums |-> <<>>, indexes |-> <<>>, instances |-> {}, modes |-> <<>>]

Left(t) == Len(t.data) - t.pos
recv(t, n) == SubSeq(t.data, t.pos + 1, IF n > Left(t) THEN Len(t.data) ELSE t.pos + n)

(* one byte further until the time is near the last one, or the file ends *)
RECURSIVE scan_timestamp(_, _)
scan_timestamp(t, b) ==
    IF Distance(TimeOf(b), t.last_timestamp) <= ThreeDays \/
        Left(t) = 0 THEN [t EXCEPT !.timestamp = TimeOf(b)]
    ELSE scan_timestamp([t EXCEPT !.pos = @ + 1], Append(Tail(b), t.data[t.pos + 1]))

Scanned(t, b) ==
    IF t.last_bad /\ t.last_timestamp # -1 /\ Distance(TimeOf(b), t.last_timestamp) > ThreeDays
    THEN scan_timestamp(t, b) ELSE [t EXCEPT !.timestamp = TimeOf(b)]

Stamped(t, b) == [Scanned([t EXCEPT !.pos = @ + 8], b) EXCEPT !.link = b[8] % 4]
FirstTime(t) == IF Left(t) < 8 THEN [t EXCEPT !.pos = Len(t.data)]
                ELSE [Stamped(t, recv(t, 8)) EXCEPT !.timestamp = TimeOf(recv(t, 8))]
pre_message(t) == IF Left(t) < 8 THEN [t EXCEPT !.pos = Len(t.data)] ELSE Stamped(t, recv(t, 8))

(* post_message: the time of bad data is not remembered *)
Posted(t, m) ==
    [t EXCEPT !.last_bad = m.kind = "bad",
     !.last_timestamp = IF m.kind = "bad" THEN @ ELSE t.timestamp]

RECURSIVE Loop(_)
Turn(t, n, r) ==
    LET on == [t EXCEPT !.c = r.c, !.pos = IF n > Left(t) THEN Len(t.data) ELSE @ + n] IN
    CASE r.m.kind \notin {"none", "raised"} -> [t |-> Posted(on, r.m), m |-> r.m]
      [] r.m.kind = "none" /\ Left(t) = 0 -> [t |-> on, m |-> r.m]
      [] OTHER -> Loop(on)
Loop(t) == LET n == bytes_needed(t.c.mav) IN Turn(t, n, ReadBytes(t.c, recv(t, n)))
recv_msg(t) == Loop(pre_message(t))

(* ---------------------------------- the index ------------------------------ *)
At(t, ofs) == t.data[ofs + 1]
FrameAt(t, ofs) ==                                         \* the frame behind a time stamp at ofs
    LET marker == At(t, ofs + 8)
        v2 == marker = PROTOCOL_MARKER_V2
        signed == v2 /\ At(t, ofs + 10) % 2 = MAVLINK_IFLAG_SIGNED IN
    [type |-> IF v2 THEN At(t, ofs + 15) + 256 * At(t, ofs + 16) + 65536 * At(t, ofs + 17)
              ELSE At(t, ofs + 13),
     len |-> At(t, ofs + 9) + 8 + (IF v2 THEN 12
                                   ELSE 8) + (IF signed THEN MAVLINK_SIGNATURE_BLOCK_LEN ELSE 0),
     data |-> ofs + IF v2 THEN 18 ELSE 14]

Of(offsets, type) == IF type \in DOMAIN offsets THEN offsets[type] ELSE <<>>
Indexed(t, f, ofs) ==
    LET i == InstanceField[f.type]
        at == f.data + i - 1 IN
    [t EXCEPT !.offsets = (f.type :> Append(Of(@, f.type), ofs)) @@ @,
              !.instances = IF i = 0 THEN @ ELSE @
                  \union {<<f.type, IF at >= ofs + f.len - 2 THEN 0 ELSE At(t, at)>>}]

(* the first message of a type is read, with the parser in the state it is left in *)
FirstOf(t, f, ofs) == IF f.type \in DOMAIN t.offsets THEN t ELSE recv_msg([t EXCEPT !.pos = ofs]).t

RECURSIVE init_arrays(_, _)
Further(t, f, ofs) ==
    CASE f.type \notin DOMAIN Known -> init_arrays(t, ofs + f.len)
      [] f.type \in DOMAIN Known /\ InstanceField[f.type] # 0 /\
          f.data + InstanceField[f.type] - 1 >= Len(t.data) -> t
      [] OTHER -> init_arrays(Indexed(FirstOf(t, f, ofs), f, ofs), ofs + f.len)
init_arrays(t, ofs) ==
    CASE ofs + 14 >= Len(t.data) -> t
      [] ofs + 14 < Len(t.data) /\ At(t, ofs + 8) \notin Markers -> init_arrays(t, ofs + 1)
      [] OTHER -> IF At(t, ofs + 8) = PROTOCOL_MARKER_V2 /\ ofs + 18 > Len(t.data) THEN t
                  ELSE Further(t, FrameAt(t, ofs), ofs)

(* the file is read from its start; the parser keeps its bytes *)
_rewind(t) ==
    [t EXCEPT !.pos = 0, !.nums = <<>>, !.c.sysid_state[t.c.sysid].flightmode = <<"UNKNOWN">>]

mavmmaplog(data) == _rewind(init_arrays(mavlogfile(data), 0))

(* --------------------------------- by type --------------------------------- *)
Looking(t, ts) ==
    LET ids == (ts \union {HEARTBEAT, PARAM_VALUE}) \intersect DOMAIN t.offsets IN
    IF t.nums # <<>> THEN t ELSE [t EXCEPT !.nums = <<ids>>, !.indexes = [i \in ids |-> 0]]

(* without another message of the types the file is read on from where it is *)
ToNext(t) ==
    LET left == {i \in t.nums[1] : t.indexes[i] < Len(t.offsets[i])}
        Offset(i) == t.offsets[i][t.indexes[i] + 1]
        first == CHOOSE i \in left : \A j \in left : Offset(i) <= Offset(j) IN
    IF left = {} THEN t ELSE [t EXCEPT !.indexes[first] = @ + 1, !.pos = Offset(first)]
skip_to_type(t, ts) == IF ts = {} THEN t ELSE ToNext(Looking(t, ts))

RECURSIVE recv_of(_, _)
OrGoOn(n, ts) == IF n.m.kind = "none" \/ ts = {} \/ n.m.id \in ts THEN n ELSE recv_of(n.t, ts)
recv_of(t, ts) == OrGoOn(recv_msg(skip_to_type(t, ts)), ts)       \* recv_match

ModeKnown(t) == t.c.sysid_state[t.c.sysid].flightmode
RECURSIVE ModesOf(_, _)
Closed(list, time) == IF list = <<>> THEN list ELSE [list EXCEPT ![Len(list)].to = time]
ModeOrEnd(n, list) ==
    IF n.m.kind = "none" THEN [t |-> n.t, list |-> list]
    ELSE IF list # <<>> /\
        list[Len(list)].mode = ModeKnown(n.t) THEN ModesOf(n.t, Closed(list, n.t.timestamp))
    ELSE ModesOf(n.t, Append(Closed(list, n.t.timestamp),
        [mode |-> ModeKnown(n.t), from |-> n.t.timestamp, to |-> n.t.timestamp]))
ModesOf(t, list) == ModeOrEnd(recv_of(t, {HEARTBEAT}), list)

Listed(d) == _rewind([d.t EXCEPT !.modes = <<d.list>>])
flightmode_list(t) == IF t.modes # <<>> THEN _rewind(t) ELSE Listed(ModesOf(_rewind(t), <<>>))

(* -------------------------------- the caller ------------------------------- *)
TlogInit ==
    /\ \E i \in DOMAIN Tlogs : entries = Tlogs[i] /\ tl = mavmmaplog(Bytes(Tlogs[i]))
    /\ types \in TypeSets
    /\ got = <<>> /\ over = FALSE /\ readings = 1

Took(n) ==
    /\ tl' = n.t
    /\ got' = IF n.m.kind = "message" THEN Append(got,
         [frame |-> n.m.bytes, id |-> n.m.id, time |-> n.t.timestamp]) ELSE got
    /\ over' = (n.m.kind = "none")
    /\ UNCHANGED <<entries, types, readings>>

ReadTlog == ~over /\ Took(recv_of(tl, types))

Again(t) ==
    /\ readings < MaxReadings
    /\ tl' = t /\ types' \in TypeSets
    /\ got' = <<>> /\ over' = FALSE /\ readings' = readings + 1
    /\ UNCHANGED entries

RewindTlog == Again(_rewind(tl))
ModesTlog == Again(flightmode_list(tl))

TlogNext == ReadTlog \/ RewindTlog \/ ModesTlog
TlogSpec == TlogInit /\ [][TlogNext]_tlogvars

-----------------------------------------------------------------------------
Recorded(e) == e.time # -1 /\ ReadBytes(mavfile(2), e.frame).m.kind = "message"

(* bytes_needed asks for 12 bytes after a MAVLink 2 frame, a MAVLink 1 frame *)
(* has fewer with a payload under four bytes: the time stamp behind is eaten *)
Uneaten == \A i \in DOMAIN entries : entries[i].time # -1 /\
    entries[i].frame[1] # PROTOCOL_MARKER_V2 => Len(entries[i].frame) >= 12

(* A message that comes out of a telemetry log has the time it was recorded at: never *)
(* that of another message, nor one made of the bytes of noise or of a damaged frame, *)
(* which are read as time stamps until scan_timestamp finds one near the last.        *)
OwnTimes ==
    Uneaten => \A k \in DOMAIN got : \E i \in DOMAIN entries :
        Recorded(entries[i]) /\ entries[i].frame = got[k].frame /\ entries[i].time = got[k].time

(* Reading a whole log by type, through the index, gives the messages of these types  *)
(* that reading it in order gives, whatever was read before it was rewound, although  *)
(* flight modes and parameters are read along the way (skip_to_type of mavmmaplog).   *)
Expected == SelectSeq(entries, LAMBDA e : types = {} \/ MsgId(e.frame) \in types)
TlogByType ==
    Uneaten /\ (\A i \in DOMAIN entries : Recorded(entries[i])) =>
        /\ IsPrefix([k \in DOMAIN got |-> got[k].frame],
                    [i \in DOMAIN Expected |-> Expected[i].frame])
        /\ over => Len(got) = Len(Expected)

=============================================================================
