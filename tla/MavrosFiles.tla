------------------------------- MODULE MavrosFiles -------------------------------
(* What the Python client of mavros reads and writes: files of parameters in    *)
(* three styles, files of missions, and MAVLink frames as messages of ROS.  A   *)
(* line is a record of what the readers look at.                                *)
EXTENDS Integers, Sequences, SequencesExt

CONSTANTS FrameTable        \* messages by number: size and seed of the checksum
Frames == INSTANCE MavFrame WITH Known <- FrameTable, StreamAge <- 1

(* -------------------------------- parameters -------------------------------- *)
(* a value: its number, whether it is a float, and whether its text has a point *)
Styles == {"mavproxy", "missionplanner", "qgroundcontrol"}
Width(style) == IF style = "qgroundcontrol" THEN 5 ELSE 2
Columns(style, line) == IF line.style = style THEN line.columns ELSE 1
ParamRow(style, name, value) ==
  [kind |-> "row", style |-> style, columns |-> Width(style), name |-> name, value |-> value]
ParamComments(style) ==
  [i \in 1 .. IF style = "qgroundcontrol" THEN 3 ELSE 1 |-> [kind |-> "comment"]]
SaveParams(style, params) ==
    ParamComments(style) \o SetToSeq({ParamRow(style, n, params[n]) : n \in DOMAIN params})

(* text without a point is taken for an integer *)
to_numeric(value) == [fails |-> value.float /\ ~value.point, value |-> value]
ReadParam(style, r, line) ==
    IF r.raised \/ line.kind = "comment" THEN r
    ELSE IF line.kind = "blank" \/ Columns(style, line) # Width(style) \/
        to_numeric(line.value).fails THEN [r EXCEPT !.raised = TRUE]
    ELSE [r EXCEPT !.params = (line.name :> to_numeric(line.value).value) @@ @]
LoadParams(style, lines) ==
  FoldLeft(LAMBDA r, line : ReadParam(style, r, line), [params |-> <<>>, raised |-> FALSE], lines)

(* --------------------------------- missions --------------------------------- *)
(* the first line that is no comment must be three words; of another version it is skipped *)
WplHeader(version) ==
    CASE version \in {"QGC WPL 110", "QGC WPL 120"} ->
        "known" [] version = "QGC WPL 100" -> "skipped" [] OTHER -> "bad"
Waypoint(item) == [item EXCEPT !.comment = "", !.seq = 0]
ReadWaypoint(r, line) ==
    IF r.raised \/ line.kind = "comment" THEN r
    ELSE IF line.kind = "item" /\
        r.header = "known" THEN [r EXCEPT !.points = Append(@, Waypoint(line.item))]
    ELSE [r EXCEPT !.raised = TRUE]
_parse_wpl_file(file) ==
    FoldLeft(ReadWaypoint, [points |-> <<>>, header |-> WplHeader(file.version),
                            raised |-> WplHeader(file.version) = "bad"], file.lines)
SaveWpl(points) == [version |-> "QGC WPL 120", lines |->
    [i \in DOMAIN points |-> [kind |-> "item", text |-> "", item |-> points[i]]]]

(* ---------------------------------- frames ---------------------------------- *)
Octets(n) == (n + 7) \div 8
convert_to_payload64(bytes) == [i \in 1 .. Octets(Len(bytes)) |->
    [j \in 1 .. 8 |-> IF 8 * (i - 1) + j <= Len(bytes) THEN bytes[8 * (i - 1) + j] ELSE 0]]

(* what pymavlink keeps of a message: of one it packed, the payload; of one it received, all from the seventh byte *)
PackedMessage(frame) == [frame |-> frame, payload |-> Frames!Payload(frame), signed |-> FALSE]
ReceivedMessage(frame) == [frame |-> frame, payload |->
    SubSeq(frame, 7, Len(frame) - 2 - Frames!SignatureLen(frame)), signed |-> Frames!Signed(frame)]

CannotConvert(v20, m) == v20 /\ m.signed
convert_to_rosmsg(v20, m) ==
    LET from == Frames!From(m.frame)
    IN  [magic |-> IF v20 THEN Frames!PROTOCOL_MARKER_V2 ELSE Frames!PROTOCOL_MARKER_V1,
         len |-> IF v20 THEN m.frame[2] ELSE Len(m.payload),
         seq |-> from[1], sysid |-> from[2], compid |-> from[3], msgid |-> Frames!MsgId(m.frame),
         checksum |-> SubSeq(Frames!Unsigned(m.frame),
                             Len(Frames!Unsigned(m.frame)) - 1, Len(Frames!Unsigned(m.frame))),
         payload64 |-> convert_to_payload64(m.payload)]

TooShort(msg) == 8 * Len(msg.payload64) < msg.len
HeaderOf(msg) ==
    IF msg.magic = Frames!PROTOCOL_MARKER_V1 THEN <<msg.magic, msg.len,
                                                    msg.seq, msg.sysid, msg.compid, msg.msgid>>
    ELSE <<msg.magic, msg.len, 0, 0, msg.seq, msg.sysid,
           msg.compid, msg.msgid % 256, (msg.msgid \div 256) % 256, msg.msgid \div 65536>>
convert_to_bytes(msg) ==
    LET bytes == HeaderOf(msg) \o FlattenSeq(msg.payload64)
    IN  (IF 8 * Len(msg.payload64) # msg.len THEN SubSeq(bytes, 1, Len(HeaderOf(msg)) + msg.len)
         ELSE bytes) \o msg.checksum
=============================================================================
