------------------------------ MODULE MavReaders ------------------------------
(* The readers of MAVLink frames the other generators write: the JavaScript   *)
(* of mavgen_javascript.py (nextgen) and mavgen_javascript_stable.py, which    *)
(* cut a stream as the Python one does, the Wireshark dissector of             *)
(* mavgen_wlua.py, which walks over one packet, and the parser of              *)
(* mavgen_spin2.py, which takes single bytes from a serial port.               *)
EXTENDS MavFrame

(* ------------------------------- JavaScript -------------------------------- *)
MAVLinkProcessor(marker) ==
    [buf |-> <<>>, marker |-> marker, expected_length |-> HeaderLen(marker),
     signing |-> [MAVLinkSigning EXCEPT !.timestamp = 1]]

js_bytes_needed(js) == IF js.expected_length > Len(js.buf) THEN js.expected_length - Len(js.buf)
                       ELSE 1

(* one byte is elided and returned in a bad_data message *)
js_parsePrefix(js) ==
    [mav |-> [js EXCEPT !.buf = Tail(@), !.expected_length = HeaderLen(js.marker)],
     m |-> MAVLink_bad_data(<<js.buf[1]>>)]

js_parseLength(js) ==
    IF Len(js.buf) >= 3 THEN js.buf[2] + HeaderLen(js.marker) + 2 + SignatureLen(js.buf)
    ELSE js.expected_length

(* the time stamp of a known stream stays what it was when the stream was new *)
js_check_signature(signing, f) ==
    IF ~Fresh(signing, f) THEN signing
    ELSE [signing EXCEPT
            !.stream_timestamps = IF Stream(f) \in DOMAIN @ THEN @
                                  ELSE Updated(@, Stream(f), Timestamp(f)),
            !.timestamp = IF SigOk(signing, f) /\ Timestamp(f) > @ THEN Timestamp(f) ELSE @]

js_decode(js, f) ==
    IF Unknown(f) \/ ~CrcRight(f) THEN [mav |-> js, m |-> MAVLink_bad_data(f)]
    ELSE LET keyed == js.signing.secret_key # 0 /\ Signed(f) IN
         [mav |-> IF keyed THEN [js EXCEPT !.signing = js_check_signature(@, f)] ELSE js,
          m |-> IF Accepted(js.signing, f) THEN Message(f, keyed /\ GoodSignature(js.signing, f))
                ELSE MAVLink_bad_data(f)]

js_parsePayload(js, n) ==
    IF n < HeaderLen(js.marker) + 2 \/ Len(js.buf) < n
    THEN [mav |-> [js EXCEPT !.expected_length = n], m |-> NoMessage]
    ELSE js_decode([js EXCEPT !.buf = Drop(@, n), !.expected_length = HeaderLen(js.marker)],
                   Front2(js.buf, n))

js_parseChar(js0, c) ==
    LET js == [js0 EXCEPT !.buf = @ \o c] IN                            \* pushBuffer
    IF js.buf # <<>> /\ js.buf[1] # js.marker THEN js_parsePrefix(js)
    ELSE js_parsePayload(js, js_parseLength(js))

(* the stable one knows nothing of signatures: two bytes tell the length *)
stable_parseLength(js) == IF Len(js.buf) >= 2 THEN js.buf[2] + HeaderLen(js.marker) + 2
                          ELSE js.expected_length

stable_decode(f) ==
    LET plain == [f EXCEPT ![3] = IF f[1] = PROTOCOL_MARKER_V2 THEN 0 ELSE @]
        crc == x25crc(Append(SubSeq(f, 2, Len(f) - 2), Known[MsgId(f)].crc_extra)) IN
    IF Unknown(f) \/ Last2(f, 2) # crc THEN MAVLink_bad_data(f)
    ELSE [Message(plain, FALSE) EXCEPT !.bytes = f]

stable_parsePayload(js, n) ==
    IF n < 8 \/ Len(js.buf) < n THEN [mav |-> [js EXCEPT !.expected_length = n], m |-> NoMessage]
    ELSE [mav |-> [js EXCEPT !.buf = Drop(@, n), !.expected_length = 6],
          m |-> stable_decode(Front2(js.buf, n))]

stable_parseChar(js0, c) ==
    LET js == [js0 EXCEPT !.buf = @ \o c] IN
    IF js.buf # <<>> /\ js.buf[1] # js.marker THEN js_parsePrefix(js)
    ELSE stable_parsePayload(js, stable_parseLength(js))

(* -------------------------- the Wireshark dissector ------------------------ *)
(* offsets count from 0; unknown is unknownFrameBeginOffset, 0 for none *)
Dissection == [offset |-> 0, unknown |-> 0, items |-> <<>>, done |-> FALSE]

Item(kind, from, to) == [kind |-> kind, from |-> from, to |-> to]

Show(s, kind, to) == [s EXCEPT !.items = Append(@, Item(kind, s.offset, to)), !.offset = to]

(* an unknown byte; at the end of the packet what was unknown is shown *)
SkipUnknown(s, buffer) ==
    LET from == IF s.unknown = 0 THEN s.offset ELSE s.unknown
        next == s.offset + 1 IN
    IF next < Len(buffer) THEN [s EXCEPT !.unknown = from, !.offset = next]
    ELSE [s EXCEPT !.items = IF from = 0 THEN @ ELSE Append(@, Item("unknown", from, next)),
                   !.unknown = 0, !.offset = next, !.done = TRUE]

(* unknown bytes before a frame: they are shown, and the loop over the packet ends *)
ShowUnknown(s) ==
    [s EXCEPT !.items = Append(@, Item("unknown", s.unknown, s.offset)),
     !.unknown = 0, !.done = TRUE]

(* where the body ends: a header or a body that is cut short ends two bytes before the packet does *)
BodyEnd(s, buffer) ==
    LET header == HeaderLen(buffer[s.offset + 1])
        limit == Len(buffer) - 2
        body == s.offset + header + buffer[s.offset + 2] IN
    IF limit - s.offset <= header THEN limit
    ELSE IF MsgId(Drop(buffer, s.offset)) \in DOMAIN Known /\ body < limit THEN body ELSE limit

DissectFrame(s, buffer) ==
    LET f == Drop(buffer, s.offset)
        whole == Len(buffer) - 2 - s.offset > HeaderLen(f[1])
        signed == whole /\ f[1] = PROTOCOL_MARKER_V2 /\ f[3] = MAVLINK_IFLAG_SIGNED
        to == BodyEnd(s, buffer) + 2 + (IF signed THEN MAVLINK_SIGNATURE_BLOCK_LEN ELSE 0) IN
    IF to > Len(buffer) THEN [s EXCEPT !.done = TRUE]                  \* an error of the dissector
    ELSE Show(s, IF ~whole \/ Unknown(f) THEN "malformed" ELSE "message", to)

Dissected(s, buffer) ==
    IF s.done \/ s.offset >= Len(buffer) THEN s
    ELSE IF buffer[s.offset + 1] \notin Markers THEN SkipUnknown(s, buffer)
    ELSE IF s.unknown # 0 THEN ShowUnknown(s)
    ELSE DissectFrame(s, buffer)

dissector(buffer) == FoldLeft(LAMBDA s, i : Dissected(s, buffer), Dissection, buffer).items

(* ------------------------------ the Spin2 parser --------------------------- *)
NoPacket == [state |-> "IDLE", isMavlink2 |-> TRUE,
             fields |-> <<>>, len |-> 0, payload |-> <<>>, checksum |-> <<>>]

(* the fields of the header, in the order they are read *)
spin_start(p, c) ==
    IF c \in Markers THEN [p EXCEPT !.state = "STX",
                           !.isMavlink2 = c = PROTOCOL_MARKER_V2, !.fields = <<c>>] ELSE p

AfterHeader(p, c) ==
    CASE p.state = "STX" -> IF p.isMavlink2 THEN "LENGTH" ELSE "COMPAT_FLAGS"
      [] p.state = "LENGTH" -> IF c \in {0, 1} THEN "INCOMPAT_FLAGS" ELSE "IDLE"
      [] p.state = "INCOMPAT_FLAGS" -> "COMPAT_FLAGS"
      [] p.state = "COMPAT_FLAGS" -> "SEQ"
      [] p.state = "SEQ" -> "SYSID"
      [] p.state = "SYSID" -> "COMPID"
      [] p.state = "COMPID" -> IF p.isMavlink2 THEN "MSGID1" ELSE "MSGID3"
      [] p.state = "MSGID1" -> "MSGID2"
      [] p.state = "MSGID2" -> IF p.len > 0 THEN "MSGID3" ELSE "PAYLOAD"

spin_parse_char(p, c) ==
    CASE p.state = "IDLE" -> spin_start(p, c)
      [] p.state = "MSGID3" -> [p EXCEPT !.payload = Append(@, c),
                                         !.state = IF Len(p.payload) + 1 = p.len THEN "PAYLOAD"
                                                   ELSE @]
      [] p.state = "PAYLOAD" -> [p EXCEPT !.checksum = <<c>>, !.state = "CRC1"]     \* into the high byte
      [] p.state = "CRC1" -> [p EXCEPT !.checksum = <<c>> \o @, !.state = "CRC2"]   \* into the low byte
      [] p.state = "CRC2" -> [p EXCEPT !.state = "IDLE"]
      [] OTHER -> [p EXCEPT !.state = AfterHeader(p, c), !.fields = Append(@, c),
                            !.len = IF p.state = "STX" THEN c ELSE @]

(* receive: the packet the bytes of a port make, how many it took, and whether there is one; *)
(* a packet that stops short is a time-out of recvSerial                                     *)
spin_receive(buf) ==
    IF buf[1] # PROTOCOL_MARKER_V2 \/ Len(buf) < 2
    THEN [has |-> FALSE, used |-> IF buf[1] = PROTOCOL_MARKER_V2 THEN Len(buf) ELSE 1,
          packet |-> NoPacket]
    ELSE LET n == IF buf[2] + 12 <= Len(buf) THEN buf[2] + 12 ELSE Len(buf) IN
         [has |-> n = buf[2] + 12, used |-> n,
          packet |-> FoldLeft(spin_parse_char, NoPacket, Front2(buf, n))]
=============================================================================
