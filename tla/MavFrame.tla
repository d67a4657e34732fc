------------------------------- MODULE MavFrame -------------------------------
(* MAVLink frames as bytes, and class MAVLink as mavgen_python.py writes it   *)
(* into every Python dialect: sending, signing, and cutting a stream of bytes *)
(* into messages.  A MAVLink object is a record; a method is a function of it. *)
(* The checksum and the digest are small functions of the bytes they cover;   *)
(* a time stamp has the low two of its six bytes.                             *)
EXTENDS Integers, Sequences, SequencesExt

CONSTANTS
    Known,              \* mavlink_map: message id -> [size, crc_extra]
    StreamAge           \* 6000*1000: how far a new stream may be behind our time stamp

ASSUME FrameAssumption ==
    /\ DOMAIN Known \subseteq Nat /\ Known \in [DOMAIN Known -> [size : Nat, crc_extra : Nat]]
    /\ StreamAge \in Nat

None == "None"
PROTOCOL_MARKER_V1 == 254
PROTOCOL_MARKER_V2 == 253
Markers == {PROTOCOL_MARKER_V1, PROTOCOL_MARKER_V2}
MAVLINK_IFLAG_SIGNED == 1
MAVLINK_SIGNATURE_BLOCK_LEN == 13
HeaderLen(marker) == IF marker = PROTOCOL_MARKER_V2 THEN 10 ELSE 6

(* a remainder is a byte; the provers, who cannot do induction over bytes, are told so *)
AsByte(x) == IF x \in 0 .. 255 THEN x ELSE 0
x25crc(bytes) == LET c == AsByte(FoldLeft(LAMBDA acc, b : (3 * acc + b + 1) % 241, 7, bytes)) IN
    <<c, c % 17>>
Digest(key, bytes) == <<key>> \o x25crc(bytes) \o <<0, 0, 0>>

Front2(s, n) == SubSeq(s, 1, n)                       \* the first n
Drop(s, n) == SubSeq(s, n + 1, Len(s))                \* all but the first n
Last2(s, n) == SubSeq(s, Len(s) - n + 1, Len(s))      \* the last n
Updated(f, x, v) == [y \in DOMAIN f \union {x} |-> IF y = x THEN v ELSE f[y]]

(* --------------------------------- sending --------------------------------- *)
MAVLinkSigning ==
    [secret_key |-> 0, timestamp |-> 0, link_id |-> 0, sign_outgoing |-> FALSE,
     allow_unsigned |-> {}, stream_timestamps |-> <<>>]       \* key 0: no key

MAVLink(wire, sys, comp) ==
    [wire |-> wire, seq |-> 0, sys |-> sys, comp |-> comp, buf |-> <<>>,
     expected_length |-> HeaderLen(PROTOCOL_MARKER_V1) + 2, have_prefix_error |-> FALSE,
     robust_parsing |-> FALSE, signing |-> MAVLinkSigning]

LastNonZero(payload) ==
    LET kept == {i \in 2..Len(payload) : payload[i] # 0} IN
    IF kept = {} THEN IF Len(payload) = 0 THEN 0
                      ELSE 1 ELSE CHOOSE i \in kept : \A j \in kept : j <= i

Header(mav, id, len, v1, flags) ==
    IF mav.wire = 2 /\ ~v1
    THEN <<PROTOCOL_MARKER_V2, len, flags,
           0, mav.seq, mav.sys, mav.comp, id % 256, (id \div 256) % 256, id \div 65536>>
    ELSE <<PROTOCOL_MARKER_V1, len, mav.seq, mav.sys, mav.comp, id % 256>>

SignatureHead(signing) ==
  <<signing.link_id, signing.timestamp % 256, signing.timestamp \div 256, 0, 0, 0, 0>>

sign_packet(signing, bytes) ==
    LET body == bytes \o SignatureHead(signing) IN body \o Digest(signing.secret_key, body)

_pack(mav, id, payload, v1) ==
    LET long == mav.wire = 2 /\ ~v1
        sent == IF long THEN Front2(payload, LastNonZero(payload)) ELSE payload
        flags == IF mav.signing.sign_outgoing THEN MAVLINK_IFLAG_SIGNED ELSE 0
        body == Header(mav, id, Len(sent), v1, flags) \o sent
        frame == body \o x25crc(Append(Tail(body), Known[id].crc_extra)) IN
    IF mav.signing.sign_outgoing /\ ~v1 THEN sign_packet(mav.signing, frame) ELSE frame

(* the sender after the frame _pack gives has been written *)
send(mav, v1) ==
    [mav EXCEPT !.seq = (@ + 1) % 256,
                !.signing.timestamp = IF mav.signing.sign_outgoing /\ ~v1 THEN @ + 1 ELSE @]

(* -------------------------------- messages --------------------------------- *)
NoMessage == [kind |-> "none", bytes |-> <<>>, id |-> -1,
              sys |-> 0, comp |-> 0, seq |-> 0, signed |-> FALSE, link_id |-> 0, fields |-> <<>>]
MAVLink_bad_data(bytes) == [NoMessage EXCEPT !.kind = "bad", !.bytes = bytes]
Raised(bytes) == [NoMessage EXCEPT !.kind = "raised", !.bytes = bytes]

Signed(f) == f[1] = PROTOCOL_MARKER_V2 /\ f[3] % 2 = MAVLINK_IFLAG_SIGNED
Compatible(f) == f[1] = PROTOCOL_MARKER_V2 => f[3] \in {0, MAVLINK_IFLAG_SIGNED}
SignatureLen(f) == IF Signed(f) THEN MAVLINK_SIGNATURE_BLOCK_LEN ELSE 0
MsgId(f) == IF f[1] = PROTOCOL_MARKER_V2 THEN f[8] + 256 * f[9] + 65536 * f[10] ELSE f[6]
From(f) == IF f[1] = PROTOCOL_MARKER_V2 THEN <<f[5], f[6], f[7]>> ELSE <<f[3], f[4], f[5]>>   \* seq, system, component
Payload(f) == SubSeq(f, HeaderLen(f[1]) + 1, Len(f) - 2 - SignatureLen(f))
Unsigned(f) == Front2(f, Len(f) - SignatureLen(f))
CrcRight(f) == LET u == Unsigned(f) IN
    Last2(u, 2) = x25crc(Append(SubSeq(u, 2, Len(u) - 2), Known[MsgId(f)].crc_extra))
Timestamp(f) == LET t == Last2(f, 12) IN t[1] + 256 * t[2]
Stream(f) == <<Last2(f, 13)[1], From(f)[2], From(f)[3]>>

(* the payload at the size of the message: cut, or filled up with zeros *)
Fields(f) == [i \in 1..Known[MsgId(f)].size |-> IF i <= Len(Payload(f)) THEN Payload(f)[i] ELSE 0]
Unknown(f) == MsgId(f) \notin DOMAIN Known
MAVLink_unknown(f) == [NoMessage EXCEPT !.kind = "unknown", !.bytes = f, !.id = -2]

Message(f, sig_ok) ==
    [kind |-> "message", bytes |-> f, id |-> MsgId(f), sys |-> From(f)[2], comp |-> From(f)[3],
     seq |-> From(f)[1], signed |-> sig_ok, link_id |-> IF sig_ok THEN Last2(f, 13)[1]
                                                        ELSE 0, fields |-> Fields(f)]

(* -------------------------------- receiving -------------------------------- *)
SigOk(signing, f) == Last2(f, 6) = Digest(signing.secret_key, Front2(f, Len(f) - 6))

FreshAnyway(signing, f) == Stream(f) \in DOMAIN signing.stream_timestamps \/
    Timestamp(f) + StreamAge >= signing.timestamp

(* an old time stamp of a known stream, or a new stream too far behind, is rejected *)
Fresh(signing, f) ==
    IF Stream(f) \in DOMAIN signing.stream_timestamps
    THEN Timestamp(f) > signing.stream_timestamps[Stream(f)]
    ELSE Timestamp(f) + StreamAge >= signing.timestamp

(* the time stamp of the stream is stored before the digest is compared *)
check_signature(signing, f) ==
    IF ~Fresh(signing, f) THEN signing
    ELSE [signing EXCEPT !.stream_timestamps = Updated(@, Stream(f), Timestamp(f)),
                         !.timestamp = IF SigOk(signing, f) /\ Timestamp(f) > @ THEN Timestamp(f)
                                       ELSE @]

GoodSignature(signing, f) == Signed(f) /\ Fresh(signing, f) /\ SigOk(signing, f)

Accepted(signing, f) ==
    \/ signing.secret_key = 0
    \/ GoodSignature(signing, f)
    \/ MsgId(f) \in signing.allow_unsigned            \* allow_unsigned_callback

(* decode: what it makes of the object, and the message it returns or the error it raises; *)
(* an unknown message is returned before anything of it is checked                          *)
decode(mav, f) ==
    LET keyed == mav.signing.secret_key # 0 /\ Signed(f) IN
    CASE Unknown(f) -> [mav |-> mav, m |-> MAVLink_unknown(f)]
      [] ~Unknown(f) /\ ~CrcRight(f) -> [mav |-> mav, m |-> Raised(f)]
      [] OTHER -> [mav |-> IF keyed THEN [mav EXCEPT !.signing = check_signature(@, f)] ELSE mav,
                   m |-> IF Accepted(mav.signing, f)
                         THEN Message(f, keyed /\ GoodSignature(mav.signing, f)) ELSE Raised(f)]

bytes_needed(mav) == IF mav.expected_length > Len(mav.buf) THEN mav.expected_length - Len(mav.buf)
                     ELSE 1

BadPrefix(mav) == mav.buf # <<>> /\ mav.buf[1] \notin Markers

(* the bytes before the first marker *)
Prefix(buf) == CHOOSE n \in 1..Len(buf) : /\ \A i \in 1..n : buf[i] \notin Markers
                                         /\ n < Len(buf) => buf[n + 1] \in Markers

SkipPrefix(mav) ==
    IF mav.robust_parsing
    THEN [mav |-> [mav EXCEPT !.buf = Drop(@, Prefix(mav.buf)),
                   !.expected_length = HeaderLen(PROTOCOL_MARKER_V1) + 2],
          m |-> MAVLink_bad_data(Front2(mav.buf, Prefix(mav.buf)))]
    ELSE [mav |-> [mav EXCEPT !.buf = Tail(@), !.have_prefix_error = TRUE],
          m |-> IF mav.have_prefix_error THEN NoMessage ELSE Raised(<<mav.buf[1]>>)]

FrameLen(buf) == buf[2] + HeaderLen(buf[1]) + 2 + SignatureLen(buf)

NextExpectedKept(mav) == mav.expected_length

NextExpected(mav) == IF Len(mav.buf) >= 3 THEN FrameLen(mav.buf) ELSE mav.expected_length

Robust(mav, r) ==
    IF r.m.kind = "raised" /\ mav.robust_parsing THEN [r EXCEPT !.m = MAVLink_bad_data(r.m.bytes)]
    ELSE r

__parse_char_legacy(mav) ==
    IF BadPrefix(mav) THEN SkipPrefix(mav)
    ELSE LET header == IF mav.buf = <<>> THEN HeaderLen(PROTOCOL_MARKER_V1)
                       ELSE HeaderLen(mav.buf[1])
             n == NextExpected(mav)
             p == [mav EXCEPT !.have_prefix_error = FALSE, !.expected_length = n]
             f == Front2(mav.buf, n)
             q == [p EXCEPT !.buf = Drop(@, n), !.expected_length = header + 2] IN
         IF n < header + 2 \/ Len(mav.buf) < n THEN [mav |-> p, m |-> NoMessage]
         ELSE Robust(mav, IF Compatible(f) THEN decode(q, f) ELSE [mav |-> q, m |-> Raised(f)])

parse_char(mav, c) == __parse_char_legacy([mav EXCEPT !.buf = @ \o c])

(* messages until there is none; a call makes at most one of every byte *)
parse_buffer(mav, s) ==
    FoldLeft(LAMBDA r, i : LET n == __parse_char_legacy(r.mav) IN
                           IF r.done THEN r
                           ELSE [mav |-> n.mav,
                                 ms |-> IF n.m = NoMessage THEN r.ms ELSE Append(r.ms, n.m),
                                 done |-> n.m = NoMessage],
             [mav |-> [mav EXCEPT !.buf = @ \o s], ms |-> <<>>, done |-> FALSE],
             [i \in 1..(Len(mav.buf) + Len(s) + 1) |-> i])
=============================================================================
