----------------------------- MODULE MavLinkProofs -----------------------------
(* Proofs about links (MavLink): signed messages, for every script, any noise, *)
(* losses and repetitions, and any table of messages.                          *)
EXTENDS MavLink, SequenceTheorems, WellFoundedInduction, TLAPS

(* ------------------------------- types of objects --------------------------- *)
Streams == Nat \X Nat \X Nat
Stamps == UNION {[S -> Nat] : S \in SUBSET Streams}
SigningType ==
    [secret_key : Nat, timestamp : Nat, link_id : Nat, sign_outgoing : BOOLEAN,
     allow_unsigned : SUBSET Nat, stream_timestamps : Stamps]
MavType ==
    [wire : Nat, seq : Nat, sys : Nat, comp : Nat, buf : Seq(Nat), expected_length : Nat,
     have_prefix_error : BOOLEAN, robust_parsing : BOOLEAN, signing : SigningType]
Kinds == {"none", "bad", "raised", "unknown", "message"}
ItemType ==
    [kind : Kinds, bytes : Seq(Nat), id : Int, sys : Nat, comp : Nat, seq : Nat,
     signed : BOOLEAN, link_id : Nat, fields : Seq(Nat)]

LEMMA Least ==
    ASSUME NEW S \in SUBSET Nat, S # {}
    PROVE  \E m \in S : \A x \in S : m <= x
<1> DEFINE R == OpToRel(<, Nat)
<1>1. IsWellFoundedOn(R, Nat)
  BY NatLessThanWellFounded
<1>2. PICK m \in S : \A y \in S : ~(<<y, m>> \in R)
  <2> HIDE DEF R
  <2> QED
    BY <1>1, WFMin
<1>3. ASSUME NEW y \in S
      PROVE  m <= y
  <2>1. ~(y < m)
    BY <1>2 DEF OpToRel
  <2> QED
    BY <2>1
<1> QED
  BY <1>3

LEMMA StampsOf ==
    ASSUME NEW st \in Stamps
    PROVE  DOMAIN st \subseteq Streams /\ \A x \in DOMAIN st : st[x] \in Nat
BY DEF Stamps

LEMMA StampsWith ==
    ASSUME NEW st \in Stamps, NEW x \in Streams, NEW n \in Nat
    PROVE  /\ Updated(st, x, n) \in Stamps
           /\ DOMAIN Updated(st, x, n) = DOMAIN st \union {x}
           /\ Updated(st, x, n)[x] = n
           /\ \A y \in DOMAIN st \ {x} : Updated(st, x, n)[y] = st[y]
<1>1. Updated(st, x, n) \in [DOMAIN st \union {x} -> Nat]
  BY StampsOf DEF Updated
<1>2. DOMAIN st \union {x} \in SUBSET Streams
  BY StampsOf
<1>3. Updated(st, x, n) \in Stamps
  BY <1>1, <1>2 DEF Stamps
<1> QED
  BY <1>3 DEF Updated

(* --------------------------------- frames ----------------------------------- *)
LEMMA Cut ==
    ASSUME NEW s \in Seq(Nat), NEW n \in 0 .. Len(s)
    PROVE  /\ Front2(s, n) \in Seq(Nat) /\ Len(Front2(s, n)) = n
           /\ \A i \in 1 .. n : Front2(s, n)[i] = s[i]
           /\ Drop(s, n) \in Seq(Nat) /\ Len(Drop(s, n)) = Len(s) - n
<1>1. Front2(s, n) = SubSeq(s, 1, n) /\ Drop(s, n) = SubSeq(s, n + 1, Len(s))
  BY DEF Front2, Drop
<1>2. Len(s) \in Nat /\ n \in Nat /\ n <= Len(s)
  OBVIOUS
<1>3. SubSeq(s, 1, n) \in Seq(Nat) /\ Len(SubSeq(s, 1, n)) = n
  BY <1>2
<1>4. \A i \in 1 .. n : SubSeq(s, 1, n)[i] = s[i]
  BY <1>2
<1>5. /\ SubSeq(s, n + 1, Len(s)) \in Seq(Nat)
      /\ Len(SubSeq(s, n + 1, Len(s))) = Len(s) - n
  BY <1>2
<1> QED
  BY <1>1, <1>3, <1>4, <1>5

LEMMA TailOf ==
    ASSUME NEW s \in Seq(Nat), NEW n \in 0 .. Len(s)
    PROVE  /\ Last2(s, n) \in Seq(Nat) /\ Len(Last2(s, n)) = n
BY DEF Last2

(* what decode is given: a header, and room for a signature if it says there is one *)
Framed(f) ==
    /\ f \in Seq(Nat) /\ Len(f) >= 8
    /\ f[1] = PROTOCOL_MARKER_V2 => Len(f) >= 12
    /\ Signed(f) => Len(f) >= 25

LEMMA FrameFields ==
    ASSUME NEW f, Framed(f)
    PROVE  /\ MsgId(f) \in Nat
           /\ From(f)[1] \in Nat /\ From(f)[2] \in Nat /\ From(f)[3] \in Nat
           /\ Signed(f) => /\ Timestamp(f) \in Nat /\ Stream(f) \in Streams
                           /\ Last2(f, 13)[1] \in Nat
<1>1. f \in Seq(Nat) /\ \A i \in 1 .. Len(f) : f[i] \in Nat
  BY DEF Framed
<1>2. Len(f) \in Nat /\ Len(f) >= 8
  BY <1>1 DEF Framed
<1>3. /\ f[3] \in Nat /\ f[4] \in Nat /\ f[5] \in Nat /\ f[6] \in Nat /\ f[7] \in Nat
      /\ f[8] \in Nat
  BY <1>1, <1>2
<1>4. MsgId(f) \in Nat
  <2>1. CASE f[1] = PROTOCOL_MARKER_V2
    <3>1. f[9] \in Nat /\ f[10] \in Nat
      BY <1>1, <2>1 DEF Framed
    <3> QED
      BY <1>3, <2>1, <3>1 DEF MsgId
  <2>2. CASE f[1] # PROTOCOL_MARKER_V2
    BY <1>3, <2>2 DEF MsgId
  <2> QED
    BY <2>1, <2>2
<1>5. From(f)[1] \in Nat /\ From(f)[2] \in Nat /\ From(f)[3] \in Nat
  BY <1>3 DEF From
<1>6. ASSUME Signed(f)
      PROVE  Timestamp(f) \in Nat /\ Last2(f, 13)[1] \in Nat
  <2>1. Len(f) >= 25
    BY <1>6 DEF Framed
  <2>2. /\ Last2(f, 12) \in Seq(Nat) /\ Len(Last2(f, 12)) = 12
        /\ Last2(f, 13) \in Seq(Nat) /\ Len(Last2(f, 13)) = 13
    <3>1. 12 \in 0 .. Len(f) /\ 13 \in 0 .. Len(f)
      BY <1>2, <2>1
    <3>2. Last2(f, 12) \in Seq(Nat) /\ Len(Last2(f, 12)) = 12
      BY ONLY <1>1, <3>1, TailOf
    <3>3. Last2(f, 13) \in Seq(Nat) /\ Len(Last2(f, 13)) = 13
      BY ONLY <1>1, <3>1, TailOf
    <3> QED
      BY <3>2, <3>3
  <2>3. Last2(f, 12)[1] \in Nat /\ Last2(f, 12)[2] \in Nat /\ Last2(f, 13)[1] \in Nat
    <3>1. \A i \in 1 .. 12 : Last2(f, 12)[i] \in Nat
      BY ONLY <2>2
    <3>2. \A i \in 1 .. 13 : Last2(f, 13)[i] \in Nat
      BY ONLY <2>2
    <3> QED
      BY ONLY <3>1, <3>2
  <2> QED
    BY <2>3 DEF Timestamp
<1>7. Signed(f) => Stream(f) \in Streams
  BY <1>5, <1>6 DEF Stream, Streams
<1> QED
  BY <1>4, <1>5, <1>6, <1>7

(* a message of a table of messages is as long as the table says *)
LEMMA MessageTyped ==
    ASSUME NEW f, Framed(f), ~Unknown(f), NEW ok \in BOOLEAN, ok => Signed(f)
    PROVE  Message(f, ok) \in ItemType
<1>1. f \in Seq(Nat) /\ Len(f) \in Nat /\ Len(f) >= 8
  BY DEF Framed
<1>2. Known[MsgId(f)].size \in Nat
  BY FrameAssumption DEF Unknown
<1>3. Payload(f) \in Seq(Nat)
  <2> DEFINE a == HeaderLen(f[1]) + 1
             l == SignatureLen(f)
             b == Len(f) - 2 - l
  <2>1. a \in {7, 11} /\ (a = 11 => f[1] = PROTOCOL_MARKER_V2)
    BY DEF HeaderLen
  <2>2. l \in {0, 13} /\ (l = 13 => Signed(f))
    BY DEF SignatureLen, MAVLINK_SIGNATURE_BLOCK_LEN
  <2>3. (a = 11 => Len(f) >= 12) /\ (l = 13 => Len(f) >= 25)
    BY <2>1, <2>2 DEF Framed
  <2> HIDE DEF a, l
  <2>4. a \in 1 .. Len(f) + 1 /\ b \in (a - 1) .. Len(f)
    BY <1>1, <2>1, <2>2, <2>3
  <2> HIDE DEF b
  <2>5. SubSeq(f, a, b) \in Seq(Nat)
    BY <1>1, <2>4, SubSeqProperties
  <2> QED
    BY <2>5 DEF Payload, a, b, l
<1>4. \A i \in 1 .. Known[MsgId(f)].size :
         (IF i <= Len(Payload(f)) THEN Payload(f)[i] ELSE 0) \in Nat
  BY <1>2, <1>3
<1>5. Fields(f) \in Seq(Nat)
  BY <1>2, <1>4 DEF Fields
<1>6. MsgId(f) \in Nat /\ From(f)[1] \in Nat /\ From(f)[2] \in Nat /\ From(f)[3] \in Nat
      /\ (ok => Last2(f, 13)[1] \in Nat)
  BY FrameFields
<1> QED
  BY <1>1, <1>5, <1>6 DEF Message, ItemType, Kinds

LEMMA OthersTyped ==
    ASSUME NEW f \in Seq(Nat)
    PROVE  /\ NoMessage \in ItemType /\ NoMessage.kind # "message"
           /\ MAVLink_bad_data(f) \in ItemType /\ MAVLink_bad_data(f).kind = "bad"
           /\ Raised(f) \in ItemType /\ Raised(f).kind = "raised" /\ Raised(f).bytes = f
           /\ MAVLink_unknown(f) \in ItemType /\ MAVLink_unknown(f).kind = "unknown"
<1>1. NoMessage \in ItemType /\ NoMessage.kind = "none"
  BY DEF NoMessage, ItemType, Kinds
<1>2. MAVLink_bad_data(f) \in ItemType /\ MAVLink_bad_data(f).kind = "bad"
  BY <1>1 DEF MAVLink_bad_data, ItemType, Kinds
<1>3. Raised(f) \in ItemType /\ Raised(f).kind = "raised" /\ Raised(f).bytes = f
  BY <1>1 DEF Raised, ItemType, Kinds
<1>4. MAVLink_unknown(f) \in ItemType /\ MAVLink_unknown(f).kind = "unknown"
  <2>1. \A n \in Int : [NoMessage EXCEPT !.kind = "unknown", !.bytes = f, !.id = n] \in ItemType
    BY <1>1 DEF ItemType, Kinds
  <2>2. \A n \in Int : [NoMessage EXCEPT !.kind = "unknown", !.bytes = f, !.id = n].kind = "unknown"
    BY DEF NoMessage
  <2>3. -2 \in Int
    OBVIOUS
  <2>4. PICK n \in Int : n = -2
    BY <2>3
  <2>5. MAVLink_unknown(f) = [NoMessage EXCEPT !.kind = "unknown", !.bytes = f, !.id = n]
    BY <2>4, Zenon DEF MAVLink_unknown
  <2> QED
    BY <2>1, <2>2, <2>5
<1> QED
  BY <1>1, <1>2, <1>3, <1>4

(* --------------------------------- decoding --------------------------------- *)
(* a message whose signature was checked, or one that may come without *)
Marked(signing, f, m) ==
    /\ m.bytes = f /\ m.id = MsgId(f)
    /\ m.signed => /\ Signed(f) /\ Stream(f) \in DOMAIN signing.stream_timestamps
                   /\ signing.stream_timestamps[Stream(f)] = Timestamp(f)
    /\ ~m.signed => m.id \in signing.allow_unsigned

(* the key stays, and the time stamps of streams grow *)
Grown(old, new) ==
    /\ new.secret_key = old.secret_key /\ new.allow_unsigned = old.allow_unsigned
    /\ DOMAIN old.stream_timestamps \subseteq DOMAIN new.stream_timestamps
    /\ \A x \in DOMAIN old.stream_timestamps :
          old.stream_timestamps[x] <= new.stream_timestamps[x]

(* a signed message is later than what was known of its stream *)
Later(old, m) ==
    m.signed /\ Stream(m.bytes) \in DOMAIN old.stream_timestamps =>
        old.stream_timestamps[Stream(m.bytes)] < Timestamp(m.bytes)

LEMMA SignatureChecked ==
    ASSUME NEW s \in SigningType, NEW f, Framed(f), Signed(f)
    PROVE  /\ check_signature(s, f) \in SigningType
           /\ Grown(s, check_signature(s, f))
           /\ Fresh(s, f) => /\ Stream(f) \in DOMAIN check_signature(s, f).stream_timestamps
                             /\ check_signature(s, f).stream_timestamps[Stream(f)] = Timestamp(f)
<1> DEFINE n == check_signature(s, f)
           st == s.stream_timestamps
           new == Updated(st, Stream(f), Timestamp(f))
<1>1. Timestamp(f) \in Nat /\ Stream(f) \in Streams
  BY FrameFields
<1>2. st \in Stamps /\ DOMAIN st \subseteq Streams /\ \A x \in DOMAIN st : st[x] \in Nat
  BY StampsOf DEF SigningType
<1>3. CASE ~Fresh(s, f)
  BY <1>2, <1>3 DEF check_signature, Grown
<1>4. CASE Fresh(s, f)
  <2>1. new \in Stamps /\ DOMAIN new = DOMAIN st \union {Stream(f)} /\ new[Stream(f)] = Timestamp(f)
        /\ \A y \in DOMAIN st \ {Stream(f)} : new[y] = st[y]
    BY <1>1, <1>2, StampsWith, ZenonT(60)
  <2>2. Stream(f) \in DOMAIN st => st[Stream(f)] < Timestamp(f)
    BY <1>4 DEF Fresh
  <2> HIDE DEF new
  <2>3. n = [s EXCEPT !.stream_timestamps = new,
                      !.timestamp = IF SigOk(s, f) /\ Timestamp(f) > @ THEN Timestamp(f) ELSE @]
    BY <1>4 DEF check_signature, new
  <2>4. n \in SigningType /\ n.stream_timestamps = new /\ n.secret_key = s.secret_key
        /\ n.allow_unsigned = s.allow_unsigned
    BY <1>1, <2>1, <2>3 DEF SigningType
  <2>5. Grown(s, n)
    <3>1. \A x \in DOMAIN st : st[x] <= new[x]
      BY <1>1, <1>2, <2>1, <2>2
    <3> QED
      BY <2>1, <2>4, <3>1 DEF Grown
  <2> QED
    BY <2>1, <2>4, <2>5
<1> QED
  BY <1>3, <1>4

(* what a step of the parser makes of an object and of its message *)
Result(mav, r) ==
    /\ r.mav \in MavType /\ r.m \in ItemType
    /\ Grown(mav.signing, r.mav.signing)
    /\ r.m.kind = "message" =>
          /\ Framed(r.m.bytes)
          /\ mav.signing.secret_key # 0 =>
                Marked(r.mav.signing, r.m.bytes, r.m) /\ Later(mav.signing, r.m)

LEMMA GrownRefl == ASSUME NEW s \in SigningType PROVE Grown(s, s)
<1>1. \A x \in DOMAIN s.stream_timestamps : s.stream_timestamps[x] \in Nat
  BY StampsOf DEF SigningType
<1> QED
  BY <1>1 DEF Grown

LEMMA Decoded ==
    ASSUME NEW mav \in MavType, NEW f, Framed(f)
    PROVE  /\ Result(mav, decode(mav, f))
           /\ decode(mav, f).m.kind = "raised" => decode(mav, f).m.bytes = f
<1> DEFINE r == decode(mav, f)
           keyed == mav.signing.secret_key # 0 /\ Signed(f)
           n == IF keyed THEN [mav EXCEPT !.signing = check_signature(@, f)] ELSE mav
<1>1. f \in Seq(Nat)
  BY DEF Framed
<1>2. mav.signing \in SigningType /\ Grown(mav.signing, mav.signing)
  BY GrownRefl DEF MavType
<1>3. CASE Unknown(f)
  <2>1. r = [mav |-> mav, m |-> MAVLink_unknown(f)]
    BY <1>3 DEF decode
  <2> QED
    BY <1>1, <1>2, <2>1, OthersTyped DEF Result
<1>4. CASE ~Unknown(f) /\ ~CrcRight(f)
  <2>1. r = [mav |-> mav, m |-> Raised(f)]
    BY <1>4 DEF decode
  <2> QED
    BY <1>1, <1>2, <2>1, OthersTyped DEF Result
<1>5. CASE ~Unknown(f) /\ CrcRight(f)
  <2>1. r = [mav |-> n, m |-> IF Accepted(mav.signing, f)
                              THEN Message(f, keyed /\ GoodSignature(mav.signing, f)) ELSE Raised(f)]
    BY <1>5 DEF decode
  <2>2. n \in MavType /\ Grown(mav.signing, n.signing)
    <3>1. CASE keyed
      <4>1. check_signature(mav.signing, f) \in SigningType
            /\ Grown(mav.signing, check_signature(mav.signing, f))
        BY <1>2, <3>1, SignatureChecked
      <4> QED
        BY <3>1, <4>1 DEF MavType
    <3>2. CASE ~keyed
      BY <1>2, <3>2
    <3> QED
      BY <3>1, <3>2
  <2>3. CASE ~Accepted(mav.signing, f)
    BY <1>1, <2>1, <2>2, <2>3, OthersTyped DEF Result
  <2>4. CASE Accepted(mav.signing, f)
    <3> DEFINE ok == keyed /\ GoodSignature(mav.signing, f)
               m == Message(f, ok)
    <3>1. r.mav = n /\ r.m = m
      BY <2>1, <2>4
    <3>2. m \in ItemType /\ m.kind = "message" /\ m.bytes = f /\ m.id = MsgId(f) /\ m.signed = ok
      <4>1. m \in ItemType
        BY <1>5, MessageTyped
      <4> QED
        BY <4>1 DEF Message
    <3>3. ASSUME mav.signing.secret_key # 0
          PROVE  Marked(n.signing, f, m) /\ Later(mav.signing, m)
      <4>1. CASE ok
        <5>1. Signed(f) /\ Fresh(mav.signing, f) /\ n.signing = check_signature(mav.signing, f)
          BY <4>1 DEF GoodSignature, MavType
        <5>2. Stream(f) \in DOMAIN n.signing.stream_timestamps
              /\ n.signing.stream_timestamps[Stream(f)] = Timestamp(f)
          BY <1>2, <5>1, SignatureChecked
        <5>3. Later(mav.signing, m)
          BY <3>2, <5>1 DEF Later, Fresh
        <5> QED
          BY <3>2, <4>1, <5>1, <5>2, <5>3 DEF Marked
      <4>2. CASE ~ok
        <5>1. MsgId(f) \in mav.signing.allow_unsigned
          BY <2>4, <3>3, <4>2 DEF Accepted, GoodSignature
        <5>2. n.signing.allow_unsigned = mav.signing.allow_unsigned
          BY <2>2 DEF Grown
        <5> QED
          BY <3>2, <4>2, <5>1, <5>2 DEF Marked, Later
      <4> QED
        BY <4>1, <4>2
    <3> QED
      BY <2>2, <3>1, <3>2, <3>3 DEF Result
  <2> QED
    BY <2>3, <2>4
<1> QED
  BY <1>3, <1>4, <1>5

(* ------------------------------ cutting a stream ---------------------------- *)
LEMMA PrefixLength ==
    ASSUME NEW buf \in Seq(Nat), buf # <<>>, buf[1] \notin Markers
    PROVE  Prefix(buf) \in 1 .. Len(buf)
<1> DEFINE Marked1 == {i \in 1 .. Len(buf) : buf[i] \in Markers}
           Cuts(n) == /\ \A i \in 1 .. n : buf[i] \notin Markers
                      /\ n < Len(buf) => buf[n + 1] \in Markers
<1>1. Len(buf) \in Nat /\ Len(buf) >= 1
  BY EmptySeq
<1>2. \E n \in 1 .. Len(buf) : Cuts(n)
  <2>1. CASE Marked1 = {}
    <3>1. \A i \in 1 .. Len(buf) : buf[i] \notin Markers
      BY <2>1
    <3>2. Cuts(Len(buf))
      BY <1>1, <3>1
    <3> QED
      BY <1>1, <3>2
  <2>2. CASE Marked1 # {}
    <3>1. PICK m \in Marked1 : \A x \in Marked1 : m <= x
      <4>1. Marked1 \in SUBSET Nat
        BY <1>1
      <4> HIDE DEF Marked1
      <4> QED
        BY <2>2, <4>1, Least
    <3>2. m \in 1 .. Len(buf) /\ m # 1 /\ buf[m] \in Markers
      BY <3>1
    <3>3. m - 1 \in 1 .. Len(buf) /\ (m - 1) + 1 = m
      BY <1>1, <3>2
    <3>4. \A i \in 1 .. (m - 1) : buf[i] \notin Markers
      BY <1>1, <3>1, <3>2
    <3> QED
      BY <3>2, <3>3, <3>4
  <2> QED
    BY <2>1, <2>2
<1> QED
  BY <1>2 DEF Prefix

LEMMA PrefixSkipped ==
    ASSUME NEW mav \in MavType, BadPrefix(mav)
    PROVE  Result(mav, SkipPrefix(mav))
<1>1. mav.buf \in Seq(Nat) /\ mav.buf # <<>> /\ mav.buf[1] \notin Markers /\ mav.signing \in SigningType
  BY DEF MavType, BadPrefix
<1>2. CASE mav.robust_parsing
  <2> DEFINE n == Prefix(mav.buf)
  <2>1. n \in 0 .. Len(mav.buf)
    BY <1>1, PrefixLength
  <2> HIDE DEF n
  <2>2. Drop(mav.buf, n) \in Seq(Nat) /\ Front2(mav.buf, n) \in Seq(Nat)
    BY <1>1, <2>1, Cut
  <2>3. MAVLink_bad_data(Front2(mav.buf, n)) \in ItemType
        /\ MAVLink_bad_data(Front2(mav.buf, n)).kind = "bad"
    BY <2>2, OthersTyped
  <2>4. [mav EXCEPT !.buf = Drop(@, n), !.expected_length = HeaderLen(PROTOCOL_MARKER_V1) + 2] \in MavType
    <3>1. HeaderLen(PROTOCOL_MARKER_V1) + 2 \in Nat
      BY DEF HeaderLen
    <3> HIDE DEF MavType
    <3> QED
      BY <2>2, <3>1 DEF MavType
  <2>5. [mav EXCEPT !.buf = Drop(@, n), !.expected_length = HeaderLen(PROTOCOL_MARKER_V1) + 2].signing
          = mav.signing
    BY DEF MavType
  <2> QED
    BY <1>1, <1>2, <2>3, <2>4, <2>5, GrownRefl DEF SkipPrefix, Result, n
<1>3. CASE ~mav.robust_parsing
  <2>1. mav.buf[1] \in Nat /\ <<mav.buf[1]>> \in Seq(Nat) /\ Tail(mav.buf) \in Seq(Nat)
    BY <1>1, EmptySeq
  <2>2. Raised(<<mav.buf[1]>>) \in ItemType /\ Raised(<<mav.buf[1]>>).kind = "raised"
        /\ NoMessage \in ItemType /\ NoMessage.kind # "message"
    BY <2>1, OthersTyped
  <2>3. [mav EXCEPT !.buf = Tail(@), !.have_prefix_error = TRUE] \in MavType
        /\ [mav EXCEPT !.buf = Tail(@), !.have_prefix_error = TRUE].signing = mav.signing
    BY <2>1 DEF MavType
  <2> QED
    BY <1>1, <1>3, <2>2, <2>3, GrownRefl DEF SkipPrefix, Result
<1> QED
  BY <1>2, <1>3

(* the length that is told by the first bytes has room for a header and a signature *)
LEMMA FrameCut ==
    ASSUME NEW mav \in MavType, ~BadPrefix(mav), NEW n, n = NextExpected(mav)
    PROVE  /\ n \in Nat
           /\ mav.buf # <<>> /\ n >= HeaderLen(mav.buf[1]) + 2 /\ n <= Len(mav.buf)
                => Framed(Front2(mav.buf, n)) /\ Drop(mav.buf, n) \in Seq(Nat)
<1> DEFINE buf == mav.buf
           f == Front2(buf, n)
<1>1. buf \in Seq(Nat) /\ Len(buf) \in Nat /\ mav.expected_length \in Nat
      /\ \A i \in 1 .. Len(buf) : buf[i] \in Nat
  BY DEF MavType
<1>2. HeaderLen(buf[1]) \in {6, 10} /\ (buf[1] = PROTOCOL_MARKER_V2 => HeaderLen(buf[1]) = 10)
  BY DEF HeaderLen
<1>3. SignatureLen(buf) \in {0, 13} /\ (Signed(buf) => SignatureLen(buf) = 13)
  BY DEF SignatureLen, MAVLINK_SIGNATURE_BLOCK_LEN
<1>4. Len(buf) >= 3 => buf[2] \in Nat
  BY <1>1
<1>5. n \in Nat /\ (Len(buf) >= 3 => n = buf[2] + HeaderLen(buf[1]) + 2 + SignatureLen(buf))
  <2>1. CASE Len(buf) >= 3
    <3>1. n = buf[2] + HeaderLen(buf[1]) + 2 + SignatureLen(buf)
      BY <2>1 DEF NextExpected, FrameLen
    <3> QED
      BY <1>2, <1>3, <1>4, <2>1, <3>1
  <2>2. CASE ~(Len(buf) >= 3)
    BY <1>1, <2>2 DEF NextExpected
  <2> QED
    BY <2>1, <2>2
<1>6. ASSUME n >= HeaderLen(buf[1]) + 2, n <= Len(buf)
      PROVE  Framed(f) /\ Drop(buf, n) \in Seq(Nat)
  <2> HIDE DEF buf
  <2>1. n >= 8 /\ n \in 0 .. Len(buf) /\ Len(buf) >= 3
    BY <1>1, <1>2, <1>5, <1>6
  <2>2. f \in Seq(Nat) /\ Len(f) = n /\ (\A i \in 1 .. n : f[i] = buf[i]) /\ Drop(buf, n) \in Seq(Nat)
    BY <1>1, <2>1, Cut
  <2>3. f[1] = buf[1] /\ f[3] = buf[3]
    <3>1. 1 \in 1 .. n /\ 3 \in 1 .. n
      BY <1>5, <2>1
    <3> QED
      BY <2>2, <3>1
  <2>4. f[1] = PROTOCOL_MARKER_V2 => n >= 12
    BY <1>2, <1>5, <1>6, <2>3
  <2>5. Signed(f) => Signed(buf) /\ buf[1] = PROTOCOL_MARKER_V2
    BY <2>3 DEF Signed
  <2>6. Signed(f) => n >= 25
    BY <1>2, <1>3, <1>4, <1>5, <2>1, <2>5
  <2> QED
    BY <2>1, <2>2, <2>4, <2>6 DEF Framed
<1> QED
  BY <1>5, <1>6

LEMMA Robustly ==
    ASSUME NEW mav \in MavType, NEW r, Result(mav, r),
           NEW old, r.m.kind = "raised" => r.m.bytes \in Seq(Nat)
    PROVE  Result(mav, Robust(old, r))
<1>1. CASE r.m.kind = "raised" /\ old.robust_parsing
  <2>1. MAVLink_bad_data(r.m.bytes) \in ItemType /\ MAVLink_bad_data(r.m.bytes).kind = "bad"
    BY <1>1, OthersTyped
  <2>2. Robust(old, r) = [r EXCEPT !.m = MAVLink_bad_data(r.m.bytes)]
    BY <1>1 DEF Robust
  <2> QED
    BY <1>1, <2>1, <2>2 DEF Result
<1>2. CASE ~(r.m.kind = "raised" /\ old.robust_parsing)
  BY <1>2 DEF Robust
<1> QED
  BY <1>1, <1>2

LEMMA Parsed ==
    ASSUME NEW mav \in MavType
    PROVE  Result(mav, __parse_char_legacy(mav))
<1>1. mav.buf \in Seq(Nat) /\ mav.signing \in SigningType /\ Grown(mav.signing, mav.signing)
  BY GrownRefl DEF MavType
<1>2. CASE BadPrefix(mav)
  BY <1>2, PrefixSkipped DEF __parse_char_legacy
<1>3. CASE ~BadPrefix(mav)
  <2> DEFINE header == IF mav.buf = <<>> THEN HeaderLen(PROTOCOL_MARKER_V1) ELSE HeaderLen(mav.buf[1])
             n == NextExpected(mav)
             p == [mav EXCEPT !.have_prefix_error = FALSE, !.expected_length = n]
             f == Front2(mav.buf, n)
             q == [p EXCEPT !.buf = Drop(@, n), !.expected_length = header + 2]
             d == IF Compatible(f) THEN decode(q, f) ELSE [mav |-> q, m |-> Raised(f)]
  <2>1. header \in {6, 10}
    BY DEF HeaderLen
  <2>2. n \in Nat /\ (mav.buf # <<>> /\ n >= HeaderLen(mav.buf[1]) + 2 /\ n <= Len(mav.buf)
                         => Framed(f) /\ Drop(mav.buf, n) \in Seq(Nat))
    BY <1>3, FrameCut
  <2>3. __parse_char_legacy(mav) = IF n < header + 2 \/ Len(mav.buf) < n THEN [mav |-> p, m |-> NoMessage]
                                   ELSE Robust(mav, d)
    BY <1>3 DEF __parse_char_legacy
  <2> HIDE DEF header, n, f, d
  <2>4. p \in MavType /\ p.signing = mav.signing /\ p.buf = mav.buf
    BY <2>2 DEF MavType
  <2>5. CASE n < header + 2 \/ Len(mav.buf) < n
    <3>1. __parse_char_legacy(mav) = [mav |-> p, m |-> NoMessage]
      BY <2>3, <2>5
    <3>2. NoMessage \in ItemType /\ NoMessage.kind # "message"
      BY <1>1, OthersTyped
    <3> HIDE DEF p
    <3>3. [mav |-> p, m |-> NoMessage].mav = p /\ [mav |-> p, m |-> NoMessage].m = NoMessage
      OBVIOUS
    <3> QED
      BY <1>1, <2>4, <3>1, <3>2, <3>3 DEF Result
  <2>6. CASE ~(n < header + 2 \/ Len(mav.buf) < n)
    <3>1. mav.buf # <<>> /\ n >= header + 2 /\ n <= Len(mav.buf)
      BY <1>1, <2>1, <2>2, <2>6
    <3>2. Framed(f) /\ Drop(mav.buf, n) \in Seq(Nat)
      BY <2>2, <3>1 DEF header
    <3>3. q \in MavType /\ q.signing = mav.signing
      <4>1. header + 2 \in Nat
        BY <2>1
      <4>2. q = [p EXCEPT !.buf = Drop(mav.buf, n), !.expected_length = header + 2]
        BY <2>4
      <4> HIDE DEF p, q
      <4> QED
        BY <2>4, <3>2, <4>1, <4>2 DEF MavType
    <3> HIDE DEF p, q
    <3>4. f \in Seq(Nat)
      BY <3>2 DEF Framed
    <3>5. Result(q, d) /\ (d.m.kind = "raised" => d.m.bytes = f)
      <4>1. CASE Compatible(f)
        BY <3>2, <3>3, <4>1, Decoded DEF d
      <4>2. CASE ~Compatible(f)
        BY <1>1, <3>3, <3>4, <4>2, OthersTyped DEF d, Result
      <4> QED
        BY <4>1, <4>2
    <3>6. Result(q, Robust(mav, d))
      BY <3>3, <3>4, <3>5, Robustly
    <3>7. Result(mav, Robust(mav, d))
      BY <3>3, <3>6 DEF Result
    <3> QED
      BY <2>3, <2>6, <3>7
  <2> QED
    BY <2>5, <2>6
<1> QED
  BY <1>2, <1>3

LEMMA CharParsed ==
    ASSUME NEW mav \in MavType, NEW c \in Seq(Nat)
    PROVE  Result(mav, parse_char(mav, c))
<1> DEFINE n == [mav EXCEPT !.buf = @ \o c]
<1>1. n \in MavType /\ n.signing = mav.signing
  <2>1. mav.buf \o c \in Seq(Nat)
    BY DEF MavType
  <2>2. n = [mav EXCEPT !.buf = mav.buf \o c]
    BY DEF MavType
  <2> HIDE DEF n
  <2> QED
    BY <2>1, <2>2 DEF MavType
<1>2. Result(n, __parse_char_legacy(n))
  <2> HIDE DEF n
  <2> QED
    BY <1>1, Parsed
<1> QED
  BY <1>1, <1>2 DEF Result, parse_char

(* ------------------------------- a connection ------------------------------- *)
LEMMA FreshObject ==
    ASSUME NEW wire \in Nat, NEW sys \in Nat, NEW comp \in Nat
    PROVE  MAVLink(wire, sys, comp) \in MavType /\ MAVLinkSigning \in SigningType
           /\ MAVLink(wire, sys, comp).signing = MAVLinkSigning
<1>1. <<>> \in Stamps
  <2>1. <<>> = [x \in {} |-> 0]
    OBVIOUS
  <2>2. [x \in {} |-> 0] \in [{} -> Nat]
    OBVIOUS
  <2> QED
    BY <2>1, <2>2 DEF Stamps
<1>2. MAVLinkSigning \in SigningType
  BY <1>1 DEF MAVLinkSigning, SigningType
<1>3. HeaderLen(PROTOCOL_MARKER_V1) + 2 \in Nat
  BY DEF HeaderLen
<1>4. <<>> \in Seq(Nat)
  OBVIOUS
<1> QED
  BY <1>2, <1>3, <1>4 DEF MAVLink, MavType

Connection(c) == "mav" \in DOMAIN c /\ c.mav \in MavType

(* a method that leaves the MAVLink object alone *)
SameMav(c, d) == "mav" \in DOMAIN d /\ d.mav = c.mav

LEMMA Kept ==
    ASSUME NEW c, "mav" \in DOMAIN c, NEW m
    PROVE  /\ SameMav(c, Stored(c, m)) /\ SameMav(c, LossCount(c, m))
           /\ SameMav(c, Logged(c, m)) /\ SameMav(c, ByType(c, m))
<1>1. SameMav(c, Stored(c, m))
  BY DEF SameMav, Stored
<1>2. SameMav(c, LossCount(c, m))
  BY DEF SameMav, LossCount
<1>3. SameMav(c, Logged(c, m))
  BY DEF SameMav, Logged
<1>4. SameMav(c, LockOn(c, m))
  BY DEF SameMav, LockOn
<1>5. SameMav(c, Heartbeat(c, m))
  BY <1>4 DEF SameMav, Heartbeat
<1>6. SameMav(c, HighLatency(c, m))
  BY <1>5 DEF SameMav, HighLatency
<1>7. SameMav(c, Parameter(c, m))
  BY DEF SameMav, Parameter
<1>8. SameMav(c, Home(c, m))
  BY DEF SameMav, Home
<1>9. SameMav(c, ByType(c, m))
  BY <1>5, <1>6, <1>7, <1>8 DEF SameMav, ByType
<1> QED
  BY <1>1, <1>2, <1>3, <1>9

LEMMA TargetSet ==
    ASSUME NEW c, "mav" \in DOMAIN c, NEW x
    PROVE  /\ SameMav(c, set_target_system(c, x)) /\ SameMav(c, set_target_component(c, x))
           /\ SameMav(c, param_fetch_all(c, x).c)
<1>1. ASSUME NEW d, SameMav(c, d), NEW src
      PROVE  SameMav(c, WithParams(d, src))
  BY <1>1 DEF SameMav, WithParams
<1>2. SameMav(c, set_target_system(c, x))
  BY <1>1 DEF SameMav, set_target_system
<1>3. SameMav(c, set_target_component(c, x))
  BY <1>1 DEF SameMav, set_target_component
<1>4. SameMav(c, param_fetch_all(c, x).c)
  BY DEF SameMav, param_fetch_all
<1> QED
  BY <1>2, <1>3, <1>4

(* what a message does to the object: at most the number of the link *)
LEMMA Posted ==
    ASSUME NEW c, Connection(c), NEW m \in ItemType
    PROVE  /\ Connection(post_message(c, m))
           /\ \E n \in Nat : post_message(c, m).mav = [c.mav EXCEPT !.signing.link_id = n]
<1> DEFINE d == ByType(LossCount(Stored(c, m), m), m)
<1>1. SameMav(c, d)
  <2>1. SameMav(c, Stored(c, m))
    BY Kept DEF Connection
  <2> DEFINE a == Stored(c, m)
  <2> HIDE DEF a
  <2>2. SameMav(c, LossCount(a, m))
    BY <2>1, Kept DEF SameMav, a
  <2> DEFINE b == LossCount(a, m)
  <2> HIDE DEF b
  <2>3. SameMav(c, ByType(b, m))
    BY <2>2, Kept DEF SameMav, b
  <2> QED
    BY <2>3 DEF a, b
<1> HIDE DEF d
<1>2. post_message(c, m) = LinkId(d, m)
  BY DEF post_message, d
<1>3. m.link_id \in Nat /\ c.mav.signing.link_id \in Nat
  BY DEF ItemType, Connection, MavType, SigningType
<1>4. CASE LinkId(d, m) = d
  <2>1. c.mav = [c.mav EXCEPT !.signing.link_id = c.mav.signing.link_id]
    BY DEF Connection, MavType, SigningType
  <2> QED
    BY <1>1, <1>2, <1>3, <1>4, <2>1 DEF Connection, SameMav
<1>5. CASE LinkId(d, m) # d
  <2>1. LinkId(d, m) = [d EXCEPT !.mav.signing.link_id = m.link_id]
    BY <1>5 DEF LinkId
  <2>2. LinkId(d, m).mav = [c.mav EXCEPT !.signing.link_id = m.link_id] /\ "mav" \in DOMAIN LinkId(d, m)
    BY <1>1, <2>1 DEF SameMav
  <2>3. [c.mav EXCEPT !.signing.link_id = m.link_id] \in MavType
    BY <1>3 DEF Connection, MavType, SigningType
  <2> QED
    BY <1>2, <1>3, <2>2, <2>3 DEF Connection
<1> QED
  BY <1>4, <1>5

(* another version of the protocol gives a new object, which has no key *)
LEMMA VersionChosen ==
    ASSUME NEW c, Connection(c), NEW s
    PROVE  LET v == auto_mavlink_version(c, s) IN
           /\ Connection(v)
           /\ v.mav = c.mav \/ v.mav.signing.secret_key = 0
<1> DEFINE v == auto_mavlink_version(c, s)
           switch == CASE s[1] = 254 /\ c.wire = 0 -> 1
                       [] s[1] = 85 /\ c.wire = 1 -> 0
                       [] s[1] = PROTOCOL_MARKER_V2 /\ c.wire # 2 -> 2
                       [] OTHER -> c.wire
           new == [MAVLink(switch, 255, 0) EXCEPT !.robust_parsing = TRUE]
<1>1. switch \in {0, 1, 2} \/ switch = c.wire
  OBVIOUS
<1>2. v = IF s[1] \notin {85, 254, 253} THEN c
          ELSE IF switch = c.wire THEN [c EXCEPT !.first_byte = FALSE]
          ELSE [c EXCEPT !.first_byte = FALSE, !.wire = switch, !.mav = new]
  BY DEF auto_mavlink_version
<1> HIDE DEF switch
<1>3. CASE s[1] \notin {85, 254, 253} \/ switch = c.wire
  BY <1>2, <1>3 DEF Connection
<1>4. CASE ~(s[1] \notin {85, 254, 253} \/ switch = c.wire)
  <2>1. MAVLink(switch, 255, 0) \in MavType /\ MAVLink(switch, 255, 0).signing = MAVLinkSigning
    BY <1>1, <1>4, FreshObject
  <2>2. new \in MavType /\ new.signing = MAVLinkSigning
    <3> DEFINE o == MAVLink(switch, 255, 0)
    <3> HIDE DEF o
    <3>1. o \in MavType /\ o.signing = MAVLinkSigning
      BY <2>1 DEF o
    <3>2. [o EXCEPT !.robust_parsing = TRUE] \in MavType
          /\ [o EXCEPT !.robust_parsing = TRUE].signing = MAVLinkSigning
      BY <3>1 DEF MavType
    <3> QED
      BY <3>2 DEF o
  <2> HIDE DEF new
  <2>3. v.mav = new /\ "mav" \in DOMAIN v
    BY <1>2, <1>4 DEF Connection
  <2> QED
    BY <2>2, <2>3 DEF Connection, MAVLinkSigning
<1> QED
  BY <1>3, <1>4

(* one turn of recv_msg: a connection that has its key has had it before *)
Turn(c, r) ==
    /\ Connection(r.c) /\ r.m \in ItemType
    /\ r.m.kind = "message" => Framed(r.m.bytes)
    /\ r.c.mav.signing.secret_key # 0 =>
          /\ c.mav.signing.secret_key # 0
          /\ Grown(c.mav.signing, r.c.mav.signing)
          /\ r.m.kind = "message" => /\ Marked(r.c.mav.signing, r.m.bytes, r.m)
                                     /\ Later(c.mav.signing, r.m)

LEMMA Turned ==
    ASSUME NEW c, Connection(c), NEW v, Connection(v),
           v.mav = c.mav \/ v.mav.signing.secret_key = 0,
           NEW r, Result(v.mav, r), NEW n, "mav" \in DOMAIN n, n.mav = r.mav,
           NEW x, x = n \/ x = post_message(n, r.m)
    PROVE  Turn(c, [c |-> x, m |-> r.m])
<1>1. r.mav \in MavType /\ r.m \in ItemType /\ Connection(n)
  BY DEF Result, Connection
<1>2. Connection(x) /\ \E l \in Nat : x.mav = [r.mav EXCEPT !.signing.link_id = l]
  <2>1. CASE x = n
    <3>1. r.mav = [r.mav EXCEPT !.signing.link_id = r.mav.signing.link_id] /\ r.mav.signing.link_id \in Nat
      BY <1>1 DEF MavType, SigningType
    <3> QED
      BY <1>1, <2>1, <3>1
  <2>2. CASE x = post_message(n, r.m)
    <3>1. /\ Connection(post_message(n, r.m))
          /\ \E l \in Nat : post_message(n, r.m).mav = [n.mav EXCEPT !.signing.link_id = l]
      BY ONLY <1>1, Posted
    <3> QED
      BY <2>2, <3>1
  <2> QED
    BY <2>1, <2>2
<1> DEFINE o == r.mav.signing
           w == x.mav.signing
<1>3. w.secret_key = o.secret_key /\ w.allow_unsigned = o.allow_unsigned
      /\ w.stream_timestamps = o.stream_timestamps
  BY <1>1, <1>2, SMTT(60) DEF MavType, SigningType
<1>4. r.m.kind = "message" => Framed(r.m.bytes)
  BY DEF Result
<1>5. ASSUME w.secret_key # 0
      PROVE  /\ c.mav.signing.secret_key # 0
             /\ Grown(c.mav.signing, w)
             /\ r.m.kind = "message" => Marked(w, r.m.bytes, r.m) /\ Later(c.mav.signing, r.m)
  <2>1. v.mav = c.mav /\ c.mav.signing.secret_key # 0 /\ Grown(c.mav.signing, o)
    BY <1>3, <1>5 DEF Result, Grown
  <2>2. Grown(c.mav.signing, w)
    BY <1>3, <2>1 DEF Grown
  <2>3. r.m.kind = "message" => Marked(o, r.m.bytes, r.m) /\ Later(c.mav.signing, r.m)
    BY <2>1 DEF Result
  <2>4. r.m.kind = "message" => Marked(w, r.m.bytes, r.m)
    BY <1>3, <2>3 DEF Marked
  <2> QED
    BY <2>1, <2>2, <2>3, <2>4
<1> QED
  BY <1>1, <1>2, <1>4, <1>5 DEF Turn

LEMMA BytesRead ==
    ASSUME NEW c, Connection(c), NEW s \in Seq(Nat)
    PROVE  Turn(c, ReadBytes(c, s)) /\ Turn(c, ReadDatagram(c, s))
<1>1. Turn(c, ReadBytes(c, s))
  <2> DEFINE raw == [c EXCEPT !.logfile_raw = @ \o s]
             v == IF s # <<>> /\ c.first_byte THEN auto_mavlink_version(raw, s) ELSE raw
             r == parse_char(v.mav, s)
             n == [v EXCEPT !.mav = r.mav]
             x == IF r.m.kind \in {"none", "raised"} THEN n ELSE post_message(Logged(n, r.m), r.m)
  <2>1. Connection(raw) /\ raw.mav = c.mav
    BY DEF Connection
  <2>2. Connection(v) /\ (v.mav = c.mav \/ v.mav.signing.secret_key = 0)
    <3> HIDE DEF raw
    <3> QED
      BY <2>1, VersionChosen
  <2>3. ReadBytes(c, s) = [c |-> x, m |-> r.m]
    BY DEF ReadBytes
  <2> HIDE DEF v
  <2>4. Result(v.mav, r)
    BY <2>2, CharParsed DEF Connection
  <2> HIDE DEF r
  <2>5. "mav" \in DOMAIN n /\ n.mav = r.mav
    BY <2>2 DEF Connection
  <2> HIDE DEF n
  <2>6. "mav" \in DOMAIN Logged(n, r.m) /\ Logged(n, r.m).mav = r.mav
    BY <2>5, Kept DEF SameMav
  <2>7. CASE r.m.kind \in {"none", "raised"}
    BY <2>2, <2>3, <2>4, <2>5, <2>7, Turned
  <2>8. CASE r.m.kind \notin {"none", "raised"}
    BY <2>2, <2>3, <2>4, <2>6, <2>8, Turned
  <2> QED
    BY <2>7, <2>8
<1>2. Turn(c, ReadDatagram(c, s))
  <2> DEFINE v == IF s # <<>> /\ c.first_byte THEN auto_mavlink_version(c, s) ELSE c
             r == parse_char(v.mav, s)
             n == [v EXCEPT !.mav = r.mav]
             x == IF r.m.kind \in {"none", "raised"} THEN n ELSE post_message(n, r.m)
  <2>1. Connection(v) /\ (v.mav = c.mav \/ v.mav.signing.secret_key = 0)
    BY VersionChosen
  <2>2. ReadDatagram(c, s) = [c |-> x, m |-> r.m]
    BY DEF ReadDatagram
  <2> HIDE DEF v
  <2>3. Result(v.mav, r)
    BY <2>1, CharParsed DEF Connection
  <2> HIDE DEF r
  <2>4. "mav" \in DOMAIN n /\ n.mav = r.mav
    BY <2>1 DEF Connection
  <2> HIDE DEF n
  <2> QED
    BY <2>1, <2>2, <2>3, <2>4, Turned
<1> QED
  BY <1>1, <1>2

(* ---------------------------------- sending --------------------------------- *)
LEMMA LastIndex ==
    ASSUME NEW payload \in Seq(Nat)
    PROVE  LastNonZero(payload) \in 0 .. Len(payload)
<1> DEFINE kept == {i \in 2 .. Len(payload) : payload[i] # 0}
           last == CHOOSE i \in kept : \A j \in kept : j <= i
<1>1. Len(payload) \in Nat
  OBVIOUS
<1>2. LastNonZero(payload) = IF kept = {} THEN IF Len(payload) = 0 THEN 0 ELSE 1 ELSE last
  BY DEF LastNonZero
<1>3. CASE kept = {}
  BY <1>1, <1>2, <1>3
<1>4. CASE kept # {}
  <2> DEFINE S == {Len(payload) - i : i \in kept}
  <2>1. S \in SUBSET Nat /\ S # {}
    BY <1>1, <1>4
  <2>2. PICK m \in S : \A x \in S : m <= x
    <3> HIDE DEF S
    <3> QED
      BY <2>1, Least
  <2>3. PICK i \in kept : m = Len(payload) - i
    BY <2>2
  <2>4. \A j \in kept : j <= i
    <3> TAKE j \in kept
    <3>1. Len(payload) - i <= Len(payload) - j
      BY <2>2, <2>3
    <3>2. i \in Int /\ j \in Int
      BY <1>1
    <3> HIDE DEF kept
    <3> QED
      BY <1>1, <3>1, <3>2
  <2>5. last \in kept
    <3> HIDE DEF kept
    <3> QED
      BY <2>3, <2>4
  <2> HIDE DEF last
  <2> QED
    BY <1>1, <1>2, <1>4, <2>5
<1> QED
  BY <1>3, <1>4

LEMMA Summed == ASSUME NEW bytes PROVE x25crc(bytes) \in Seq(Nat)
<1>1. \A x : AsByte(x) \in Nat
  BY DEF AsByte
<1> DEFINE c == AsByte(FoldLeft(LAMBDA acc, b : (3 * acc + b + 1) % 241, 7, bytes))
<1>2. c \in Nat
  BY <1>1
<1>3. x25crc(bytes) = <<c, c % 17>>
  BY DEF x25crc
<1> HIDE DEF c
<1>4. c % 17 \in Nat
  BY <1>2
<1> QED
  BY <1>2, <1>3, <1>4

LEMMA Packed ==
    ASSUME NEW mav \in MavType, NEW id \in DOMAIN Known, NEW payload \in Seq(Nat), NEW v1 \in BOOLEAN
    PROVE  _pack(mav, id, payload, v1) \in Seq(Nat)
<1> DEFINE long == mav.wire = 2 /\ ~v1
           cut == IF long THEN Front2(payload, LastNonZero(payload)) ELSE payload
           flags == IF mav.signing.sign_outgoing THEN MAVLINK_IFLAG_SIGNED ELSE 0
           head == Header(mav, id, Len(cut), v1, flags)
           body == head \o cut
           crc == x25crc(Append(Tail(body), Known[id].crc_extra))
           frame == body \o crc
<1>1. cut \in Seq(Nat) /\ Len(cut) \in Nat
  <2>1. Front2(payload, LastNonZero(payload)) \in Seq(Nat)
    BY LastIndex, Cut
  <2> QED
    BY <2>1
<1>2. head \in Seq(Nat)
  <2>1. id \in Nat /\ flags \in Nat /\ mav.seq \in Nat /\ mav.sys \in Nat /\ mav.comp \in Nat
    BY FrameAssumption DEF MavType, MAVLINK_IFLAG_SIGNED
  <2>2. id % 256 \in Nat /\ (id \div 256) % 256 \in Nat /\ id \div 65536 \in Nat
    BY <2>1
  <2>3. PROTOCOL_MARKER_V1 \in Nat /\ PROTOCOL_MARKER_V2 \in Nat
    BY DEF PROTOCOL_MARKER_V1, PROTOCOL_MARKER_V2
  <2> HIDE DEF cut, flags
  <2> QED
    BY <1>1, <2>1, <2>2, <2>3 DEF Header
<1> HIDE DEF cut, head
<1>3. body \in Seq(Nat)
  BY <1>1, <1>2
<1>4. crc \in Seq(Nat)
  BY Summed
<1>5. frame \in Seq(Nat)
  <2> HIDE DEF body, crc
  <2> QED
    BY <1>3, <1>4
<1>6. _pack(mav, id, payload, v1) =
        IF mav.signing.sign_outgoing /\ ~v1 THEN sign_packet(mav.signing, frame) ELSE frame
  BY DEF _pack, cut, head
<1> HIDE DEF frame
<1>7. sign_packet(mav.signing, frame) \in Seq(Nat)
  <2> DEFINE all == frame \o SignatureHead(mav.signing)
  <2>1. mav.signing.link_id \in Nat /\ mav.signing.timestamp \in Nat /\ mav.signing.secret_key \in Nat
    BY DEF MavType, SigningType
  <2>2. mav.signing.timestamp % 256 \in Nat /\ mav.signing.timestamp \div 256 \in Nat
    BY <2>1
  <2>3. SignatureHead(mav.signing) \in Seq(Nat)
    BY <2>1, <2>2 DEF SignatureHead
  <2>4. all \in Seq(Nat)
    BY <1>5, <2>3
  <2> HIDE DEF all
  <2>5. x25crc(all) \in Seq(Nat)
    BY Summed
  <2>6. Digest(mav.signing.secret_key, all) \in Seq(Nat)
    BY <2>1, <2>5 DEF Digest
  <2> QED
    BY <2>4, <2>6 DEF sign_packet, all
<1> QED
  BY <1>5, <1>6, <1>7

LEMMA SentOn ==
    ASSUME NEW mav \in MavType, NEW v1
    PROVE  send(mav, v1) \in MavType
<1> DEFINE t == IF mav.signing.sign_outgoing /\ ~v1 THEN mav.signing.timestamp + 1
                ELSE mav.signing.timestamp
<1>1. t \in Nat /\ (mav.seq + 1) % 256 \in Nat
  BY SMTT(60) DEF MavType, SigningType
<1>2. send(mav, v1) = [mav EXCEPT !.seq = (mav.seq + 1) % 256, !.signing.timestamp = t]
  BY DEF send, MavType, SigningType
<1> HIDE DEF t
<1>3. mav.signing \in SigningType /\ [mav.signing EXCEPT !.timestamp = t] \in SigningType
  BY <1>1 DEF MavType, SigningType
<1>4. send(mav, v1) = [mav EXCEPT !.seq = (mav.seq + 1) % 256,
                                  !.signing = [mav.signing EXCEPT !.timestamp = t]]
  BY <1>2 DEF MavType
<1> QED
  BY <1>1, <1>3, <1>4, ZenonT(60) DEF MavType

(* -------------------------------- the invariant ----------------------------- *)
Put == [from : {0} \union DOMAIN sc.peers, bytes : Seq(Nat), number : Int]

(* the peers, and what is on the line and was put there, are made of bytes *)
LineTyped ==
    /\ sc \in Scenarios
    /\ peers \in [DOMAIN sc.peers -> MavType]
    /\ next \in Nat /\ next >= 1
    /\ sent \in Seq(Put)
    /\ sc.reader = "stream" => line \in Seq(Nat)
    /\ sc.reader = "datagram" => line \in Seq(Seq(Nat))

(* a connection, and messages that were cut whole *)
Reading ==
    sc.reader \in Python =>
        /\ Connection(reader) /\ items \in Seq(ItemType)
        /\ \A i \in Messages : Framed(items[i].bytes)

(* the stored time stamp of a stream is no older than a message accepted from it *)
Stamped ==
    HasKey =>
        /\ reader.mav.signing.allow_unsigned = sc.allowed
        /\ \A i \in Messages : items[i].signed =>
              LET f == items[i].bytes
                  st == reader.mav.signing.stream_timestamps IN
              Signed(f) /\ Stream(f) \in DOMAIN st /\ Timestamp(f) <= st[Stream(f)]

IInv == LineTyped /\ Reading /\ Stamped /\ AcceptedOnce

LEMMA PeerTyped ==
    ASSUME sc \in Scenarios, NEW i \in DOMAIN sc.peers
    PROVE  Peer(sc.peers[i]) \in MavType
<1> DEFINE p == sc.peers[i]
           o == MAVLink(p.wire, p.sys, p.comp)
           s == [MAVLinkSigning EXCEPT !.secret_key = p.key, !.sign_outgoing = p.key # 0,
                                       !.link_id = p.link, !.timestamp = p.now]
<1>1. p.wire \in Nat /\ p.sys \in Nat /\ p.comp \in Nat /\ p.seq \in Nat /\ p.key \in Nat
      /\ p.link \in Nat /\ p.now \in Nat
  BY ScenariosAssumption DEF Numbers
<1> HIDE DEF p
<1>2. o \in MavType /\ MAVLinkSigning \in SigningType /\ o.signing = MAVLinkSigning
  BY <1>1, FreshObject
<1>3. s \in SigningType
  BY <1>1, <1>2 DEF SigningType
<1>4. Peer(p) = [o EXCEPT !.seq = p.seq, !.signing = s]
  BY <1>2 DEF Peer, MavType
<1> HIDE DEF s, o
<1>5. Peer(p) \in MavType
  BY <1>1, <1>2, <1>3, <1>4 DEF MavType
<1> QED
  BY <1>5 DEF p

(* a field of the signing of a connection is given a value *)
LEMMA FieldSet ==
    ASSUME NEW c, Connection(c), NEW s \in SigningType, NEW d, "mav" \in DOMAIN d,
           d.mav = [c.mav EXCEPT !.signing = s]
    PROVE  Connection(d) /\ d.mav.signing = s
<1>1. [c.mav EXCEPT !.signing = s] \in MavType /\ [c.mav EXCEPT !.signing = s].signing = s
  BY DEF Connection, MavType
<1> QED
  BY <1>1 DEF Connection

SignsWith(d, key, allowed) ==
    Connection(d) /\ d.mav.signing.secret_key = key /\ d.mav.signing.allow_unsigned = allowed

LEMMA SigningSet ==
    ASSUME NEW c, Connection(c), NEW key \in Nat, NEW allowed \in SUBSET Nat,
           NEW t \in Nat, NEW l \in Nat, NEW d, d = setup_signing(c, key, FALSE, allowed, t, l)
    PROVE  SignsWith(d, key, allowed)
<1> DEFINE s0 == c.mav.signing
           s1 == [s0 EXCEPT !.secret_key = key]
           s2 == [s1 EXCEPT !.sign_outgoing = FALSE]
           s3 == [s2 EXCEPT !.allow_unsigned = allowed]
           s4 == [s3 EXCEPT !.timestamp = t]
           s5 == [s4 EXCEPT !.link_id = l]
           d1 == [c EXCEPT !.mav.signing.secret_key = key]
           d2 == [d1 EXCEPT !.mav.signing.sign_outgoing = FALSE]
           d3 == [d2 EXCEPT !.mav.signing.allow_unsigned = allowed]
           d4 == [d3 EXCEPT !.mav.signing.timestamp = t]
           d5 == [d4 EXCEPT !.mav.signing.link_id = l]
<1>1. s0 \in SigningType
  BY DEF Connection, MavType
<1>2. d = d5
  BY DEF setup_signing
<1> HIDE DEF s0
<1>3. s1 \in SigningType /\ s1.secret_key = key
  BY <1>1 DEF SigningType
<1>4. Connection(d1) /\ d1.mav.signing = s1
  <2>1. "mav" \in DOMAIN d1 /\ d1.mav = [c.mav EXCEPT !.signing = s1]
    BY <1>1 DEF Connection, s0
  <2> HIDE DEF s1, d1
  <2> QED
    BY <1>3, <2>1, FieldSet
<1> HIDE DEF s1, d1
<1>5. s2 \in SigningType /\ s2.secret_key = key
  BY <1>3 DEF SigningType
<1>6. Connection(d2) /\ d2.mav.signing = s2
  <2>1. "mav" \in DOMAIN d2 /\ d2.mav = [d1.mav EXCEPT !.signing = s2]
    BY <1>4, <1>1 DEF Connection, s0
  <2> HIDE DEF s2, d2
  <2> QED
    BY <1>4, <1>5, <2>1, FieldSet
<1> HIDE DEF s2, d2
<1>7. s3 \in SigningType /\ s3.secret_key = key /\ s3.allow_unsigned = allowed
  BY <1>5 DEF SigningType
<1>8. Connection(d3) /\ d3.mav.signing = s3
  <2>1. "mav" \in DOMAIN d3 /\ d3.mav = [d2.mav EXCEPT !.signing = s3]
    BY <1>6, <1>1 DEF Connection, s0
  <2> HIDE DEF s3, d3
  <2> QED
    BY <1>6, <1>7, <2>1, FieldSet
<1> HIDE DEF s3, d3
<1>9. s4 \in SigningType /\ s4.secret_key = key /\ s4.allow_unsigned = allowed
  BY <1>7 DEF SigningType
<1>10. Connection(d4) /\ d4.mav.signing = s4
  <2>1. "mav" \in DOMAIN d4 /\ d4.mav = [d3.mav EXCEPT !.signing = s4]
    BY <1>8, <1>1 DEF Connection, s0
  <2> HIDE DEF s4, d4
  <2> QED
    BY <1>8, <1>9, <2>1, FieldSet
<1> HIDE DEF s4, d4
<1>11. s5 \in SigningType /\ s5.secret_key = key /\ s5.allow_unsigned = allowed
  BY <1>9 DEF SigningType
<1>12. Connection(d5) /\ d5.mav.signing = s5
  <2>1. "mav" \in DOMAIN d5 /\ d5.mav = [d4.mav EXCEPT !.signing = s5]
    BY <1>10, <1>1 DEF Connection, s0
  <2> HIDE DEF s5, d5
  <2> QED
    BY <1>10, <1>11, <2>1, FieldSet
<1> QED
  BY <1>2, <1>11, <1>12 DEF SignsWith

LEMMA OpenedTyped ==
    ASSUME sc \in Scenarios, sc.reader \in Python
    PROVE  Connection(Opened(sc)) /\ Opened(sc).mav.signing.allow_unsigned = sc.allowed
<1> DEFINE o == MAVLink(sc.wire, 255, 0)
           a == [o EXCEPT !.robust_parsing = TRUE]
           c == [mavfile(sc.wire) EXCEPT !.mav.robust_parsing = sc.robust]
<1>1. sc.wire \in Nat /\ sc.key \in Nat /\ sc.now \in Nat /\ sc.robust \in BOOLEAN /\ sc.allowed \in SUBSET Nat
  BY ScenariosAssumption
<1>2. o \in MavType
  BY <1>1, FreshObject
<1>3. a \in MavType
  <2> HIDE DEF o
  <2> QED
    BY <1>2 DEF MavType
<1>4. "mav" \in DOMAIN mavfile(sc.wire) /\ mavfile(sc.wire).mav = a
  BY DEF mavfile
<1> HIDE DEF a
<1>5. [a EXCEPT !.robust_parsing = sc.robust] \in MavType
  BY <1>1, <1>3 DEF MavType
<1>6. Connection(c)
  BY <1>4, <1>5 DEF Connection
<1>7. Opened(sc) = setup_signing(c, sc.key, FALSE, sc.allowed, sc.now, 0)
  <2> DEFINE e == [MAVLinkProcessor(IF sc.wire = 2 THEN PROTOCOL_MARKER_V2 ELSE PROTOCOL_MARKER_V1)
                     EXCEPT !.signing.secret_key = sc.key, !.signing.allow_unsigned = sc.allowed]
  <2>1. Opened(sc) = CASE sc.reader \in Python -> setup_signing(c, sc.key, FALSE, sc.allowed, sc.now, 0)
                       [] sc.reader \in JavaScript -> e
                       [] OTHER -> NoPacket
    BY DEF Opened
  <2>2. sc.reader \notin JavaScript
    BY DEF Python, JavaScript
  <2> HIDE DEF c, e
  <2> QED
    BY <2>1, <2>2
<1> HIDE DEF c
<1>8. ASSUME NEW k, NEW al, NEW n, k = sc.key, al = sc.allowed, n = sc.now
      PROVE  Connection(Opened(sc)) /\ Opened(sc).mav.signing.allow_unsigned = al
  <2>1. k \in Nat /\ al \in SUBSET Nat /\ n \in Nat /\ 0 \in Nat
    BY <1>1, <1>8
  <2>2. Opened(sc) = setup_signing(c, k, FALSE, al, n, 0)
    BY <1>7, <1>8
  <2> QED
    <3>1. SignsWith(Opened(sc), k, al)
      BY ONLY <1>6, <2>1, <2>2, SigningSet
    <3> QED
      BY <3>1 DEF SignsWith
<1> QED
  BY <1>8

LEMMA Start == LinkInit => IInv
<1> SUFFICES ASSUME LinkInit PROVE IInv
  OBVIOUS
<1>1. sc \in Scenarios
  BY DEF LinkInit
<1>2. peers \in [DOMAIN sc.peers -> MavType]
  BY <1>1, PeerTyped DEF LinkInit
<1>3. LineTyped
  BY <1>1, <1>2 DEF LinkInit, LineTyped
<1>4. Messages = {}
  BY DEF LinkInit, Messages
<1>5. Reading
  BY <1>1, <1>4, OpenedTyped DEF LinkInit, Reading
<1>6. Stamped
  BY <1>1, <1>4, OpenedTyped DEF LinkInit, Stamped, HasKey
<1>7. AcceptedOnce
  BY <1>4 DEF AcceptedOnce
<1> QED
  BY <1>3, <1>5, <1>6, <1>7 DEF IInv

(* ----------------------------------- steps ---------------------------------- *)
LEMMA PutOnLine ==
    ASSUME LineTyped, NEW bytes \in Seq(Nat), NEW join, OnLine(bytes, join)
    PROVE  /\ sc.reader = "stream" => line' \in Seq(Nat)
           /\ sc.reader = "datagram" => line' \in Seq(Seq(Nat))
<1>1. CASE sc.reader = "stream"
  BY <1>1 DEF LineTyped, OnLine, Whole
<1>2. CASE sc.reader = "datagram"
  <2>1. line \in Seq(Seq(Nat))
    BY <1>2 DEF LineTyped
  <2>2. CASE join /\ line # <<>>
    <3>1. line' = [line EXCEPT ![Len(line)] = @ \o bytes]
      BY <1>2, <2>2 DEF OnLine, Whole
    <3>2. Len(line) \in 1 .. Len(line) /\ line[Len(line)] \in Seq(Nat)
      BY <2>1, <2>2, EmptySeq
    <3>3. line[Len(line)] \o bytes \in Seq(Nat)
      BY <3>2
    <3> QED
      BY <1>2, <2>1, <3>1, <3>2, <3>3
  <2>3. CASE ~(join /\ line # <<>>)
    <3>1. line' = Append(line, bytes)
      BY <1>2, <2>3 DEF OnLine, Whole
    <3> QED
      BY <1>2, <2>1, <3>1
  <2> QED
    BY <2>2, <2>3
<1> QED
  BY <1>1, <1>2

(* steps that leave the reader and its messages alone *)
LEMMA Unread ==
    ASSUME IInv, UNCHANGED <<sc, reader, items>>
    PROVE  Reading' /\ Stamped' /\ AcceptedOnce'
BY DEF IInv, Reading, Stamped, AcceptedOnce, HasKey, Messages

(* a turn of the connection, with the message it makes or none *)
LEMMA Taken ==
    ASSUME IInv, sc.reader \in Python, sc' = sc, NEW r, Turn(reader, r), reader' = r.c,
           items' = IF r.m = NoMessage THEN items ELSE Append(items, r.m)
    PROVE  Reading' /\ Stamped' /\ AcceptedOnce'
<1> DEFINE old == reader.mav.signing
           new == reader'.mav.signing
           k == Len(items) + 1
<1>1. items \in Seq(ItemType) /\ Len(items) \in Nat /\ r.m \in ItemType /\ Connection(reader)
      /\ Connection(r.c)
  BY DEF IInv, Reading, Turn
<1>2. \A i \in Messages : i \in 1 .. Len(items) /\ Framed(items[i].bytes)
  BY <1>1 DEF IInv, Reading, Messages
<1>3. /\ items' \in Seq(ItemType)
      /\ \A i \in DOMAIN items : i \in DOMAIN items' /\ items'[i] = items[i]
      /\ \A i \in DOMAIN items' \ DOMAIN items : i = k /\ items'[i] = r.m
  BY <1>1
<1>4. /\ \A i \in Messages' : \/ i \in Messages /\ i < k /\ items'[i] = items[i]
                              \/ i = k /\ items'[i] = r.m /\ r.m.kind = "message"
  BY <1>1, <1>3 DEF Messages
<1>5. Reading'
  BY <1>1, <1>2, <1>3, <1>4 DEF Reading, Turn
<1>6. ASSUME HasKey'
      PROVE  /\ new.secret_key # 0 /\ old.secret_key # 0 /\ Grown(old, new)
             /\ r.m.kind = "message" => Marked(new, r.m.bytes, r.m) /\ Later(old, r.m)
             /\ HasKey
  BY <1>6 DEF HasKey, Turn
<1>7. old \in SigningType /\ new \in SigningType
  BY <1>1 DEF Connection, MavType
<1>8. /\ \A x \in DOMAIN old.stream_timestamps : old.stream_timestamps[x] \in Nat
      /\ \A x \in DOMAIN new.stream_timestamps : new.stream_timestamps[x] \in Nat
  BY <1>7, StampsOf DEF SigningType
<1>9. \A i \in Messages' : Framed(items'[i].bytes)
  BY <1>5 DEF Reading
<1>10. \A i \in Messages' : items'[i].signed /\ Signed(items'[i].bytes) => Timestamp(items'[i].bytes) \in Nat
  BY <1>9, FrameFields
<1>11. Stamped'
  <2> SUFFICES ASSUME HasKey'
               PROVE  /\ new.allow_unsigned = sc'.allowed
                      /\ \A i \in Messages' : items'[i].signed =>
                            /\ Signed(items'[i].bytes)
                            /\ Stream(items'[i].bytes) \in DOMAIN new.stream_timestamps
                            /\ Timestamp(items'[i].bytes) <= new.stream_timestamps[Stream(items'[i].bytes)]
    BY DEF Stamped
  <2>1. new.allow_unsigned = sc'.allowed
    BY <1>6 DEF IInv, Stamped, Grown
  <2>2. ASSUME NEW i \in Messages', items'[i].signed
        PROVE  /\ Signed(items'[i].bytes) /\ Stream(items'[i].bytes) \in DOMAIN new.stream_timestamps
               /\ Timestamp(items'[i].bytes) <= new.stream_timestamps[Stream(items'[i].bytes)]
    <3>1. CASE i \in Messages /\ items'[i] = items[i]
      <4>1. /\ Signed(items[i].bytes) /\ Stream(items[i].bytes) \in DOMAIN old.stream_timestamps
            /\ Timestamp(items[i].bytes) <= old.stream_timestamps[Stream(items[i].bytes)]
        BY <1>6, <2>2, <3>1 DEF IInv, Stamped
      <4>2. Timestamp(items[i].bytes) \in Nat
        BY <1>10, <2>2, <3>1, <4>1
      <4>3. /\ Stream(items[i].bytes) \in DOMAIN new.stream_timestamps
            /\ old.stream_timestamps[Stream(items[i].bytes)] <= new.stream_timestamps[Stream(items[i].bytes)]
        BY <1>6, <4>1 DEF Grown
      <4>4. /\ old.stream_timestamps[Stream(items[i].bytes)] \in Nat
            /\ new.stream_timestamps[Stream(items[i].bytes)] \in Nat
        BY <1>8, <4>1, <4>3
      <4>5. Timestamp(items[i].bytes) <= new.stream_timestamps[Stream(items[i].bytes)]
        BY <4>1, <4>2, <4>3, <4>4
      <4> QED
        BY <3>1, <4>1, <4>3, <4>5
    <3>2. CASE items'[i] = r.m /\ r.m.kind = "message"
      <4>1. /\ Signed(r.m.bytes) /\ Stream(r.m.bytes) \in DOMAIN new.stream_timestamps
            /\ new.stream_timestamps[Stream(r.m.bytes)] = Timestamp(r.m.bytes)
        BY <1>6, <2>2, <3>2 DEF Marked
      <4>2. Timestamp(r.m.bytes) \in Nat
        BY <1>10, <2>2, <3>2, <4>1
      <4>3. Timestamp(r.m.bytes) <= new.stream_timestamps[Stream(r.m.bytes)]
        BY <4>1, <4>2
      <4> QED
        BY <3>2, <4>1, <4>3
    <3> QED
      BY <1>4, <3>1, <3>2
  <2> QED
    BY <2>1, <2>2
<1>12. AcceptedOnce'
  <2> SUFFICES ASSUME HasKey'
               PROVE  /\ \A i, j \in Messages' :
                            i < j /\ items'[i].signed /\ items'[j].signed
                                /\ Stream(items'[i].bytes) = Stream(items'[j].bytes)
                            => Timestamp(items'[i].bytes) < Timestamp(items'[j].bytes)
                      /\ \A i \in Messages' : ~items'[i].signed => items'[i].id \in sc'.allowed
    BY DEF AcceptedOnce
  <2>1. ASSUME NEW i \in Messages', NEW j \in Messages', i < j, items'[i].signed, items'[j].signed,
               Stream(items'[i].bytes) = Stream(items'[j].bytes)
        PROVE  Timestamp(items'[i].bytes) < Timestamp(items'[j].bytes)
    <3>1. i \in Messages /\ items'[i] = items[i]
      <4>1. i \in Int /\ j \in Int /\ k \in Int /\ j <= k
        BY <1>1, <1>2, <1>4
      <4>2. i # k
        BY <2>1, <4>1
      <4> QED
        BY <1>4, <4>2
    <3>2. CASE j \in Messages /\ items'[j] = items[j]
      BY <1>6, <2>1, <3>1, <3>2 DEF IInv, AcceptedOnce
    <3>3. CASE items'[j] = r.m /\ r.m.kind = "message"
      <4>1. /\ Signed(items[i].bytes) /\ Stream(items[i].bytes) \in DOMAIN old.stream_timestamps
            /\ Timestamp(items[i].bytes) <= old.stream_timestamps[Stream(items[i].bytes)]
        BY <1>6, <2>1, <3>1 DEF IInv, Stamped
      <4>2. Signed(r.m.bytes) /\ old.stream_timestamps[Stream(r.m.bytes)] < Timestamp(r.m.bytes)
        BY <1>6, <2>1, <3>1, <3>3, <4>1 DEF Marked, Later
      <4>3. Timestamp(items[i].bytes) \in Nat /\ Timestamp(r.m.bytes) \in Nat
        BY <1>10, <2>1, <3>1, <3>3, <4>1, <4>2
      <4>4. Stream(r.m.bytes) = Stream(items[i].bytes)
        BY <2>1, <3>1, <3>3
      <4>5. old.stream_timestamps[Stream(items[i].bytes)] \in Nat
        BY <1>8, <4>1
      <4>6. Timestamp(items[i].bytes) < Timestamp(r.m.bytes)
        BY <4>1, <4>2, <4>3, <4>4, <4>5
      <4> QED
        BY <3>1, <3>3, <4>6
    <3> QED
      BY <1>4, <3>2, <3>3
  <2>2. ASSUME NEW i \in Messages', ~items'[i].signed
        PROVE  items'[i].id \in sc'.allowed
    <3>1. CASE i \in Messages /\ items'[i] = items[i]
      BY <1>6, <2>2, <3>1 DEF IInv, AcceptedOnce
    <3>2. CASE items'[i] = r.m /\ r.m.kind = "message"
      BY <1>6, <1>11, <2>2, <3>2 DEF Marked, Stamped
    <3> QED
      BY <1>4, <3>1, <3>2
  <2> QED
    BY <2>1, <2>2
<1> QED
  BY <1>5, <1>11, <1>12

(* an entry of the script *)
LEMMA Scripted ==
    ASSUME LineTyped, next <= Len(sc.script)
    PROVE  LET s == sc.script[next] IN
           /\ s.from \in {0} \union DOMAIN sc.peers /\ s.payload \in Seq(Nat) /\ s.v1 \in BOOLEAN
           /\ s.from # 0 => s.id \in DOMAIN Known
<1> DEFINE R == [from : {0} \union DOMAIN sc.peers, id : DOMAIN Known,
                 payload : Seq(0 .. 255), v1 : BOOLEAN, join : BOOLEAN]
           s == sc.script[next]
           p == s.payload
<1>1. sc.script \in Seq(R) /\ next \in Nat /\ next >= 1
  BY ScenariosAssumption DEF LineTyped
<1>2. s \in R
  <2> HIDE DEF R
  <2> QED
    BY <1>1
<1>3. p \in Seq(0 .. 255)
  <2> HIDE DEF s
  <2> QED
    BY <1>2
<1> HIDE DEF p
<1>4. 0 .. 255 \subseteq Nat
  OBVIOUS
<1>5. p \in Seq(Nat)
  BY <1>3, <1>4, SeqMonotonic
<1> HIDE DEF s
<1>6. s.from \in {0} \union DOMAIN sc.peers /\ s.payload \in Seq(Nat) /\ s.v1 \in BOOLEAN
      /\ s.id \in DOMAIN Known
  BY <1>2, <1>5 DEF p
<1> QED
  BY <1>6 DEF s

(* a peer that has packed a message *)
LEMMA PeersSend ==
    ASSUME LineTyped, next <= Len(sc.script), sc.script[next].from # 0
    PROVE  /\ sc.script[next].from \in DOMAIN sc.peers
           /\ Frame(sc.script[next]) \in Seq(Nat)
           /\ [peers EXCEPT ![sc.script[next].from] = send(@, sc.script[next].v1)]
                  \in [DOMAIN sc.peers -> MavType]
<1> DEFINE s == sc.script[next]
<1>3. /\ s.from \in DOMAIN sc.peers /\ s.id \in DOMAIN Known /\ s.payload \in Seq(Nat)
      /\ s.v1 \in BOOLEAN
  BY Scripted
<1> HIDE DEF s
<1>4. peers[s.from] \in MavType
  BY <1>3 DEF LineTyped
<1>5. Frame(s) \in Seq(Nat)
  BY <1>3, <1>4, Packed DEF Frame
<1>6. send(peers[s.from], s.v1) \in MavType
  BY <1>4, SentOn
<1>7. [peers EXCEPT ![s.from] = send(@, s.v1)] \in [DOMAIN sc.peers -> MavType]
  BY <1>3, <1>6 DEF LineTyped
<1> QED
  BY <1>3, <1>5, <1>7 DEF s

LEMMA SendKeeps == IInv /\ Send => IInv'
<1> SUFFICES ASSUME IInv, Send PROVE IInv'
  OBVIOUS
<1> DEFINE s == sc.script[next]
           bytes == IF s.from = 0 THEN s.payload ELSE Frame(s)
           number == IF s.from = 0 THEN 0 ELSE Number(s.from)
<1>1. LineTyped /\ next <= Len(sc.script)
  BY DEF IInv, Send
<1>2. s.from \in {0} \union DOMAIN sc.peers /\ s.payload \in Seq(Nat)
  BY <1>1, Scripted
<1>3. bytes \in Seq(Nat)
  BY <1>1, <1>2, PeersSend
<1>4. peers' \in [DOMAIN sc.peers -> MavType]
  BY <1>1, PeersSend DEF Send, LineTyped
<1>5. number \in Int
  <2>1. CASE s.from = 0
    BY <2>1
  <2>2. CASE s.from # 0
    <3>1. s.from \in DOMAIN sc.peers
      BY <1>2, <2>2
    <3>2. peers[s.from].seq \in Nat
      BY <1>1, <3>1 DEF LineTyped, MavType
    <3>3. sc.peers[s.from].seq \in Nat
      BY <1>1, <3>1, ScenariosAssumption DEF LineTyped, Numbers
    <3> QED
      BY <2>2, <3>2, <3>3 DEF Number
  <2> QED
    BY <2>1, <2>2
<1>6. sent' = Append(sent, [from |-> s.from, bytes |-> bytes, number |-> number])
      /\ OnLine(bytes, s.join) /\ next' = next + 1 /\ UNCHANGED <<sc, reader, items>>
  BY DEF Send
<1> HIDE DEF bytes, number, s
<1>7. [from |-> s.from, bytes |-> bytes, number |-> number] \in Put
  BY <1>2, <1>3, <1>5 DEF Put
<1>8. sent' \in Seq(Put) /\ Put' = Put
  BY <1>1, <1>6, <1>7 DEF LineTyped, Put
<1>9. LineTyped'
  BY <1>1, <1>3, <1>4, <1>6, <1>8, PutOnLine DEF LineTyped
<1> QED
  BY <1>6, <1>9, Unread DEF IInv

LEMMA LoseKeeps == IInv /\ Lose => IInv'
<1> SUFFICES ASSUME IInv, Lose PROVE IInv'
  OBVIOUS
<1>1. LineTyped'
  BY PeersSend DEF IInv, Lose, LineTyped, Put
<1> QED
  BY <1>1, Unread DEF IInv, Lose

LEMMA RepeatKeeps == IInv /\ Repeat => IInv'
<1> SUFFICES ASSUME IInv, Repeat PROVE IInv'
  OBVIOUS
<1>1. PICK i \in DOMAIN sent : OnLine(sent[i].bytes, FALSE) /\ sent' = Append(sent, sent[i])
  BY DEF Repeat
<1>2. LineTyped /\ UNCHANGED <<sc, peers, next, reader, items>>
  BY DEF IInv, Repeat
<1>3. sent[i] \in Put /\ sent[i].bytes \in Seq(Nat)
  <2>1. sent \in Seq(Put)
    BY <1>2 DEF LineTyped
  <2>2. sent[i] \in Put
    BY <1>1, <2>1
  <2> QED
    BY <2>2 DEF Put
<1>4. sent' \in Seq(Put) /\ Put' = Put
  BY <1>1, <1>2, <1>3 DEF LineTyped, Put
<1>5. LineTyped'
  BY <1>1, <1>2, <1>3, <1>4, PutOnLine DEF LineTyped
<1> QED
  BY <1>2, <1>5, Unread DEF IInv

LEMMA StreamKeeps == IInv /\ ReadStream => IInv'
<1> SUFFICES ASSUME IInv, ReadStream PROVE IInv'
  OBVIOUS
<1>1. sc.reader = "stream" /\ sc.reader \in Python /\ line \in Seq(Nat) /\ Connection(reader)
  BY DEF IInv, ReadStream, LineTyped, Reading, Python
<1>2. PICK n \in 0 .. Len(line) :
        /\ reader' = ReadBytes(reader, Front2(line, n)).c
        /\ Took(Front2(line, n), ReadBytes(reader, Front2(line, n)).m)
        /\ line' = Drop(line, n)
  BY DEF ReadStream
<1>3. UNCHANGED <<sc, peers, next, sent>>
  BY DEF ReadStream
<1> DEFINE r == ReadBytes(reader, Front2(line, n))
<1>4. Front2(line, n) \in Seq(Nat) /\ line' \in Seq(Nat)
  BY <1>1, <1>2, Cut
<1>5. Turn(reader, r)
  BY <1>1, <1>4, BytesRead
<1>6. reader' = r.c /\ items' = IF r.m = NoMessage THEN items ELSE Append(items, r.m)
  BY <1>2 DEF Took
<1> HIDE DEF r
<1>7. Reading' /\ Stamped' /\ AcceptedOnce'
  BY <1>1, <1>3, <1>5, <1>6, Taken
<1>8. LineTyped'
  BY <1>1, <1>3, <1>4 DEF IInv, LineTyped, Put
<1> QED
  BY <1>7, <1>8 DEF IInv

LEMMA DatagramsKeep == IInv /\ ReadDatagrams => IInv'
<1> SUFFICES ASSUME IInv, ReadDatagrams PROVE IInv'
  OBVIOUS
<1>1. sc.reader = "datagram" /\ sc.reader \in Python /\ line \in Seq(Seq(Nat)) /\ Connection(reader)
  BY DEF IInv, ReadDatagrams, LineTyped, Reading, Python
<1> DEFINE s == IF line = <<>> THEN <<>> ELSE Head(line)
           r == ReadDatagram(reader, s)
<1>2. /\ reader' = r.c /\ Took(s, r.m) /\ line' = IF line = <<>> THEN line ELSE Tail(line)
      /\ UNCHANGED <<sc, peers, next, sent>>
  BY DEF ReadDatagrams
<1>3. s \in Seq(Nat) /\ line' \in Seq(Seq(Nat))
  BY <1>1, <1>2, EmptySeq
<1>4. Turn(reader, r)
  <2> HIDE DEF s
  <2> QED
    BY <1>1, <1>3, BytesRead
<1>5. reader' = r.c /\ items' = IF r.m = NoMessage THEN items ELSE Append(items, r.m)
  BY <1>2 DEF Took
<1> HIDE DEF r
<1>6. Reading' /\ Stamped' /\ AcceptedOnce'
  BY <1>1, <1>2, <1>4, <1>5, Taken
<1>7. LineTyped'
  BY <1>1, <1>2, <1>3 DEF IInv, LineTyped, Put
<1> QED
  BY <1>6, <1>7 DEF IInv

(* the readers of other languages take no part in what is said of connections *)
LEMMA OthersKeep == IInv /\ (ReadJavaScript \/ Dissect \/ Receive) => IInv'
<1> SUFFICES ASSUME IInv, ReadJavaScript \/ Dissect \/ Receive PROVE IInv'
  OBVIOUS
<1>1. sc.reader \notin Python /\ UNCHANGED <<sc, peers, next, sent>>
  BY DEF ReadJavaScript, Dissect, Receive, JavaScript, Python
<1>2. LineTyped'
  BY <1>1 DEF IInv, LineTyped, Put, Python
<1>3. Reading' /\ Stamped' /\ AcceptedOnce'
  BY <1>1 DEF Reading, Stamped, AcceptedOnce, HasKey
<1> QED
  BY <1>2, <1>3 DEF IInv

LEMMA CallerKeeps == IInv /\ (Call \/ Wait \/ SetBack) => IInv'
<1> SUFFICES ASSUME IInv, Call \/ Wait \/ SetBack PROVE IInv'
  OBVIOUS
<1>1. UNCHANGED <<sc, peers, next, line, reader, sent, items>>
  BY DEF Call, Wait, SetBack
<1>2. LineTyped'
  BY <1>1 DEF IInv, LineTyped, Put
<1> QED
  BY <1>1, <1>2, Unread DEF IInv

LEMMA RequestKeeps == IInv /\ Request => IInv'
<1> SUFFICES ASSUME IInv, Request PROVE IInv'
  OBVIOUS
<1>1. sc.reader \in Python /\ UNCHANGED <<sc, peers, next, line, sent, items>> /\ Connection(reader)
  BY DEF IInv, Request, Reading
<1>2. LineTyped'
  BY <1>1 DEF IInv, LineTyped, Put
<1>3. SameMav(reader, reader') \/ reader' = disable_signing(reader)
  BY <1>1, TargetSet DEF Request, SameMav, Connection
<1>4. CASE SameMav(reader, reader')
  <2>1. reader'.mav = reader.mav /\ Connection(reader') /\ Messages' = Messages
    BY <1>1, <1>4 DEF SameMav, Connection, Messages
  <2>2. HasKey' = HasKey
    BY <1>1, <2>1 DEF HasKey
  <2>3. Reading'
    BY <1>1, <2>1 DEF IInv, Reading
  <2>4. Stamped'
    BY <1>1, <2>1, <2>2 DEF IInv, Stamped
  <2>5. AcceptedOnce'
    BY <1>1, <2>1, <2>2 DEF IInv, AcceptedOnce
  <2> QED
    BY <1>2, <2>3, <2>4, <2>5 DEF IInv
<1>5. CASE reader' = disable_signing(reader)
  <2>1. {} \in SUBSET Nat /\ 0 \in Nat /\ reader' = setup_signing(reader, 0, FALSE, {}, 0, 0)
    BY <1>5 DEF disable_signing
  <2>2. SignsWith(reader', 0, {})
    BY <1>1, <2>1, SigningSet
  <2>3. ~HasKey' /\ Connection(reader')
    BY <2>2 DEF HasKey, SignsWith
  <2>4. Stamped' /\ AcceptedOnce'
    BY <2>3 DEF Stamped, AcceptedOnce
  <2>5. Reading'
    BY <1>1, <2>3 DEF IInv, Reading, Messages
  <2> QED
    BY <1>2, <2>4, <2>5 DEF IInv
<1> QED
  BY <1>3, <1>4, <1>5

(* ---------------------------------- theorem --------------------------------- *)
(* As long as a connection has its key, it accepts a signed message once and in the order *)
(* of its sender's time stamps, and nothing unsigned but what it allows: however frames,   *)
(* noise and repetitions are cut into reads, for any scripts, keys and tables of messages  *)
(* (check_signature, decode, parse_char and recv_msg).                                     *)
THEOREM AcceptedOnceAlways == LinkSpec => []AcceptedOnce
<1>1. LinkInit => IInv
  BY Start
<1>2. IInv /\ [LinkNext]_linkvars => IInv'
  <2> SUFFICES ASSUME IInv, [LinkNext]_linkvars PROVE IInv'
    OBVIOUS
  <2>1. CASE Send
    BY <2>1, SendKeeps
  <2>2. CASE Lose
    BY <2>2, LoseKeeps
  <2>3. CASE Repeat
    BY <2>3, RepeatKeeps
  <2>4. CASE ReadStream
    BY <2>4, StreamKeeps
  <2>5. CASE ReadDatagrams
    BY <2>5, DatagramsKeep
  <2>6. CASE ReadJavaScript \/ Dissect \/ Receive
    BY <2>6, OthersKeep
  <2>7. CASE Call \/ Wait \/ SetBack
    BY <2>7, CallerKeeps
  <2>8. CASE Request
    BY <2>8, RequestKeeps
  <2>9. CASE UNCHANGED linkvars
    <3>1. UNCHANGED <<sc, peers, next, line, reader, sent, items>>
      BY <2>9 DEF linkvars
    <3>2. LineTyped'
      BY <3>1 DEF IInv, LineTyped, Put
    <3> QED
      BY <3>1, <3>2, Unread DEF IInv
  <2> QED
    BY <2>1, <2>2, <2>3, <2>4, <2>5, <2>6, <2>7, <2>8, <2>9 DEF LinkNext
<1>3. IInv => AcceptedOnce
  BY DEF IInv
<1> QED
  BY <1>1, <1>2, <1>3, PTL DEF LinkSpec
================================================================================
