----------------------------- MODULE MavStructs -----------------------------
(***************************************************************************)
(* The dialects generated for languages that lay a message out as a record  *)
(* of the language: C (mavgen_c.py), C++ (mavgen_cpp11.py), Objective-C     *)
(* (mavgen_objc.py), C# (mavgen_cs.py), Ada (mavgen_ada.py) and Swift       *)
(* (mavgen_swift.py).  The machine that runs them is little endian and      *)
(* aligns every type to its size.                                           *)
(***************************************************************************)
EXTENDS MavWire

HostLittleEndian == TRUE
ByMessageId(ms) == SortSeq(ms, LAMBDA a, b: a.id < b.id)
SortedIds(table) == SortSeq(SetToSeq(DOMAIN table), <)

-----------------------------------------------------------------------------
(* C.  mavlink.h fixes the protocol of a dialect. *)
generate_mavlink_h(x) ==
  [STX |-> x.protocol.protocol_marker, LITTLE_ENDIAN |-> x.protocol.little_endian,
   CRC_EXTRA |-> x.protocol.crc_extra,
   COMMAND_24BIT |-> x.protocol.command_24bit, ALIGNED_FIELDS |-> x.protocol.sort_fields,
   MAX_DIALECT_PAYLOAD_SIZE |-> x.largest_payload]
NeedByteSwap(x) == generate_mavlink_h(x).LITTLE_ENDIAN # HostLittleEndian

(* The array a parser finds a message in: sorted, or one place for each id. *)
NoEntry == [crc |-> None, length |-> 0, min_length |-> 0,
            name |-> None, flags |-> {}, system_ofs |-> 0, component_ofs |-> 0]
message_crcs_array(x) ==
  LET entry(id) == IF id \in DOMAIN x.tables THEN x.tables[id] ELSE NoEntry
      ids == IF x.protocol.command_24bit THEN SortedIds(x.tables) ELSE [i \in 1..256 |-> i - 1]
  IN [i \in DOMAIN ids |-> [id |-> ids[i], entry |-> entry(ids[i])]]
message_info_array(x) == SelectSeq([i \in DOMAIN message_crcs_array(x) |->
    message_crcs_array(x)[i].entry.name], LAMBDA n: n # None)
message_lengths_array(x) ==
  IF x.protocol.command_24bit THEN <<>>
  ELSE [i \in 1..256 |-> message_crcs_array(x)[i].entry.min_length]
CEntry(x, id) ==
  LET found == SelectSeq(message_crcs_array(x), LAMBDA e: e.id = id)
  IN IF found = <<>> THEN NoEntry ELSE found[1].entry

(* The struct of a message: in the order of the wire; packed only when the   *)
(* parser saw a field that is not at a multiple of its size.                 *)
Up(n, size) == ((n + size - 1) \div size) * size
StructOffsets(m) ==
  LET place(a, f) == LET at == IF m.needs_pack THEN a.end ELSE Up(a.end, f.type_length)
                     IN [end |-> at + f.wire_length, offset |-> Append(a.offset, at)]
  IN FoldLeft(place, [end |-> 0, offset |-> <<>>], m.ordered_fields).offset

(* A buffer of n bytes, a field of fs at each of its offsets. *)
Put(n, fs, offset, value, little) ==
  LET covers(i, k) == offset[i] < k /\ k <= offset[i] + fs[i].wire_length
  IN [k \in 1..n |-> IF \E i \in DOMAIN fs: covers(i, k)
                     THEN LET i == CHOOSE j \in DOMAIN fs:
                         covers(j, k) IN ToBytes(value[fs[i].name], little)[k - offset[i]]
                     ELSE Zero]
Get(fs, offset, bytes, little) ==
  [n \in {f.name : f \in ToSet(fs)} |->
     LET i == CHOOSE k \in DOMAIN fs: fs[k].name = n
     IN ReadElements(bytes, offset[i], Elements(fs[i]), fs[i].type_length, little)]
WireOffsets(m) == [i \in DOMAIN m.ordered_fields |-> m.ordered_fields[i].wire_offset]

(* mavlink_msg_*_pack: field by field, or the struct as it is in memory; the *)
(* fixed headers then cut the payload to what the protocol sends.            *)
FieldByField(x) == NeedByteSwap(x) \/ ~generate_mavlink_h(x).ALIGNED_FIELDS
Finalized(payload, m, version) == IF version = "2.0" THEN Trimmed(payload)
                                  ELSE SubSeq(payload, 1, m.wire_min_length)
mavlink_msg_pack(x, m, value) ==
  LET buf == IF FieldByField(x)
             THEN Put(m.wire_length, m.ordered_fields,
                      WireOffsets(m), value, x.protocol.little_endian)
             ELSE Put(m.wire_length, m.ordered_fields, StructOffsets(m), value, HostLittleEndian)
  IN Frame(m.id, Finalized(buf, m, x.protocol.version),
           IF x.protocol.crc_extra THEN m.crc_extra ELSE None)

(* A frame reaches the decoder when its checksum fits the array of the dialect. *)
CAccepts(x, frame) ==
  ~x.protocol.crc_extra \/ (CEntry(x, frame.id) # NoEntry /\ CEntry(x, frame.id).crc = frame.crc)
mavlink_msg_decode(x, m, frame) ==
  IF ~CAccepts(x, frame) THEN NotDecoded
  ELSE Decoded(IF FieldByField(x) THEN Get(m.ordered_fields,
      WireOffsets(m), Fitted(frame.payload, m.wire_length), x.protocol.little_endian)
               ELSE Get(m.ordered_fields,
                        StructOffsets(m), Fitted(frame.payload, m.wire_length), HostLittleEndian))

-----------------------------------------------------------------------------
(* C++: MAVLink 2 only; the fields are streamed in the order of the wire. *)
TYPE_MAX == [t \in {"char", "int8_t"} |->
    7] @@ [t \in {"uint8_t"} |-> 8] @@ [t \in {"int16_t"} |-> 15] @@ [t \in {"uint16_t"} |-> 16]
            @@ [t \in {"int32_t"} |-> 31] @@ [t \in {"uint32_t"} |->
                32] @@ [t \in {"int64_t"} |-> 63] @@ [t \in {"uint64_t"} |-> 64]
Bits(v) == CHOOSE n \in 0..30: v < 2^n /\ \A k \in 0..(n - 1): v >= 2^k
enum_types(ms, name) ==
  {f.type : f \in {g \in UNION {ToSet(m.fields) : m \in ToSet(ms)}: g.enum = name}}
Values_(e) == {y.value : y \in {z \in ToSet(e.entry): ~z.end_marker}}
(* The largest type a field of this file gives the enum; a value above it is *)
(* an error, and one above 32 bits makes an enum without a field 64 bits.    *)
underlying_type(x, e) ==
  LET types == enum_types(x.message, e.name)
  IN IF types # {} THEN CHOOSE t \in types: \A u \in types: TYPE_MAX[u] <= TYPE_MAX[t]
     ELSE "int32_t"
cpp_fails(xml) ==
  \/ xml[1].protocol.version # "2.0"
  \/ \E x \in ToSet(xml): \E e \in ToSet(x.enum):
       \/ \E t \in enum_types(x.message, e.name): t \notin DOMAIN TYPE_MAX
       \/ enum_types(x.message, e.name) # {} /\
            \E v \in Values_(e): Bits(v) > TYPE_MAX[underlying_type(x, e)]
MESSAGE_ENTRIES(x) == [i \in DOMAIN SortedIds(x.tables) |->
    [id |-> SortedIds(x.tables)[i], entry |-> x.tables[SortedIds(x.tables)[i]]]]
serialize(m, value) == Frame(m.id, Trimmed(InSequence(m.ordered_fields, value, TRUE)), m.crc_extra)
deserialize(x, m, frame) ==
  IF \E e \in ToSet(MESSAGE_ENTRIES(x)): e.id = frame.id /\ e.entry.crc = frame.crc
  THEN Decoded(FromSequence(m.ordered_fields,
                            Fitted(frame.payload, m.wire_length), TRUE)) ELSE NotDecoded

-----------------------------------------------------------------------------
(* Objective-C: classes around the C functions, found by the id of a message *)
(* that the base class gives as eight bits.                                  *)
objc_classes(xml) == ByMessageId(Messages(xml))
objc_messageId(m) == m.id % 256
objc_data(x, m, value) == mavlink_msg_pack(x, m, value)
objc_class(xml, frame) == LET found == SelectSeq(objc_classes(xml), LAMBDA m: m.id = frame.id) IN
    IF found = <<>> THEN None ELSE found[1].name
objc_get(xml, x, m, frame) ==
  IF ~CAccepts(x, frame) \/ objc_class(xml, frame) # m.name THEN NotDecoded
  ELSE Decoded(Get(m.ordered_fields, WireOffsets(m),
                   Fitted(frame.payload, m.wire_length), x.protocol.little_endian))

-----------------------------------------------------------------------------
(* C#: one table over all files, a name only once; the struct is packed. *)
MESSAGE_INFOS(xml) ==
  LET add(infos, x) ==
        LET ids == SelectSeq(SortedIds(x.tables),
                             LAMBDA id: \A k \in DOMAIN infos: infos[k].name # x.tables[id].name)
        IN infos \o [i \in DOMAIN ids |->
             [id |-> ids[i], name |-> x.tables[ids[i]].name,
              crc |-> x.tables[ids[i]].crc, length |-> x.tables[ids[i]].length,
              minlength |-> IF x.protocol.command_24bit THEN x.tables[ids[i]].min_length
                            ELSE x.tables[ids[i]].length]]
  IN FoldLeft(add, <<>>, xml)
cs_fails(xml) == xml[1].protocol.version = "0.9"
(* The type of an enum is that of the last field that uses it. *)
enumtypes(xml, name) ==
  LET uses == SelectSeq(FlattenSeq([i \in DOMAIN Messages(xml) |-> Messages(xml)[i].fields]),
                        LAMBDA f: f.enum = name /\ f.array_length = 0)
  IN IF uses = <<>> THEN "int32_t" ELSE Last(uses).type
cs_struct(m, value) == InSequence(m.ordered_fields, value, TRUE)
cs_generate(xml, m, value) ==
  LET info == SelectSeq(MESSAGE_INFOS(xml), LAMBDA e: e.id = m.id)[1] IN
  Frame(m.id, IF m.id > 255 \/ xml[1].protocol.version = "2.0" THEN Trimmed(cs_struct(m, value))
              ELSE SubSeq(cs_struct(m, value), 1, info.minlength), info.crc)
cs_read(xml, m, frame) ==
  IF \E e \in ToSet(MESSAGE_INFOS(xml)): e.id = frame.id /\ e.crc = frame.crc
  THEN Decoded(FromSequence(m.ordered_fields,
                            Fitted(frame.payload, m.wire_length), TRUE)) ELSE NotDecoded

-----------------------------------------------------------------------------
(* Ada: MAVLink 1 only; a representation clause gives the place of each       *)
(* field, and an enum has one size wherever it is used.                      *)
types_size(xml, name) == {f.type_length :
    f \in {g \in UNION {ToSet(m.fields) : m \in ToSet(Messages(xml))}: g.enum = name}}
ada_fails(xml) ==
  \/ xml[1].protocol.version # "1.0"
  \/ \E e \in ToSet(Enums(xml)): Cardinality(types_size(xml, e.name)) > 1
Representation(m) == [i \in DOMAIN m.ordered_fields |-> SizeOf(SubSeq(m.ordered_fields, 1, i - 1))]
Payload_Length(m) == Total([i \in DOMAIN m.fields |->
    (IF m.fields[i].array_length = 0 THEN 1
     ELSE m.fields[i].array_length) * m.fields[i].type_length])
CRC_Extras(xml) ==
  [id \in 0..255 |-> LET ms == ById(xml, id) IN IF ms = <<>> THEN None ELSE Last(ms).crc_extra]
is_position(v) == \E k \in 0..30: v = 2^k
repr_bitmask(e) ==
  SelectSeq(e.entry, LAMBDA y: ~y.end_marker /\ y.value # 0 /\ is_position(y.value))
repr_enum(e) == SelectSeq(e.entry, LAMBDA y: ~y.end_marker)
ada_encode(xml, m, value) ==
  Frame(m.id, Put(Payload_Length(m), m.ordered_fields, Representation(m), value, TRUE),
        CRC_Extras(xml)[m.id])
ada_decode(xml, m, frame) ==
  IF frame.id \in 0..255 /\ CRC_Extras(xml)[frame.id] # None /\
      CRC_Extras(xml)[frame.id] = frame.crc
  THEN Decoded(Get(m.ordered_fields, Representation(m),
                   Fitted(frame.payload, Payload_Length(m)), TRUE)) ELSE NotDecoded

-----------------------------------------------------------------------------
(* Swift: the tables are keyed by eight bits; an enum is asked about before  *)
(* an array, and has the width of the first field that uses it.              *)
swift_fails(xml) ==
  \E m \in ToSet(Messages(xml)): \E f \in ToSet(m.fields): f.type = "char" /\
      f.array_length = 0 /\ f.enum = None
get_enum_raw_type(xml, name) ==
  LET uses == SelectSeq(FlattenSeq([i \in DOMAIN Messages(xml) |-> Messages(xml)[i].fields]),
                        LAMBDA f: f.enum = name)
  IN IF uses = <<>> THEN "int64_t" ELSE uses[1].type
SwiftWidth(xml, f) == IF f.enum # None THEN lengths[get_enum_raw_type(xml, f.enum)]
                      ELSE f.type_length
SwiftElements(f) == IF f.enum # None THEN 1 ELSE Elements(f)
Widened(element, n) == IF n <= Len(element) THEN SubSeq(element, 1, n) ELSE Padded(element, n)
(* Each field is written at its place in the order of the wire: one that is  *)
(* wider than its place is overwritten by the next.                          *)
swift_pack(xml, m, value) ==
  LET n == m.wire_length
      bytes(f) == FlattenSeq([e \in 1..SwiftElements(f) |->
          Widened(value[f.name][e], SwiftWidth(xml, f))])
      put(data, f) == [k \in 1..n |-> IF f.wire_offset < k /\
          k <= f.wire_offset + Len(bytes(f)) THEN bytes(f)[k - f.wire_offset] ELSE data[k]]
  IN Frame(m.id, FoldLeft(put, Zeros(n), m.ordered_fields), m.crc_extra)
messageCRCsExtra(xml) == [id \in {m.id : m \in ToSet(Messages(xml))} |-> ById(xml, id)[1].crc_extra]
messageLengths(xml) == [id \in {m.id : m \in ToSet(Messages(xml))} |-> ById(xml, id)[1].wire_length]
swift_init(xml, m, frame) ==
  IF frame.id > 255 \/ frame.id \notin DOMAIN messageCRCsExtra(xml) \/
      messageCRCsExtra(xml)[frame.id] # frame.crc THEN NotDecoded
  ELSE LET data == Fitted(frame.payload, messageLengths(xml)[frame.id])
           element(f, e) == Widened(Slice(data, f.wire_offset + (e - 1) * f.type_length,
                                          SwiftWidth(xml, f)), f.type_length)
       IN Decoded([n \in FieldNames(m) |->
           LET f == FieldNamed(m, n) IN [e \in 1..SwiftElements(f) |-> element(f, e)]])
=============================================================================
