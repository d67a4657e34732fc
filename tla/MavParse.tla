------------------------------ MODULE MavParse ------------------------------
(***************************************************************************)
(* The message definitions of a dialect, as pymavlink reads them            *)
(* (generator/mavparse.py).  A file is the sequence of its XML elements;    *)
(* parsing folds the element handlers over it and then lays every message   *)
(* out on the wire.  Values on the wire are kept apart byte by byte: byte k *)
(* of element e of field f is the token <<f, e, k>>, or Zero.               *)
(***************************************************************************)
EXTENDS Integers, Sequences, FiniteSets, SequencesExt, TLC

None == "None"
NoExtensions == -1

lengths == [t \in {"char", "int8_t", "uint8_t"} |-> 1] @@ [t \in {"int16_t", "uint16_t"} |-> 2]
           @@ [t \in {"int32_t", "uint32_t", "float"} |->
               4] @@ [t \in {"int64_t", "uint64_t", "double"} |-> 8]
Suffixed == [int8 |-> "int8_t", uint8 |-> "uint8_t", int16 |-> "int16_t", uint16 |-> "uint16_t",
             int32 |-> "int32_t", uint32 |-> "uint32_t", int64 |-> "int64_t", uint64 |-> "uint64_t"]

Attr(e, a, default) == IF a \in DOMAIN e THEN e[a] ELSE default
Total(s) == FoldLeft(LAMBDA a, n: a + n, 0, s)

-----------------------------------------------------------------------------
(* One protocol version: what MAVXML sets before it parses. *)
Protocol(v) ==
  [version |-> v,
   protocol_marker |-> CASE v = "0.9" -> 85 [] v = "1.0" -> 254 [] v = "2.0" -> 253,
   sort_fields |-> v # "0.9", little_endian |-> v # "0.9", crc_extra |-> v # "0.9",
   crc_struct |-> v = "2.0", command_24bit |-> v = "2.0", allow_extensions |-> v = "2.0"]

(* MAVField: the type is normalised, and the field knows its share of the wire. *)
FieldType(t) == CASE t = "uint8_t_mavlink_version" -> "uint8_t"
                  [] t = "array" -> "int8_t"
                  [] t \in DOMAIN Suffixed -> Suffixed[t]
                  [] OTHER -> t
MAVField(e) ==
  LET type == FieldType(e.type)
      n == Attr(e, "len", 0)
  IN [name |-> e.name, type |-> type, array_length |-> n, enum |-> Attr(e, "enum", None),
      omit_arg |-> e.type = "uint8_t_mavlink_version", type_length |-> lengths[type],
      instance |-> Attr(e, "instance", FALSE),
      wire_length |-> IF n # 0 THEN n * lengths[type] ELSE lengths[type]]

MAVType(e) == [name |-> e.name, id |-> e.id, fields |-> <<>>, extensions_start |-> NoExtensions]
MAVEnum(e) == [name |-> e.name, entry |-> <<>>, start_value |-> 0, highest_value |-> 0,
               bitmask |-> Attr(e, "bitmask", FALSE)]

-----------------------------------------------------------------------------
(* The element handlers.  x is the document so far; the last message, enum   *)
(* and entry are the ones being filled.                                      *)
SetLast(s, v) == [s EXCEPT ![Len(s)] = v]
Required == [message |-> {"name", "id"},
             field |-> {"name", "type"}, enum |-> {"name"}, entry |-> {"name"},
             param |-> {"index"}, extensions |-> {}, include |-> {}, version |-> {}]
check_attrs(e) == Required[e.tag] \subseteq DOMAIN e

StartField(x, e) ==
  IF FieldType(e.type) \notin DOMAIN lengths THEN [x EXCEPT !.failed = TRUE]
  ELSE IF Last(x.message).extensions_start = NoExtensions \/ x.protocol.allow_extensions
       THEN [x EXCEPT !.message = SetLast(@, [Last(@) EXCEPT !.fields = Append(@, MAVField(e))])]
       ELSE x

EntryValue(enum, e) == Attr(e, "value", enum.highest_value + 1)
StartEntry(x, e) ==
  LET enum == Last(x.enum)
      v == EntryValue(enum, e)
      entry == [name |-> e.name, value |-> v, autovalue |-> "value" \notin DOMAIN e, param |-> <<>>,
                origin_file |-> x.filename, end_marker |-> FALSE]
  IN [x EXCEPT !.enum = SetLast(@, [enum EXCEPT
        !.start_value = IF enum.entry = <<>> \/ v < @ THEN v ELSE @,
        !.highest_value = IF v > @ THEN v ELSE @,
        !.entry = Append(@, entry)])]

StartParam(x, e) ==
  [x EXCEPT !.enum = SetLast(@, [Last(@) EXCEPT
     !.entry = SetLast(@,
         [Last(@) EXCEPT !.param = Append(@, [index |-> e.index, reserved |-> FALSE])])])]

start_element(x, e) ==
  IF x.failed \/ ~check_attrs(e) THEN [x EXCEPT !.failed = TRUE] ELSE
  CASE e.tag = "message"    -> [x EXCEPT !.message = Append(@, MAVType(e))]
    [] e.tag = "extensions" -> [x EXCEPT !.message = SetLast(@,
        [Last(@) EXCEPT !.extensions_start = Len(Last(x.message).fields)])]
    [] e.tag = "field"      -> StartField(x, e)
    [] e.tag = "enum"       -> [x EXCEPT !.enum = Append(@, MAVEnum(e))]
    [] e.tag = "entry"      -> StartEntry(x, e)
    [] e.tag = "param"      -> StartParam(x, e)
    [] e.tag = "include"    -> [x EXCEPT !.include = Append(@, e.data)]
    [] e.tag = "version"    -> [x EXCEPT !.version = e.data]

(* Commands get their seven parameters: those not described are reserved. *)
IsCommand(enum) == Attr(enum, "command", enum.name = "MAV_CMD")
Seven(param) ==
  IF Len(param) = 7 THEN param
  ELSE [i \in 1..7 |-> LET given == SelectSeq(param, LAMBDA p: p.index = i)
                       IN IF given = <<>> THEN [index |-> i, reserved |-> TRUE] ELSE Last(given)]
AddReserved(enum) ==
  IF IsCommand(enum) THEN [enum EXCEPT !.entry = [i \in DOMAIN @ |->
      [@[i] EXCEPT !.param = Seven(@)]]] ELSE enum

-----------------------------------------------------------------------------
(* The wire layout of one message. *)
base_fields(m) == IF m.extensions_start = NoExtensions THEN Len(m.fields) ELSE m.extensions_start
BySize(fs) == SelectSeq(fs, LAMBDA f: f.type_length = 8)
    \o SelectSeq(fs, LAMBDA f: f.type_length = 4)
              \o SelectSeq(fs, LAMBDA f: f.type_length = 2)
                  \o SelectSeq(fs, LAMBDA f: f.type_length = 1)
SortEnd(m) == base_fields(m)
Ordered(m, p) == IF p.sort_fields
                 THEN BySize(SubSeq(m.fields, 1, SortEnd(m)))
                     \o SubSeq(m.fields, SortEnd(m) + 1, Len(m.fields))
                 ELSE m.fields
WireOffset(fs, i) == Total([j \in 1..(i - 1) |-> fs[j].wire_length])
WithOffsets(fs) == [i \in DOMAIN fs |-> fs[i] @@ [wire_offset |-> WireOffset(fs, i)]]
ElementLength(f) == IF f.array_length > 1 THEN f.wire_length \div f.array_length ELSE f.wire_length
MisalignedNever(f) == FALSE
Misaligned(f) == f.wire_offset % ElementLength(f) # 0
is_target_system_field(m, f) == f.name = "target_system" \/
    (m.name = "MANUAL_CONTROL" /\ f.name = "target")

message_checksum(m, ordered) ==
  <<m.name, [i \in 1..base_fields(m) |->
      <<ordered[i].type, ordered[i].name, ordered[i].array_length>>]>>

FieldLength(f) == IF f.array_length = 0 \/ (f.array_length > 1 /\ f.type = "char") THEN 1
                  ELSE f.array_length

OffsetOf(fs, marked) == IF marked = {} THEN 0 ELSE fs[Max(marked)].wire_offset
MinLength(m, fs) == Total([i \in 1..base_fields(m) |-> fs[i].wire_length])

LaidOut(m, p) ==
  LET ordered == WithOffsets(Ordered(m, p))
      sys == {i \in DOMAIN ordered: is_target_system_field(m, ordered[i])}
      comp == {i \in DOMAIN ordered \ sys: ordered[i].name = "target_component"}
  IN [name |-> m.name, id |-> m.id, fields |-> m.fields, extensions_start |-> m.extensions_start,
      ordered_fields |-> ordered, num_fields |-> Len(m.fields),
      fieldlengths |-> [i \in DOMAIN m.fields |-> FieldLength(m.fields[i])],
      wire_length |-> Total([i \in DOMAIN ordered |-> ordered[i].wire_length]),
      wire_min_length |-> MinLength(m, ordered),
      needs_pack |-> \E i \in DOMAIN ordered: Misaligned(ordered[i]),
      message_flags |-> {"target_system" : i \in sys} \cup {"target_component" : i \in comp},
      target_system_ofs |-> OffsetOf(ordered, sys),
      target_component_ofs |-> OffsetOf(ordered, comp),
      crc_extra |-> message_checksum(m, ordered)]

MaxFields == 64
Kept(x) == SelectSeq(x.message, LAMBDA m: x.protocol.command_24bit \/ m.id <= 255)

(* The tables of a file: by message id, what its own messages say. *)
Tables(ms) ==
  LET at(id) == Last(SelectSeq(ms, LAMBDA m: m.id = id))
  IN [id \in {ms[i].id : i \in DOMAIN ms} |->
        [crc |-> at(id).crc_extra, length |-> at(id).wire_length,
         min_length |-> at(id).wire_min_length,
         name |-> at(id).name, flags |-> at(id).message_flags,
         system_ofs |-> at(id).target_system_ofs, component_ofs |-> at(id).target_component_ofs]]
Largest(ms) == FoldLeft(LAMBDA a, m: IF m.wire_length > a THEN m.wire_length ELSE a, 0, ms)

MAVXML(filename, elements, v) ==
  LET empty == [filename |-> filename, message |-> <<>>,
                enum |-> <<>>, include |-> <<>>, version |-> 2,
                protocol |-> Protocol(v), failed |-> FALSE]
      x == FoldLeft(start_element, empty, elements)
      laid == [i \in DOMAIN Kept(x) |-> LaidOut(Kept(x)[i], x.protocol)]
  IN IF x.failed \/ \E i \in DOMAIN laid:
      laid[i].num_fields > MaxFields THEN [x EXCEPT !.failed = TRUE]
     ELSE [x EXCEPT !.message = laid, !.enum = [i \in DOMAIN @ |-> AddReserved(@[i])]]
          @@ [tables |-> Tables(laid), largest_payload |-> Largest(laid)]

-----------------------------------------------------------------------------
(* Enums of the same name in several files become one, in the file that had *)
(* it first.                                                                 *)
Overlap(a, b) == a.start_value <= b.highest_value /\ a.highest_value >= b.start_value
CorrectedAll(entry, highest) == entry.value <= highest
Corrected(entry, highest) == entry.value <= highest /\ entry.autovalue
MergeOne(into, enum) ==
  LET step(a, entry) ==
        IF Overlap(into, enum) /\ Corrected(entry, a.highest)
        THEN [highest |-> a.highest + 1,
              entry |-> Append(a.entry, [entry EXCEPT !.value = a.highest + 1])]
        ELSE [a EXCEPT !.entry = Append(@, entry)]
      merged == FoldLeft(step, [highest |-> enum.highest_value, entry |-> <<>>], into.entry)
  IN [into EXCEPT !.entry = merged.entry \o enum.entry]

ByValue(es) == SortSeq(es, LAMBDA a, b: a.value < b.value)
WithEnd(enum) ==
  LET es == ByValue(enum.entry)
  IN [enum EXCEPT !.entry = Append(es, [name |-> enum.name
      \o "_ENUM_END", value |-> Last(es).value + 1, autovalue |-> FALSE,
                                        param |-> <<>>, origin_file |-> None, end_marker |-> TRUE])]

(* Where in the list of files an enum of this name was seen first. *)
HasEnum(x, n) == \E k \in DOMAIN x.enum: x.enum[k].name = n
MergeInto(xs, enum) ==
  LET i == CHOOSE k \in DOMAIN xs: HasEnum(xs[k], enum.name)
  IN [xs EXCEPT ![i].enum = [k \in DOMAIN @ |->
      IF @[k].name = enum.name THEN MergeOne(@[k], enum) ELSE @[k]]]
merge_enums(xml) ==
  LET one(xs, enum) == IF \E k \in DOMAIN xs: HasEnum(xs[k], enum.name) THEN MergeInto(xs, enum)
                       ELSE SetLast(xs, [Last(xs) EXCEPT !.enum = Append(@, enum)])
      file(xs, x) == FoldLeft(one, Append(xs, [x EXCEPT !.enum = <<>>]), x.enum)
      merged == FoldLeft(file, <<>>, xml)
  IN [i \in DOMAIN merged |-> [merged[i] EXCEPT !.enum = [k \in DOMAIN @ |-> WithEnd(@[k])]]]

-----------------------------------------------------------------------------
Messages(xml) == FlattenSeq([i \in DOMAIN xml |-> xml[i].message])
Enums(xml) == FlattenSeq([i \in DOMAIN xml |-> xml[i].enum])
Repeats(s, same(_, _)) == \E i, j \in DOMAIN s: i < j /\ same(s[i], s[j])

SameMessage(a, b) == a.id = b.id \/ a.name = b.name
SameEntry(a, b) == a.name = b.name \/ a.value = b.value
check_duplicates(merged) ==
  \/ Repeats(Messages(merged), SameMessage)
  \/ \E m \in ToSet(Messages(merged)): Repeats(m.fields, LAMBDA a, b: a.name = b.name)
  \/ \E e \in ToSet(Enums(merged)): Repeats(e.entry, SameEntry)

check_missing_enum(merged) ==
  \E m \in ToSet(Messages(merged)): \E f \in ToSet(m.fields):
    f.enum # None /\ f.enum \notin {e.name : e \in ToSet(Enums(merged))}
=============================================================================
