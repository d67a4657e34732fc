------------------------------ MODULE MavScripts ------------------------------
(***************************************************************************)
(* The dialects generated for Java (mavgen_java.py), JavaScript             *)
(* (mavgen_javascript.py, mavgen_javascript_stable.py), TypeScript          *)
(* (mavgen_typescript.py), Lua (mavgen_lua.py), the Wireshark dissector     *)
(* (mavgen_wlua.py) and Spin2 (mavgen_spin2.py): tables the generator       *)
(* writes, and code that walks them for every message.                      *)
(***************************************************************************)
EXTENDS MavWire

Little(xml) == xml[1].protocol.little_endian
IsMavlink2(xml) == xml[1].protocol.version = "2.0"

-----------------------------------------------------------------------------
(* Java: the checksums are those of the first file, the classes of all.  The *)
(* base fields are always put, the extensions only by MAVLink 2; the buffer  *)
(* they are put into is a whole payload long.                                *)
JavaCrc(xml, id) == IF id \in DOMAIN xml[1].tables THEN xml[1].tables[id].crc ELSE None
JavaFields(xml, m) == IF IsMavlink2(xml) THEN m.ordered_fields ELSE BaseFields(m)
java_unpackers(xml) == {m.id : m \in ToSet(Messages(xml))}
java_pack(xml, m, value) ==
  LET put == InSequence(JavaFields(xml, m), value, TRUE)
  IN Frame(m.id, IF IsMavlink2(xml) THEN Trimmed(Padded(put, 255)) ELSE put, JavaCrc(xml, m.id))
java_unpack(xml, m, frame) ==
  IF JavaCrc(xml, frame.id) # frame.crc \/ frame.id \notin java_unpackers(xml)
  THEN NotDecoded
  ELSE Decoded(FromSequence(JavaFields(xml, m),
                            Fitted(frame.payload, SizeOf(JavaFields(xml, m))), TRUE)
               @@ [n \in FieldNames(m) |-> ValueOf(FieldNamed(m, n), FALSE)])

-----------------------------------------------------------------------------
(* JavaScript: the format takes an array of single bytes for one string.    *)
js_mavfmt(f) == [count |-> Elements(f), array |-> f.array_length # 0, size |-> f.type_length,
                 string |-> f.array_length # 0 /\ f.type \in {"char", "int8_t", "uint8_t"}]
js_format(m) == [i \in DOMAIN m.ordered_fields |-> js_mavfmt(m.ordered_fields[i])]
js_order_map(m) == [i \in DOMAIN m.fields |->
    CHOOSE k \in DOMAIN m.ordered_fields: m.ordered_fields[k].name = m.fields[i].name]
js_map(xml) == [id \in {m.id : m \in ToSet(Messages(xml))} |-> ById(xml, id)[1].crc_extra]
FormatLength(fmt) ==
  1 + Total([i \in DOMAIN fmt |-> IF ~fmt[i].array THEN 1 ELSE IF fmt[i].count < 10 THEN 2 ELSE 3])

(* pack: always with the extra byte of the checksum. *)
js_pack(xml, m, value) ==
  LET payload == InSequence(m.ordered_fields, value, Little(xml))
  IN Frame(m.id, IF IsMavlink2(xml) THEN Trimmed(payload) ELSE payload, m.crc_extra)

(* What jspack unpacks: a string is one item, any other array one for each   *)
(* element.                                                                  *)
js_items(xml, m, bytes) ==
  LET fmt == js_format(m)
      value == FromSequence(m.ordered_fields, bytes, Little(xml))
      items(i) == LET v == value[m.ordered_fields[i].name] IN IF fmt[i].string THEN <<v>>
                                                              ELSE [e \in DOMAIN v |-> <<v[e]>>]
  IN FlattenSeq([i \in DOMAIN fmt |-> items(i)])
ItemAt(t, k) == IF k \in DOMAIN t THEN t[k] ELSE <<None>>

(* The walk over a message with arrays.  An array starts at the place of its *)
(* field and not of its item, a string is counted as if each of its bytes    *)
(* were an item, and the bound of the inner loop becomes that of the outer.  *)
js_walk(m, t) ==
  LET fmt == js_format(m)
      step(a, i) ==
        IF i - 1 > a.size THEN a
        ELSE IF fmt[i].array
             THEN [args |-> Append(a.args,
                                   FlattenSeq([j \in 1..fmt[i].count |-> ItemAt(t, i - 1 + j)])),
                   member |-> a.member + fmt[i].count, size |-> fmt[i].count]
             ELSE [a EXCEPT !.args = Append(@, ItemAt(t, a.member + 1)), !.member = @ + 1]
  IN FoldLeft(step, [args |-> <<>>, member |-> 0, size |-> FormatLength(fmt) - 1],
              [i \in DOMAIN fmt |-> i]).args
js_arguments(m, t) ==
  LET found == IF Len(t) = Len(m.fields) THEN t ELSE js_walk(m, t)
  IN [i \in DOMAIN m.fields |-> ItemAt(found, js_order_map(m)[i])]

js_decode(xml, m, frame) ==
  IF frame.id \notin DOMAIN js_map(xml) \/ js_map(xml)[frame.id] # frame.crc THEN NotDecoded
  ELSE LET t == js_items(xml, m, Fitted(frame.payload, m.wire_length))
       IN Decoded([n \in FieldNames(m) |->
           js_arguments(m, t)[CHOOSE i \in DOMAIN m.fields: m.fields[i].name = n]])
(* The messages whose items and fields are the same. *)
js_plain(m) == \A f \in ToSet(m.fields): f.array_length < 2 \/ js_mavfmt(f).string

(* The stable generator: the same tables, code and walk. *)
stable_order_map(m) == js_order_map(m)
stable_format(m) == js_format(m)
stable_map(xml) == js_map(xml)
stable_pack(xml, m, value) == js_pack(xml, m, value)
stable_walk(m, t) == js_walk(m, t)
stable_decode(xml, m, frame) ==
  IF frame.id \notin DOMAIN stable_map(xml) \/ stable_map(xml)[frame.id] # frame.crc THEN NotDecoded
  ELSE LET t == js_items(xml, m, Fitted(frame.payload, m.wire_length))
           found == IF Len(t) = Len(m.fields) THEN t ELSE stable_walk(m, t)
       IN Decoded([n \in FieldNames(m) |->
            ItemAt(found, stable_order_map(m)[CHOOSE i \in DOMAIN m.fields: m.fields[i].name = n])])

-----------------------------------------------------------------------------
(* TypeScript: the list of fields a class gives the library that packs it;   *)
(* the length of an array is not in it.                                      *)
ts_fails(xml) == IsMavlink2(xml) = FALSE /\ xml[1].protocol.version = "1.0" /\ Messages(xml) # <<>>
message_fields(m) ==
  [i \in DOMAIN m.ordered_fields |->
     [name |-> m.ordered_fields[i].name, type |-> m.ordered_fields[i].type,
      extension |-> m.extensions_start # NoExtensions /\ i > m.extensions_start]]
messageRegistry(xml) == [i \in DOMAIN Messages(xml) |-> [id |->
    Messages(xml)[i].id, class |-> Messages(xml)[i].name, crc_extra |-> Messages(xml)[i].crc_extra]]

-----------------------------------------------------------------------------
(* Lua: one table for each message; a string keeps its bytes but the zeros.  *)
(* The payload lies in a structure of the host, zeros behind it.             *)
lua_fields(m) ==
  [i \in DOMAIN m.ordered_fields |->
     LET f == m.ordered_fields[i] IN
     [name |-> f.name, string |-> f.type = "char" /\ f.array_length > 0,
      size |-> f.type_length, count |-> Elements(f)]]
lua_decode(xml, m, frame) ==
  IF m.id # frame.id \/ m.crc_extra # frame.crc THEN NotDecoded
  ELSE LET fields == lua_fields(m)
           bytes == Padded(frame.payload, m.wire_length)
           at(i) == Total([k \in 1..(i - 1) |-> fields[k].count * fields[k].size])
           read(i) == ReadElements(bytes, at(i), fields[i].count, fields[i].size, TRUE)
           text(s) == SelectSeq(s, LAMBDA e: e # <<Zero>>)
       IN Decoded([n \in FieldNames(m) |-> LET i == CHOOSE k \in DOMAIN fields: fields[k].name = n
                                           IN IF fields[i].string THEN text(read(i)) ELSE read(i)])
(* encode: an element the caller leaves out is zero, a string is padded. *)
lua_encode(xml, m, value) ==
  Frame(m.id, FlattenSeq([i \in DOMAIN lua_fields(m) |->
      LET f == lua_fields(m)[i] IN Padded(ToBytes(value[f.name], TRUE), f.count * f.size)]),
        m.crc_extra)
(* What a reader of Lua means by the same value. *)
lua_value(m, value) ==
  [n \in DOMAIN value |-> LET f == FieldNamed(m, n) IN
     IF f.type = "char" /\ f.array_length > 0 THEN SelectSeq(value[n], LAMBDA e: e # <<Zero>>)
     ELSE value[n]]

-----------------------------------------------------------------------------
(* Wireshark: every field is read at its offset, once the payload is as long *)
(* as the message; bytes are little endian whatever the protocol.            *)
get_field_info(f) == IF f.type = "char" THEN [size |-> Elements(f), count |-> 1]
                     ELSE [size |-> f.type_length, count |-> Elements(f)]
messageName(xml) == [id \in {m.id : m \in ToSet(Messages(xml))} |-> ById(xml, id)[1].name]
dissected(m, padded) ==
  [n \in FieldNames(m) |->
     LET f == FieldNamed(m, n)
         info == get_field_info(f)
         ranges == [i \in 1..info.count |->
             Slice(padded, f.wire_offset + (i - 1) * info.size, info.size)]
     IN IF f.type = "char" THEN [k \in 1..info.size |-> <<ranges[1][k]>>] ELSE ranges]
wlua_payload(xml, m, frame) ==
  IF frame.id \notin DOMAIN messageName(xml) \/ messageName(xml)[frame.id] # m.name THEN NotDecoded
  ELSE Decoded(dissected(m, IF Len(frame.payload) < m.wire_length THEN Padded(frame.payload,
      m.wire_length) ELSE frame.payload))

(* The values of an enum that the dissector shows as single bits. *)
is_power_of_2(n) == \E k \in 0..30: n = 2^k
flags(e) == SelectSeq(e.entry, LAMBDA y: is_power_of_2(y.value) /\ ~y.end_marker)

-----------------------------------------------------------------------------
(* Spin2: a struct, packed; an array is written as one of its elements, the  *)
(* two words of a long number come in the order of their struct.             *)
SpinBytes(f, elements) ==
  IF f.type = "char" THEN FlattenSeq(SubSeq(elements, 1, f.array_length))
  ELSE IF f.type_length = 8 THEN SubSeq(elements[1], 5, 8) \o SubSeq(elements[1], 1, 4)
       ELSE elements[1]
spin_pack(xml, m, value) ==
  Frame(m.id, FlattenSeq([i \in DOMAIN m.ordered_fields |->
      SpinBytes(m.ordered_fields[i], value[m.ordered_fields[i].name])]), m.crc_extra)
(* The enums and their descriptions are not written: only ids and structs.   *)
spin_ids(xml) == [i \in DOMAIN Messages(xml) |-> Messages(xml)[i].id]
spin_plain(m) == \A f \in ToSet(m.fields): IF f.type = "char" THEN f.array_length > 0
                                           ELSE f.array_length = 0 /\ f.type_length < 8
=============================================================================
