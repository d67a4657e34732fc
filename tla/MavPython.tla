------------------------------ MODULE MavPython ------------------------------
(***************************************************************************)
(* The Python dialect generator/mavgen_python.py writes: the tables of a    *)
(* message class, how an object is packed and how a buffer is decoded.      *)
(***************************************************************************)
EXTENDS MavWire

(* mavfmt: one item of a struct format is a scalar, an array or a string. *)
mavfmt(f) == [type |-> f.type, count |-> IF f.array_length = 0 THEN 1 ELSE f.array_length,
              string |-> f.type = "char" /\ f.array_length # 0, size |-> f.type_length]
fmtstr(m) == [i \in DOMAIN m.ordered_fields |-> mavfmt(m.ordered_fields[i])]
calcsize(fmt) == Total([i \in DOMAIN fmt |-> fmt[i].count * fmt[i].size])
Items(item) == IF item.string THEN 1 ELSE item.count

OrderedIndex(m, n) == CHOOSE k \in DOMAIN m.ordered_fields: m.ordered_fields[k].name = n
order_map(m) == [i \in DOMAIN m.fields |-> OrderedIndex(m, m.fields[i].name)]
len_map(m) ==
  [k \in DOMAIN m.fields |-> m.fieldlengths[CHOOSE i \in DOMAIN m.fields: order_map(m)[i] = k]]
array_len_map(m) == [i \in DOMAIN m.fields |-> m.ordered_fields[i].array_length]
instance_field(m) ==
  LET instances == SelectSeq(m.ordered_fields, LAMBDA f: f.instance)
  IN IF instances = <<>> THEN None ELSE Last(instances).name

(* fielddisplays_by_name: a field of an enum that is a bitmask is shown as one. *)
Display(f, enums) == \E e \in ToSet(enums): e.name = f.enum /\ e.bitmask
MessageClass(m, enums) ==
  [id |-> m.id, msgname |-> m.name, fieldnames |-> [i \in DOMAIN m.fields |-> m.fields[i].name],
   fieldenums_by_name |-> [f \in {g \in ToSet(m.fields): g.enum # None} |-> f.enum],
   bitmasks |-> {f.name : f \in {g \in ToSet(m.fields): Display(g, enums)}},
   orders |-> order_map(m), lengths |-> len_map(m),
       array_lengths |-> array_len_map(m), crc_extra |-> m.crc_extra,
   unpacker |-> fmtstr(m), size |-> calcsize(fmtstr(m)), instance_field |-> instance_field(m),
   instance_offset |-> IF instance_field(m) = None THEN -1
                       ELSE FieldNamed(m, instance_field(m)).wire_offset]
enums(xml) == [n \in {e.name : e \in ToSet(Enums(xml))} |->
                 [v \in {x.value :
                     x \in ToSet((CHOOSE e \in ToSet(Enums(xml)): e.name = n).entry)} |->
                    (CHOOSE x \in ToSet((CHOOSE e \in ToSet(Enums(xml)): e.name = n).entry):
                        x.value = v).name]]
mavlink_map(xml) ==
  [id \in {m.id : m \in ToSet(Messages(xml))} |-> MessageClass(ById(xml, id)[1], Enums(xml))]

(* mavdefault: what an extension the caller leaves out is packed as.  An     *)
(* empty byte string fills a string but not a single character.              *)
mavdefault(f) == ValueOf(f, FALSE)
NoDefault(f) == f.type = "char" /\ f.array_length = 0
WithDefaults(m, value) ==
  [n \in FieldNames(m) |-> IF n \in DOMAIN value THEN value[n] ELSE mavdefault(FieldNamed(m, n))]

(* _pack: the struct of all fields; MAVLink 2 leaves out zeros at its end. *)
_pack(m, value, protocol, force_mavlink1) ==
  LET all == WithDefaults(m, value)
      payload == InSequence(m.ordered_fields, all, protocol.little_endian)
  IN IF \E n \in FieldNames(m) \ DOMAIN value: NoDefault(FieldNamed(m, n)) THEN NotSent
     ELSE Frame(m.id, IF protocol.version = "2.0" /\
         ~force_mavlink1 THEN Trimmed(payload) ELSE payload,
                IF protocol.crc_extra THEN m.crc_extra ELSE None)

(* The items struct.unpack gives, in the order of the format. *)
Unpacked(class, bytes, little) ==
  LET items(i) ==
        LET item == class.unpacker[i]
            at == calcsize(SubSeq(class.unpacker, 1, i - 1))
            elements == ReadElements(bytes, at, item.count, item.size, little)
        IN IF item.string THEN <<elements>> ELSE [e \in DOMAIN elements |-> <<elements[e]>>]
  IN FlattenSeq([i \in DOMAIN class.unpacker |-> items(i)])

(* The items back in the order of the definition, arrays as lists.  Where    *)
(* the protocol does not sort its fields, the items are taken as they come.  *)
Regrouped(class, t) ==
  IF \A k \in DOMAIN class.lengths:
      class.lengths[k] = 1 THEN [i \in DOMAIN t |-> t[class.orders[i]]]
  ELSE [i \in DOMAIN class.orders |->
          LET order == class.orders[i]
              tip == Total(SubSeq(class.lengths, 1, order - 1))
          IN IF class.lengths[order] = 1 THEN t[tip + 1]
             ELSE FlattenSeq(SubSeq(t, tip + 1, tip + class.lengths[order]))]

(* The zeros at the end of a string are taken off. *)
Terminated(f, elements) ==
  LET set == {i \in DOMAIN elements: elements[i] # <<Zero>>}
  IN IF f.type # "char" THEN elements
     ELSE SubSeq(elements, 1, IF set = {} THEN 0 ELSE CHOOSE i \in set: \A k \in set: k <= i)

(* decode: checksum, zero padding, unpacking, construction by position. *)
python_decode(map, m, frame, protocol) ==
  IF frame.id \notin DOMAIN map THEN NotDecoded
  ELSE LET class == map[frame.id]
           t == Unpacked(class, Fitted(frame.payload, class.size), protocol.little_endian)
           tlist == IF protocol.sort_fields THEN Regrouped(class, t) ELSE t
       IN IF (protocol.crc_extra /\ frame.crc # class.crc_extra) \/
           Len(tlist) # Len(class.fieldnames) THEN NotDecoded
          ELSE Decoded([n \in ToSet(class.fieldnames) |->
                 Terminated(FieldNamed(m, n),
                            tlist[CHOOSE i \in DOMAIN tlist: class.fieldnames[i] = n])])
=============================================================================
