------------------------------- MODULE MavWire -------------------------------
(***************************************************************************)
(* Values and payloads, as all generated codecs see them.  A value gives    *)
(* every field of a message its elements, an element is the sequence of its *)
(* bytes, least significant first; a byte is the token of its place in the  *)
(* value, or Zero.  Two codecs agree when every token comes back where it   *)
(* was put.                                                                 *)
(***************************************************************************)
EXTENDS MavParse

Zero == <<>>
Zeros(n) == [i \in 1..n |-> Zero]
Elements(f) == IF f.array_length = 0 THEN 1 ELSE f.array_length

(* The values of a message: every field is either all zero or all set; the  *)
(* version of the protocol is not an argument, it is always sent.            *)
ElementOf(f, e, set) == [k \in 1..f.type_length |-> IF set THEN <<f.name, e, k>> ELSE Zero]
ValueOf(f, set) == [e \in 1..Elements(f) |-> ElementOf(f, e, set)]
FieldNames(m) == {f.name : f \in ToSet(m.fields)}
FieldNamed(m, n) == CHOOSE f \in ToSet(m.ordered_fields): f.name = n
Always(m) == {f.name : f \in {g \in ToSet(m.fields): g.omit_arg}}
Values(m) == {[n \in FieldNames(m) |-> ValueOf(FieldNamed(m, n), n \in set \cup Always(m))] :
    set \in SUBSET FieldNames(m)}

(* Bytes of elements in the byte order of the link, and back. *)
Ordering(element, little) == IF little THEN element ELSE Reverse(element)
ToBytes(elements, little) == FlattenSeq([e \in DOMAIN elements |-> Ordering(elements[e], little)])
Padded(bytes, n) == bytes \o Zeros(n - Len(bytes))
Fitted(bytes, n) == IF Len(bytes) < n THEN Padded(bytes, n) ELSE SubSeq(bytes, 1, n)
Slice(bytes, first, n) == SubSeq(bytes, first + 1, first + n)
ReadElements(bytes, at, count, size, little) ==
  [e \in 1..count |-> Ordering(Slice(bytes, at + (e - 1) * size, size), little)]

(* One field after the other. *)
InSequence(fs, value, little) ==
  FlattenSeq([i \in DOMAIN fs |-> ToBytes(value[fs[i].name], little)])
SizeOf(fs) == Total([i \in DOMAIN fs |-> fs[i].wire_length])
StartOf(fs, i) == SizeOf(SubSeq(fs, 1, i - 1))
FromSequence(fs, bytes, little) ==
  [n \in {f.name : f \in ToSet(fs)} |->
     LET i == CHOOSE k \in DOMAIN fs: fs[k].name = n
     IN ReadElements(bytes, StartOf(fs, i), Elements(fs[i]), fs[i].type_length, little)]

(* MAVLink 2 does not send the zeros a payload ends with, but at least one byte. *)
Trimmed(bytes) ==
  LET last == {i \in 2..Len(bytes): bytes[i] # Zero}
  IN SubSeq(bytes, 1, IF last = {} THEN (IF bytes = <<>> THEN 0 ELSE 1)
                      ELSE CHOOSE i \in last: \A k \in last: k <= i)

BaseFields(m) == SubSeq(m.ordered_fields, 1, base_fields(m))
Extended(m) == SubSeq(m.ordered_fields, base_fields(m) + 1, Len(m.ordered_fields))
ById(xml, id) == SelectSeq(Messages(xml), LAMBDA m: m.id = id)

NotDecoded == [decoded |-> FALSE]
Decoded(value) == [decoded |-> TRUE, value |-> value]
NotSent == [sent |-> FALSE, id |-> 0, payload |-> <<>>, crc |-> None]
Frame(id, payload, crc) == [sent |-> TRUE, id |-> id, payload |-> payload, crc |-> crc]
=============================================================================
