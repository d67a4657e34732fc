------------------------------- MODULE MavGen -------------------------------
(***************************************************************************)
(* mavgen (generator/mavgen.py): the dialect files named by the caller are  *)
(* parsed, the files they include are added breadth first, the whole is     *)
(* checked, the tables of included files are carried to the files that      *)
(* include them, and one generator runs.                                    *)
(*                                                                          *)
(* A file name is <<document, absolute>>: the names of includes are made    *)
(* absolute, those of the arguments are taken as they are spelled.          *)
(***************************************************************************)
EXTENDS MavPython, MavStructs, MavScripts

CONSTANTS
  Documents,    \* document -> the sequence of its XML elements
  Invalid,      \* the documents the schema refuses
  Commands,     \* the calls to try: options and the file names given
  MAXIMUM_INCLUDE_FILE_NESTING

VARIABLES
  opts,         \* the options: wire_protocol, validate, language
  args,         \* the arguments still to be read
  xml,          \* the parsed files
  all_files,    \* the names of the files parsed so far
  done,         \* the indices in xml of the files whose tables are complete
  round,        \* of the loop over include nesting
  pc

vars == <<opts, args, xml, all_files, done, round, pc>>

Parsed(fname) == MAVXML(fname, Documents[fname[1]], opts.wire_protocol)
Refused(fname) == opts.validate /\ fname[1] \in Invalid
Included(x) == {<<d, TRUE>> : d \in ToSet(x.include)}

(* The types; and no file name is parsed twice, whoever includes it. *)
TypeOK ==
  /\ all_files \subseteq (DOMAIN Documents) \X BOOLEAN
  /\ {xml[i].filename : i \in DOMAIN xml} \subseteq all_files
  /\ \A i, k \in DOMAIN xml: xml[i].filename = xml[k].filename => i = k
  /\ done \subseteq DOMAIN xml
  /\ round \in 0..MAXIMUM_INCLUDE_FILE_NESTING
  /\ pc \in {"arguments", "expand", "check", "update", "generate", "generated", "failed"}

Init ==
  /\ \E c \in Commands: opts = c.opts /\ args = c.args
  /\ xml = <<>> /\ all_files = {} /\ done = {} /\ round = 0 /\ pc = "arguments"

Fail == pc' = "failed" /\ UNCHANGED <<opts, args, xml, all_files, done, round>>

-----------------------------------------------------------------------------
(* One argument: only a spelling already seen is skipped. *)
ReadArgument ==
  /\ pc = "arguments" /\ args # <<>>
  /\ args' = Tail(args)
  /\ LET fname == Head(args) IN
       IF fname \in all_files THEN UNCHANGED <<xml, all_files, pc>>
       ELSE /\ all_files' = all_files \cup {fname}
            /\ IF Refused(fname) \/ Parsed(fname).failed THEN pc' = "failed" /\ UNCHANGED xml
               ELSE xml' = Append(xml, Parsed(fname)) /\ UNCHANGED pc
  /\ UNCHANGED <<opts, done, round>>

ArgumentsRead ==
  /\ pc = "arguments" /\ args = <<>>
  /\ pc' = "expand"
  /\ UNCHANGED <<opts, args, xml, all_files, done, round>>

(* expand_oneiteration: the includes of the files there were at its start. *)
Wanted ==
  FlattenSeq([i \in DOMAIN xml |-> [k \in DOMAIN xml[i].include |-> <<xml[i].include[k], TRUE>>]])
NewFiles ==
  SelectSeq(FoldLeft(LAMBDA s, f: IF f \in ToSet(s) THEN s ELSE Append(s, f), <<>>, Wanted),
                      LAMBDA f: f \notin all_files)
expand_oneiteration ==
  /\ pc = "expand" /\ round < MAXIMUM_INCLUDE_FILE_NESTING
  /\ IF \E f \in ToSet(NewFiles): Refused(f) \/ Parsed(f).failed THEN Fail
     ELSE /\ xml' = xml \o [i \in DOMAIN NewFiles |-> Parsed(NewFiles[i])]
          /\ all_files' = all_files \cup ToSet(NewFiles)
          /\ round' = round + 1
          /\ pc' = IF NewFiles = <<>> THEN "check" ELSE pc
          /\ UNCHANGED <<opts, args, done>>

(* The nesting is used up: what is still missing is not read. *)
NestingUsedUp(next) ==
  /\ round = MAXIMUM_INCLUDE_FILE_NESTING
  /\ pc' = next
  /\ UNCHANGED <<opts, args, xml, all_files, done, round>>
ExpandedEnough == pc = "expand" /\ NestingUsedUp("check")

(* The enums are merged in place, then the checks look at the result. *)
Check ==
  /\ pc = "check"
  /\ LET merged == merge_enums(xml) IN
       IF check_duplicates(merged) \/ (opts.validate /\ check_missing_enum(merged))
       THEN Fail
       ELSE LET bases == {i \in DOMAIN xml: xml[i].include = <<>>} IN
            /\ xml' = merged
            /\ done' = bases
            /\ round' = 0
            /\ pc' = IF bases = {} THEN "failed" ELSE "update"
            /\ UNCHANGED <<opts, args, all_files>>

(* update_oneiteration: in the order of xml, a file whose includes are all   *)
(* done takes over their tables and is done itself.                          *)
IndexOf(xs, fname) == CHOOSE i \in DOMAIN xs: xs[i].filename = fname /\
    \A k \in 1..(i - 1): xs[k].filename # fname
WithIncludes(xs, i) ==
  LET take(x, d) == LET ix == xs[IndexOf(xs, <<d, TRUE>>)] IN
        [x EXCEPT !.tables = ix.tables @@ @,
         !.largest_payload = IF ix.largest_payload > @ THEN ix.largest_payload ELSE @]
  IN FoldLeft(take, xs[i], xs[i].include)
Updated ==
  LET one(a, i) ==
        IF i \in a.done \/ ~(Included(a.xml[i]) \subseteq {a.xml[k].filename : k \in a.done}) THEN a
        ELSE [done |-> a.done \cup {i}, xml |-> [a.xml EXCEPT ![i] = WithIncludes(a.xml, i)]]
  IN FoldLeft(one, [done |-> done, xml |-> xml], [i \in DOMAIN xml |-> i])
update_oneiteration ==
  /\ pc = "update" /\ round < MAXIMUM_INCLUDE_FILE_NESTING
  /\ xml' = Updated.xml /\ done' = Updated.done
  /\ round' = round + 1
  /\ pc' = CASE Updated.done = DOMAIN xml -> "generate"
             [] Updated.done # DOMAIN xml /\ Updated.done = done -> "failed"
             [] OTHER -> pc
  /\ UNCHANGED <<opts, args, all_files>>
UpdatedEnough == pc = "update" /\ NestingUsedUp("generate")

(* The generator of the language: some refuse a protocol or a definition. *)
Raises ==
  CASE opts.language = "ada"        -> ada_fails(xml)
    [] opts.language = "c++11"      -> cpp_fails(xml)
    [] opts.language = "cs"         -> cs_fails(xml)
    [] opts.language = "swift"      -> swift_fails(xml)
    [] opts.language = "typescript" -> ts_fails(xml)
    [] OTHER                        -> FALSE
Generate ==
  /\ pc = "generate"
  /\ pc' = IF Raises THEN "failed" ELSE "generated"
  /\ UNCHANGED <<opts, args, xml, all_files, done, round>>

Next == ReadArgument \/ ArgumentsRead \/
    expand_oneiteration \/ ExpandedEnough \/ Check \/ update_oneiteration
        \/ UpdatedEnough \/ Generate
Spec == Init /\ [][Next]_vars

-----------------------------------------------------------------------------
Generated == pc = "generated"
(* What a file includes, directly or not, of the files that were read. *)
Below(x) ==
  LET step[n \in 0..Len(xml)] ==
        IF n = 0 THEN {x.filename}
        ELSE step[n - 1] \cup UNION {Included(xml[i]) :
            i \in {k \in DOMAIN xml: xml[k].filename \in step[n - 1]}}
  IN step[Len(xml)]

(* The tables of a completed file know every message of every file below it, *)
(* with the checksum the file that defines it gives: a parser built from it  *)
(* accepts the messages of all (update_includes).  A file is left incomplete *)
(* only when the rounds are used up.                                         *)
TablesComplete ==
  /\ Generated /\ done # DOMAIN xml => round = MAXIMUM_INCLUDE_FILE_NESTING
  /\ Generated => \A i \in done: \A k \in DOMAIN xml: xml[k].filename \in Below(xml[i]) =>
       \A m \in ToSet(xml[k].message): m.id \in DOMAIN xml[i].tables /\
           xml[i].tables[m.id].crc = m.crc_extra

(* However the enums of several files were merged, a value given in the XML  *)
(* is never changed, and in one enum no two entries share a value            *)
(* (merge_enums, check_duplicates).                                          *)
EnumsSound ==
  Generated => \A e \in ToSet(Enums(xml)): \A i \in DOMAIN e.entry:
    /\ \A k \in DOMAIN e.entry: e.entry[i].value = e.entry[k].value => i = k
    /\ ~e.entry[i].autovalue /\ ~e.entry[i].end_marker =>
         \E x \in DOMAIN Documents: \E el \in ToSet(Documents[x]):
           el.tag = "entry" /\ el.name = e.entry[i].name /\
               Attr(el, "value", None) = e.entry[i].value

(* The tables of the languages describe one dialect.  Every message below the *)
(* first file is once in C's array, which a parser searches by halves and so *)
(* must rise, and once in TypeScript's and Spin2's; Objective-C finds its     *)
(* class by the eight bits it keeps of an id MAVLink 1 can carry;            *)
(* TypeScript marks the extensions and no other field; an enum that its      *)
(* fields give one type has it in every language, and one declared a set of   *)
(* bits keeps the same bits in Ada and the dissector.                        *)
Once(s, v) == Cardinality({i \in DOMAIN s: s[i] = v}) = 1
MessageTablesAgree(m) ==
  /\ Once(message_info_array(xml[1]), m.name) /\ Once(spin_ids(xml), m.id)
  /\ Once(messageRegistry(xml), [id |-> m.id, class |-> m.name, crc_extra |-> m.crc_extra])
  /\ ~xml[1].protocol.command_24bit => message_lengths_array(xml[1])[m.id + 1] = m.wire_min_length
  /\ m.id <= 255 => objc_class(xml, [id |-> objc_messageId(m)]) = m.name
  /\ Total([i \in DOMAIN stable_format(m) |->
       stable_format(m)[i].count * stable_format(m)[i].size]) = m.wire_length
  /\ LET marked == SelectSeq(message_fields(m), LAMBDA f: f.extension)
     IN [i \in DOMAIN marked |-> marked[i].name] = [i \in DOMAIN Extended(m) |->
         Extended(m)[i].name]
EnumTypesAgree(e) ==
  /\ \A t \in DOMAIN lengths: {f.type :
       f \in {g \in UNION {ToSet(m.fields) : m \in ToSet(Messages(xml))}: g.enum = e.name}} = {t} =>
       enumtypes(xml, e.name) = t /\ get_enum_raw_type(xml, e.name) = t /\
           types_size(xml, e.name) = {lengths[t]}
  /\ e.bitmask => repr_bitmask(e) = flags(e) /\ ToSet(flags(e)) \subseteq ToSet(repr_enum(e))
TablesAgree ==
  Generated /\ done = DOMAIN xml =>
    /\ \A x \in {y \in ToSet(xml): y.filename \in Below(xml[1])}:
         \A m \in ToSet(x.message): MessageTablesAgree(m)
    /\ LET ids == [i \in DOMAIN message_crcs_array(xml[1]) |-> message_crcs_array(xml[1])[i].id]
       IN \A i \in 2..Len(ids): ids[i - 1] < ids[i]
    /\ \A e \in ToSet(Enums(xml)): EnumTypesAgree(e)

(* What the code of a language can carry: the protocols it frames, and the   *)
(* messages its tables describe in full.                                     *)
Speaks(l) ==
  CASE l \in {"python", "c", "objc"} -> {"0.9", "1.0", "2.0"}
    [] l = "c++11"                   -> {"2.0"}
    [] l \in {"ada", "swift"}        -> {"1.0"}
    [] l = "spin2"                   -> {"2.0"}
    [] OTHER                         -> {"1.0", "2.0"}
Carries(l, m) ==
  CASE l \in {"javascript", "javascript_nextgen"} -> js_plain(m)
    [] l = "python"                  -> opts.wire_protocol = "0.9"
        => \A f \in ToSet(m.fields): Items(mavfmt(f)) = 1
    [] l = "spin2"                   -> spin_plain(m)
    [] l = "swift"                   -> \A f \in ToSet(m.fields):
        SwiftElements(f) = Elements(f) /\ SwiftWidth(xml, f) = f.type_length
    [] OTHER                         -> TRUE
Writers == {"python", "c", "c++11", "objc",
            "cs", "ada", "swift", "java", "javascript", "javascript_nextgen", "lua", "spin2"}
Write(w, m, value) ==
  CASE w = "python" -> _pack(m, value, xml[1].protocol, FALSE)
    [] w = "c"      -> mavlink_msg_pack(xml[1], m, value)
    [] w = "c++11"  -> serialize(m, value)
    [] w = "objc"   -> objc_data(xml[1], m, value)
    [] w = "cs"     -> cs_generate(xml, m, value)
    [] w = "ada"    -> ada_encode(xml, m, value)
    [] w = "swift"  -> swift_pack(xml, m, value)
    [] w = "java"   -> java_pack(xml, m, value)
    [] w = "lua"    -> lua_encode(xml, m, value)
    [] w = "spin2"  -> spin_pack(xml, m, value)
    [] w = "javascript" -> stable_pack(xml, m, value)
    [] OTHER        -> js_pack(xml, m, value)
Readers == (Writers \ {"spin2"}) \cup {"wlua"}
Read(r, m, frame) ==
  CASE r = "python" -> python_decode(mavlink_map(xml), m, frame, xml[1].protocol)
    [] r = "c"      -> mavlink_msg_decode(xml[1], m, frame)
    [] r = "c++11"  -> deserialize(xml[1], m, frame)
    [] r = "objc"   -> objc_get(xml, xml[1], m, frame)
    [] r = "cs"     -> cs_read(xml, m, frame)
    [] r = "ada"    -> ada_decode(xml, m, frame)
    [] r = "swift"  -> swift_init(xml, m, frame)
    [] r = "java"   -> java_unpack(xml, m, frame)
    [] r = "lua"    -> lua_decode(xml, m, frame)
    [] r = "wlua"   -> wlua_payload(xml, m, frame)
    [] r = "javascript" -> stable_decode(xml, m, frame)
    [] OTHER        -> js_decode(xml, m, frame)
Meant(r, m, value) ==
  CASE r = "lua"    -> lua_value(m, value)
    [] r = "python" -> [n \in DOMAIN value |-> Terminated(FieldNamed(m, n), value[n])]
    [] OTHER        -> value

(* What any generated code writes, the generated code of every language that *)
(* speaks the protocol reads as it was meant, for every message of the first *)
(* file and the files below it, and whichever fields are zero: byte order,   *)
(* field order, padding, trimming and checksum are the same in twelve        *)
(* generators.                                                               *)
ReadsWhatWasWritten ==
  Generated /\ done = DOMAIN xml /\ opts.language \in Readers /\
      opts.wire_protocol \in Speaks(opts.language) =>
    \A x \in {y \in ToSet(xml): y.filename \in Below(xml[1])}:
        \A m \in ToSet(x.message): \A w \in {l \in Writers: opts.wire_protocol \in Speaks(l)}:
      Carries(opts.language, m) /\ Carries(w, m) =>
        \A value \in Values(m): Read(opts.language, m,
                                     Write(w, m, value)) = Decoded(Meant(opts.language, m, value))
=============================================================================
