-------------------------------- MODULE MCGen --------------------------------
(* Dialects for MavGen: a small one on three levels, the ways in which a set *)
(* of definitions can be wrong, and the calls of the generator.              *)
EXTENDS TLC

Include(d) == [tag |-> "include", data |-> d]
Message(n, id) == [tag |-> "message", name |-> n, id |-> id]
Field(n, t) == [tag |-> "field", name |-> n, type |-> t]
Array(n, t, len) == [tag |-> "field", name |-> n, type |-> t, len |-> len]
EnumField(n, t, e) == [tag |-> "field", name |-> n, type |-> t, enum |-> e]
Extensions == [tag |-> "extensions"]
Enum(n) == [tag |-> "enum", name |-> n]
Entry(n, v) == [tag |-> "entry", name |-> n, value |-> v]
AutoEntry(n) == [tag |-> "entry", name |-> n]
Param(i) == [tag |-> "param", index |-> i]

Base == << [tag |-> "version", data |-> 3],
  Enum("KIND"), Entry("ONE", 1), AutoEntry("NEXT"),
  Enum("FLAGS") @@ [bitmask |-> TRUE], Entry("BIT0", 1), Entry("BIT1", 2),
  Enum("MAV_CMD"), Entry("GO", 16), Param(1), Param(3),
  Message("BEAT", 0), EnumField("kind", "uint8_t", "KIND"),
      Field("mode", "uint32_t"), Field("v", "uint8_t_mavlink_version"),
  Message("LIST", 1), Field("target_system", "uint8_t"),
      Array("speed", "int16_t", 2), Array("text", "char", 2),
  Extensions, Field("wide", "uint32_t") >>
Middle == << Include("base"),
  Enum("KIND"), AutoEntry("MORE"),
  Message("LONG", 2), Field("time", "uint64_t") @@ [instance |-> TRUE],
      EnumField("flags", "uint16_t", "FLAGS"),
  Message("FAR", 300), Field("x", "float"), Array("raw", "uint8_t", 2) >>
Top == << Include("middle"), Include("base"),
          Message("OWN", 4), Field("target_component", "uint8_t"), Field("y", "double") >>

MCDocuments ==
  [base |-> Base, middle |-> Middle, top |-> Top,
   clash |-> <<Include("base"), Message("OTHER", 1), Field("f", "uint8_t")>>,
   same |-> <<Include("base"), Enum("KIND"), Entry("DUP", 1)>>,
   missing |-> <<Message("M", 5), EnumField("f", "uint8_t", "NOWHERE")>>,
   wide |-> <<Enum("BIG"), Entry("HUGE", 300), Message("M", 5), EnumField("f", "uint8_t", "BIG")>>,
   float |-> <<Enum("REAL"), Entry("R", 1), Message("M", 5),
               EnumField("f", "float", "REAL"), EnumField("g", "uint8_t", "REAL")>>,
   letter |-> <<Message("M", 5), Field("c", "char")>>,
   unknown |-> <<Message("M", 5), Field("f", "complex")>>,
   nameless |-> <<[tag |-> "message", id |-> 9]>>,
   egg |-> <<Include("hen")>>, hen |-> <<Include("egg")>>,
   odd |-> <<Include("base"), Include("egg")>>,
   zero |-> <<Include("one"), Message("Z", 10), Field("f", "uint8_t")>>,
   one |-> <<Include("two"), Message("A", 11), Field("f", "uint8_t")>>,
   two |-> <<Include("three"), Message("B", 12), Field("f", "uint8_t")>>,
   three |-> <<Include("four"), Message("C", 13), Field("f", "uint8_t")>>,
   four |-> <<Message("D", 14), Field("f", "uint8_t")>>,
   badtop |-> <<Include("unknown")>>]
MCInvalid == {"nameless"}
Path(d) == <<d, TRUE>>
Call(l, v, checked, given) ==
  [opts |-> [wire_protocol |-> v, validate |-> checked, language |-> l], args |-> given]
MCLanguages == {"python", "c", "c++11", "objc",
                "cs", "ada", "swift", "java", "javascript", "javascript_nextgen",
                "typescript", "lua", "wlua", "spin2"}
(* Every language and protocol on the dialect, every document in two languages. *)
MCCommands ==
  {Call(l, v, TRUE, <<Path("top")>>) : l \in MCLanguages, v \in {"0.9", "1.0", "2.0"}}
  \cup {Call("python", "2.0", b, <<Path(d)>>) : b \in BOOLEAN, d \in DOMAIN MCDocuments}
  \cup {Call(l[1], l[2], TRUE, <<Path(d)>>) : l \in {<<"ada", "1.0">>,
      <<"c++11", "2.0">>, <<"swift", "1.0">>}, d \in {"wide", "float", "letter"}}
  \cup {Call("c", "2.0", TRUE, a) : a \in {<<Path("top"), Path("top")>>,
      <<Path("middle"), Path("base")>>, <<Path("middle"), Path("top")>>,
                                                   <<Path("zero"), Path("one"), Path("two")>>,
                                                       <<<<"base", FALSE>>, Path("middle")>>}}
=============================================================================
