--------------------------------- MODULE MavWp ---------------------------------
(* The mission lists of pymavlink (mavwp.py, MissionItemProtocol and the       *)
(* classes derived from it): items kept in order, each with its own index,     *)
(* edited, drawn as views, saved to files and loaded from them.                *)
EXTENDS Integers, SequencesExt

CONSTANTS
    Items,          \* class -> the items the callers give
    Lists,          \* the lists of items given at once
    MissionFiles,   \* the files load is given
    HaveProtobuf,   \* whether protobuf and mission_pb2 are installed
    MaxItems        \* bound of the checked instance

VARIABLES
    Class,          \* the object's class: "mission", "fence" or "rally"
    wpoints,        \* the list of the same name, items as records of their fields
    raised,         \* whether the last call raised an error
    unindexed       \* history: a remove of several items raised between two of them

wpvars == <<Class, wpoints, raised, unindexed>>

(* the first lines of the file formats *)
Wpl100 == "QGC WPL 100"
Wpl110 == "QGC WPL 110"
WplPb110 == "QGC WPL PB 110"
NoText == ""
NoFile == [version |-> NoText, lines |-> <<>>, defaults |-> <<>>, parses |-> TRUE]
Count(ps) == Len(ps)

reindex(ps) == [i \in 1 .. Len(ps) |-> [ps[i] EXCEPT !.seq = i - 1]]
add(ps, w) == Append(ps, [w EXCEPT !.seq = Len(ps)])
add_list(ps, ws) == ps \o [i \in 1 .. Len(ws) |-> [ws[i] EXCEPT !.seq = Len(ps) + i - 1]]
InsertedOnly(ps, idx, w) ==
    IF idx >= Len(ps) THEN add(ps, w) ELSE IF idx < 0 THEN ps
                                           ELSE InsertAt(ps, idx + 1, [w EXCEPT !.seq = idx])
insert(ps, idx, w) ==
    IF idx >= Len(ps) THEN add(ps, w)
    ELSE IF idx < 0 THEN ps ELSE reindex(InsertAt(ps, idx + 1, w))
set(ps, idx, w) ==
    IF idx = Len(ps) THEN add(ps, w) ELSE [ps EXCEPT ![idx + 1] = [w EXCEPT !.seq = idx]]

(* list.remove takes the first item with equal fields; the comment is none of them *)
Same(v, w) == [v EXCEPT !.comment = NoText] = [w EXCEPT !.comment = NoText]
Has(ps, w) == \E i \in DOMAIN ps : Same(ps[i], w)
Removed(ps, w) ==
  RemoveAt(ps, CHOOSE i \in DOMAIN ps : Same(ps[i], w) /\ \A j \in 1 .. i - 1 : ~Same(ps[j], w))

-------------------------------------------------------------------------------
(* Files.  A line is [kind, text, item]: a comment, blank, an item, or one with   *)
(* a wrong number of columns or a column that is no number.                       *)

(* a comment line is read with its end of line *)
Ended(text) == IF text = NoText THEN NoText ELSE text \o "\n"
CmdMap == [command \in {"2", "3", "4", "24", "25", "26", "27"} |->
    CASE command \in {"2", "24"} -> "NAV_TAKEOFF" [] command = "3" -> "NAV_RETURN_TO_LAUNCH"
      [] command \in {"4", "26"} -> "NAV_LAND" [] command = "25" -> "NAV_WAYPOINT"
      [] command = "27" -> "NAV_LOITER_UNLIM"]

Home(ps, w) == ps = <<>> /\ w.command = "0" /\ w.seq = 0      \* a home as Mission Planner writes it
Item110(ps, w) == IF Home(ps, w) THEN [w EXCEPT !.command = "NAV_WAYPOINT"] ELSE w
Item100(ps, w) == [w EXCEPT !.command = CmdMap[w.command]]
Readable(version, line) == line.kind = "item" /\
    (version = Wpl100 => line.item.command \in DOMAIN CmdMap)

ReadLine(version, r, line) ==
    CASE r.raised \/ line.kind = "blank" -> r
      [] ~r.raised /\ line.kind = "comment" -> [r EXCEPT !.comment = Ended(line.text)]
      [] ~r.raised /\ Readable(version, line) ->
            [points |-> add(r.points,
                            [(IF version = Wpl100 THEN Item100(r.points, line.item)
                              ELSE Item110(r.points, line.item))
                                       EXCEPT !.comment = r.comment, !.int = FALSE]),
             comment |-> NoText, raised |-> FALSE]
      [] OTHER -> [r EXCEPT !.raised = TRUE]
_read_waypoints(version, lines) ==
    FoldLeft(LAMBDA r, line : ReadLine(version, r, line),
             [points |-> <<>>, comment |-> NoText, raised |-> FALSE], lines)

(* a field of the file that is zero or false gets the default, whether it was written or not *)
PbItem(seq, w, defaults) ==
    [w EXCEPT !.current = @ \/ (seq = 0 \/ defaults.current),
              !.autocontinue = @ \/ defaults.autocontinue,
              !.param1 = IF @ # 0 THEN @ ELSE defaults.param1,
              !.comment = NoText, !.int = FALSE]
_read_waypoints_pb_110(file) ==
    IF ~HaveProtobuf \/ ~file.parses THEN [points |-> <<>>, comment |-> NoText, raised |-> TRUE]
    ELSE [points |-> [i \in DOMAIN file.lines |->
        [PbItem(i - 1, file.lines[i].item, file.defaults) EXCEPT !.seq = i - 1]],
          comment |-> NoText, raised |-> FALSE]

Versions == {Wpl110, WplPb110} \union IF Class = "mission" THEN {Wpl100}
                                                     ELSE {}
ReadFile(file) == IF file.version = WplPb110 THEN _read_waypoints_pb_110(file)
                  ELSE _read_waypoints(file.version, file.lines)

(* FENCE_POINT and RALLY files are read whole before the list is touched *)
OldFence(file) == Class = "fence" /\ file.version = "points"
OldRally(file) == Class = "rally" /\ file.version = "RALLY"
Damaged(file) == \E i \in DOMAIN file.lines : file.lines[i].kind = "bad"
AddLine(lines, line) == IF line.kind = "item" THEN Append(lines, line) ELSE lines
PointsOf(file) == FoldLeft(AddLine, <<>>, file.lines)
VerticesAll(points) == [i \in 1 .. Len(points) - 1 |->
    [points[i + 1].item EXCEPT !.command = "FENCE_VERTEX",
     !.param1 = Len(points) - 1, !.z = 0, !.int = TRUE]]
Vertices(points) == [i \in 1 .. Len(points) - 2 |->
    [points[i + 1].item EXCEPT !.command = "FENCE_VERTEX",
     !.param1 = Len(points) - 2, !.z = 0, !.int = TRUE]]
FenceItems(points) == <<[points[1].item EXCEPT !.command = "FENCE_RETURN_POINT",
                         !.param1 = 0, !.z = 0, !.int = TRUE]>> \o Vertices(points)
(* the altitude of the file is multiplied by 1000 *)
RallyItems(points) == [i \in DOMAIN points |->
    [points[i].item EXCEPT !.command = "RALLY_POINT", !.z = 1000 * @, !.int = TRUE]]

load_old(ps, file) ==
    CASE Damaged(file) -> [points |-> ps, raised |-> TRUE, cleared |-> FALSE]
      [] ~Damaged(file) /\ OldFence(file) ->
            IF Len(PointsOf(file)) < 5 THEN [points |-> ps, raised |-> FALSE, cleared |-> FALSE]
            ELSE [points |-> add_list(<<>>, FenceItems(PointsOf(file))),
                  raised |-> FALSE, cleared |-> TRUE]
      [] OTHER -> [points |-> add_list(<<>>, RallyItems(PointsOf(file))),
                   raised |-> FALSE, cleared |-> TRUE]

load_items(ps, file) ==
    IF OldFence(file) \/ OldRally(file) THEN load_old(ps, file)
    ELSE IF file.version \notin Versions THEN [points |-> ps, raised |-> TRUE, cleared |-> FALSE]
    ELSE LET r == ReadFile(file) IN [points |-> r.points, raised |-> r.raised, cleared |-> TRUE]

CommentLines(w) == IF w.comment = NoText THEN <<>> ELSE IF w.comment = Ended("note") THEN
        <<[kind |-> "comment", text |-> "note", item |-> <<>>],
          [kind |-> "blank", text |-> NoText, item |-> <<>>]>>
    ELSE <<[kind |-> "comment", text |-> w.comment, item |-> <<>>]>>
ItemLine(w) == <<[kind |-> "item", text |-> NoText, item |-> [w EXCEPT !.comment = NoText]]>>
save(ps) ==
    [NoFile EXCEPT !.version = Wpl110,
                   !.lines = FoldLeft(LAMBDA ls, w : ls
                       \o CommentLines(w) \o ItemLine(w), <<>>, ps)]
save_as_pb(ps) ==
    [version |-> WplPb110, lines |-> [i \in DOMAIN ps |-> ItemLine(ps[i])[1]],
     parses |-> TRUE,
     defaults |-> [current |-> FALSE, autocontinue |-> TRUE, param1 |-> 0]]
-------------------------------------------------------------------------------
(* Views: the lists of items a map connects.                                    *)

Starts == {"DO_LAND_START", "DO_RETURN_PATH_START"}
Landings == {"NAV_LAND", "NAV_VTOL_LAND"}
NotLocations == {"0", "DO_JUMP", "DO_SET_MODE"}      \* commands whose table entry has no location
is_location_wp(w) == w.command # "DO_LAND_START" /\
    w.located /\ (Class = "mission" => w.command \notin NotLocations)
Shown(ps, v, idx) == IF is_location_wp(ps[idx + 1]) THEN Append(v.ret, idx) ELSE v.ret

(* wp(idx) is None past the end, and is_location_wp then fails *)
Jump(ps, v, to) ==
    IF to >= Len(ps) THEN [v EXCEPT !.failed = TRUE]
    ELSE [v EXCEPT !.idx = to, !.ret = Shown(ps, v, to)]
ViewItem(ps, v, w) ==
    CASE w.command \in Starts /\ v.ret # <<>> -> [v EXCEPT !.idx = @ + 1]
      [] w.command \in Starts /\ v.ret = <<>> ->
          [v EXCEPT !.idx = @ + 1, !.ret = <<v.idx>>, !.done = @ \union {v.idx}]
      [] w.command = "DO_JUMP" -> Jump(ps, [v EXCEPT !.done = @ \union {v.idx}], w.param1)
      [] OTHER -> [v EXCEPT !.idx = IF w.command \in Landings THEN Len(ps) ELSE @ + 1,
                            !.ret = Shown(ps, v, v.idx), !.done = @ \union {v.idx}]
ViewStep(ps, v) ==
    CASE v.failed \/ v.idx >= Len(ps) -> v
      [] ~v.failed /\ v.idx < Len(ps) /\
          v.idx \in v.done -> [v EXCEPT !.idx = Len(ps), !.ret = Shown(ps, v, v.idx)]
      [] OTHER -> ViewItem(ps, v, ps[v.idx + 1])

(* no pass of the loop but one over a start that is skipped leaves `done` alone *)
Passes(ps) == (Len(ps) + 1) * (Len(ps) + 1)
FirstOpen(ps, done) == CHOOSE i \in 0 .. Len(ps) : i \notin done /\ \A j \in 0 .. i - 1 : j \in done
view_indexes(ps, done) ==
    LET v[n \in 0 .. Passes(ps)] ==
            IF n = 0 THEN [idx |-> FirstOpen(ps, done), ret |-> <<>>,
                           done |-> done, failed |-> FALSE] ELSE ViewStep(ps, v[n - 1])
    IN  v[Passes(ps)]
NextView(ps, r) ==
    IF r.failed \/ Cardinality(r.done) = Len(ps) THEN r
    ELSE LET v == view_indexes(ps, r.done)
         IN  [views |-> IF v.ret = <<>> THEN r.views ELSE Append(r.views, v.ret),
              done |-> v.done, failed |-> v.failed]
view_list(ps) ==
    LET l[n \in 0 .. Len(ps)] == IF n = 0 THEN [views |-> <<>>, done |-> {}, failed |-> FALSE]
                                 ELSE NextView(ps, l[n - 1])
    IN  l[Len(ps)]
-------------------------------------------------------------------------------
(* tools/mavmission.py: the mission of a log, from its items and CMD messages     *)
(* (with `total`, CTot, -1 for a mission item)                                    *)

(* the while loop writes m.seq: one dummy is added, and the item takes its place *)
ExtractSet(ps, m) == IF m.item.seq > Len(ps) THEN set(add(ps, m.item), Len(ps), m.item)
                     ELSE set(ps, m.item.seq, m.item)
Extract(log) ==
    LET kept == SelectSeq(log, LAMBDA m : ~m.guided)
        list == FoldLeft(ExtractSet, <<>>, kept)
        totals == SelectSeq(log, LAMBDA m : m.total >= 0)
        keep == IF totals = <<>> THEN Len(list) ELSE Last(totals).total
    IN  SubSeq(list, 1, IF keep < Len(list) THEN keep ELSE Len(list))
-------------------------------------------------------------------------------

WpInit == Class \in {"mission", "fence", "rally"} /\
    wpoints = <<>> /\ raised = FALSE /\ unindexed = FALSE
Room(n) == Len(wpoints) + n <= MaxItems

AddItem == \E w \in Items[Class] : Room(1) /\
    wpoints' = add(wpoints, w) /\ raised' = FALSE /\ UNCHANGED unindexed
AddItems == \E ws \in Lists : Room(Len(ws)) /\
    wpoints' = add_list(wpoints, ws) /\ raised' = FALSE /\ UNCHANGED unindexed
InsertItem ==
    \E w \in Items[Class], idx \in -1 .. MaxItems :
        /\ Room(1)
        /\ wpoints' = insert(wpoints, idx, w)
        /\ raised' = FALSE
        /\ unindexed' = (unindexed /\ (idx < 0 \/ idx >= Len(wpoints)))
SetItem ==
    \E w \in Items[Class], idx \in 0 .. MaxItems :
        /\ idx = Len(wpoints) => Room(1)
        /\ wpoints' = IF idx > Len(wpoints) THEN wpoints ELSE set(wpoints, idx, w)
        /\ raised' = (idx > Len(wpoints))
        /\ UNCHANGED unindexed
RemoveItem ==
    \E w \in ToSet(wpoints) \union Items[Class] :
        /\ raised' = ~Has(wpoints, w)
        /\ wpoints' = IF Has(wpoints, w) THEN reindex(Removed(wpoints, w)) ELSE wpoints
        /\ unindexed' = (unindexed /\ ~Has(wpoints, w))
(* a list of two: when the second is not there the first is gone and no index is set *)
RemoveItems ==
    \E v, w \in ToSet(wpoints) \union Items[Class] :
        /\ Has(wpoints, v)
        /\ raised' = ~Has(Removed(wpoints, v), w)
        /\ wpoints' = IF raised' THEN Removed(wpoints, v)
                      ELSE reindex(Removed(Removed(wpoints, v), w))
        /\ unindexed' = raised'
ClearItems == wpoints' = <<>> /\ raised' = FALSE /\ unindexed' = FALSE
Load ==
    \E file \in MissionFiles :
        LET r == load_items(wpoints, file)
        IN  /\ wpoints' = r.points
            /\ raised' = r.raised
            /\ unindexed' = (unindexed /\ ~r.cleared)

WpNext ==
    /\ UNCHANGED Class
    /\ AddItem \/ AddItems \/ InsertItem \/ SetItem \/ RemoveItem \/ RemoveItems \/ ClearItems \/ Load
WpSpec == WpInit /\ [][WpNext]_wpvars
-------------------------------------------------------------------------------

(* What callers and files give: items with all their fields; a jump has no        *)
(* coordinates and no negative target.                                            *)
Item ==
    {w \in [seq : Int, x : Int, command : STRING, param1 : Nat, located : BOOLEAN, z : Int,
            int : BOOLEAN, current : BOOLEAN, autocontinue : BOOLEAN, comment : STRING] :
        w.command = "DO_JUMP" => ~w.located}
WpAssumption ==
    /\ MaxItems \in Nat
    /\ \A class \in {"mission", "fence", "rally"} : Items[class] \subseteq Item
    /\ Lists \subseteq Seq(Item)
    /\ \A file \in MissionFiles :
         /\ Len(file.lines) \in Nat /\ DOMAIN file.lines = 1 .. Len(file.lines)
         /\ \A i \in DOMAIN file.lines :
              /\ file.lines[i].text \in STRING
              /\ file.lines[i].kind = "item" \/ file.version = WplPb110
                   => file.lines[i].item \in Item
         /\ file.defaults \in [current : BOOLEAN, autocontinue : BOOLEAN, param1 : Nat]

Legal(ps) == \A i \in DOMAIN ps : ps[i].command = "DO_JUMP" => ps[i].param1 < Len(ps)
ShownIn(views, idx) == \E i \in DOMAIN views : idx \in ToSet(views[i])
LegIn(views, idx) == \E i \in DOMAIN views :
    \E k \in 1 .. Len(views[i]) - 1 : views[i][k] = idx /\ views[i][k + 1] = idx + 1
Leg(ps, i) ==
    /\ is_location_wp(ps[i]) /\ is_location_wp(ps[i + 1])
    /\ ps[i].command \notin Landings /\ ps[i + 1].command \notin Starts
Drawn(ps, r) ==
    /\ ~r.failed /\ r.done = 0 .. Len(ps) - 1
    /\ \A i \in DOMAIN ps : is_location_wp(ps[i]) => ShownIn(r.views, i - 1)
    /\ \A i \in 1 .. Len(ps) - 1 : Leg(ps, i) => LegIn(r.views, i - 1)
    /\ \A i \in DOMAIN r.views : \A k \in 2 .. Len(r.views[i]) :
         ps[r.views[i][k] + 1].command # "DO_LAND_START"
(* Every item knows its own place, whatever was added, inserted, removed, set or  *)
(* loaded, unless a removal of several items raised half-way; and the views of a  *)
(* mission whose jumps stay in it come to an end, show every location, draw the   *)
(* leg between any two that follow each other, and lead to no landing start       *)
(* (reindex; view_indexes, view_list).                                            *)
ListsSound ==
    /\ ~unindexed => \A i \in DOMAIN wpoints : wpoints[i].seq = i - 1
    /\ Legal(wpoints) => Drawn(wpoints, view_list(wpoints))
===============================================================================
