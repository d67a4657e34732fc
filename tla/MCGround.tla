-------------------------------- MODULE MCGround --------------------------------
(* Mission, fence and rally lists of up to four items, rally and fence points,  *)
(* missions taken from logs, and parameters set over a link that loses and      *)
(* reorders messages.                                                           *)
EXTENDS MavWp, MavPoints, MavParm, MavrosClient, MavFtp

CONSTANT FrameTable
VARIABLES part, log
listvars == <<wpvars, pointvars, parmvars>>
vars == <<part, log, listvars, ftpvars, clientvars>>
X == INSTANCE MavrosFiles

Wpt(command, param1, located) ==
    [seq |-> 0, x |-> 0, command |-> command,
     param1 |-> param1, located |-> located, z |-> 1, int |-> FALSE, current |-> FALSE,
     autocontinue |-> TRUE, comment |-> ""]
MissionItems == {Wpt("NAV_WAYPOINT", 0, TRUE),
                 Wpt("DO_LAND_START", 0, TRUE), Wpt("DO_RETURN_PATH_START", 0, TRUE),
            Wpt("NAV_LAND", 0, TRUE), Wpt("DO_JUMP", 0, FALSE), Wpt("DO_JUMP", 2, FALSE),
            [Wpt("DO_SET_MODE", 1, FALSE) EXCEPT !.comment = "note", !.autocontinue = FALSE]}
MCItems == [mission |-> MissionItems, fence |-> {Wpt("FENCE_VERTEX", 0, TRUE)},
            rally |-> {Wpt("RALLY_POINT", 0, TRUE)}]
ViewItems == MissionItems \union {Wpt("DO_JUMP", 3, FALSE)}
MCLists == {<<Wpt("NAV_WAYPOINT", 0, TRUE), Wpt("NAV_LAND", 0, TRUE)>>}

L(kind, item) == [kind |-> kind, text |-> IF kind = "comment" THEN "note" ELSE "", item |-> item]
F(version, lines) == [version |-> version, lines |-> lines, parses |-> TRUE,
                      defaults |-> [current |-> FALSE, autocontinue |-> TRUE, param1 |-> 3]]
Wp == Wpt("NAV_WAYPOINT", 0, TRUE)
Point(n) == L("item", [Wpt("", n, TRUE) EXCEPT !.z = n, !.x = n])
Square == <<Point(0), L("comment", <<>>), Point(1), Point(2), L("blank", <<>>), Point(3), Point(1)>>
MCMissionFiles ==
    { F("QGC WPL 110", <<L("item", Wpt("0", 0, TRUE)),
                         L("comment", <<>>), L("blank", <<>>), L("item", Wp)>>),
      F("QGC WPL 110", <<L("item", Wp), L("bad", <<>>), L("item", Wp)>>),
      F("QGC WPL 100", <<L("comment", <<>>),
                         L("item", Wpt("25", 0, TRUE)), L("item", Wpt("99", 0, TRUE))>>),
      F("QGC WPL PB 110", <<L("item", Wp), L("item", Wpt("NAV_LAND", 0, TRUE))>>),
      [F("QGC WPL PB 110", <<>>) EXCEPT !.parses = FALSE],
      F("unknown", <<>>), F("points", Square), F("points", SubSeq(Square, 1, 4)),
      F("points", <<Point(0), L("bad", <<>>)>>),
          F("RALLY", Square), F("RALLY", <<Point(0), L("bad", <<>>)>>) }

P(kind, at) ==
  [kind |-> kind, point |-> [idx |-> 0, count |-> 0, at |-> at, alt |-> 0, land_dir |-> 1]]
MCFenceFiles ==
  {[i \in DOMAIN Square |-> P(IF Square[i].kind = "item" THEN "point" ELSE Square[i].kind, i)],
                 <<P("point", 1), P("bad", 1), P("point", 1)>>}
MCRallyFiles == {<<P("other", 1), P("point", 1), P("comment", 1), P("point", 2)>>,
                 <<P("point", 1), P("bad", 1), P("blank", 1)>>}

ParmLine(kind, name, value) == [kind |-> kind, name |-> name, value |-> value]
MCParmFiles == {<<ParmLine("value", "A", 1),
                  ParmLine("other", "", 0), ParmLine("value", "X", 1),
                  ParmLine("value", "B", 1), ParmLine("value", "B", 0)>>,
                <<ParmLine("word", "X", 0),
                  ParmLine("value", "A", 1), ParmLine("word", "B", 0), ParmLine("value", "B", 1)>>}

(* logs: uploads of missions, whole or cut, of items sent as messages or CMD *)
M(seq, command, total) ==
  [item |-> [Wpt(command, 0, TRUE) EXCEPT !.seq = seq], total |-> total, guided |-> FALSE]
Upload(n, command, total) == [i \in 1 .. n |-> M(i - 1, command, total)]
Uploads == {Upload(n, m, t) : n \in 0 .. 3, m \in {"NAV_WAYPOINT", "NAV_LAND"}, t \in {-1}}
           \union UNION {{Upload(n, m, n)} : n \in 1 .. 3, m \in {"NAV_LAND"}}
MCMissionLogs == {u \o <<[M(1, "GUIDED", -1) EXCEPT !.guided = TRUE]>> \o v : u, v \in Uploads}
    \union {<<M(2, "NAV_LAND", -1), M(0, "NAV_WAYPOINT", -1)>>}

MCSize == [f \in {"log"} |-> 7]
MCDirectory == <<"a", "b">>
MCKnown == [n \in {"A", "B"} |-> 1]
MCRemotes == {<<>>, <<4, 4, 4, 4>>}
LoadTask(mission, home, from, to) ==
  [command |-> "wp load", mission |-> mission, home |-> home, from |-> from, to |-> to]
MCTasks ==
    {[command |-> m] : m \in {"get", "wp clear", "wp setcur", "takeoff_cur", "wait_fcu", "checkid"}}
    \union {[command |-> "wp dump", pull |-> TRUE]}
        \union {[command |-> "wp show", pull |-> b] : b \in BOOLEAN}
    \union {[command |-> "call", check |-> t, times |-> IF t = "done" THEN 2 ELSE 1] :
        t \in {"failed", "raised", "done"}}
    \union {[command |-> "dump", force |-> f] : f \in BOOLEAN}
    \union {[command |-> m, values |-> v] : m \in {"set", "load"},
            v \in {("A" :> 1), ("A" :> 2), ("A" :> 1) @@ ("B" :> 2)}}
    \union {LoadTask(m, h, 0, 0) : m \in {<<>>, <<1, 2>>}, h \in BOOLEAN}
        \union {LoadTask(<<1, 2, 3>>, FALSE, f, t) : f \in {1, 2}, t \in {0, 2}}
    \union {[command |-> "mode", named |-> b, mode |-> "auto"] : b \in BOOLEAN}
    \union {[command |-> "download", named |-> b] : b \in BOOLEAN}
    \union {[command |-> "upload", bytes |-> b, overwrite |-> o, verify |-> v] :
        b \in {<<>>, <<1, 2, 3>>}, o \in BOOLEAN, v \in BOOLEAN}
    \union {[command |-> "verify", bytes |-> b] : b \in {<<4, 4, 4, 4>>, <<5>>}}

(* parameters with every kind of value; frames packed and received, of lengths around eight *)
Value(n, float, point) == [n |-> n, float |-> float, point |-> point]
MCParamValues == {Value(1, FALSE, FALSE), Value(1, TRUE, TRUE), Value(2, TRUE, FALSE)}
MCParams == UNION {[names -> MCParamValues] : names \in {{}, {"A"}, {"A", "B"}}}
MCFrameTable == [i \in {0, 300} |-> [size |-> 17, crc_extra |-> i % 250]]
FramePayloads == {[i \in 1 .. n |-> i] : n \in {1, 7, 8, 9, 16, 17}}
    \union {[i \in 1 .. 9 |-> IF i < 4 THEN i ELSE 0]}
MCFrames ==
    {[v20 |-> v20, m |-> X!PackedMessage(X!Frames!_pack([X!Frames!MAVLink(2,
        1, 1) EXCEPT !.seq = 7], IF v20 THEN 300 ELSE 0, payload, ~v20))] :
        v20 \in BOOLEAN, payload \in FramePayloads}
    \union {[v20 |-> FALSE, m |-> X!ReceivedMessage(X!Frames!_pack(X!Frames!MAVLink(1, 1, 1),
        0, payload, TRUE))] : payload \in FramePayloads}

Unused == wpoints = <<>> /\ raised = FALSE /\ unindexed = FALSE
NoPoints == rally_points = <<>> /\ points = <<>> /\ error = FALSE /\ stale = FALSE
NoParms == vehicle = <<>> /\ net = {} /\ parms = <<>> /\
    call = Idle /\ todo = <<>> /\ file = NoParmFile /\ result = "none" /\ calls = 0

NoFtp == c = [pc |-> "ready", call |-> None, ret |-> "Fail", told |-> <<>>, list_result |-> <<>>,
              callback |-> FALSE, put_callback |-> FALSE] /\
    server = <<>> /\ up = <<>> /\ down = <<>> /\ budget = 0
NoClient == task = [command |-> "none"] /\
    main = [at |-> "ended", told |-> "nothing"] /\ spin = "ended" /\ requests = <<>> /\ inbox = <<>>
            /\ answer = <<>> /\ topics = <<>> /\ py = 0 /\ mavros = 0
NoLists == log = <<>> /\ Class = "mission" /\ Unused /\ NoPoints /\ NoParms

Init ==
    \/ part = "lists" /\ log = <<>> /\ WpInit /\ NoPoints /\ NoParms /\ NoFtp /\ NoClient
    \/ part = "views" /\ log = <<>> /\ Class = "mission" /\
         wpoints \in {reindex(ps) : ps \in [1 .. 4 -> ViewItems]}
       /\ raised = FALSE /\ unindexed = FALSE /\ NoPoints /\ NoParms /\ NoFtp /\ NoClient
    \/ part \in {"rally", "fence"} /\ log = <<>> /\
         Class = "mission" /\ Unused /\ PointsInit /\ NoParms /\ NoFtp /\ NoClient
    \/ part = "parms" /\ log = <<>> /\ Class = "mission" /\
         Unused /\ NoPoints /\ ParmInit /\ NoFtp /\ NoClient
    \/ part = "log" /\ log \in MCMissionLogs /\
         Class = "mission" /\ Unused /\ NoPoints /\ NoParms /\ NoFtp /\ NoClient
    \/ part = "params" /\ log \in MCParams /\
         Class = "mission" /\ Unused /\ NoPoints /\ NoParms /\ NoFtp /\ NoClient
    \/ part = "frames" /\ log \in MCFrames /\
         Class = "mission" /\ Unused /\ NoPoints /\ NoParms /\ NoFtp /\ NoClient
    \/ part = "ftp" /\ FtpInit /\ NoLists /\ NoClient
    \/ part = "client" /\ ClientInit /\ NoLists /\ NoFtp
Next ==
    \/ part = "lists" /\ WpNext /\
         UNCHANGED <<part, log, pointvars, parmvars, ftpvars, clientvars>>
    \/ part = "rally" /\ RallyNext /\
         UNCHANGED <<part, log, wpvars, parmvars, ftpvars, clientvars>>
    \/ part = "fence" /\ FenceNext /\
         UNCHANGED <<part, log, wpvars, parmvars, ftpvars, clientvars>>
    \/ part = "parms" /\ ParmNext /\
         UNCHANGED <<part, log, wpvars, pointvars, ftpvars, clientvars>>
    \/ part = "ftp" /\ FtpNext /\ UNCHANGED <<part, log, listvars, clientvars>>
    \/ part = "client" /\ ClientNext /\ UNCHANGED <<part, log, listvars, ftpvars>>

(* the thread of the file transfers goes on, and so does a client that has something to do *)
Fairness == FtpFairness /\ WF_clientvars(Main \/ Spinner \/ Serve)
Spec == Init /\ [][Next]_vars /\ Fairness
-------------------------------------------------------------------------------

ASSUME FtpAssumption
ASSUME WpAssumption
ASSUME PointsAssumption
ASSUME ClientAssumption

Plain(w) == [w EXCEPT !.comment = IF @ = "note\n" THEN "note" ELSE @]
Kept(ps, r) == ~r.raised /\ Len(r.points) = Len(ps) /\
    \A i \in DOMAIN ps : Plain(r.points[i]) = Plain(ps[i])
KeptPb(ps, r) ==
    IF ~HaveProtobuf THEN r.raised
    ELSE ~r.raised /\ Len(r.points) = Len(ps)
         /\ \A i \in DOMAIN ps : r.points[i] = [ps[i] EXCEPT !.comment = "",
                                                !.autocontinue = TRUE, !.current = @ \/ i = 1]
(* A list that is saved and loaded again is the same list: in the text format all  *)
(* of it, in the protobuf format all but the comments and the two flags whose      *)
(* FALSE is taken for missing.  Lists with a home to be fixed, or with items whose *)
(* coordinates are integers, which no file format keeps, are not meant.            *)
FilesKeep ==
    /\ part = "lists" /\ ~unindexed /\
         (\A i \in DOMAIN wpoints : ~wpoints[i].int /\ wpoints[i].command # "0")
          => /\ Kept(wpoints, load_items(<<>>, save(wpoints)))
             /\ KeptPb(wpoints, load_items(<<>>, save_as_pb(wpoints)))
    /\ part \in {"rally", "fence"} =>
          /\ LET r == load_fence(save_fence(points)) IN polygon(r.points) = polygon(points)
          /\ LET r == load_rally(save_rally(rally_points))
             IN  r.points = [i \in DOMAIN rally_points |->
                 [rally_points[i] EXCEPT !.land_dir = 100 * @]]

Whole(f) == Len(PointsOf(f)) >= 5 /\ ~Damaged(f)
Ats(ps) == [i \in DOMAIN ps |-> ps[i].x]
(* A file of fence points gives the same polygon whether it is loaded as points or *)
(* as mission items; the items leave out the closing point and count the others.   *)
FencesAgree ==
    part = "lists" /\ Class = "fence" => \A f \in MissionFiles : OldFence(f) /\ Whole(f) =>
        LET items == load_items(wpoints, f).points
            old == load_fence([i \in DOMAIN f.lines |->
                [kind |-> f.lines[i].kind, point |-> [at |-> f.lines[i].item]]]).points
        IN  /\ Ats([i \in DOMAIN old |-> old[i].at]) = Append(Ats(items), items[2].x)
            /\ \A i \in 2 .. Len(items) : items[i].param1 = Len(items) - 1

Complete(l) == \A i \in DOMAIN l : ~l[i].guided
    => \A n \in 0 .. l[i].item.seq - 1 : \E j \in 1 .. i - 1 : ~l[j].guided /\ l[j].item.seq = n
Latest(l, n) == CHOOSE i \in DOMAIN l : ~l[i].guided /\
    l[i].item.seq = n /\ \A j \in i + 1 .. Len(l) : l[j].guided \/ l[j].item.seq # n
Totals(l) == {i \in DOMAIN l : l[i].total >= 0}
(* The mission taken from a log in which no item comes before the ones it follows   *)
(* has each item as it was last sent, and no more than the number last told.        *)
Extracted ==
    part = "log" /\ Complete(log) =>
        LET mission == Extract(log)
        IN  /\ \A i \in DOMAIN mission : (\E j \in DOMAIN log : ~log[j].guided /\
                 log[j].item.seq = i - 1) /\ mission[i] = log[Latest(log, i - 1)].item
            /\ Totals(log) # {}
                 => Len(mission) <= log[CHOOSE i \in Totals(log) : \A j \in Totals(log) : j <= i].total
            /\ \A i \in DOMAIN log : ~log[i].guided /\ log[i].item.seq >= Len(mission) =>
                  \E j \in Totals(log) : log[j].total <= log[i].item.seq

(* Parameters saved by the mavros client come back in the style they were saved in,  *)
(* or the load raises, which it does for a float whose text has no point; a mission  *)
(* saved by it or by pymavlink is read as the same one, or refused.                  *)
ParamsKeep ==
    part = "params" => \A style \in X!Styles :
        LET r == X!LoadParams(style, X!SaveParams(style, log))
        IN  IF \E n \in DOMAIN log : log[n].float /\ ~log[n].point THEN r.raised
            ELSE ~r.raised /\ r.params = log
MissionsExchanged ==
    part = "lists" /\ ~unindexed /\ (\A i \in DOMAIN wpoints : ~wpoints[i].int) =>
        LET mission == [i \in DOMAIN wpoints |-> X!Waypoint(wpoints[i])]
            pymavlinks == X!_parse_wpl_file(save(wpoints))
            own == X!_parse_wpl_file(X!SaveWpl(mission))
        IN  /\ IF \E i \in DOMAIN wpoints : wpoints[i].comment = "note\n" THEN pymavlinks.raised
               ELSE ~pymavlinks.raised /\ pymavlinks.points = mission
            /\ ~own.raised /\ own.points = mission /\ load_items(<<>>, X!SaveWpl(mission)).raised
(* A message packed by pymavlink, or received in a frame of version 1, is rebuilt from *)
(* the message of ROS byte by byte (convert_to_rosmsg, convert_to_bytes).              *)
FramesRebuilt ==
    part = "frames" =>
        LET msg == X!convert_to_rosmsg(log.v20, log.m)
        IN  ~X!CannotConvert(log.v20, log.m) /\
            ~X!TooShort(msg) /\ X!convert_to_bytes(msg) = log.m.frame

(* What is saved and loaded again, loaded in either of two ways, taken from a log, or *)
(* handed from one program to the other.                                              *)
FilesSound == FilesKeep /\ FencesAgree /\
    Extracted /\ ParamsKeep /\ MissionsExchanged /\ FramesRebuilt

(* Every call of the transfer client ends, whatever is lost on the way, and every   *)
(* command of the mavros client, unless its spinner calls a service in a callback or *)
(* an exception has ended it (process_ftp_reply; cli, start_spinner).                *)
Busy == (part = "ftp" /\ c.pc # "ready") \/
    (part = "client" /\ main.at # "ended" /\ spin \notin {"calls", "dead"})
CallsEnd == Busy ~> ~Busy
=============================================================================
