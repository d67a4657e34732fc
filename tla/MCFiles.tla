-------------------------------- MODULE MCFiles -------------------------------
(* The programs that work on files.  Dialects for the generators (MCGen);      *)
(* dataflash logs of every kind: with all clocks, units, instances, noise,     *)
(* messages cut at the end, and types without a format; telemetry logs; logs   *)
(* for the tools and for playing back.                                         *)
EXTENDS MavLogs

CONSTANTS Documents, Invalid, Commands, MAXIMUM_INCLUDE_FILE_NESTING,
          Known, InstanceField, StreamAge,
              SecondsBetweenFetches, Tlogs, TypeSets, ThreeDays, MaxReadings, Tracks, Tenth
VARIABLES part, tl, entries, types, got, over, readings, track, app, from, sent, waited, job,
          opts, args, xml, all_files, done, round, pc
tlogvars == <<tl, entries, types, got, over, readings>>
T == INSTANCE MavTlog
playvars == <<track, app, from, sent, waited>>
P == INSTANCE MavPlayback
U == INSTANCE MavLogTools
genvars == <<opts, args, xml, all_files, done, round, pc>>
G == INSTANCE MavGen
D == INSTANCE MCGen
MCDocuments == D!MCDocuments
MCInvalid == D!MCInvalid
MCCommands == D!MCCommands

Cells(type, len, body) ==
    <<[mark |-> TRUE, type |-> type, body |-> <<>>, short |-> FALSE],
      [mark |-> FALSE, type |-> "", body |-> body, short |-> FALSE]>>
    \o [i \in 1 .. len - 2 |-> [mark |-> FALSE, type |-> "", body |-> <<>>, short |-> FALSE]]
Noise == <<[mark |-> FALSE, type |-> "", body |-> <<>>, short |-> FALSE]>>
Line(type, body) == <<[mark |-> TRUE, type |-> type, body |-> body, short |-> FALSE]>>
Bad(type) == <<[mark |-> TRUE, type |-> type, body |-> <<>>, short |-> TRUE]>>
Format(name, n, len, columns) ==
    [Type |-> n, Length |-> len, Name |-> name,
     Columns |-> columns, Scaled |-> {}, Broken |-> FALSE]

Types == [PARM |-> <<"TimeUS", "Name", "Value">>,
          MSG |-> <<"TimeUS", "Message">>, MODE |-> <<"TimeUS", "ModeNum">>,
          GPS |-> <<"TimeUS", "GWk", "GMS">>,
              IMU |-> <<"TimeUS", "I">>, UNIT |-> <<"TimeUS", "Id", "Label">>,
          MULT |-> <<"TimeUS", "Id", "Mult">>,
              FMTU |-> <<"TimeUS", "FmtType", "UnitIds", "MultIds">>]
Number == [PARM |-> 64, MSG |-> 65, MODE |-> 66,
           GPS |-> 67, IMU |-> 68, UNIT |-> 69, MULT |-> 70, FMTU |-> 71]
Length(t) == IF t = "IMU" THEN 3 ELSE 2
Names == <<"UNIT", "MULT", "FMTU", "PARM", "MSG", "MODE", "GPS", "IMU">>

Cat(ss) == FoldLeft(LAMBDA a, b : a \o b, <<>>, ss)
Formats(ns) == Cat([i \in DOMAIN ns |->
    Cells("FMT", 2, Format(ns[i], Number[ns[i]], Length(ns[i]), Types[ns[i]]))])
M(t, body) == Cells(t, Length(t), body)
Units == M("UNIT", [TimeUS |-> 0, Id |-> "s", Label |-> "seconds"])
    \o M("MULT", [TimeUS |-> 0, Id |-> "F", Mult |-> "u"])
         \o M("FMTU", [TimeUS |-> 0, FmtType |-> "IMU",
                       UnitIds |-> [TimeUS |-> "s", I |-> "#"], MultIds |-> [TimeUS |-> "F"]])
Imu(t, i) == M("IMU", [TimeUS |-> t, I |-> i])
Gps(t, w, ms) == M("GPS", [TimeUS |-> t, GWk |-> w, GMS |-> ms])
ModeNum(t, n) == M("MODE", [TimeUS |-> t, ModeNum |-> n])
Param(t, v) == M("PARM", [TimeUS |-> t, Name |-> "P", Value |-> v])
Log(kind, data) == [kind |-> kind, fast |-> FALSE,
                    zero_time_base |-> FALSE, short_end |-> FALSE, data |-> data]

Flight == Formats(Names) \o Units \o M("MSG", [TimeUS |-> 1, Message |-> "Copter"])
    \o Param(2, 1) \o ModeNum(3, 0) \o Imu(4, 0)
          \o Noise \o Gps(5, 0, 0) \o Imu(6, 1)
              \o ModeNum(7, 1) \o Gps(8, 2, 10) \o Imu(9, 0) \o Param(10, 2)
Cut(s) == SubSeq(s, 1, Len(s) - 1)

Named2(name, n, columns) == Line("FMT", Format(name, n, 9, columns))
Text == Named2("MODE", 66, <<"TimeMS", "Mode">>)
    \o Named2("GPS", 67, <<"Week", "TimeMS", "T">>) \o Named2("ATT", 68, <<"TimeMS", "Roll">>)
        \o Line("ATT", [TimeMS |-> 3, Roll |-> 0])
            \o Line("MODE", [TimeMS |-> 4, Mode |-> "AUTO"]) \o Line("XYZ", [A |-> 1])
        \o Line("GPS", [Week |-> 3, TimeMS |-> 100, T |-> 5]) \o Noise \o Line("MODE",
            [TimeMS |-> 7, Mode |-> "RTL"]) \o Line("ATT", [TimeMS |-> 8, Roll |-> 1])
Old == Named2("GPS", 67, <<"Week", "TimeMS", "T">>) \o Named2("ATT", 68, <<"Roll">>)
       \o Line("ATT", [Roll |-> 0]) \o Line("GPS", [Week |-> 3, TimeMS |-> 100, T |-> 0])
           \o Line("ATT", [Roll |-> 1])
       \o Line("ATT", [Roll |-> 1]) \o Line("GPS", [Week |-> 3, TimeMS |-> 110, T |-> 0])
           \o Line("ATT", [Roll |-> 2]) \o Line("GPS", [Week |-> 3, TimeMS |-> 120, T |-> 0])
Px4 == Named2("TIME", 66, <<"StartTime">>)
    \o Named2("GPS", 67, <<"GPSTime">>) \o Named2("STAT", 68, <<"MainState">>)
       \o Line("TIME", [StartTime |-> 5]) \o Line("STAT", [MainState |-> 1]) \o Line("GPS",
           [GPSTime |-> 2005]) \o Line("TIME", [StartTime |-> 9]) \o Line("STAT", [MainState |-> 2])
Table == [i \in 1 .. 3 |-> [mark |-> TRUE, type |-> "CSV", body |-> [t |-> i], short |-> FALSE]]

MCLogs ==
    << Log("binary", Flight), [Log("binary", Flight) EXCEPT !.fast = TRUE],
       Log("binary", Cut(Flight \o Imu(11, 1))),
           [Log("binary", Cut(Flight \o Imu(11, 1))) EXCEPT !.fast = TRUE],
       [Log("binary", Flight) EXCEPT !.zero_time_base = TRUE],
       Log("binary", Formats(<<"MSG", "MODE">>)
           \o ModeNum(1, 0) \o Imu(2, 0) \o M("MSG", [TimeUS |-> 3, Message |-> "Rover"])),
       [Log("binary", Formats(<<"MSG", "MODE">>)
           \o ModeNum(1, 0) \o Imu(2, 0)) EXCEPT !.fast = TRUE],
       Log("text", Text), [Log("text", Text) EXCEPT !.short_end = TRUE],
           Log("text", Old), Log("text", Px4), Log("table", Table) >>
MCAskedTypes == {{"GPS", "IMU"}, {"MODE"}, {"ATT", "MODE", "CSV"}}

MCKnown ==
    [i \in {0, 22, 24, 30, 235} |->
        CASE i = 0 -> [size |-> 4, crc_extra |-> 50] [] i = 22 -> [size |-> 2, crc_extra |-> 220]
          [] i = 24 -> [size |-> 1, crc_extra |-> 24] [] i = 30 -> [size |-> 2, crc_extra |-> 39]
          [] i = 235 -> [size |-> 4, crc_extra |-> 179]]
F == INSTANCE MavFrame WITH Known <- MCKnown
MCInstanceField == [i \in DOMAIN MCKnown |-> IF i = 30 THEN 1 ELSE 0]
Entry(t, id, payload, v1) ==
  [time |-> t, frame |-> F!_pack([F!MAVLink(2, 1, 1) EXCEPT !.seq = t % 200], id, payload, v1)]
Beat(t, mode) == Entry(t, 0, <<2, 3, 129, mode>>, FALSE)
OldBeat(t) == Entry(t, 0, <<2, 3, 129, 9>>, TRUE)
Parameter(t, v) == Entry(t, 22, <<v, 5>>, FALSE)
Corrupt(e) == [e EXCEPT !.frame[Len(e.frame)] = (@ + 1) % 256]
Junk(n) == [time |-> -1, frame |-> [i \in 1 .. n |-> 9]]
Noisy(n) == <<Beat(1, 4), Parameter(2, 1),
              Junk(n), Entry(3, 24, <<3>>, FALSE), OldBeat(4), Beat(5, 5), Beat(6, 5)>>
MCTlogs ==
    << <<Beat(1, 4), Parameter(2, 1), Entry(3, 24, <<3>>, FALSE),
         Beat(4, 5), Entry(5, 30, <<1, 0>>, FALSE), Entry(6, 30, <<2, 7>>, FALSE), Beat(7, 5)>>,
       <<Beat(1, 4), OldBeat(2), Entry(3, 24, <<3>>, FALSE), Parameter(4, 3), Beat(5, 5)>>,
       Noisy(1), Noisy(8), Noisy(9), Noisy(17),
       <<Beat(1, 4), Corrupt(Parameter(2, 1)),
         OldBeat(3), Corrupt(OldBeat(4)), Beat(5, 5), OldBeat(6)>>,
       <<Beat(1, 4), Entry(2, 24, <<3>>, TRUE), Parameter(3, 1)>> >>
MCTypes == {{}, {22}, {0, 24}}

(* messages for the tools: the type, with the type's own fields *)
Msg2(type, link, body) == [type |-> type, sys |-> link, link |-> link, len |-> 9, body |-> body]
Beat2(mode, link, gcs) ==
  Msg2("HEARTBEAT", link, [mode |-> mode, auto |-> mode = 1, gcs |-> gcs, gimbal |-> FALSE])
Fix(fix, speed, at) == Msg2("GPS", 1, [fix |-> fix, Spd |-> speed, at |-> at])
Block(opcode, offset, n) ==
    Msg2("FTP", 1, [session |-> 1, opcode |-> opcode,
                    req_opcode |-> 5, offset |-> offset, data |-> [i \in 1 .. n |-> offset + i]])
Param2(v) == Msg2("PARAM_VALUE", 1, [name |-> "P", value |-> v])
Bad2 == Msg2("BAD_DATA", 1, [reason |-> "Bad prefix"])
Modes2 == {Beat2(0, 1, FALSE), Beat2(1, 1, FALSE),
           Beat2(2, 2, FALSE), Beat2(0, 1, TRUE), Param2(5), Bad2}
Flights == {Fix(3, 0, 5), Fix(3, 2, 9), Fix(3, 1, 4),
            Fix(1, 0, 1), Beat2(1, 1, FALSE), Msg2("STAT", 1, [mode |-> 1])}
Copies == {Block(4, 0, 0), Block(128, 0, 2), Block(128, 2, 1), Block(128, 3, 1)}
Timed(ms, ts) == [i \in DOMAIN ms |->
    [ms[i] EXCEPT !.body = IF ms[i].type = "GPS" THEN @ @@ [usec |-> ts[i] + ts[i] \div 3]
                           ELSE @] @@ [time |-> ts[i]]]
Options == [types |-> {}, nottypes |-> {},
            selected |-> 1 .. 4, sys |-> {}, link |-> {}, modes |-> {1}, reduce |-> 0, rate |-> 0,
            meta |-> FALSE, parms |-> FALSE,
                dataflash |-> FALSE, indexed |-> FALSE, no_bad_data |-> FALSE]
MCOptions ==
    {Options, [Options EXCEPT !.reduce = 2],
     [Options EXCEPT !.rate = 2], [Options EXCEPT !.link = {1}, !.modes = {1, 2}],
     [Options EXCEPT !.types = {"HEARTBEAT", "GPS"},
      !.indexed = TRUE, !.selected = {1, 2, 4}, !.parms = TRUE]}
Forward == <<1, 2, 4, 7>>
Back == <<3, 2, 8, 9>>
Jobs(options, ms, ts) == [o : options, log : {Timed(s, ts) : s \in [1 .. 4 -> ms]}]
MCJobs ==
    Jobs(MCOptions, Modes2, Forward) \union Jobs({Options}, Modes2, Back)
        \union Jobs({Options}, Copies, Forward)
    \union Jobs({Options}, Flights, Forward) \union Jobs({Options}, Flights, Back)
MCTracks ==
    << [i \in 1 .. 5 |-> [time |-> <<1, 2, 4, 7, 11>>[i], bad |-> i = 3]],
       [i \in 1 .. 4 |-> [time |-> 2 * i, bad |-> i = 4]] >>

TlogIdle == tl = 0 /\ entries = <<>> /\ types = {} /\ got = <<>> /\ over = TRUE /\ readings = 0
LogIdle == rd = Opened(Logs[Len(Logs)]) /\ how = All /\ seen = <<>> /\ ended = FALSE /\ passes = 0
PlayIdle == track = <<>> /\ app = 0 /\ from = 0 /\ sent = <<>> /\ waited = 0
GenIdle == opts = <<>> /\ args = <<>> /\
    xml = <<>> /\ all_files = {} /\ done = {} /\ round = 0 /\ pc = "idle"

Init ==
    \/ part = "dialects" /\ G!Init /\ LogIdle /\ TlogIdle /\ PlayIdle /\ job = 0
    \/ part = "dataflash" /\ LogInit /\ TlogIdle /\ PlayIdle /\ job = 0 /\ GenIdle
    \/ part = "telemetry" /\ T!TlogInit /\ LogIdle /\ PlayIdle /\ job = 0 /\ GenIdle
    \/ part = "playback" /\ P!PlayInit /\ LogIdle /\ TlogIdle /\ job = 0 /\ GenIdle
    \/ part = "tools" /\ LogIdle /\ TlogIdle /\ PlayIdle /\ job \in MCJobs /\ GenIdle
Next ==
    \/ part = "dialects" /\ G!Next /\ UNCHANGED <<part, logvars, tlogvars, playvars, job>>
    \/ part = "dataflash" /\ LogNext /\ UNCHANGED <<part, tlogvars, playvars, job, genvars>>
    \/ part = "telemetry" /\ T!TlogNext /\ UNCHANGED <<part, logvars, playvars, job, genvars>>
    \/ part = "playback" /\ P!PlayNext /\ UNCHANGED <<part, logvars, tlogvars, job, genvars>>
Spec == Init /\ [][Next]_<<part, logvars, tlogvars, playvars, job, genvars>>

(* Dialects: the tables are complete and agree across the languages, and the     *)
(* enums keep their values (MavGen).                                             *)
DialectsSound == part = "dialects" => G!TypeOK /\ G!TablesComplete /\ G!EnumsSound /\ G!TablesAgree

(* What one generator's code writes, another's reads as it was meant (MavGen).   *)
ReadsWhatWasWritten == part = "dialects" => G!ReadsWhatWasWritten

(* However a dataflash log is read, by types or whole, indexed fast or slowly,   *)
(* the messages are the same, their times go forwards, and the flight mode is    *)
(* the one of the last message (MavLogs).                                        *)
LogsRead == part = "dataflash" => ReadsByType /\ IndexersAgree /\ TimesForward /\ ModesAgree

(* The messages of a telemetry log come with their own times, reading it by      *)
(* types leaves nothing out (MavTlog), and what the player sends is what the log  *)
(* holds, in its order (MavPlayback).                                            *)
TlogsRead ==
    /\ part = "telemetry" => T!OwnTimes /\ T!TlogByType
    /\ part = "playback" => P!PlayedInOrder

(* The outputs of the log tools hold what was asked for, and the times they      *)
(* report add up (MavLogTools).                                                  *)
ToolsSound == part = "tools" => U!OutputsSound(job.o, job.log) /\ U!TimesAddUp(job.log, 1)
=============================================================================
