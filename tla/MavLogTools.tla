----------------------------- MODULE MavLogTools -----------------------------
(* Command line tools over logs (pymavlink/tools): what they write and report  *)
(* is a function of the messages the log's reader returns, in order. A message *)
(* is [type, time, sys, comp, link, body]; its body has the fields tools read. *)
EXTENDS Integers, FiniteSets, SequencesExt

Sum(s) == FoldLeft(LAMBDA a, b : a + b, 0, s)
Bad(m) == m.type = "BAD_DATA"
Put(f, k, v) == (k :> v) @@ f
AddTo(f, k, n) == IF k \in DOMAIN f THEN [f EXCEPT ![k] = @ + n] ELSE Put(f, k, n)

(* ----------------------------------- mavlogdump ---------------------------- *)
(* options: o.types, o.nottypes, o.selected (the messages that meet --condition), o.sys, *)
(* o.link: {} for no such option; o.reduce, o.rate: 0; o.meta, o.parms, o.no_bad_data    *)
Meta == {"FMT", "FMTU", "MULT", "PARM", "MODE", "UNIT", "VER", "CMD", "MAVC", "MSG", "EV"}
KeptAtAnyRate == {"PARM", "MSG", "FMT", "FMTU", "MULT", "MODE", "EVT", "UNIT", "VER"}
Reducible == {"GPS", "IMU", "ATT"}

(* True to discard; of a type that is reduced one of every o.reduce messages stays *)
reduce_msg(d, m, ratio) ==
    IF m.type \notin Reducible THEN [d |-> d, skip |-> FALSE]
    ELSE LET n == AddTo(d.count, m.type, 1)[m.type] IN
         [d |-> [d EXCEPT !.count = Put(@, m.type, n % ratio)], skip |-> n # ratio]

reduce_rate_msg(d, m, interval) ==
    IF m.type \in KeptAtAnyRate THEN [d |-> d, skip |-> FALSE]
    ELSE LET last == IF m.type \in DOMAIN d.last THEN d.last[m.type] ELSE m.time
             due == m.time - last < 0 \/ m.time - last >= interval IN
         [d |-> [d EXCEPT !.last = Put(@, m.type, IF due THEN m.time ELSE last)], skip |-> ~due]

(* what is written to the output before any filter *)
Preserved(o, m) ==
  (o.dataflash /\ (m.type \in {"FMT", "FMTU", "MULT", "UNIT"} \/ (m.type = "PARM" /\ o.parms)))
                   \/ (m.type = "PARAM_VALUE" /\ o.parms)

Meets(o, m, i) ==
    /\ i \in o.selected \/ (m.type \in Meta /\ o.meta)
    /\ o.sys = {} \/ m.sys \in o.sys
    /\ o.link = {} \/ m.link \in o.link
    /\ o.types = {} \/ Bad(m) \/ m.type \in o.types
    /\ m.type \notin o.nottypes
    /\ ~(Bad(m) /\ (o.no_bad_data \/ m.body.reason = "Bad prefix"))

Dumped(d, o, m, i) == IF Preserved(o, m) \/ Meets(o, m, i) THEN [d EXCEPT !.out = Append(@, i)]
                      ELSE d
Rated(r, o, m, i) ==
    IF r.skip THEN r.d
    ELSE LET s == IF o.rate > 0 THEN reduce_rate_msg(r.d, m, o.rate) ELSE r IN
         IF s.skip THEN s.d ELSE Dumped(s.d, o, m, i)
DumpMessage(d, o, m, i) ==
  Rated(IF o.reduce > 0 THEN reduce_msg(d, m, o.reduce) ELSE [d |-> d, skip |-> FALSE], o, m, i)

(* an indexed log returns the messages of the types that are asked for, of all when it has none of them *)
ByIndex(o, log) ==
    LET match == {log[i].type : i \in DOMAIN log} \intersect (o.types \ o.nottypes) IN
    {i \in DOMAIN log : ~o.indexed \/ o.types = {} \/ match = {} \/ log[i].type \in match}
Indices(s) == SetToSortSeq(s, LAMBDA a, b : a < b)
Dump(o, log) ==
    FoldLeft(LAMBDA d, i : DumpMessage(d, o, log[i], i),
             [count |-> <<>>, last |-> <<>>, out |-> <<>>], Indices(ByIndex(o, log))).out

(* ---------------------------- merge, extract, split ------------------------ *)
(* after a message of the second log has been written, the next one is read from the first *)
First(s) == IF s = <<>> THEN <<>> ELSE <<s[1]>>
Rest(s) == IF s = <<>> THEN s ELSE Tail(s)
RECURSIVE Merged(_, _, _, _, _)
Merged(m1, m2, log1, log2, out) ==
    CASE m1 = <<>> /\ m2 = <<>> -> out
      [] m1 = <<>> /\ m2 # <<>> -> Merged(m1, First(log2), log1, Rest(log2), out \o m2)
      [] m1 # <<>> /\ m2 = <<>> -> Merged(First(log1), m2, Rest(log1), log2, out \o m1)
      [] m1 # <<>> /\ m2 # <<>> /\ m1[1].time < m2[1].time ->
          Merged(First(log1), m2, Rest(log1), log2, out \o m1)
      [] OTHER -> Merged(m1, First(log1), Rest(log1), log2, out \o m2)
Merge(log1, log2) == Merged(First(log1), First(log2), Rest(log1), Rest(log2), <<>>)

(* a new file, with the parameters, formats and mission so far, at every change to one of the modes *)
ModeOf(e, m) ==
    IF (m.type = "HEARTBEAT" /\ ~m.body.gimbal /\ ~m.body.gcs) \/
        m.type = "MODE" THEN <<m.body.mode>> ELSE e.mode
HeaderLate(e, o, m, i) == IF e.open THEN e.header
                          ELSE IF m.type = "PARAM_VALUE" THEN Append(e.header, i) ELSE e.header
Header(e, o, m, i) ==
    IF \/ o.dataflash /\ m.type \in {"FMT", "PARM", "CMD", "FMTU", "MULT", "MSG"}
       \/ m.type \in {"PARAM_VALUE", "MISSION_ITEM",
                      "MISSION_ITEM_INT"} THEN Append(e.header, i) ELSE e.header
Wrote(e, m, i) == IF Bad(m) THEN e ELSE [e EXCEPT !.files[Len(e.files)].body = Append(@, i)]
Routed(e, o, m, i) ==
    CASE i \notin o.selected -> e
      [] i \in o.selected /\ (e.mode = <<>> \/ e.mode[1] \notin o.modes) ->
          [e EXCEPT !.open = FALSE]
      [] OTHER -> Wrote(IF e.open THEN e ELSE [e EXCEPT !.open = TRUE,
          !.files = Append(@, [header |-> e.header, body |-> <<>>])], m, i)
ExtractMessage(e, o, m, i) ==
    IF o.link # {} /\ m.link \notin o.link THEN e
    ELSE Routed([e EXCEPT !.mode = ModeOf(e, m), !.header = Header(e, o, m, i)], o, m, i)
Extract(o, log) ==
    FoldLeft(LAMBDA e, i : ExtractMessage(e, o, log[i], i),
             [mode |-> <<>>, open |-> FALSE, header |-> <<>>, files |-> <<>>],
             Indices(DOMAIN log)).files

SplitBySystem(o, log) ==
    FoldLeft(LAMBDA f, i : IF i \notin o.selected \/
        (o.types # {} /\ log[i].type \notin o.types) \/ Bad(log[i]) THEN f
                           ELSE Put(f, log[i].sys,
                               (IF log[i].sys \in DOMAIN f THEN f[log[i].sys] ELSE <<>>) \o <<i>>),
             <<>>, Indices(DOMAIN log))

(* ---------------------------------- times ---------------------------------- *)
(* mavsigloss: the gaps between messages *)
SigLoss(log, deltat) ==
    SelectSeq([i \in 1 .. Len(log) - 1 |-> log[i + 1].time - log[i].time],
              LAMBDA gap : gap > deltat)

Gps(log) == SelectSeq(log, LAMBDA m : m.type = "GPS")
End(f) == f.total + IF f.on THEN f.t - f.start ELSE 0

(* mavflighttime: from one fix above the speed to the next below it *)
Flown(f, m) == IF f.last = <<>> THEN 0 ELSE LET d ==
  m.body.at - f.last[1].at IN IF d < 0 THEN -d ELSE d
Moved(f, m) ==
    IF f.last = <<>> \/ m.body.usec > f.last[1].usec \/ m.body.usec + 30 < f.last[1].usec
    THEN [f EXCEPT !.dist = @ + Flown(f, m), !.last = <<m.body>>] ELSE f
Switched(f, on, off, t) ==
    CASE on /\ ~f.on -> [f EXCEPT !.on = TRUE, !.start = t, !.t = t]
      [] off /\ f.on -> [f EXCEPT !.on = FALSE, !.total = @ + t - f.start, !.t = t]
      [] OTHER -> [f EXCEPT !.t = t]
Fresh == [on |-> FALSE, start |-> 0, total |-> 0,
          t |-> 0, dist |-> 0, last |-> <<>>, sections |-> 0]
FlightMessage(f, m, speed) ==
    IF m.body.fix < 3 THEN f
    ELSE Moved(Switched(f, m.body.Spd > speed, m.body.Spd < speed, m.time), m)
FlightTime(log, speed) == FoldLeft(LAMBDA f, m : FlightMessage(f, m, speed), Fresh, Gps(log))

(* mavgpslock: the first fix only starts the clock *)
LockTime(log) == FoldLeft(LAMBDA f, m : Switched(f, m.body.fix >= 2, m.body.fix < 2, m.time),
                          Fresh, Rest(Gps(log)))

(* mavsummarize: distance between fixes, and time in the modes that fly by themselves *)
SummaryMessage(f, m) ==
    CASE m.type = "GPS" -> IF m.body.fix < 3 \/ m.body.at = 0 THEN [f EXCEPT !.t = m.time]
                           ELSE Moved([f EXCEPT !.t = m.time], m)
      [] m.type = "HEARTBEAT" /\ ~m.body.gcs ->
           [Switched(f, m.body.auto, ~m.body.auto, m.time) EXCEPT !.sections = IF m.body.auto /\
               ~f.on THEN @ + 1 ELSE @]
      [] m.type = "HEARTBEAT" /\ m.body.gcs -> [f EXCEPT !.t = m.time]
      [] OTHER -> f
Summary(log) == FoldLeft(SummaryMessage, Fresh, log)

(* mavflightmodes: the time in the last mode is estimated from the place in the file, *)
(* at the pace of the first change, here as a fraction                                *)
ModeMessage(f, log, i) ==
    LET mode == log[i].body.mode
        span == log[i].time - f.start IN
    CASE log[i].type \notin {"HEARTBEAT", "MODE"} \/ f.mode = <<mode>> -> f
      [] log[i].type \in {"HEARTBEAT", "MODE"} /\ f.mode = <<>> ->
          [f EXCEPT !.mode = <<mode>>, !.start = log[i].time, !.place = i, !.spent = (mode :> 0)]
      [] OTHER -> [f EXCEPT !.mode = <<mode>>, !.start = log[i].time, !.place = i,
                            !.spent = AddTo(AddTo(@, f.mode[1], span), mode, 0),
                            !.pace = IF @ = <<>> THEN <<span, i - f.place>> ELSE @]
FlightModes(log) ==
    FoldLeft(LAMBDA f, i : ModeMessage(f, log, i), [mode |->
        <<>>, start |-> -1, place |-> 0, spent |-> <<>>, pace |-> <<>>], Indices(DOMAIN log))

(* mavfixtimedrift: times are scaled by what the clock gained against the fixes' *)
Drift(log) ==
    LET fixes == SelectSeq(Gps(log), LAMBDA m : m.body.fix >= 3)
        dt1 == fixes[Len(fixes)].body.usec - fixes[1].body.usec
        dt2 == fixes[Len(fixes)].time - fixes[1].time IN
    [start |-> fixes[1].time, num |-> dt2 - dt1, den |-> dt1]
NewTime(d, t) == t - ((t - d.start) * d.num) \div d.den
FixDrift(log) ==
    SelectSeq([i \in DOMAIN log |-> [log[i] EXCEPT !.time = NewTime(Drift(log), @)]],
              LAMBDA m : m.time >= 0)

(* --------------------------------- contents -------------------------------- *)
(* mavparms: the last value of every parameter, and the changes *)
ParamMessage(p, m) ==
    IF m.type \notin {"PARAM_VALUE", "PARM"} THEN p
    ELSE [values |-> Put(p.values, m.body.name, m.body.value),
          changes |-> IF m.body.name \in DOMAIN p.values /\ p.values[m.body.name] # m.body.value
                      THEN Append(p.changes,
                          <<m.body.name, p.values[m.body.name], m.body.value>>) ELSE p.changes]
Parms(log) == FoldLeft(ParamMessage, [values |-> <<>>, changes |-> <<>>], log)

(* mavmsgstats: the size of a type is that of its first message *)
Stats(log) ==
    FoldLeft(LAMBDA s, m : IF m.type \in DOMAIN s THEN [s EXCEPT ![m.type].n = @ + 1]
                           ELSE Put(s, m.type, [n |-> 1, size |-> m.len]),
             <<>>, log)

(* mavloss: the reasons of bad data, each once *)
Reasons(log) ==
    FoldLeft(LAMBDA r, m : IF Bad(m) /\
        ~Contains(r, m.body.reason) THEN Append(r, m.body.reason) ELSE r, <<>>, log)

(* mavftpdecode: blocks by session, put together in the order of their offsets *)
FTP_OpenFileRO == 4
FTP_ReadFile == 5
FTP_BurstReadFile == 15
FTP_Ack == 128
ftp_add(f, b) ==
    LET opened == IF b.opcode = FTP_OpenFileRO THEN Put(f, b.session, <<>>) ELSE f IN
    IF b.opcode = FTP_Ack /\ b.req_opcode \in {FTP_ReadFile, FTP_BurstReadFile} /\
        b.session \in DOMAIN opened
    THEN [opened EXCEPT ![b.session] = Append(@,
                                              [offset |-> b.offset, data |-> b.data])] ELSE opened
Transfers(log) == FoldLeft(LAMBDA f, m : IF m.type = "FTP" THEN ftp_add(f, m.body) ELSE f,
                           <<>>, log)
Joined(all, b) == IF all # <<>> /\ b.offset = Len(all[1]) THEN <<all[1] \o b.data>> ELSE <<>>      \* <<>> for a gap
extract(blocks) == FoldLeft(Joined, <<(<<>>)>>, SortSeq(blocks, LAMBDA a, b : a.offset < b.offset))

(* mavtogpx: positions of several types, with the fix the last GPS message had *)
Point(g, m) ==
    LET k == IF m.type = "GPS" THEN [g EXCEPT !.fix = m.body.fix, !.time = m.time, !.at = m.body.at]
             ELSE [g EXCEPT !.at = m.body.at, !.time = IF m.type = "POS" THEN @ ELSE m.time] IN
    IF k.fix < 2 \/ k.at = 0 THEN k
    ELSE [k EXCEPT !.points = Append(@, [at |-> k.at, time |-> k.time])]
Gpx(log) ==
    FoldLeft(Point, [fix |-> 0, time |-> -1, at |-> 0, points |-> <<>>],
             SelectSeq(log, LAMBDA m : m.type \in {"GPS", "POS", "GLOBAL_POSITION_INT"}))

(* mavkml: a line of positions for every main state *)
Line(k, m) ==
    CASE k.new -> [k EXCEPT !.lines = Append(@, [state |-> k.state, points |-> <<m.body.at>>]),
                   !.new = FALSE, !.last = m.time]
      [] ~k.new /\ m.time > k.last ->
          [k EXCEPT !.lines[Len(k.lines)].points = Append(@, m.body.at), !.last = m.time]
      [] OTHER -> k
add_data(k, m) ==
    CASE m.type = "STAT" -> [k EXCEPT !.new = @ \/ (m.body.mode # k.state /\ k.state >= 0),
                             !.state = m.body.mode]
      [] m.type = "GPS" -> Line(k, m)
      [] OTHER -> k
Kml(log) == FoldLeft(add_data, [state |-> -1, new |-> TRUE, lines |-> <<>>, last |-> 0], log)

-----------------------------------------------------------------------------
(* What is written is a part of the log, in its order: of the messages without a    *)
(* reduction all that meet the options, of a reduced type every n-th, at a rate no  *)
(* two closer; a file per stay in the modes with every message of it, and one per   *)
(* system; a transfer with all blocks, each once, and only such a one.              *)
Meeting(o, log) == {i \in ByIndex(o, log) : Preserved(o, log[i]) \/ Meets(o, log[i], i)}
Thinned(o, log, out) ==
    \A t \in Reducible : LET all == Indices({i \in ByIndex(o, log) : log[i].type = t}) IN
        {i \in ToSet(out) : log[i].type = t} = {all[k] :
            k \in {k \in DOMAIN all : k % o.reduce = 0}} \intersect Meeting(o, log)
DumpSound(o, log) ==
    LET out == Dump(o, log) IN
    /\ out = Indices(ToSet(out)) /\ ToSet(out) \subseteq Meeting(o, log)
    /\ o.reduce = 0 /\ o.rate = 0 => ToSet(out) = Meeting(o, log)
    /\ o.reduce > 0 /\ o.rate = 0 => Thinned(o, log, out)
    /\ o.rate > 0 => \A i, j \in ToSet(out) : i < j /\
         log[i].type = log[j].type /\ log[i].type \notin KeptAtAnyRate
                                              => \/ log[j].time < log[i].time \/
                                                      log[j].time - log[i].time >= o.rate
                                                 \/ log[i].type \in Meta \/ Preserved(o, log[i])

(* the mode at message i: the one the last message that tells it told *)
Tells(o, m) == (m.type = "HEARTBEAT" /\ ~m.body.gimbal /\ ~m.body.gcs) /\
    (o.link = {} \/ m.link \in o.link)
Stays(o, log) ==
    {i \in DOMAIN log : /\ o.link = {} \/ log[i].link \in o.link
                        /\ \E j \in 1 .. i : /\ Tells(o, log[j]) /\ log[j].body.mode \in o.modes
                                             /\ \A k \in j + 1 .. i : ~Tells(o, log[k])}
ExtractSound(o, log) ==
    LET files == Extract(o, log)
        bodies == FlattenSeq([f \in DOMAIN files |-> files[f].body]) IN
    /\ bodies = Indices({i \in Stays(o, log) \intersect o.selected : ~Bad(log[i])})
    /\ \A f \in DOMAIN files : files[f].body # <<>> =>
          \A i \in 1 .. files[f].body[1] - 1 : log[i].type = "PARAM_VALUE" /\
              (o.link = {} \/ log[i].link \in o.link) => Contains(files[f].header, i)

SplitSound(o, log) ==
    LET out == SplitBySystem(o, log) IN
    \A i \in DOMAIN log : {s \in DOMAIN out : Contains(out[s], i)} =
        IF i \in o.selected /\ ~Bad(log[i]) /\
            (o.types = {} \/ log[i].type \in o.types) THEN {log[i].sys} ELSE {}

TransferSound(log) ==
    \A s \in DOMAIN Transfers(log) :
        LET blocks == Transfers(log)[s]
            all == extract(blocks)
            covered == UNION {b.offset .. b.offset + Len(b.data) - 1 : b \in ToSet(blocks)} IN
        (all # <<>>) = /\ covered = 0 .. Sum([i \in DOMAIN blocks |-> Len(blocks[i].data)]) - 1
                       /\ \A i, j \in DOMAIN blocks : i # j => blocks[i].offset # blocks[j].offset

(* ... and what is summed up is what is there: every parameter has its last value, every   *)
(* message is counted, every reason told once, every fix is on the track and on the line of the state it was in.   *)
SumsSound(log) ==
    LET fixes == {i \in DOMAIN log : log[i].type = "GPS"} IN
    /\ \A i \in DOMAIN log : log[i].type = "PARAM_VALUE" =>
          \/ \E j \in i + 1 .. Len(log) : log[j].type = "PARAM_VALUE" /\
               log[j].body.name = log[i].body.name
          \/ Parms(log).values[log[i].body.name] = log[i].body.value
    /\ Sum([k \in 1 .. Cardinality(DOMAIN Stats(log)) |->
         Stats(log)[SetToSeq(DOMAIN Stats(log))[k]].n]) = Len(log)
    /\ IsInjective(Reasons(log)) /\
         ToSet(Reasons(log)) = {m.body.reason : m \in {n \in ToSet(log) : Bad(n)}}
    /\ Len(Gpx(log).points) = Cardinality({i \in fixes : log[i].body.fix >= 2})
    /\ (\A i \in 2 .. Len(log) : log[i - 1].time < log[i].time) =>
          FlattenSeq([k \in DOMAIN Kml(log).lines |->
              Kml(log).lines[k].points]) = [k \in DOMAIN Gps(log) |-> Gps(log)[k].body.at]

(* Of two logs that are merged every message of the first is written once, and in the      *)
(* order of the times if its own are.                                                       *)
InOrder(s) == \A i \in 2 .. Len(s) : s[i - 1].time <= s[i].time
MergeSound(log) ==
    LET numbered == [i \in DOMAIN log |-> [nr |-> i, time |-> log[i].time]]
        half(n) == SelectSeq(numbered, LAMBDA m : m.nr % 2 = n)
        out == SelectSeq(Merge(half(1), half(0)), LAMBDA m : m.nr % 2 = 1) IN
    /\ Len(out) = Len(half(1)) /\ ToSet(out) = ToSet(half(1))
    /\ InOrder(half(1)) => InOrder(out)

OutputsSound(o, log) == MergeSound(log) /\ SumsSound(log) /\
    DumpSound(o, log) /\ ExtractSound(o, log) /\ SplitSound(o, log) /\ TransferSound(log)

(* The times that are reported add up: time in the air is the time between fixes with *)
(* the vehicle in the air, however it went up and down, locks and autonomous sections *)
(* likewise; the times in modes make up the time from the first to the last change;   *)
(* a clock that is corrected is no farther from the fixes' than it was, and still runs  *)
(* forwards unless it was off by its own pace; the gaps make up the length of the log.  *)
Apart(a, b) == IF a < b THEN b - a ELSE a - b
Airborne(fixes, speed, i) ==
    \E j \in 1 .. i : fixes[j].body.Spd > speed /\ \A k \in j + 1 .. i : fixes[k].body.Spd >= speed
Between(s, On(_)) == Sum([i \in 1 .. Len(s) - 1 |-> IF On(i) THEN s[i + 1].time - s[i].time ELSE 0])
TimesAddUp(log, speed) ==
    LET fixes == SelectSeq(Gps(log), LAMBDA m : m.body.fix >= 3)
        locks == Rest(Gps(log))
        beats == SelectSeq(log, LAMBDA m : m.type = "HEARTBEAT" /\ ~m.body.gcs)
        modes == SelectSeq(log, LAMBDA m : m.type = "HEARTBEAT")
        flown == FlightModes(log) IN
    /\ End(FlightTime(log, speed)) = Between(fixes, LAMBDA i : Airborne(fixes, speed, i))
    /\ End(LockTime(log)) = Between(locks, LAMBDA i : locks[i].body.fix >= 2)
    /\ beats # <<>> /\ log # <<>> /\ Last(log) = Last(beats) =>
          End(Summary(log)) = Between(beats, LAMBDA i : beats[i].body.auto)
    /\ Len(fixes) > 1 => Apart(Drift(log).den,
         NewTime(Drift(log), Last(fixes).time) - NewTime(Drift(log), fixes[1].time))
                         <= Apart(Drift(log).den, Last(fixes).time - fixes[1].time)
    /\ InOrder(log) /\ log # <<>> => Sum(SigLoss(log, 0)) = Last(log).time - log[1].time
    /\ InOrder(log) /\ Len(fixes) > 1 /\ Drift(log).num <= Drift(log).den => InOrder(FixDrift(log))
    /\ modes # <<>> => Sum([i \in DOMAIN SetToSeq(DOMAIN flown.spent) |->
         flown.spent[SetToSeq(DOMAIN flown.spent)[i]]])
                         = flown.start - modes[1].time
=============================================================================
