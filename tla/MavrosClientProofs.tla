--------------------------- MODULE MavrosClientProofs ---------------------------
(* Proof that a command of the Python client of mavros that ends well has done   *)
(* what it was told to (MavrosClient), for all tasks, parameters and missions.   *)
(* A part of the invariant says where the call under way is: as a request, as an *)
(* answer under way, or as the answer taken; the others follow one kind of       *)
(* command each.                                                                 *)
EXTENDS MavrosClient, SequenceTheorems, FiniteSetTheorems, WellFoundedInduction, TLAPS

(* --------------------------------- sequences -------------------------------- *)
\* A sequence of any values is one of its own elements.
Sequential(s) == s \in Seq(ToSet(s))

LEMMA OneElement == ToSet(<<>>) = {} /\ \A a : ToSet(<<a>>) = {a}
BY DEF ToSet

LEMMA IntoSeq ==
    ASSUME NEW S, NEW s \in Seq(S)
    PROVE  Sequential(s) /\ ToSet(s) \subseteq S
<1>1. \A i \in 1 .. Len(s) : s[i] \in ToSet(s)
  BY DEF ToSet
<1>2. s = [i \in 1 .. Len(s) |-> s[i]] /\ Len(s) \in Nat
  OBVIOUS
<1>3. Sequential(s)
  BY <1>1, <1>2, IsASeq DEF Sequential
<1> QED BY <1>3 DEF ToSet

LEMMA Wider ==
    ASSUME NEW s, Sequential(s), NEW T, ToSet(s) \subseteq T
    PROVE  s \in Seq(T)
BY SeqMonotonic DEF Sequential

LEMMA Appended ==
    ASSUME NEW s, Sequential(s), NEW e
    PROVE  /\ Sequential(Append(s, e))
           /\ ToSet(Append(s, e)) = ToSet(s) \union {e}
           /\ DOMAIN Append(s, e) = 1 .. Len(s) + 1
           /\ DOMAIN s = 1 .. Len(s) /\ Len(s) \in Nat
           /\ \A i \in DOMAIN s : Append(s, e)[i] = s[i]
           /\ Append(s, e)[Len(s) + 1] = e
<1> DEFINE S == ToSet(s) \union {e}
<1>1. s \in Seq(S) /\ e \in S
  BY Wider
<1> HIDE DEF S
<1>2. /\ Append(s, e) \in Seq(S) /\ Len(Append(s, e)) = Len(s) + 1
      /\ \A i \in 1 .. Len(s) : Append(s, e)[i] = s[i]
      /\ Append(s, e)[Len(s) + 1] = e /\ Len(s) \in Nat /\ DOMAIN s = 1 .. Len(s)
  BY <1>1, AppendProperties
<1>3. DOMAIN Append(s, e) = 1 .. Len(s) + 1
  BY <1>2
<1>4. ToSet(Append(s, e)) \subseteq ToSet(s) \union {e}
  BY <1>2, <1>3 DEF ToSet
<1>5. ToSet(s) \subseteq ToSet(Append(s, e)) /\ e \in ToSet(Append(s, e))
  BY <1>2, <1>3 DEF ToSet
<1> QED BY <1>2, <1>3, <1>4, <1>5, IntoSeq

LEMMA Taken ==
    ASSUME NEW s, Sequential(s), s # <<>>
    PROVE  /\ Sequential(Tail(s)) /\ ToSet(Tail(s)) \subseteq ToSet(s)
           /\ Head(s) \in ToSet(s) /\ Head(s) = s[1] /\ 1 \in DOMAIN s
           /\ \A i \in DOMAIN Tail(s) : i + 1 \in DOMAIN s /\ i + 1 # 1 /\ Tail(s)[i] = s[i + 1]
           /\ \A i \in DOMAIN s : i = 1 \/ (i - 1 \in DOMAIN Tail(s) /\ Tail(s)[i - 1] = s[i])
<1>1. s \in Seq(ToSet(s))
  BY DEF Sequential
<1>2. /\ Head(s) \in ToSet(s) /\ Tail(s) \in Seq(ToSet(s)) /\ Len(Tail(s)) = Len(s) - 1
      /\ \A i \in 1 .. Len(Tail(s)) : Tail(s)[i] = s[i + 1]
  BY <1>1, HeadTailProperties
<1>3. DOMAIN s = 1 .. Len(s) /\ DOMAIN Tail(s) = 1 .. Len(s) - 1 /\ Len(s) \in Nat \ {0}
  BY <1>1, <1>2
<1>4. Head(s) = s[1]
  BY <1>1
<1>5. ToSet(Tail(s)) \subseteq ToSet(s)
  BY <1>2, IntoSeq
<1>6. Sequential(Tail(s))
  BY <1>2, IntoSeq
<1> QED BY <1>2, <1>3, <1>4, <1>5, <1>6

LEMMA Joined ==
    ASSUME NEW s, Sequential(s), NEW t, Sequential(t)
    PROVE  Sequential(s \o t) /\ ToSet(s \o t) = ToSet(s) \union ToSet(t)
<1> DEFINE S == ToSet(s) \union ToSet(t)
<1>1. s \in Seq(S) /\ t \in Seq(S)
  BY Wider
<1> HIDE DEF S
<1>2. /\ s \o t \in Seq(S) /\ Len(s \o t) = Len(s) + Len(t)
      /\ \A i \in 1 .. Len(s) + Len(t) : (s \o t)[i] = IF i <= Len(s) THEN s[i] ELSE t[i - Len(s)]
  BY <1>1, ConcatProperties
<1>3. Sequential(s \o t) /\ ToSet(s \o t) \subseteq ToSet(s) \union ToSet(t)
  BY <1>2, IntoSeq DEF S
<1>4. /\ DOMAIN s = 1 .. Len(s) /\ DOMAIN t = 1 .. Len(t) /\ Len(s) \in Nat /\ Len(t) \in Nat
      /\ DOMAIN (s \o t) = 1 .. Len(s) + Len(t)
  BY <1>1, <1>2
<1>5. ASSUME NEW i \in DOMAIN s PROVE s[i] \in ToSet(s \o t)
  <2>1. i \in DOMAIN (s \o t) /\ (s \o t)[i] = s[i]
    BY <1>2, <1>4
  <2> QED BY <2>1 DEF ToSet
<1>6. ASSUME NEW i \in DOMAIN t PROVE t[i] \in ToSet(s \o t)
  <2>1. /\ i + Len(s) \in 1 .. Len(s) + Len(t) /\ ~(i + Len(s) <= Len(s))
        /\ i + Len(s) - Len(s) = i
    BY <1>4
  <2>2. i + Len(s) \in DOMAIN (s \o t) /\ (s \o t)[i + Len(s)] = t[i]
    BY <1>2, <1>4, <2>1
  <2> QED BY <2>2 DEF ToSet
<1>7. ToSet(s) \union ToSet(t) \subseteq ToSet(s \o t)
  BY <1>5, <1>6 DEF ToSet
<1> QED BY <1>3, <1>7

LEMMA ListOf ==
    ASSUME NEW S, IsFiniteSet(S)
    PROVE  Sequential(SetToSeq(S)) /\ ToSet(SetToSeq(S)) = S
<1> DEFINE n == Cardinality(S)
           s == SetToSeq(S)
<1>1. n \in Nat /\ ExistsBijection(1 .. n, S)
  BY FS_CardinalityType
<1>2. PICK f \in [1 .. n -> S] : IsInjective(f)
  BY <1>1, Zenon DEF ExistsBijection, Bijection, Injection
<1>3. s \in [1 .. n -> S] /\ IsInjective(s)
  BY <1>2, Zenon DEF SetToSeq
<1> HIDE DEF s
<1>4. s \in Seq(S)
  <2>1. s = [i \in 1 .. n |-> s[i]] /\ \A i \in 1 .. n : s[i] \in S
    BY <1>3
  <2> HIDE DEF n
  <2> QED BY <1>1, <2>1, IsASeq
<1>5. IsFiniteSet(1 .. n) /\ Cardinality(1 .. n) = n
  <2> HIDE DEF n
  <2> QED BY <1>1, FS_Interval
<1>6. s \in Injection(1 .. n, S)
  BY <1>3, Zenon DEF Injection
<1>7. s \in Surjection(1 .. n, S)
  BY <1>5, <1>6, FS_Injection
<1>8. S \subseteq ToSet(s)
  <2>1. \A x \in S : \E i \in 1 .. n : s[i] = x
    BY <1>7, Zenon DEF Surjection
  <2>2. DOMAIN s = 1 .. n
    BY <1>3
  <2> QED BY <2>1, <2>2 DEF ToSet
<1>9. Sequential(s) /\ ToSet(s) \subseteq S
  BY <1>4, IntoSeq
<1> QED BY <1>8, <1>9 DEF s

LEMMA PairsFinite ==
    ASSUME NEW p, NEW names, IsFiniteSet(names)
    PROVE  IsFiniteSet({<<k, p[k]>> : k \in names})
<1> DEFINE f == [k \in names |-> <<k, p[k]>>]
           S == {<<k, p[k]>> : k \in names}
<1>1. f \in [names -> S] /\ \A x \in S : \E k \in names : f[k] = x
  OBVIOUS
<1>2. f \in Surjection(names, S)
  BY <1>1 DEF Surjection
<1> QED BY <1>2, FS_Surjection

LEMMA EventsAre ==
    ASSUME NEW p, NEW names, IsFiniteSet(names)
    PROVE  Sequential(Events(p, names)) /\ ToSet(Events(p, names)) = {<<k, p[k]>> : k \in names}
BY PairsFinite, ListOf DEF Events

LEMMA MessagesAre ==
    ASSUME NEW topic, NEW list, Sequential(list)
    PROVE  /\ Sequential(Messages(topic, list))
           /\ \A m \in ToSet(Messages(topic, list)) :
                m.topic = topic /\ m.value \in ToSet(list)
           /\ \A v \in ToSet(list) : [topic |-> topic, value |-> v] \in ToSet(Messages(topic, list))
<1> DEFINE ms == Messages(topic, list)
           S == {[topic |-> topic, value |-> v] : v \in ToSet(list)}
<1>1. DOMAIN list = 1 .. Len(list) /\ Len(list) \in Nat
  BY DEF Sequential
<1>2. \A i \in 1 .. Len(list) : list[i] \in ToSet(list)
  BY <1>1 DEF ToSet
<1>3. ms = [i \in 1 .. Len(list) |-> [topic |-> topic, value |-> list[i]]]
  BY <1>1 DEF Messages
<1>4. \A i \in 1 .. Len(list) : [topic |-> topic, value |-> list[i]] \in S
  BY <1>2
<1> HIDE DEF S
<1>5. ms \in Seq(S)
  BY <1>1, <1>3, <1>4, IsASeq
<1>6. Sequential(ms) /\ ToSet(ms) \subseteq S
  BY <1>5, IntoSeq
<1>7. \A m \in S : m.topic = topic /\ m.value \in ToSet(list)
  BY DEF S
<1>8. ASSUME NEW v \in ToSet(list) PROVE [topic |-> topic, value |-> v] \in ToSet(ms)
  <2>1. PICK i \in 1 .. Len(list) : list[i] = v
    BY <1>1 DEF ToSet
  <2>2. i \in DOMAIN ms /\ ms[i] = [topic |-> topic, value |-> v]
    BY <1>3, <2>1
  <2> HIDE DEF ms
  <2> QED BY <2>2 DEF ToSet
<1> QED BY <1>6, <1>7, <1>8

(* -------------------------------- the invariant ----------------------------- *)
\* Where the main thread waits for an answer, and which service it has asked there.
Asking == {"settings", "pull", "list", "got", "set", "wp pulled", "pushed", "called",
           "mode sent", "opened", "written", "closed", "checksum"}
Resting == {"start", "have", "wait points", "wait home", "wait done", "wait report", "closing", "ended"}
AskedBy == {<<"settings", "get settings">>, <<"pull", "pull">>, <<"list", "list">>, <<"got", "get">>,
            <<"set", "set">>, <<"wp pulled", "wp pull">>, <<"pushed", "wp push">>,
            <<"pushed", "wp clear">>, <<"called", "command">>, <<"mode sent", "set_mode">>,
            <<"opened", "open">>, <<"written", "write">>, <<"closed", "close">>,
            <<"checksum", "checksum">>}
Mine == {r \in ToSet(requests) : r.by = "main"}
NoReply == inbox = <<>> /\ answer = <<>>
Outstanding == NoReply /\ Mine # {}
Replied ==
    /\ Mine = {}
    /\ \/ inbox # <<>> /\ inbox = <<inbox[1]>> /\ answer = <<>>
       \/ inbox = <<>> /\ answer # <<>> /\ answer = <<answer[1]>>
Answers == ToSet(inbox) \union ToSet(answer)

\* The main thread has one call under way where it waits for one, else none; the spinner
\* calls only once.
Calls ==
    /\ Sequential(requests)
    /\ \A i, j \in DOMAIN requests :
         requests[i].by = "main" /\ requests[j].by = "main" => i = j
    /\ \A r \in Mine : <<main.at, r.service>> \in AskedBy
    /\ \A r \in ToSet(requests) \ Mine : spin = "calls" /\ r.service \in {"set", "takeoff"}
    /\ \A r \in ToSet(requests) : r.service = "set" => IsFiniteSet(DOMAIN r.arg)
    /\ main.at \in Asking => Outstanding \/ Replied
    /\ main.at \notin Asking => NoReply /\ Mine = {}

\* Where a command can be.
Way(at) ==
    /\ at = "settings" => task.command \in {"load", "dump", "checkid"}
    /\ at \in {"pull", "list", "got", "have"} => task.command \in {"get", "set", "load", "dump"}
    /\ at = "set" => task.command \in {"set", "load"}
    /\ at \in {"wp pulled", "wait points"} => task.command \in {"wp dump", "wp show"}
    /\ at = "wait home" => task.command = "wp load"
    /\ at = "pushed" => task.command \in {"wp load", "wp clear"}
    /\ at = "called" => task.command = "call"
    /\ at = "mode sent" => task.command = "mode"
    /\ at = "wait done" => task.command \in {"takeoff_cur", "wait_fcu", "mode"}
    /\ at = "wait report" => task.command = "checkid"
    /\ at \in {"opened", "written", "closed"} => task.command = "upload"
    /\ at = "checksum" => task.command \in {"upload", "verify"}
Threads ==
    /\ TaskAssumption(task)
    /\ main = [at |-> main.at, told |-> main.told] /\ main.at \in Asking \union Resting
    /\ main.told = "done" => main.at \in {"closing", "ended"}
    /\ spin \in {"spins", "calls", "dead", "ended"}
    /\ spin = "ended" <=> main.at = "ended"
    /\ spin = "dead" => task.command = "wp load"
    /\ Way(main.at)

IsFcn(f) == f = [x \in DOMAIN f |-> f[x]]
IsPy(p) == p = [dict |-> p.dict, topic |-> p.topic, points |-> p.points, done |-> p.done,
                raised |-> p.raised, offset |-> p.offset, crc |-> p.crc, file |-> p.file]
IsMavros(m) == m = [params |-> m.params, mission |-> m.mission, latched |-> m.latched,
                    mode |-> m.mode, flying |-> m.flying, commands |-> m.commands,
                    remote |-> m.remote, cached |-> m.cached, news |-> m.news, before |-> m.before]
Objects ==
    /\ IsPy(py) /\ IsFcn(py.dict)
    /\ IsMavros(mavros) /\ IsFcn(mavros.params) /\ IsFiniteSet(DOMAIN mavros.params)
    /\ mavros.news \in Int /\ mavros.news <= MaxNews /\ mavros.before \in Seq(Nat)
    /\ mavros.cached \subseteq DOMAIN mavros.params

\* The process subscribes to one topic, and hears nothing else.
Unheard(at) == at \in {"start", "wp pulled"} \/ (at = "settings" /\ task.command \in {"load", "checkid"})
Topics == {"event", "points", "fix", "state", "source"}
Hears(topic) ==
    /\ topic \in Topics \union {"none"}
    /\ topic = "event" => task.command \in {"get", "set", "load", "dump"}
    /\ topic = "points" => task.command \in {"wp dump", "wp show", "wp load"}
    /\ topic = "fix" => task.command = "takeoff_cur"
    /\ topic = "state" => task.command \in {"mode", "wait_fcu"}
    /\ topic = "source" => task.command = "checkid"
Heard ==
    /\ Sequential(topics) /\ Hears(py.topic)
    /\ \A m \in ToSet(topics) : m.topic = py.topic /\ m.topic \in Topics
    /\ Unheard(main.at) => py.topic = "none"
Flow == Calls /\ Threads /\ Objects /\ Heard

\* Parameters.  Until the list has been taken, the spinner has put nothing into the
\* dictionary, or it hangs in the first event.
Early == main.at \in {"start", "pull", "list", "got"} \/ (main.at = "settings" /\ task.command = "load")
Empty == Early /\ spin = "spins" /\ task.command \in {"set", "load", "dump"} => DOMAIN py.dict = {}
\* What is asked for is what mavros has received, and its events are heard from then on.
ListFlow ==
    task.command \in {"set", "load", "dump"} =>
        /\ main.at \in {"pull", "list", "got", "have", "set"} => py.topic = "event"
        /\ Untouched => /\ main.at = "list" => \A a \in Answers : a = mavros.cached
                        /\ main.at = "got" => \A r \in Mine : r.arg = mavros.cached
\* A value that is not the vehicle's, although it was set, is in the dictionary, so that the
\* event that says so makes the spinner call.
AllSet == \A k \in DOMAIN task.values :
            k \in DOMAIN mavros.params /\ (mavros.params[k] = task.values[k] \/ Pending(k))
Noticed == \A k \in DOMAIN task.values : k \in DOMAIN py.dict /\ py.dict[k] = task.values[k]
SetFlow ==
    task.command \in {"set", "load"} /\ Untouched /\ spin # "calls" =>
        /\ main.at = "got" => \A a \in Answers : a = Received
        /\ main.at = "have" => py.dict = Received
        /\ main.at = "set" =>
             /\ \A r \in Mine :
                  /\ DOMAIN r.arg \subseteq DOMAIN task.values
                  /\ \A k \in DOMAIN task.values :
                       IF k \in DOMAIN r.arg THEN r.arg[k] = task.values[k]
                       ELSE k \in DOMAIN mavros.params /\ mavros.params[k] = task.values[k]
             /\ Noticed /\ ({} \in Answers => AllSet)
        /\ main.told = "done" => Noticed /\ AllSet

OfVehicle(f) == DOMAIN f \subseteq mavros.cached /\ \A k \in DOMAIN f : f[k] = Known[k]
DumpFlow ==
    task.command = "dump" /\ Untouched =>
        /\ mavros.params = Known /\ OfVehicle(py.dict)
        /\ \A m \in ToSet(topics) : \E k \in mavros.cached : m.value = <<k, Known[k]>>
        /\ \A r \in ToSet(requests) : r.service = "set" => OfVehicle(r.arg)
        /\ main.at = "got" => \A a \in Answers : a = Received
        /\ main.at = "have" /\ spin = "spins" => py.dict = Received
        /\ main.at = "settings" /\ (spin = "spins" \/ answer # <<>>) => py.dict = Received
        /\ main.told = "done" => py.file = <<Received>>

\* Missions.
SameMission ==
    /\ mavros.mission = mavros.before /\ mavros.latched = mavros.before
    /\ \A m \in ToSet(topics) : m.value = mavros.before
ShowFlow ==
    task.command \in {"wp dump", "wp show"} /\ Untouched =>
        /\ SameMission /\ (py.done => py.points = mavros.before)
        /\ main.told = "done" => py.file = mavros.before

WithHome == [i \in DOMAIN task.mission |-> IF i = 1 /\ mavros.before # <<>> THEN mavros.before[1]
                                           ELSE task.mission[i]]
Pushing(r) == WholePush(Replaced(mavros.before, r.arg.from, r.arg.points))
LoadFlow ==
    task.command = "wp load" =>
        /\ main.at = "start" => py.file = task.mission /\ ~py.done
        /\ main.at = "wait home" => task.from = 0 /\ task.home
        /\ \A r \in Mine : r.service = "wp push"
        /\ Untouched /\ main.at \in {"start", "wait home"} => SameMission
        /\ Untouched /\ main.at = "wait home" =>
             (py.done => py.file = WithHome) /\ (~py.done => py.file = task.mission)
        /\ Untouched /\ main.at = "pushed" =>
             /\ Mine # {} => mavros.mission = mavros.before
             /\ \A r \in Mine : Pushing(r)
             /\ Answers # {} /\ "failed" \notin Answers => WholePush(mavros.mission)
        /\ Untouched /\ main.told = "done" => WholePush(mavros.mission)

\* Commands, modes and files.
CallFlow ==
    task.command = "call" =>
        /\ py.offset \in Nat /\ mavros.commands \in Nat
        /\ main.at = "start" => py.offset = 0 /\ mavros.commands = 0
        /\ main.at = "called" =>
             /\ py.offset <= task.times
             /\ task.check # "done" =>
                  /\ Mine # {} => mavros.commands = py.offset - 1
                  /\ Answers # {} /\ "failed" \notin Answers => mavros.commands = py.offset
        /\ main.told = "done" /\ task.check # "done" => mavros.commands = task.times
ModeFlow ==
    task.command = "mode" /\ task.named =>
        /\ main.at = "start" => ~py.done
        /\ \A m \in ToSet(topics) : m.value = task.mode => mavros.mode = task.mode
        /\ py.done => mavros.mode = task.mode
        /\ main.told = "done" => mavros.mode = task.mode

\* The remote file begins with the first n bytes of the local one, and a new one ends there.
Holds(n) ==
    /\ Sequential(mavros.remote) /\ n <= Len(mavros.remote)
    /\ \A i \in 1 .. n : mavros.remote[i] = task.bytes[i]
    /\ ~task.overwrite => Len(mavros.remote) = n
FileFlow ==
    task.command = "upload" =>
        /\ Sequential(mavros.remote) /\ py.offset \in 0 .. Len(task.bytes)
        /\ main.at # "start" => py.file = task.bytes
        /\ main.at \in {"start", "opened"} => py.offset = 0 /\ py.crc = 0
        /\ main.at \in {"start", "opened", "written"} => ~py.raised
        /\ main.at = "opened" =>
             /\ \A r \in Mine : r.arg = IF task.overwrite THEN "w" ELSE "cw"
             /\ Answers # {} /\ "failed" \notin Answers => Holds(0)
        /\ main.at = "written" =>
             /\ \A r \in Mine :
                  /\ r.arg.offset \in 0 .. py.offset
                  /\ r.arg.bytes = SubSeq(task.bytes, r.arg.offset + 1, py.offset)
                  /\ Holds(r.arg.offset)
             /\ Answers # {} /\ "failed" \notin Answers => Holds(py.offset)
        /\ main.at = "closed" /\ ~py.raised => py.offset = Len(task.bytes)
        /\ (main.at = "closed" /\ ~py.raised) \/ main.at = "checksum" \/ main.told = "done" =>
             Holds(Len(task.bytes))
\* The checksum that is compared is that of the whole local file.
SumFlow ==
    task.command \in {"upload", "verify"} =>
        /\ task.command = "upload" /\ main.at \in {"start", "opened", "written", "closed"} =>
             py.offset \in 0 .. Len(task.bytes) /\ py.crc = nuttx_crc32(SubSeq(task.bytes, 1, py.offset), 0)
        /\ main.at = "checksum" =>
             /\ py.crc = nuttx_crc32(task.bytes, 0)
             /\ \A a \in Answers : a = NoChecksum \/ a = nuttx_crc32(mavros.remote, 0)
        /\ main.told = "done" /\ (task.command = "upload" => task.verify) => SameChecksum

IInv ==
    /\ Flow /\ Empty /\ ListFlow /\ SetFlow /\ DumpFlow
    /\ ShowFlow /\ LoadFlow /\ CallFlow /\ ModeFlow /\ FileFlow /\ SumFlow

(* ------------------------------- updates of records ------------------------- *)
\* An update changes the fields it names and no other.

LEMMA PyTopic ==
    ASSUME NEW p, IsPy(p), NEW v, NEW q, q = [p EXCEPT !.topic = v]
    PROVE  /\ IsPy(q) /\ q.topic = v /\ q.dict = p.dict /\ q.points = p.points
           /\ q.done = p.done /\ q.raised = p.raised /\ q.offset = p.offset /\ q.crc = p.crc
           /\ q.file = p.file
BY DEF IsPy

LEMMA PyDict ==
    ASSUME NEW p, IsPy(p), NEW v, NEW q, q = [p EXCEPT !.dict = v]
    PROVE  /\ IsPy(q) /\ q.dict = v /\ q.topic = p.topic /\ q.points = p.points
           /\ q.done = p.done /\ q.raised = p.raised /\ q.offset = p.offset /\ q.crc = p.crc
           /\ q.file = p.file
BY DEF IsPy

LEMMA PyFile ==
    ASSUME NEW p, IsPy(p), NEW v, NEW q, q = [p EXCEPT !.file = v]
    PROVE  /\ IsPy(q) /\ q.file = v /\ q.dict = p.dict /\ q.topic = p.topic
           /\ q.points = p.points /\ q.done = p.done /\ q.raised = p.raised
           /\ q.offset = p.offset /\ q.crc = p.crc
BY DEF IsPy

LEMMA PyOffset ==
    ASSUME NEW p, IsPy(p), NEW v, NEW q, q = [p EXCEPT !.offset = v]
    PROVE  /\ IsPy(q) /\ q.offset = v /\ q.dict = p.dict /\ q.topic = p.topic
           /\ q.points = p.points /\ q.done = p.done /\ q.raised = p.raised /\ q.crc = p.crc
           /\ q.file = p.file
BY DEF IsPy

(* ------------------------------ the call under way -------------------------- *)
LEMMA Moved ==
    ASSUME NEW p, p = [at |-> p.at, told |-> p.told], NEW at, NEW q, q = [p EXCEPT !.at = at]
    PROVE  q = [at |-> q.at, told |-> q.told] /\ q.at = at /\ q.told = p.told
OBVIOUS

\* An action of the main thread begins where nothing is under way.
Ready == Calls /\ Mine = {} /\ inbox = <<>> /\ answer' = <<>>
LEMMA Begins ==
    ASSUME Calls, \/ \E at \in Asking : Answered(at)
                  \/ main.at \notin Asking /\ UNCHANGED answer
    PROVE  Ready
<1>1. ASSUME NEW at \in Asking, Answered(at) PROVE Ready
  <2>1. main.at \in Asking /\ answer # <<>> /\ answer' = <<>>
    BY <1>1, Zenon DEF Answered
  <2>2. Outstanding \/ Replied
    BY <2>1, Zenon DEF Calls
  <2>3. Replied
    BY <2>1, <2>2, Zenon DEF Outstanding, NoReply
  <2> QED BY <2>1, <2>3, Zenon DEF Replied, Ready
<1>2. ASSUME main.at \notin Asking, UNCHANGED answer PROVE Ready
  BY <1>2, Zenon DEF Calls, NoReply, Ready
<1> QED BY <1>1, <1>2, Zenon

LEMMA TheAnswer ==
    ASSUME Calls, NEW at \in Asking, Answered(at)
    PROVE  answer[1] \in Answers /\ Answers = {answer[1]}
<1>1. main.at \in Asking /\ answer # <<>>
  BY Zenon DEF Answered
<1>2. Outstanding \/ Replied
  BY <1>1, Zenon DEF Calls
<1>3. inbox = <<>> /\ answer = <<answer[1]>>
  BY <1>1, <1>2, Zenon DEF Outstanding, NoReply, Replied
<1>4. ToSet(inbox) = {} /\ ToSet(answer) = {answer[1]}
  <2>1. ToSet(<<>>) = {}
    BY DEF ToSet
  <2>2. \A a : ToSet(<<a>>) = {a}
    BY DEF ToSet
  <2> QED BY <1>3, <2>1, <2>2
<1> QED BY <1>4 DEF Answers

LEMMA NoneYet ==
    ASSUME NoReply
    PROVE  Answers = {}
BY DEF NoReply, Answers, ToSet

LEMMA Asks ==
    ASSUME Ready, NEW at, NEW service, NEW arg, <<at, service>> \in AskedBy, at \in Asking,
           service = "set" => IsFiniteSet(DOMAIN arg),
           requests' = Append(requests, [by |-> "main", service |-> service, arg |-> arg]),
           main'.at = at, UNCHANGED inbox, spin = "calls" => spin' = "calls"
    PROVE  /\ Calls' /\ Mine' = {[by |-> "main", service |-> service, arg |-> arg]}
           /\ Answers' = {}
           /\ ToSet(requests') = ToSet(requests) \union {[by |-> "main", service |-> service, arg |-> arg]}
<1> DEFINE m == [by |-> "main", service |-> service, arg |-> arg]
<1>0. m.by = "main" /\ m.service = service /\ m.arg = arg
  OBVIOUS
<1> HIDE DEF m
<1>1. /\ Sequential(requests') /\ ToSet(requests') = ToSet(requests) \union {m}
      /\ DOMAIN requests' = 1 .. Len(requests) + 1 /\ DOMAIN requests = 1 .. Len(requests)
      /\ Len(requests) \in Nat /\ \A i \in DOMAIN requests : requests'[i] = requests[i]
      /\ requests'[Len(requests) + 1] = m
  BY Appended DEF Ready, Calls, m
<1>2. Mine' = {m}
  BY <1>0, <1>1 DEF Ready, Mine
<1>3. \A i \in DOMAIN requests : requests[i].by # "main"
  BY DEF Ready, Mine, ToSet
<1>4. \A i, j \in DOMAIN requests' : requests'[i].by = "main" /\ requests'[j].by = "main" => i = j
  BY <1>1, <1>3
<1>5. \A r \in Mine' : <<main'.at, r.service>> \in AskedBy
  BY <1>0, <1>2
<1>6. \A r \in ToSet(requests') \ Mine' : spin' = "calls" /\ r.service \in {"set", "takeoff"}
  BY <1>1, <1>2 DEF Ready, Calls, Mine
<1>7. \A r \in ToSet(requests') : r.service = "set" => IsFiniteSet(DOMAIN r.arg)
  BY <1>0, <1>1 DEF Ready, Calls
<1>8. NoReply' /\ Outstanding'
  BY <1>2 DEF Ready, NoReply, Outstanding
<1>9. Calls'
  BY <1>1, <1>4, <1>5, <1>6, <1>7, <1>8 DEF Calls
<1> QED BY <1>1, <1>2, <1>8, <1>9, NoneYet DEF m, NoReply, Answers, ToSet

LEMMA Rests ==
    ASSUME Ready, UNCHANGED <<requests, inbox>>, main'.at \notin Asking,
           spin = "calls" => spin' = "calls"
    PROVE  Calls' /\ Mine' = {} /\ Answers' = {}
<1>1. Mine' = {} /\ NoReply'
  BY DEF Ready, Mine, NoReply
<1>2. Calls'
  BY <1>1 DEF Ready, Calls, Mine
<1> QED BY <1>1, <1>2 DEF NoReply, Answers, ToSet

LEMMA SameCall ==
    ASSUME Calls, UNCHANGED <<requests, inbox, answer>>, main'.at = main.at,
           spin = "calls" => spin' = "calls"
    PROVE  Calls' /\ Mine' = Mine /\ Answers' = Answers
<1>1. /\ Mine' = Mine /\ (NoReply' <=> NoReply) /\ (Replied' <=> Replied)
      /\ (Outstanding' <=> Outstanding)
  BY DEF Mine, NoReply, Replied, Outstanding
<1>2. Calls'
  BY <1>1 DEF Calls
<1> QED BY <1>1, <1>2 DEF Answers

\* The spinner takes the answer.
LEMMA Takes ==
    ASSUME Calls, TakeAnswer
    PROVE  Calls' /\ Mine' = Mine /\ Answers' = Answers
<1>1. /\ inbox # <<>> /\ answer = <<>> /\ answer' = <<Head(inbox)>> /\ inbox' = Tail(inbox)
      /\ UNCHANGED <<requests, main, spin>>
  BY Zenon DEF TakeAnswer
<1>2. Mine' = Mine
  BY <1>1 DEF Mine
<1>3. main.at \in Asking /\ Replied
  BY <1>1 DEF Calls, NoReply, Outstanding
<1>4. Mine = {} /\ inbox = <<inbox[1]>>
  BY <1>1, <1>3 DEF Replied
<1>5. inbox' = <<>> /\ answer' = <<inbox[1]>>
  <2>1. \A a : Head(<<a>>) = a /\ Tail(<<a>>) = <<>>
    OBVIOUS
  <2> QED BY <1>1, <1>4, <2>1
<1>6. \A a : <<a>> # <<>> /\ <<a>>[1] = a /\ ToSet(<<a>>) = {a} /\ ToSet(<<>>) = {}
  BY DEF ToSet
<1>7. Replied'
  BY <1>2, <1>4, <1>5, <1>6 DEF Replied
<1>8. Answers' = Answers
  <2>1. Answers = {inbox[1]}
    BY <1>1, <1>4, <1>6 DEF Answers
  <2>2. Answers' = {inbox[1]}
    BY <1>5, <1>6 DEF Answers
  <2> QED BY <2>1, <2>2
<1>9. Calls'
  BY <1>1, <1>2, <1>3, <1>7 DEF Calls
<1> QED BY <1>2, <1>8, <1>9

\* The spinner calls, and is not seen again.
LEMMA Hangs ==
    ASSUME Calls, NEW service \in {"set", "takeoff"}, NEW arg, CallsFrom(service, arg),
           service = "set" => IsFiniteSet(DOMAIN arg), UNCHANGED <<main, inbox, answer>>
    PROVE  /\ Calls' /\ Mine' = Mine /\ Answers' = Answers
           /\ ToSet(requests') = ToSet(requests) \union {[by |-> "spinner", service |-> service, arg |-> arg]}
<1> DEFINE m == [by |-> "spinner", service |-> service, arg |-> arg]
<1>0. m.by # "main" /\ m.service = service /\ m.arg = arg
  OBVIOUS
<1>1. spin' = "calls" /\ requests' = Append(requests, m)
  BY DEF CallsFrom
<1> HIDE DEF m
<1>2. /\ Sequential(requests') /\ ToSet(requests') = ToSet(requests) \union {m}
      /\ DOMAIN requests' = 1 .. Len(requests) + 1 /\ DOMAIN requests = 1 .. Len(requests)
      /\ Len(requests) \in Nat /\ \A i \in DOMAIN requests : requests'[i] = requests[i]
      /\ requests'[Len(requests) + 1] = m
  BY <1>1, Appended DEF Calls
<1>3. Mine' = Mine
  BY <1>0, <1>2 DEF Mine
<1>4. \A i, j \in DOMAIN requests' : requests'[i].by = "main" /\ requests'[j].by = "main" => i = j
  BY <1>0, <1>2 DEF Calls
<1>5. \A r \in ToSet(requests') \ Mine' : spin' = "calls" /\ r.service \in {"set", "takeoff"}
  BY <1>0, <1>1, <1>2, <1>3 DEF Calls
<1>6. \A r \in ToSet(requests') : r.service = "set" => IsFiniteSet(DOMAIN r.arg)
  BY <1>0, <1>2 DEF Calls
<1>7. (NoReply' <=> NoReply) /\ (Replied' <=> Replied) /\ (Outstanding' <=> Outstanding)
  BY <1>3 DEF NoReply, Replied, Outstanding
<1>8. Calls'
  BY <1>2, <1>3, <1>4, <1>5, <1>6, <1>7 DEF Calls
<1> QED BY <1>2, <1>3, <1>8 DEF Answers, m

\* A service answers, to the main thread or to nobody.
LEMMA Served ==
    ASSUME Calls, requests # <<>>, requests' = Tail(requests), NEW a, Replies(Head(requests), a),
           UNCHANGED <<main, spin, answer>>
    PROVE  /\ Calls' /\ Head(requests) \in ToSet(requests) /\ ToSet(requests') \subseteq ToSet(requests)
           /\ \/ /\ Head(requests) \in Mine /\ Mine = {Head(requests)}
                 /\ Mine' = {} /\ Answers = {} /\ Answers' = {a}
              \/ Head(requests) \notin Mine /\ Mine' = Mine /\ Answers' = Answers
<1> DEFINE r == Head(requests)
<1>1. /\ Sequential(requests') /\ ToSet(requests') \subseteq ToSet(requests)
      /\ r \in ToSet(requests) /\ r = requests[1] /\ 1 \in DOMAIN requests
      /\ \A i \in DOMAIN requests' : i + 1 \in DOMAIN requests /\ i + 1 # 1 /\ requests'[i] = requests[i + 1]
      /\ \A i \in DOMAIN requests : i = 1 \/ (i - 1 \in DOMAIN requests' /\ requests'[i - 1] = requests[i])
      /\ DOMAIN requests' \subseteq Int
  <2>1. DOMAIN requests' \subseteq Int
    <3>1. Sequential(requests')
      BY Taken DEF Calls
    <3> QED BY <3>1 DEF Sequential
  <2> QED BY <2>1, Taken DEF Calls
<1>2. inbox' = IF r.by = "main" THEN Append(inbox, a) ELSE inbox
  BY DEF Replies
<1> HIDE DEF r
<1>3. \A i, j \in DOMAIN requests' : requests'[i].by = "main" /\ requests'[j].by = "main" => i = j
  <2> TAKE i, j \in DOMAIN requests'
  <2>1. i + 1 \in DOMAIN requests /\ j + 1 \in DOMAIN requests /\ i \in Int /\ j \in Int
        /\ requests'[i] = requests[i + 1] /\ requests'[j] = requests[j + 1]
    BY <1>1
  <2>2. requests[i + 1].by = "main" /\ requests[j + 1].by = "main" => i + 1 = j + 1
    BY <2>1 DEF Calls
  <2> QED BY <2>1, <2>2
<1>4. \A q \in ToSet(requests') : q.service = "set" => IsFiniteSet(DOMAIN q.arg)
  BY <1>1 DEF Calls
<1>5. \A q \in ToSet(requests') \ Mine' : spin' = "calls" /\ q.service \in {"set", "takeoff"}
  BY <1>1 DEF Calls, Mine
<1>6. Mine' \subseteq Mine
  BY <1>1 DEF Mine
<1>7. \A q \in Mine' : <<main'.at, q.service>> \in AskedBy
  BY <1>6 DEF Calls
<1>8. ASSUME r.by = "main"
      PROVE  r \in Mine /\ Mine = {r} /\ Mine' = {} /\ Answers = {} /\ Answers' = {a} /\ Calls'
  <2>1. r \in Mine
    BY <1>1, <1>8 DEF Mine
  <2>2. main.at \in Asking /\ Outstanding
    BY <2>1 DEF Calls, Replied
  <2>3. inbox' = <<a>> /\ answer' = <<>> /\ inbox = <<>> /\ answer = <<>>
    <3>1. Append(<<>>, a) = <<a>>
      OBVIOUS
    <3> QED BY <1>2, <1>8, <2>2, <3>1 DEF Outstanding, NoReply
  <2>4. Mine = {r}
    BY <1>1, <1>8, <2>1 DEF Calls, Mine, ToSet
  <2>5. Mine' = {}
    <3> SUFFICES ASSUME NEW i \in DOMAIN requests', requests'[i].by = "main" PROVE FALSE
      BY DEF Mine, ToSet
    <3> QED BY <1>1, <1>8 DEF Calls
  <2>6. <<a>> # <<>> /\ <<a>>[1] = a /\ ToSet(<<a>>) = {a} /\ ToSet(<<>>) = {}
    BY DEF ToSet
  <2>7. Replied'
    BY <2>3, <2>5, <2>6 DEF Replied
  <2>8. Answers = {} /\ Answers' = {a}
    BY <2>3, <2>6 DEF Answers
  <2>9. Calls'
    BY <1>1, <1>3, <1>4, <1>5, <1>7, <2>2, <2>7 DEF Calls
  <2> QED BY <2>1, <2>4, <2>5, <2>8, <2>9
<1>9. ASSUME r.by # "main"
      PROVE  r \notin Mine /\ Mine' = Mine /\ Answers' = Answers /\ Calls'
  <2>1. r \notin Mine /\ UNCHANGED inbox
    BY <1>2, <1>9 DEF Mine
  <2>2. Mine \subseteq Mine'
    <3> SUFFICES ASSUME NEW i \in DOMAIN requests, requests[i].by = "main" PROVE requests[i] \in Mine'
      BY DEF Mine, ToSet
    <3>1. i # 1
      BY <1>1, <1>9
    <3>2. i - 1 \in DOMAIN requests' /\ requests'[i - 1] = requests[i]
      BY <1>1, <3>1
    <3> QED BY <3>2 DEF Mine, ToSet
  <2>3. Mine' = Mine
    BY <1>6, <2>2
  <2>4. (NoReply' <=> NoReply) /\ (Replied' <=> Replied) /\ (Outstanding' <=> Outstanding)
    BY <2>1, <2>3 DEF NoReply, Replied, Outstanding
  <2>5. Calls'
    BY <1>1, <1>3, <1>4, <1>5, <1>7, <2>3, <2>4 DEF Calls
  <2> QED BY <2>1, <2>3, <2>5 DEF Answers
<1> QED BY <1>1, <1>8, <1>9 DEF r

(* ------------------------------- the main thread ---------------------------- *)
LEMMA SameHeard ==
    ASSUME Heard, UNCHANGED <<topics, task>>, py'.topic = py.topic, Unheard(main'.at) => Unheard(main.at)
    PROVE  Heard'
BY DEF Heard, Hears, Unheard

LEMMA Silent ==
    ASSUME Heard, Unheard(main.at)
    PROVE  ToSet(topics) = {} /\ topics = <<>>
<1>1. ToSet(topics) = {}
  BY DEF Heard, Hears, Topics
<1>2. topics \in Seq({})
  BY <1>1 DEF Heard, Sequential
<1> QED BY <1>1, <1>2

\* A subscription hears the last message first, of the topics that keep it.
LEMMA NewHeard ==
    ASSUME Heard, Unheard(main.at), UNCHANGED <<task, mavros>>, ~Unheard(main'.at),
           NEW t \in Topics, Hears(t), py'.topic = t,
           UNCHANGED topics \/ Subscribe(t)
    PROVE  /\ Heard'
           /\ \A m \in ToSet(topics') : m.topic = t /\ m.value \in ToSet(Latched(t))
<1>1. ToSet(topics) = {} /\ topics = <<>>
  BY Silent
<1>2. Sequential(Latched(t))
  <2>1. \A a : Sequential(<<a>>)
    BY DEF Sequential, ToSet
  <2>2. Sequential(<<>>)
    BY DEF Sequential
  <2>3. Latched(t) = <<mavros.latched>> \/ Latched(t) = <<mavros.mode>> \/ Latched(t) = <<>>
    BY Zenon DEF Latched
  <2> QED BY <2>1, <2>2, <2>3
<1>3. ASSUME UNCHANGED topics
      PROVE Sequential(topics') /\ \A m \in ToSet(topics') : m.topic = t /\ m.value \in ToSet(Latched(t))
  BY <1>1, <1>3 DEF Heard
<1>4. ASSUME Subscribe(t)
      PROVE Sequential(topics') /\ \A m \in ToSet(topics') : m.topic = t /\ m.value \in ToSet(Latched(t))
  <2>1. topics' = topics \o Messages(t, Latched(t))
    BY <1>4 DEF Subscribe
  <2>2. Sequential(topics') /\ ToSet(topics') \subseteq ToSet(topics) \union ToSet(Messages(t, Latched(t)))
    BY <1>2, <2>1, Joined, MessagesAre DEF Heard
  <2> QED BY <1>1, <1>2, <2>2, MessagesAre
<1>5. Sequential(topics') /\ \A m \in ToSet(topics') : m.topic = t /\ m.value \in ToSet(Latched(t))
  BY <1>3, <1>4
<1>6. Hears(t)'
  BY DEF Hears
<1>7. Heard'
  BY <1>5, <1>6 DEF Heard, Unheard
<1> QED BY <1>5, <1>7

\* What a step of the main thread leaves behind.
Same == UNCHANGED <<task, spin, mavros>>
AsksFor(at, service, arg) ==
    /\ Mine' = {[by |-> "main", service |-> service, arg |-> arg]} /\ Answers' = {}
    /\ ToSet(requests') = ToSet(requests) \union {[by |-> "main", service |-> service, arg |-> arg]}
    /\ main'.at = at /\ main'.told = main.told
RestsAt(at) ==
    /\ Mine' = {} /\ Answers' = {} /\ UNCHANGED requests
    /\ main'.at = at /\ main'.told = main.told
Ends(told) == Mine' = {} /\ Answers' = {} /\ UNCHANGED <<requests, topics>> /\
    main'.at = "closing" /\ main'.told = told
Begun == main.at \notin {"closing", "ended"}

LEMMA AskFlow ==
    ASSUME Flow, Ready, Begun, NEW at \in Asking, NEW service, NEW arg,
           requests' = Append(requests, [by |-> "main", service |-> service, arg |-> arg]),
           main' = [main EXCEPT !.at = at], UNCHANGED inbox, Same,
           <<at, service>> \in AskedBy, service = "set" => IsFiniteSet(DOMAIN arg),
           Way(at), Heard', IsPy(py'), IsFcn(py'.dict)
    PROVE  Flow' /\ AsksFor(at, service, arg) /\ Same
<1>1. main' = [at |-> main'.at, told |-> main'.told] /\ main'.at = at /\ main'.told = main.told
  BY Moved DEF Flow, Threads
<1>2. /\ Calls' /\ Mine' = {[by |-> "main", service |-> service, arg |-> arg]} /\ Answers' = {}
      /\ ToSet(requests') = ToSet(requests) \union {[by |-> "main", service |-> service, arg |-> arg]}
  BY <1>1, Asks DEF Same
<1>3. at # "ended" /\ main.told # "done"
  BY DEF Begun, Flow, Threads, Asking
<1>4. Threads'
  BY <1>1, <1>3, ZenonT(60) DEF Same, Flow, Threads, TaskAssumption, Begun, Way
<1>5. Objects'
  BY DEF Same, Flow, Objects
<1> QED BY <1>1, <1>2, <1>4, <1>5 DEF Flow, AsksFor

LEMMA RestFlow ==
    ASSUME Flow, Ready, Begun, NEW at \in Resting \ {"closing", "ended"},
           main' = [main EXCEPT !.at = at], UNCHANGED <<requests, inbox>>, Same,
           Way(at), Heard', IsPy(py'), IsFcn(py'.dict)
    PROVE  Flow' /\ RestsAt(at) /\ Same
<1>1. main' = [at |-> main'.at, told |-> main'.told] /\ main'.at = at /\ main'.told = main.told
  BY Moved DEF Flow, Threads
<1>2. at \notin Asking
  BY DEF Asking, Resting
<1>3. Calls' /\ Mine' = {} /\ Answers' = {}
  BY <1>1, <1>2, Rests DEF Same
<1>4. at # "ended" /\ main.told # "done"
  BY DEF Begun, Flow, Threads
<1>5. Threads'
  BY <1>1, <1>4, ZenonT(60) DEF Same, Flow, Threads, TaskAssumption, Begun, Way
<1>6. Objects'
  BY DEF Same, Flow, Objects
<1> QED BY <1>1, <1>3, <1>5, <1>6 DEF Flow, RestsAt

LEMMA EndFlow ==
    ASSUME Flow, Ready, Begun, NEW told, Tells(told), IsPy(py'), IsFcn(py'.dict), py'.topic = py.topic
    PROVE  Flow' /\ Ends(told) /\ Same
<1>1. main' = [at |-> "closing", told |-> told] /\ UNCHANGED <<task, spin, requests, inbox, topics, mavros>>
  BY DEF Tells, Quiet
<1>2. main'.at = "closing" /\ main'.told = told /\ main' = [at |-> main'.at, told |-> main'.told]
  BY <1>1
<1>3. "closing" \notin Asking /\ "closing" \in Resting
  BY DEF Asking, Resting
<1>4. Calls' /\ Mine' = {} /\ Answers' = {}
  BY <1>1, <1>2, <1>3, Rests
<1>5. Way(main'.at) /\ ~Unheard(main'.at)
  BY <1>2 DEF Way, Unheard
<1>6. Threads'
  BY <1>1, <1>2, <1>3, <1>5 DEF Flow, Threads, TaskAssumption, Begun, Way
<1>7. Objects'
  BY <1>1 DEF Flow, Objects
<1>8. Heard'
  BY <1>1, <1>5, SameHeard DEF Flow
<1> QED BY <1>1, <1>2, <1>4, <1>6, <1>7, <1>8 DEF Flow, Ends, Same

\* The same, of a step that hears nothing new.
Free ==
    \/ main.at \in Asking /\ Answered(main.at)
    \/ main.at \notin Asking /\ UNCHANGED answer
LEMMA IsReady ==
    ASSUME Flow, Free
    PROVE  Ready
BY Begins DEF Flow, Free

LEMMA AskOn ==
    ASSUME Flow, Free, Begun, NEW at \in Asking, NEW service, NEW arg, Ask(at, service, arg),
           <<at, service>> \in AskedBy, service = "set" => IsFiniteSet(DOMAIN arg),
           Way(at), Unheard(at) => Unheard(main.at), IsPy(py'), IsFcn(py'.dict), py'.topic = py.topic
    PROVE  Flow' /\ AsksFor(at, service, arg) /\ Same /\ UNCHANGED topics
<1>1. /\ main' = [main EXCEPT !.at = at]
      /\ requests' = Append(requests, [by |-> "main", service |-> service, arg |-> arg])
      /\ UNCHANGED <<task, spin, inbox, topics, mavros>>
  BY DEF Ask
<1>2. main'.at = at
  BY <1>1, Moved DEF Flow, Threads
<1>3. Heard'
  BY <1>1, <1>2, SameHeard DEF Flow
<1> QED BY <1>1, <1>3, IsReady, AskFlow DEF Same

LEMMA RestOn ==
    ASSUME Flow, Free, Begun, NEW at \in Resting \ {"closing", "ended"},
           main' = [main EXCEPT !.at = at], Quiet,
           Way(at), ~Unheard(at), IsPy(py'), IsFcn(py'.dict), py'.topic = py.topic
    PROVE  Flow' /\ RestsAt(at) /\ Same /\ UNCHANGED topics
<1>1. UNCHANGED <<task, spin, requests, inbox, topics, mavros>>
  BY DEF Quiet
<1>2. main'.at = at
  BY Moved DEF Flow, Threads
<1>3. Heard'
  BY <1>1, <1>2, SameHeard DEF Flow
<1> QED BY <1>1, <1>3, IsReady, RestFlow DEF Same

LEMMA EndOn ==
    ASSUME Flow, Free, Begun, NEW told, Tells(told), IsPy(py'), IsFcn(py'.dict), py'.topic = py.topic
    PROVE  Flow' /\ Ends(told) /\ Same
BY IsReady, EndFlow

\* A step that subscribes.
LEMMA RestHearing ==
    ASSUME Flow, Free, Begun, NEW at \in Resting \ {"closing", "ended"},
           main' = [main EXCEPT !.at = at], UNCHANGED <<task, spin, requests, inbox, mavros>>,
           Way(at), ~Unheard(at), Unheard(main.at), NEW t \in Topics, Hears(t),
           py' = [py EXCEPT !.topic = t], UNCHANGED topics \/ Subscribe(t)
    PROVE  /\ Flow' /\ RestsAt(at) /\ Same
           /\ \A m \in ToSet(topics') : m.topic = t /\ m.value \in ToSet(Latched(t))
<1>1. main'.at = at
  BY Moved DEF Flow, Threads
<1>2. IsPy(py') /\ py'.topic = t /\ IsFcn(py'.dict)
  <2>1. IsPy(py') /\ py'.topic = t /\ py'.dict = py.dict
    <3>1. IsPy(py)
      BY DEF Flow, Objects
    <3> QED BY <3>1, PyTopic
  <2> QED BY <2>1 DEF Flow, Objects, IsFcn
<1>3. Heard' /\ \A m \in ToSet(topics') : m.topic = t /\ m.value \in ToSet(Latched(t))
  BY <1>1, <1>2, NewHeard DEF Flow
<1> QED BY <1>2, <1>3, IsReady, RestFlow DEF Same

(* What every step of the main thread does; the first line of each is its guard. *)
LEMMA SettingsFlow ==
    ASSUME Flow, uas_settings
    PROVE  /\ \/ main.at = "start" /\ task.command \in {"load", "checkid"}
              \/ main.at = "have" /\ task.command = "dump"
           /\ Flow' /\ AsksFor("settings", "get settings", 0) /\ Same /\ UNCHANGED <<py, topics>>
           /\ answer' = answer
<1>1. /\ \/ main.at = "start" /\ task.command \in {"load", "checkid"}
         \/ main.at = "have" /\ task.command = "dump"
      /\ Ask("settings", "get settings", 0) /\ UNCHANGED <<py, answer>>
  BY Zenon DEF uas_settings
<1>2. Free /\ Begun /\ Way("settings") /\ (Unheard("settings") => Unheard(main.at))
  BY <1>1 DEF Free, Begun, Way, Unheard, Asking
<1>3. IsPy(py') /\ IsFcn(py'.dict) /\ py'.topic = py.topic
  BY <1>1 DEF Flow, Objects
<1> QED BY <1>1, <1>2, <1>3, AskOn DEF Asking, AskedBy

LEMMA PulledFlow ==
    ASSUME Flow, Pulled
    PROVE  /\ main.at = "pull" /\ Answered("pull")
           /\ Flow' /\ Same /\ UNCHANGED <<py, topics>>
           /\ IF Cardinality(DOMAIN py.dict) < Few THEN AsksFor("list", "list", 0)
              ELSE RestsAt("have")
<1>1. main.at = "pull" /\ Answered("pull") /\ UNCHANGED py
  BY DEF Pulled, Answered
<1>2. Free /\ Begun
  BY <1>1 DEF Free, Begun, Asking
<1>3. task.command \in {"get", "set", "load", "dump"}
  BY <1>1 DEF Flow, Threads, Way
<1>4. IsPy(py') /\ IsFcn(py'.dict) /\ py'.topic = py.topic
  BY <1>1 DEF Flow, Objects
<1>5. CASE Cardinality(DOMAIN py.dict) < Few
  <2>1. Ask("list", "list", 0)
    BY <1>5 DEF Pulled
  <2>2. Way("list") /\ ~Unheard("list")
    BY <1>3 DEF Way, Unheard
  <2> QED BY <1>1, <1>2, <1>4, <1>5, <2>1, <2>2, AskOn DEF Asking, AskedBy
<1>6. CASE ~(Cardinality(DOMAIN py.dict) < Few)
  <2>1. main' = [main EXCEPT !.at = "have"] /\ Quiet
    BY <1>6 DEF Pulled
  <2>2. Way("have") /\ ~Unheard("have")
    BY <1>3 DEF Way, Unheard
  <2> QED BY <1>1, <1>2, <1>4, <1>6, <2>1, <2>2, RestOn DEF Resting
<1> QED BY <1>5, <1>6

LEMMA ListedFlow ==
    ASSUME Flow, Listed
    PROVE  /\ main.at = "list" /\ Answered("list")
           /\ Flow' /\ AsksFor("got", "get", answer[1]) /\ Same /\ UNCHANGED <<py, topics>>
<1>1. main.at = "list" /\ Answered("list") /\ UNCHANGED py /\ Ask("got", "get", answer[1])
  BY DEF Listed, Answered
<1>2. task.command \in {"get", "set", "load", "dump"}
  BY <1>1 DEF Flow, Threads, Way
<1>3. Free /\ Begun /\ Way("got") /\ ~Unheard("got")
  BY <1>1, <1>2 DEF Free, Begun, Way, Unheard, Asking
<1>4. IsPy(py') /\ IsFcn(py'.dict) /\ py'.topic = py.topic
  BY <1>1 DEF Flow, Objects
<1> QED BY <1>1, <1>3, <1>4, AskOn DEF Asking, AskedBy

LEMMA GotFlow ==
    ASSUME Flow, Got
    PROVE  /\ main.at = "got" /\ Answered("got") /\ task.command \in {"get", "set", "load", "dump"}
           /\ Flow' /\ RestsAt("have") /\ Same /\ UNCHANGED topics
           /\ py'.dict = SetDefaults(py.dict, answer[1]) /\ py'.file = py.file
           /\ py'.topic = py.topic
<1>1. /\ main.at = "got" /\ Answered("got") /\ Quiet
      /\ py' = [py EXCEPT !.dict = SetDefaults(py.dict, answer[1])] /\ main' = [main EXCEPT !.at = "have"]
  BY DEF Got, Answered
<1>2. task.command \in {"get", "set", "load", "dump"}
  BY <1>1 DEF Flow, Threads, Way
<1>3. Free /\ Begun /\ Way("have") /\ ~Unheard("have")
  BY <1>1, <1>2 DEF Free, Begun, Way, Unheard, Asking
<1>4. IsPy(py') /\ py'.topic = py.topic /\ py'.dict = SetDefaults(py.dict, answer[1]) /\ py'.file = py.file
  <2>1. IsPy(py)
    BY DEF Flow, Objects
  <2> QED BY <1>1, <2>1, PyDict
<1>5. IsFcn(py'.dict)
  BY <1>4 DEF SetDefaults, IsFcn
<1> QED BY <1>1, <1>2, <1>3, <1>4, <1>5, RestOn DEF Resting

LEMMA ValuesFlow ==
    ASSUME Flow, values
    PROVE  /\ \/ main.at = "start" /\ task.command \in {"get", "set", "dump"}
              \/ main.at = "settings" /\ Answered("settings") /\ task.command = "load"
           /\ Flow' /\ AsksFor("pull", "pull", 0) /\ Same /\ UNCHANGED topics /\ ToSet(topics) = {}
           /\ py'.dict = py.dict /\ py'.topic = "event"
<1>1. /\ \/ main.at = "start" /\ task.command \in {"get", "set", "dump"} /\ UNCHANGED answer
         \/ main.at = "settings" /\ Answered("settings") /\ task.command = "load"
      /\ py' = [py EXCEPT !.topic = "event"] /\ Ask("pull", "pull", 0)
  BY Zenon DEF values, Answered
<1>2. /\ Free /\ Begun /\ Way("pull") /\ ~Unheard("pull") /\ Unheard(main.at) /\ Hears("event")
      /\ "event" \in Topics
  BY <1>1 DEF Free, Begun, Way, Unheard, Asking, Hears, Topics
<1>3. IsPy(py') /\ py'.topic = "event" /\ py'.dict = py.dict
  <2>1. IsPy(py)
    BY DEF Flow, Objects
  <2> QED BY <1>1, <2>1, PyTopic
<1>4. IsFcn(py'.dict)
  BY <1>3 DEF Flow, Objects, IsFcn
<1>5. /\ main' = [main EXCEPT !.at = "pull"] /\ Same /\ UNCHANGED <<inbox, topics>>
      /\ requests' = Append(requests, [by |-> "main", service |-> "pull", arg |-> 0])
  BY <1>1 DEF Ask, Same
<1>6. main'.at = "pull"
  BY <1>5, Moved DEF Flow, Threads
<1>7. Heard'
  BY <1>2, <1>3, <1>5, <1>6, NewHeard DEF Flow, Same
<1>8. ToSet(topics) = {}
  BY <1>2, Silent DEF Flow
<1>9. Ready /\ "pull" \in Asking /\ <<"pull", "pull">> \in AskedBy
  BY <1>2, IsReady DEF Asking, AskedBy
<1>10. Flow' /\ AsksFor("pull", "pull", 0)
  BY <1>2, <1>3, <1>4, <1>5, <1>7, <1>9, AskFlow
<1> QED BY <1>1, <1>3, <1>5, <1>8, <1>10

LEMMA AssignFlow ==
    ASSUME Flow, Assign
    PROVE  /\ main.at = "have" /\ task.command \in {"set", "load"}
           /\ Flow' /\ Same /\ UNCHANGED topics /\ py'.dict = SetItems(py.dict, task.values)
           /\ py'.topic = py.topic
           /\ \/ ToSend(py.dict, task.values) = {} /\ Ends("done")
              \/ AsksFor("set", "set", [k \in ToSend(py.dict, task.values) |-> task.values[k]])
<1> DEFINE keys == ToSend(py.dict, task.values)
<1>1. /\ main.at = "have" /\ task.command \in {"set", "load"} /\ UNCHANGED answer
      /\ py' = [py EXCEPT !.dict = SetItems(py.dict, task.values)]
      /\ IF keys = {} THEN Tells("done") ELSE Ask("set", "set", [k \in keys |-> task.values[k]])
  BY DEF Assign
<1>2. Free /\ Begun /\ Way("set") /\ ~Unheard("set")
  BY <1>1 DEF Free, Begun, Way, Unheard, Asking
<1>3. IsPy(py') /\ py'.topic = py.topic /\ py'.dict = SetItems(py.dict, task.values)
  <2>1. IsPy(py)
    BY DEF Flow, Objects
  <2> QED BY <1>1, <2>1, PyDict
<1>4. IsFcn(py'.dict)
  BY <1>3 DEF SetItems, IsFcn
<1>5. IsFiniteSet(keys)
  <2>1. IsFiniteSet(DOMAIN task.values)
    BY <1>1 DEF Flow, Threads, TaskAssumption
  <2> QED BY <2>1, FS_Subset DEF ToSend
<1>6. DOMAIN [k \in keys |-> task.values[k]] = keys
  OBVIOUS
<1> HIDE DEF keys
<1>7. CASE keys = {}
  BY <1>1, <1>2, <1>3, <1>4, <1>7, EndOn DEF Ends, keys
<1>8. CASE keys # {}
  BY <1>1, <1>2, <1>3, <1>4, <1>5, <1>6, <1>8, AskOn DEF Asking, AskedBy, keys
<1> QED BY <1>7, <1>8

LEMMA AssignedFlow ==
    ASSUME Flow, Assigned
    PROVE  /\ main.at = "set" /\ Answered("set")
           /\ Flow' /\ Ends(IF answer[1] = {} THEN "done" ELSE "raised") /\ Same /\ UNCHANGED py
<1>1. /\ main.at = "set" /\ Answered("set") /\ UNCHANGED py
      /\ Tells(IF answer[1] = {} THEN "done" ELSE "raised")
  BY DEF Assigned, Answered
<1>2. Free /\ Begun
  BY <1>1 DEF Free, Begun, Asking
<1>3. IsPy(py') /\ IsFcn(py'.dict) /\ py'.topic = py.topic
  BY <1>1 DEF Flow, Objects
<1> QED BY <1>1, <1>2, <1>3, EndOn

LEMMA ShownFlow ==
    ASSUME Flow, Show
    PROVE  /\ \/ main.at = "have" /\ task.command = "get" /\ Ends("done") /\ UNCHANGED py
              \/ main.at = "have" /\ task.command = "dump" /\ Ends("raised") /\ UNCHANGED py
              \/ /\ main.at = "settings" /\ Answered("settings") /\ task.command = "dump"
                 /\ Ends("done") /\ py'.file = <<py.dict>> /\ py'.dict = py.dict
           /\ Flow' /\ Same
<1>1. IsPy(py) /\ IsFcn(py.dict)
  BY DEF Flow, Objects
<1>2. ASSUME main.at = "have", task.command = "get", Tells("done"), UNCHANGED <<answer, py>>
      PROVE  Flow' /\ Same /\ Ends("done")
  <2>1. Free /\ Begun
    BY <1>2 DEF Free, Begun, Asking
  <2> QED BY <1>1, <1>2, <2>1, EndOn
<1>3. ASSUME main.at = "have", task.command = "dump", Tells("raised"), UNCHANGED <<answer, py>>
      PROVE  Flow' /\ Same /\ Ends("raised")
  <2>1. Free /\ Begun
    BY <1>3 DEF Free, Begun, Asking
  <2> QED BY <1>1, <1>3, <2>1, EndOn
<1>4. ASSUME Answered("settings"), task.command = "dump",
             py' = [py EXCEPT !.file = <<py.dict>>], Tells("done")
      PROVE  /\ Flow' /\ Same /\ Ends("done") /\ main.at = "settings"
             /\ py'.file = <<py.dict>> /\ py'.dict = py.dict
  <2>1. Free /\ Begun /\ main.at = "settings"
    BY <1>4 DEF Free, Begun, Asking, Answered
  <2>2. IsPy(py') /\ py'.topic = py.topic /\ py'.dict = py.dict /\ py'.file = <<py.dict>>
    BY <1>1, <1>4, PyFile
  <2> QED BY <1>1, <1>4, <2>1, <2>2, EndOn
<1> QED BY <1>2, <1>3, <1>4 DEF Show

LEMMA PullFlow ==
    ASSUME Flow, Pull
    PROVE  /\ main.at = "start" /\ task.command \in {"wp dump", "wp show"}
           /\ Flow' /\ AsksFor("wp pulled", "wp pull", 0) /\ Same /\ UNCHANGED <<py, topics>>
<1>1. /\ main.at = "start" /\ task.command \in {"wp dump", "wp show"}
      /\ Ask("wp pulled", "wp pull", 0) /\ UNCHANGED <<answer, py>>
  BY DEF Pull
<1>2. Free /\ Begun /\ Way("wp pulled") /\ Unheard(main.at)
  BY <1>1 DEF Free, Begun, Way, Unheard, Asking
<1>3. IsPy(py') /\ IsFcn(py'.dict) /\ py'.topic = py.topic
  BY <1>1 DEF Flow, Objects
<1> QED BY <1>1, <1>2, <1>3, AskOn DEF Asking, AskedBy

LEMMA OtherTopic ==
    ASSUME IsPy(py), NEW t, py' = [py EXCEPT !.topic = t]
    PROVE  /\ py'.dict = py.dict /\ py'.done = py.done
           /\ py'.points = py.points /\ py'.file = py.file
BY PyTopic

\* The topic of the points keeps its last message.
LEMMA PointsHeard ==
    ASSUME Flow, Free, SubscribePoints, main.at \in {"start", "wp pulled"},
           task.command \in {"wp dump", "wp show"}
    PROVE  /\ Flow' /\ RestsAt("wait points") /\ Same
           /\ py'.done = py.done /\ py'.points = py.points
           /\ \A m \in ToSet(topics') : m.value = mavros.latched
<1>1. /\ py' = [py EXCEPT !.topic = "points"] /\ Subscribe("points")
      /\ main' = [main EXCEPT !.at = "wait points"] /\ UNCHANGED <<task, spin, requests, inbox, mavros>>
  BY DEF SubscribePoints
<1>2. /\ Begun /\ Way("wait points") /\ ~Unheard("wait points") /\ Unheard(main.at)
      /\ Hears("points") /\ "points" \in Topics /\ "wait points" \in Resting \ {"closing", "ended"}
  BY DEF Begun, Way, Unheard, Hears, Topics, Resting
<1>3. /\ Flow' /\ RestsAt("wait points") /\ Same
      /\ \A m \in ToSet(topics') : m.value \in ToSet(Latched("points"))
  BY <1>1, <1>2, RestHearing
<1>4. ToSet(Latched("points")) = {mavros.latched}
  <2>1. Latched("points") = <<mavros.latched>>
    BY DEF Latched
  <2> QED BY <2>1, OneElement
<1>5. IsPy(py) /\ py' = [py EXCEPT !.topic = "points"]
  BY <1>1 DEF Flow, Objects
<1>6. py'.done = py.done /\ py'.points = py.points
  BY <1>5, OtherTopic, Zenon
<1> QED BY <1>3, <1>4, <1>6

LEMMA PointsFlow ==
    ASSUME Flow, PulledPoints \/ PointsAsTheyAre
    PROVE  /\ task.command \in {"wp dump", "wp show"} /\ Flow' /\ Same
           /\ \/ Ends("failed") /\ UNCHANGED py
              \/ /\ RestsAt("wait points") /\ py'.done = py.done /\ py'.points = py.points
                 /\ \A m \in ToSet(topics') : m.value = mavros.latched
<1>1. ASSUME PulledPoints PROVE /\ task.command \in {"wp dump", "wp show"} /\ Flow' /\ Same
           /\ \/ Ends("failed") /\ UNCHANGED py
              \/ /\ RestsAt("wait points") /\ py'.done = py.done /\ py'.points = py.points
                 /\ \A m \in ToSet(topics') : m.value = mavros.latched
  <2>1. /\ main.at = "wp pulled" /\ Answered("wp pulled")
        /\ (Tells("failed") /\ UNCHANGED py) \/ SubscribePoints
    BY <1>1, Zenon DEF PulledPoints, Answered
  <2>2. Free /\ Begun /\ task.command \in {"wp dump", "wp show"}
    BY <2>1 DEF Free, Begun, Asking, Flow, Threads, Way
  <2>3. CASE Tells("failed") /\ UNCHANGED py
    BY <2>2, <2>3, EndOn DEF Flow, Objects
  <2>4. CASE SubscribePoints
    BY <2>1, <2>2, <2>4, PointsHeard
  <2> QED BY <2>1, <2>2, <2>3, <2>4
<1>2. ASSUME PointsAsTheyAre PROVE /\ task.command \in {"wp dump", "wp show"} /\ Flow' /\ Same
           /\ RestsAt("wait points") /\ py'.done = py.done /\ py'.points = py.points
           /\ \A m \in ToSet(topics') : m.value = mavros.latched
  <2>1. main.at = "start" /\ task.command = "wp show" /\ SubscribePoints /\ UNCHANGED answer
    BY <1>2 DEF PointsAsTheyAre
  <2>2. Free
    BY <2>1 DEF Free, Asking
  <2> QED BY <2>1, <2>2, PointsHeard
<1> QED BY <1>1, <1>2

LEMMA SaveFlow ==
    ASSUME Flow, Save
    PROVE  /\ main.at = "wait points" /\ py.done
           /\ Flow' /\ Ends("done") /\ Same
           /\ py'.file = py.points /\ py'.done = py.done /\ py'.points = py.points
<1>1. /\ main.at = "wait points" /\ py.done /\ UNCHANGED answer
      /\ py' = [py EXCEPT !.file = py.points] /\ Tells("done")
  BY DEF Save
<1>2. Free /\ Begun /\ IsPy(py) /\ IsFcn(py.dict)
  BY <1>1 DEF Free, Begun, Asking, Flow, Objects
<1>3. /\ IsPy(py') /\ py'.topic = py.topic /\ py'.dict = py.dict
      /\ py'.file = py.points /\ py'.done = py.done /\ py'.points = py.points
  <2>1. IsPy(py) /\ py' = [py EXCEPT !.file = py.points]
    BY <1>1, <1>2
  <2> QED BY <2>1, PyFile
<1> QED BY <1>1, <1>2, <1>3, EndOn

LEMMA PushFlow ==
    ASSUME Flow, Push
    PROVE  /\ main.at = "start" /\ task.command = "wp load" /\ (task.from > 0 \/ ~task.home)
           /\ Flow' /\ Same /\ UNCHANGED <<py, topics>>
           /\ AsksFor("pushed", "wp push",
                [from |-> task.from,
                 points |-> IF task.from > 0 THEN Slice(py.file, task.from, task.to) ELSE py.file])
<1>1. /\ main.at = "start" /\ task.command = "wp load" /\ (task.from > 0 \/ ~task.home)
      /\ Ask("pushed", "wp push",
             [from |-> task.from,
              points |-> IF task.from > 0 THEN Slice(py.file, task.from, task.to) ELSE py.file])
      /\ UNCHANGED <<answer, py>>
  BY DEF Push
<1>2. Free /\ Begun /\ Way("pushed") /\ ~Unheard("pushed")
  BY <1>1 DEF Free, Begun, Way, Unheard, Asking
<1>3. IsPy(py') /\ IsFcn(py'.dict) /\ py'.topic = py.topic
  BY <1>1 DEF Flow, Objects
<1> QED BY <1>1, <1>2, <1>3, AskOn DEF Asking, AskedBy

LEMMA PreserveHomeFlow ==
    ASSUME Flow, PreserveHome
    PROVE  /\ main.at = "start" /\ task.command = "wp load" /\ task.from = 0 /\ task.home
           /\ Flow' /\ RestsAt("wait home") /\ Same
           /\ py'.done = py.done /\ py'.file = py.file
           /\ \A m \in ToSet(topics') : m.value = mavros.latched
<1>1. /\ main.at = "start" /\ task.command = "wp load" /\ task.from = 0 /\ task.home
      /\ py' = [py EXCEPT !.topic = "points"] /\ Subscribe("points")
      /\ main' = [main EXCEPT !.at = "wait home"]
      /\ UNCHANGED <<task, spin, requests, inbox, mavros, answer>>
  BY DEF PreserveHome
<1>2. /\ Begun /\ Way("wait home") /\ ~Unheard("wait home") /\ Unheard(main.at) /\ Free
      /\ Hears("points") /\ "points" \in Topics /\ "wait home" \in Resting \ {"closing", "ended"}
  BY <1>1 DEF Begun, Way, Unheard, Hears, Topics, Resting, Free, Asking
<1>3. /\ Flow' /\ RestsAt("wait home") /\ Same
      /\ \A m \in ToSet(topics') : m.value \in ToSet(Latched("points"))
  BY <1>1, <1>2, RestHearing
<1>4. ToSet(Latched("points")) = {mavros.latched}
  <2>1. Latched("points") = <<mavros.latched>>
    BY DEF Latched
  <2> QED BY <2>1, OneElement
<1>5. IsPy(py) /\ py' = [py EXCEPT !.topic = "points"]
  BY <1>1 DEF Flow, Objects
<1>6. py'.done = py.done /\ py'.file = py.file
  BY <1>5, OtherTopic, Zenon
<1> QED BY <1>1, <1>3, <1>4, <1>6

LEMMA PushHomeFlow ==
    ASSUME Flow, PushHome
    PROVE  /\ main.at = "wait home" /\ py.done /\ task.command = "wp load"
           /\ Flow' /\ AsksFor("pushed", "wp push", [from |-> 0, points |-> py.file])
           /\ Same /\ UNCHANGED <<py, topics>>
<1>1. /\ main.at = "wait home" /\ py.done /\ UNCHANGED <<answer, py>>
      /\ Ask("pushed", "wp push", [from |-> 0, points |-> py.file])
  BY DEF PushHome
<1>2. task.command = "wp load"
  BY <1>1 DEF Flow, Threads, Way
<1>3. Free /\ Begun /\ Way("pushed") /\ ~Unheard("pushed")
  BY <1>1, <1>2 DEF Free, Begun, Way, Unheard, Asking
<1>4. IsPy(py') /\ IsFcn(py'.dict) /\ py'.topic = py.topic
  BY <1>1 DEF Flow, Objects
<1> QED BY <1>1, <1>2, <1>3, <1>4, AskOn DEF Asking, AskedBy

LEMMA ClearFlow ==
    ASSUME Flow, Clear
    PROVE  task.command = "wp clear" /\ Flow' /\ Same
<1>1. /\ main.at = "start" /\ task.command = "wp clear" /\ Ask("pushed", "wp clear", 0)
      /\ UNCHANGED <<answer, py>>
  BY DEF Clear
<1>2. Free /\ Begun /\ Way("pushed") /\ ~Unheard("pushed")
  BY <1>1 DEF Free, Begun, Way, Unheard, Asking
<1>3. IsPy(py') /\ IsFcn(py'.dict) /\ py'.topic = py.topic
  BY <1>1 DEF Flow, Objects
<1> QED BY <1>1, <1>2, <1>3, AskOn DEF Asking, AskedBy

LEMMA PushedFlow ==
    ASSUME Flow, Pushed
    PROVE  /\ main.at = "pushed" /\ Answered("pushed")
           /\ Flow' /\ Ends(IF answer[1] = "failed" THEN "failed" ELSE "done") /\ Same /\ UNCHANGED py
<1>1. /\ main.at = "pushed" /\ Answered("pushed") /\ UNCHANGED py
      /\ Tells(IF answer[1] = "failed" THEN "failed" ELSE "done")
  BY DEF Pushed, Answered
<1>2. Free /\ Begun
  BY <1>1 DEF Free, Begun, Asking
<1>3. IsPy(py') /\ IsFcn(py'.dict) /\ py'.topic = py.topic
  BY <1>1 DEF Flow, Objects
<1> QED BY <1>1, <1>2, <1>3, EndOn

LEMMA SetCurrentFlow ==
    ASSUME Flow, SetCurrent
    PROVE  task.command = "wp setcur" /\ Flow' /\ Same
<1>1. main.at = "start" /\ task.command = "wp setcur" /\ Tells("raised") /\ UNCHANGED <<answer, py>>
  BY DEF SetCurrent
<1>2. Free /\ Begun
  BY <1>1 DEF Free, Begun, Asking
<1>3. IsPy(py') /\ IsFcn(py'.dict) /\ py'.topic = py.topic
  BY <1>1 DEF Flow, Objects
<1> QED BY <1>1, <1>2, <1>3, EndOn

LEMMA CallNextFlow ==
    ASSUME Flow, Free, Begun, CallNext, Way("called")
    PROVE  /\ Flow' /\ AsksFor("called", "command", 0) /\ Same /\ UNCHANGED topics
           /\ py'.offset = py.offset + 1
<1>1. IsPy(py) /\ IsFcn(py.dict)
  BY DEF Flow, Objects
<1>2. Ask("called", "command", 0) /\ py' = [py EXCEPT !.offset = py.offset + 1]
  BY DEF CallNext
<1>3. IsPy(py') /\ py'.topic = py.topic /\ py'.dict = py.dict /\ py'.offset = py.offset + 1
  BY <1>1, <1>2, PyOffset
<1>4. ~Unheard("called")
  BY DEF Unheard
<1> QED BY <1>1, <1>2, <1>3, <1>4, AskOn DEF Asking, AskedBy

LEMMA CallCommandFlow ==
    ASSUME Flow, CallCommand
    PROVE  /\ main.at = "start" /\ task.command = "call"
           /\ Flow' /\ AsksFor("called", "command", 0) /\ Same /\ UNCHANGED topics
           /\ py'.offset = py.offset + 1
<1>1. main.at = "start" /\ task.command = "call" /\ CallNext /\ UNCHANGED answer
  BY DEF CallCommand
<1>2. Free /\ Begun /\ Way("called")
  BY <1>1 DEF Free, Begun, Way, Asking
<1> QED BY <1>1, <1>2, CallNextFlow

LEMMA CalledFlow ==
    ASSUME Flow, Called
    PROVE  /\ main.at = "called" /\ Answered("called") /\ Flow' /\ Same
           /\ IF answer[1] = "failed" /\ task.check # "done" THEN Ends(task.check)
              ELSE IF py.offset < task.times
              THEN AsksFor("called", "command", 0) /\ py'.offset = py.offset + 1
              ELSE Ends("done")
           /\ (~(py.offset < task.times) \/ (answer[1] = "failed" /\ task.check # "done")) => UNCHANGED py
<1>1. main.at = "called" /\ Answered("called")
  BY DEF Called, Answered
<1>2. Free /\ Begun /\ Way("called")
  BY <1>1 DEF Free, Begun, Way, Asking, Flow, Threads
<1>3. IsPy(py) /\ IsFcn(py.dict)
  BY DEF Flow, Objects
<1>4. CASE answer[1] = "failed" /\ task.check # "done"
  <2>1. Tells(task.check) /\ UNCHANGED py
    BY <1>4, Zenon DEF Called
  <2> QED BY <1>1, <1>2, <1>3, <1>4, <2>1, EndOn
<1>5. CASE ~(answer[1] = "failed" /\ task.check # "done") /\ py.offset < task.times
  <2>1. CallNext
    BY <1>5, Zenon DEF Called
  <2> QED BY <1>1, <1>2, <1>5, <2>1, CallNextFlow
<1>6. CASE ~(answer[1] = "failed" /\ task.check # "done") /\ ~(py.offset < task.times)
  <2>1. Tells("done") /\ UNCHANGED py
    BY <1>6, Zenon DEF Called
  <2> QED BY <1>1, <1>2, <1>3, <1>6, <2>1, EndOn
<1> QED BY <1>4, <1>5, <1>6

LEMMA TakeoffFlow ==
    ASSUME Flow, takeoff_cur
    PROVE  task.command = "takeoff_cur" /\ Flow' /\ Same
<1>1. /\ main.at = "start" /\ task.command = "takeoff_cur" /\ UNCHANGED answer
      /\ py' = [py EXCEPT !.topic = "fix"] /\ main' = [main EXCEPT !.at = "wait done"]
      /\ UNCHANGED <<task, spin, requests, inbox, mavros, topics>>
  BY DEF takeoff_cur, Quiet
<1>2. /\ Begun /\ Way("wait done") /\ ~Unheard("wait done") /\ Unheard(main.at) /\ Free
      /\ Hears("fix") /\ "fix" \in Topics /\ "wait done" \in Resting \ {"closing", "ended"}
  BY <1>1 DEF Begun, Way, Unheard, Hears, Topics, Resting, Free, Asking
<1> QED BY <1>1, <1>2, RestHearing

LEMMA LatchedState == Latched("state") = <<mavros.mode>>
BY DEF Latched

LEMMA AskModeFlow ==
    ASSUME Flow, mode, task.named
    PROVE  /\ main.at = "start" /\ task.command = "mode"
           /\ Flow' /\ Same /\ AsksFor("mode sent", "set_mode", task.mode)
           /\ py'.done = py.done
           /\ \A m \in ToSet(topics') : m.value = mavros.mode
<1>1. /\ main.at = "start" /\ task.command = "mode" /\ UNCHANGED answer
      /\ py' = [py EXCEPT !.topic = "state"] /\ Subscribe("state")
      /\ main' = [main EXCEPT !.at = "mode sent"]
      /\ requests' = Append(requests, [by |-> "main", service |-> "set_mode", arg |-> task.mode])
      /\ UNCHANGED <<task, spin, inbox, mavros>>
  BY DEF mode
<1>2. /\ Begun /\ Way("mode sent") /\ ~Unheard("mode sent") /\ Unheard(main.at) /\ Free
      /\ Hears("state") /\ "state" \in Topics
  BY <1>1 DEF Begun, Way, Unheard, Hears, Topics, Free, Asking
<1>3. IsPy(py') /\ py'.topic = "state" /\ py'.dict = py.dict /\ py'.done = py.done /\ IsFcn(py'.dict)
  <2>1. IsPy(py) /\ py' = [py EXCEPT !.topic = "state"] /\ IsFcn(py.dict)
    BY <1>1 DEF Flow, Objects
  <2>2. IsPy(py') /\ py'.topic = "state" /\ py'.dict = py.dict
    BY <2>1, PyTopic
  <2>3. py'.done = py.done
    BY <2>1, OtherTopic, Zenon
  <2> QED BY <2>1, <2>2, <2>3
<1>4. main'.at = "mode sent"
  BY <1>1, Moved DEF Flow, Threads
<1>5. Heard' /\ \A m \in ToSet(topics') : m.value \in ToSet(Latched("state"))
  BY <1>1, <1>2, <1>3, <1>4, NewHeard DEF Flow
<1>6. \A m \in ToSet(topics') : m.value = mavros.mode
  BY <1>5, LatchedState, OneElement
<1>7. Ready /\ Same /\ "mode sent" \in Asking /\ <<"mode sent", "set_mode">> \in AskedBy
  BY <1>1, <1>2, IsReady DEF Same, Asking, AskedBy
<1>8. Flow' /\ AsksFor("mode sent", "set_mode", task.mode)
  BY <1>1, <1>2, <1>3, <1>5, <1>7, AskFlow
<1> QED BY <1>1, <1>3, <1>6, <1>7, <1>8

LEMMA ModeNow ==
    ASSUME Flow, mode, ~task.named
    PROVE  task.command = "mode" /\ Flow' /\ Same
<1>1. /\ main.at = "start" /\ task.command = "mode" /\ UNCHANGED <<answer, topics>>
      /\ py' = [py EXCEPT !.done = TRUE]
      /\ main' = [main EXCEPT !.at = "mode sent"]
      /\ requests' = Append(requests, [by |-> "main", service |-> "set_mode", arg |-> task.mode])
      /\ UNCHANGED <<task, spin, inbox, mavros>>
  BY DEF mode
<1>2. Begun /\ Way("mode sent") /\ ~Unheard("mode sent") /\ Free
  BY <1>1 DEF Begun, Way, Unheard, Free, Asking
<1>3. IsPy(py') /\ py'.topic = py.topic /\ py'.dict = py.dict /\ IsFcn(py'.dict)
  <2>1. IsPy(py) /\ py' = [py EXCEPT !.done = TRUE] /\ IsFcn(py.dict)
    BY <1>1 DEF Flow, Objects
  <2>2. IsPy(py') /\ py'.topic = py.topic /\ py'.dict = py.dict
    BY <2>1 DEF IsPy
  <2> QED BY <2>1, <2>2
<1>4. main'.at = "mode sent"
  BY <1>1, Moved DEF Flow, Threads
<1>5. Heard'
  BY <1>1, <1>2, <1>3, <1>4, SameHeard DEF Flow
<1>6. Ready /\ Same /\ "mode sent" \in Asking /\ <<"mode sent", "set_mode">> \in AskedBy
  BY <1>1, <1>2, IsReady DEF Same, Asking, AskedBy
<1> QED BY <1>1, <1>2, <1>3, <1>5, <1>6, AskFlow

LEMMA ModeSentFlow ==
    ASSUME Flow, ModeSent
    PROVE  /\ main.at = "mode sent" /\ Flow' /\ Same /\ UNCHANGED <<py, topics>>
           /\ Ends("failed") \/ RestsAt("wait done")
<1>1. /\ main.at = "mode sent" /\ Answered("mode sent") /\ UNCHANGED py
      /\ Tells("failed") \/ (main' = [main EXCEPT !.at = "wait done"] /\ Quiet)
  BY Zenon DEF ModeSent, Answered
<1>2. task.command = "mode"
  BY <1>1 DEF Flow, Threads, Way
<1>3. Free /\ Begun /\ Way("wait done") /\ ~Unheard("wait done")
  BY <1>1, <1>2 DEF Free, Begun, Asking, Way, Unheard
<1>4. IsPy(py') /\ IsFcn(py'.dict) /\ py'.topic = py.topic
  BY <1>1 DEF Flow, Objects
<1>5. CASE Tells("failed")
  BY <1>1, <1>3, <1>4, <1>5, EndOn DEF Ends
<1>6. CASE main' = [main EXCEPT !.at = "wait done"] /\ Quiet
  BY <1>1, <1>3, <1>4, <1>6, RestOn DEF Resting
<1> QED BY <1>1, <1>5, <1>6

LEMMA WaitFcuFlow ==
    ASSUME Flow, wait_fcu_connection
    PROVE  task.command = "wait_fcu" /\ Flow' /\ Same
<1>1. /\ main.at = "start" /\ task.command = "wait_fcu" /\ UNCHANGED answer
      /\ py' = [py EXCEPT !.topic = "state"] /\ Subscribe("state")
      /\ main' = [main EXCEPT !.at = "wait done"]
      /\ UNCHANGED <<task, spin, requests, inbox, mavros>>
  BY DEF wait_fcu_connection
<1>2. /\ Begun /\ Way("wait done") /\ ~Unheard("wait done") /\ Unheard(main.at) /\ Free
      /\ Hears("state") /\ "state" \in Topics /\ "wait done" \in Resting \ {"closing", "ended"}
  BY <1>1 DEF Begun, Way, Unheard, Hears, Topics, Resting, Free, Asking
<1> QED BY <1>1, <1>2, RestHearing

LEMMA CheckerFlow ==
    ASSUME Flow, Checker
    PROVE  task.command = "checkid" /\ Flow' /\ Same
<1>1. /\ main.at = "settings" /\ Answered("settings") /\ task.command = "checkid"
      /\ py' = [py EXCEPT !.topic = "source"]
      /\ main' = [main EXCEPT !.at = "wait report"]
      /\ UNCHANGED <<task, spin, requests, inbox, mavros, topics>>
  BY DEF Checker, Quiet, Answered
<1>2. /\ Begun /\ Way("wait report") /\ ~Unheard("wait report") /\ Unheard(main.at) /\ Free
      /\ Hears("source") /\ "source" \in Topics /\ "wait report" \in Resting \ {"closing", "ended"}
  BY <1>1 DEF Begun, Way, Unheard, Hears, Topics, Resting, Free, Asking
<1> QED BY <1>1, <1>2, RestHearing

LEMMA WaitFlow ==
    ASSUME Flow, Woken \/ TimesOut
    PROVE  /\ Flow' /\ Same /\ UNCHANGED py /\ task.command \notin {"upload", "verify", "call"}
           /\ \/ main.at \in {"wait done", "wait report"} /\ py.done /\ Ends("done")
              \/ main.at \in {"wait points", "wait home", "wait done"} /\ Ends("timed out")
<1>1. /\ UNCHANGED <<answer, py>>
      /\ \/ main.at \in {"wait done", "wait report"} /\ py.done /\ Tells("done")
         \/ main.at \in {"wait points", "wait home", "wait done"} /\ Tells("timed out")
  BY Zenon DEF Woken, TimesOut, Waits
<1>2. Free /\ Begun
  BY <1>1 DEF Free, Begun, Asking
<1>3. task.command \notin {"upload", "verify", "call"}
  BY <1>1 DEF Flow, Threads, Way
<1>4. IsPy(py') /\ IsFcn(py'.dict) /\ py'.topic = py.topic
  BY <1>1 DEF Flow, Objects
<1>5. CASE Tells("done") /\ main.at \in {"wait done", "wait report"} /\ py.done
  BY <1>1, <1>2, <1>3, <1>4, <1>5, EndOn
<1>6. CASE Tells("timed out") /\ main.at \in {"wait points", "wait home", "wait done"}
  BY <1>1, <1>2, <1>3, <1>4, <1>6, EndOn
<1> QED BY <1>1, <1>5, <1>6

LEMMA UploadFlow ==
    ASSUME Flow, upload
    PROVE  /\ main.at = "start" /\ task.command = "upload" /\ Flow' /\ Same
           /\ AsksFor("opened", "open", IF task.overwrite THEN "w" ELSE "cw")
           /\ py'.file = task.bytes /\ py'.offset = py.offset /\ py'.raised = py.raised
           /\ py'.crc = py.crc
<1> DEFINE how == IF task.overwrite THEN "w" ELSE "cw"
<1>1. /\ main.at = "start" /\ task.command = "upload" /\ UNCHANGED answer
      /\ py' = [py EXCEPT !.file = task.bytes] /\ Ask("opened", "open", how)
  BY DEF upload
<1> HIDE DEF how
<1>2. Free /\ Begun /\ Way("opened") /\ ~Unheard("opened")
  BY <1>1 DEF Free, Begun, Way, Unheard, Asking
<1>3. IsPy(py) /\ IsFcn(py.dict)
  BY DEF Flow, Objects
<1>4. /\ IsPy(py') /\ py'.topic = py.topic /\ py'.dict = py.dict /\ py'.file = task.bytes
      /\ py'.offset = py.offset /\ py'.raised = py.raised /\ py'.crc = py.crc
  <2>1. IsPy(py) /\ py' = [py EXCEPT !.file = task.bytes]
    BY <1>1, <1>3
  <2> QED BY <2>1, PyFile
<1>5. Flow' /\ AsksFor("opened", "open", how) /\ Same
  BY <1>1, <1>2, <1>3, <1>4, AskOn DEF Asking, AskedBy
<1> QED BY <1>1, <1>4, <1>5 DEF how

LEMMA Paged ==
    ASSUME IsPy(py), NEW v, NEW w, py' = [py EXCEPT !.offset = v, !.crc = w]
    PROVE  /\ IsPy(py') /\ py'.topic = py.topic /\ py'.dict = py.dict /\ py'.file = py.file
           /\ py'.raised = py.raised /\ py'.offset = v /\ py'.crc = w
BY DEF IsPy

LEMMA NextPageFlow ==
    ASSUME Flow, Free, Begun, NextPage, task.command = "upload"
    PROVE  /\ Flow' /\ Same /\ py'.file = py.file /\ py'.raised = py.raised
           /\ \/ /\ Page(py.file, py.offset) = <<>> /\ AsksFor("closed", "close", 0)
                 /\ py'.offset = py.offset /\ py'.crc = py.crc
              \/ /\ Page(py.file, py.offset) # <<>>
                 /\ AsksFor("written", "write", [offset |-> py.offset, bytes |-> Page(py.file, py.offset)])
                 /\ py'.offset = py.offset + Len(Page(py.file, py.offset))
                 /\ py'.crc = nuttx_crc32(Page(py.file, py.offset), py.crc)
<1> DEFINE page == Page(py.file, py.offset)
<1>1. IsPy(py) /\ IsFcn(py.dict)
  BY DEF Flow, Objects
<1>2. Way("closed") /\ Way("written") /\ ~Unheard("closed") /\ ~Unheard("written")
  BY DEF Way, Unheard
<1>3. CASE page = <<>>
  <2>1. Ask("closed", "close", 0) /\ UNCHANGED py
    BY <1>3 DEF NextPage
  <2> QED BY <1>1, <1>2, <1>3, <2>1, AskOn DEF Asking, AskedBy
<1>4. CASE page # <<>>
  <2>1. /\ Ask("written", "write", [offset |-> py.offset, bytes |-> page])
        /\ py' = [py EXCEPT !.offset = py.offset + Len(page), !.crc = nuttx_crc32(page, py.crc)]
    BY <1>4 DEF NextPage
  <2> HIDE DEF page
  <2>2. /\ IsPy(py') /\ py'.topic = py.topic /\ py'.dict = py.dict /\ py'.file = py.file
        /\ py'.raised = py.raised /\ py'.offset = py.offset + Len(page)
        /\ py'.crc = nuttx_crc32(page, py.crc)
    <3> DEFINE offset == py.offset + Len(page)
               crc == nuttx_crc32(page, py.crc)
    <3>1. IsPy(py) /\ py' = [py EXCEPT !.offset = offset, !.crc = crc]
      BY <1>1, <2>1
    <3> HIDE DEF offset, crc
    <3>2. /\ IsPy(py') /\ py'.topic = py.topic /\ py'.dict = py.dict /\ py'.file = py.file
          /\ py'.raised = py.raised /\ py'.offset = offset /\ py'.crc = crc
      BY <3>1, Paged, Zenon
    <3> QED BY <3>2 DEF offset, crc
  <2>3. Flow' /\ AsksFor("written", "write", [offset |-> py.offset, bytes |-> page]) /\ Same
    BY <1>1, <1>2, <2>1, <2>2, AskOn DEF Asking, AskedBy
  <2> QED BY <1>4, <2>2, <2>3 DEF page
<1> QED BY <1>3, <1>4

LEMMA OpenedFlow ==
    ASSUME Flow, Opened
    PROVE  /\ main.at = "opened" /\ Answered("opened") /\ task.command = "upload" /\ Flow' /\ Same
           /\ \/ answer[1] = "failed" /\ Ends("raised") /\ UNCHANGED py
              \/ answer[1] # "failed" /\ NextPage
<1>1. main.at = "opened" /\ Answered("opened")
  BY DEF Opened, Answered
<1>2. Free /\ Begun /\ task.command = "upload"
  BY <1>1 DEF Free, Begun, Way, Asking, Flow, Threads
<1>3. CASE answer[1] = "failed"
  <2>1. Tells("raised") /\ UNCHANGED py
    BY <1>3 DEF Opened
  <2> QED BY <1>1, <1>2, <1>3, <2>1, EndOn DEF Flow, Objects
<1>4. CASE answer[1] # "failed"
  <2>1. NextPage
    BY <1>4 DEF Opened
  <2> QED BY <1>1, <1>2, <1>4, <2>1, NextPageFlow
<1> QED BY <1>3, <1>4

LEMMA WrittenFlow ==
    ASSUME Flow, Written
    PROVE  /\ main.at = "written" /\ Answered("written") /\ task.command = "upload" /\ Flow' /\ Same
           /\ \/ /\ answer[1] = "failed" /\ AsksFor("closed", "close", 0)
                 /\ py'.raised = TRUE /\ py'.file = py.file /\ py'.offset = py.offset
                 /\ py'.crc = py.crc
              \/ answer[1] # "failed" /\ NextPage
<1>1. main.at = "written" /\ Answered("written")
  BY DEF Written, Answered
<1>2. Free /\ Begun /\ task.command = "upload"
  BY <1>1 DEF Free, Begun, Way, Asking, Flow, Threads
<1>3. CASE answer[1] = "failed"
  <2>1. py' = [py EXCEPT !.raised = TRUE] /\ Ask("closed", "close", 0)
    BY <1>3 DEF Written, Raises
  <2>2. IsPy(py) /\ IsFcn(py.dict)
    BY DEF Flow, Objects
  <2>3. /\ IsPy(py') /\ py'.topic = py.topic /\ py'.dict = py.dict /\ py'.file = py.file
        /\ py'.raised = TRUE /\ py'.offset = py.offset /\ py'.crc = py.crc
    <3>1. IsPy(py) /\ py' = [py EXCEPT !.raised = TRUE]
      BY <2>1, <2>2
    <3> QED BY <3>1 DEF IsPy
  <2>4. Way("closed") /\ ~Unheard("closed")
    BY <1>2 DEF Way, Unheard
  <2>5. Flow' /\ AsksFor("closed", "close", 0) /\ Same
    BY <1>2, <2>1, <2>2, <2>3, <2>4, AskOn DEF Asking, AskedBy
  <2> QED BY <1>1, <1>2, <1>3, <2>3, <2>5
<1>4. CASE answer[1] # "failed"
  <2>1. NextPage
    BY <1>4 DEF Written
  <2> QED BY <1>1, <1>2, <1>4, <2>1, NextPageFlow
<1> QED BY <1>3, <1>4

LEMMA ClosedFlow ==
    ASSUME Flow, ClosedFile
    PROVE  /\ main.at = "closed" /\ task.command = "upload" /\ Flow' /\ Same /\ UNCHANGED py
           /\ \/ Ends("raised")
              \/ ~py.raised /\ ~task.verify /\ Ends("done")
              \/ ~py.raised /\ task.verify /\ AsksFor("checksum", "checksum", 0)
<1>1. main.at = "closed" /\ Answered("closed") /\ UNCHANGED py
  BY DEF ClosedFile, Answered
<1>2. Free /\ Begun /\ task.command = "upload"
  BY <1>1 DEF Free, Begun, Way, Asking, Flow, Threads
<1>3. Way("checksum") /\ ~Unheard("checksum")
  BY <1>2 DEF Way, Unheard
<1>4. IsPy(py') /\ IsFcn(py'.dict) /\ py'.topic = py.topic
  BY <1>1 DEF Flow, Objects
<1>5. CASE Tells("raised")
  BY <1>1, <1>2, <1>4, <1>5, EndOn
<1>6. CASE ~py.raised /\ ~task.verify /\ Tells("done")
  BY <1>1, <1>2, <1>4, <1>6, EndOn
<1>7. CASE ~py.raised /\ task.verify /\ Ask("checksum", "checksum", 0)
  BY <1>1, <1>2, <1>3, <1>4, <1>7, AskOn DEF Asking, AskedBy
<1>8. \/ Tells("raised")
      \/ ~py.raised /\ ~task.verify /\ Tells("done")
      \/ ~py.raised /\ task.verify /\ Ask("checksum", "checksum", 0)
  BY Zenon DEF ClosedFile
<1> QED BY <1>5, <1>6, <1>7, <1>8

LEMMA Summed ==
    ASSUME IsPy(py), NEW v, NEW w, py' = [py EXCEPT !.file = v, !.crc = w]
    PROVE  IsPy(py') /\ py'.topic = py.topic /\ py'.dict = py.dict /\ py'.crc = w
BY DEF IsPy

LEMMA AskSumFlow ==
    ASSUME Flow, verify
    PROVE  /\ main.at = "start" /\ task.command = "verify" /\ Flow' /\ Same
           /\ AsksFor("checksum", "checksum", 0) /\ py'.crc = nuttx_crc32(task.bytes, 0)
<1>1. /\ main.at = "start" /\ task.command = "verify" /\ UNCHANGED answer
      /\ py' = [py EXCEPT !.file = task.bytes, !.crc = nuttx_crc32(task.bytes, 0)]
      /\ Ask("checksum", "checksum", 0)
  BY DEF verify
<1>2. Free /\ Begun /\ Way("checksum") /\ ~Unheard("checksum")
  BY <1>1 DEF Free, Begun, Way, Unheard, Asking
<1>3. IsPy(py) /\ IsFcn(py.dict)
  BY DEF Flow, Objects
<1>4. /\ IsPy(py') /\ py'.topic = py.topic /\ py'.dict = py.dict
      /\ py'.crc = nuttx_crc32(task.bytes, 0)
  <2> DEFINE crc == nuttx_crc32(task.bytes, 0)
  <2>1. IsPy(py) /\ py' = [py EXCEPT !.file = task.bytes, !.crc = crc]
    BY <1>1, <1>3
  <2> HIDE DEF crc
  <2>2. IsPy(py') /\ py'.topic = py.topic /\ py'.dict = py.dict /\ py'.crc = crc
    BY <2>1, Summed, Zenon
  <2> QED BY <2>2 DEF crc
<1> QED BY <1>1, <1>2, <1>3, <1>4, AskOn DEF Asking, AskedBy

\* What a check ends with.
Verdict == IF answer[1] = NoChecksum THEN "raised" ELSE IF answer[1] = py.crc THEN "done"
           ELSE IF task.command = "upload" THEN "raised" ELSE "failed"
LEMMA VerifiedFlow ==
    ASSUME Flow, Verified
    PROVE  /\ main.at = "checksum" /\ Answered("checksum") /\ Flow' /\ Same /\ UNCHANGED py
           /\ task.command \in {"upload", "verify"}
           /\ Ends(Verdict)
<1>1. /\ main.at = "checksum" /\ Answered("checksum") /\ UNCHANGED py /\ Tells(Verdict)
  BY DEF Verified, Answered, Verdict
<1>2. Free /\ Begun /\ task.command \in {"upload", "verify"}
  BY <1>1 DEF Free, Begun, Way, Asking, Flow, Threads
<1>3. IsPy(py') /\ IsFcn(py'.dict) /\ py'.topic = py.topic
  BY <1>1 DEF Flow, Objects
<1> QED BY <1>1, <1>2, <1>3, EndOn

LEMMA DownloadFlow ==
    ASSUME Flow, download
    PROVE  task.command = "download" /\ Flow' /\ Same
<1> DEFINE file == IF task.named THEN py.file ELSE <<>>
<1>1. /\ main.at = "start" /\ task.command = "download" /\ UNCHANGED answer
      /\ py' = [py EXCEPT !.file = file] /\ Tells("raised")
  BY DEF download
<1> HIDE DEF file
<1>2. Free /\ Begun /\ IsPy(py) /\ IsFcn(py.dict)
  BY <1>1 DEF Free, Begun, Asking, Flow, Objects
<1>3. IsPy(py') /\ py'.topic = py.topic /\ py'.dict = py.dict
  <2>1. IsPy(py) /\ py' = [py EXCEPT !.file = file]
    BY <1>1, <1>2
  <2> QED BY <2>1, PyFile
<1> QED BY <1>1, <1>2, <1>3, EndOn

\* The end: the spinner is joined, so it cannot be in a call.
LEMMA CloseFlow ==
    ASSUME Flow, Close
    PROVE  /\ main.at = "closing" /\ main'.at = "ended" /\ main'.told = main.told
           /\ spin # "calls" /\ spin' # "calls" /\ Flow'
           /\ UNCHANGED <<task, requests, inbox, answer, topics, py, mavros>>
           /\ Mine' = {} /\ Answers' = {}
<1>1. /\ main.at = "closing" /\ spin # "calls" /\ main' = [main EXCEPT !.at = "ended"] /\ spin' = "ended"
      /\ UNCHANGED <<task, requests, inbox, answer, topics, py, mavros>>
  BY DEF Close
<1>2. main' = [at |-> main'.at, told |-> main'.told] /\ main'.at = "ended" /\ main'.told = main.told
  BY <1>1, Moved DEF Flow, Threads
<1>3. Free /\ "ended" \notin Asking /\ "ended" \in Resting
  BY <1>1 DEF Free, Asking, Resting
<1>4. Calls' /\ Mine' = {} /\ Answers' = {}
  BY <1>1, <1>2, <1>3, IsReady, Rests
<1>5. Way(main'.at) /\ ~Unheard(main'.at)
  BY <1>2 DEF Way, Unheard
<1>6. Threads'
  BY <1>1, <1>2, <1>3, <1>5 DEF Flow, Threads, TaskAssumption, Way
<1>7. Objects'
  BY <1>1 DEF Flow, Objects
<1>8. Heard'
  BY <1>1, <1>5, SameHeard DEF Flow
<1> QED BY <1>1, <1>2, <1>4, <1>6, <1>7, <1>8 DEF Flow


(* -------------------------------- the spinner ------------------------------- *)
\* What no step of others can change in the state of the threads, and in what is heard.
LEMMA SameThreads ==
    ASSUME Threads, UNCHANGED <<task, main>>, \/ UNCHANGED spin
                 \/ /\ spin = "spins" /\ spin' \in {"spins", "calls", "dead"}
                    /\ spin' = "dead" => task.command = "wp load"
    PROVE  Threads'
<1>1. TaskAssumption(task)'
  BY DEF Threads, TaskAssumption
<1>2. Way(main.at)'
  BY DEF Threads, Way
<1>3. /\ main = [at |-> main.at, told |-> main.told] /\ main.at \in Asking \union Resting
      /\ main.told = "done" => main.at \in {"closing", "ended"}
      /\ spin \in {"spins", "calls", "dead", "ended"}
      /\ spin = "ended" <=> main.at = "ended"
      /\ spin = "dead" => task.command = "wp load"
  BY DEF Threads
<1>4. /\ main' = main /\ task' = task
      /\ spin' \in {"spins", "calls", "dead", "ended"}
      /\ spin' = "ended" <=> main.at = "ended"
      /\ spin' = "dead" => task.command = "wp load"
  BY <1>3
<1> QED BY <1>1, <1>2, <1>3, <1>4 DEF Threads, Asking, Resting

LEMMA StillHeard ==
    ASSUME Heard, UNCHANGED <<task, main>>, py'.topic = py.topic, Sequential(topics'),
           \A m \in ToSet(topics') : m.topic = py.topic /\ m.topic \in Topics
    PROVE  Heard'
<1>1. Hears(py.topic) /\ (Unheard(main.at) => py.topic = "none")
  BY DEF Heard
<1>2. Hears(py.topic)'
  <2>1. Hears(py.topic)' <=> Hears(py.topic)
    BY DEF Hears, Topics
  <2> QED BY <1>1, <2>1
<1>3. Unheard(main.at)' => py'.topic = "none"
  BY <1>1 DEF Unheard
<1> QED BY <1>2, <1>3 DEF Heard, Topics

LEMMA TakeFlow ==
    ASSUME Flow, TakeAnswer
    PROVE  /\ Flow' /\ Mine' = Mine /\ Answers' = Answers
           /\ UNCHANGED <<task, main, spin, requests, topics, py, mavros>>
           /\ spin = "spins" /\ answer = <<>>
<1>1. UNCHANGED <<task, main, spin, requests, topics, py, mavros>> /\ spin = "spins" /\ answer = <<>>
  BY DEF TakeAnswer
<1>2. Calls' /\ Mine' = Mine /\ Answers' = Answers
  BY Takes DEF Flow
<1>3. Threads' /\ Objects' /\ Heard'
  <2>1. Threads'
    BY <1>1, SameThreads DEF Flow
  <2>2. Objects'
    BY <1>1 DEF Flow, Objects
  <2>3. Heard'
    BY <1>1, SameHeard DEF Flow
  <2> QED BY <2>1, <2>2, <2>3
<1> QED BY <1>1, <1>2, <1>3 DEF Flow

\* What a callback leaves alone; the message is one of the topic subscribed to.
Heeds ==
    /\ spin = "spins" /\ Mine' = Mine /\ Answers' = Answers
    /\ UNCHANGED <<task, main, answer, mavros>>
    /\ Head(topics) \in ToSet(topics) /\ ToSet(topics') \subseteq ToSet(topics)
    /\ py'.offset = py.offset /\ py'.raised = py.raised /\ py'.crc = py.crc /\ py'.topic = py.topic

LEMMA Heeded ==
    ASSUME Flow, spin = "spins", topics # <<>>, topics' = Tail(topics),
           UNCHANGED <<task, main, inbox, answer, mavros>>,
           Calls', Mine' = Mine, Answers' = Answers, spin' \in {"spins", "calls", "dead"},
           spin' = "dead" => task.command = "wp load", IsPy(py'), IsFcn(py'.dict), py'.topic = py.topic,
           py'.offset = py.offset, py'.raised = py.raised, py'.crc = py.crc
    PROVE  Flow' /\ Heeds
<1>1. Sequential(topics') /\ ToSet(topics') \subseteq ToSet(topics) /\ Head(topics) \in ToSet(topics)
  BY Taken DEF Flow, Heard
<1>2. Heard'
  <2>1. Heard
    BY DEF Flow
  <2>2. \A m \in ToSet(topics') : m.topic = py.topic /\ m.topic \in Topics
    BY <1>1, <2>1 DEF Heard
  <2> QED BY <1>1, <2>1, <2>2, StillHeard
<1>3. Objects'
  BY DEF Flow, Objects
<1>4. Threads'
  BY SameThreads DEF Flow
<1> QED BY <1>1, <1>2, <1>3, <1>4 DEF Flow, Heeds

LEMMA MessageHere ==
    ASSUME Flow, topics # <<>>
    PROVE  Head(topics).topic = py.topic /\ Hears(py.topic)
BY Taken DEF Flow, Heard

LEMMA NewDict ==
    ASSUME IsPy(py), NEW v, py' = [py EXCEPT !.dict = v]
    PROVE  /\ IsPy(py') /\ py'.dict = v /\ py'.topic = py.topic /\ py'.file = py.file
           /\ py'.done = py.done /\ py'.points = py.points
           /\ py'.offset = py.offset /\ py'.raised = py.raised /\ py'.crc = py.crc
BY DEF IsPy

LEMMA EventFlow ==
    ASSUME Flow, Callback, Head(topics).topic = "event"
    PROVE  /\ Flow' /\ Heeds /\ task.command \in {"get", "set", "load", "dump"}
           /\ py'.dict = _set_item(py.dict, Head(topics).value[1], Head(topics).value[2])
           /\ py'.file = py.file
           /\ \/ /\ spin' = "spins" /\ UNCHANGED requests
                 /\ ~Differs(py.dict, Head(topics).value[1], Head(topics).value[2])
              \/ spin' = "calls" /\ ToSet(requests') = ToSet(requests) \union
                   {[by |-> "spinner", service |-> "set",
                     arg |-> [n \in {Head(topics).value[1]} |-> Head(topics).value[2]]]}
<1> DEFINE k == Head(topics).value[1]
           v == Head(topics).value[2]
           arg == [n \in {k} |-> v]
<1>1. /\ spin = "spins" /\ topics # <<>> /\ topics' = Tail(topics)
      /\ UNCHANGED <<task, main, inbox, answer, mavros>>
      /\ py' = [py EXCEPT !.dict = _set_item(py.dict, k, v)]
      /\ CallsFrom("set", arg) \/ (~Differs(py.dict, k, v) /\ UNCHANGED <<spin, requests>>)
  BY DEF Callback, _event_handler
<1>2. IsFiniteSet(DOMAIN arg)
  BY FS_Singleton
<1>3. _set_item(py.dict, k, v) = [x \in DOMAIN _set_item(py.dict, k, v) |-> _set_item(py.dict, k, v)[x]]
  BY DEF _set_item
<1> HIDE DEF k, v, arg
<1>4. /\ IsPy(py') /\ py'.dict = _set_item(py.dict, k, v) /\ py'.topic = py.topic /\ py'.file = py.file
      /\ py'.offset = py.offset /\ py'.raised = py.raised /\ py'.crc = py.crc
  <2>1. IsPy(py)
    BY DEF Flow, Objects
  <2>2. py' = [py EXCEPT !.dict = _set_item(py.dict, k, v)]
    BY <1>1
  <2> QED BY <2>1, <2>2, NewDict
<1>5. IsFcn(py'.dict)
  BY <1>3, <1>4 DEF IsFcn
<1>6. Calls
  BY DEF Flow
<1>7. CASE CallsFrom("set", arg)
  <2>1. /\ Calls' /\ Mine' = Mine /\ Answers' = Answers
        /\ ToSet(requests') = ToSet(requests) \union {[by |-> "spinner", service |-> "set", arg |-> arg]}
    BY <1>1, <1>2, <1>6, <1>7, Hangs
  <2>2. spin' = "calls"
    BY <1>7 DEF CallsFrom
  <2>3. Flow' /\ Heeds
    BY <1>1, <1>4, <1>5, <2>1, <2>2, Heeded
  <2>4. task.command \in {"get", "set", "load", "dump"}
    BY <1>1, MessageHere DEF Hears
  <2> QED BY <1>4, <2>1, <2>2, <2>3, <2>4 DEF k, v, arg
<1>8. CASE ~Differs(py.dict, k, v) /\ UNCHANGED <<spin, requests>>
  <2>1. Calls' /\ Mine' = Mine /\ Answers' = Answers
    BY <1>1, <1>6, <1>8, SameCall
  <2>3. Flow' /\ Heeds
    BY <1>1, <1>4, <1>5, <1>8, <2>1, Heeded
  <2>4. task.command \in {"get", "set", "load", "dump"}
    BY <1>1, MessageHere DEF Hears
  <2> QED BY <1>1, <1>4, <1>8, <2>3, <2>4 DEF k, v
<1> QED BY <1>1, <1>7, <1>8

LEMMA FixFlow ==
    ASSUME Flow, Callback, Head(topics).topic = "fix"
    PROVE  Flow' /\ task.command = "takeoff_cur" /\ UNCHANGED <<task, main, mavros>>
<1>1. /\ spin = "spins" /\ topics # <<>> /\ topics' = Tail(topics)
      /\ UNCHANGED <<task, main, inbox, answer, mavros, py>> /\ CallsFrom("takeoff", Head(topics).value)
  BY DEF Callback
<1>2. Calls' /\ Mine' = Mine /\ Answers' = Answers
  BY <1>1, Hangs DEF Flow
<1>3. spin' = "calls" /\ IsPy(py') /\ IsFcn(py'.dict)
  BY <1>1 DEF CallsFrom, Flow, Objects
<1>4. Flow'
  BY <1>1, <1>2, <1>3, Heeded
<1>5. task.command = "takeoff_cur"
  BY <1>1, MessageHere DEF Hears
<1> QED BY <1>1, <1>4, <1>5

LEMMA NewHome ==
    ASSUME IsPy(py), NEW v, py' = [py EXCEPT !.file = v, !.done = TRUE]
    PROVE  /\ IsPy(py') /\ py'.dict = py.dict /\ py'.topic = py.topic /\ py'.file = v
           /\ py'.done = TRUE /\ py'.points = py.points
           /\ py'.offset = py.offset /\ py'.raised = py.raised /\ py'.crc = py.crc
BY DEF IsPy

LEMMA HomeFlow ==
    ASSUME Flow, Callback, Head(topics).topic = "points", task.command = "wp load"
    PROVE  /\ Flow' /\ Heeds
           /\ \/ py'.file = py.file /\ py'.done = py.done
              \/ /\ Head(topics).value = <<>> \/ py.file # <<>>
                 /\ py'.file = (IF Head(topics).value = <<>> THEN py.file
                                ELSE [py.file EXCEPT ![1] = Head(topics).value[1]])
                 /\ py'.done = TRUE
<1> DEFINE mission == Head(topics).value
           file == IF mission = <<>> THEN py.file ELSE [py.file EXCEPT ![1] = mission[1]]
<1>1. /\ spin = "spins" /\ topics # <<>> /\ topics' = Tail(topics)
      /\ UNCHANGED <<task, main, inbox, answer, mavros, requests>>
      /\ fix_wp0(mission)
  BY DEF Callback, fix_wp0
<1>2. \/ mission # <<>> /\ py.file = <<>> /\ spin' = "dead" /\ UNCHANGED py
      \/ ~(mission # <<>> /\ py.file = <<>>) /\
           py' = [py EXCEPT !.file = file, !.done = TRUE] /\ UNCHANGED spin
  BY <1>1 DEF fix_wp0
<1> HIDE DEF mission, file
<1>3. Calls /\ IsPy(py) /\ IsFcn(py.dict)
  BY DEF Flow, Objects
<1>4. Calls' /\ Mine' = Mine /\ Answers' = Answers
  BY <1>1, <1>3, SameCall
<1>5. CASE spin' = "dead" /\ UNCHANGED py
  BY <1>1, <1>3, <1>4, <1>5, Heeded
<1>6. CASE ~(mission # <<>> /\ py.file = <<>>) /\
              py' = [py EXCEPT !.file = file, !.done = TRUE] /\ UNCHANGED spin
  <2>1. /\ IsPy(py') /\ py'.dict = py.dict /\ py'.topic = py.topic /\ py'.file = file
        /\ py'.done = TRUE /\ py'.points = py.points
        /\ py'.offset = py.offset /\ py'.raised = py.raised /\ py'.crc = py.crc
    <3>1. IsPy(py) /\ py' = [py EXCEPT !.file = file, !.done = TRUE]
      BY <1>3, <1>6
    <3> QED BY <3>1, NewHome
  <2>2. Flow' /\ Heeds
    BY <1>1, <1>3, <1>4, <1>6, <2>1, Heeded
  <2> QED BY <1>6, <2>1, <2>2 DEF mission, file
<1> QED BY <1>2, <1>5, <1>6

LEMMA NewPoints ==
    ASSUME IsPy(py), NEW v, \/ py' = [py EXCEPT !.points = v, !.done = TRUE]
                            \/ py' = [py EXCEPT !.points = v]
    PROVE  /\ IsPy(py') /\ py'.dict = py.dict /\ py'.topic = py.topic /\ py'.file = py.file
           /\ py'.points = v
           /\ py'.offset = py.offset /\ py'.raised = py.raised /\ py'.crc = py.crc
BY DEF IsPy
LEMMA NewDone ==
    ASSUME IsPy(py), NEW v, py' = [py EXCEPT !.done = v]
    PROVE  /\ IsPy(py') /\ py'.dict = py.dict /\ py'.topic = py.topic /\ py'.file = py.file
           /\ py'.done = v
           /\ py'.offset = py.offset /\ py'.raised = py.raised /\ py'.crc = py.crc
BY DEF IsPy

LEMMA NotedFlow ==
    ASSUME Flow, Callback, \/ Head(topics).topic \in {"state", "source"}
                           \/ Head(topics).topic = "points" /\ task.command # "wp load"
    PROVE  /\ Flow' /\ Heeds /\ py'.dict = py.dict /\ py'.file = py.file /\ UNCHANGED spin
           /\ \/ py.topic = "points" /\ py'.points = Head(topics).value
              \/ py.topic = "source"
              \/ /\ py.topic = "state"
                 /\ py'.done = (py.done \/ (task.command = "wait_fcu" /\ Head(topics).value # "off")
                                \/ (task.command = "mode" /\ Head(topics).value = task.mode))
<1> DEFINE m == Head(topics)
           done == py.done \/ (task.command = "wait_fcu" /\ m.value # "off")
                   \/ (task.command = "mode" /\ m.value = task.mode)
           grown == Append(py.points, m.value)
<1>1. /\ spin = "spins" /\ topics # <<>> /\ topics' = Tail(topics)
      /\ UNCHANGED <<task, main, inbox, answer, mavros, requests, spin>>
      /\ Noted(m)
  BY DEF Callback, Noted
<1>2. m.topic = py.topic /\ m.topic \in {"points", "source", "state"}
  BY <1>1, MessageHere
<1>3. \/ m.topic = "points" /\ py' = [py EXCEPT !.points = m.value, !.done = TRUE]
      \/ m.topic = "source" /\ py' = [py EXCEPT !.points = grown]
      \/ m.topic = "state" /\ py' = [py EXCEPT !.done = done]
  BY <1>1, <1>2 DEF Noted
<1> HIDE DEF m, done, grown
<1>4. Calls /\ IsPy(py) /\ IsFcn(py.dict)
  BY DEF Flow, Objects
<1>5. Calls' /\ Mine' = Mine /\ Answers' = Answers
  BY <1>1, <1>4, SameCall
<1>6. /\ IsPy(py') /\ py'.dict = py.dict /\ py'.topic = py.topic /\ py'.file = py.file
      /\ py'.offset = py.offset /\ py'.raised = py.raised /\ py'.crc = py.crc
      /\ m.topic = "points" => py'.points = m.value
      /\ m.topic = "state" => py'.done = done
  <2>1. CASE m.topic = "points" /\ py' = [py EXCEPT !.points = m.value, !.done = TRUE]
    BY <1>4, <2>1, NewPoints, Zenon
  <2>2. CASE m.topic = "source" /\ py' = [py EXCEPT !.points = grown]
    BY <1>4, <2>2, NewPoints
  <2>3. CASE m.topic = "state" /\ py' = [py EXCEPT !.done = done]
    BY <1>4, <2>3, NewDone
  <2> QED BY <1>3, <2>1, <2>2, <2>3
<1>7. Flow' /\ Heeds
  BY <1>1, <1>4, <1>5, <1>6, Heeded
<1> QED BY <1>1, <1>2, <1>6, <1>7 DEF m, done

LEMMA TimerFlow ==
    ASSUME Flow, timer_cb
    PROVE  /\ task.command = "checkid" /\ Flow'
           /\ UNCHANGED <<task, main, spin, requests, inbox, answer, topics, mavros>>
<1> DEFINE file == IF "target" \in ToSet(py.points) THEN <<1>> ELSE <<>>
<1>1. /\ UNCHANGED <<task, main, spin, requests, inbox, answer, topics, mavros>>
      /\ py.topic = "source" /\ py' = [py EXCEPT !.done = TRUE, !.file = file]
  BY DEF timer_cb
<1> HIDE DEF file
<1>2. task.command = "checkid"
  BY <1>1 DEF Flow, Heard, Hears
<1>3. IsPy(py') /\ py'.dict = py.dict /\ py'.topic = py.topic
  <2>1. IsPy(py) /\ py' = [py EXCEPT !.done = TRUE, !.file = file]
    BY <1>1 DEF Flow, Objects
  <2> QED BY <2>1 DEF IsPy
<1>4. Calls'
  BY <1>1, SameCall DEF Flow
<1>5. Threads' /\ Objects' /\ Heard'
  <2>1. Threads'
    BY <1>1, SameThreads DEF Flow
  <2>2. Objects'
    BY <1>1, <1>3 DEF Flow, Objects
  <2>3. Heard'
    BY <1>1, <1>3, StillHeard DEF Flow, Heard
  <2> QED BY <2>1, <2>2, <2>3
<1> QED BY <1>1, <1>2, <1>4, <1>5 DEF Flow

(* --------------------------- mavros and the vehicle ------------------------- *)
\* What is published is heard by those who subscribed, after what was published before.
Told(topic, heard) ==
    /\ ToSet(topics) \subseteq ToSet(topics')
    /\ \A m \in ToSet(topics') : m \in ToSet(topics) \/ (m.topic = topic /\ m.value \in heard)

LEMMA PublishFlow ==
    ASSUME Heard, NEW topic \in Topics, NEW list, Sequential(list), Publish(topic, list),
           UNCHANGED <<task, main, py>>
    PROVE  /\ Heard' /\ Told(topic, ToSet(list))
           /\ py.topic = topic => \A v \in ToSet(list) : [topic |-> topic, value |-> v] \in ToSet(topics')
<1>1. CASE py.topic = topic
  <2>1. topics' = topics \o Messages(topic, list)
    BY <1>1 DEF Publish
  <2>2. /\ Sequential(topics')
        /\ ToSet(topics') = ToSet(topics) \union ToSet(Messages(topic, list))
        /\ \A m \in ToSet(Messages(topic, list)) : m.topic = topic /\ m.value \in ToSet(list)
        /\ \A v \in ToSet(list) : [topic |-> topic, value |-> v] \in ToSet(Messages(topic, list))
    BY <2>1, Joined, MessagesAre DEF Heard
  <2>3. \A m \in ToSet(topics') : m.topic = py.topic /\ m.topic \in Topics
    BY <1>1, <2>2 DEF Heard
  <2>4. Heard'
    BY <2>2, <2>3, StillHeard
  <2> QED BY <2>2, <2>4 DEF Told
<1>2. CASE py.topic # topic
  <2>1. topics' = topics
    BY <1>2 DEF Publish
  <2>2. Heard'
    BY <2>1, StillHeard DEF Heard
  <2> QED BY <1>2, <2>1, <2>2 DEF Told
<1> QED BY <1>1, <1>2

\* What a service that succeeds changes, and what it answers.
Kept(to) ==
    /\ IsMavros(to) /\ to.params = mavros.params /\ to.cached = mavros.cached
    /\ to.news = mavros.news /\ to.before = mavros.before
LEMMA EffectRead ==
    ASSUME NEW arg
    PROVE  /\ Effect("list", arg) = <<mavros, mavros.cached>>
           /\ Effect("get", arg) = <<mavros, [k \in arg |-> mavros.params[k]]>>
           /\ Effect("checksum", arg) = <<mavros, nuttx_crc32(mavros.remote, 0)>>
BY DEF Effect
LEMMA EffectWrite ==
    ASSUME NEW arg, IsMavros(mavros), NEW service, NEW to, to = Effect(service, arg)[1],
           service \notin {"set", "pull"}
    PROVE  /\ Kept(to)
           /\ service \notin {"wp pull", "wp push", "wp clear"} =>
                to.mission = mavros.mission /\ to.latched = mavros.latched
           /\ service = "wp pull" => to.mission = mavros.mission /\ to.latched = mavros.mission
           /\ service = "wp push" => to.mission = Replaced(mavros.mission, arg.from, arg.points)
           /\ to.mode = mavros.mode
           /\ to.commands = (IF service = "command" THEN mavros.commands + 1 ELSE mavros.commands)
           /\ service \notin {"open", "write"} => to.remote = mavros.remote
           /\ service = "open" => to.remote = (IF arg = "cw" THEN <<>> ELSE mavros.remote)
           /\ service = "write" => to.remote = Spliced(mavros.remote, arg.offset, arg.bytes)
<1> DEFINE new == Replaced(mavros.mission, arg.from, arg.points)
           bytes == Spliced(mavros.remote, arg.offset, arg.bytes)
<1>1. \/ to = mavros /\ service \notin {"wp pull", "wp push", "wp clear", "command", "open", "write"}
      \/ to = [mavros EXCEPT !.latched = mavros.mission] /\ service = "wp pull"
      \/ to = [mavros EXCEPT !.mission = new, !.latched = new] /\ service = "wp push"
      \/ to = [mavros EXCEPT !.mission = <<>>, !.latched = <<>>] /\ service = "wp clear"
      \/ to = [mavros EXCEPT !.flying = TRUE] /\ service = "takeoff"
      \/ to = [mavros EXCEPT !.commands = mavros.commands + 1] /\ service = "command"
      \/ arg = "cw" /\ to = [mavros EXCEPT !.remote = <<>>] /\ service = "open"
      \/ arg # "cw" /\ to = mavros /\ service = "open"
      \/ to = [mavros EXCEPT !.remote = bytes] /\ service = "write"
  <2>2. CASE service = "wp pull"
    BY <2>2 DEF Effect
  <2>3. CASE service = "wp push"
    BY <2>3 DEF Effect
  <2>4. CASE service = "wp clear"
    BY <2>4 DEF Effect
  <2>5. CASE service = "takeoff"
    BY <2>5 DEF Effect
  <2>6. CASE service = "command"
    BY <2>6 DEF Effect
  <2>7. CASE service = "open"
    <3>1. to = IF arg = "cw" THEN [mavros EXCEPT !.remote = <<>>] ELSE mavros
      BY <2>7 DEF Effect
    <3> QED BY <2>7, <3>1
  <2>8. CASE service = "write"
    BY <2>8 DEF Effect
  <2>9. CASE service \notin {"wp pull", "wp push", "wp clear", "takeoff", "command", "open", "write"}
    <3>1. Effect(service, arg)[1] = mavros
      BY <2>9 DEF Effect
    <3> QED BY <2>9, <3>1
  <2> QED BY <2>2, <2>3, <2>4, <2>5, <2>6, <2>7, <2>8, <2>9
<1> HIDE DEF new, bytes
<1>2. CASE to = mavros /\ service \notin {"wp pull", "wp push", "wp clear", "command", "open", "write"}
  BY <1>2 DEF Kept
<1>3. CASE arg # "cw" /\ to = mavros /\ service = "open"
  BY <1>3 DEF Kept
<1>4. CASE to = [mavros EXCEPT !.latched = mavros.mission] /\ service = "wp pull"
  <2>1. /\ IsMavros(to) /\ to.params = mavros.params /\ to.mission = mavros.mission
        /\ to.latched = mavros.mission /\ to.mode = mavros.mode /\ to.flying = mavros.flying
        /\ to.commands = mavros.commands /\ to.remote = mavros.remote
        /\ to.cached = mavros.cached /\ to.news = mavros.news /\ to.before = mavros.before
    BY <1>4 DEF IsMavros
  <2> QED BY <1>4, <2>1 DEF Kept
<1>5. CASE to = [mavros EXCEPT !.mission = new, !.latched = new] /\ service = "wp push"
  <2>1. /\ IsMavros(to) /\ to.params = mavros.params /\ to.mission = new /\ to.latched = new
        /\ to.mode = mavros.mode /\ to.flying = mavros.flying /\ to.commands = mavros.commands
        /\ to.remote = mavros.remote /\ to.cached = mavros.cached /\ to.news = mavros.news
        /\ to.before = mavros.before
    BY <1>5 DEF IsMavros
  <2> QED BY <1>5, <2>1 DEF Kept, new
<1>6. CASE to = [mavros EXCEPT !.mission = <<>>, !.latched = <<>>] /\ service = "wp clear"
  <2>1. /\ IsMavros(to) /\ to.params = mavros.params /\ to.mission = <<>> /\ to.latched = <<>>
        /\ to.mode = mavros.mode /\ to.flying = mavros.flying /\ to.commands = mavros.commands
        /\ to.remote = mavros.remote /\ to.cached = mavros.cached /\ to.news = mavros.news
        /\ to.before = mavros.before
    BY <1>6 DEF IsMavros
  <2> QED BY <1>6, <2>1 DEF Kept
<1>7. CASE to = [mavros EXCEPT !.flying = TRUE] /\ service = "takeoff"
  <2>1. /\ IsMavros(to) /\ to.params = mavros.params /\ to.mission = mavros.mission
        /\ to.latched = mavros.latched /\ to.mode = mavros.mode /\ to.flying = TRUE
        /\ to.commands = mavros.commands /\ to.remote = mavros.remote
        /\ to.cached = mavros.cached /\ to.news = mavros.news /\ to.before = mavros.before
    BY <1>7 DEF IsMavros
  <2> QED BY <1>7, <2>1 DEF Kept
<1>8. CASE to = [mavros EXCEPT !.commands = mavros.commands + 1] /\ service = "command"
  <2>1. /\ IsMavros(to) /\ to.params = mavros.params /\ to.mission = mavros.mission
        /\ to.latched = mavros.latched /\ to.mode = mavros.mode /\ to.flying = mavros.flying
        /\ to.commands = mavros.commands + 1 /\ to.remote = mavros.remote
        /\ to.cached = mavros.cached /\ to.news = mavros.news /\ to.before = mavros.before
    BY <1>8 DEF IsMavros
  <2> QED BY <1>8, <2>1 DEF Kept
<1>9. CASE arg = "cw" /\ to = [mavros EXCEPT !.remote = <<>>] /\ service = "open"
  <2>1. /\ IsMavros(to) /\ to.params = mavros.params /\ to.mission = mavros.mission
        /\ to.latched = mavros.latched /\ to.mode = mavros.mode /\ to.flying = mavros.flying
        /\ to.commands = mavros.commands /\ to.remote = <<>> /\ to.cached = mavros.cached
        /\ to.news = mavros.news /\ to.before = mavros.before
    BY <1>9 DEF IsMavros
  <2> QED BY <1>9, <2>1 DEF Kept
<1>10. CASE to = [mavros EXCEPT !.remote = bytes] /\ service = "write"
  <2>1. /\ IsMavros(to) /\ to.params = mavros.params /\ to.mission = mavros.mission
        /\ to.latched = mavros.latched /\ to.mode = mavros.mode /\ to.flying = mavros.flying
        /\ to.commands = mavros.commands /\ to.remote = bytes /\ to.cached = mavros.cached
        /\ to.news = mavros.news /\ to.before = mavros.before
    BY <1>10 DEF IsMavros
  <2> QED BY <1>10, <2>1 DEF Kept, bytes
<1> QED BY <1>1, <1>2, <1>3, <1>4, <1>5, <1>6, <1>7, <1>8, <1>9, <1>10

LEMMA NewParams ==
    ASSUME IsMavros(mavros), NEW v, mavros' = [mavros EXCEPT !.params = v]
    PROVE  /\ IsMavros(mavros') /\ mavros'.params = v /\ mavros'.mission = mavros.mission
           /\ mavros'.latched = mavros.latched /\ mavros'.mode = mavros.mode
           /\ mavros'.commands = mavros.commands /\ mavros'.remote = mavros.remote
           /\ mavros'.cached = mavros.cached
           /\ mavros'.news = mavros.news /\ mavros'.before = mavros.before
BY DEF IsMavros
LEMMA NewCached ==
    ASSUME IsMavros(mavros), NEW v, mavros' = [mavros EXCEPT !.cached = v]
    PROVE  /\ IsMavros(mavros') /\ mavros'.params = mavros.params /\ mavros'.mission = mavros.mission
           /\ mavros'.latched = mavros.latched /\ mavros'.mode = mavros.mode
           /\ mavros'.commands = mavros.commands /\ mavros'.remote = mavros.remote
           /\ mavros'.cached = v
           /\ mavros'.news = mavros.news /\ mavros'.before = mavros.before
BY DEF IsMavros

\* A request is served, and its answer is under way if it is the main thread's.
AnswersWith(a) ==
    /\ Head(requests) \in ToSet(requests) /\ ToSet(requests') \subseteq ToSet(requests)
    /\ \/ /\ Head(requests) \in Mine /\ Mine = {Head(requests)}
          /\ Mine' = {} /\ Answers = {} /\ Answers' = {a}
       \/ Head(requests) \notin Mine /\ Mine' = Mine /\ Answers' = Answers
OldNews == mavros'.news = mavros.news /\ mavros'.before = mavros.before
Succeeded(r) ==
    /\ r.service \notin {"set", "pull"} /\ mavros' = Effect(r.service, r.arg)[1]
    /\ AnswersWith(Effect(r.service, r.arg)[2])
    /\ Told("points", {mavros'.latched}) \/ UNCHANGED topics
Failed(r) ==
    /\ r.service \notin {"set", "pull", "list", "get"}
    /\ AnswersWith(IF r.service = "checksum" THEN NoChecksum ELSE "failed")
    /\ UNCHANGED <<mavros, topics>>
\* Parameters that are received or set; the rest is as it was.
Elsewhere ==
    /\ mavros'.mission = mavros.mission /\ mavros'.latched = mavros.latched /\ mavros'.mode = mavros.mode
    /\ mavros'.commands = mavros.commands /\ mavros'.remote = mavros.remote
PulledIn(r) ==
    /\ r.service = "pull" /\ AnswersWith("ok") /\ Elsewhere
    /\ mavros'.params = mavros.params /\ mavros.cached \subseteq mavros'.cached
    /\ Told("event", {<<k, mavros.params[k]>> : k \in mavros'.cached}) \/ UNCHANGED topics
SetIn(r, refused) ==
    /\ r.service = "set" /\ AnswersWith(refused) /\ Elsewhere
    /\ mavros'.cached = mavros.cached /\ DOMAIN mavros'.params = DOMAIN mavros.params
    /\ \A k \in DOMAIN mavros.params : \/ mavros'.params[k] = mavros.params[k]
                                       \/ k \in DOMAIN r.arg /\ mavros'.params[k] = r.arg[k]
    /\ Told("event", {<<k, mavros.params[k]>> : k \in mavros.cached}
                     \union {<<k, mavros'.params[k]>> : k \in mavros.cached})
    /\ refused = {} /\ py.topic = "event" =>
         \A k \in DOMAIN r.arg : k \in DOMAIN mavros.params /\ (mavros'.params[k] = r.arg[k] \/ Pending(k)')
Handled(r) == r.service \in {"set", "pull"} /\ (\E a : AnswersWith(a)) /\ Elsewhere /\
    (UNCHANGED topics \/ \E heard : Told("event", heard))

LEMMA PullIn ==
    ASSUME Flow, UNCHANGED <<task, main, spin, answer, py>>, NEW r, Pulls(r), AnswersWith("ok")
    PROVE  Objects' /\ Heard' /\ OldNews /\ PulledIn(r)
<1>1. /\ Objects /\ Heard /\ IsMavros(mavros) /\ IsFcn(mavros.params)
      /\ IsFiniteSet(DOMAIN mavros.params) /\ r.service = "pull"
  BY DEF Flow, Objects, Pulls
<1>2. CASE UNCHANGED <<topics, mavros>>
  <2>1. Objects' /\ Heard'
    BY <1>1, <1>2, SameHeard DEF Objects
  <2> QED BY <1>1, <1>2, <2>1 DEF OldNews, PulledIn, Elsewhere
<1>3. ASSUME NEW received \in SUBSET DOMAIN mavros.params, mavros.cached = {},
             mavros' = [mavros EXCEPT !.cached = received],
             Publish("event", Events(mavros.params, received))
      PROVE  Objects' /\ Heard' /\ OldNews /\ PulledIn(r)
  <2>1. /\ IsMavros(mavros') /\ mavros'.params = mavros.params /\ mavros'.mission = mavros.mission
        /\ mavros'.latched = mavros.latched /\ mavros'.mode = mavros.mode
        /\ mavros'.commands = mavros.commands /\ mavros'.remote = mavros.remote
        /\ mavros'.cached = received
        /\ mavros'.news = mavros.news /\ mavros'.before = mavros.before
    BY <1>1, <1>3, NewCached
  <2>2. Objects'
    BY <1>1, <2>1 DEF Objects
  <2>3. IsFiniteSet(received)
    BY <1>1, FS_Subset
  <2>4. /\ Sequential(Events(mavros.params, received))
        /\ ToSet(Events(mavros.params, received)) = {<<k, mavros.params[k]>> : k \in received}
    BY <2>3, EventsAre
  <2> DEFINE list == Events(mavros.params, received)
  <2> HIDE DEF list
  <2>5. Heard' /\ Told("event", ToSet(list))
    BY <1>1, <1>3, <2>4, PublishFlow DEF Topics, list
  <2>6. Told("event", {<<k, mavros.params[k]>> : k \in received})
    BY <2>4, <2>5 DEF list
  <2> QED BY <1>1, <1>3, <2>1, <2>2, <2>5, <2>6 DEF OldNews, PulledIn, Elsewhere
<1> QED BY <1>2, <1>3 DEF Pulls

LEMMA SetsIn ==
    ASSUME Flow, UNCHANGED <<task, main, spin, answer, py>>, NEW r, Sets(r),
           IsFiniteSet(DOMAIN r.arg), \A a : Replies(r, a) => AnswersWith(a)
    PROVE  Objects' /\ Heard' /\ OldNews /\ \E refused \in SUBSET DOMAIN r.arg : SetIn(r, refused)
<1>1. /\ Objects /\ Heard /\ IsMavros(mavros) /\ IsFcn(mavros.params)
      /\ IsFiniteSet(DOMAIN mavros.params) /\ r.service = "set"
      /\ mavros.cached \subseteq DOMAIN mavros.params
  BY DEF Flow, Objects, Sets
<1> DEFINE names == DOMAIN r.arg \cap mavros.cached
<1>2. PICK taken \in SUBSET names, late \in SUBSET names, answered \in SUBSET names :
        LET new == [k \in DOMAIN mavros.params |->
                       IF k \in taken THEN r.arg[k] ELSE mavros.params[k]]
        IN  /\ mavros' = [mavros EXCEPT !.params = new]
            /\ Replies(r, DOMAIN r.arg \ (late \union answered))
            /\ Publish("event", Events(mavros.params, late) \o Events(new, answered))
  BY Zenon DEF Sets
<1> DEFINE new == [k \in DOMAIN mavros.params |-> IF k \in taken THEN r.arg[k] ELSE mavros.params[k]]
           refused == DOMAIN r.arg \ (late \union answered)
           list == Events(mavros.params, late) \o Events(new, answered)
<1>3. /\ mavros' = [mavros EXCEPT !.params = new] /\ AnswersWith(refused)
      /\ Publish("event", list) /\ refused \in SUBSET DOMAIN r.arg
  BY <1>2
<1>4. IsFiniteSet(late) /\ IsFiniteSet(answered)
  BY <1>2, FS_Subset
<1>5. /\ Sequential(list)
      /\ ToSet(list) = {<<k, mavros.params[k]>> : k \in late} \union {<<k, new[k]>> : k \in answered}
  <2>1. /\ Sequential(Events(mavros.params, late)) /\ Sequential(Events(new, answered))
        /\ ToSet(Events(mavros.params, late)) = {<<k, mavros.params[k]>> : k \in late}
        /\ ToSet(Events(new, answered)) = {<<k, new[k]>> : k \in answered}
    BY <1>4, EventsAre
  <2> HIDE DEF new
  <2> QED BY <2>1, Joined
<1>6. /\ IsFcn(new) /\ DOMAIN new = DOMAIN mavros.params
      /\ \A k \in DOMAIN mavros.params : new[k] = IF k \in taken THEN r.arg[k] ELSE mavros.params[k]
  BY DEF IsFcn
<1>7. \A k \in DOMAIN r.arg : k \in late \/ k \in answered \/ k \in refused
  OBVIOUS
<1>8. \A k \in taken \union late \union answered : k \in DOMAIN r.arg /\ k \in mavros.cached
  BY <1>2
<1> HIDE DEF new, list, refused, names
<1>9. /\ IsMavros(mavros') /\ mavros'.params = new /\ mavros'.mission = mavros.mission
      /\ mavros'.latched = mavros.latched /\ mavros'.mode = mavros.mode
      /\ mavros'.commands = mavros.commands /\ mavros'.remote = mavros.remote
      /\ mavros'.cached = mavros.cached
      /\ mavros'.news = mavros.news /\ mavros'.before = mavros.before
  BY <1>1, <1>3, NewParams
<1>10. Objects'
  BY <1>1, <1>6, <1>9 DEF Objects
<1>11. /\ Heard' /\ Told("event", ToSet(list))
       /\ py.topic = "event" =>
            \A v \in ToSet(list) : [topic |-> "event", value |-> v] \in ToSet(topics')
  BY <1>1, <1>3, <1>5, PublishFlow DEF Topics
<1>12. Told("event", {<<k, mavros.params[k]>> : k \in mavros.cached}
                     \union {<<k, mavros'.params[k]>> : k \in mavros.cached})
  <2>1. ToSet(list) \subseteq {<<k, mavros.params[k]>> : k \in mavros.cached}
                              \union {<<k, mavros'.params[k]>> : k \in mavros.cached}
    BY <1>5, <1>8, <1>9
  <2> QED BY <1>11, <2>1 DEF Told
<1>13. \A k \in DOMAIN mavros.params : \/ mavros'.params[k] = mavros.params[k]
                                       \/ k \in DOMAIN r.arg /\ mavros'.params[k] = r.arg[k]
  BY <1>6, <1>8, <1>9
<1>14. ASSUME refused = {}, py.topic = "event", NEW k \in DOMAIN r.arg
       PROVE  k \in DOMAIN mavros.params /\ (mavros'.params[k] = r.arg[k] \/ Pending(k)')
  <2>1. k \in late \/ k \in answered
    BY <1>7, <1>14
  <2>2. k \in DOMAIN mavros.params
    BY <1>1, <1>8, <2>1
  <2>3. CASE k \in answered
    <3>1. <<k, new[k]>> \in ToSet(list)
      BY <1>5, <2>3
    <3>2. [topic |-> "event", value |-> <<k, new[k]>>] \in ToSet(topics')
      BY <1>11, <1>14, <3>1
    <3> QED BY <1>9, <2>2, <3>2 DEF Pending
  <2>4. CASE k \in late /\ k \notin taken
    <3>1. <<k, mavros.params[k]>> \in ToSet(list) /\ new[k] = mavros.params[k]
      BY <1>5, <1>6, <2>2, <2>4
    <3>2. [topic |-> "event", value |-> <<k, new[k]>>] \in ToSet(topics')
      BY <1>11, <1>14, <3>1
    <3> QED BY <1>9, <2>2, <3>2 DEF Pending
  <2>5. CASE k \in taken
    BY <1>6, <1>9, <2>2, <2>5
  <2> QED BY <2>1, <2>3, <2>4, <2>5
<1>15. SetIn(r, refused)
  BY <1>1, <1>3, <1>6, <1>9, <1>12, <1>13, <1>14 DEF SetIn, Elsewhere
<1> QED BY <1>3, <1>9, <1>10, <1>11, <1>15 DEF OldNews

LEMMA Serves ==
    ASSUME Flow, Serve
    PROVE  /\ Flow' /\ UNCHANGED <<task, main, spin, answer, py>> /\ OldNews
           /\ \/ Succeeded(Head(requests))
              \/ Failed(Head(requests))
              \/ PulledIn(Head(requests))
              \/ \E refused \in SUBSET DOMAIN Head(requests).arg : SetIn(Head(requests), refused)
<1> DEFINE r == Head(requests)
           done == Effect(r.service, r.arg)
<1>1. /\ requests # <<>> /\ requests' = Tail(requests)
      /\ UNCHANGED <<task, main, spin, answer, py>>
  BY DEF Serve
<1>2. Succeeds(r) \/ Fails(r) \/ Pulls(r) \/ Sets(r)
  BY DEF Serve
<1>3. Calls /\ Threads /\ Objects /\ Heard /\ IsMavros(mavros)
  BY DEF Flow, Objects
<1>4. r \in ToSet(requests)
  BY <1>1, <1>3, Taken DEF Calls
<1>5. Threads'
  BY <1>1, <1>3, SameThreads
<1>6. ASSUME NEW a, Replies(r, a)
      PROVE  Calls' /\ AnswersWith(a)
  BY <1>1, <1>3, <1>6, Served DEF AnswersWith
<1>7. \A to : Kept(to) /\ mavros' = to => Objects' /\ OldNews
  BY <1>1, <1>3 DEF Kept, Objects, OldNews
<1>8. CASE Succeeds(r)
  <2>0. /\ r.service \notin {"set", "pull"} /\ mavros' = done[1] /\ Replies(r, done[2])
        /\ Publish("points", <<done[1].latched>>) \/ UNCHANGED topics
    BY <1>8 DEF Succeeds
  <2>1. Kept(done[1]) /\ Objects' /\ OldNews
    <3>1. Kept(done[1])
      BY <1>3, <2>0, EffectWrite
    <3> QED BY <1>7, <2>0, <3>1
  <2>2. Calls' /\ AnswersWith(done[2])
    BY <1>6, <2>0
  <2>3. Heard' /\ (Told("points", {mavros'.latched}) \/ UNCHANGED topics)
    <3>2. CASE Publish("points", <<done[1].latched>>)
      <4>1. Sequential(<<done[1].latched>>) /\ ToSet(<<done[1].latched>>) = {mavros'.latched}
        <5>1. \A x : Sequential(<<x>>) /\ ToSet(<<x>>) = {x}
          BY DEF Sequential, ToSet
        <5> QED BY <2>0, <5>1
      <4> HIDE DEF done
      <4>2. Heard' /\ Told("points", ToSet(<<done[1].latched>>))
        BY <1>1, <1>3, <3>2, <4>1, PublishFlow DEF Topics
      <4> QED BY <4>1, <4>2
    <3>3. CASE UNCHANGED topics
      BY <1>1, <1>3, <3>3, SameHeard
    <3> QED BY <2>0, <3>2, <3>3
  <2>4. Succeeded(r)
    BY <2>0, <2>2, <2>3 DEF Succeeded
  <2> QED BY <1>1, <1>5, <2>1, <2>2, <2>3, <2>4 DEF Flow
<1>9. CASE Fails(r)
  <2> DEFINE a == IF r.service = "checksum" THEN NoChecksum ELSE "failed"
  <2>0. /\ r.service \notin {"set", "pull", "list", "get"} /\ UNCHANGED <<topics, mavros>>
        /\ Replies(r, a)
    BY <1>9 DEF Fails
  <2>1. Calls' /\ AnswersWith(a)
    BY <1>6, <2>0
  <2>2. Objects' /\ OldNews
    BY <1>1, <1>3, <2>0 DEF Objects, OldNews
  <2>3. Heard'
    BY <1>1, <1>3, <2>0, SameHeard
  <2>4. Failed(r)
    BY <2>0, <2>1 DEF Failed
  <2> QED BY <1>1, <1>5, <2>1, <2>2, <2>3, <2>4 DEF Flow
<1>10. CASE Pulls(r)
  <2>1. Calls' /\ AnswersWith("ok")
    BY <1>6, <1>10 DEF Pulls
  <2> HIDE DEF r
  <2>2. Objects' /\ Heard' /\ OldNews /\ PulledIn(r)
    BY <1>1, <1>10, <2>1, PullIn
  <2> QED BY <1>1, <1>5, <2>1, <2>2 DEF Flow, r
<1>11. CASE Sets(r)
  <2>1. IsFiniteSet(DOMAIN r.arg)
    BY <1>3, <1>4, <1>11 DEF Calls, Sets
  <2>2. Calls'
    BY <1>6, <1>11 DEF Sets
  <2> HIDE DEF r
  <2>3. Objects' /\ Heard' /\ OldNews /\ \E refused \in SUBSET DOMAIN r.arg : SetIn(r, refused)
    BY <1>1, <1>6, <1>11, <2>1, SetsIn
  <2> QED BY <1>1, <1>5, <2>2, <2>3 DEF Flow, r
<1> QED BY <1>1, <1>2, <1>8, <1>9, <1>10, <1>11

\* The services of parameters, as those who have no parameters see them.
LEMMA ServesOthers ==
    ASSUME Flow, Serve
    PROVE  /\ UNCHANGED <<task, main, spin, answer, py>> /\ OldNews
           /\ Succeeded(Head(requests)) \/ Failed(Head(requests)) \/ Handled(Head(requests))
<1>1. PulledIn(Head(requests)) => Handled(Head(requests))
  BY DEF PulledIn, Handled
<1>2. (\E refused \in SUBSET DOMAIN Head(requests).arg : SetIn(Head(requests), refused))
        => Handled(Head(requests))
  BY DEF SetIn, Handled
<1> QED BY <1>1, <1>2, Serves

LEMMA Effects ==
    ASSUME Flow, NEW r, Succeeded(r)
    PROVE  /\ Kept(mavros') /\ AnswersWith(Effect(r.service, r.arg)[2])
           /\ r.service \notin {"wp pull", "wp push", "wp clear"} =>
                mavros'.mission = mavros.mission /\ mavros'.latched = mavros.latched
           /\ r.service = "wp pull" =>
                mavros'.mission = mavros.mission /\ mavros'.latched = mavros.mission
           /\ r.service = "wp push" => mavros'.mission = Replaced(mavros.mission, r.arg.from, r.arg.points)
           /\ mavros'.mode = mavros.mode
           /\ mavros'.commands = (IF r.service = "command" THEN mavros.commands + 1 ELSE mavros.commands)
           /\ r.service \notin {"open", "write"} => mavros'.remote = mavros.remote
           /\ r.service = "open" => mavros'.remote = (IF r.arg = "cw" THEN <<>> ELSE mavros.remote)
           /\ r.service = "write" => mavros'.remote = Spliced(mavros.remote, r.arg.offset, r.arg.bytes)
<1> DEFINE to == Effect(r.service, r.arg)[1]
<1>1. /\ IsMavros(mavros) /\ mavros' = to /\ r.service \notin {"set", "pull"}
      /\ AnswersWith(Effect(r.service, r.arg)[2])
  BY DEF Succeeded, Flow, Objects
<1> DEFINE arg == r.arg
           service == r.service
<1>2. /\ Kept(to)
      /\ service \notin {"wp pull", "wp push", "wp clear"} =>
           to.mission = mavros.mission /\ to.latched = mavros.latched
      /\ service = "wp pull" => to.mission = mavros.mission /\ to.latched = mavros.mission
      /\ service = "wp push" => to.mission = Replaced(mavros.mission, arg.from, arg.points)
      /\ to.mode = mavros.mode
      /\ to.commands = (IF service = "command" THEN mavros.commands + 1 ELSE mavros.commands)
      /\ service \notin {"open", "write"} => to.remote = mavros.remote
      /\ service = "open" => to.remote = (IF arg = "cw" THEN <<>> ELSE mavros.remote)
      /\ service = "write" => to.remote = Spliced(mavros.remote, arg.offset, arg.bytes)
  BY <1>1, EffectWrite, ZenonT(60)
<1> HIDE DEF to
<1> QED BY <1>1, <1>2

\* What neither the vehicle nor others change.
Apart ==
    /\ UNCHANGED <<task, main, spin, requests, inbox, answer, py>>
    /\ Mine' = Mine /\ Answers' = Answers
    /\ mavros'.commands = mavros.commands /\ mavros'.remote = mavros.remote
    /\ mavros'.before = mavros.before

LEMMA NewMode ==
    ASSUME IsMavros(mavros), NEW v, mavros' = [mavros EXCEPT !.mode = v]
    PROVE  /\ IsMavros(mavros') /\ mavros'.mode = v /\ mavros'.params = mavros.params
           /\ mavros'.mission = mavros.mission /\ mavros'.latched = mavros.latched
           /\ mavros'.commands = mavros.commands /\ mavros'.remote = mavros.remote
           /\ mavros'.cached = mavros.cached
           /\ mavros'.news = mavros.news /\ mavros'.before = mavros.before
BY DEF IsMavros

LEMMA ReportsFlow ==
    ASSUME Flow, Reports
    PROVE  /\ Flow' /\ Apart /\ OldNews
           /\ mavros'.params = mavros.params /\ mavros'.cached = mavros.cached
           /\ mavros'.mission = mavros.mission /\ mavros'.latched = mavros.latched
           /\ \/ mavros'.mode = mavros.mode /\ (Told("fix", {0}) \/ \E from : Told("source", {from}))
              \/ /\ task.command = "mode" => mavros'.mode = task.mode
                 /\ Told("state", {mavros'.mode})
<1>1. UNCHANGED <<task, main, spin, requests, inbox, answer, py>>
  BY DEF Reports
<1>2. Calls /\ Threads /\ Objects /\ Heard /\ IsMavros(mavros)
  BY DEF Flow, Objects
<1>3. Calls' /\ Mine' = Mine /\ Answers' = Answers /\ Threads'
  BY <1>1, <1>2, SameCall, SameThreads
<1>4. \A x : Sequential(<<x>>) /\ ToSet(<<x>>) = {x}
  BY DEF Sequential, ToSet
<1>5. CASE Publish("fix", <<0>>) /\ UNCHANGED mavros
  <2>1. Heard' /\ Told("fix", {0})
    BY <1>1, <1>2, <1>4, <1>5, PublishFlow DEF Topics
  <2>2. Objects'
    BY <1>1, <1>2, <1>5 DEF Objects
  <2> QED BY <1>1, <1>3, <1>5, <2>1, <2>2 DEF Flow, Apart, OldNews
<1>6. ASSUME NEW from, Publish("source", <<from>>), UNCHANGED mavros
      PROVE  /\ Flow' /\ Apart /\ OldNews /\ UNCHANGED mavros /\ Told("source", {from})
  <2>1. Heard' /\ Told("source", {from})
    BY <1>1, <1>2, <1>4, <1>6, PublishFlow DEF Topics
  <2>2. Objects'
    BY <1>1, <1>2, <1>6 DEF Objects
  <2> QED BY <1>1, <1>3, <1>6, <2>1, <2>2 DEF Flow, Apart, OldNews
<1>7. ASSUME NEW to, to = IF task.command = "mode" THEN task.mode ELSE "on",
             mavros' = [mavros EXCEPT !.mode = to], Publish("state", <<to>>)
      PROVE  /\ Flow' /\ Apart /\ OldNews
             /\ mavros'.params = mavros.params /\ mavros'.cached = mavros.cached
             /\ mavros'.mission = mavros.mission /\ mavros'.latched = mavros.latched
             /\ task.command = "mode" => mavros'.mode = task.mode
             /\ Told("state", {mavros'.mode})
  <2>1. /\ IsMavros(mavros') /\ mavros'.mode = to /\ mavros'.params = mavros.params
        /\ mavros'.mission = mavros.mission /\ mavros'.latched = mavros.latched
        /\ mavros'.commands = mavros.commands /\ mavros'.remote = mavros.remote
        /\ mavros'.cached = mavros.cached
        /\ mavros'.news = mavros.news /\ mavros'.before = mavros.before
    BY <1>2, <1>7, NewMode
  <2>2. Heard' /\ Told("state", {to})
    BY <1>1, <1>2, <1>4, <1>7, PublishFlow DEF Topics
  <2>3. Objects'
    BY <1>1, <1>2, <2>1 DEF Objects
  <2> QED BY <1>1, <1>3, <1>7, <2>1, <2>2, <2>3 DEF Flow, Apart, OldNews
<1> QED BY <1>5, <1>6, <1>7 DEF Reports

LEMMA NewParameter ==
    ASSUME IsMavros(mavros), NEW v, NEW c, NEW w,
           mavros' = [mavros EXCEPT !.params = v, !.cached = c, !.news = w]
    PROVE  /\ IsMavros(mavros') /\ mavros'.mode = mavros.mode /\ mavros'.params = v
           /\ mavros'.commands = mavros.commands /\ mavros'.remote = mavros.remote
           /\ mavros'.cached = c /\ mavros'.news = w /\ mavros'.before = mavros.before
BY DEF IsMavros
LEMMA NewMission ==
    ASSUME IsMavros(mavros), NEW v, NEW w, mavros' = [mavros EXCEPT !.mission = v, !.latched = v, !.news = w]
    PROVE  /\ IsMavros(mavros') /\ mavros'.mode = mavros.mode /\ mavros'.params = mavros.params
           /\ mavros'.commands = mavros.commands /\ mavros'.remote = mavros.remote
           /\ mavros'.cached = mavros.cached /\ mavros'.news = w /\ mavros'.before = mavros.before
BY DEF IsMavros

LEMMA OthersFlow ==
    ASSUME ClientAssumption, Flow, Others
    PROVE  /\ Flow' /\ Apart /\ mavros'.mode = mavros.mode /\ ~Untouched'
           /\ \E topic \in {"event", "points"} : \E list : Told(topic, list)
<1>1. UNCHANGED <<task, main, spin, requests, inbox, answer, py>> /\ mavros.news > 0
  BY DEF Others
<1>2. Calls /\ Threads /\ Objects /\ Heard /\ IsMavros(mavros)
  BY DEF Flow, Objects
<1>3. Calls' /\ Mine' = Mine /\ Answers' = Answers /\ Threads'
  BY <1>1, <1>2, SameCall, SameThreads
<1>4. \A x : Sequential(<<x>>) /\ ToSet(<<x>>) = {x}
  BY DEF Sequential, ToSet
<1>5. mavros.news \in Int /\ mavros.news <= MaxNews /\ mavros.before \in Seq(Nat)
  BY <1>2 DEF Objects
<1>6. ASSUME NEW k \in DOMAIN mavros.params, Publish("event", <<<<k, 9>>>>),
             mavros' = [mavros EXCEPT !.params[k] = 9, !.cached = @ \union {k}, !.news = @ - 1]
      PROVE  Flow' /\ Apart /\ mavros'.mode = mavros.mode /\ ~Untouched' /\ Told("event", {<<k, 9>>})
  <2> DEFINE params == [mavros.params EXCEPT ![k] = 9]
             cached == mavros.cached \union {k}
             news == mavros.news - 1
  <2>1. mavros' = [mavros EXCEPT !.params = params, !.cached = cached, !.news = news]
    BY <1>6
  <2>2. params = [n \in DOMAIN mavros.params |-> params[n]]
    OBVIOUS
  <2>3. /\ DOMAIN params = DOMAIN mavros.params /\ cached \subseteq DOMAIN mavros.params
        /\ news <= MaxNews /\ news # MaxNews /\ news \in Int
    <3>1. mavros.news \in Int /\ MaxNews \in Nat
      BY <1>5 DEF ClientAssumption
    <3>2. mavros.cached \subseteq DOMAIN mavros.params
      BY <1>2 DEF Objects
    <3> QED BY <1>5, <3>1, <3>2
  <2> HIDE DEF params, cached, news
  <2>4. /\ IsMavros(mavros') /\ mavros'.mode = mavros.mode /\ mavros'.params = params
        /\ mavros'.commands = mavros.commands /\ mavros'.remote = mavros.remote
        /\ mavros'.cached = cached /\ mavros'.news = news /\ mavros'.before = mavros.before
    BY <1>2, <2>1, NewParameter
  <2>5. Heard' /\ Told("event", {<<k, 9>>})
    BY <1>1, <1>2, <1>4, <1>6, PublishFlow DEF Topics
  <2>6. Objects'
    BY <1>1, <1>2, <1>5, <2>2, <2>3, <2>4 DEF Objects, IsFcn
  <2> QED BY <1>1, <1>3, <2>3, <2>4, <2>5, <2>6 DEF Flow, Apart, Untouched
<1>7. ASSUME Publish("points", <<<<8, 8>>>>),
             mavros' = [mavros EXCEPT !.mission = <<8, 8>>, !.latched = <<8, 8>>, !.news = @ - 1]
      PROVE  Flow' /\ Apart /\ mavros'.mode = mavros.mode /\ ~Untouched' /\ Told("points", {<<8, 8>>})
  <2> DEFINE news == mavros.news - 1
  <2>1. mavros' = [mavros EXCEPT !.mission = <<8, 8>>, !.latched = <<8, 8>>, !.news = news]
    BY <1>7
  <2>2. news <= MaxNews /\ news # MaxNews /\ news \in Int
    BY <1>5 DEF ClientAssumption
  <2> HIDE DEF news
  <2>3. /\ IsMavros(mavros') /\ mavros'.mode = mavros.mode /\ mavros'.params = mavros.params
        /\ mavros'.commands = mavros.commands /\ mavros'.remote = mavros.remote
        /\ mavros'.cached = mavros.cached /\ mavros'.news = news /\ mavros'.before = mavros.before
    BY <1>2, <2>1, NewMission
  <2>4. Heard' /\ Told("points", {<<8, 8>>})
    BY <1>1, <1>2, <1>4, <1>7, PublishFlow DEF Topics
  <2>5. Objects'
    BY <1>1, <1>2, <1>5, <2>2, <2>3 DEF Objects
  <2> QED BY <1>1, <1>3, <2>2, <2>3, <2>4, <2>5 DEF Flow, Apart, Untouched
<1> QED BY <1>6, <1>7 DEF Others

(* -------------------------------- every step ------------------------------- *)
\* The steps of the main thread, and the commands each belongs to.
LEMMA CommandOf ==
    ASSUME Flow
    PROVE  /\ uas_settings => task.command \in {"load", "checkid", "dump"} /\ Flow' /\ UNCHANGED <<task, mavros>>
           /\ values => task.command \in {"get", "set", "dump", "load"} /\ Flow' /\ UNCHANGED <<task, mavros>>
           /\ Pulled => task.command \in {"get", "set", "dump", "load"} /\ Flow' /\ UNCHANGED <<task, mavros>>
           /\ Listed => task.command \in {"get", "set", "dump", "load"} /\ Flow' /\ UNCHANGED <<task, mavros>>
           /\ Got => task.command \in {"get", "set", "dump", "load"} /\ Flow' /\ UNCHANGED <<task, mavros>>
           /\ Assign => task.command \in {"set", "load"} /\ Flow' /\ UNCHANGED <<task, mavros>>
           /\ Assigned => task.command \in {"set", "load"} /\ Flow' /\ UNCHANGED <<task, mavros>>
           /\ Show => task.command \in {"get", "dump"} /\ Flow' /\ UNCHANGED <<task, mavros>>
           /\ Pull => task.command \in {"wp dump", "wp show"} /\ Flow' /\ UNCHANGED <<task, mavros>>
           /\ PulledPoints => task.command \in {"wp dump", "wp show"} /\ Flow' /\ UNCHANGED <<task, mavros>>
           /\ PointsAsTheyAre => task.command \in {"wp dump", "wp show"} /\ Flow' /\ UNCHANGED <<task, mavros>>
           /\ Save => task.command \in {"wp dump", "wp show"} /\ Flow' /\ UNCHANGED <<task, mavros>>
           /\ Push => task.command = "wp load" /\ Flow' /\ UNCHANGED <<task, mavros>>
           /\ PreserveHome => task.command = "wp load" /\ Flow' /\ UNCHANGED <<task, mavros>>
           /\ PushHome => task.command = "wp load" /\ Flow' /\ UNCHANGED <<task, mavros>>
           /\ Clear => task.command = "wp clear" /\ Flow' /\ UNCHANGED <<task, mavros>>
           /\ Pushed => task.command \in {"wp load", "wp clear"} /\ Flow' /\ UNCHANGED <<task, mavros>>
           /\ SetCurrent => task.command = "wp setcur" /\ Flow' /\ UNCHANGED <<task, mavros>>
           /\ CallCommand => task.command = "call" /\ Flow' /\ UNCHANGED <<task, mavros>>
           /\ Called => task.command = "call" /\ Flow' /\ UNCHANGED <<task, mavros>>
           /\ Checker => task.command = "checkid" /\ Flow' /\ UNCHANGED <<task, mavros>>
           /\ takeoff_cur => task.command = "takeoff_cur" /\ Flow' /\ UNCHANGED <<task, mavros>>
           /\ mode => task.command = "mode" /\ Flow' /\ UNCHANGED <<task, mavros>>
           /\ ModeSent => task.command = "mode" /\ Flow' /\ UNCHANGED <<task, mavros>>
           /\ wait_fcu_connection => task.command = "wait_fcu" /\ Flow' /\ UNCHANGED <<task, mavros>>
           /\ Woken =>
                /\ task.command \in {"takeoff_cur", "wait_fcu", "mode", "checkid"}
                /\ Flow' /\ UNCHANGED <<task, mavros>>
           /\ TimesOut =>
                /\ task.command \in {"takeoff_cur", "wait_fcu", "mode", "wp dump", "wp show", "wp load"}
                /\ Flow' /\ UNCHANGED <<task, mavros>>
           /\ upload => task.command = "upload" /\ Flow' /\ UNCHANGED <<task, mavros>>
           /\ Opened => task.command = "upload" /\ Flow' /\ UNCHANGED <<task, mavros>>
           /\ Written => task.command = "upload" /\ Flow' /\ UNCHANGED <<task, mavros>>
           /\ ClosedFile => task.command = "upload" /\ Flow' /\ UNCHANGED <<task, mavros>>
           /\ verify => task.command = "verify" /\ Flow' /\ UNCHANGED <<task, mavros>>
           /\ Verified => task.command \in {"upload", "verify"} /\ Flow' /\ UNCHANGED <<task, mavros>>
           /\ download => task.command = "download" /\ Flow' /\ UNCHANGED <<task, mavros>>
           /\ Close => Flow' /\ UNCHANGED <<task, mavros>>
<1>0. Threads
  BY DEF Flow
<1>1. ASSUME uas_settings
       PROVE task.command \in {"load", "checkid", "dump"} /\ Flow' /\ UNCHANGED <<task, mavros>>
  BY <1>0, <1>1, SettingsFlow DEF Same, Threads, Way
<1>2. ASSUME values
       PROVE task.command \in {"get", "set", "dump", "load"} /\ Flow' /\ UNCHANGED <<task, mavros>>
  BY <1>0, <1>2, ValuesFlow DEF Same, Threads, Way
<1>3. ASSUME Pulled
       PROVE task.command \in {"get", "set", "dump", "load"} /\ Flow' /\ UNCHANGED <<task, mavros>>
  BY <1>0, <1>3, PulledFlow DEF Same, Threads, Way
<1>4. ASSUME Listed
       PROVE task.command \in {"get", "set", "dump", "load"} /\ Flow' /\ UNCHANGED <<task, mavros>>
  BY <1>0, <1>4, ListedFlow DEF Same, Threads, Way
<1>5. ASSUME Got
       PROVE task.command \in {"get", "set", "dump", "load"} /\ Flow' /\ UNCHANGED <<task, mavros>>
  BY <1>0, <1>5, GotFlow DEF Same, Threads, Way
<1>6. ASSUME Assign PROVE task.command \in {"set", "load"} /\ Flow' /\ UNCHANGED <<task, mavros>>
  BY <1>0, <1>6, AssignFlow DEF Same, Threads, Way
<1>7. ASSUME Assigned PROVE task.command \in {"set", "load"} /\ Flow' /\ UNCHANGED <<task, mavros>>
  BY <1>0, <1>7, AssignedFlow DEF Same, Threads, Way
<1>8. ASSUME Show PROVE task.command \in {"get", "dump"} /\ Flow' /\ UNCHANGED <<task, mavros>>
  BY <1>0, <1>8, ShownFlow DEF Same, Threads, Way
<1>9. ASSUME Pull
       PROVE task.command \in {"wp dump", "wp show"} /\ Flow' /\ UNCHANGED <<task, mavros>>
  BY <1>0, <1>9, PullFlow DEF Same, Threads, Way
<1>10. ASSUME PulledPoints
       PROVE task.command \in {"wp dump", "wp show"} /\ Flow' /\ UNCHANGED <<task, mavros>>
  BY <1>0, <1>10, PointsFlow DEF Same, Threads, Way
<1>11. ASSUME PointsAsTheyAre
       PROVE task.command \in {"wp dump", "wp show"} /\ Flow' /\ UNCHANGED <<task, mavros>>
  BY <1>0, <1>11, PointsFlow DEF Same, Threads, Way
<1>12. ASSUME Save
       PROVE task.command \in {"wp dump", "wp show"} /\ Flow' /\ UNCHANGED <<task, mavros>>
  BY <1>0, <1>12, SaveFlow DEF Same, Threads, Way
<1>13. ASSUME Push PROVE task.command = "wp load" /\ Flow' /\ UNCHANGED <<task, mavros>>
  BY <1>0, <1>13, PushFlow DEF Same, Threads, Way
<1>14. ASSUME PreserveHome PROVE task.command = "wp load" /\ Flow' /\ UNCHANGED <<task, mavros>>
  BY <1>0, <1>14, PreserveHomeFlow DEF Same, Threads, Way
<1>15. ASSUME PushHome PROVE task.command = "wp load" /\ Flow' /\ UNCHANGED <<task, mavros>>
  BY <1>0, <1>15, PushHomeFlow DEF Same, Threads, Way
<1>16. ASSUME Clear PROVE task.command = "wp clear" /\ Flow' /\ UNCHANGED <<task, mavros>>
  BY <1>0, <1>16, ClearFlow DEF Same, Threads, Way
<1>17. ASSUME Pushed
       PROVE task.command \in {"wp load", "wp clear"} /\ Flow' /\ UNCHANGED <<task, mavros>>
  BY <1>0, <1>17, PushedFlow DEF Same, Threads, Way
<1>18. ASSUME SetCurrent PROVE task.command = "wp setcur" /\ Flow' /\ UNCHANGED <<task, mavros>>
  BY <1>0, <1>18, SetCurrentFlow DEF Same, Threads, Way
<1>19. ASSUME CallCommand PROVE task.command = "call" /\ Flow' /\ UNCHANGED <<task, mavros>>
  BY <1>0, <1>19, CallCommandFlow DEF Same, Threads, Way
<1>20. ASSUME Called PROVE task.command = "call" /\ Flow' /\ UNCHANGED <<task, mavros>>
  BY <1>0, <1>20, CalledFlow DEF Same, Threads, Way
<1>21. ASSUME Checker PROVE task.command = "checkid" /\ Flow' /\ UNCHANGED <<task, mavros>>
  BY <1>0, <1>21, CheckerFlow DEF Same, Threads, Way
<1>22. ASSUME takeoff_cur PROVE task.command = "takeoff_cur" /\ Flow' /\ UNCHANGED <<task, mavros>>
  BY <1>0, <1>22, TakeoffFlow DEF Same, Threads, Way
<1>23. ASSUME mode PROVE task.command = "mode" /\ Flow' /\ UNCHANGED <<task, mavros>>
  BY <1>23, AskModeFlow, ModeNow DEF Same
<1>24. ASSUME ModeSent PROVE task.command = "mode" /\ Flow' /\ UNCHANGED <<task, mavros>>
  BY <1>0, <1>24, ModeSentFlow DEF Same, Threads, Way
<1>25. ASSUME wait_fcu_connection PROVE task.command = "wait_fcu" /\ Flow' /\ UNCHANGED <<task, mavros>>
  BY <1>0, <1>25, WaitFcuFlow DEF Same, Threads, Way
<1>26. ASSUME Woken
       PROVE task.command \in {"takeoff_cur", "wait_fcu", "mode", "checkid"} /\ Flow' /\ UNCHANGED <<task, mavros>>
  <2>1. main.at \in {"wait done", "wait report"}
    BY <1>26 DEF Woken, Waits
  <2>2. Flow' /\ Same
    BY <1>26, WaitFlow
  <2> QED BY <1>0, <2>1, <2>2 DEF Same, Threads, Way
<1>27. ASSUME TimesOut
       PROVE /\ task.command \in {"takeoff_cur", "wait_fcu", "mode", "wp dump", "wp show", "wp load"}
             /\ Flow' /\ UNCHANGED <<task, mavros>>
  <2>1. main.at \in {"wait points", "wait home", "wait done"}
    BY <1>27 DEF TimesOut, Waits
  <2>2. Flow' /\ Same
    BY <1>27, WaitFlow
  <2> QED BY <1>0, <2>1, <2>2 DEF Same, Threads, Way
<1>28. ASSUME upload PROVE task.command = "upload" /\ Flow' /\ UNCHANGED <<task, mavros>>
  BY <1>0, <1>28, UploadFlow DEF Same, Threads, Way
<1>29. ASSUME Opened PROVE task.command = "upload" /\ Flow' /\ UNCHANGED <<task, mavros>>
  BY <1>0, <1>29, OpenedFlow DEF Same, Threads, Way
<1>30. ASSUME Written PROVE task.command = "upload" /\ Flow' /\ UNCHANGED <<task, mavros>>
  BY <1>0, <1>30, WrittenFlow DEF Same, Threads, Way
<1>31. ASSUME ClosedFile PROVE task.command = "upload" /\ Flow' /\ UNCHANGED <<task, mavros>>
  BY <1>0, <1>31, ClosedFlow DEF Same, Threads, Way
<1>32. ASSUME verify PROVE task.command = "verify" /\ Flow' /\ UNCHANGED <<task, mavros>>
  BY <1>0, <1>32, AskSumFlow DEF Same, Threads, Way
<1>33. ASSUME Verified
       PROVE task.command \in {"upload", "verify"} /\ Flow' /\ UNCHANGED <<task, mavros>>
  BY <1>0, <1>33, VerifiedFlow DEF Same, Threads, Way
<1>34. ASSUME download PROVE task.command = "download" /\ Flow' /\ UNCHANGED <<task, mavros>>
  BY <1>0, <1>34, DownloadFlow DEF Same, Threads, Way
<1>35. ASSUME Close PROVE Flow' /\ UNCHANGED <<task, mavros>>
  BY <1>35, CloseFlow
<1> QED
  BY <1>1, <1>2, <1>3, <1>4, <1>5, <1>6, <1>7, <1>8, <1>9, <1>10, <1>11, <1>12, <1>13, <1>14, <1>15,
     <1>16, <1>17, <1>18, <1>19, <1>20, <1>21, <1>22, <1>23, <1>24, <1>25, <1>26, <1>27, <1>28,
     <1>29, <1>30, <1>31, <1>32, <1>33, <1>34, <1>35

LEMMA FlowKept ==
    ASSUME ClientAssumption, Flow, [ClientNext]_clientvars
    PROVE  Flow' /\ UNCHANGED task
<1>1. CASE Main
  BY <1>1, CommandOf DEF Main
<1>2. CASE TakeAnswer
  BY <1>2, TakeFlow
<1>3. CASE Callback
  <2>1. \/ Head(topics).topic = "event"
        \/ Head(topics).topic = "fix"
        \/ Head(topics).topic = "points" /\ task.command = "wp load"
        \/ Head(topics).topic \in {"state", "source"}
        \/ Head(topics).topic = "points" /\ task.command # "wp load"
    BY <1>3 DEF Callback
  <2> QED BY <1>3, <2>1, EventFlow, FixFlow, HomeFlow, NotedFlow DEF Heeds
<1>4. CASE timer_cb
  BY <1>4, TimerFlow
<1>5. CASE Serve
  BY <1>5, Serves
<1>6. CASE Reports
  BY <1>6, ReportsFlow DEF Apart
<1>7. CASE Others
  BY <1>7, OthersFlow DEF Apart
<1>8. CASE UNCHANGED clientvars
  <2>1. UNCHANGED <<task, main, spin, requests, inbox, answer, topics, py, mavros>>
    BY <1>8 DEF clientvars
  <2>2. Calls' /\ Threads' /\ Heard'
    BY <2>1, SameCall, SameThreads, SameHeard DEF Flow
  <2>3. Objects'
    BY <2>1 DEF Flow, Objects
  <2> QED BY <2>1, <2>2, <2>3 DEF Flow
<1> QED BY <1>1, <1>2, <1>3, <1>4, <1>5, <1>6, <1>7, <1>8 DEF ClientNext, Spinner

(* -------------------------------- parameters -------------------------------- *)
\* A spinner that is not in a call has left no request behind.
LEMMA Unasked ==
    ASSUME Flow, spin # "calls"
    PROVE  ToSet(requests) = Mine
BY DEF Flow, Calls, Mine

LEMMA Spins ==
    ASSUME Flow, spin # "calls", main.at # "ended", task.command # "wp load"
    PROVE  spin = "spins"
BY DEF Flow, Threads

\* A parameter that does not differ is in the dictionary already.
LEMMA NoDifference ==
    ASSUME NEW dict, IsFcn(dict), NEW k, NEW v, ~Differs(dict, k, v)
    PROVE  k \in DOMAIN dict /\ dict[k] = v /\ _set_item(dict, k, v) = dict
<1>1. k \in DOMAIN dict /\ dict[k] = v
  BY DEF Differs
<1>2. _set_item(dict, k, v) = [n \in DOMAIN dict |-> dict[n]]
  BY <1>1 DEF _set_item
<1> QED BY <1>1, <1>2 DEF IsFcn

\* The steps of the main thread with parameters.
LEMMA ParameterSteps ==
    ASSUME Flow, Main, task.command \in {"get", "set", "load", "dump"}
    PROVE  uas_settings \/ values \/ Pulled \/ Listed \/ Got \/ Assign \/ Assigned \/ Show \/ Close
BY CommandOf DEF Main

LEMMA EmptyKept ==
    ASSUME ClientAssumption, Flow, Empty, ClientNext
    PROVE  Empty'
<1> SUFFICES ASSUME Early', spin' = "spins", task'.command \in {"set", "load", "dump"}
             PROVE  DOMAIN py'.dict = {}
  BY DEF Empty
<1>1. Flow' /\ UNCHANGED task /\ task.command \in {"set", "load", "dump"}
  BY FlowKept
<1>2. Early /\ spin = "spins" => DOMAIN py.dict = {}
  BY <1>1 DEF Empty
<1>3. CASE Main
  <2>0. uas_settings \/ values \/ Pulled \/ Listed \/ Got \/ Assign \/ Assigned \/ Show \/ Close
    BY <1>1, <1>3, ParameterSteps
  <2>1. CASE uas_settings
    <3>1. main'.at = "settings" /\ (main.at = "start" \/ task.command = "dump") /\ UNCHANGED <<spin, py>>
      BY <2>1, SettingsFlow DEF AsksFor, Same
    <3> QED BY <1>1, <1>2, <3>1 DEF Early
  <2>2. CASE values
    <3>1. /\ main.at = "start" \/ (main.at = "settings" /\ task.command = "load")
          /\ UNCHANGED spin /\ py'.dict = py.dict
      BY <2>2, ValuesFlow DEF Same
    <3> QED BY <1>2, <3>1 DEF Early
  <2>3. CASE Pulled
    <3>1. main.at = "pull" /\ UNCHANGED <<spin, py>>
      BY <2>3, PulledFlow DEF Same
    <3> QED BY <1>2, <3>1 DEF Early
  <2>4. CASE Listed
    <3>1. main.at = "list" /\ UNCHANGED <<spin, py>>
      BY <2>4, ListedFlow DEF Same
    <3> QED BY <1>2, <3>1 DEF Early
  <2>5. CASE Got
    BY <2>5, GotFlow DEF RestsAt, Early
  <2>6. CASE Assign
    BY <2>6, AssignFlow DEF Ends, AsksFor, Early
  <2>7. CASE Assigned
    BY <2>7, AssignedFlow DEF Ends, Early
  <2>8. CASE Show
    BY <2>8, ShownFlow DEF Ends, Early
  <2>9. CASE Close
    BY <2>9, CloseFlow DEF Early
  <2> QED BY <2>0, <2>1, <2>2, <2>3, <2>4, <2>5, <2>6, <2>7, <2>8, <2>9
<1>4. CASE Callback
  <2>1. Head(topics).topic = "event"
    <3>1. Head(topics).topic = py.topic /\ Hears(py.topic) /\ Head(topics).topic # "none"
      BY <1>4, MessageHere DEF Callback
    <3> QED BY <1>1, <3>1 DEF Hears, Topics
  <2> DEFINE k == Head(topics).value[1]
             v == Head(topics).value[2]
  <2>2. /\ spin = "spins" /\ UNCHANGED main /\ ~Differs(py.dict, k, v)
        /\ py'.dict = _set_item(py.dict, k, v)
    BY <1>4, <2>1, EventFlow DEF Heeds
  <2> HIDE DEF k, v
  <2>3. py'.dict = py.dict
    BY <2>2, NoDifference DEF Flow, Objects
  <2> QED BY <1>1, <1>2, <2>2, <2>3 DEF Early
<1>5. CASE TakeAnswer \/ timer_cb
  BY <1>1, <1>2, <1>5, TakeFlow, TimerFlow DEF Early
<1>6. CASE Serve
  BY <1>1, <1>2, <1>6, Serves DEF Early
<1>7. CASE Reports \/ Others
  BY <1>1, <1>2, <1>7, ReportsFlow, OthersFlow DEF Early, Apart
<1> QED BY <1>3, <1>4, <1>5, <1>6, <1>7 DEF ClientNext, Spinner

\* Whose request has been answered; only the main thread asks mavros to pull.
LEMMA AnswerTo ==
    ASSUME Flow, NEW a, AnswersWith(a)
    PROVE  /\ Mine' \subseteq Mine
           /\ \/ /\ Head(requests) \in Mine /\ Mine = {Head(requests)} /\ main.at \in Asking
                 /\ <<main.at, Head(requests).service>> \in AskedBy
                 /\ Mine' = {} /\ Answers = {} /\ Answers' = {a} /\ main.told # "done"
              \/ /\ Head(requests) \notin Mine /\ spin = "calls"
                 /\ Head(requests).service \in {"set", "takeoff"}
                 /\ Mine' = Mine /\ Answers' = Answers
<1>1. /\ Calls /\ Head(requests) \in ToSet(requests)
      /\ main.told = "done" => main.at \in {"closing", "ended"}
  BY DEF Flow, Threads, AnswersWith
<1>2. CASE Head(requests) \in Mine /\ Mine = {Head(requests)} /\ Mine' = {} /\ Answers = {} /\ Answers' = {a}
  <2>1. main.at \in Asking /\ <<main.at, Head(requests).service>> \in AskedBy
    BY <1>1, <1>2 DEF Calls
  <2>2. main.told # "done"
    BY <1>1, <2>1 DEF Asking
  <2> QED BY <1>2, <2>1, <2>2
<1>3. CASE Head(requests) \notin Mine /\ Mine' = Mine /\ Answers' = Answers
  <2>1. spin = "calls" /\ Head(requests).service \in {"set", "takeoff"}
    BY <1>1, <1>3 DEF Calls
  <2> QED BY <1>3, <2>1
<1> QED BY <1>2, <1>3 DEF AnswersWith

LEMMA ReceivedKept ==
    ASSUME Flow, Serve
    PROVE  /\ mavros.cached \subseteq mavros'.cached
           /\ main.at # "pull" => mavros'.cached = mavros.cached
<1> DEFINE r == Head(requests)
<1>1. CASE Succeeded(r)
  <2>1. Kept(mavros')
    BY <1>1, Effects
  <2> QED BY <2>1 DEF Kept
<1>2. CASE Failed(r)
  BY <1>2 DEF Failed
<1>3. CASE PulledIn(r)
  <2>1. r.service = "pull" /\ mavros.cached \subseteq mavros'.cached
    BY <1>3 DEF PulledIn
  <2>2. AnswersWith("ok")
    BY <1>3 DEF PulledIn
  <2>3. main.at = "pull"
    BY <2>1, <2>2, AnswerTo DEF AskedBy
  <2> QED BY <2>1, <2>3
<1>4. CASE \E refused \in SUBSET DOMAIN r.arg : SetIn(r, refused)
  BY <1>4 DEF SetIn
<1> QED BY <1>1, <1>2, <1>3, <1>4, Serves

LEMMA ListKept ==
    ASSUME ClientAssumption, Flow, ListFlow, ClientNext
    PROVE  ListFlow'
<1> DEFINE Goal ==
             /\ main.at \in {"pull", "list", "got", "have", "set"} => py.topic = "event"
             /\ Untouched => /\ main.at = "list" => \A a \in Answers : a = mavros.cached
                             /\ main.at = "got" => \A r \in Mine : r.arg = mavros.cached
<1> SUFFICES ASSUME task'.command \in {"set", "load", "dump"}
             PROVE  Goal'
  BY DEF ListFlow
<1>1. Flow' /\ UNCHANGED task /\ task.command \in {"set", "load", "dump"}
  BY FlowKept
<1>2. Goal /\ Calls
  BY <1>1 DEF ListFlow, Flow
<1>3. CASE Main
  <2>1. UNCHANGED mavros
    BY <1>3, CommandOf DEF Main
  <2>2. CASE uas_settings
    <3>1. main'.at = "settings"
      BY <2>2, SettingsFlow DEF AsksFor
    <3> QED BY <3>1
  <2>3. CASE values
    <3>1. main'.at = "pull" /\ py'.topic = "event"
      BY <2>3, ValuesFlow DEF AsksFor
    <3> QED BY <3>1
  <2>4. CASE Pulled
    <3>1. /\ main.at = "pull" /\ UNCHANGED py
          /\ main'.at \in {"list", "have"} /\ Answers' = {}
      BY <2>4, PulledFlow DEF AsksFor, RestsAt
    <3> QED BY <1>2, <3>1
  <2>5. CASE Listed
    <3>1. /\ main.at = "list" /\ Answered("list") /\ UNCHANGED py /\ main'.at = "got"
          /\ \A r \in Mine' : r.arg = answer[1]
      BY <2>5, ListedFlow DEF AsksFor
    <3>2. answer[1] \in Answers
      BY <1>2, <3>1, TheAnswer DEF Asking
    <3> QED BY <1>2, <2>1, <3>1, <3>2 DEF Untouched
  <2>6. CASE Got
    <3>1. main.at = "got" /\ py'.topic = py.topic /\ main'.at = "have"
      BY <2>6, GotFlow DEF RestsAt
    <3> QED BY <1>2, <3>1
  <2>7. CASE Assign
    <3>1. main.at = "have" /\ py'.topic = py.topic /\ main'.at \in {"closing", "set"}
      BY <2>7, AssignFlow DEF AsksFor, Ends
    <3> QED BY <1>2, <3>1
  <2>8. CASE Assigned \/ Show \/ Close
    <3>1. main'.at \in {"closing", "ended"}
      BY <2>8, AssignedFlow, ShownFlow, CloseFlow DEF Ends
    <3> QED BY <3>1
  <2> QED BY <1>1, <1>3, <2>2, <2>3, <2>4, <2>5, <2>6, <2>7, <2>8, ParameterSteps
<1>4. CASE Callback
  <2>1. Head(topics).topic = "event"
    <3>1. Head(topics).topic = py.topic /\ Hears(py.topic) /\ Head(topics).topic # "none"
      BY <1>4, MessageHere DEF Callback
    <3> QED BY <1>1, <3>1 DEF Hears, Topics
  <2>2. UNCHANGED <<main, mavros>> /\ py'.topic = py.topic /\ Mine' = Mine /\ Answers' = Answers
    BY <1>4, <2>1, EventFlow DEF Heeds
  <2> QED BY <1>2, <2>2 DEF Untouched
<1>5. CASE TakeAnswer
  <2>1. UNCHANGED <<main, py, mavros>> /\ Mine' = Mine /\ Answers' = Answers
    BY <1>5, TakeFlow
  <2> QED BY <1>2, <2>1 DEF Untouched
<1>6. CASE Reports
  <2>1. /\ UNCHANGED <<main, py>> /\ Mine' = Mine /\ Answers' = Answers
        /\ mavros'.cached = mavros.cached /\ mavros'.news = mavros.news
    BY <1>6, ReportsFlow DEF Apart, OldNews
  <2> QED BY <1>2, <2>1 DEF Untouched
<1>7. CASE Serve
  <2> DEFINE r == Head(requests)
  <2>1. UNCHANGED <<main, py>> /\ mavros'.news = mavros.news
    BY <1>7, Serves DEF OldNews
  <2>2. ASSUME main.at \in {"list", "got"}
        PROVE  /\ mavros'.cached = mavros.cached /\ Mine' \subseteq Mine
               /\ main.at = "list" => Answers' = Answers \/ Answers' = {mavros.cached}
    <3>1. mavros'.cached = mavros.cached
      BY <1>7, <2>2, ReceivedKept
    <3>2. CASE Succeeded(r)
      <4> DEFINE a == Effect(r.service, r.arg)[2]
      <4>1. AnswersWith(a)
        BY <3>2 DEF Succeeded
      <4>2. r.service = "list" => a = mavros.cached
        BY EffectRead
      <4> HIDE DEF a
      <4>3. /\ Mine' \subseteq Mine
            /\ main.at = "list" => Answers' = Answers \/ (r.service = "list" /\ Answers' = {a})
        BY <4>1, AnswerTo DEF AskedBy
      <4> QED BY <3>1, <4>2, <4>3
    <3>3. ASSUME NEW a, AnswersWith(a), r.service # "list"
          PROVE  Mine' \subseteq Mine /\ (main.at = "list" => Answers' = Answers)
      BY <3>3, AnswerTo DEF AskedBy
    <3>4. CASE Failed(r) \/ Handled(r)
      <4>1. r.service # "list" /\ \E a : AnswersWith(a)
        BY <3>4 DEF Failed, Handled
      <4> QED BY <3>1, <3>3, <4>1
    <3> QED BY <1>7, <3>2, <3>4, ServesOthers
  <2> QED BY <1>2, <2>1, <2>2 DEF Untouched
<1>8. CASE Others
  <2>1. UNCHANGED <<main, py>> /\ ~Untouched'
    BY <1>8, OthersFlow DEF Apart
  <2> QED BY <1>2, <2>1
<1>9. CASE timer_cb
  BY <1>1, <1>9, TimerFlow
<1> QED BY <1>3, <1>4, <1>5, <1>6, <1>7, <1>8, <1>9 DEF ClientNext, Spinner

\* What is under way about a parameter stays so until the spinner takes it.
LEMMA StillPending ==
    ASSUME NEW k, Pending(k), ToSet(topics) \subseteq ToSet(topics'), mavros'.params[k] = mavros.params[k]
    PROVE  Pending(k)'
BY DEF Pending

LEMMA SetKept ==
    ASSUME ClientAssumption, Flow, Empty, ListFlow, SetFlow, ClientNext
    PROVE  SetFlow'
<1> DEFINE Goal ==
             /\ main.at = "got" => \A a \in Answers : a = Received
             /\ main.at = "have" => py.dict = Received
             /\ main.at = "set" =>
                  /\ \A r \in Mine :
                       /\ DOMAIN r.arg \subseteq DOMAIN task.values
                       /\ \A k \in DOMAIN task.values :
                            IF k \in DOMAIN r.arg THEN r.arg[k] = task.values[k]
                            ELSE k \in DOMAIN mavros.params /\ mavros.params[k] = task.values[k]
                  /\ Noticed /\ ({} \in Answers => AllSet)
             /\ main.told = "done" => Noticed /\ AllSet
<1> SUFFICES ASSUME task'.command \in {"set", "load"}, Untouched', spin' # "calls"
             PROVE  Goal'
  BY DEF SetFlow
<1>1. Flow' /\ UNCHANGED task /\ task.command \in {"set", "load"}
  BY FlowKept
<1>2. Untouched /\ spin # "calls" => Goal
  BY <1>1 DEF SetFlow
<1>3. /\ IsFcn(mavros.params) /\ IsFcn(py.dict) /\ Calls /\ mavros.cached \subseteq DOMAIN mavros.params
      /\ main.told = "done" => main.at \in {"closing", "ended"}
  BY DEF Flow, Objects, Threads
\* A step that changes nothing of all this, but may add to the messages.
<1>4. ASSUME UNCHANGED <<main, py, spin>>, Mine' = Mine, Answers' = Answers,
             mavros'.params = mavros.params, mavros'.cached = mavros.cached,
             mavros'.news = mavros.news, ToSet(topics) \subseteq ToSet(topics')
      PROVE  Goal'
  <2>1. Goal
    BY <1>2, <1>4 DEF Untouched
  <2>2. AllSet => AllSet'
    BY <1>1, <1>4, StillPending DEF AllSet
  <2>3. Received' = Received /\ (Noticed' <=> Noticed)
    BY <1>1, <1>4 DEF Received, Noticed
  <2> QED BY <1>1, <1>4, <2>1, <2>2, <2>3
<1>5. CASE Main
  <2>1. UNCHANGED mavros /\ spin # "calls"
    <3>1. UNCHANGED mavros
      BY <1>5, CommandOf DEF Main
    <3>2. uas_settings \/ values \/ Pulled \/ Listed \/ Got \/ Assign \/ Assigned \/ Show \/ Close
      BY <1>1, <1>5, ParameterSteps
    <3>3. spin # "calls"
      BY <3>2, SettingsFlow, ValuesFlow, PulledFlow, ListedFlow, GotFlow, AssignFlow, AssignedFlow,
         ShownFlow, CloseFlow DEF Same
    <3> QED BY <3>1, <3>3
  <2>2. Goal
    BY <1>2, <2>1 DEF Untouched
  <2>3. UNCHANGED topics => (AllSet' <=> AllSet)
    BY <1>1, <2>1 DEF AllSet, Pending
  <2>4. main.at # "ended" => spin = "spins"
    BY <1>1, <2>1, Spins
  <2>5. main.at \in {"start", "pull", "list", "got"} => DOMAIN py.dict = {}
    BY <1>1, <2>4 DEF Empty, Early
  <2>6. Received' = Received
    BY <2>1 DEF Received
  <2>7. UNCHANGED py => (Noticed' <=> Noticed)
    BY <1>1 DEF Noticed
  <2>8. CASE uas_settings \/ values \/ Show
    <3>1. /\ \/ main'.at \in {"settings", "pull"} /\ main'.told = main.told
             \/ main'.at = "closing" /\ task.command \in {"get", "dump"}
          /\ main.at \in {"start", "settings", "have"}
      BY <2>8, SettingsFlow, ValuesFlow, ShownFlow DEF AsksFor, Ends
    <3> QED BY <1>1, <1>3, <3>1
  <2>9. CASE Pulled
    <3>1. /\ main.at = "pull"
          /\ IF Cardinality(DOMAIN py.dict) < Few THEN AsksFor("list", "list", 0) ELSE RestsAt("have")
      BY <2>9, PulledFlow
    <3>2. Cardinality(DOMAIN py.dict) = 0 /\ 0 < Few
      <4>1. DOMAIN py.dict = {} /\ Cardinality({}) = 0
        BY <2>5, <3>1, FS_EmptySet
      <4>2. 0 < Few
        BY DEF ClientAssumption
      <4> QED BY <4>1, <4>2
    <3>3. main'.at = "list" /\ main'.told = main.told
      BY <3>1, <3>2 DEF AsksFor
    <3> QED BY <1>3, <3>1, <3>3
  <2>10. CASE Listed
    <3>1. main.at = "list" /\ main'.at = "got" /\ main'.told = main.told /\ Answers' = {}
      BY <2>10, ListedFlow DEF AsksFor
    <3> QED BY <1>3, <3>1
  <2>11. CASE Got
    <3>1. /\ main.at = "got" /\ Answered("got") /\ main'.at = "have" /\ main'.told = main.told
          /\ py'.dict = SetDefaults(py.dict, answer[1])
      BY <2>11, GotFlow DEF RestsAt
    <3>2. answer[1] = Received
      BY <1>3, <2>2, <3>1, TheAnswer DEF Asking
    <3>3. py'.dict = Received
      BY <2>5, <3>1, <3>2 DEF SetDefaults, Received
    <3> QED BY <1>3, <2>6, <3>1, <3>3
  <2>12. CASE Assign
    <3>1. /\ main.at = "have" /\ UNCHANGED topics
          /\ \/ ToSend(py.dict, task.values) = {} /\ Ends("done")
             \/ AsksFor("set", "set", [k \in ToSend(py.dict, task.values) |-> task.values[k]])
          /\ py'.dict = SetItems(py.dict, task.values)
      BY <2>12, AssignFlow
    <3>2. py.dict = Received
      BY <2>2, <3>1
    <3>3. \A k \in DOMAIN task.values \ ToSend(py.dict, task.values) :
            k \in DOMAIN mavros.params /\ mavros.params[k] = task.values[k]
      BY <1>3, <3>2 DEF ToSend, Differs, Received
    <3>4. Noticed'
      BY <1>1, <3>1 DEF Noticed, SetItems
    <3>5. CASE ToSend(py.dict, task.values) = {} /\ Ends("done")
      <4>1. AllSet
        BY <3>3, <3>5 DEF AllSet
      <4> QED BY <2>3, <3>1, <3>4, <3>5, <4>1 DEF Ends
    <3>6. CASE AsksFor("set", "set", [k \in ToSend(py.dict, task.values) |-> task.values[k]])
      <4> DEFINE arg == [k \in ToSend(py.dict, task.values) |-> task.values[k]]
      <4>1. /\ main'.at = "set" /\ main'.told = main.told /\ Answers' = {}
            /\ \A r \in Mine' : r.arg = arg
        BY <3>6 DEF AsksFor
      <4>2. /\ DOMAIN arg = ToSend(py.dict, task.values) /\ DOMAIN arg \subseteq DOMAIN task.values
            /\ \A k \in DOMAIN arg : arg[k] = task.values[k]
        BY DEF ToSend
      <4> HIDE DEF arg
      <4> QED BY <1>1, <1>3, <2>1, <3>1, <3>3, <3>4, <4>1, <4>2
    <3> QED BY <3>1, <3>5, <3>6
  <2>13. CASE Assigned
    <3>1. /\ main.at = "set" /\ Answered("set") /\ main'.at = "closing" /\ UNCHANGED <<py, topics>>
          /\ main'.told = IF answer[1] = {} THEN "done" ELSE "raised"
      BY <2>13, AssignedFlow DEF Ends
    <3>2. answer[1] \in Answers
      BY <1>3, <3>1, TheAnswer DEF Asking
    <3> QED BY <2>2, <2>3, <2>7, <3>1, <3>2
  <2>14. CASE Close
    <3>1. main'.at = "ended" /\ main'.told = main.told /\ UNCHANGED <<py, topics>>
      BY <2>14, CloseFlow
    <3> QED BY <2>2, <2>3, <2>7, <3>1
  <2> QED BY <1>1, <1>5, <2>8, <2>9, <2>10, <2>11, <2>12, <2>13, <2>14, ParameterSteps
<1>6. CASE Callback
  <2>1. Head(topics).topic = "event"
    <3>1. Head(topics).topic = py.topic /\ Hears(py.topic) /\ Head(topics).topic # "none"
      BY <1>6, MessageHere DEF Callback
    <3> QED BY <1>1, <3>1 DEF Hears, Topics
  <2> DEFINE k == Head(topics).value[1]
             v == Head(topics).value[2]
  <2>2. /\ spin = "spins" /\ UNCHANGED <<main, mavros>> /\ ~Differs(py.dict, k, v)
        /\ py'.dict = _set_item(py.dict, k, v) /\ Mine' = Mine /\ Answers' = Answers
    BY <1>6, <2>1, EventFlow DEF Heeds
  <2>3. \A m \in ToSet(topics) : m = Head(topics) \/ m \in ToSet(topics')
    <3>1. topics # <<>> /\ topics' = Tail(topics) /\ Sequential(topics)
      BY <1>6 DEF Callback, Flow, Heard
    <3>2. \A i \in DOMAIN topics : topics[i] = Head(topics) \/ topics[i] \in ToSet(Tail(topics))
      BY <3>1, Taken DEF ToSet
    <3> QED BY <3>1, <3>2 DEF ToSet
  <2>4. py'.dict = py.dict /\ k \in DOMAIN py.dict /\ py.dict[k] = v
    BY <1>3, <2>2, NoDifference
  <2>5. Goal
    BY <1>2, <2>2 DEF Untouched
  <2>6. ASSUME Noticed, AllSet PROVE AllSet'
    <3>1. ASSUME NEW n \in DOMAIN task.values, Pending(n)
          PROVE  mavros.params[n] = task.values[n] \/ Pending(n)'
      <4> DEFINE m == [topic |-> "event", value |-> <<n, mavros.params[n]>>]
      <4>1. m = Head(topics) \/ m \in ToSet(topics')
        BY <2>3, <3>1 DEF Pending
      <4>2. CASE m = Head(topics)
        <5>1. k = n /\ v = mavros.params[n]
          BY <4>2
        <5> QED BY <2>4, <2>6, <5>1 DEF Noticed
      <4>3. CASE m \in ToSet(topics')
        BY <2>2, <4>3 DEF Pending
      <4> QED BY <4>1, <4>2, <4>3
    <3> QED BY <1>1, <2>2, <2>6, <3>1 DEF AllSet
  <2>7. Received' = Received /\ (Noticed' <=> Noticed)
    BY <1>1, <2>2, <2>4 DEF Received, Noticed
  <2> HIDE DEF k, v
  <2> QED BY <1>1, <2>2, <2>4, <2>5, <2>6, <2>7
<1>7. CASE TakeAnswer
  <2>1. UNCHANGED <<main, py, mavros, spin, topics>> /\ Mine' = Mine /\ Answers' = Answers
    BY <1>7, TakeFlow
  <2> QED BY <1>4, <2>1
<1>8. CASE Reports
  <2>1. /\ UNCHANGED <<main, py, spin>> /\ Mine' = Mine /\ Answers' = Answers
        /\ mavros'.params = mavros.params /\ mavros'.cached = mavros.cached /\ mavros'.news = mavros.news
        /\ ToSet(topics) \subseteq ToSet(topics')
    BY <1>8, ReportsFlow DEF Apart, OldNews, Told
  <2> QED BY <1>4, <2>1
<1>9. CASE Serve
  <2> DEFINE r == Head(requests)
  <2>1. /\ UNCHANGED <<main, py, spin>> /\ mavros'.news = mavros.news
        /\ \/ Succeeded(r) \/ Failed(r) \/ PulledIn(r)
           \/ \E refused \in SUBSET DOMAIN r.arg : SetIn(r, refused)
    BY <1>9, Serves DEF OldNews
  <2>2. Goal
    BY <1>2, <2>1 DEF Untouched
  <2>3. \A a : AnswersWith(a) =>
           /\ r \in Mine /\ main.at \in Asking /\ <<main.at, r.service>> \in AskedBy
           /\ Mine' = {} /\ Answers' = {a} /\ main.told # "done"
    BY <2>1, AnswerTo
  <2> HIDE DEF r
  <2>4. CASE Succeeded(r)
    <3> DEFINE a == Effect(r.service, r.arg)[2]
    <3>1. AnswersWith(a) /\ r.service # "set"
      BY <2>4 DEF Succeeded
    <3>2. Kept(mavros')
      BY <2>4, Effects
    <3>3. main.at \in Asking \ {"set"} /\ main.told # "done" /\ r \in Mine /\ Answers' = {a}
      BY <2>3, <3>1 DEF AskedBy
    <3>4. ASSUME main.at = "got" PROVE a = Received'
      <4>1. r.service = "get" /\ r.arg = mavros.cached
        <5>1. r.service = "get"
          BY <2>3, <3>1, <3>4 DEF AskedBy
        <5>2. r.arg = mavros.cached
          BY <1>1, <2>1, <3>3, <3>4 DEF ListFlow, Untouched
        <5> QED BY <5>1, <5>2
      <4>2. a = Received
        BY <4>1, EffectRead DEF Received
      <4> QED BY <3>2, <4>2 DEF Kept, Received
    <3> HIDE DEF a
    <3> QED BY <2>1, <3>3, <3>4 DEF Asking
  <2>5. CASE Failed(r)
    <3>1. /\ \E a : AnswersWith(a)
          /\ r.service \notin {"set", "get"}
      BY <2>5 DEF Failed
    <3>2. main.at \in Asking \ {"set", "got"} /\ main.told # "done"
      BY <2>3, <3>1 DEF AskedBy
    <3> QED BY <2>1, <3>2 DEF Asking
  <2>6. CASE PulledIn(r)
    <3>1. r.service = "pull" /\ \E a : AnswersWith(a)
      BY <2>6 DEF PulledIn
    <3>2. main.at = "pull" /\ main.told # "done"
      BY <2>3, <3>1 DEF AskedBy
    <3> QED BY <2>1, <3>2
  <2>7. ASSUME NEW refused \in SUBSET DOMAIN r.arg, SetIn(r, refused)
        PROVE  Goal'
    <3>1. /\ r.service = "set" /\ AnswersWith(refused) /\ DOMAIN mavros'.params = DOMAIN mavros.params
          /\ \A k \in DOMAIN mavros.params : \/ mavros'.params[k] = mavros.params[k]
                                             \/ k \in DOMAIN r.arg /\ mavros'.params[k] = r.arg[k]
          /\ refused = {} /\ py.topic = "event" =>
               \A k \in DOMAIN r.arg :
                 k \in DOMAIN mavros.params /\ (mavros'.params[k] = r.arg[k] \/ Pending(k)')
      BY <2>7 DEF SetIn
    <3>2. main.at = "set" /\ r \in Mine /\ Mine' = {} /\ Answers' = {refused} /\ main.told # "done"
      BY <2>3, <3>1 DEF AskedBy
    <3>3. py.topic = "event"
      BY <1>1, <3>2 DEF ListFlow
    <3>4. /\ \A k \in DOMAIN task.values :
               IF k \in DOMAIN r.arg THEN r.arg[k] = task.values[k]
               ELSE k \in DOMAIN mavros.params /\ mavros.params[k] = task.values[k]
          /\ Noticed
      BY <2>2, <3>2
    <3>5. ASSUME refused = {} PROVE AllSet'
      <4>1. ASSUME NEW k \in DOMAIN task.values
            PROVE  k \in DOMAIN mavros'.params /\ (mavros'.params[k] = task.values[k] \/ Pending(k)')
        BY <3>1, <3>3, <3>4, <3>5, <4>1
      <4> QED BY <1>1, <4>1 DEF AllSet
    <3>6. Noticed'
      BY <1>1, <2>1, <3>4 DEF Noticed
    <3> QED BY <2>1, <3>2, <3>5, <3>6
  <2> QED BY <2>1, <2>4, <2>5, <2>6, <2>7
<1>10. CASE Others
  BY <1>10, OthersFlow
<1>11. CASE timer_cb
  BY <1>1, <1>11, TimerFlow
<1> QED BY <1>5, <1>6, <1>7, <1>8, <1>9, <1>10, <1>11 DEF ClientNext, Spinner

\* With nobody else at work, everything a dump hears and keeps is the vehicle's.
LEMMA OnlyEvents ==
    ASSUME Flow, task.command = "dump"
    PROVE  \A m \in ToSet(topics) : m.topic = "event"
BY DEF Flow, Heard, Hears, Topics

LEMMA DumpKept ==
    ASSUME ClientAssumption, Flow, Empty, ListFlow, DumpFlow, ClientNext
    PROVE  DumpFlow'
<1> DEFINE Of == \A m \in ToSet(topics) : \E k \in mavros.cached : m.value = <<k, Known[k]>>
           Back == \A r \in ToSet(requests) : r.service = "set" => OfVehicle(r.arg)
           Goal ==
             /\ mavros.params = Known /\ OfVehicle(py.dict)
             /\ Of /\ Back
             /\ main.at = "got" => \A a \in Answers : a = Received
             /\ main.at = "have" /\ spin = "spins" => py.dict = Received
             /\ main.at = "settings" /\ (spin = "spins" \/ answer # <<>>) => py.dict = Received
             /\ main.told = "done" => py.file = <<Received>>
<1> SUFFICES ASSUME task'.command = "dump", Untouched'
             PROVE  Goal'
  BY DEF DumpFlow
<1>1. Flow' /\ UNCHANGED task /\ task.command = "dump"
  BY FlowKept
<1>2. Untouched => Goal
  BY <1>1 DEF DumpFlow
<1>3. /\ IsFcn(py.dict) /\ IsFcn(Known) /\ Calls /\ mavros.cached \subseteq DOMAIN mavros.params
      /\ main.told = "done" => main.at \in {"closing", "ended"}
      /\ DOMAIN Received = mavros.cached
  BY DEF Flow, Objects, Threads, ClientAssumption, IsFcn, Received
<1>4. (\A m \in ToSet(topics) : m.topic = "event") /\ (\A m \in ToSet(topics') : m.topic = "event")
  BY <1>1, OnlyEvents DEF Flow, Heard, Hears, Topics
<1>5. CASE Main
  <2>1. UNCHANGED mavros /\ Goal
    BY <1>2, <1>5, CommandOf DEF Main, Untouched
  <2>2. Received' = Received
    BY <2>1 DEF Received
  <2>3. CASE uas_settings
    <3>1. /\ main.at = "have" /\ main'.at = "settings" /\ main'.told = main.told
          /\ UNCHANGED <<spin, py, topics, answer>>
          /\ ToSet(requests') = ToSet(requests) \union {[by |-> "main", service |-> "get settings", arg |-> 0]}
      BY <1>1, <2>3, SettingsFlow DEF AsksFor, Same
    <3>2. answer = <<>>
      BY <1>3, <3>1 DEF Calls, Asking, NoReply
    <3>3. Back'
      <4>1. [by |-> "main", service |-> "get settings", arg |-> 0].service # "set"
        OBVIOUS
      <4>2. \A r \in ToSet(requests) : r.service = "set" => OfVehicle(r.arg)
        BY <2>1
      <4>3. \A r \in ToSet(requests') : r.service = "set" => OfVehicle(r.arg)
        BY <3>1, <4>1, <4>2
      <4> QED BY <2>1, <4>3 DEF OfVehicle
    <3> QED BY <2>1, <2>2, <3>1, <3>2, <3>3 DEF OfVehicle
  <2>4. CASE values
    <3>1. /\ main.at = "start" /\ main'.at = "pull" /\ main'.told = main.told
          /\ py'.dict = py.dict /\ UNCHANGED <<spin, topics>>
          /\ ToSet(requests') = ToSet(requests) \union {[by |-> "main", service |-> "pull", arg |-> 0]}
      BY <1>1, <2>4, ValuesFlow DEF AsksFor, Same
    <3> QED BY <1>3, <2>1, <2>2, <3>1 DEF OfVehicle
  <2>5. CASE Pulled
    <3>1. /\ main.at = "pull" /\ UNCHANGED <<py, spin, topics>>
          /\ IF Cardinality(DOMAIN py.dict) < Few THEN AsksFor("list", "list", 0) ELSE RestsAt("have")
      BY <2>5, PulledFlow DEF Same
    <3>2. CASE AsksFor("list", "list", 0)
      <4>1. /\ main'.at = "list" /\ main'.told = main.told
            /\ ToSet(requests') = ToSet(requests) \union {[by |-> "main", service |-> "list", arg |-> 0]}
        BY <3>2 DEF AsksFor
      <4> QED BY <2>1, <2>2, <3>1, <4>1 DEF OfVehicle
    <3>3. CASE RestsAt("have") /\ ~(Cardinality(DOMAIN py.dict) < Few)
      <4>1. spin # "spins"
        <5>1. spin = "spins" => DOMAIN py.dict = {}
          BY <1>1, <3>1 DEF Empty, Early
        <5>2. Cardinality({}) = 0
          BY FS_EmptySet
        <5>3. 0 < Few
          BY DEF ClientAssumption
        <5> QED BY <3>3, <5>1, <5>2, <5>3
      <4>2. main'.at = "have" /\ main'.told = main.told /\ UNCHANGED requests
        BY <3>3 DEF RestsAt
      <4> QED BY <2>1, <2>2, <3>1, <4>1, <4>2 DEF OfVehicle
    <3> QED BY <3>1, <3>2, <3>3
  <2>6. CASE Listed
    <3>1. /\ main'.at = "got" /\ main'.told = main.told /\ Answers' = {} /\ UNCHANGED <<py, spin, topics>>
          /\ ToSet(requests') = ToSet(requests) \union {[by |-> "main", service |-> "get", arg |-> answer[1]]}
      BY <2>6, ListedFlow DEF AsksFor, Same
    <3> QED BY <2>1, <2>2, <3>1 DEF OfVehicle
  <2>7. CASE Got
    <3>1. /\ main.at = "got" /\ Answered("got") /\ main'.at = "have" /\ main'.told = main.told
          /\ py'.dict = SetDefaults(py.dict, answer[1]) /\ UNCHANGED <<spin, topics, requests>>
      BY <2>7, GotFlow DEF RestsAt, Same
    <3>2. answer[1] = Received
      BY <1>3, <2>1, <3>1, TheAnswer DEF Asking
    <3>3. OfVehicle(py.dict) /\ mavros.params = Known
      BY <2>1
    <3>4. py'.dict = Received
      <4>1. \A n \in mavros.cached : Received[n] = Known[n]
        BY <3>3 DEF Received
      <4>2. DOMAIN py.dict \subseteq mavros.cached /\ \A n \in DOMAIN py.dict : py.dict[n] = Known[n]
        BY <3>3 DEF OfVehicle
      <4>3. SetDefaults(py.dict, Received)
              = [n \in mavros.cached |-> IF n \in DOMAIN py.dict THEN py.dict[n] ELSE Received[n]]
        <5>1. DOMAIN py.dict \union DOMAIN Received = mavros.cached
          BY <1>3, <4>2
        <5> QED BY <5>1, Zenon DEF SetDefaults
      <4>4. Received = [n \in mavros.cached |-> Known[n]]
        BY <3>3 DEF Received
      <4> QED BY <3>1, <3>2, <4>1, <4>2, <4>3, <4>4
    <3>5. main.told # "done"
      BY <1>3, <3>1
    <3>6. OfVehicle(py.dict)'
      <4>1. \A n \in mavros.cached : Received[n] = Known[n]
        BY <3>3 DEF Received
      <4> QED BY <1>3, <2>1, <3>4, <4>1 DEF OfVehicle
    <3>7. Of' /\ Back'
      BY <2>1, <3>1 DEF OfVehicle
    <3> QED BY <2>1, <2>2, <3>1, <3>4, <3>5, <3>6, <3>7
  <2>8. CASE Assign \/ Assigned
    BY <1>1, <2>8, CommandOf
  <2>9. CASE Show
    <3>1. CASE main.at = "have" /\ Ends("raised") /\ UNCHANGED py
      <4>1. main'.at = "closing" /\ main'.told = "raised" /\ UNCHANGED <<requests, topics>>
        BY <3>1 DEF Ends
      <4> QED BY <2>1, <2>2, <3>1, <4>1 DEF OfVehicle
    <3>2. CASE /\ main.at = "settings" /\ Answered("settings")
               /\ Ends("done") /\ py'.file = <<py.dict>> /\ py'.dict = py.dict
      <4>1. main'.at = "closing" /\ main'.told = "done" /\ UNCHANGED <<requests, topics>>
        BY <3>2 DEF Ends
      <4>2. py.dict = Received
        BY <2>1, <3>2 DEF Answered
      <4> QED BY <2>1, <2>2, <3>2, <4>1, <4>2 DEF OfVehicle
    <3> QED BY <1>1, <2>9, <3>1, <3>2, ShownFlow
  <2>10. CASE Close
    <3>1. main'.at = "ended" /\ main'.told = main.told /\ UNCHANGED <<requests, topics, py>>
      BY <2>10, CloseFlow
    <3> QED BY <2>1, <2>2, <3>1 DEF OfVehicle
  <2> QED BY <1>1, <1>5, <2>3, <2>4, <2>5, <2>6, <2>7, <2>8, <2>9, <2>10, ParameterSteps
<1>6. CASE TakeAnswer
  <2>1. /\ UNCHANGED <<main, py, mavros, spin, requests, topics>> /\ Answers' = Answers
        /\ spin = "spins"
    BY <1>6, TakeFlow
  <2>2. Goal /\ Received' = Received
    BY <1>2, <2>1 DEF Untouched, Received
  <2> QED BY <2>1, <2>2 DEF OfVehicle
<1>7. CASE Callback
  <2> DEFINE k == Head(topics).value[1]
             v == Head(topics).value[2]
             q == [by |-> "spinner", service |-> "set", arg |-> [n \in {k} |-> v]]
  <2>1. Head(topics) \in ToSet(topics) /\ Head(topics).topic = "event"
    BY <1>4, <1>7, Taken DEF Flow, Heard, Callback
  <2>2. /\ spin = "spins" /\ UNCHANGED <<main, mavros, answer>>
        /\ ToSet(topics') \subseteq ToSet(topics)
        /\ py'.dict = _set_item(py.dict, k, v) /\ py'.file = py.file /\ Answers' = Answers
        /\ UNCHANGED requests \/ ToSet(requests') = ToSet(requests) \union {q}
    BY <1>7, <2>1, EventFlow DEF Heeds
  <2>3. Goal /\ Received' = Received
    BY <1>2, <2>2 DEF Untouched, Received
  <2>4. k \in mavros.cached /\ v = Known[k]
    BY <2>1, <2>3
  <2>5. q.service = "set" /\ OfVehicle(q.arg)
    BY <2>4 DEF OfVehicle
  <2> HIDE DEF k, v, q
  <2>6. OfVehicle(py'.dict)
    BY <2>2, <2>3, <2>4 DEF OfVehicle, _set_item
  <2>7. ASSUME py.dict = Received PROVE py'.dict = Received
    <3>1. _set_item(Received, k, v) = [n \in mavros.cached |-> IF n = k THEN v ELSE Received[n]]
      BY <1>3, <2>4 DEF _set_item
    <3>2. \A n \in mavros.cached : Received[n] = Known[n]
      BY <2>3 DEF Received
    <3>3. \A n \in mavros.cached : (IF n = k THEN v ELSE Received[n]) = Known[n]
      BY <2>4, <3>2
    <3>4. Received = [n \in mavros.cached |-> Known[n]]
      BY <2>3 DEF Received
    <3> QED BY <2>2, <2>7, <3>1, <3>3, <3>4
  <2>8. Back'
    BY <2>2, <2>3, <2>5 DEF OfVehicle
  <2>9. Of'
    BY <2>2, <2>3
  <2>10. OfVehicle(py.dict)' /\ mavros'.params = Known
    BY <2>2, <2>3, <2>6 DEF OfVehicle
  <2> QED BY <2>2, <2>3, <2>7, <2>8, <2>9, <2>10
<1>8. CASE Reports
  <2>1. /\ UNCHANGED <<main, py, spin, requests, answer>> /\ Answers' = Answers
        /\ mavros'.params = mavros.params /\ mavros'.cached = mavros.cached
        /\ mavros'.news = mavros.news
        /\ \E topic \in {"fix", "source", "state"} : \E list : Told(topic, list)
    BY <1>8, ReportsFlow DEF Apart, OldNews
  <2>2. ToSet(topics') \subseteq ToSet(topics)
    BY <1>4, <2>1 DEF Told
  <2>3. Goal /\ Received' = Received
    BY <1>2, <2>1 DEF Untouched, Received
  <2> QED BY <2>1, <2>2, <2>3 DEF OfVehicle
<1>9. CASE Serve
  <2> DEFINE r == Head(requests)
  <2>1. /\ UNCHANGED <<main, py, spin, answer>> /\ mavros'.news = mavros.news
        /\ \/ Succeeded(r) \/ Failed(r) \/ PulledIn(r)
           \/ \E refused \in SUBSET DOMAIN r.arg : SetIn(r, refused)
        /\ mavros.cached \subseteq mavros'.cached
    BY <1>9, Serves, ReceivedKept DEF OldNews
  <2>2. Goal
    BY <1>2, <2>1 DEF Untouched
  <2>3. \A a : AnswersWith(a) =>
           /\ ToSet(requests') \subseteq ToSet(requests) /\ r \in ToSet(requests)
           /\ main.at = "got" => \/ r \in Mine /\ r.service = "get" /\ Answers' = {a}
                                 \/ Answers' = Answers
    BY AnswerTo DEF AnswersWith, AskedBy
  <2>4. \A f : OfVehicle(f) => DOMAIN f \subseteq mavros'.cached /\ \A k \in DOMAIN f : f[k] = Known[k]
    BY <2>1 DEF OfVehicle
  \* What every answer leaves as it was, or adds to.
  <2>5. ASSUME mavros'.params = Known, Of', \E a : AnswersWith(a),
               mavros'.cached = mavros.cached \/ main.at = "pull",
               main.at = "got" => \A a \in Answers' : a = Received'
        PROVE  Goal'
    <3>1. OfVehicle(py.dict)' /\ Back'
      BY <2>1, <2>2, <2>3, <2>4, <2>5 DEF OfVehicle
    <3>2. CASE main.at = "pull"
      BY <1>3, <2>1, <2>5, <3>1, <3>2
    <3>3. CASE mavros'.cached = mavros.cached
      <4>1. Received' = Received
        BY <2>2, <2>5, <3>3 DEF Received
      <4> QED BY <2>1, <2>2, <2>5, <3>1, <4>1
    <3> QED BY <2>5, <3>2, <3>3
  <2> HIDE DEF r
  <2>6. CASE Succeeded(r)
    <3> DEFINE a == Effect(r.service, r.arg)[2]
    <3>1. AnswersWith(a)
      BY <2>6 DEF Succeeded
    <3>2. mavros'.params = Known /\ mavros'.cached = mavros.cached
      <4>1. Kept(mavros')
        BY <2>6, Effects
      <4> QED BY <2>2, <4>1 DEF Kept
    <3>3. ASSUME r \in Mine, r.service = "get", main.at = "got" PROVE a = Received
      <4>1. r.arg = mavros.cached
        BY <1>1, <2>1, <3>3 DEF ListFlow, Untouched
      <4> QED BY <3>3, <4>1, EffectRead DEF Received
    <3>4. Received' = Received
      BY <2>2, <3>2 DEF Received
    <3> HIDE DEF a
    <3>5. main.at = "got" => \A b \in Answers' : b = Received'
      BY <2>2, <2>3, <3>1, <3>3, <3>4
    <3>6. Of'
      <4>1. Told("points", {mavros'.latched}) \/ UNCHANGED topics
        BY <2>6 DEF Succeeded
      <4>2. ToSet(topics') \subseteq ToSet(topics)
        BY <1>4, <4>1 DEF Told
      <4> QED BY <2>2, <3>2, <4>2
    <3> QED BY <2>5, <3>1, <3>2, <3>5, <3>6
  <2>7. CASE Failed(r)
    <3> DEFINE a == IF r.service = "checksum" THEN NoChecksum ELSE "failed"
    <3>1. UNCHANGED <<mavros, topics>> /\ AnswersWith(a) /\ r.service # "get"
      BY <2>7 DEF Failed
    <3>2. Received' = Received
      BY <3>1 DEF Received
    <3>3. main.at = "got" => Answers' = Answers
      BY <2>3, <3>1
    <3> HIDE DEF a
    <3> QED BY <2>2, <2>5, <3>1, <3>2, <3>3
  <2>8. CASE PulledIn(r)
    <3>1. /\ r.service = "pull" /\ AnswersWith("ok") /\ mavros'.params = mavros.params
          /\ \/ Told("event", {<<k, mavros.params[k]>> : k \in mavros'.cached})
             \/ UNCHANGED topics
      BY <2>8 DEF PulledIn
    <3>2. main.at = "pull"
      BY <3>1, AnswerTo DEF AskedBy, r
    <3>3. Of'
      <4>1. \A m \in ToSet(topics) : \E k \in mavros'.cached : m.value = <<k, Known[k]>>
        BY <2>1, <2>2
      <4> QED BY <2>2, <3>1, <4>1 DEF Told
    <3> QED BY <2>2, <2>5, <3>1, <3>2, <3>3
  <2>9. ASSUME NEW refused \in SUBSET DOMAIN r.arg, SetIn(r, refused)
        PROVE  Goal'
    <3>1. /\ AnswersWith(refused) /\ r.service = "set" /\ mavros'.cached = mavros.cached
          /\ DOMAIN mavros'.params = DOMAIN mavros.params
          /\ \A k \in DOMAIN mavros.params : \/ mavros'.params[k] = mavros.params[k]
                                             \/ k \in DOMAIN r.arg /\ mavros'.params[k] = r.arg[k]
          /\ Told("event", {<<k, mavros.params[k]>> : k \in mavros.cached}
                           \union {<<k, mavros'.params[k]>> : k \in mavros.cached})
      BY <2>9 DEF SetIn
    <3>2. OfVehicle(r.arg) /\ (main.at = "got" => Answers' = Answers)
      BY <2>2, <2>3, <3>1
    <3>3. mavros'.params = Known
      <4>1. IsFcn(mavros'.params) /\ mavros.params = Known
        BY <1>1, <2>2 DEF Flow, Objects
      <4>2. \A k \in DOMAIN Known : mavros'.params[k] = Known[k]
        BY <3>1, <3>2, <4>1 DEF OfVehicle
      <4> QED BY <1>3, <3>1, <4>1, <4>2 DEF IsFcn
    <3>4. Of'
      BY <2>2, <3>1, <3>3 DEF Told
    <3>5. Received' = Received
      BY <2>2, <3>1, <3>3 DEF Received
    <3> QED BY <2>2, <2>5, <3>1, <3>2, <3>3, <3>4, <3>5
  <2> QED BY <2>1, <2>6, <2>7, <2>8, <2>9
<1>10. CASE Others
  BY <1>10, OthersFlow
<1>11. CASE timer_cb
  BY <1>1, <1>11, TimerFlow
<1> QED BY <1>5, <1>6, <1>7, <1>8, <1>9, <1>10, <1>11 DEF ClientNext, Spinner

(* ---------------------------------- missions -------------------------------- *)
\* Which service is under way where.
LEMMA ServiceAt ==
    ASSUME Flow, NEW r \in ToSet(requests)
    PROVE  /\ r \notin Mine => r.service \in {"set", "takeoff"}
           /\ r \in Mine => <<main.at, r.service>> \in AskedBy /\ Way(main.at) /\ main.at \in Asking
<1>1. Calls /\ Threads
  BY DEF Flow
<1>2. ASSUME r \in Mine PROVE main.at \in Asking
  BY <1>1, <1>2 DEF Calls
<1> QED BY <1>1, <1>2 DEF Calls, Threads

LEMMA Plan ==
    ASSUME Flow, task.command \in {"wp dump", "wp show", "wp load"}
    PROVE  /\ \A m \in ToSet(topics) : m.topic = "points"
           /\ \A r \in ToSet(requests) :
                /\ r.service \in {"set", "takeoff", "wp pull", "wp push", "wp clear"}
                /\ r.service \in {"wp push", "wp clear"} =>
                     task.command = "wp load" /\ main.at = "pushed" /\ r \in Mine
                /\ r.service = "wp pull" => task.command # "wp load"
<1>1. \A m \in ToSet(topics) : m.topic = "points"
  BY DEF Flow, Heard, Hears, Topics
<1>2. ASSUME NEW r \in ToSet(requests)
      PROVE  /\ r.service \in {"set", "takeoff", "wp pull", "wp push", "wp clear"}
             /\ r.service \in {"wp push", "wp clear"} =>
                  task.command = "wp load" /\ main.at = "pushed" /\ r \in Mine
             /\ r.service = "wp pull" => task.command # "wp load"
  BY ServiceAt DEF AskedBy, Way
<1> QED BY <1>1, <1>2

\* Nobody else's points are heard, and no service but a push changes the mission.
LEMMA SamePlan ==
    ASSUME Flow, Flow', UNCHANGED task, task.command \in {"wp dump", "wp show", "wp load"},
           SameMission, mavros'.mission = mavros.mission, mavros'.latched = mavros.latched,
           mavros'.before = mavros.before,
           \A m \in ToSet(topics') : m \in ToSet(topics) \/ m.topic # "points" \/ m.value = mavros.before
    PROVE  SameMission'
<1>1. \A m \in ToSet(topics') : m.topic = "points"
  BY DEF Flow, Heard, Hears, Topics
<1>2. \A m \in ToSet(topics') : m.value = mavros.before
  BY <1>1 DEF SameMission
<1> QED BY <1>2 DEF SameMission

LEMMA ShowSteps ==
    ASSUME Flow, Main, task.command \in {"wp dump", "wp show"}
    PROVE  Pull \/ PulledPoints \/ PointsAsTheyAre \/ Save \/ TimesOut \/ Close
BY CommandOf DEF Main

LEMMA ShowKept ==
    ASSUME ClientAssumption, Flow, ShowFlow, ClientNext
    PROVE  ShowFlow'
<1> DEFINE Goal == /\ SameMission /\ (py.done => py.points = mavros.before)
                   /\ main.told = "done" => py.file = mavros.before
<1> SUFFICES ASSUME task'.command \in {"wp dump", "wp show"}, Untouched'
             PROVE  Goal'
  BY DEF ShowFlow
<1>1. Flow' /\ UNCHANGED task /\ task.command \in {"wp dump", "wp show"}
  BY FlowKept
<1>2. Untouched => Goal
  BY <1>1 DEF ShowFlow
<1>3. /\ main.told = "done" => main.at \in {"closing", "ended"}
      /\ \A m \in ToSet(topics) : m.topic = "points"
  BY <1>1, Plan DEF Flow, Threads
<1>4. CASE Main
  <2>1. UNCHANGED mavros /\ Goal
    BY <1>2, <1>4, CommandOf DEF Main, Untouched
  <2>2. UNCHANGED topics => SameMission'
    BY <2>1 DEF SameMission
  <2>3. CASE Pull
    <3>1. UNCHANGED <<topics, py>> /\ main'.told = main.told
      BY <2>3, PullFlow DEF AsksFor
    <3> QED BY <2>1, <2>2, <3>1
  <2>4. CASE PulledPoints \/ PointsAsTheyAre
    <3>1. \/ Ends("failed") /\ UNCHANGED py
          \/ /\ RestsAt("wait points") /\ py'.done = py.done /\ py'.points = py.points
             /\ \A m \in ToSet(topics') : m.value = mavros.latched
      BY <2>4, PointsFlow
    <3>2. CASE Ends("failed") /\ UNCHANGED py
      BY <2>1, <2>2, <3>2 DEF Ends
    <3>3. CASE /\ RestsAt("wait points") /\ py'.done = py.done /\ py'.points = py.points
               /\ \A m \in ToSet(topics') : m.value = mavros.latched
      <4>1. main'.told = main.told /\ main'.at = "wait points" /\ SameMission'
        BY <2>1, <3>3 DEF RestsAt, SameMission
      <4>2. main'.told # "done"
        BY <1>1, <4>1 DEF Flow, Threads
      <4> QED BY <2>1, <3>3, <4>1, <4>2
    <3> QED BY <3>1, <3>2, <3>3
  <2>5. CASE Save
    <3>1. UNCHANGED topics /\ py.done /\ py'.file = py.points /\ py'.done = py.done /\ py'.points = py.points
      BY <2>5, SaveFlow DEF Ends
    <3> QED BY <2>1, <2>2, <3>1
  <2>6. CASE TimesOut
    <3>1. main'.told \in {"done", "timed out"} /\ UNCHANGED <<py, topics>> /\ main'.told # "done"
      <4>1. Tells("timed out") /\ UNCHANGED py
        BY <2>6 DEF TimesOut
      <4> QED BY <4>1 DEF Tells, Quiet
    <3> QED BY <2>1, <2>2, <3>1
  <2>7. CASE Close
    <3>1. UNCHANGED <<topics, py>> /\ main'.told = main.told
      BY <2>7, CloseFlow
    <3> QED BY <2>1, <2>2, <3>1
  <2> QED BY <1>1, <1>4, <2>3, <2>4, <2>5, <2>6, <2>7, ShowSteps
<1>5. CASE TakeAnswer
  <2>1. UNCHANGED <<main, py, mavros, topics>>
    BY <1>5, TakeFlow
  <2> QED BY <1>2, <2>1 DEF SameMission, Untouched
<1>6. CASE Callback
  <2>1. Head(topics).topic = "points" /\ Head(topics) \in ToSet(topics) /\ Head(topics).topic = py.topic
    BY <1>3, <1>6, Taken, MessageHere DEF Flow, Heard, Callback
  <2>2. /\ UNCHANGED <<main, mavros>> /\ ToSet(topics') \subseteq ToSet(topics)
        /\ py'.file = py.file /\ py'.points = Head(topics).value
    BY <1>1, <1>6, <2>1, NotedFlow DEF Heeds
  <2>3. Goal
    BY <1>2, <2>2 DEF Untouched
  <2> QED BY <2>1, <2>2, <2>3 DEF SameMission
<1>7. CASE Reports
  <2>1. /\ UNCHANGED <<main, py>> /\ mavros'.mission = mavros.mission /\ mavros'.latched = mavros.latched
        /\ mavros'.before = mavros.before /\ mavros'.news = mavros.news
        /\ \E topic \in {"fix", "source", "state"} : \E list : Told(topic, list)
    BY <1>7, ReportsFlow DEF Apart, OldNews
  <2>2. Goal
    BY <1>2, <2>1 DEF Untouched
  <2>3. SameMission'
    <3>1. \A m \in ToSet(topics') : m \in ToSet(topics) \/ m.topic # "points" \/ m.value = mavros.before
      BY <2>1 DEF Told
    <3> QED BY <1>1, <2>1, <2>2, <3>1, SamePlan
  <2> QED BY <2>1, <2>2, <2>3
<1>8. CASE Serve
  <2> DEFINE r == Head(requests)
  <2>1. /\ UNCHANGED <<main, py>> /\ mavros'.news = mavros.news /\ mavros'.before = mavros.before
        /\ Succeeded(r) \/ Failed(r) \/ Handled(r)
    BY <1>8, ServesOthers DEF OldNews
  <2>2. Goal
    BY <1>2, <2>1 DEF Untouched
  <2>3. r.service \in {"set", "takeoff", "wp pull"}
    <3>1. r \in ToSet(requests)
      BY <2>1 DEF Succeeded, Failed, Handled, AnswersWith
    <3> QED BY <1>1, <3>1, Plan
  <2> HIDE DEF r
  <2>4. CASE Succeeded(r)
    <3>1. mavros'.mission = mavros.mission /\ mavros'.latched = mavros.latched
      <4>1. mavros.latched = mavros.mission
        BY <2>2 DEF SameMission
      <4> QED BY <2>3, <2>4, <4>1, Effects
    <3>2. Told("points", {mavros'.latched}) \/ UNCHANGED topics
      BY <2>4 DEF Succeeded
    <3>3. {mavros'.latched} \subseteq {mavros.before}
      BY <2>2, <3>1 DEF SameMission
    <3>4. SameMission'
      <4>1. \A m \in ToSet(topics') : m \in ToSet(topics) \/ m.topic # "points" \/ m.value = mavros.before
        BY <3>2, <3>3 DEF Told
      <4> QED BY <1>1, <2>1, <2>2, <3>1, <4>1, SamePlan
    <3> QED BY <2>1, <2>2, <3>4
  <2>5. CASE Failed(r)
    <3>1. UNCHANGED <<mavros, topics>>
      BY <2>5 DEF Failed
    <3> QED BY <2>1, <2>2, <3>1 DEF SameMission
  <2>6. CASE Handled(r)
    <3>1. /\ mavros'.mission = mavros.mission /\ mavros'.latched = mavros.latched
          /\ UNCHANGED topics \/ \E heard : Told("event", heard)
      BY <2>6 DEF Handled, Elsewhere
    <3>2. SameMission'
      <4>1. \A m \in ToSet(topics') : m \in ToSet(topics) \/ m.topic # "points" \/ m.value = mavros.before
        BY <3>1 DEF Told
      <4> QED BY <1>1, <2>1, <2>2, <3>1, <4>1, SamePlan
    <3> QED BY <2>1, <2>2, <3>2
  <2> QED BY <2>1, <2>4, <2>5, <2>6
<1>9. CASE Others
  BY <1>9, OthersFlow
<1>10. CASE timer_cb
  BY <1>1, <1>10, TimerFlow
<1> QED BY <1>4, <1>5, <1>6, <1>7, <1>8, <1>9, <1>10 DEF ClientNext, Spinner

\* What is pushed is what is to be there afterwards: with the home kept, whole, or a part.
LEMMA PushesHome ==
    ASSUME task.from = 0, task.home
    PROVE  WholePush(Replaced(mavros.before, 0, WithHome))
<1>1. Replaced(mavros.before, 0, WithHome) = WithHome
  BY DEF Replaced
<1>2. WithHome = [i \in DOMAIN task.mission |-> IF i = 1 /\ task.home /\ mavros.before # <<>>
                                                THEN mavros.before[1] ELSE task.mission[i]]
  BY DEF WithHome
<1> QED BY <1>1, <1>2 DEF WholePush

LEMMA PushesAll ==
    ASSUME task.from = 0, ~task.home, task.mission \in Seq(Nat)
    PROVE  WholePush(Replaced(mavros.before, 0, task.mission))
<1>1. Replaced(mavros.before, 0, task.mission) = task.mission
  BY DEF Replaced
<1>2. task.mission = [i \in DOMAIN task.mission |-> IF i = 1 /\ task.home /\ mavros.before # <<>>
                                                    THEN mavros.before[1] ELSE task.mission[i]]
  OBVIOUS
<1> QED BY <1>1, <1>2 DEF WholePush

LEMMA PartOf ==
    ASSUME NEW s \in Seq(Nat), NEW m \in Nat, NEW n \in Nat, n <= Len(s)
    PROVE  /\ DOMAIN SubSeq(s, m + 1, n) = 1 .. (n - m)
           /\ \A i \in 1 .. (n - m) : SubSeq(s, m + 1, n)[i] = s[i + m]
<1>1. CASE n < m + 1
  <2>1. SubSeq(s, m + 1, n) = <<>> /\ 1 .. (n - m) = {}
    BY <1>1, SubSeqEmpty
  <2> QED BY <2>1
<1>2. CASE ~(n < m + 1)
  <2>1. \A i \in m + 1 .. n : s[i] \in Nat
    BY <1>2
  <2>2. /\ SubSeq(s, m + 1, n) \in Seq(Nat)
        /\ Len(SubSeq(s, m + 1, n)) = n - (m + 1) + 1
        /\ \A i \in 1 .. n - (m + 1) + 1 : SubSeq(s, m + 1, n)[i] = s[m + 1 + i - 1]
    BY <1>2, <2>1, SubSeqProperties
  <2>3. n - (m + 1) + 1 = n - m /\ \A i \in Int : m + 1 + i - 1 = i + m
    OBVIOUS
  <2> QED BY <2>2, <2>3
<1> QED BY <1>1, <1>2

LEMMA Shifted ==
    ASSUME NEW i \in Int, NEW m \in Nat, NEW n \in Nat
    PROVE  i - m \in 1 .. (n - m) <=> i \in m + 1 .. n
OBVIOUS

LEMMA PushesPart ==
    ASSUME task.from \in Nat, task.from > 0, task.to \in Nat,
           task.mission \in Seq(Nat), mavros.before \in Seq(Nat)
    PROVE  WholePush(Replaced(mavros.before, task.from, Slice(task.mission, task.from, task.to)))
<1> DEFINE from == task.from
           len == Len(task.mission)
           end == IF from = task.to THEN task.to + 1 ELSE task.to
           last == IF end = 0 \/ end > len THEN len ELSE end
           new == Slice(task.mission, from, task.to)
           after == Replaced(mavros.before, from, new)
           to == IF from = task.to THEN task.to + 1 ELSE IF task.to = 0 THEN len ELSE task.to
           upto == IF to < len THEN to ELSE len
<1>1. len \in Nat /\ end \in Nat /\ last \in Nat /\ last <= len /\ from \in Nat /\ from # 0 /\ to \in Nat
  OBVIOUS
<1>2. last = upto
  BY <1>1
<1>3. new = SubSeq(task.mission, from + 1, last)
  <2>1. new = SubSeq(task.mission, from + 1,
                     IF end = 0 \/ end > Len(task.mission) THEN Len(task.mission) ELSE end)
    <3>1. end = IF from = task.to THEN from + 1 ELSE task.to
      OBVIOUS
    <3> QED BY <3>1 DEF Slice
  <2> QED BY <2>1
<1> HIDE DEF last, end, new
<1> DEFINE mission == task.mission
<1>4. mission \in Seq(Nat) /\ last <= Len(mission) /\ new = SubSeq(mission, from + 1, last)
  BY <1>1, <1>3
<1>5. DOMAIN new = 1 .. (last - from) /\ \A i \in 1 .. (last - from) : new[i] = task.mission[i + from]
  <2> HIDE DEF mission, from, len
  <2>1. /\ DOMAIN SubSeq(mission, from + 1, last) = 1 .. (last - from)
        /\ \A i \in 1 .. (last - from) : SubSeq(mission, from + 1, last)[i] = mission[i + from]
    BY <1>1, <1>4, PartOf
  <2> QED BY <1>4, <2>1 DEF mission
<1> HIDE DEF mission
<1> HIDE DEF from
<1>6. after = [i \in DOMAIN mavros.before |->
                 IF i - from \in DOMAIN new THEN new[i - from] ELSE mavros.before[i]]
  BY <1>1 DEF Replaced
<1>7. DOMAIN mavros.before \subseteq Int
  OBVIOUS
<1> HIDE DEF after
<1>8. ASSUME NEW i \in DOMAIN after
      PROVE  after[i] = IF i \in from + 1 .. last THEN task.mission[i] ELSE mavros.before[i]
  <2>1. i \in DOMAIN mavros.before /\ i \in Int
    BY <1>6, <1>7
  <2>2. i - from \in 1 .. (last - from) <=> i \in from + 1 .. last
    BY <1>1, <2>1, Shifted
  <2>3. (i - from) + from = i
    BY <1>1, <2>1
  <2>4. i - from \in DOMAIN new <=> i \in from + 1 .. last
    BY <1>5, <2>2
  <2>5. after[i] = IF i - from \in DOMAIN new THEN new[i - from] ELSE mavros.before[i]
    BY <1>6, <2>1
  <2> QED BY <1>5, <2>3, <2>4, <2>5
<1>9. DOMAIN after = DOMAIN mavros.before
  BY <1>6
<1>10. task.from # 0
  OBVIOUS
<1> HIDE DEF to
<1>11. to = IF task.from = task.to THEN task.to + 1 ELSE IF task.to = 0 THEN Len(task.mission) ELSE task.to
  BY DEF to, from
<1>12. upto = IF to < Len(task.mission) THEN to ELSE Len(task.mission)
  OBVIOUS
<1>13. \A i \in DOMAIN after :
          after[i] = IF i \in task.from + 1 .. upto THEN task.mission[i] ELSE mavros.before[i]
  BY <1>2, <1>8 DEF from
<1> HIDE DEF upto
<1>14. WholePush(after)
  BY <1>9, <1>10, <1>11, <1>12, <1>13 DEF WholePush
<1> QED BY <1>14 DEF after, new, from

LEMMA StillWhole ==
    ASSUME UNCHANGED task, mavros'.before = mavros.before, WholePush(mavros'.mission)
    PROVE  WholePush(mavros.mission)'
BY DEF WholePush

LEMMA StillPushing ==
    ASSUME UNCHANGED task, mavros'.before = mavros.before, NEW r
    PROVE  Pushing(r)' <=> Pushing(r)
BY DEF Pushing, WholePush

LEMMA SameHome ==
    ASSUME UNCHANGED task, mavros'.before = mavros.before
    PROVE  WithHome' = WithHome
BY DEF WithHome

\* The home of the vehicle takes the place of the file's first item.
LEMMA HomeTaken ==
    ASSUME task.mission \in Seq(Nat), NEW file, file \in {task.mission, WithHome},
           mavros.before = <<>> \/ file # <<>>, mavros.before \in Seq(Nat)
    PROVE  (IF mavros.before = <<>> THEN file ELSE [file EXCEPT ![1] = mavros.before[1]]) = WithHome
<1>1. WithHome = [i \in DOMAIN task.mission |-> IF i = 1 /\ mavros.before # <<>>
                                                THEN mavros.before[1] ELSE task.mission[i]]
  BY DEF WithHome
<1>2. task.mission = [i \in DOMAIN task.mission |-> task.mission[i]]
  OBVIOUS
<1>3. CASE mavros.before = <<>>
  <2>1. WithHome = task.mission
    BY <1>1, <1>2, <1>3
  <2> QED BY <1>3, <2>1
<1>4. CASE mavros.before # <<>>
  <2>1. \/ file = task.mission
        \/ file = [i \in DOMAIN task.mission |-> IF i = 1 /\ mavros.before # <<>>
                                                 THEN mavros.before[1] ELSE task.mission[i]]
    BY <1>1
  <2>2. /\ file = [i \in DOMAIN task.mission |-> file[i]]
        /\ \A i \in DOMAIN task.mission : i # 1 => file[i] = task.mission[i]
    BY <1>2, <2>1
  <2>3. [file EXCEPT ![1] = mavros.before[1]] =
          [i \in DOMAIN task.mission |-> IF i = 1 THEN mavros.before[1] ELSE file[i]]
    BY <2>2
  <2>4. [i \in DOMAIN task.mission |-> IF i = 1 THEN mavros.before[1] ELSE file[i]] = WithHome
    BY <1>1, <1>4, <2>2
  <2> QED BY <1>4, <2>3, <2>4
<1> QED BY <1>3, <1>4

LEMMA LoadSteps ==
    ASSUME Flow, Main, task.command = "wp load"
    PROVE  Push \/ PreserveHome \/ PushHome \/ Pushed \/ TimesOut \/ Close
BY CommandOf DEF Main

LEMMA NoPart == \A n \in Nat : n > 0 \/ n = 0
OBVIOUS

LEMMA LoadKept ==
    ASSUME ClientAssumption, Flow, LoadFlow, ClientNext
    PROVE  LoadFlow'
<1> DEFINE Fresh == main.at = "start" => py.file = task.mission /\ ~py.done
           There == main.at = "wait home" => task.from = 0 /\ task.home
           Pushes == \A r \in Mine : r.service = "wp push"
           As == main.at \in {"start", "wait home"} => SameMission
           Home == main.at = "wait home" =>
                     (py.done => py.file = WithHome) /\ (~py.done => py.file = task.mission)
           On == main.at = "pushed" =>
                     /\ Mine # {} => mavros.mission = mavros.before
                     /\ \A r \in Mine : Pushing(r)
                     /\ Answers # {} /\ "failed" \notin Answers => WholePush(mavros.mission)
           Done == main.told = "done" => WholePush(mavros.mission)
           Goal == /\ Fresh /\ There /\ Pushes
                   /\ Untouched => As /\ Home /\ On /\ Done
<1>0. LoadFlow <=> (task.command = "wp load" => Goal)
  BY DEF LoadFlow
<1>00. LoadFlow' <=> (task'.command = "wp load" => Goal')
  BY DEF LoadFlow
<1> SUFFICES ASSUME task'.command = "wp load" PROVE Goal'
  BY <1>00
<1>1. Flow' /\ UNCHANGED task /\ task.command = "wp load"
  BY FlowKept
<1>2. Goal
  BY <1>0, <1>1
<1>3. /\ main.told = "done" => main.at \in {"closing", "ended"}
      /\ task.mission \in Seq(Nat) /\ task.home \in BOOLEAN /\ task.from \in Nat /\ task.to \in Nat
      /\ mavros.before \in Seq(Nat) /\ Calls
      /\ \A m \in ToSet(topics) : m.topic = "points"
  BY <1>1, Plan DEF Flow, Threads, Objects, TaskAssumption
<1>4. CASE Main
  <2>1. UNCHANGED mavros
    BY <1>4, CommandOf DEF Main
  <2>2. Untouched' <=> Untouched
    BY <2>1 DEF Untouched
  <2>3. \A x : WholePush(x)' <=> WholePush(x)
    BY <1>1, <2>1 DEF WholePush
  <2>4. CASE Push
    <3> DEFINE items == IF task.from > 0 THEN Slice(py.file, task.from, task.to) ELSE py.file
               arg == [from |-> task.from, points |-> items]
               r == [by |-> "main", service |-> "wp push", arg |-> arg]
    <3>1. /\ main.at = "start" /\ (task.from > 0 \/ ~task.home)
          /\ main'.at = "pushed" /\ main'.told = main.told /\ UNCHANGED py
          /\ Mine' = {r} /\ Answers' = {}
      BY <2>4, PushFlow DEF AsksFor
    <3>2. py.file = task.mission
      BY <1>2, <3>1
    <3>3. WholePush(Replaced(mavros.before, task.from, items))
      <4>1. CASE task.from > 0
        BY <1>3, <3>2, <4>1, PushesPart
      <4>2. CASE ~(task.from > 0)
        <5>1. task.from = 0 /\ ~task.home
          <6>1. task.from \in Nat
            BY <1>3
          <6>2. task.from = 0
            BY <4>2, <6>1, NoPart, Zenon
          <6> QED BY <3>1, <4>2, <6>2, Zenon
        <5> QED BY <1>3, <3>2, <5>1, <4>2, PushesAll
      <4> QED BY <4>1, <4>2
    <3>4. r.service = "wp push" /\ r.arg.from = task.from /\ r.arg.points = items
      OBVIOUS
    <3> HIDE DEF r, items, arg
    <3>5. Untouched => mavros.mission = mavros.before
      BY <1>2, <3>1 DEF SameMission
    <3>6. main.told # "done"
      BY <1>3, <3>1
    <3>7. \A q \in Mine' : q = r
      BY <3>1
    <3>8. Pushing(r)
      BY <3>3, <3>4 DEF Pushing
    <3>9. On' \/ ~Untouched
      <4>1. \A q \in Mine' : Pushing(q)'
        <5> TAKE q \in Mine'
        <5>1. Pushing(q)
          BY <3>7, <3>8
        <5> QED BY <1>1, <2>1, <5>1, StillPushing
      <4> QED BY <2>1, <3>1, <3>5, <4>1
    <3>10. Pushes'
      BY <3>4, <3>7
    <3>11. Fresh' /\ There' /\ As' /\ Home' /\ Done'
      BY <3>1, <3>6
    <3> HIDE DEF Fresh, There, Pushes, As, Home, On, Done
    <3> QED BY <2>2, <3>9, <3>10, <3>11
  <2>5. CASE PreserveHome
    <3>1. /\ main.at = "start" /\ task.from = 0 /\ task.home
          /\ main'.at = "wait home" /\ main'.told = main.told /\ Mine' = {} /\ Answers' = {}
          /\ py'.done = py.done /\ py'.file = py.file
          /\ \A m \in ToSet(topics') : m.value = mavros.latched
      BY <2>5, PreserveHomeFlow DEF RestsAt
    <3>2. py.file = task.mission /\ ~py.done
      BY <1>2, <3>1
    <3>3. As' \/ ~Untouched
      BY <1>2, <2>1, <3>1 DEF SameMission
    <3>4. Home'
      BY <1>1, <3>1, <3>2
    <3>5. Fresh' /\ There' /\ Pushes' /\ On' /\ Done'
      BY <1>1, <1>3, <3>1
    <3> HIDE DEF Fresh, There, Pushes, As, Home, On, Done
    <3> QED BY <2>2, <3>3, <3>4, <3>5
  <2>6. CASE PushHome
    <3> DEFINE arg == [from |-> 0, points |-> py.file]
               r == [by |-> "main", service |-> "wp push", arg |-> arg]
    <3>1. /\ main.at = "wait home" /\ py.done
          /\ main'.at = "pushed" /\ main'.told = main.told /\ UNCHANGED py
          /\ Mine' = {r} /\ Answers' = {}
      BY <2>6, PushHomeFlow DEF AsksFor
    <3>2. task.from = 0 /\ task.home /\ (Untouched => py.file = WithHome)
      BY <1>2, <3>1
    <3>3. Untouched => WholePush(Replaced(mavros.before, 0, py.file))
      BY <3>2, PushesHome
    <3>4. r.service = "wp push" /\ r.arg.from = 0 /\ r.arg.points = py.file
      OBVIOUS
    <3> HIDE DEF r, arg
    <3>5. Untouched => mavros.mission = mavros.before
      BY <1>2, <3>1 DEF SameMission
    <3>6. main.told # "done"
      BY <1>3, <3>1
    <3>7. \A q \in Mine' : q = r
      BY <3>1
    <3>8. Untouched => Pushing(r)
      BY <3>3, <3>4 DEF Pushing
    <3>9. On' \/ ~Untouched
      <4>1. Untouched => \A q \in Mine' : Pushing(q)'
        <5> SUFFICES ASSUME Untouched, NEW q \in Mine' PROVE Pushing(q)'
          OBVIOUS
        <5>1. Pushing(q)
          BY <3>7, <3>8
        <5> QED BY <1>1, <2>1, <5>1, StillPushing
      <4> QED BY <2>1, <3>1, <3>5, <4>1
    <3>10. Pushes'
      BY <3>4, <3>7
    <3>11. Fresh' /\ There' /\ As' /\ Home' /\ Done'
      BY <3>1, <3>6
    <3> HIDE DEF Fresh, There, Pushes, As, Home, On, Done
    <3> QED BY <2>2, <3>9, <3>10, <3>11
  <2>7. CASE Pushed
    <3>1. /\ main.at = "pushed" /\ Answered("pushed") /\ main'.at = "closing" /\ Mine' = {}
          /\ main'.told = IF answer[1] = "failed" THEN "failed" ELSE "done"
      BY <2>7, PushedFlow DEF Ends
    <3>2. Answers = {answer[1]}
      BY <1>3, <3>1, TheAnswer DEF Asking
    <3>3. Untouched /\ main'.told = "done" => WholePush(mavros.mission)
      BY <1>2, <3>1, <3>2
    <3>4. Untouched => Done'
      BY <2>1, <2>3, <3>3
    <3>5. Fresh' /\ There' /\ Pushes' /\ As' /\ Home' /\ On'
      BY <3>1
    <3> HIDE DEF Fresh, There, Pushes, As, Home, On, Done
    <3> QED BY <2>2, <3>4, <3>5
  <2>8. CASE TimesOut
    <3>1. main'.at = "closing" /\ main'.told = "timed out"
      BY <2>8 DEF TimesOut, Tells
    <3>2. Mine' = {}
      BY <2>8, WaitFlow DEF Ends
    <3>3. Fresh' /\ There' /\ Pushes' /\ As' /\ Home' /\ On' /\ Done'
      BY <3>1, <3>2
    <3> HIDE DEF Fresh, There, Pushes, As, Home, On, Done
    <3> QED BY <3>3
  <2>9. CASE Close
    <3>1. main'.at = "ended" /\ main'.told = main.told /\ Mine' = {}
      BY <2>9, CloseFlow
    <3>2. Untouched => Done'
      BY <1>2, <2>1, <2>3, <3>1
    <3>3. Fresh' /\ There' /\ Pushes' /\ As' /\ Home' /\ On'
      BY <3>1
    <3> HIDE DEF Fresh, There, Pushes, As, Home, On, Done
    <3> QED BY <2>2, <3>2, <3>3
  <2> QED BY <1>1, <1>4, <2>4, <2>5, <2>6, <2>7, <2>8, <2>9, LoadSteps
<1>5. ASSUME UNCHANGED <<main, py>>, mavros'.before = mavros.before, mavros'.mission = mavros.mission,
             Mine' \subseteq Mine, Answers' \subseteq {"failed"} \/ (Answers' = Answers /\ Mine' = Mine),
             Untouched' => Untouched, Untouched /\ main.at \in {"start", "wait home"} => SameMission'
      PROVE  Goal'
  <2>1. \A x : WholePush(x)' <=> WholePush(x)
    BY <1>1, <1>5, ZenonT(60) DEF WholePush
  <2>2. WithHome' = WithHome
    BY <1>1, <1>5, SameHome
  <2>3. Fresh' /\ There' /\ Pushes'
    BY <1>1, <1>2, <1>5
  <2>4. Untouched => As' /\ Home' /\ Done'
    BY <1>1, <1>2, <1>5, <2>1, <2>2
  <2>5. Untouched => On'
    <3>1. \A q : Pushing(q)' <=> Pushing(q)
      BY <1>1, <1>5, StillPushing
    <3> HIDE DEF Fresh, There, Pushes, As, Home, Done
    <3> QED BY <1>2, <1>5, <2>1, <3>1
  <2> HIDE DEF Fresh, There, Pushes, As, Home, On, Done
  <2> QED BY <1>5, <2>3, <2>4, <2>5
<1>6. CASE TakeAnswer
  <2>1. UNCHANGED <<main, py, mavros, topics>> /\ Mine' = Mine /\ Answers' = Answers
    BY <1>6, TakeFlow
  <2>2. Untouched' <=> Untouched
    BY <2>1 DEF Untouched
  <2>3. Untouched /\ main.at \in {"start", "wait home"} => SameMission'
    BY <1>2, <2>1 DEF SameMission
  <2> HIDE DEF Goal
  <2> QED BY <1>5, <2>1, <2>2, <2>3
<1>7. CASE Callback
  <2>1. /\ Head(topics).topic = "points" /\ Head(topics) \in ToSet(topics)
        /\ Head(topics).topic = py.topic
    BY <1>3, <1>7, Taken, MessageHere DEF Flow, Heard, Callback
  <2>2. /\ UNCHANGED <<main, mavros>> /\ ToSet(topics') \subseteq ToSet(topics)
        /\ Mine' = Mine /\ Answers' = Answers
        /\ \/ py'.file = py.file /\ py'.done = py.done
           \/ /\ Head(topics).value = <<>> \/ py.file # <<>>
              /\ py'.file = (IF Head(topics).value = <<>> THEN py.file
                             ELSE [py.file EXCEPT ![1] = Head(topics).value[1]])
              /\ py'.done = TRUE
    BY <1>1, <1>7, <2>1, HomeFlow DEF Heeds
  <2>3. main.at # "start"
    BY <2>1 DEF Flow, Heard, Unheard
  <2>4. \A x : WholePush(x)' <=> WholePush(x)
    BY <1>1, <2>2, ZenonT(60) DEF WholePush
  <2>5. WithHome' = WithHome
    BY <1>1, <2>2, SameHome
  <2>6. Untouched' <=> Untouched
    BY <2>2 DEF Untouched
  <2>7. Fresh' /\ There' /\ Pushes'
    BY <1>1, <1>2, <2>2, <2>3
  <2>8. Untouched => As' /\ Done'
    BY <1>1, <1>2, <2>2, <2>4 DEF SameMission
  <2>9. Untouched => On'
    <3>1. \A q : Pushing(q)' <=> Pushing(q)
      BY <1>1, <2>2, StillPushing
    <3> HIDE DEF Fresh, There, Pushes, As, Home, Done
    <3> QED BY <1>2, <2>2, <2>4, <3>1
  <2>10. Untouched => Home'
    <3> SUFFICES ASSUME Untouched, main.at = "wait home"
                 PROVE  (py'.done => py'.file = WithHome) /\ (~py'.done => py'.file = task.mission)
      BY <1>1, <2>2, <2>5
    <3>1. Head(topics).value = mavros.before
      BY <1>2, <2>1 DEF SameMission
    <3>2. (py.done => py.file = WithHome) /\ (~py.done => py.file = task.mission)
      BY <1>2
    <3>3. py.file \in {task.mission, WithHome}
      BY <3>2
    <3>4. CASE py'.file = py.file /\ py'.done = py.done
      BY <3>2, <3>4
    <3>5. CASE /\ mavros.before = <<>> \/ py.file # <<>>
               /\ py'.file = (IF mavros.before = <<>> THEN py.file
                              ELSE [py.file EXCEPT ![1] = mavros.before[1]])
               /\ py'.done = TRUE
      <4>1. (IF mavros.before = <<>> THEN py.file ELSE [py.file EXCEPT ![1] = mavros.before[1]]) = WithHome
        BY <1>3, <3>3, <3>5, HomeTaken
      <4> QED BY <3>5, <4>1
    <3> QED BY <2>2, <3>1, <3>4, <3>5
  <2> HIDE DEF Fresh, There, Pushes, As, Home, On, Done
  <2> QED BY <2>6, <2>7, <2>8, <2>9, <2>10
<1>8. CASE Reports
  <2>1. /\ UNCHANGED <<main, py>> /\ mavros'.mission = mavros.mission /\ mavros'.latched = mavros.latched
        /\ mavros'.before = mavros.before /\ mavros'.news = mavros.news /\ Mine' = Mine /\ Answers' = Answers
        /\ \E topic \in {"fix", "source", "state"} : \E list : Told(topic, list)
    BY <1>8, ReportsFlow DEF Apart, OldNews
  <2>2. \A m \in ToSet(topics') : m \in ToSet(topics) \/ m.topic # "points" \/ m.value = mavros.before
    BY <2>1 DEF Told
  <2>3. Untouched /\ main.at \in {"start", "wait home"} => SameMission'
    BY <1>1, <1>2, <2>1, <2>2, SamePlan
  <2>4. Untouched' <=> Untouched
    BY <2>1 DEF Untouched
  <2> HIDE DEF Goal
  <2> QED BY <1>5, <2>1, <2>3, <2>4
<1>9. CASE Serve
  <2> DEFINE r == Head(requests)
  <2>1. /\ UNCHANGED <<main, py>> /\ mavros'.news = mavros.news /\ mavros'.before = mavros.before
        /\ Succeeded(r) \/ Failed(r) \/ Handled(r)
    BY <1>9, ServesOthers DEF OldNews
  <2>2. r \in ToSet(requests)
    BY <2>1 DEF Succeeded, Failed, Handled, AnswersWith
  <2>3. /\ r.service \in {"set", "takeoff", "wp push", "wp clear"}
        /\ r.service \in {"wp push", "wp clear"} => r \in Mine /\ main.at = "pushed"
    BY <1>1, <2>2, Plan
  <2>4. r.service # "wp clear" /\ (r \in Mine => r.service = "wp push")
    BY <1>2, <2>3
  <2>5. \A a : AnswersWith(a) => \/ r \in Mine /\ Mine' = {} /\ Answers' = {a}
                                 \/ r \notin Mine /\ Mine' = Mine /\ Answers' = Answers
    BY DEF AnswersWith
  <2> HIDE DEF r
  <2>6. Untouched' <=> Untouched
    BY <2>1 DEF Untouched
  <2>7. CASE Succeeded(r) /\ r.service = "wp push"
    <3>1. main.at = "pushed" /\ r \in Mine /\ Mine' = {}
      BY <2>3, <2>5, <2>7, Effects
    <3>2. Untouched => WholePush(mavros'.mission)
      <4> SUFFICES ASSUME Untouched PROVE WholePush(mavros'.mission)
        OBVIOUS
      <4>1. mavros'.mission = Replaced(mavros.mission, r.arg.from, r.arg.points)
        BY <2>7, Effects
      <4>2. mavros.mission = mavros.before /\ WholePush(Replaced(mavros.before, r.arg.from, r.arg.points))
        BY <1>2, <3>1 DEF Pushing
      <4> QED BY <4>1, <4>2
    <3>3. Untouched => WholePush(mavros.mission)'
      BY <1>1, <2>1, <3>2, StillWhole
    <3>4. Untouched => On' /\ Done'
      BY <2>1, <3>1, <3>3
    <3>5. Fresh' /\ There' /\ Pushes' /\ As' /\ Home'
      BY <2>1, <3>1
    <3> HIDE DEF Fresh, There, Pushes, As, Home, On, Done
    <3> QED BY <2>6, <3>4, <3>5
  <2>8. CASE Succeeded(r) /\ r.service # "wp push"
    <3>1. r \notin Mine /\ Mine' = Mine /\ Answers' = Answers
      BY <2>4, <2>5, <2>8, Effects
    <3>2. mavros'.mission = mavros.mission /\ mavros'.latched = mavros.latched
      BY <2>3, <2>4, <2>8, Effects
    <3>3. Told("points", {mavros'.latched}) \/ UNCHANGED topics
      BY <2>8 DEF Succeeded
    <3>4. Untouched /\ main.at \in {"start", "wait home"} => SameMission'
      <4> SUFFICES ASSUME Untouched, main.at \in {"start", "wait home"} PROVE SameMission'
        OBVIOUS
      <4>1. SameMission
        BY <1>2
      <4>2. {mavros'.latched} \subseteq {mavros.before}
        BY <3>2, <4>1 DEF SameMission
      <4>3. \A m \in ToSet(topics') : m \in ToSet(topics) \/ m.topic # "points" \/ m.value = mavros.before
        BY <3>3, <4>2 DEF Told
      <4> QED BY <1>1, <2>1, <3>2, <4>1, <4>3, SamePlan
    <3> HIDE DEF Goal
    <3> QED BY <1>5, <2>1, <2>6, <3>1, <3>2, <3>4
  <2>9. CASE Failed(r)
    <3>1. UNCHANGED <<mavros, topics>> /\ AnswersWith("failed")
      BY <2>3, <2>9 DEF Failed
    <3>2. Mine' \subseteq Mine /\ (Answers' \subseteq {"failed"} \/ (Answers' = Answers /\ Mine' = Mine))
      BY <2>5, <3>1
    <3>3. Untouched /\ main.at \in {"start", "wait home"} => SameMission'
      BY <1>2, <3>1 DEF SameMission
    <3> HIDE DEF Goal
    <3> QED BY <1>5, <2>1, <2>6, <3>1, <3>2, <3>3
  <2>10. CASE Handled(r)
    <3>1. /\ mavros'.mission = mavros.mission /\ mavros'.latched = mavros.latched
          /\ UNCHANGED topics \/ \E heard : Told("event", heard)
          /\ r.service \in {"set", "pull"} /\ \E a : AnswersWith(a)
      BY <2>10 DEF Handled, Elsewhere
    <3>2. r \notin Mine /\ Mine' = Mine /\ Answers' = Answers
      BY <2>4, <2>5, <3>1
    <3>3. Untouched /\ main.at \in {"start", "wait home"} => SameMission'
      <4>1. \A m \in ToSet(topics') : m \in ToSet(topics) \/ m.topic # "points" \/ m.value = mavros.before
        BY <3>1 DEF Told
      <4> QED BY <1>1, <1>2, <2>1, <3>1, <4>1, SamePlan
    <3> HIDE DEF Goal
    <3> QED BY <1>5, <2>1, <2>6, <3>1, <3>2, <3>3
  <2> QED BY <2>1, <2>7, <2>8, <2>9, <2>10
<1>10. CASE Others
  <2>1. /\ UNCHANGED <<main, py>> /\ Mine' = Mine /\ ~Untouched'
    BY <1>10, OthersFlow DEF Apart
  <2>2. Fresh' /\ There' /\ Pushes'
    BY <1>1, <1>2, <2>1
  <2> HIDE DEF Fresh, There, Pushes, As, Home, On, Done
  <2> QED BY <2>1, <2>2
<1>11. CASE timer_cb
  BY <1>1, <1>11, TimerFlow
<1> HIDE DEF Goal
<1> QED BY <1>4, <1>6, <1>7, <1>8, <1>9, <1>10, <1>11 DEF ClientNext, Spinner

(* ------------------------------ commands and modes -------------------------- *)
\* Where nothing is subscribed to, no callback runs.
LEMMA Deaf ==
    ASSUME Flow, Callback
    PROVE  task.command \notin {"call", "upload", "verify"}
<1>1. Head(topics).topic = py.topic /\ Head(topics) \in ToSet(topics)
  BY Taken, MessageHere DEF Flow, Heard, Callback
<1>2. py.topic \in Topics
  BY <1>1 DEF Flow, Heard
<1> QED BY <1>2 DEF Flow, Heard, Hears, Topics

LEMMA CallSteps ==
    ASSUME Flow, Main, task.command = "call"
    PROVE  CallCommand \/ Called \/ Close
BY CommandOf DEF Main

LEMMA CallKept ==
    ASSUME ClientAssumption, Flow, CallFlow, ClientNext
    PROVE  CallFlow'
<1> DEFINE Goal ==
             /\ py.offset \in Nat /\ mavros.commands \in Nat
             /\ main.at = "start" => py.offset = 0 /\ mavros.commands = 0
             /\ main.at = "called" =>
                  /\ py.offset <= task.times
                  /\ task.check # "done" =>
                       /\ Mine # {} => mavros.commands = py.offset - 1
                       /\ Answers # {} /\ "failed" \notin Answers => mavros.commands = py.offset
             /\ main.told = "done" /\ task.check # "done" => mavros.commands = task.times
<1> SUFFICES ASSUME task'.command = "call" PROVE Goal'
  BY DEF CallFlow
<1>1. Flow' /\ UNCHANGED task /\ task.command = "call"
  BY FlowKept
<1>2. Goal
  BY <1>1 DEF CallFlow
<1>3. /\ Calls /\ task.times \in Nat /\ task.times # 0
      /\ main.told = "done" => main.at \in {"closing", "ended"}
  BY <1>1 DEF Flow, Threads, TaskAssumption
<1>4. CASE CallCommand
  <2>1. /\ main.at = "start" /\ UNCHANGED mavros /\ py'.offset = py.offset + 1
        /\ main'.at = "called" /\ main'.told = main.told /\ Answers' = {}
    BY <1>4, CallCommandFlow DEF AsksFor, Same
  <2>2. py.offset = 0 /\ mavros.commands = 0 /\ py'.offset = 1 /\ main.told # "done"
    BY <1>2, <1>3, <2>1
  <2>3. 1 <= task.times
    BY <1>3
  <2> QED BY <1>1, <2>1, <2>2, <2>3
<1>5. CASE Called
  <2>1. /\ main.at = "called" /\ Answered("called") /\ UNCHANGED mavros
        /\ IF answer[1] = "failed" /\ task.check # "done" THEN Ends(task.check)
           ELSE IF py.offset < task.times
           THEN AsksFor("called", "command", 0) /\ py'.offset = py.offset + 1
           ELSE Ends("done")
        /\ (~(py.offset < task.times) \/ (answer[1] = "failed" /\ task.check # "done")) => UNCHANGED py
    BY <1>5, CalledFlow DEF Same
  <2>2. Answers = {answer[1]}
    BY <1>3, <2>1, TheAnswer DEF Asking
  <2>3. /\ py.offset <= task.times
        /\ answer[1] # "failed" /\ task.check # "done" => mavros.commands = py.offset
        /\ main.told # "done"
    BY <1>2, <1>3, <2>1, <2>2
  <2>4. CASE answer[1] = "failed" /\ task.check # "done"
    BY <1>1, <1>2, <2>1, <2>4 DEF Ends
  <2>5. CASE ~(answer[1] = "failed" /\ task.check # "done") /\ py.offset < task.times
    <3>1. /\ py'.offset = py.offset + 1 /\ main'.at = "called" /\ main'.told = main.told /\ Answers' = {}
      BY <2>1, <2>5 DEF AsksFor
    <3>2. py'.offset <= task.times /\ py'.offset \in Nat /\ py.offset = py'.offset - 1
      BY <1>2, <1>3, <2>5, <3>1
    <3> QED BY <1>1, <1>2, <2>1, <2>3, <2>5, <3>1, <3>2
  <2>6. CASE ~(answer[1] = "failed" /\ task.check # "done") /\ ~(py.offset < task.times)
    <3>1. UNCHANGED py /\ main'.at = "closing" /\ main'.told = "done"
      BY <2>1, <2>6 DEF Ends
    <3>2. py.offset = task.times
      BY <1>2, <1>3, <2>3, <2>6
    <3> QED BY <1>1, <1>2, <2>1, <2>3, <2>6, <3>1, <3>2
  <2> QED BY <2>4, <2>5, <2>6
<1>6. CASE Close
  <2>1. main'.at = "ended" /\ main'.told = main.told /\ UNCHANGED <<py, mavros>>
    BY <1>6, CloseFlow
  <2> QED BY <1>1, <1>2, <2>1
<1>7. CASE TakeAnswer
  <2>1. UNCHANGED <<main, py, mavros>> /\ Mine' = Mine /\ Answers' = Answers
    BY <1>7, TakeFlow
  <2> QED BY <1>1, <1>2, <2>1
<1>8. CASE Reports \/ Others
  <2>1. UNCHANGED <<main, py>> /\ Mine' = Mine /\ Answers' = Answers /\ mavros'.commands = mavros.commands
    BY <1>8, ReportsFlow, OthersFlow DEF Apart
  <2> QED BY <1>1, <1>2, <2>1
<1>9. CASE Serve
  <2> DEFINE r == Head(requests)
  <2>1. /\ UNCHANGED <<main, py>>
        /\ Succeeded(r) \/ Failed(r) \/ Handled(r)
    BY <1>9, ServesOthers
  <2>2. r \in ToSet(requests)
    BY <2>1 DEF Succeeded, Failed, Handled, AnswersWith
  <2>3. /\ r \notin Mine => r.service # "command"
        /\ r \in Mine => main.at = "called" /\ r.service = "command"
    BY <1>1, <2>2, ServiceAt DEF AskedBy, Way
  <2>4. \A a : AnswersWith(a) => \/ r \in Mine /\ Mine' = {} /\ Answers' = {a} /\ Mine # {}
                                 \/ r \notin Mine /\ Mine' = Mine /\ Answers' = Answers
    BY DEF AnswersWith
  <2> HIDE DEF r
  <2>5. CASE Succeeded(r)
    <3>1. /\ mavros'.commands = (IF r.service = "command" THEN mavros.commands + 1 ELSE mavros.commands)
          /\ AnswersWith(Effect(r.service, r.arg)[2])
      BY <2>5, Effects
    <3>2. CASE r \in Mine
      <4>1. /\ main.at = "called" /\ Mine' = {} /\ Mine # {} /\ mavros'.commands = mavros.commands + 1
            /\ main.told # "done"
        BY <1>3, <2>3, <2>4, <3>1, <3>2
      <4>2. task.check # "done" => mavros'.commands = py.offset
        BY <1>2, <4>1
      <4> QED BY <1>1, <1>2, <2>1, <4>1, <4>2
    <3>3. CASE r \notin Mine
      <4>1. Mine' = Mine /\ Answers' = Answers /\ mavros'.commands = mavros.commands
        BY <2>3, <2>4, <3>1, <3>3
      <4> QED BY <1>1, <1>2, <2>1, <4>1
    <3> QED BY <3>2, <3>3
  <2>6. CASE Failed(r)
    <3>1. /\ UNCHANGED mavros
          /\ \/ Mine' = {} /\ Answers' = {"failed"}
             \/ Mine' = Mine /\ Answers' = Answers
      <4>1. UNCHANGED mavros /\ AnswersWith(IF r.service = "checksum" THEN NoChecksum ELSE "failed")
        BY <2>6 DEF Failed
      <4>2. r \in Mine => r.service # "checksum"
        BY <2>3
      <4> QED BY <2>4, <4>1, <4>2
    <3> QED BY <1>1, <1>2, <2>1, <3>1
  <2>7. CASE Handled(r)
    <3>1. mavros'.commands = mavros.commands /\ Mine' = Mine /\ Answers' = Answers
      BY <2>3, <2>4, <2>7 DEF Handled, Elsewhere
    <3> QED BY <1>1, <1>2, <2>1, <3>1
  <2> QED BY <2>1, <2>5, <2>6, <2>7
<1>10. CASE Callback \/ timer_cb
  BY <1>1, <1>10, Deaf, TimerFlow
<1> HIDE DEF Goal
<1> QED BY <1>1, <1>4, <1>5, <1>6, <1>7, <1>8, <1>9, <1>10, CallSteps DEF ClientNext, Spinner

LEMMA ModeSteps ==
    ASSUME Flow, Main, task.command = "mode"
    PROVE  mode \/ ModeSent \/ Woken \/ TimesOut \/ Close
BY CommandOf DEF Main

LEMMA ModeKept ==
    ASSUME ClientAssumption, Flow, ModeFlow, ClientNext
    PROVE  ModeFlow'
<1> DEFINE Reached == mavros.mode = task.mode
           Reporting == \A m \in ToSet(topics) : m.value = task.mode => Reached
           Goal ==
             /\ main.at = "start" => ~py.done
             /\ Reporting
             /\ py.done => Reached
             /\ main.told = "done" => Reached
<1> SUFFICES ASSUME task'.command = "mode", task'.named PROVE Goal'
  BY DEF ModeFlow
<1>1. Flow' /\ UNCHANGED task /\ task.command = "mode" /\ task.named
  BY FlowKept
<1>2. Goal
  BY <1>1 DEF ModeFlow
<1>3. /\ main.told = "done" => main.at \in {"closing", "ended"}
      /\ \A m \in ToSet(topics) : m.topic = "state"
      /\ \A m \in ToSet(topics') : m.topic = "state"
  BY <1>1 DEF Flow, Threads, Heard, Hears, Topics
<1>4. CASE mode
  <2>1. /\ main'.at = "mode sent" /\ main'.told = main.told /\ py'.done = py.done /\ UNCHANGED mavros
        /\ \A m \in ToSet(topics') : m.value = mavros.mode
    BY <1>1, <1>4, AskModeFlow DEF AsksFor, Same
  <2> QED BY <1>1, <1>2, <2>1
<1>5. CASE ModeSent
  <2>1. UNCHANGED <<py, topics, mavros>> /\ main'.at # "start" /\ (main'.told = "done" => main.told = "done")
    BY <1>5, ModeSentFlow DEF Ends, RestsAt, Same
  <2> QED BY <1>1, <1>2, <2>1
<1>6. CASE Woken \/ TimesOut
  <2>1. /\ UNCHANGED <<py, topics, mavros>> /\ main'.at # "start"
        /\ (py.done /\ main'.told = "done") \/ main'.told = "timed out"
    BY <1>6, WaitFlow DEF Ends, Same
  <2> QED BY <1>1, <1>2, <2>1
<1>7. CASE Close
  <2>1. main'.at = "ended" /\ main'.told = main.told /\ UNCHANGED <<py, mavros, topics>>
    BY <1>7, CloseFlow
  <2> QED BY <1>1, <1>2, <2>1
<1>8. CASE TakeAnswer
  <2>1. UNCHANGED <<main, py, mavros, topics>>
    BY <1>8, TakeFlow
  <2> QED BY <1>1, <1>2, <2>1
<1>9. CASE Callback
  <2>1. /\ Head(topics).topic = "state" /\ Head(topics) \in ToSet(topics)
        /\ Head(topics).topic = py.topic
    BY <1>3, <1>9, Taken, MessageHere DEF Flow, Heard, Callback
  <2>2. /\ UNCHANGED <<main, mavros>> /\ ToSet(topics') \subseteq ToSet(topics)
        /\ py'.done = (py.done \/ (task.command = "wait_fcu" /\ Head(topics).value # "off")
                       \/ (task.command = "mode" /\ Head(topics).value = task.mode))
    BY <1>9, <2>1, NotedFlow DEF Heeds
  <2>3. main.at # "start"
    BY <2>1 DEF Flow, Heard, Unheard
  <2>4. py'.done => Reached
    BY <1>1, <1>2, <2>1, <2>2
  <2> QED BY <1>1, <1>2, <2>2, <2>3, <2>4
<1>10. CASE Reports
  <2>1. /\ UNCHANGED <<main, py>>
        /\ \/ mavros'.mode = mavros.mode /\ (Told("fix", {0}) \/ \E from : Told("source", {from}))
           \/ task.command = "mode" => mavros'.mode = task.mode
    BY <1>10, ReportsFlow DEF Apart
  <2>2. CASE mavros'.mode = mavros.mode /\ (Told("fix", {0}) \/ \E from : Told("source", {from}))
    <3>1. ToSet(topics') \subseteq ToSet(topics)
      BY <1>3, <2>2 DEF Told
    <3> QED BY <1>1, <1>2, <2>1, <2>2, <3>1
  <2>3. CASE mavros'.mode = task.mode
    BY <1>1, <1>2, <2>1, <2>3
  <2> QED BY <1>1, <2>1, <2>2, <2>3
<1>11. CASE Others
  <2>1. /\ UNCHANGED <<main, py>> /\ mavros'.mode = mavros.mode
        /\ \E topic \in {"event", "points"} : \E list : Told(topic, list)
    BY <1>11, OthersFlow DEF Apart
  <2>2. ToSet(topics') \subseteq ToSet(topics)
    BY <1>3, <2>1 DEF Told
  <2> QED BY <1>1, <1>2, <2>1, <2>2
<1>12. CASE Serve
  <2> DEFINE r == Head(requests)
  <2>1. /\ UNCHANGED <<main, py>>
        /\ Succeeded(r) \/ Failed(r) \/ Handled(r)
    BY <1>12, ServesOthers
  <2> HIDE DEF r
  <2>2. mavros'.mode = mavros.mode
    BY <2>1, Effects DEF Failed, Handled, Elsewhere
  <2>3. \/ Told("points", {mavros'.latched}) \/ UNCHANGED topics
        \/ \E heard : Told("event", heard)
    BY <2>1 DEF Succeeded, Failed, Handled
  <2>4. ToSet(topics') \subseteq ToSet(topics)
    BY <1>3, <2>3 DEF Told
  <2> QED BY <1>1, <1>2, <2>1, <2>2, <2>4
<1>13. CASE timer_cb
  BY <1>1, <1>13, TimerFlow
<1> HIDE DEF Goal
<1> QED BY <1>1, <1>4, <1>5, <1>6, <1>7, <1>8, <1>9, <1>10, <1>11, <1>12, <1>13,
     ModeSteps DEF ClientNext, Spinner

(* ----------------------------------- files ---------------------------------- *)
\* A page goes on where the one before ended, and only the end of the file has none.
LEMMA Pages ==
    ASSUME ClientAssumption, NEW bytes \in Seq(Nat), NEW offset \in 0 .. Len(bytes)
    PROVE  /\ Len(Page(bytes, offset)) \in Nat /\ offset + Len(Page(bytes, offset)) \in 0 .. Len(bytes)
           /\ Page(bytes, offset) = SubSeq(bytes, offset + 1, offset + Len(Page(bytes, offset)))
           /\ Page(bytes, offset) = <<>> => offset = Len(bytes)
<1> DEFINE end == IF offset + PageSize > Len(bytes) THEN Len(bytes) ELSE offset + PageSize
<1>1. PageSize \in Nat /\ PageSize # 0 /\ Len(bytes) \in Nat
  BY DEF ClientAssumption
<1>2. /\ end \in Nat /\ offset <= end /\ end <= Len(bytes) /\ (end = offset => offset = Len(bytes))
      /\ offset \in Nat
  BY <1>1
<1>3. Page(bytes, offset) = SubSeq(bytes, offset + 1, end)
  BY DEF Page
<1> HIDE DEF end
<1>4. \A i \in offset + 1 .. end : bytes[i] \in Nat
  BY <1>2
<1>5. Len(SubSeq(bytes, offset + 1, end)) = IF offset + 1 <= end THEN end - (offset + 1) + 1 ELSE 0
  <2>1. offset + 1 \in Int /\ end \in Int
    BY <1>2
  <2> QED BY <1>4, <2>1, SubSeqProperties
<1>6. Len(Page(bytes, offset)) = end - offset
  BY <1>2, <1>3, <1>5
<1>7. Page(bytes, offset) = <<>> => end = offset
  <2>1. Len(<<>>) = 0
    OBVIOUS
  <2> QED BY <1>2, <1>6, <2>1
<1>8. offset + Len(Page(bytes, offset)) = end
  BY <1>2, <1>6
<1>9. Page(bytes, offset) = SubSeq(bytes, offset + 1, offset + Len(Page(bytes, offset)))
  BY <1>3, <1>8, Zenon
<1>10. Len(Page(bytes, offset)) \in Nat /\ offset + Len(Page(bytes, offset)) \in 0 .. Len(bytes)
  <2>1. end - offset \in Nat /\ end \in 0 .. Len(bytes)
    BY <1>1, <1>2
  <2> QED BY <1>6, <1>8, <2>1
<1> QED BY <1>2, <1>7, <1>9, <1>10

\* Every set of naturals that is not empty has a least element.
LEMMA Least ==
    ASSUME NEW S \in SUBSET Nat, S # {}
    PROVE  \E m \in S : \A x \in S : m <= x
<1> DEFINE R == OpToRel(<, Nat)
<1>1. IsWellFoundedOn(R, Nat)
  BY NatLessThanWellFounded
<1>2. PICK m \in S : \A y \in S : ~(<<y, m>> \in R)
  <2> HIDE DEF R
  <2> QED BY <1>1, WFMin
<1>3. ASSUME NEW y \in S PROVE m <= y
  <2>1. ~(y < m)
    BY <1>2 DEF OpToRel
  <2> QED BY <2>1
<1> QED BY <1>3

\* Induction up to n; S has those of the numbers for which it holds.
LEMMA UpTo ==
    ASSUME NEW n \in Nat, NEW S, 0 \in S, \A k \in 1 .. n : k - 1 \in S => k \in S
    PROVE  0 .. n \subseteq S
<1> SUFFICES ASSUME (0 .. n) \ S # {} PROVE FALSE
  OBVIOUS
<1>1. (0 .. n) \ S \in SUBSET Nat
  OBVIOUS
<1>2. PICK k \in (0 .. n) \ S : \A m \in (0 .. n) \ S : k <= m
  BY <1>1, Least
<1>3. k \in 1 .. n /\ k - 1 \in 0 .. n /\ ~(k <= k - 1)
  BY <1>2
<1> QED BY <1>2, <1>3

\* The values the checksum goes through.
Sums(f, bytes, crc) ==
    /\ f[0] = crc
    /\ \A i \in 1 .. Len(bytes) : f[i] = Step(f[i - 1], bytes[i])
LEMMA CrcSums ==
    ASSUME NEW bytes, NEW crc, NEW n \in Nat, Len(bytes) = n
    PROVE  \E f : Sums(f, bytes, crc) /\ nuttx_crc32(bytes, crc) = f[n]
<1> DEFINE Def(f, k) == f = [i \in 0 .. k |-> IF i = 0 THEN crc ELSE Step(f[i - 1], bytes[i])]
           S == {k \in 0 .. n : \E f : Def(f, k)}
           upto == CHOOSE f : Def(f, n)
<1>1. 0 \in S
  <2> DEFINE f == [i \in 0 .. 0 |-> crc]
  <2>1. Def(f, 0)
    OBVIOUS
  <2>2. \E g : Def(g, 0)
    BY <2>1
  <2> QED BY <2>2
<1>2. ASSUME NEW k \in 1 .. n, k - 1 \in S PROVE k \in S
  <2>1. PICK f : Def(f, k - 1)
    BY <1>2
  <2> DEFINE g == [i \in 0 .. k |-> IF i = k THEN Step(f[k - 1], bytes[k]) ELSE f[i]]
  <2>2. \A i \in 0 .. k : g[i] = IF i = 0 THEN crc ELSE Step(g[i - 1], bytes[i])
    <3>1. TAKE i \in 0 .. k
    <3>2. CASE i = k
      <4>1. g[i - 1] = f[k - 1] /\ g[i] = Step(f[k - 1], bytes[k]) /\ i # 0
        BY <3>2
      <4> HIDE DEF g
      <4> QED BY <3>2, <4>1
    <3>3. CASE i # k
      <4>1. i \in 0 .. k - 1
        BY <3>3
      <4>2. f[i] = IF i = 0 THEN crc ELSE Step(f[i - 1], bytes[i])
        BY <2>1, <4>1
      <4>3. g[i] = f[i] /\ (i # 0 => g[i - 1] = f[i - 1])
        BY <3>3
      <4> HIDE DEF g
      <4> QED BY <4>2, <4>3
    <3> QED BY <3>2, <3>3
  <2>3. Def(g, k)
    <3>1. g = [i \in 0 .. k |-> g[i]]
      OBVIOUS
    <3> HIDE DEF g
    <3> QED BY <2>2, <3>1
  <2>4. \E h : Def(h, k)
    <3> HIDE DEF g, Def
    <3> QED BY <2>3
  <2> HIDE DEF Def
  <2> QED BY <2>4
<1>3. n \in S
  <2> HIDE DEF S
  <2>1. 0 .. n \subseteq S
    BY <1>1, <1>2, UpTo
  <2> QED BY <2>1
<1>4. Def(upto, n)
  <2>1. \E f : Def(f, n)
    <3> HIDE DEF Def
    <3> QED BY <1>3
  <2> HIDE DEF Def
  <2> QED BY <2>1
<1>5. nuttx_crc32(bytes, crc) = upto[n]
  BY DEF nuttx_crc32
<1> HIDE DEF upto
<1>6. Sums(upto, bytes, crc)
  <2>1. upto[0] = crc
    BY <1>4
  <2>2. ASSUME NEW i \in 1 .. Len(bytes) PROVE upto[i] = Step(upto[i - 1], bytes[i])
    <3>1. i \in 0 .. n /\ i # 0
      OBVIOUS
    <3> QED BY <1>4, <3>1
  <2> QED BY <2>1, <2>2 DEF Sums
<1> QED BY <1>5, <1>6

LEMMA Part ==
    ASSUME NEW bytes \in Seq(Nat), NEW from \in Nat, NEW to \in 0 .. Len(bytes), from <= to
    PROVE  /\ SubSeq(bytes, from + 1, to) \in Seq(Nat)
           /\ Len(SubSeq(bytes, from + 1, to)) = to - from
           /\ DOMAIN SubSeq(bytes, from + 1, to) = 1 .. to - from
           /\ \A i \in 1 .. to - from : SubSeq(bytes, from + 1, to)[i] = bytes[from + i]
<1>1. \A i \in from + 1 .. to : bytes[i] \in Nat
  OBVIOUS
<1> DEFINE m == from + 1
<1>2. m \in Int /\ to \in Int /\ \A i \in m .. to : bytes[i] \in Nat
  BY <1>1
<1> HIDE DEF m
<1>3. /\ SubSeq(bytes, m, to) \in Seq(Nat)
      /\ Len(SubSeq(bytes, m, to)) = IF m <= to THEN to - m + 1 ELSE 0
      /\ \A i \in 1 .. to - m + 1 : SubSeq(bytes, m, to)[i] = bytes[m + i - 1]
  BY <1>2, SubSeqProperties
<1>4. Len(SubSeq(bytes, m, to)) = to - from /\ to - m + 1 = to - from
  BY <1>3 DEF m
<1>5. \A i \in 1 .. to - from : m + i - 1 = from + i
  BY DEF m
<1>6. DOMAIN SubSeq(bytes, m, to) = 1 .. to - from
  BY <1>3, <1>4
<1>7. \A i \in 1 .. to - from : SubSeq(bytes, m, to)[i] = bytes[from + i]
  BY <1>3, <1>4, <1>5
<1> QED BY <1>3, <1>4, <1>6, <1>7 DEF m

\* The checksum of a file goes on from page to page.
LEMMA GoesOn ==
    ASSUME NEW bytes \in Seq(Nat), NEW from \in Nat, NEW to \in 0 .. Len(bytes), from <= to
    PROVE  nuttx_crc32(SubSeq(bytes, 1, to), 0)
             = nuttx_crc32(SubSeq(bytes, from + 1, to), nuttx_crc32(SubSeq(bytes, 1, from), 0))
<1> DEFINE whole == SubSeq(bytes, 1, to)
           front == SubSeq(bytes, 1, from)
           page == SubSeq(bytes, from + 1, to)
<1>0. to \in Nat /\ to - from \in Nat /\ from \in 0 .. Len(bytes) /\ Len(bytes) \in Nat
  OBVIOUS
<1>1. /\ Len(whole) = to /\ \A i \in 1 .. to : whole[i] = bytes[i]
      /\ Len(front) = from /\ \A i \in 1 .. from : front[i] = bytes[i]
      /\ Len(page) = to - from /\ \A i \in 1 .. to - from : page[i] = bytes[from + i]
  <2>1. 0 \in Nat /\ 0 <= to /\ 0 <= from /\ 0 + 1 = 1
    BY <1>0
  <2>2. Len(whole) = to - 0 /\ \A i \in 1 .. to - 0 : whole[i] = bytes[0 + i]
    BY <2>1, Part
  <2>3. Len(front) = from - 0 /\ \A i \in 1 .. from - 0 : front[i] = bytes[0 + i]
    BY <1>0, <2>1, Part
  <2>4. to - 0 = to /\ from - 0 = from /\ \A i \in Nat : 0 + i = i
    BY <1>0
  <2>5. Len(page) = to - from /\ \A i \in 1 .. to - from : page[i] = bytes[from + i]
    BY Part
  <2> HIDE DEF whole, front, page
  <2> QED BY <1>0, <2>2, <2>3, <2>4, <2>5
<1> HIDE DEF whole, front, page
<1>2. PICK f : Sums(f, whole, 0) /\ nuttx_crc32(whole, 0) = f[to]
  <2>1. Len(whole) = to /\ to \in Nat
    BY <1>0, <1>1
  <2> QED BY <2>1, CrcSums
<1>3. PICK g : Sums(g, front, 0) /\ nuttx_crc32(front, 0) = g[from]
  <2>1. Len(front) = from /\ from \in Nat
    BY <1>0, <1>1
  <2> QED BY <2>1, CrcSums
<1>4. PICK h : Sums(h, page, g[from]) /\ nuttx_crc32(page, g[from]) = h[to - from]
  <2> DEFINE crc == g[from]
             n == to - from
  <2>1. Len(page) = n /\ n \in Nat
    BY <1>0, <1>1
  <2> HIDE DEF crc, n
  <2>2. \E h : Sums(h, page, crc) /\ nuttx_crc32(page, crc) = h[n]
    BY <2>1, CrcSums
  <2> QED BY <2>2 DEF crc, n
<1>5. f[from] = g[from]
  <2> DEFINE S == {k \in 0 .. from : f[k] = g[k]}
  <2>1. 0 \in S
    BY <1>2, <1>3 DEF Sums
  <2>2. ASSUME NEW k \in 1 .. from, k - 1 \in S PROVE k \in S
    <3>1. k \in 1 .. to /\ f[k - 1] = g[k - 1]
      BY <1>0, <2>2
    <3>2. f[k] = Step(f[k - 1], bytes[k]) /\ g[k] = Step(g[k - 1], bytes[k])
      BY <1>1, <1>2, <1>3, <3>1 DEF Sums
    <3> QED BY <3>1, <3>2
  <2> HIDE DEF S
  <2>3. from \in S
    <3>1. 0 .. from \subseteq S
      BY <2>1, <2>2, UpTo
    <3> QED BY <3>1
  <2> QED BY <2>3 DEF S
<1>6. f[to] = h[to - from]
  <2> DEFINE S == {k \in 0 .. to - from : f[from + k] = h[k]}
  <2>1. 0 \in S
    <3>1. f[from + 0] = h[0]
      BY <1>4, <1>5 DEF Sums
    <3> QED BY <1>0, <3>1
  <2>2. ASSUME NEW k \in 1 .. to - from, k - 1 \in S PROVE k \in S
    <3>1. /\ from + k \in 1 .. to /\ f[from + (k - 1)] = h[k - 1] /\ from + (k - 1) = from + k - 1
          /\ k \in 0 .. to - from
      BY <1>0, <2>2
    <3> DEFINE i == from + k
    <3>2. f[from + k] = Step(f[from + k - 1], bytes[from + k])
      <4>1. i \in 1 .. to
        BY <3>1
      <4> HIDE DEF i
      <4>2. f[i] = Step(f[i - 1], bytes[i])
        BY <1>1, <1>2, <4>1 DEF Sums
      <4> QED BY <4>2 DEF i
    <3>3. h[k] = Step(h[k - 1], bytes[from + k])
      BY <1>1, <1>4 DEF Sums
    <3> QED BY <3>1, <3>2, <3>3
  <2>3. to - from \in S
    <3> HIDE DEF S
    <3>1. 0 .. to - from \subseteq S
      BY <1>0, <2>1, <2>2, UpTo
    <3> QED BY <1>0, <3>1
  <2>4. from + (to - from) = to
    BY <1>0
  <2> QED BY <2>3, <2>4
<1> QED BY <1>2, <1>3, <1>4, <1>5, <1>6 DEF whole, front, page

LEMMA NoBytes ==
    ASSUME NEW bytes, NEW crc
    PROVE  nuttx_crc32(SubSeq(bytes, 1, 0), crc) = crc
<1>1. SubSeq(bytes, 1, 0) = <<>> /\ Len(<<>>) = 0
  BY SubSeqEmpty
<1>2. PICK f : Sums(f, <<>>, crc) /\ nuttx_crc32(<<>>, crc) = f[0]
  BY <1>1, CrcSums
<1> QED BY <1>1, <1>2 DEF Sums

LEMMA OfLength ==
    ASSUME NEW s, NEW n \in Nat, s = [i \in 1 .. n |-> s[i]]
    PROVE  Sequential(s) /\ Len(s) = n
<1>1. \A i \in 1 .. n : s[i] \in ToSet(s)
  BY DEF ToSet
<1> QED BY <1>1, IsASeq DEF Sequential

\* A file is written on from where the local one was held.
LEMMA Further ==
    ASSUME NEW bytes \in Seq(Nat), NEW from \in Nat, NEW to \in 0 .. Len(bytes), from <= to,
           NEW held, Sequential(held), from <= Len(held),
           \A i \in 1 .. from : held[i] = bytes[i],
           NEW after, after = Spliced(held, from, SubSeq(bytes, from + 1, to))
    PROVE  /\ Sequential(after) /\ to <= Len(after)
           /\ \A i \in 1 .. to : after[i] = bytes[i]
           /\ Len(held) = from => Len(after) = to
<1> DEFINE page == SubSeq(bytes, from + 1, to)
           most == IF from + Len(page) > Len(held) THEN from + Len(page) ELSE Len(held)
<1>1. /\ Len(page) = to - from /\ DOMAIN page = 1 .. to - from
      /\ \A i \in 1 .. to - from : page[i] = bytes[from + i]
  BY Part
<1>2. Len(held) \in Nat /\ DOMAIN held = 1 .. Len(held) /\ to \in Nat /\ to - from \in Nat
  BY DEF Sequential
<1>3. /\ after = [i \in 1 .. most |-> IF i - from \in DOMAIN page THEN page[i - from] ELSE held[i]]
      /\ from + Len(page) = to
  BY <1>1, <1>2 DEF Spliced
<1> HIDE DEF page, most
<1>4. most \in Nat /\ to <= most /\ (Len(held) = from => most = to)
  <2> DEFINE n == Len(held)
  <2>1. most = (IF to > n THEN to ELSE n) /\ n \in Nat /\ from <= n /\ to \in Nat
    BY <1>2, <1>3 DEF most
  <2> HIDE DEF n
  <2>2. most \in Nat /\ to <= most /\ (n = from => most = to)
    BY <2>1
  <2> QED BY <2>2 DEF n
<1>5. Len(after) = most /\ Sequential(after)
  <2>1. after = [i \in 1 .. most |-> after[i]]
    BY <1>3
  <2> QED BY <1>4, <2>1, OfLength
<1>6. ASSUME NEW i \in 1 .. to PROVE after[i] = bytes[i]
  <2>1. i \in 1 .. most
    BY <1>2, <1>4
  <2>2. CASE i <= from
    <3>1. i - from \notin DOMAIN page /\ i \in 1 .. from
      BY <1>1, <1>2, <2>2
    <3> QED BY <1>3, <2>1, <3>1
  <2>3. CASE from < i
    <3>1. i - from \in 1 .. to - from /\ from + (i - from) = i
      BY <1>2, <2>3
    <3> QED BY <1>1, <1>3, <2>1, <3>1
  <2> QED BY <1>2, <2>2, <2>3
<1> QED BY <1>4, <1>5, <1>6

LEMMA FileSteps ==
    ASSUME Flow, Main, task.command \in {"upload", "verify"}
    PROVE  /\ task.command = "upload" => upload \/ Opened \/ Written \/ ClosedFile \/ Verified \/ Close
           /\ task.command = "verify" => verify \/ Verified \/ Close
BY CommandOf DEF Main

\* What the calls of an upload and of a check are.
LEMMA FileCalls ==
    ASSUME Flow, task.command \in {"upload", "verify"}, NEW r \in ToSet(requests)
    PROVE  /\ r \notin Mine => r.service \in {"set", "takeoff"}
           /\ r \in Mine =>
                <<main.at, r.service>> \in {<<"opened", "open">>, <<"written", "write">>,
                                            <<"closed", "close">>, <<"checksum", "checksum">>}
BY ServiceAt DEF AskedBy, Way

LEMMA StillHolds ==
    ASSUME UNCHANGED task, mavros'.remote = mavros.remote
    PROVE  /\ \A n : Holds(n)' <=> Holds(n)
           /\ SameChecksum' <=> SameChecksum
BY DEF Holds, SameChecksum, Sequential

LEMMA FileKept ==
    ASSUME ClientAssumption, Flow, FileFlow, ClientNext
    PROVE  FileFlow'
<1> DEFINE Length == Len(task.bytes)
           Writing == \A r \in Mine :
                         /\ r.arg.offset \in 0 .. py.offset
                         /\ r.arg.bytes = SubSeq(task.bytes, r.arg.offset + 1, py.offset)
                         /\ Holds(r.arg.offset)
           Goal ==
             /\ Sequential(mavros.remote) /\ py.offset \in 0 .. Length
             /\ main.at # "start" => py.file = task.bytes
             /\ main.at \in {"start", "opened"} => py.offset = 0 /\ py.crc = 0
             /\ main.at \in {"start", "opened", "written"} => ~py.raised
             /\ main.at = "opened" =>
                  /\ \A r \in Mine : r.arg = IF task.overwrite THEN "w" ELSE "cw"
                  /\ Answers # {} /\ "failed" \notin Answers => Holds(0)
             /\ main.at = "written" =>
                  /\ Writing
                  /\ Answers # {} /\ "failed" \notin Answers => Holds(py.offset)
             /\ main.at = "closed" /\ ~py.raised => py.offset = Length
             /\ (main.at = "closed" /\ ~py.raised) \/ main.at = "checksum" \/ main.told = "done" =>
                  Holds(Length)
<1> SUFFICES ASSUME task'.command = "upload" PROVE Goal'
  BY DEF FileFlow
<1>1. Flow' /\ UNCHANGED task /\ task.command = "upload"
  BY FlowKept
<1>2. Goal
  BY <1>1 DEF FileFlow
<1>3. /\ Calls /\ (main.told = "done" => main.at \in {"closing", "ended"})
      /\ main'.told = "done" => main'.at \in {"closing", "ended"}
      /\ task.bytes \in Seq(Nat) /\ Len(task.bytes) \in Nat
  BY <1>1 DEF Flow, Threads, TaskAssumption
<1>4. mavros'.remote = mavros.remote => \A n : Holds(n)' <=> Holds(n)
  BY <1>1, StillHolds
<1>5. CASE upload
  <2>1. /\ main.at = "start" /\ main'.at = "opened" /\ main'.told = main.told /\ Answers' = {}
        /\ Mine' = {[by |-> "main", service |-> "open", arg |-> IF task.overwrite THEN "w" ELSE "cw"]}
        /\ py'.file = task.bytes /\ py'.offset = py.offset /\ py'.raised = py.raised
        /\ py'.crc = py.crc /\ UNCHANGED mavros
    BY <1>5, UploadFlow DEF AsksFor, Same
  <2>2. \A r \in Mine' : r.arg = IF task.overwrite THEN "w" ELSE "cw"
    BY <2>1
  <2> QED BY <1>1, <1>2, <1>3, <2>1, <2>2
\* The next page, or the file has been written.
<1>6. ASSUME main.at \in {"opened", "written"}, Answered(main.at), answer[1] # "failed", NextPage
      PROVE  Goal'
  <2> DEFINE page == Page(py.file, py.offset)
  <2>1. Free /\ Begun
    BY <1>6 DEF Free, Begun, Asking
  <2>2. /\ UNCHANGED mavros /\ py'.file = py.file /\ py'.raised = py.raised
        /\ \/ page = <<>> /\ AsksFor("closed", "close", 0) /\ py'.offset = py.offset
           \/ /\ page # <<>> /\ AsksFor("written", "write", [offset |-> py.offset, bytes |-> page])
              /\ py'.offset = py.offset + Len(page)
    BY <1>1, <1>6, <2>1, NextPageFlow DEF Same
  <2>3. /\ py.file = task.bytes /\ ~py.raised /\ py.offset \in 0 .. Len(task.bytes)
        /\ py.offset \in Nat /\ Sequential(mavros.remote)
    BY <1>2, <1>3, <1>6
  <2>4. Holds(py.offset)
    <3>1. Answers = {answer[1]}
      BY <1>3, <1>6, TheAnswer DEF Asking
    <3> QED BY <1>2, <1>6, <3>1
  <2>5. /\ Len(page) \in Nat /\ py.offset + Len(page) \in 0 .. Len(task.bytes)
        /\ page = SubSeq(task.bytes, py.offset + 1, py.offset + Len(page))
        /\ page = <<>> => py.offset = Len(task.bytes)
    BY <1>3, <2>3, Pages
  <2> HIDE DEF page
  <2>6. CASE page = <<>> /\ AsksFor("closed", "close", 0) /\ py'.offset = py.offset
    <3>1. py.offset = Length /\ Holds(Length)
      BY <2>4, <2>5, <2>6
    <3>2. main'.at = "closed" /\ main'.told = main.told
      BY <2>6 DEF AsksFor
    <3> QED BY <1>1, <1>3, <1>4, <2>2, <2>3, <2>6, <3>1, <3>2
  <2>7. CASE /\ page # <<>> /\ AsksFor("written", "write", [offset |-> py.offset, bytes |-> page])
             /\ py'.offset = py.offset + Len(page)
    <3>1. /\ main'.at = "written" /\ main'.told = main.told /\ Answers' = {}
          /\ \A r \in Mine' : r.arg.offset = py.offset /\ r.arg.bytes = page
      BY <2>7 DEF AsksFor
    <3>2. /\ py.offset \in 0 .. py'.offset /\ py'.offset \in 0 .. Len(task.bytes)
          /\ page = SubSeq(task.bytes, py.offset + 1, py'.offset)
      BY <2>3, <2>5, <2>7
    <3>3. Writing'
      BY <1>1, <1>4, <2>2, <2>4, <3>1, <3>2
    <3> HIDE DEF Writing
    <3> QED BY <1>1, <1>3, <2>2, <2>3, <3>1, <3>2, <3>3
  <2> QED BY <2>2, <2>6, <2>7
<1>7. CASE Opened
  <2>1. CASE answer[1] = "failed" /\ Ends("raised") /\ UNCHANGED py
    <3>1. /\ main.at = "opened" /\ main'.at = "closing" /\ main'.told = "raised" /\ UNCHANGED mavros
      BY <1>7, <2>1, OpenedFlow DEF Ends, Same
    <3> QED BY <1>1, <1>2, <2>1, <3>1
  <2>2. CASE answer[1] # "failed" /\ NextPage
    BY <1>6, <1>7, <2>2, OpenedFlow
  <2> QED BY <1>7, <2>1, <2>2, OpenedFlow
<1>8. CASE Written
  <2>1. CASE /\ answer[1] = "failed" /\ AsksFor("closed", "close", 0)
             /\ py'.raised = TRUE /\ py'.file = py.file /\ py'.offset = py.offset
    <3>1. /\ main.at = "written" /\ main'.at = "closed" /\ main'.told = main.told /\ UNCHANGED mavros
      BY <1>8, <2>1, WrittenFlow DEF AsksFor, Same
    <3> QED BY <1>1, <1>2, <1>3, <2>1, <3>1
  <2>2. CASE answer[1] # "failed" /\ NextPage
    BY <1>6, <1>8, <2>2, WrittenFlow
  <2> QED BY <1>8, <2>1, <2>2, WrittenFlow
<1>9. CASE ClosedFile
  <2>1. /\ main.at = "closed" /\ UNCHANGED <<py, mavros>>
        /\ \/ main'.at = "closing" /\ main'.told = "raised"
           \/ ~py.raised /\ main'.at = "closing" /\ main'.told = "done"
           \/ ~py.raised /\ main'.at = "checksum" /\ main'.told = main.told
    BY <1>9, ClosedFlow DEF Ends, AsksFor, Same
  <2> QED BY <1>1, <1>2, <1>4, <2>1
<1>10. CASE Verified
  <2>1. main.at = "checksum" /\ UNCHANGED <<py, mavros>> /\ main'.at = "closing"
    BY <1>10, VerifiedFlow DEF Ends, Same
  <2> QED BY <1>1, <1>2, <1>4, <2>1
<1>11. CASE Close
  <2>1. main'.at = "ended" /\ main.at = "closing" /\ main'.told = main.told /\ UNCHANGED <<py, mavros>>
    BY <1>11, CloseFlow
  <2> QED BY <1>1, <1>2, <1>4, <2>1
\* What leaves the thread, its call and the remote file as they are.
<1>12. ASSUME UNCHANGED <<main, py>>, mavros'.remote = mavros.remote, Mine' = Mine, Answers' = Answers
       PROVE  Goal'
  <2>1. Writing' <=> Writing
    BY <1>1, <1>4, <1>12
  <2> HIDE DEF Writing
  <2> QED BY <1>1, <1>2, <1>4, <1>12, <2>1
<1>13. CASE TakeAnswer
  BY <1>12, <1>13, TakeFlow
<1>14. CASE Reports \/ Others
  BY <1>12, <1>14, ReportsFlow, OthersFlow DEF Apart
<1>15. CASE Serve
  <2> DEFINE r == Head(requests)
  <2>1. /\ UNCHANGED <<main, py>>
        /\ Succeeded(r) \/ Failed(r) \/ Handled(r)
    BY <1>15, ServesOthers
  <2>2. r \in ToSet(requests)
    BY <2>1 DEF Succeeded, Failed, Handled, AnswersWith
  <2>3. /\ r \notin Mine => r.service \in {"set", "takeoff"}
        /\ r \in Mine => <<main.at, r.service>> \in {<<"opened", "open">>, <<"written", "write">>,
                                                     <<"closed", "close">>, <<"checksum", "checksum">>}
    BY <1>1, <2>2, FileCalls
  <2>4. \A a : AnswersWith(a) => \/ r \in Mine /\ Mine' = {} /\ Answers' = {a} /\ Mine # {}
                                 \/ r \notin Mine /\ Mine' = Mine /\ Answers' = Answers
    BY DEF AnswersWith
  <2> HIDE DEF r
  <2>5. ASSUME r \in Mine, Mine' = {}, mavros'.remote = mavros.remote,
               main.at \in {"opened", "written"} => Answers' = {"failed"}
        PROVE  Goal'
    BY <1>1, <1>2, <1>4, <2>1, <2>5
  <2>6. CASE Succeeded(r)
    <3>1. /\ r.service \notin {"open", "write"} => mavros'.remote = mavros.remote
          /\ r.service = "open" => mavros'.remote = (IF r.arg = "cw" THEN <<>> ELSE mavros.remote)
          /\ r.service = "write" => mavros'.remote = Spliced(mavros.remote, r.arg.offset, r.arg.bytes)
          /\ AnswersWith(Effect(r.service, r.arg)[2])
      BY <2>6, Effects
    <3>2. CASE r \notin Mine
      <4>1. Mine' = Mine /\ Answers' = Answers /\ mavros'.remote = mavros.remote
        BY <2>3, <2>4, <3>1, <3>2
      <4> QED BY <1>12, <2>1, <4>1
    <3>3. CASE r \in Mine /\ r.service = "open"
      <4>1. /\ main.at = "opened" /\ Mine' = {}
            /\ mavros'.remote = (IF r.arg = "cw" THEN <<>> ELSE mavros.remote)
        BY <2>3, <2>4, <3>1, <3>3
      <4>2. (r.arg = IF task.overwrite THEN "w" ELSE "cw") /\ Sequential(mavros.remote)
        BY <1>2, <3>3, <4>1
      <4>3. Sequential(mavros'.remote) /\ (~task.overwrite => mavros'.remote = <<>>)
        <5>1. Sequential(<<>>) /\ "w" # "cw"
          BY DEF Sequential
        <5> QED BY <4>1, <4>2, <5>1
      <4>4. Holds(0)'
        <5>1. Len(mavros'.remote) \in Nat /\ (~task.overwrite => Len(mavros'.remote) = 0)
          BY <4>3 DEF Sequential
        <5> QED BY <1>1, <4>3, <5>1 DEF Holds
      <4> QED BY <1>1, <1>2, <1>3, <2>1, <4>1, <4>3, <4>4
    <3>4. CASE r \in Mine /\ r.service = "write"
      <4>1. /\ main.at = "written" /\ Mine' = {}
            /\ mavros'.remote = Spliced(mavros.remote, r.arg.offset, r.arg.bytes)
        BY <2>3, <2>4, <3>1, <3>4
      <4> DEFINE from == r.arg.offset
                 to == py.offset
                 held == mavros.remote
                 bytes == task.bytes
                 after == mavros'.remote
      <4>2. /\ from \in 0 .. to /\ r.arg.bytes = SubSeq(bytes, from + 1, to) /\ Holds(from)
            /\ to \in 0 .. Len(bytes) /\ bytes \in Seq(Nat)
        BY <1>2, <1>3, <3>4, <4>1
      <4>3. /\ Sequential(held) /\ from <= Len(held) /\ \A i \in 1 .. from : held[i] = bytes[i]
            /\ ~task.overwrite => Len(held) = from
        BY <4>2 DEF Holds
      <4>4. after = Spliced(held, from, SubSeq(bytes, from + 1, to)) /\ from \in Nat /\ from <= to
        BY <4>1, <4>2
      <4> HIDE DEF from, to, held, bytes, after
      <4>5. /\ Sequential(after) /\ to <= Len(after) /\ \A i \in 1 .. to : after[i] = bytes[i]
            /\ Len(held) = from => Len(after) = to
        BY <4>2, <4>3, <4>4, Further
      <4>6. Holds(py.offset)' /\ Sequential(mavros'.remote)
        BY <1>1, <2>1, <4>3, <4>5 DEF Holds, to, bytes, after
      <4> QED BY <1>1, <1>2, <1>3, <2>1, <4>1, <4>6
    <3>5. CASE r \in Mine /\ r.service \notin {"open", "write"}
      <4>1. /\ main.at \notin {"opened", "written"} /\ Mine' = {}
            /\ mavros'.remote = mavros.remote
        BY <2>3, <2>4, <3>1, <3>5
      <4> QED BY <2>5, <3>5, <4>1
    <3> QED BY <3>2, <3>3, <3>4, <3>5
  <2>7. CASE Failed(r)
    <3>1. UNCHANGED mavros /\ AnswersWith(IF r.service = "checksum" THEN NoChecksum ELSE "failed")
      BY <2>7 DEF Failed
    <3>2. CASE r \in Mine
      <4>1. Mine' = {} /\ (main.at \in {"opened", "written"} => Answers' = {"failed"})
        BY <2>3, <2>4, <3>1, <3>2
      <4> QED BY <2>5, <3>1, <3>2, <4>1
    <3>3. CASE r \notin Mine
      BY <1>12, <2>1, <2>4, <3>1, <3>3
    <3> QED BY <3>2, <3>3
  <2>8. CASE Handled(r)
    <3>1. mavros'.remote = mavros.remote /\ Mine' = Mine /\ Answers' = Answers
      BY <2>3, <2>4, <2>8 DEF Handled, Elsewhere
    <3> QED BY <1>12, <2>1, <3>1
  <2> QED BY <2>1, <2>6, <2>7, <2>8
<1>16. CASE Callback \/ timer_cb
  BY <1>1, <1>16, Deaf, TimerFlow
<1> HIDE DEF Goal
<1> QED BY <1>1, <1>5, <1>7, <1>8, <1>9, <1>10, <1>11, <1>13, <1>14, <1>15, <1>16,
     FileSteps DEF ClientNext, Spinner

\* The checksum of the pages, and what it is compared with.
LEMMA SumKept ==
    ASSUME ClientAssumption, Flow, FileFlow, SumFlow, ClientNext
    PROVE  SumFlow'
<1> DEFINE So == py.offset \in 0 .. Len(task.bytes) /\ py.crc = nuttx_crc32(SubSeq(task.bytes, 1, py.offset), 0)
           Goal ==
             /\ task.command = "upload" /\ main.at \in {"start", "opened", "written", "closed"} => So
             /\ main.at = "checksum" =>
                  /\ py.crc = nuttx_crc32(task.bytes, 0)
                  /\ \A a \in Answers : a = NoChecksum \/ a = nuttx_crc32(mavros.remote, 0)
             /\ main.told = "done" /\ (task.command = "upload" => task.verify) => SameChecksum
<1> SUFFICES ASSUME task'.command \in {"upload", "verify"} PROVE Goal'
  BY DEF SumFlow
<1>1. Flow' /\ UNCHANGED task /\ task.command \in {"upload", "verify"}
  BY FlowKept
<1>2. Goal
  BY <1>1 DEF SumFlow
<1>3. /\ Calls /\ (main.told = "done" => main.at \in {"closing", "ended"})
      /\ main'.told = "done" => main'.at \in {"closing", "ended"}
      /\ task.bytes \in Seq(Nat) /\ Len(task.bytes) \in Nat
  <2>1. Calls /\ (main.told = "done" => main.at \in {"closing", "ended"})
    BY DEF Flow, Threads
  <2>2. main'.told = "done" => main'.at \in {"closing", "ended"}
    BY <1>1 DEF Flow, Threads
  <2>3. task.bytes \in Seq(Nat)
    BY <1>1 DEF Flow, Threads, TaskAssumption
  <2> QED BY <2>1, <2>2, <2>3
<1>4. mavros'.remote = mavros.remote => (SameChecksum' <=> SameChecksum)
  BY <1>1, StillHolds
<1>5. CASE upload
  <2>1. /\ main.at = "start" /\ main'.at = "opened" /\ main'.told = main.told
        /\ py'.offset = py.offset /\ py'.crc = py.crc /\ UNCHANGED mavros
    BY <1>5, UploadFlow DEF AsksFor, Same
  <2> QED BY <1>1, <1>2, <1>3, <2>1
<1>6. ASSUME main.at \in {"opened", "written"}, Answered(main.at), NextPage, task.command = "upload"
      PROVE  Goal'
  <2> DEFINE page == Page(py.file, py.offset)
  <2>1. Free /\ Begun
    BY <1>6 DEF Free, Begun, Asking
  <2>2. /\ UNCHANGED mavros
        /\ \/ AsksFor("closed", "close", 0) /\ py'.offset = py.offset /\ py'.crc = py.crc
           \/ /\ AsksFor("written", "write", [offset |-> py.offset, bytes |-> page])
              /\ py'.offset = py.offset + Len(page) /\ py'.crc = nuttx_crc32(page, py.crc)
    BY <1>1, <1>6, <2>1, NextPageFlow DEF Same
  <2>3. /\ py.file = task.bytes /\ So /\ py.offset \in Nat
    BY <1>2, <1>3, <1>6 DEF FileFlow
  <2>4. /\ Len(page) \in Nat /\ py.offset + Len(page) \in 0 .. Len(task.bytes)
        /\ page = SubSeq(task.bytes, py.offset + 1, py.offset + Len(page))
    BY <1>3, <2>3, Pages
  <2> HIDE DEF page
  <2>5. CASE AsksFor("closed", "close", 0) /\ py'.offset = py.offset /\ py'.crc = py.crc
    <3>1. main'.at = "closed" /\ main'.told = main.told
      BY <2>5 DEF AsksFor
    <3> QED BY <1>1, <1>3, <1>6, <2>3, <2>5, <3>1
  <2>6. CASE /\ AsksFor("written", "write", [offset |-> py.offset, bytes |-> page])
             /\ py'.offset = py.offset + Len(page) /\ py'.crc = nuttx_crc32(page, py.crc)
    <3>1. main'.at = "written" /\ main'.told = main.told
      BY <2>6 DEF AsksFor
    <3> DEFINE from == py.offset
               to == py.offset + Len(page)
               bytes == task.bytes
    <3>2. from \in Nat /\ to \in 0 .. Len(bytes) /\ from <= to /\ bytes \in Seq(Nat)
      BY <1>3, <2>3, <2>4
    <3>3. page = SubSeq(bytes, from + 1, to) /\ py.crc = nuttx_crc32(SubSeq(bytes, 1, from), 0)
      BY <2>3, <2>4
    <3> HIDE DEF from, to, bytes
    <3>4. nuttx_crc32(page, py.crc) = nuttx_crc32(SubSeq(bytes, 1, to), 0)
      BY <3>2, <3>3, GoesOn
    <3>5. So'
      BY <1>1, <2>6, <3>2, <3>4 DEF to, bytes
    <3> HIDE DEF So
    <3> QED BY <1>3, <3>1, <3>5
  <2> QED BY <2>2, <2>5, <2>6
<1>7. CASE Opened
  <2>1. CASE Ends("raised") /\ UNCHANGED py
    <3>1. main'.at = "closing" /\ main'.told = "raised"
      BY <2>1 DEF Ends
    <3> QED BY <3>1
  <2> QED BY <1>6, <1>7, <2>1, OpenedFlow
<1>8. CASE Written
  <2>1. CASE AsksFor("closed", "close", 0) /\ py'.offset = py.offset /\ py'.crc = py.crc
    <3>1. main'.at = "closed" /\ main'.told = main.told /\ main.at = "written"
      BY <1>8, <2>1, WrittenFlow DEF AsksFor
    <3> QED BY <1>1, <1>2, <1>3, <2>1, <3>1
  <2> QED BY <1>6, <1>8, <2>1, WrittenFlow
<1>9. CASE ClosedFile
  <2>1. /\ main.at = "closed" /\ task.command = "upload" /\ UNCHANGED <<py, mavros>>
        /\ \/ main'.at = "closing" /\ main'.told = "raised"
           \/ ~task.verify /\ main'.at = "closing" /\ main'.told = "done"
           \/ ~py.raised /\ main'.at = "checksum" /\ main'.told = main.told /\ Answers' = {}
    BY <1>9, ClosedFlow DEF Ends, AsksFor, Same
  <2>2. ~py.raised => py.crc = nuttx_crc32(task.bytes, 0)
    <3>1. ~py.raised => py.offset = Len(task.bytes)
      BY <2>1 DEF FileFlow
    <3>2. SubSeq(task.bytes, 1, Len(task.bytes)) = task.bytes
      BY <1>3, SubSeqFull
    <3> QED BY <1>2, <2>1, <3>1, <3>2
  <2> QED BY <1>1, <1>3, <2>1, <2>2
<1>10. CASE verify
  <2>1. /\ main'.at = "checksum" /\ Answers' = {} /\ py'.crc = nuttx_crc32(task.bytes, 0)
    BY <1>10, AskSumFlow DEF AsksFor
  <2> QED BY <1>1, <1>3, <2>1
<1>11. CASE Verified
  <2>1. /\ main.at = "checksum" /\ Answered("checksum") /\ UNCHANGED mavros
        /\ main'.at = "closing" /\ main'.told = Verdict
    BY <1>11, VerifiedFlow DEF Ends, Same
  <2>2. answer[1] \in Answers
    BY <1>3, <2>1, TheAnswer DEF Asking
  <2>3. /\ answer[1] = NoChecksum \/ answer[1] = nuttx_crc32(mavros.remote, 0)
        /\ py.crc = nuttx_crc32(task.bytes, 0)
    BY <1>2, <2>1, <2>2
  <2>4. main'.told = "done" => answer[1] # NoChecksum /\ answer[1] = py.crc
    BY <2>1 DEF Verdict
  <2>5. main'.told = "done" => SameChecksum
    BY <2>3, <2>4 DEF SameChecksum
  <2> QED BY <1>4, <2>1, <2>5
<1>12. CASE Close
  <2>1. main'.at = "ended" /\ main'.told = main.told /\ UNCHANGED mavros
    BY <1>12, CloseFlow
  <2> QED BY <1>1, <1>2, <1>4, <2>1
<1>13. ASSUME UNCHANGED <<main, py>>, mavros'.remote = mavros.remote,
              main.at = "checksum" => \A a \in Answers' : \/ a \in Answers \/ a = NoChecksum
                                                          \/ a = nuttx_crc32(mavros.remote, 0)
       PROVE  Goal'
  BY <1>1, <1>2, <1>4, <1>13
<1>14. CASE TakeAnswer
  BY <1>13, <1>14, TakeFlow
<1>15. CASE Reports \/ Others
  BY <1>13, <1>15, ReportsFlow, OthersFlow DEF Apart
<1>16. CASE Serve
  <2> DEFINE r == Head(requests)
  <2>1. /\ UNCHANGED <<main, py>>
        /\ Succeeded(r) \/ Failed(r) \/ Handled(r)
    BY <1>16, ServesOthers
  <2>2. r \in ToSet(requests)
    BY <2>1 DEF Succeeded, Failed, Handled, AnswersWith
  <2>3. /\ r \notin Mine => r.service \in {"set", "takeoff"}
        /\ r \in Mine => <<main.at, r.service>> \in {<<"opened", "open">>, <<"written", "write">>,
                                                     <<"closed", "close">>, <<"checksum", "checksum">>}
    BY <1>1, <2>2, FileCalls
  <2>4. \A a : AnswersWith(a) => \/ r \in Mine /\ Answers' = {a}
                                 \/ r \notin Mine /\ Answers' = Answers
    BY DEF AnswersWith
  <2> HIDE DEF r
  \* A file that is being written has not been compared.
  <2>5. ASSUME main.at \in {"opened", "written"} PROVE Goal'
    BY <1>1, <1>2, <1>3, <2>1, <2>5
  <2>6. CASE main.at \notin {"opened", "written"}
    <3>1. CASE Succeeded(r)
      <4>1. mavros'.remote = mavros.remote /\ AnswersWith(Effect(r.service, r.arg)[2])
        BY <2>3, <2>6, <3>1, Effects
      <4>2. r.service = "checksum" => Effect(r.service, r.arg)[2] = nuttx_crc32(mavros.remote, 0)
        BY EffectRead
      <4>3. main.at = "checksum" =>
              Answers' = Answers \/ Answers' = {nuttx_crc32(mavros.remote, 0)}
        BY <2>3, <2>4, <4>1, <4>2
      <4> QED BY <1>13, <2>1, <4>1, <4>3
    <3>2. CASE Failed(r)
      <4>1. UNCHANGED mavros /\ AnswersWith(IF r.service = "checksum" THEN NoChecksum ELSE "failed")
        BY <3>2 DEF Failed
      <4>2. main.at = "checksum" => Answers' = Answers \/ Answers' = {NoChecksum}
        BY <2>3, <2>4, <4>1
      <4> QED BY <1>13, <2>1, <4>1, <4>2
    <3>3. CASE Handled(r)
      <4>1. mavros'.remote = mavros.remote /\ Answers' = Answers
        BY <2>3, <2>4, <3>3 DEF Handled, Elsewhere
      <4> QED BY <1>13, <2>1, <4>1
    <3> QED BY <2>1, <3>1, <3>2, <3>3
  <2> QED BY <2>5, <2>6
<1>17. CASE Callback \/ timer_cb
  BY <1>1, <1>17, Deaf, TimerFlow
<1> HIDE DEF Goal
<1> QED BY <1>1, <1>5, <1>7, <1>8, <1>9, <1>10, <1>11, <1>12, <1>14, <1>15, <1>16, <1>17,
     FileSteps DEF ClientNext, Spinner

(* -------------------------------- the theorem ------------------------------- *)
\* A process begins with nothing asked, answered, heard or told.
LEMMA Starts ==
    ASSUME ClientAssumption, ClientInit
    PROVE  IInv
<1>1. /\ task \in Tasks /\ main = [at |-> "start", told |-> "nothing"] /\ spin = "spins"
      /\ requests = <<>> /\ inbox = <<>> /\ answer = <<>> /\ topics = <<>>
      /\ py.dict = <<>> /\ py.topic = "none" /\ py.done = FALSE /\ py.raised = FALSE
      /\ py.offset = 0 /\ py.crc = 0
      /\ task.command = "wp load" => py.file = task.mission
      /\ IsPy(py)
  BY DEF ClientInit, IsPy
<1>2. /\ IsMavros(mavros) /\ mavros.params = Known /\ mavros.mission \in {<<>>, <<5, 6, 7>>}
      /\ mavros.latched = mavros.mission /\ mavros.before = mavros.mission
      /\ mavros.commands = 0 /\ mavros.remote \in Seq(Nat) /\ mavros.news = MaxNews
      /\ mavros.cached \subseteq DOMAIN Known
  <2> DEFINE files == IF task.command \in {"upload", "verify"} THEN Remotes ELSE {<<>>}
  <2>1. PICK cached \in SUBSET DOMAIN Known, mission \in {<<>>, <<5, 6, 7>>}, remote \in files :
          mavros = [params |-> Known, mission |-> mission,
                    latched |-> mission, mode |-> "off", flying |-> FALSE, commands |-> 0,
                    remote |-> remote, cached |-> cached, news |-> MaxNews, before |-> mission]
    BY Zenon DEF ClientInit
  <2>2. remote \in Seq(Nat)
    <3>1. <<>> \in Seq(Nat)
      OBVIOUS
    <3> QED BY <2>1, <3>1 DEF ClientAssumption
  <2>3. mission \in {<<>>, <<5, 6, 7>>} /\ cached \subseteq DOMAIN Known
    OBVIOUS
  <2>4. /\ IsMavros(mavros) /\ mavros.params = Known /\ mavros.mission = mission
        /\ mavros.latched = mission /\ mavros.before = mission
        /\ mavros.commands = 0 /\ mavros.remote = remote /\ mavros.news = MaxNews
        /\ mavros.cached = cached
    BY <2>1 DEF IsMavros
  <2> HIDE DEF files
  <2> QED BY <2>2, <2>3, <2>4
<1>3. main.at = "start" /\ main.told = "nothing" /\ main = [at |-> main.at, told |-> main.told]
  BY <1>1
<1>4. Mine = {} /\ Answers = {} /\ ToSet(requests) = {} /\ ToSet(topics) = {}
  BY <1>1, OneElement DEF Mine, Answers
<1>5. Sequential(<<>>) /\ DOMAIN <<>> = {} /\ IsFcn(<<>>)
  BY OneElement DEF Sequential, IsFcn
<1>6. Calls
  BY <1>1, <1>3, <1>4, <1>5 DEF Calls, NoReply, Asking
<1>7. Threads
  BY <1>1, <1>3 DEF Threads, Asking, Resting, Way, ClientAssumption
<1>8. Objects
  <2>1. <<>> \in Seq(Nat) /\ <<5, 6, 7>> \in Seq(Nat)
    OBVIOUS
  <2>2. MaxNews \in Int /\ IsFcn(Known) /\ IsFiniteSet(DOMAIN Known)
    BY DEF ClientAssumption, IsFcn
  <2>3. mavros.before \in Seq(Nat)
    <3>1. mavros.before \in {<<>>, <<5, 6, 7>>}
      BY <1>2
    <3> QED BY <2>1, <3>1
  <2>4. IsFcn(py.dict) /\ IsFcn(mavros.params)
    BY <1>1, <1>2, <1>5, <2>2, Zenon
  <2>5. mavros.news \in Int /\ mavros.news <= MaxNews
    BY <1>2, <2>2
  <2> QED BY <1>1, <1>2, <2>2, <2>3, <2>4, <2>5 DEF Objects
<1>9. Heard
  BY <1>1, <1>4, <1>5 DEF Heard, Hears, Topics
<1>10. Empty /\ ListFlow /\ SetFlow /\ DumpFlow
  BY <1>1, <1>2, <1>3, <1>4, <1>5 DEF Empty, ListFlow, SetFlow, DumpFlow, OfVehicle
<1>11. SameMission
  BY <1>2, <1>4 DEF SameMission
<1>12. ShowFlow /\ LoadFlow
  BY <1>1, <1>3, <1>4, <1>11 DEF ShowFlow, LoadFlow
<1>13. CallFlow /\ ModeFlow
  <2>1. main.at = "start" /\ main.told # "done" /\ py.offset = 0 /\ mavros.commands = 0
    BY <1>1, <1>2, <1>3
  <2>2. CallFlow
    BY <2>1 DEF CallFlow
  <2>3. ModeFlow
    BY <1>1, <1>4, <2>1 DEF ModeFlow
  <2> QED BY <2>2, <2>3
<1>14. FileFlow
  <2> SUFFICES ASSUME task.command = "upload" PROVE FileFlow
    BY DEF FileFlow
  <2>1. task.bytes \in Seq(Nat)
    BY <1>7 DEF Threads, TaskAssumption
  <2>2. 0 \in 0 .. Len(task.bytes)
    BY <2>1
  <2>3. Sequential(mavros.remote)
    BY <1>2, IntoSeq
  <2> QED BY <1>1, <1>3, <2>2, <2>3 DEF FileFlow
<1>15. SumFlow
  <2>1. task.command = "upload" => 0 \in 0 .. Len(task.bytes)
    BY <1>7 DEF Threads, TaskAssumption
  <2>2. nuttx_crc32(SubSeq(task.bytes, 1, 0), 0) = 0
    BY NoBytes
  <2> QED BY <1>1, <1>3, <2>1, <2>2 DEF SumFlow
<1> QED BY <1>6, <1>7, <1>8, <1>9, <1>10, <1>12, <1>13, <1>14, <1>15 DEF IInv, Flow

LEMMA Goes ==
    ASSUME ClientAssumption, IInv, ClientNext
    PROVE  IInv'
<1>1. Flow'
  BY FlowKept DEF IInv
<1>2. Empty' /\ ListFlow' /\ SetFlow' /\ DumpFlow'
  BY EmptyKept, ListKept, SetKept, DumpKept DEF IInv
<1>3. ShowFlow' /\ LoadFlow'
  BY ShowKept, LoadKept DEF IInv
<1>4. CallFlow' /\ ModeFlow' /\ FileFlow' /\ SumFlow'
  BY CallKept, ModeKept, FileKept, SumKept DEF IInv
<1> QED BY <1>1, <1>2, <1>3, <1>4 DEF IInv

LEMMA Stutters ==
    ASSUME ClientAssumption, IInv, UNCHANGED clientvars
    PROVE  IInv'
<1>1. UNCHANGED <<task, main, spin, requests, inbox, answer, topics, py, mavros>>
  BY DEF clientvars
<1>2. Flow'
  BY FlowKept DEF IInv
<1>3. Mine' = Mine /\ Answers' = Answers /\ (Untouched' <=> Untouched) /\ (SameMission' <=> SameMission)
  BY <1>1 DEF Mine, Answers, Untouched, SameMission
<1>4. Empty'
  BY <1>1 DEF IInv, Empty, Early
<1>5. ListFlow' /\ SetFlow'
  BY <1>1, <1>3 DEF IInv, ListFlow, SetFlow, AllSet, Noticed, Pending, Received
<1>6. DumpFlow'
  BY <1>1, <1>3 DEF IInv, DumpFlow, OfVehicle, Received
<1>7. ShowFlow'
  BY <1>1, <1>3 DEF IInv, ShowFlow
<1>8. LoadFlow'
  <2>1. WithHome' = WithHome /\ \A after : WholePush(after)' <=> WholePush(after)
    BY <1>1 DEF WithHome, WholePush
  <2>2. (\A r \in Mine : Pushing(r))' <=> \A r \in Mine : Pushing(r)
    BY <1>1, <1>3, <2>1 DEF Pushing
  <2>3. WholePush(mavros.mission)' <=> WholePush(mavros.mission)
    BY <1>1, <2>1
  <2> QED BY <1>1, <1>3, <2>1, <2>2, <2>3 DEF IInv, LoadFlow
<1>9. CallFlow' /\ ModeFlow'
  BY <1>1, <1>3 DEF IInv, CallFlow, ModeFlow
<1>10. FileFlow' /\ SumFlow'
  BY <1>1, <1>3, StillHolds DEF IInv, FileFlow, SumFlow
<1> QED BY <1>2, <1>4, <1>5, <1>6, <1>7, <1>8, <1>9, <1>10 DEF IInv

LEMMA EndsWell ==
    ASSUME IInv
    PROVE  DoneMeansDone
<1> SUFFICES ASSUME main.told = "done" PROVE DoneMeansDone
  BY DEF DoneMeansDone
<1>1. task.command \in {"set", "load"} /\ Untouched /\ spin # "calls" => AllSet
  BY DEF IInv, SetFlow
<1>2. task.command = "dump" /\ Untouched => py.file = <<Received>>
  BY DEF IInv, DumpFlow
<1>3. task.command = "wp load" /\ Untouched => WholePush(mavros.mission)
  BY DEF IInv, LoadFlow
<1>4. task.command \in {"wp dump", "wp show"} /\ Untouched => py.file = mavros.mission
  BY DEF IInv, ShowFlow, SameMission
<1>5. task.command = "call" /\ task.check # "done" => mavros.commands = task.times
  BY DEF IInv, CallFlow
<1>6. task.command = "mode" /\ task.named => mavros.mode = task.mode
  BY DEF IInv, ModeFlow
<1>7. ASSUME task.command = "upload"
      PROVE  IsPrefix(task.bytes, mavros.remote) /\ (~task.overwrite => mavros.remote = task.bytes)
  <2> DEFINE n == Len(task.bytes)
  <2>1. Holds(n) /\ task.bytes \in Seq(Nat)
    BY <1>7 DEF IInv, FileFlow, Flow, Threads, TaskAssumption
  <2>2. /\ Sequential(mavros.remote) /\ n \in Nat /\ n <= Len(mavros.remote)
        /\ \A i \in 1 .. n : mavros.remote[i] = task.bytes[i]
        /\ ~task.overwrite => Len(mavros.remote) = n
    BY <2>1 DEF Holds
  <2> DEFINE S == Nat \union ToSet(mavros.remote)
  <2>3. task.bytes \in Seq(S) /\ mavros.remote \in Seq(S)
    <3>1. Sequential(task.bytes) /\ ToSet(task.bytes) \subseteq Nat
      BY <2>1, IntoSeq
    <3> QED BY <2>2, <3>1, Wider
  <2> HIDE DEF S
  <2>4. SubSeq(mavros.remote, 1, n) = task.bytes
    <3>1. \A i \in 1 .. n : mavros.remote[i] \in S
      BY <2>2, <2>3
    <3>2. /\ SubSeq(mavros.remote, 1, n) \in Seq(S) /\ Len(SubSeq(mavros.remote, 1, n)) = n
          /\ \A i \in 1 .. n : SubSeq(mavros.remote, 1, n)[i] = mavros.remote[i]
      BY <2>2, <3>1, SubSeqProperties
    <3> QED BY <2>2, <2>3, <3>2, SeqEqual
  <2>5. IsPrefix(task.bytes, mavros.remote)
    BY <2>1, <2>2, <2>4, SubSeqFull DEF IsPrefix
  <2>6. ~task.overwrite => mavros.remote = task.bytes
    BY <2>2, <2>3, SeqEqual
  <2> QED BY <2>5, <2>6
<1>8. /\ task.command = "upload" /\ task.verify => SameChecksum
      /\ task.command = "verify" => SameChecksum
  BY DEF IInv, SumFlow
<1> QED BY <1>1, <1>2, <1>3, <1>4, <1>5, <1>6, <1>7, <1>8 DEF DoneMeansDone, AllSet

(* A command of the client that says it has ended well has done what it was told to, for all  *)
(* commands with their arguments, all parameters, files and sizes of a page.  What was set has *)
(* its value, or an event nobody has looked at says that the vehicle kept its own; a dump has  *)
(* what mavros has received; the mission, the calls and the mode are the vehicle's; the remote *)
(* file begins with the local one, is equal to it if it is a new one, and has its checksum if  *)
(* that was asked for.  All of it unless somebody else changed something meanwhile or a late   *)
(* event made the client send an older value back (cmd/param.py, cmd/mission.py, cmd/ftp.py).  *)
THEOREM DoneMeansDoneAlways == ASSUME ClientAssumption PROVE ClientSpec => []DoneMeansDone
<1>1. ClientInit => IInv
  BY Starts
<1>2. IInv /\ [ClientNext]_clientvars => IInv'
  BY Goes, Stutters
<1>3. IInv => DoneMeansDone
  BY EndsWell
<1> QED BY <1>1, <1>2, <1>3, PTL DEF ClientSpec
=============================================================================
