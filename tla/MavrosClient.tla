------------------------------ MODULE MavrosClient ------------------------------
(* The Python client of mavros and its command line (mavros/mavros): a process  *)
(* that runs one command.  The main thread calls services and waits for them or *)
(* for a topic; the spinner, one thread in rclpy.spin, hands over the answers   *)
(* and runs the callbacks of the topics.  mavros with the vehicle, and others   *)
(* who change things there, are the environment.                                *)
EXTENDS Integers, Sequences, SequencesExt, FiniteSets

CONSTANTS
    Tasks,              \* the commands
    Known,              \* parameters of the vehicle, each with its value
    Few,                \* from this many events on, the list of parameters is not asked for
    Compare,            \* whether two parameters of rclpy with the same value are equal
    PageSize,           \* FTP_PAGE_SIZE
    Remotes,            \* what the file an upload or a check names may hold on the vehicle
    MaxNews             \* changes made by others; bound of the checked instance

VARIABLES
    task,               \* the command of the process
    main,               \* the main thread: where it is, and what it told the user
    spin,               \* the spinner: "spins", "calls" (waits for a service), "dead", "ended"
    requests, inbox,    \* requests under way to mavros, answers under way back
    answer,             \* the answer the main thread waits for, once the spinner has taken it
    topics,             \* messages of the subscribed topics that the spinner has not taken
    py,                 \* the objects: dict, the topic subscribed to, points, the local file, the event
    mavros              \* the vehicle's parameters, those of them mavros has received, its mission (and the one
                        \* before the command), mode, remote file and the commands it took; the points last
                        \* published; the changes by others that may still come
clientvars == <<task, main, spin, requests, inbox, answer, topics, py, mavros>>

(* ------------------------------ threads and calls --------------------------- *)
Ask(at, service, arg) ==
    /\ main' = [main EXCEPT !.at = at]
    /\ requests' = Append(requests, [by |-> "main", service |-> service, arg |-> arg])
    /\ UNCHANGED <<task, spin, inbox, topics, mavros>>
Quiet == UNCHANGED <<task, spin, requests, inbox, topics, mavros>>
Tells(told) == main' = [at |-> "closing", told |-> told] /\ Quiet
Answered(at) == main.at = at /\ answer # <<>> /\ answer' = <<>>

(* a subscription; the topics of the state and of the points keep their last message *)
Latched(topic) == CASE topic = "points" ->
    <<mavros.latched>> [] topic = "state" -> <<mavros.mode>> [] OTHER -> <<>>
Messages(topic, values) == [i \in DOMAIN values |-> [topic |-> topic, value |-> values[i]]]
Subscribe(topic) == topics' = topics \o Messages(topic, Latched(topic))

(* -------------------------------- parameters -------------------------------- *)
(* _set_item: whether the vehicle is to be told *)
Differs(dict, k, v) == ~(k \in DOMAIN dict /\ Compare /\ dict[k] = v)
_set_item(dict, k, v) == [n \in DOMAIN dict \union {k} |-> IF n = k THEN v ELSE dict[n]]
SetDefaults(dict, found) ==
  [n \in DOMAIN dict \union DOMAIN found |-> IF n \in DOMAIN dict THEN dict[n] ELSE found[n]]
SetItems(dict, values) ==
  [n \in DOMAIN dict \union DOMAIN values |-> IF n \in DOMAIN values THEN values[n] ELSE dict[n]]
ToSend(dict, values) == {k \in DOMAIN values : Differs(dict, k, values[k])}

(* get_param_file_io and checkid ask for the address of the vehicle *)
uas_settings ==
    /\ UNCHANGED py
    /\ \/ main.at = "start" /\ task.command \in {"load", "checkid"} /\ UNCHANGED answer
       \/ main.at = "have" /\ task.command = "dump" /\ ~task.force /\ UNCHANGED answer
    /\ Ask("settings", "get settings", 0)

values ==
    /\ \/ main.at = "start" /\ task.command \in {"get", "set", "dump"} /\ UNCHANGED answer
       \/ Answered("settings") /\ task.command = "load"
    /\ py' = [py EXCEPT !.topic = "event"]
    /\ Ask("pull", "pull", 0)

Pulled ==
    /\ Answered("pull") /\ UNCHANGED py
    /\ IF Cardinality(DOMAIN py.dict) < Few THEN Ask("list", "list", 0)
       ELSE main' = [main EXCEPT !.at = "have"] /\ Quiet

Listed == Answered("list") /\ UNCHANGED py /\ Ask("got", "get", answer[1])
Got ==
    /\ Answered("got") /\ Quiet
    /\ py' = [py EXCEPT !.dict = SetDefaults(@, answer[1])] /\ main' = [main EXCEPT !.at = "have"]

(* what load and set assign is in the dictionary before the vehicle is asked *)
Assign ==
    /\ main.at = "have" /\ task.command \in {"set", "load"} /\ UNCHANGED answer
    /\ py' = [py EXCEPT !.dict = SetItems(@, task.values)]
    /\ LET keys == ToSend(py.dict, task.values)
       IN  IF keys = {} THEN Tells("done") ELSE Ask("set", "set", [k \in keys |-> task.values[k]])

Assigned == Answered("set") /\ UNCHANGED py /\ Tells(IF answer[1] = {} THEN "done" ELSE "raised")

(* get prints, dump saves; with --force dump calls call_pull with an argument it does not have *)
Show ==
    \/ /\ main.at = "have" /\ task.command = "get" /\ Tells("done") /\ UNCHANGED <<answer, py>>
    \/ /\ main.at = "have" /\ task.command = "dump" /\
         task.force /\ Tells("raised") /\ UNCHANGED <<answer, py>>
    \/ /\ Answered("settings") /\ task.command = "dump"
       /\ py' = [py EXCEPT !.file = <<py.dict>>] /\ Tells("done")

(* --------------------------------- missions --------------------------------- *)
Pull == main.at = "start" /\ task.command \in {"wp dump", "wp show"} /\
    task.pull /\ Ask("wp pulled", "wp pull", 0) /\ UNCHANGED <<answer, py>>
SubscribePoints ==
    /\ py' = [py EXCEPT !.topic = "points"]
    /\ Subscribe("points") /\ main' = [main EXCEPT !.at = "wait points"]
    /\ UNCHANGED <<task, spin, requests, inbox, mavros>>
PulledPoints ==
    /\ Answered("wp pulled")
    /\ IF answer[1] = "failed" THEN Tells("failed") /\ UNCHANGED py ELSE SubscribePoints
PointsAsTheyAre == main.at = "start" /\ task.command = "wp show" /\
    ~task.pull /\ SubscribePoints /\ UNCHANGED answer

(* dump writes the points to its file, show to the terminal *)
Save ==
    /\ main.at = "wait points" /\ py.done /\ UNCHANGED answer
    /\ py' = [py EXCEPT !.file = py.points] /\ Tells("done")

(* part of a mission is pushed without a look at the home *)
Slice(mission, from, to) ==
    LET end == IF from = to THEN to + 1 ELSE to
    IN  SubSeq(mission, from + 1, IF end = 0 \/ end > Len(mission) THEN Len(mission) ELSE end)

Push ==
    /\ main.at = "start" /\ task.command = "wp load" /\ (task.from > 0 \/ ~task.home)
    /\ Ask("pushed", "wp push", [from |-> task.from,
                                 points |-> IF task.from > 0 THEN Slice(py.file,
                                     task.from, task.to) ELSE py.file])
    /\ UNCHANGED <<answer, py>>

PreserveHome ==
    /\ main.at = "start" /\ task.command = "wp load" /\ task.from = 0 /\ task.home
    /\ py' = [py EXCEPT !.topic = "points"]
    /\ Subscribe("points") /\ main' = [main EXCEPT !.at = "wait home"]
    /\ UNCHANGED <<task, spin, requests, inbox, mavros, answer>>

PushHome ==
    /\ main.at = "wait home" /\ py.done /\ UNCHANGED <<answer, py>>
    /\ Ask("pushed", "wp push", [from |-> 0, points |-> py.file])

Clear == main.at = "start" /\ task.command = "wp clear" /\
    Ask("pushed", "wp clear", 0) /\ UNCHANGED <<answer, py>>
Pushed == Answered("pushed") /\ UNCHANGED py /\
    Tells(IF answer[1] = "failed" THEN "failed" ELSE "done")
SetCurrent == main.at = "start" /\ task.command = "wp setcur" /\
    Tells("raised") /\ UNCHANGED <<answer, py>>

(* ------------------------ commands, modes, connection ----------------------- *)
(* a command that calls one service, or several; what a refusal is told as: "failed" by      *)
(* check_cmd_ret, "raised" by _check_raise_errno, "done" where the answer is not looked at *)
CallNext == Ask("called", "command", 0) /\ py' = [py EXCEPT !.offset = @ + 1]
CallCommand == main.at = "start" /\ task.command = "call" /\ CallNext /\ UNCHANGED answer
Called ==
    /\ Answered("called")
    /\ IF answer[1] = "failed" /\ task.check # "done" THEN Tells(task.check) /\ UNCHANGED py
       ELSE IF py.offset < task.times THEN CallNext ELSE Tells("done") /\ UNCHANGED py

(* the position is waited for; the callback asks for the take-off *)
takeoff_cur ==
    /\ main.at = "start" /\ task.command = "takeoff_cur" /\ UNCHANGED answer
    /\ py' = [py EXCEPT !.topic = "fix"]
    /\ main' = [main EXCEPT !.at = "wait done"] /\ Quiet

mode ==
    /\ main.at = "start" /\ task.command = "mode" /\ UNCHANGED answer
    /\ IF task.named THEN py' = [py EXCEPT !.topic = "state"] /\ Subscribe("state")
       ELSE py' = [py EXCEPT !.done = TRUE] /\ UNCHANGED topics
    /\ main' = [main EXCEPT !.at = "mode sent"]
    /\ requests' = Append(requests, [by |-> "main", service |-> "set_mode", arg |-> task.mode])
    /\ UNCHANGED <<task, spin, inbox, mavros>>

ModeSent ==
    /\ Answered("mode sent") /\ UNCHANGED py
    /\ IF answer[1] = "failed" THEN Tells("failed")
       ELSE main' = [main EXCEPT !.at = "wait done"] /\ Quiet

wait_fcu_connection ==
    /\ main.at = "start" /\ task.command = "wait_fcu" /\ UNCHANGED answer
    /\ py' = [py EXCEPT !.topic = "state"]
    /\ Subscribe("state") /\ main' = [main EXCEPT !.at = "wait done"]
    /\ UNCHANGED <<task, spin, requests, inbox, mavros>>

(* checkid listens until its timer has reported; nothing else ends it *)
Checker ==
    /\ Answered("settings") /\ task.command = "checkid"
    /\ py' = [py EXCEPT !.topic = "source"] /\ main' = [main EXCEPT !.at = "wait report"] /\ Quiet
timer_cb ==
    /\ spin = "spins" /\ py.topic = "source" /\ ~py.done
    /\ py' = [py EXCEPT !.done = TRUE,
              !.file = IF "target" \in ToSet(py.points) THEN <<1>> ELSE <<>>]
    /\ UNCHANGED <<task, main, spin, requests, inbox, answer, topics, mavros>>

Woken == main.at \in {"wait done", "wait report"} /\
    py.done /\ Tells("done") /\ UNCHANGED <<answer, py>>
Waits == {"wait points", "wait home", "wait done"}
TimesOut == main.at \in Waits /\ ~py.done /\ Tells("timed out") /\ UNCHANGED <<answer, py>>

(* ----------------------------------- files ---------------------------------- *)
(* a small function in the place of the table *)
Step(crc, byte) == (crc * 31 + byte) % 251
nuttx_crc32(bytes, crc) ==
    LET upto[i \in 0 .. Len(bytes)] == IF i = 0 THEN crc ELSE Step(upto[i - 1], bytes[i])
    IN  upto[Len(bytes)]
Page(bytes, offset) == SubSeq(bytes, offset + 1, IF offset + PageSize > Len(bytes) THEN Len(bytes)
                                                 ELSE offset + PageSize)

upload ==
    /\ main.at = "start" /\ task.command = "upload" /\ UNCHANGED answer
    /\ py' = [py EXCEPT !.file = task.bytes] /\
         Ask("opened", "open", IF task.overwrite THEN "w" ELSE "cw")

NextPage ==
    LET page == Page(py.file, py.offset)
    IN  IF page = <<>> THEN Ask("closed", "close", 0) /\ UNCHANGED py
        ELSE /\ Ask("written", "write", [offset |-> py.offset, bytes |-> page])
             /\ py' = [py EXCEPT !.offset = @ + Len(page), !.crc = nuttx_crc32(page, @)]

RaisesSilently == Ask("closed", "close", 0) /\ UNCHANGED py

(* an error raises in the with statement, which closes the file *)
Raises == py' = [py EXCEPT !.raised = TRUE] /\ Ask("closed", "close", 0)
Opened == Answered("opened") /\ IF answer[1] = "failed" THEN Tells("raised") /\ UNCHANGED py
                                ELSE NextPage
Written == Answered("written") /\ IF answer[1] = "failed" THEN Raises ELSE NextPage
ClosedFile ==
    /\ Answered("closed") /\ UNCHANGED py
    /\ IF py.raised \/ answer[1] = "failed" THEN Tells("raised")
       ELSE IF task.verify THEN Ask("checksum", "checksum", 0) ELSE Tells("done")
verify ==
    /\ main.at = "start" /\ task.command = "verify" /\ UNCHANGED answer
    /\ py' = [py EXCEPT !.file = task.bytes, !.crc = nuttx_crc32(task.bytes, 0)] /\
         Ask("checksum", "checksum", 0)

(* an answer that is an error, here -1, raises; what upload does about a difference raises as well *)
NoChecksum == -1
Verified == Answered("checksum") /\ UNCHANGED py /\
    Tells(IF answer[1] = NoChecksum THEN "raised" ELSE IF answer[1] = py.crc THEN "done"
          ELSE IF task.command = "upload" THEN "raised" ELSE "failed")

(* `click.ftp` raises; without a name for it, the local file is opened for writing before that *)
download ==
    /\ main.at = "start" /\ task.command = "download" /\ UNCHANGED answer
    /\ py' = [py EXCEPT !.file = IF task.named THEN @ ELSE <<>>] /\ Tells("raised")

(* -------------------------- the spinner and the end ------------------------- *)
TakeAnswer ==
    /\ spin = "spins" /\ inbox # <<>> /\ answer = <<>>
    /\ answer' = <<Head(inbox)>> /\ inbox' = Tail(inbox)
    /\ UNCHANGED <<task, main, spin, requests, topics, py, mavros>>

(* a callback that calls a service waits for an answer nobody but the spinner takes *)
CallsFrom(service, arg) ==
    /\ spin' = "calls"
    /\ requests' = Append(requests, [by |-> "spinner", service |-> service, arg |-> arg])

_event_handler(k, v) ==
    /\ py' = [py EXCEPT !.dict = _set_item(@, k, v)]
    /\ IF Differs(py.dict, k, v) THEN CallsFrom("set", [n \in {k} |-> v])
       ELSE UNCHANGED <<spin, requests>>

fix_wp0(mission) ==
    /\ UNCHANGED requests
    /\ IF mission # <<>> /\ py.file = <<>> THEN spin' = "dead" /\ UNCHANGED py
       ELSE /\ py' = [py EXCEPT !.file = IF mission = <<>> THEN @
                                         ELSE [@ EXCEPT ![1] = mission[1]], !.done = TRUE]
            /\ UNCHANGED spin

(* the handlers of points, of sys mode, of wait_fcu_connection and of checkid *)
Noted(m) ==
    /\ UNCHANGED <<spin, requests>>
    /\ py' = CASE m.topic = "points" -> [py EXCEPT !.points = m.value, !.done = TRUE]
              [] m.topic = "source" -> [py EXCEPT !.points = Append(@, m.value)]
              [] m.topic = "state" ->
                  [py EXCEPT !.done = @ \/ (task.command = "wait_fcu" /\ m.value # "off")
                                                           \/ (task.command = "mode" /\
                                                                m.value = task.mode)]

Callback ==
    /\ spin = "spins" /\ topics # <<>> /\ topics' = Tail(topics)
    /\ LET m == Head(topics)
       IN  \/ m.topic = "event" /\ _event_handler(m.value[1], m.value[2])
           \/ m.topic = "fix" /\ CallsFrom("takeoff", m.value) /\ UNCHANGED py
           \/ m.topic = "points" /\ task.command = "wp load" /\ fix_wp0(m.value)
           \/ (m.topic \in {"state", "source"} \/
                (m.topic = "points" /\ task.command # "wp load")) /\ Noted(m)
    /\ UNCHANGED <<task, main, inbox, answer, mavros>>

(* on_close: the context is shut down and the spinner joined *)
Close ==
    /\ main.at = "closing" /\ spin # "calls"
    /\ main' = [main EXCEPT !.at = "ended"] /\ spin' = "ended"
    /\ UNCHANGED <<task, requests, inbox, answer, topics, py, mavros>>

(* ---------------------------- mavros, the vehicle --------------------------- *)
Publish(topic, value) == topics' = IF py.topic = topic THEN topics \o Messages(topic, value)
                                   ELSE topics
Events(params, names) == SetToSeq({<<k, params[k]>> : k \in names})

(* from a mission to the one after a push; from a file to the one after a write, which leaves what *)
(* lies behind it *)
Replaced(mission, from, new) ==
    IF from = 0 THEN new
    ELSE [i \in DOMAIN mission |-> IF i - from \in DOMAIN new THEN new[i - from] ELSE mission[i]]
Spliced(bytes, offset, new) ==
    [i \in 1 .. (IF offset + Len(new) > Len(bytes) THEN offset + Len(new) ELSE Len(bytes)) |->
        IF i - offset \in DOMAIN new THEN new[i - offset] ELSE bytes[i]]

(* what a service does when it succeeds: the next state of mavros and the answer; a file opened *)
(* with "w" keeps what it holds, only a new one ("cw") is empty *)
Effect(service, arg) ==
    CASE service = "list" -> <<mavros, mavros.cached>>
      [] service = "get" -> <<mavros, [k \in arg |-> mavros.params[k]]>>
      [] service = "wp pull" -> <<[mavros EXCEPT !.latched = mavros.mission], "ok">>
      [] service = "wp push" ->
            LET new == Replaced(mavros.mission, arg.from, arg.points) IN
                <<[mavros EXCEPT !.mission = new, !.latched = new], "ok">>
      [] service = "wp clear" -> <<[mavros EXCEPT !.mission = <<>>, !.latched = <<>>], "ok">>
      [] service = "takeoff" -> <<[mavros EXCEPT !.flying = TRUE], "ok">>
      [] service = "command" -> <<[mavros EXCEPT !.commands = @ + 1], "ok">>
      [] service = "open" -> <<IF arg = "cw" THEN [mavros EXCEPT !.remote = <<>>] ELSE mavros, "ok">>
      [] service = "write" -> <<[mavros EXCEPT !.remote = Spliced(@, arg.offset, arg.bytes)], "ok">>
      [] service = "checksum" -> <<mavros, nuttx_crc32(mavros.remote, 0)>>
      [] OTHER -> <<mavros, "ok">>

Replies(r, a) == inbox' = IF r.by = "main" THEN Append(inbox, a) ELSE inbox
Succeeds(r) ==
    /\ r.service \notin {"set", "pull"}
    /\ r.service = "wp push" /\ r.arg.from > 0 =>
         r.arg.from + Len(r.arg.points) <= Len(mavros.latched)
    /\ LET done == Effect(r.service, r.arg)
       IN  /\ mavros' = done[1] /\ Replies(r, done[2])
           /\ IF r.service \in {"wp pull", "wp push", "wp clear"}
              THEN Publish("points", <<done[1].latched>>) ELSE UNCHANGED topics
Fails(r) ==
    /\ r.service \notin {"set", "pull", "list", "get"} /\ UNCHANGED <<topics, mavros>>
    /\ Replies(r, IF r.service = "checksum" THEN NoChecksum ELSE "failed")

(* mavros asks the vehicle for its parameters if it has none; it may receive some, or no one, *)
(* and the client looks at the end of it only *)
Pulls(r) ==
    /\ r.service = "pull" /\ Replies(r, "ok")
    /\ IF mavros.cached # {} THEN UNCHANGED <<topics, mavros>>
       ELSE \E received \in SUBSET DOMAIN mavros.params :
              /\ mavros' = [mavros EXCEPT !.cached = received]
              /\ Publish("event", Events(mavros.params, received))

(* mavros takes any message with the value of a parameter for the answer to its setting: one that *)
(* was late, or that tells of the value the vehicle has kept *)
Sets(r) ==
    /\ r.service = "set"
    /\ LET names == SUBSET (DOMAIN r.arg \cap mavros.cached)
       IN  \E taken \in names, late \in names, answered \in names :
             LET new == [k \in DOMAIN mavros.params |->
                            IF k \in taken THEN r.arg[k] ELSE mavros.params[k]]
             IN  /\ mavros' = [mavros EXCEPT !.params = new]
                 /\ Replies(r, DOMAIN r.arg \ (late \union answered))
                 /\ Publish("event", Events(mavros.params, late) \o Events(new, answered))
Serve ==
    /\ requests # <<>> /\ requests' = Tail(requests)
    /\ LET r == Head(requests) IN Succeeds(r) \/ Fails(r) \/ Pulls(r) \/ Sets(r)
    /\ UNCHANGED <<task, main, spin, answer, py>>

(* the vehicle reports its position, is connected, sends, or changes the mode it was asked to *)
Reports ==
    /\ main.at # "ended" /\ requests = <<>>
    /\ \/ py.topic = "fix" /\ topics = <<>> /\ Publish("fix", <<0>>) /\ UNCHANGED mavros
       \/ \E from \in {"target", "other"} :
             py.topic = "source" /\ topics = <<>> /\
                 Len(py.points) < 2 /\ Publish("source", <<from>>) /\ UNCHANGED mavros
       \/ py.topic = "state" /\ LET to == IF task.command = "mode" THEN task.mode ELSE "on"
                                IN  mavros.mode # to /\ mavros' = [mavros EXCEPT !.mode = to] /\
                                    Publish("state", <<to>>)
    /\ UNCHANGED <<task, main, spin, requests, inbox, answer, py>>

(* somebody else sets a parameter or sends a mission *)
Others ==
    /\ main.at # "ended" /\ mavros.news > 0
    /\ \/ \E k \in DOMAIN mavros.params :
             /\ mavros' = [mavros EXCEPT !.params[k] = 9, !.cached = @ \union {k}, !.news = @ - 1]
             /\ Publish("event", <<<<k, 9>>>>)
       \/ mavros' = [mavros EXCEPT !.mission = <<8, 8>>, !.latched = <<8, 8>>, !.news = @ - 1] /\
            Publish("points", <<<<8, 8>>>>)
    /\ UNCHANGED <<task, main, spin, requests, inbox, answer, py>>

(* ---------------------------------- the process ------------------------------ *)
ClientInit ==
    /\ task \in Tasks /\ main = [at |-> "start", told |-> "nothing"] /\ spin = "spins"
    /\ requests = <<>> /\ inbox = <<>> /\ answer = <<>> /\ topics = <<>>
    /\ py = [dict |-> <<>>, topic |-> "none",
             points |-> <<>>, done |-> FALSE, raised |-> FALSE, offset |-> 0, crc |-> 0,
             file |-> IF task.command = "wp load" THEN task.mission
                      ELSE IF task.command = "download" THEN <<1>> ELSE <<>>]
    /\ \E cached \in SUBSET DOMAIN Known, mission \in {<<>>, <<5, 6, 7>>},
          remote \in IF task.command \in {"upload", "verify"} THEN Remotes ELSE {<<>>} :
          mavros = [params |-> Known, mission |-> mission,
                    latched |-> mission, mode |-> "off", flying |-> FALSE, commands |-> 0,
                    remote |-> remote, cached |-> cached, news |-> MaxNews, before |-> mission]

Main ==
    \/ uas_settings \/ values \/ Pulled \/ Listed \/ Got \/ Assign \/ Assigned \/ Show
    \/ Pull \/ PulledPoints \/ PointsAsTheyAre \/
         Save \/ Push \/ PreserveHome \/ PushHome \/ Clear \/ Pushed \/ SetCurrent
    \/ CallCommand \/ Called \/ Checker \/
         takeoff_cur \/ mode \/ ModeSent \/ wait_fcu_connection \/ Woken \/ TimesOut
    \/ upload \/ Opened \/ Written \/ ClosedFile \/ verify \/ Verified \/ download \/ Close
Spinner == TakeAnswer \/ Callback \/ timer_cb
ClientNext == Main \/ Spinner \/ Serve \/ Reports \/ Others
ClientSpec == ClientInit /\ [][ClientNext]_clientvars

(* -------------------------------- what is said ------------------------------ *)
Untouched == mavros.news = MaxNews
WholePush(after) ==
    LET to == IF task.from = task.to THEN task.to + 1
              ELSE IF task.to = 0 THEN Len(task.mission) ELSE task.to
        upto == IF to < Len(task.mission) THEN to ELSE Len(task.mission)
    IN  IF task.from = 0
        THEN after = [i \in DOMAIN task.mission |-> IF i = 1 /\
            task.home /\ mavros.before # <<>> THEN mavros.before[1] ELSE task.mission[i]]
        ELSE /\ DOMAIN after = DOMAIN mavros.before
             /\ \A i \in DOMAIN after :
                  after[i] = IF i \in task.from + 1 .. upto THEN task.mission[i] ELSE mavros.before[i]
(* what mavros has of the parameters; an event that the spinner has not taken tells of one *)
Received == [k \in mavros.cached |-> mavros.params[k]]
Pending(k) == [topic |-> "event", value |-> <<k, mavros.params[k]>>] \in ToSet(topics)
SameChecksum == nuttx_crc32(mavros.remote, 0) = nuttx_crc32(task.bytes, 0)

(* What a command that ends well has done.  A parameter that was set has its value, or    *)
(* an event the client has not looked at says that the vehicle kept its own: mavros takes *)
(* any message of the name for the answer.  A dump has what mavros has received, which    *)
(* may be less than the vehicle has.  The mission is that of the file with the home that  *)
(* was to be kept, or the dumped one is the vehicle's; the calls were made and the mode   *)
(* has been reached.  The remote file begins with the local one: behind it may lie the    *)
(* rest of a longer one it was written over, which only a new file or a check excludes,   *)
(* the check up to its checksum.  All of it unless somebody else changed something        *)
(* meanwhile, or a late event made the client send an older value back (cmd/param.py,     *)
(* cmd/mission.py, cmd/ftp.py with param.cpp and ftp.cpp of mavros).                      *)
DoneMeansDone ==
    main.told = "done" =>
        /\ task.command \in {"set", "load"} /\ Untouched /\ spin # "calls"
             => \A k \in DOMAIN task.values : k \in DOMAIN mavros.params
                                                /\ (mavros.params[k] = task.values[k] \/ Pending(k))
        /\ task.command = "dump" /\ Untouched => py.file = <<Received>>
        /\ task.command = "wp load" /\ Untouched => WholePush(mavros.mission)
        /\ task.command \in {"wp dump", "wp show"} /\ task.pull /\ Untouched
             => py.file = mavros.mission
        /\ task.command = "call" /\ task.check # "done" => mavros.commands = task.times
        /\ task.command = "mode" /\ task.named => mavros.mode = task.mode
        /\ task.command = "upload" =>
             /\ IsPrefix(task.bytes, mavros.remote)
             /\ ~task.overwrite => mavros.remote = task.bytes
             /\ task.verify => SameChecksum
        /\ task.command = "verify" => SameChecksum

(* What the commands are given: numbers for the items of a mission and the bytes of a file, *)
(* a call at least once; of parameters, at least one makes the client not ask for the list.  *)
TaskAssumption(t) ==
    /\ t.command \in {"get", "set", "load", "dump", "checkid", "wp clear", "wp setcur", "wp dump",
         "wp show", "wp load", "call", "takeoff_cur", "wait_fcu", "mode", "download", "upload", "verify"}
    /\ t.command = "wp load" => t.mission \in Seq(Nat) /\
         t.home \in BOOLEAN /\ t.from \in Nat /\ t.to \in Nat
    /\ t.command \in {"set", "load"} => IsFiniteSet(DOMAIN t.values)
    /\ t.command = "call" => t.times \in Nat \ {0}
    /\ t.command \in {"upload", "verify"} => t.bytes \in Seq(Nat)
ClientAssumption ==
    /\ Known = [k \in DOMAIN Known |-> Known[k]] /\ IsFiniteSet(DOMAIN Known)
    /\ Few \in Nat \ {0} /\ PageSize \in Nat \ {0} /\ MaxNews \in Nat
    /\ Remotes \subseteq Seq(Nat)
    /\ \A t \in Tasks : TaskAssumption(t)
=============================================================================
