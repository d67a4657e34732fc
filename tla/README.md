# Verification of jiusi_3566_ros2

TLA+ models, TLC runs and TLAPS proofs for the onboard software of the RK3566
companion computer (a process supervisor that starts the other nodes, a GPS time
synchroniser that steps the system clock, a flight recorder, an odometry bridge and
the driver of the Odin laser sensor) and for the two libraries it talks to the
autopilot with, as far as they are Python: pymavlink with its code generators, and the
client of mavros. All paths below are relative to the repository; `P` stands for
`src/acfly_mavros/mavlink-gbp-release/pymavlink`.

## The system

| Component | Source | State it keeps | Operations |
|---|---|---|---|
| acfly_daemon | `src/acfly_daemon/src/acfly_daemon_node.cpp` | one `ManagedProcess` per child (state, pid, backoff, time stamps, `stopping`), odometry health check (`odin_health_*`), `shutting_down_`, signal flag | 2 Hz `on_timer` (reap, stop timeouts, STARTING to RUNNING, health check, crash restarts, pending starts), services start / stop / restart / shutdown / get_status, odometry callback |
| timesync | `src/timesync/src/time_sync_node.cpp` | state INIT / TRACKING / HOLD, sliding window of offsets, `last_gps_time_`, `lost_count_`, clock discipline | time reference callback, RTT callback, 1 Hz monitor, clock step, slew |
| bag_logd | `src/bag_logd/src/bag_logd_node.cpp` | `armed_`, writer, rotation timer, retry timer, bags on disk | arm edge callback, rotation, retry, disk check, clean-up, message writing |
| acfly_odometry | `src/acfly_odometry/src/acfly_odometry_node.cpp` | last odometry, last published stamp, covariance counter, last reset time | odometry callback and timer; asks the driver to reset through a command file |
| odin_ros_driver | `src/odin_ros_driver/src/host_sdk_sample.cpp` | device connection, streaming flags, IMU queue with mutex and condition variable, command file | attach and detach callback, data callback, IMU thread, command-file poller, signal handler |
| message definitions, generators | `P/generator` | parsed dialects, tables by message id | parse, include, merge, check, write a dialect in 14 languages |
| links | `P/mavutil.py`, the `MAVLink` class `mavgen_python.py` writes, readers of other languages | receive buffer, sequence numbers, signing streams, what is known of each system | parse, send, sign, `recv_msg`, `recv_match`, requests |
| ports | `P/mavutil.py` | socket or port, `fd`, `portdead`, clients of a UDP server | open, read, write, reset, reconnect |
| file transfer | `P/mavftp.py` | session, read gaps, write window, retries, callbacks | get, put, list, burst read, gap retries, timeouts |
| logs and tools | `P/DFReader.py`, `P/CSVReader.py`, `P/mavutil.py`, `P/tools` | index of offsets, clock, formats, modes | index, parse, read by types, rewind, extract, merge, play back |
| missions, fences, rally points, parameters | `P/mavwp.py`, `P/mavparm.py` | lists of items or points, known parameters | edit, draw, save, load, set with retries |
| mavros client | `src/acfly_mavros/mavros/mavros/mavros` | one command's main thread, a spinner thread, cached parameters and mission | parameters, missions, modes, commands, files |
| mavros router and plugins (C++) | `src/acfly_mavros/mavros`, `mavros_extras` | routing tables, plugin state | upstream project with a launch file of its own here |
| tools, deployment | `src/tool`, `src/offline` | none at run time | viewers, mask editor, install scripts |

On board they interact as follows. The daemon forks the four others and mavros with
`ros2 run` or `ros2 launch`, waits for topics of some before it starts the next, and
listens to the driver's odometry to find out whether the driver hangs. timesync steps
CLOCK_REALTIME, which every other node reads through ROS time. acfly_odometry writes
`/tmp/odin_command.txt`, which the driver polls. bag_logd follows the arm state that
mavros publishes. Every node of this repository spins in a single-threaded executor; the
driver has threads of its SDK and two of its own besides.

The generators write the codec with which every MAVLink program, mavros included, packs and
reads messages; a frame packed by one language is read by another. `mavutil` puts ports below
that codec and what is known of the vehicle above it; `mavftp`, `mavwp`, `mavparm` and the log
readers use it. The mavros client calls services of mavros from its main thread while a
second thread spins and runs the callbacks.

### What makes each part correct

* acfly_daemon: a stored pid is the daemon's own child; no program runs twice; nothing outlives
  the daemon; every stop ends, by SIGKILL if need be; a stalled driver is restarted a bounded
  number of times; left alone, everything ends up RUNNING in dependency order.
* timesync: no step makes the clock worse; losing GPS is reported and its return noticed; the
  slewing loop is stable.
* bag_logd: an armed vehicle is recorded, or recording is tried again; the slice being written
  is never deleted; old slices go first; the disk does not fill up.
* acfly_odometry: output goes on after resets and clock steps; a reset that was asked for is
  carried out once.
* odin_ros_driver: queued samples are published; detaching ends the IMU thread; SIGINT ends the program.
* generators: tables cover what was included; every language reads what every other wrote, value by value.
* links: no byte of a frame is lost to noise before it; no signed message is accepted twice; what is
  known of a vehicle is what it said last.
* ports: `select` waits on what is read; a lost link comes back; a live client is served.
* file transfer: success means the whole file; every call ends and calls its callback once.
* logs: reading by types, with either index, or again after a rewind, gives the same messages at the same times.
* missions and points: an item knows its place; a fence stays closed; what is saved can be loaded.
* mavros client: what a command has done when it says so, given what mavros takes for an answer; a command ends.

### What is hard here

* acfly_daemon: children exit between any two steps; two loops block the only thread;
  stored pids may be reused; clock steps move every time stamp but those of the health
  check; a failing restart path (fork failure, give-up) leaves a record half set.
* timesync: its own clock step changes the clock it measures with; the discipline it set
  must be undone; measurements in the window predate a step.
* bag_logd: the disk fills during a flight; opening fails and is retried while the vehicle
  is disarmed and armed again; slices are ordered by names made from a clock that is stepped.
* acfly_odometry: a reset request must not be repeated while the last one takes effect;
  stamps of the sensor and of the host are compared.
* odin_ros_driver: the device is unplugged while callbacks and threads are running; a flag is
  set without the mutex of the condition variable it belongs to; a command file is written
  by one process while another empties, reads or removes it.
* generators: includes that repeat and nest, enums merged across files, arrays and extensions of
  every element size in languages with layouts of their own.
* links and ports: noise in front of frames, two protocol versions in one stream, repeated and lost
  datagrams, time stamps of signatures, a peer that closes, resets or goes away in any state.
* transfers and parameters: answers that come late are taken for answers to the next request.
* logs: damage at the end and in the middle, clocks that have to be interpolated, filters that change.
* mavros client: a callback that waits for a service waits for itself; events overtake each other.

`hazards` in `PROJECT.json` lists each at its line, with the properties that cover it.

## Modules

| Module | Models | Kind |
|---|---|---|
| `Supervision` | what the supervisor promises | abstract specification |
| `AcflyDaemon` | `acfly_daemon_node.cpp` | component; refines `Supervision` |
| `MCDaemon`, `MCDaemonClaims` | | instances; a claim of a comment |
| `AcflyDaemonProofs` | | theorems and proofs |
| `TimeSync`, `MCTimeSync` | `time_sync_node.cpp`, the kernel clock, the stream of references | component; a small instance and the loop with the code's numbers |
| `BagLogd`, `BagLogdClaims`, `MCBagLogd`, `BagLogdProofs` | `bag_logd_node.cpp`, the disk, the vehicle's arm state | component, claim, instances, proofs |
| `OdinDriver` | `host_sdk_sample.cpp`, `set_param.sh` | component |
| `AcflyOdometry`, `AcflyOdometryProofs` | `acfly_odometry_node.cpp` beside the driver (EXTENDS `OdinDriver`) | component and composition; theorem and proof |
| `MCOnboard` | start of the system, driver, bridge | composition, instances |
| `MavParse` | `P/generator/mavparse.py` | functions |
| `MavWire` | fields as elements of bytes | functions, used by the generators |
| `MavPython`, `MavStructs`, `MavScripts` | `mavgen_python.py`; C, C++, Objective-C, C#, Ada, Swift; Java, both JavaScripts, TypeScript, Lua, Wireshark, Spin2 | functions |
| `MavGen`, `MCGen` | `mavgen.py` and agreement of the languages; dialects | component; instances |
| `MavFrame`, `MavReaders` | class `MAVLink` of Python; readers of JavaScript, Wireshark, Spin2 | functions |
| `MavUtil`, `MavLink`, `MavLinkProofs` | class `mavfile`; a lossy link with a reader and a caller | functions; component; theorem and proof |
| `MavPorts` | stream classes of `mavutil.py` | component |
| `MavUdp` | class `mavudp` | component |
| `MavPortsProofs` | | theorems and proofs of both |
| `MCLinks` | `MavPorts`, `MavUdp`, `MavLink` | instances |
| `MavFtp`, `MavFtpProofs` | `mavftp.py` with a link and a server | component; theorem and proof |
| `MavWp`, `MavPoints` | `mavwp.py`: item lists; rally and fence points | components |
| `MavParm` | `mavparm.py` with a vehicle and a link | component |
| `MavListsProofs` | | theorems and proofs of the three |
| `MavrosClient`, `MavrosClientProofs` | Python client of mavros: commands, threads, services and topics | component; theorem and proof |
| `MavrosFiles` | its files and frames | functions |
| `MCGround` | file transfer, lists, parameters, client | instances |
| `MavLogs`, `MavTlog` | `DFReader.py`, `CSVReader.py`; `mavlogfile`, `mavmmaplog` | components |
| `MavLogTools`, `MavPlayback` | seventeen tools; `mavplayback.py` | functions; component |
| `MCFiles` | `MavGen`, logs and tools | instances |

A module that composes others runs one of them at a time, chosen by `part` in the initial state,
where the parts share nothing; `AcflyOdometry` and `OdinDriver` run together, since they share the
command file. One run thus answers one kind of question for several components.

### AcflyDaemon and Supervision

`mp` holds the ManagedProcess records. The kernel is part of the model: `os` says what is
under a pid (free, alive, has SIGINT pending, hit by SIGKILL, zombie), `prog` for which
process it was forked. `pc` is the position of the executor thread: idle, before one of the
six steps of `on_timer` that change state, or inside one of the two loops that block it
(`~/restart` with a name waits for STOPPING to end; `shutdown_all` polls until its deadline).
Each step is an action, so children may exit, crash or be reaped between any two of them. A
loop over all processes inside one step is one action: nothing it reads is changed by
another process' iteration, with one exception, which is modelled: an exception in
`check_stop_timeouts` leaves the processes after it untouched, so `Rank` keeps the order.

Time is kept as ages, the number of periods since a stamp was taken, saturated at
`AgeCap`. One period is a timer period, and also one `usleep` of the blocking loops; the
thresholds of the code are whole numbers of periods. `Jump` shifts the ages taken
with ROS time and leaves the two of `steady_clock` alone. An `rclcpp::Time` that was never
assigned has another clock type than `now()`: subtracting them throws, nothing catches it,
and the node ends (`pc = "aborted"`); `stop_timed` says whether `stop_request_time` was assigned.

A child obeys SIGINT when it likes, or never; it crashes when it likes (`MaxCrashes`); exec
failing is a crash; SIGKILL takes effect at some later moment, which is when the kernel
does it. Odometry waits in a queue of depth one and
stays there when its publisher dies. Topics leave the graph with their publisher.

`Supervision` knows instances of programs, whether a program is wanted, and whether the daemon
is up, closing or over; it has no process states, ages, reaping or polling. An
instance of a wanted program is launched while no other one executes; SIGKILL follows SIGINT,
or hits a watched program in the timer's turn; what is unwanted becomes wanted by a request alone;
nothing is left when the daemon closes. The mapping is at the end of `AcflyDaemon`: an instance is
what `os` says of its pid, a zombie has ended, and a program is wanted unless it is marked as stopping or
in STOPPING or STOPPED.

Left out: `restart_count`, `exit_code`, `exit_reason` and the log (reported only),
`publish_status` and `get_status` (read only), what a child forks itself (`ros2 launch`
starts the node as a process of its own, which survives a SIGKILL of the launcher), and a
crash of the daemon itself under systemd.

### TimeSync

`state`, `synced`, `lost`, `window`, `rtt`, `lastGps` and `boot` are the node's members; `err` is
GPS time minus host time, `slewing` the single-shot adjustment the kernel has not worked off yet,
`flight` the references measured and not yet handled. Each callback is an action: `time_ref_cb`
with its three handlers, `tsync_cb`, `monitor_cb` (in which a period passes and the kernel slews).
References may be lost, late, without a fix, or cease; `FcuJump` steps GPS time.

Offsets and times are integers in one unit. Stamps are ages on the host clock, so a clock step
changes the age of every stamp taken before it: `Stepped` shows what `do_bootstrap` does to the
stamp of the very reference that caused it. The kernel forgets a pending adjustment when the clock
is set. The smoothed offset stays a sum and a count, since it is only compared and divided; the
trimmed mean, the median and the truncation towards zero are those of the code.
`StepFails` is a failing `clock_settime`, and the offset 0, which the code cannot tell from it.

Left out: printing, the text of `~/status`, and a failing `adjtimex`, which is only logged.

### BagLogd

The node's members are `armed`, `recording`, `current` (path and writer, which are always set and
cleared together), and the two timers, each off, waiting or due; `Tick` makes a waiting timer due.
The executor has one thread and no callback waits for another, so a callback is one action;
`arm_state_cb` is four, by outcome. The disk is `bags`, a set of slices, each with its name, size, flight and
its rank by creation (`made`, for the properties only: the code has nothing but names), with `mtime` of the directory and the space `others` take. Names are pairs of a second and a
suffix, with the fallback to `mtime`. `msg` is the one message the state subscription holds;
mavros publishes "not armed" when the link is lost, which `LinkLost` does. Opening a slice
may always fail. The deletion loop of the disk check goes through the names in their order until there is space
or only the active slice is left: `Deleted` says of a slice that every other one up to it found the disk still low. `cfg` is chosen at the start and never changes. `flight` in a slice and `cut` are for
the properties only; the code has neither.

Left out: configuration parsing and the checks of the storage path, `remove_dir`'s recursion, files and
links in the storage directory, empty directories left by a failed opening, failures of `statvfs`
and `opendir`, and names with ten or more suffixes (which sort before `_2`).

### OdinDriver and AcflyOdometry

Four threads with a program counter each: `dev` (the SDK's thread in `lidar_device_callback`, which
sets the flags, starts and joins the IMU thread and empties the queues), `data` (the SDK's thread in
`lidar_data_callback`), `imu` (`imu_thread_routine`) and `main` (the poller of the command file, in which the
SIGINT handler runs). `mutex` is held across the steps in which the code holds it; a wait gives it up and
takes it again when woken. `g_imu_thread_running` is written without it, as in the code. The command file
is emptied, written, read and removed in steps of their own, by the bridge, an operator (`set_param.sh`)
and the driver; a writer that has opened the file goes on writing after it was removed. `Restarted` is the
supervisor killing the program, or its end.

`AcflyOdometry` adds the bridge: `odom_cb` keeps the latest message, `timer_cb` judges, counts, asks and
publishes; asking is two steps, opening the file and writing it. Stamps are ages, and `ClockStepped` moves them all.
The counter saturates one above the bound, where nothing depends on it any more. `RequestKept` follows one
request for a reset: it is never carried out twice, and while it is pending it leaves the file and the driver's hands (`Held`)
only in a step with a name. `CarriedOut` is the good one. The code loses a request in three ways, and the property says that
there is no fourth: an operator writes the file, or the driver removes it with an operator's command (`Overwritten`); the driver is
killed or interrupted after it removed the file, or after an operator wrote over what it had read (`DiesWithIt`); the device has
gone when the driver comes to the command (`NoDevice`). `RequestsArrive` adds that what is not lost does not stay in the file.

Left out: calls that configure a device, map transfer and the monitor of custom parameters, conversion of data
into messages, a sample that a callback queues after the queues were emptied (`host_sdk_sample.cpp:960`; it comes
out first in the next session), the attitude, velocities and transforms the bridge publishes.

### Definitions and generators

`MavParse` folds the element handlers over the XML elements of a file and lays every message out:
order by size, extensions at the end, offsets, lengths, flags, and what the CRC is taken over, which
stands for the checksum. `MavGen` parses the files of the call, adds included ones breadth first up to
`MAXIMUM_INCLUDE_FILE_NESTING`, merges enums, checks for duplicates, carries the tables to the files that
include others, and runs a generator. Values are kept byte by byte: a byte on the wire is the token of its
field, element and place. Each language is the pair of functions its generator writes: what a buffer is
after packing and what is read from one, with arrays, strings, extensions and trimmed zeros. `ReadsWhatWasWritten` compares
each reader with each writer; what a language cannot do (arrays in JavaScript, 8-byte values in Spin2) is modelled
as it does it, and left out of what is compared.

Left out: documentation, names of files and classes, test programs, displays, byte loops of the C, C++ and other
parsers.

### Links

`MavFrame` is the class `MAVLink` that `mavgen_python.py` writes, as functions from the object to the object: sending with
sequence number and signature, and `parse_char` with its two markers, `bytes_needed`, bad prefixes and robust
parsing. Checksum and digest are small functions of the bytes they cover, so that a wrong byte is noticed (`AsByte` around the
fold changes no value; it is what lets a proof know that a remainder is a byte). `MavReaders` are the
other readers. `MavUtil` is `mavfile`: target system, parameters, last messages, loss counts, arming, modes, requests.
`MavLink` puts them behind a line: peers send a script, some of it signed, of either version, with noise; losses,
repetitions and a caller of `recv_match` with a timeout and a clock that may be set back.

`MavPorts` has every stream class with the descriptor that `select` is given, and an other end that sends, closes, resets,
goes and comes back. `MavUdp` is the UDP server with its clients and their times.

Left out: addresses and options of sockets, conditions, RTCM and position helpers, the native decoder.

### File transfer

`c` in `MavFtp` holds the members of `MAVFTP` and the position of its thread; a handler is a function from the
members to the members, and one pass of `process_ftp_reply` (a packet or none, then `__idle_task`) is an action. `server` is
the vehicle, which has one session open at most and answers each request as it comes, `up` and `down` the link. Files are sets of
offsets. Left out: command line, progress callbacks, simulated packet loss, writing of parameter files.

### Logs, tools, playback

A dataflash log is a sequence of cells (headers and bodies, or lines) with damage where a damaged log has it. `MavLogs` has the
two indexers, the parsers, four clocks, units, multipliers, instances, `recv_match` by types with its skipping, and
`_rewind`. `MavTlog` reads frames after time stamps, in order or through an index. `MavLogTools` are functions of the messages
a reader returns; `MavPlayback` is the player with its timer, buttons and slider. Left out: conditions, output formats, plots,
fits, spectra, message and unit texts.

### Missions, points, parameters

`MavWp`: items with their index, every edit, `view_list`, both file formats and the older ones, and the mission taken from a log.
`MavPoints`: rally points counted from one and fences, a return point and a closed polygon. `MavParm`: `mavset` sends three
times and takes the next answer of that name; `load` sets what differs from the dictionary. `SetsReach` says what their
success means: a set that returns TRUE has set the vehicle unless an older message of that name was on its
way when it began (`stale`), and so has a load all of whose sets succeeded, unless the dictionary it skipped
lines by was not the vehicle's, or an older message about one of its lines could still change the vehicle behind it
(`Uncertain`). The second half of that premise was found by the proof: three calls are needed for a
PARAM_SET of the first to arrive after the third has skipped its line. Left out: `last_change`, colours, digits in files,
display of parameters.

### MavrosClient

`main` is the command's thread, `spin` the spinner; a call of a service is a request, its answer comes through the
spinner, which also runs callbacks. A callback that calls a service waits for the spinner it runs in. `others` change
parameters and missions at the vehicle meanwhile.

The services are those of mavros (`plugins/param.cpp`, `waypoint.cpp`, `ftp.cpp`), with what their success means
there, and all but listing and reading parameters may fail or refuse. Any PARAM_VALUE of the name fulfils the promise of a set (`Serve`, param.cpp:580), so
a set is told done whatever value the vehicle sent back. A pull hands the client what mavros has received, which may be less than the
vehicle has (`Pulls`), and `dump` does not look at its result. Opening a file with "w" does not truncate it, so writing puts bytes over those
that lie there (`Effect`, `Spliced`); "cw" creates it. `DoneMeansDone` says what is left of "done": the value of a set parameter, or an unread event that
contradicts it; a dump of what mavros has received; a remote file that begins with the local one, is equal to it
when it is new, and has its checksum when `--verify` asked for that. Simplified: a service that fails changes nothing at the vehicle;
what mavros has cached of a parameter is the vehicle's value; listing and reading parameters, which are services of the node itself,
always answer. `MavrosFiles` are parameter files in three styles, missions, and the
conversion of frames into messages of ROS and back. Left out: terminal output and plugin classes that only
declare topics.

## Runs

| Run | Parts and instance | Shows |
|---|---|---|
| services | mavros and timesync (depends on it, waits for its topics), 3 pids, 1 crash, every service and a signal | `TypeOK`, `SignalsOwnChild`, `StoppingIsTimed`, `OneInstance`, `ExitLeavesNone` |
| health | odin1_driver alone, 2 pids, give-up after one kill, one clock step of -2 or +2 periods, fork failures, 1 crash, every service | `GivenUpIsDown`, `GiveUpSticks`, `PromisesKept` (the refinement) |
| liveness | odin1_driver alone, 2 pids, a backward clock step, a child that ignores SIGINT | `AskedEnds`: signals, stops and give-ups come to an end |
| onboard | startup (two processes, two crashes), threads of the driver, reset requests, output of the bridge | `RequestKept`, `StartupConverges`, `DriverServes`, `RequestsArrive`, `OutputGoesOn` |
| clock | a window of 3, a clock 12 units off, a jump of GPS time of -9 or +6, round trips inside and outside the limit, one reference on its way; and the slewing loop in microseconds | `LoopStable`, `StepsImprove`, `ClockKept` |
| recorder | four configurations, disk of 3 units, slices of up to 2, 2 flights, one crash or lost link, one forward clock step | `NeverIdle`, `SlicesEnd`, `QuietWhenDisarmed`, `SlicesKept`, `Recovers` |
| files | dialects on three levels, twelve dataflash logs, eight telemetry logs, two recordings to play, some ten thousand small logs for the tools | `DialectsSound`, `ReadsWhatWasWritten`, `LogsRead`, `TlogsRead` (with what a player sends), `ToolsSound` |
| links | every stream class, three UDP clients, seventeen scenarios of a link | `PortsSound`, `ClientsServed`, `NothingSwallowed`, `AcceptedOnce`, `CallersServed`, `Reconnects` |
| ground | item lists of three, views of four, two rally and four fence points, uploads in logs, two parameters, file transfers with two losses, mavros commands | `ListsSound`, `FilesSound`, `TransfersSound`, `DoneMeansDone`, `PointsSound`, `SetsReach`, `CallsEnd` |
| claim_giveup, claim_flight, claim_unplug | as small as the violation allows | a documented statement and the behaviour that breaks it |

acfly_daemon. Two processes are enough for everything that relates a process to another one
(dependencies, pids passed from one to the other, the order in `shutdown_all`); three pids
let a restarted process get an id a different process had before. All thresholds are 1 or 2
periods so that just below, at and above are all reached; `AgeCap` is one above them or at the first age
at which a condition holds. SIGINT may be ignored for ever in every run. Pids are symmetric: no
action compares them. `StartWhileStopping` is FALSE: `~/start` of a process in STOPPING launches a second
instance (`acfly_daemon_node.cpp:750`), after which neither `OneInstance` nor the refinement holds; with that
request excluded they hold for everything else. The services run with all other requests at any moment.

timesync. In the code the kernel slews 1.5 ms within the grace period and the threshold is 500 ms;
the instance keeps that order (2 and 8 units), without which `StepsImprove` is a different question.
The initial error and the jumps lie on both sides of the threshold. `MayFail` is FALSE: with
failing steps the window holds samples of another clock, and no step is promised to improve
anything. The loop is the second instance of the same run: window 30, gain 20, one reference per
10 periods, a disturbance of 20 ms; it has a single behaviour and checks the numbers rather than the
interleavings. With the default window of 300 samples in place of the 30 of `timesync.yaml` the
same disturbance grows, against "stable, monotonic convergence" in the comment on `apply_slew`.

bag_logd. Slices of one and of two units, a limit of one and a disk of three reach all cases: several
slices to delete, nothing left to delete but the active one, and a disk that is full before it
is checked. `MaxTime` stops the clock at second 2 but not the timers. Clock steps only
go forward: the order of the slices does not survive a backward step.

onboard. A device that comes twice shows what a session leaves to the next, and an IMU queue of two that it is
full. In `requests` and `output` a thread that has something to do moves before the others, because only the main
thread touches the command file; in `requests` the device is plugged in once and odometry stays degraded, the
program is killed once and operators write at any time; in `output` the driver goes on, the clock is stepped once by
-1 or +2 periods, and stamps are up to one period ahead of the clock. The bound of the
counter is one message, the cooldown two periods, the suppression one; ages end at 3, above all of them.

files. Dialects have every element size, arrays, strings, extensions, a repeated and a diamond include, and each way in
which a set can be wrong once. Logs have each of the four clocks, each kind of damage before, between and after messages.
The tools are asked with each option over all sequences of four messages of a kind. A reader reads up to three times.

links. Three sockets are two reconnections; three clients make a write visit an expired one between two live ones, and a
timeout of two and four ticks let each expire and return. The scenarios cover each reader, both versions in one stream,
noise that looks like a header, unknown messages, signed messages of a right and a wrong key with the link's clock
ahead and behind, two losses and up to two repetitions, a caller whose clock is set back, and requests.

ground. Four items are the first length in which a jump, its target, a landing start and an item between them
differ. Two parameters, two stray messages and three calls (`MaxSets`) let an answer be taken for another's, and an old
message outlive the call after its own. Files of up to seven
bytes in bursts of three blocks have gaps at the start, between and at the end; two losses and one packet that comes late
reach every retry. `Careful` is TRUE: a caller cancels after a call that timed out, otherwise the next one works with
what the last one left (see the notes below). The client's files have three items and pages of two; one other
program changes things once.

### Fairness

acfly_daemon. `WF(Step)`: a callback that runs goes on. `SF(Tick)` and `SF(shutdown_all("signal"))`: the
executor takes a due timer before services and subscriptions, so no stream of requests keeps
it from firing. `WF` of the exit of a child hit by SIGKILL: the kernel's promise. `WF(Advertises)`:
a program that keeps running creates its publishers. Nothing is assumed about SIGINT.

timesync. `WF(monitor_cb)`: a wall timer of a node that spins. `SF(Measure)` and
`SF(time_ref_cb)`: while references are sent, some have a fix and some arrive; single losses stay possible.

bag_logd. Weak fairness of the timers and of handling a waiting message; `SF(RetryOpens)` and `SF(Arm)`:
opening a slice does not fail for ever. Nothing is assumed about `others`; the premise of `Resumes` names
the space that is needed.

odin_ros_driver, acfly_odometry. `WF` of each thread; the callbacks of an attached device come again. `SF(ReadLine)`: the
poller looks ten times a second and a writer leaves the file empty for microseconds, so it does not find it empty every
time. Nothing is assumed about the device, operators or the supervisor. The bridge: `WF` of its timer, and of its
subscription while the driver publishes.

links. `WF` of opening, reading and writing: the program is one that reads in a loop and writes its heartbeats. Nothing is assumed
about the other end. `Reconnects` needs the writes: a serial port is only reset, and a lost client only noticed, by one that fails.

file transfer. The loop takes a packet or goes on without one; the server answers; a call that was given up is finished.
Packets may be lost up to the bound. mavros client: the two threads and the services go on; nothing is
assumed about topics or the vehicle.

### Findings

Each is a run of its own that TLC ends with a counterexample: see `findings` in
`PROJECT.json`. In short:

* giving up a driver can end the daemon, since a time that was never set is subtracted (`claim_giveup`);
* a restart or a lost link in flight makes the recorder delete the flight's slices (`claim_flight`);
* unplugging the sensor can block the SDK's thread for ever, because the wake-up of the IMU thread is lost
  between its look at the flag and its sleep (`claim_unplug`).

Smaller divergences, most of them in the models or outside the premises of their properties; no run is spent on them:

* acfly_daemon: `~/start` of a STOPPING process forks a second instance (`:750`; `:299` speaks of one); dependencies are
  only looked at for the first start (`:71` says "only when all are RUNNING"); `check_started` takes a zombie for a running
  child (`:517`); `shutdown_all` ends the longer `shutdown_timeout_sec` of a process early (`:726`); odometry the old
  instance left in the queue arms the health check (`:545`); `~/stop` of everything
  leaves RESTARTING and PENDING processes to be started again (`:707`); SIGKILL hits the `ros2 launch` wrapper only (`:427`).
* timesync: a forward step ages the stamp of the reference that caused it, so that the next monitor period may report a loss
  (`:120`); an implausible round trip does not drop the sample (`PROCESS.md:21` says it does);
  INIT steps the clock however small the offset is (`PROCESS.md:47` says it slews);
  HOLD steps within the grace period (`PROCESS.md:65` says 3 s without another step); after a
  backward step a loss of GPS stays unnoticed for as long as the step was (`PROCESS.md:54` says 5 s);
  an offset of exactly zero counts as a failed bootstrap (`:249`).
* bag_logd: opening a slice on a low disk waits for space, and clean-up for a recording (`:574`); `PROCESS.md:22`
  names a check of free space on arming that does not exist; the mtime fallback
  orders only the first slice after a backward clock step (`:378`); a disarm and arm between two messages is
  not seen, and one recording spans both flights (`:268`).
* acfly_odometry: its PROCESS.md has a cooldown of 5 s, a bound of 30, a counter set to zero by a good message and a reset that
  leaves output alone; the code has 2 s, 20, a decrement, and one second without output, in which
  one message is judged again at every tick. A message from before the reset may be published after that second, and a
  backward clock step suppresses output for as long as it was.
* odin_ros_driver: the signal handler and the detach callback may both join the IMU thread; a command written between
  reading and removing the file is lost.
* generators: Python 0.9 and JavaScript do not read back arrays they wrote, Swift not arrays of enums, Spin2 no arrays and no
  8-byte values; TypeScript loses array lengths; includes deeper than the limit leave tables incomplete; Java's
  CRC table has the first file only; a file given relative to the directory and included is parsed twice.
* links: after a version 2 frame `bytes_needed` over-reads a version 1 one; `auto_mavlink_version` drops signing, the buffer and the
  sequence number; a repeated datagram adds 255 to `mav_loss`; the nextgen JavaScript reader never advances a
  stream's time stamp; the dissector ends at junk; the Spin2 parser swaps the checksum and takes no version 1 frame.
* ports: a failing write of the UDP server after a client expired leaves its time unknown and a later write
  raises `KeyError` (`mavutil.py:1098`); a write in which all expire reaches nobody (`:1101`); `mavtcp` and
  `mavwebsocket_client` leave `fd` at the old socket; a serial port is reset only by a failing write;
  `mavtcpin` and `mavwebsocket` do not notice a clean end by reading.
* file transfer: `read()` overrides the requested size; an answer to a listing that timed out is mixed into the next; `get`
  after a partial read works on what the read left; putting an empty file reports success early.
* logs and tools: `_rewind` replaces the messages despite its comment (`DFReader.py:806`); `recv_match` keeps the types of its first call
  until a rewind; with damaged lines a text log returns messages twice; one byte of noise can cost the rest of a
  telemetry log; a short version 1 frame behind a longer one eats the next time stamp; `mavmerge` reads the
  first log twice (`mavmerge.py:53`); `mavfixtimedrift` reverses the order when the clock ran twice as
  fast; `mavplayback` never sends the last message; `mavextract` overwrites its files.
* missions and points: a `remove` of several items that raises half-way leaves indices behind (`mavwp.py:112`); a jump to a
  negative index makes `view_list` loop; removing fence point 0 or moving point -1 opens the fence; rally points
  load with their land direction times 100; `mavset` takes any answer of the name for its own.
* mavros client: `takeoffcur` and `landcur` call a service in a callback of the only spinner and report a timeout although the
  vehicle took off (`cmd.py:225`, `:251`); parameter events that differ do the same (`param.py:348`); a late event sets
  an older value back; after a timeout `points` returns nothing at the next call (`mission.py:202`); refused
  values stay in the dictionary (`param.py:269`); a float whose text has no point cannot be loaded again; files are saved as
  "QGC WPL 120", which pymavlink refuses; a received version 2 frame is rebuilt wrongly (`mavlink.py:127`).

## Proofs

All hold for every value of the constants that the named assumptions allow.

`AcflyDaemonProofs` (`DaemonAssumption`: types of the constants, a positive backoff):

* `TypeCorrect`: `Spec => []TypeOK`. One lemma per handler says which fields of the
  records it touches, so that the invariants need no case analysis over record updates.
* `SignalsOwnChildAlways`. The inductive invariant (`Owned`) adds to it that every pid the daemon keeps is
  kept for one process only, and that a pid with state "free" has no process.
* `StoppingIsTimedAlways`. It needs that only `request_stop` enters STOPPING, with a pid.
* `GiveUpSticksAlways`: a driver given up is not PENDING, the only state the timer launches from without `auto_restart`.

The others assume that `~/start` is never called for a STOPPING process (`~StartWhileStopping`):

* `OneInstanceAlways`: the strengthening (`Exclusive`) says that every executing instance is the managed
  one of its process, or that its process is in a state from which it cannot be launched.
* `ExitLeavesNoneAlways`: the same strengthening, with what `shutdown_all` leaves behind.
* `GivenUpIsDownAlways`: what is left of a driver given up is a record in STOPPED, or a child that executes no more and carries
  the mark of a stop (`GivenUpMarked`). Every handler ends that record, keeps what counts in it, or brings the driver back.
* `PromisesKeptAlways`: `Spec => Sup!Spec`, the refinement of `Supervision`. On top of `Exclusive` it needs `Marked`: a process that
  is down is not marked as stopping, a marked one has got its signal or has ended, and nothing comes up while
  `shutdown_all` runs. Each handler is shown to leave an instance as it is, or to end, launch, ask or kill it.

`BagLogdProofs`, for every configuration and every size of disk, limit, slice and clock step:

* `NeverIdleAlways`, `SlicesEndAlways` and `QuietWhenDisarmedAlways`. They are one inductive invariant,
  `Lifecycle`: none of the three survives a failed rotation or a disk check without the others, nor
  without the fact that the flag and the active slice go together.
* `ActiveKeptAlways`: `TypeOK`, no two slices in one directory, and the slice being written is on disk. Three conjuncts
  stand on top of `Lifecycle`: `World` (types of the surroundings), `Storage` (a finite set of slices with
  distinct names, the current one among them while recording) and `Flown`. That the name
  chosen for a new slice is free is a lemma of its own: there are more suffixes to try than directories.
* `FlightKeptAlways`: of a flight that nothing cut off no slice goes while there is space. `Flown` is for it: while such a
  flight is on no message says that it is over, and it has slices only once the node has taken notice of its start.
* `SlicesKeptAlways`, assuming that the clock is never stepped back (`ClockSteps \subseteq Nat`): slices then go in
  the order in which they were made. One more conjunct carries it, `Ordered`: names grow with the order of creation,
  and none is later than the clock. With a step back it is not inductive, nor is the property true; the
  runs step the clock forward or not at all.

`AcflyOdometryProofs`, for any number of commands, kills and unplugged devices:

* `RequestKeptAlways`. The invariant adds `Files` (the types of the file, of what each writer holds open and of the line
  read, and that a driver that has read and not removed still finds a file) and `OneRequest` (once a reset is done no other is
  under way, and a driver that has removed a reset is about to carry out the only one there is). The property is about steps, so each
  action is shown to preserve the invariant and to let go of a request only for one of the four causes (`Good`). A request that a
  kill, SIGINT or a missing device takes between `RemoveFile` and the end of `Execute` is lost, and the statement says so.

`MavPortsProofs` (`PortsAssumption`, `UdpAssumption`), for any devices, any number of sockets, every set of addresses and
timeout and however many sends fail:

* `PortsSoundAlways`. It needs to know which kinds of connection can be without a port or hold the fake one (`Numbered`), and
  that the kernel's socket is in a known state and a WebSocket client past its handshake (`SocketKnown`).
* `ClientsServedAlways`. The invariant adds that a known time is the time that address was last heard at, and that whoever was
  heard within the timeout has one; a write that stops half-way breaks the second for silent clients only.

`MavLinkProofs` (`FrameAssumption`: sizes and extra bytes of messages are numbers; `ScenariosAssumption`: scripts are made
of bytes), for any scripts, peers, keys, noise, losses, repetitions and cuts into reads:

* `AcceptedOnceAlways`. The invariant has three parts. `LineTyped`: the peers, what is on the line and what was
  put there are made of bytes. `Reading`: what was accepted was cut whole, with room for the signature its header
  announces; it is here that the length must come from the first three bytes of the buffer (`FrameCut`). `Stamped`: as
  long as there is a key, the stored time stamp of a stream is no older than any message accepted from it. One lemma per
  method of the connection says whether it touches the `MAVLink` object; only `auto_mavlink_version` and
  `disable_signing` do, and both leave no key. The digest itself plays no part: the stamp is stored before it is compared.

`MavListsProofs` for `MavParm` (`ParmAssumption`), for any number of parameters, values, retries, calls and stray messages:

* `SetsReachAlways`. The invariant: the records have their fields and a vehicle answers for parameters it has (`Formed`), the
  lines left are the end of the file (`InPlace`), the set that runs is that of the line before them (`Current`), everything
  under way about its parameter is from this set unless an older message is counted (`Ours`), and while a load has
  not failed dictionary, vehicle and messages agree and the lines read are at the vehicle (`Kept`). `Kept` fails
  without the exception for older messages: an answer is known by its name alone.

`MavListsProofs` for `MavPoints` and `MavWp` (`PointsAssumption`, `WpAssumption`: what the lists and files are given is made of items and points), for
lists and files of any length:

* `PointsSoundAlways`: rally and fence points carry their own numbers, and no move or removal opens a closed fence. The invariant
  (`PointsInv`) gives the lists their types; what `load` makes of a file is a fold over its lines.
* `ListsSoundAlways`: items know their places (`WpInv`), and `view_indexes` and `view_list` end and draw the whole of every mission whose
  jumps stay in it. Both are loops whose state is a record. `ViewInv` says what a view has shown and joined so far; a view ends
  because each step lowers `Left`, which counts first the items not done and then how far the index is from the end; a list of views ends because each view adds to what is done.

Both need induction over data, which the library offers for operators only. The first lemmas of the module give it for sets and functions:
every set of naturals that is not empty has a least element, since intervals are finite (`Least`), so what
holds at 0 and goes on holds everywhere (`UpTo`); hence the function a fold is defined by exists and stays in every set its
steps do not leave (`FoldExists`, `FoldIn`), and so does that of a loop (`StepsExist`).

`MavFtpProofs` (`FtpAssumption`; callers cancel what an earlier call left open, `Careful`), for any files, directory, sizes of
packets, bursts and queues, losses and delays:

* `TransfersSoundAlways`. A state is in one of eight phases, and the invariant (`IInv`) says for each what the client
  holds, what may be on the link and what the server has: asking for a file (`Asking`), reading it (`Downloading`), putting one (`Putting`), a listing,
  a single request, a `read()` that failed (`Failing`), the end of a session (`Ending`) and nothing (`Ready`). The heart is `Downloads`: from where the download began
  up to the write position every byte is there or in exactly one gap, gaps lie apart, hold no byte that is there, and
  each has its time; the bytes counted (`read_total`) are no more than those there; every packet on its way is of this file and,
  if it is short, its last. This is what `reached_eof`, an empty list of gaps and the count each rest on when they end a download (`WholeRead`). A put needs that
  a block is taken off the list only once the server has it, and a listing that the one packet under way asks for, or holds, the next name.
  Sessions keep calls apart: packets of an earlier call carry a smaller session, and every phase leaves room for those the retries
  and the end of the call will use (`Limit`), so that the byte the session is kept in does not begin anew. Three assumptions are not about types: a
  tick is `retry_time`; `read_retry_time` is no longer than the time after which a call counts as idle, which `__idle_task` asserts; and at most 63 calls are made, each of
  which uses up to four of the 256 sessions. Without the last a reply to an earlier call could be taken for one to this.

The gaps and blocks are sent in folds, so the lemmas on naturals and folds are stated here too, over sequences of any elements
(`Sequential`). The proof found what TLC could not: arms of `Served` and `Decoded` overlapped, and TLA+ leaves the
choice between them open where TLC takes the first. They are disjoint now, as those of `start_element` and `ClockOrGoOn` are.

`MavrosClientProofs` (`ClientAssumption`: numbers for items, bytes and sizes, at least one call, finitely many parameters), for any commands
with any arguments, any parameters of the vehicle, any mission and size of a page, with services failing or refusing
when it likes:

* `DoneMeansDoneAlways`. `DoneMeansDone` alone is far from inductive: what the user is told rests on an answer
  given some steps before, for a request sent before that. `Flow` follows the call: the main thread has one under way exactly where it
  waits for one, as a request, as an answer on its way or as the answer taken (`Calls`); nothing but the topic subscribed
  to is heard (`Heard`); a spinner that waits has called once and goes on waiting. On top of it one part for each kind of command says
  what the request under way will do and what the answer under way means: what mavros has received and listed (`ListFlow`), what is left to set and what is
set, or noticed to be not (`SetFlow`: a set value is in the dictionary, so that an event with another makes the spinner call), that everything a dump
hears and sends back is of what mavros received (`DumpFlow`), whose mission is published (`ShowFlow`) and how a push makes it that of the file
with the home to be kept (`LoadFlow`), how many calls have been made (`CallFlow`), that a heard mode is the mode (`ModeFlow`), that
the remote file holds the local one up to the page under way, and nothing more if it is new (`FileFlow`), and that the checksum kept so far is that of
those pages (`SumFlow`). The last needs that `nuttx_crc32` of two pieces is that of the second begun with the sum of the first
(`GoesOn`). It is a recursive function: `Least`, the smallest number without a property, and `UpTo` give the induction that the provers cannot instantiate.
One hypothesis is not about types: `Few` is at least one, without which a client that has heard of no parameter would not ask for the list.
Nothing is assumed of checksums: two files may share one, and then `verify` says done of either.

The bounds `MaxCrashes`, `MaxJumps`, `AgeLimit`, `MaxTime`, `MaxSteps`, `MaxItems`, `MaxNews`, `MaxLoss`, `MaxLate` are arbitrary in the proofs.

Only model-checked, and why:

* all liveness properties (`AskedEnds`, `StartupConverges`, `DriverServes`, `RequestsArrive`, `OutputGoesOn`, `ClockKept`,
  `Recovers`, `Reconnects`, `CallsEnd`): the prover has no fairness and no ENABLED;
* `TimeSync`: `LoopStable` and `StepsImprove` rest on the median of a window, on sums over it and on the numbers of the
  loop, hence on arithmetic with division over sorted sequences;
* `NothingSwallowed` and the part of `CallersServed` that counts: both say what a fold over all messages gives, through the byte loop of the parser;
* `DialectsSound`, `ReadsWhatWasWritten`, `LogsRead`, `TlogsRead`, `ToolsSound`, `FilesSound`: what functions over a whole file or
  table return, compared with a reference definition over bounded inputs; a proof would have to follow each function by an
  induction of its own.

## Not modelled

`components` in `PROJECT.json` lists every part with the reason. In short:

* the image and cloud nodes of the Odin driver are floating-point geometry over arrays; its configuration reader and data logger
  are sequential file access; the calls that configure a device have no state here;
* the router and plugins of mavros are an upstream C++ project that this repository only launches; its effects on the daemon, the recorder,
  timesync and the client are in their environments;
* numerical helpers and tools of pymavlink (`mavextra.py`, attitude and navigation formulas, fits, spectra, magnetic
  calibration), plots, the evaluation of conditions, the FUSE front end and single-purpose scripts;
* the native C decoder and the parsers other generators copy from templates;
* desktop tools, documentation scripts and install scripts hold no state of a running system.

## What could follow

* `TransfersSound` beyond 63 calls, from a bound on how late a packet of an earlier session may come.
* `LogsRead` for the index of offsets, with the lemmas on folds and loops of `MavListsProofs`.
* The refinement of `AcflyDaemon` without the assumption `~StartWhileStopping`, of an abstract supervisor with two instances.
* An abstract specification of the recorder: flights as sets of slices, of which only the oldest go.
* The router of mavros: endpoint and address tables, with endpoints that come and go.
