---------------------------- MODULE AcflyDaemon ----------------------------
(***************************************************************************)
(* The process supervisor of acfly_daemon_node.cpp.  The node runs under a *)
(* single-threaded executor, so the timer callback, the five services and  *)
(* the odometry callback never overlap; what interleaves with them is the  *)
(* kernel (children exit at any moment), the publishers, the clock and the *)
(* two loops that block the executor (a named restart, shutdown_all).      *)
(*                                                                         *)
(* Every timer callback is split at its seven numbered steps, in the order *)
(* of the source, so children can exit between two of them.  Time is kept  *)
(* as ages: the number of polling periods since a time stamp was taken,    *)
(* saturated at AgeCap.  Stamps taken with now() (ROS time, which follows  *)
(* CLOCK_REALTIME) are shifted by Jump; the stamps of the odometry health  *)
(* check come from steady_clock and are not.                               *)
(***************************************************************************)
EXTENDS Integers, FiniteSets

CONSTANTS
  Procs,            \* names of processes_, in the order of Rank
  Rank,             \* position of a process in processes_
  Odin,             \* the name "odin1_driver"; it need not be in Procs
  Deps,             \* dependencies of a process
  WaitFor,          \* processes that advertise the wait_for_topics of a process
  AutoRestart,      \* auto_restart as configured
  StopTimeout,      \* shutdown_timeout_sec
  GracefulTimeout, InitialBackoff, MaxBackoff, MinUptimeReset,
  OdinTimeout, OdinMaxFails, OdinResetUptime,
  Pids, NoPid,      \* process ids of the kernel; NoPid is the -1 of the code
  AgeCap,           \* ages saturate here, above every threshold
  Jumps,            \* amounts by which the ROS clock may be stepped
  MaxJumps,         \* bound: how often the ROS clock is stepped
  MaxCrashes,       \* bound: unexpected exits of children
  Requests,         \* services that are called: "start", "stop", "restart", "all",
                    \* "shutdown" (a signal or ~/shutdown)
  ForkMayFail,      \* whether fork() may fail although pids are left
  StartWhileStopping \* whether ~/start is ever called for a STOPPING process

ASSUME DaemonAssumption ==
  /\ Rank \in [Procs -> Nat]
  /\ Deps \in [Procs -> SUBSET Procs]
  /\ WaitFor \in [Procs -> SUBSET Procs]
  /\ AutoRestart \in [Procs -> BOOLEAN]
  /\ StopTimeout \in [Procs -> Nat]
  /\ GracefulTimeout \in Nat
  /\ InitialBackoff \in Nat \ {0} /\ MaxBackoff \in Nat
  /\ InitialBackoff <= MaxBackoff
  /\ MinUptimeReset \in Nat
  /\ OdinTimeout \in Nat /\ OdinMaxFails \in Nat /\ OdinResetUptime \in Nat
  /\ NoPid \notin Pids
  /\ AgeCap \in Nat
  /\ Jumps \subseteq Int
  /\ MaxJumps \in Nat /\ MaxCrashes \in Nat
  /\ ForkMayFail \in BOOLEAN /\ StartWhileStopping \in BOOLEAN

VARIABLES
  mp,           \* the ManagedProcess records, without the reported fields
  os,           \* what the kernel holds under a pid
  prog,         \* the process a pid was forked for, NoPid if it is free
  odin,         \* members odin_health_* of the node
  odomQ,        \* instance whose odometry waits in the subscription queue
  advertised,   \* processes whose topics are in the ROS graph
  sig,          \* g_signal_received
  shuttingDown, \* shutting_down_
  left,         \* deadline - now() of shutdown_all
  pc, call,     \* where the executor is, and for which caller
  jumps, crashes \* how much of the two environment bounds is used

vars == <<mp, os, prog, odin, odomQ, advertised, sig, shuttingDown, left,
          pc, call, jumps, crashes>>

daemonCtl == <<sig, shuttingDown, left, call>>
environment == <<odomQ, advertised, jumps, crashes>>

ProcessState ==
  {"PENDING", "STARTING", "RUNNING", "RESTARTING", "STOPPING", "STOPPED"}

ManagedProcess ==
  [state : ProcessState, pid : Pids \cup {NoPid}, auto_restart : BOOLEAN,
   stopping : BOOLEAN, backoff : InitialBackoff .. MaxBackoff,
   age : Int,         \* since start_time, or crash_time while RESTARTING
   stop_age : Int,    \* since stop_request_time
   stop_timed : BOOLEAN] \* stop_request_time was assigned from now()

KernelState == {"free", "alive", "int", "dying", "zombie"}
ThreadState ==
  {"idle", "tick_reap", "tick_timeouts", "tick_started", "tick_health",
   "tick_restarts", "tick_pending", "restart_loop", "restart_sleep",
   "restart_reap", "restart_timeouts", "shutdown_loop", "shutdown_timeouts",
   "shutdown_sleep", "shutdown_kill", "exited", "aborted"}
Callers == {"stop_all", "restart_all", "signal", "none"}

Init ==
  /\ mp = [p \in Procs |->
             [state |-> "PENDING", pid |-> NoPid,
              auto_restart |-> AutoRestart[p], stopping |-> FALSE,
              backoff |-> InitialBackoff, age |-> 0,
              stop_age |-> 0, stop_timed |-> FALSE]]
  /\ os = [x \in Pids |-> "free"]
  /\ prog = [x \in Pids |-> NoPid]
  /\ odin = [armed |-> FALSE, fails |-> 0, msg_age |-> 0, run_age |-> 0]
  /\ odomQ = NoPid
  /\ advertised = {}
  /\ sig = FALSE /\ shuttingDown = FALSE /\ left = 0
  /\ pc = "idle" /\ call = "none"
  /\ jumps = 0 /\ crashes = 0

----------------------------------------------------------------------------
(* Signals and process ids.                                                *)

\* An instance that still executes its program.
Executing == {x \in Pids : os[x] \in {"alive", "int"}}
Managed == {mp[p].pid : p \in Procs}

\* kill(pid, SIGINT) and kill(pid, SIGKILL) for the pids of X.  A zombie takes
\* no signal; a process that got SIGINT may exit when it likes, or never.
Interrupt(X) == [x \in Pids |-> IF x \in X /\ os[x] = "alive" THEN "int" ELSE os[x]]
Kill(X) == [x \in Pids |-> IF x \in X \cap Executing THEN "dying" ELSE os[x]]

\* Replaces the record of every p in S by Upd(mp[p]).
Each(S, Upd(_)) == [p \in Procs |-> IF p \in S THEN Upd(mp[p]) ELSE mp[p]]

\* request_stop on those processes of S that have a pid, force_kill likewise.
HavePid(S) == {p \in S : mp[p].pid # NoPid}
StopRequestedUnmarked(m) ==        \* mutant: stopping is not set
  [m EXCEPT !.stop_age = 0, !.stop_timed = TRUE, !.state = "STOPPING"]
StopRequested(m) ==
  [m EXCEPT !.stopping = TRUE, !.stop_age = 0, !.stop_timed = TRUE,
            !.state = "STOPPING"]
ForceKilled(m) ==
  [m EXCEPT !.stopping = FALSE, !.pid = NoPid, !.state = "STOPPED"]

request_stop(S) ==
  /\ mp' = Each(HavePid(S), StopRequested)
  /\ os' = Interrupt({mp[p].pid : p \in HavePid(S)})

force_kill(S) ==
  /\ mp' = Each(HavePid(S), ForceKilled)
  /\ os' = Kill({mp[p].pid : p \in HavePid(S)})

\* kill_zombie: instances of the processes in S that nobody manages.  The
\* command line of a direct child holds args.back(), that of a zombie is empty.
kill_zombie(S) == {x \in Executing : prog[x] \in S /\ x \notin Managed}

Forked(m, x) == [m EXCEPT !.pid = x, !.state = "STARTING", !.age = 0]
ForkFailed(m) == [m EXCEPT !.state = "RESTARTING", !.age = 0]

\* start_process for every process of S, whose records the caller has set to m.
\* fork() gives out ids the kernel does not hold, and fails for F.
start_process(S, m, o) ==
  \E F \in SUBSET S :
    LET Free == {x \in Pids : os[x] = "free"}
        U == S \ F
    IN /\ F # {} => ForkMayFail \/ Cardinality(Free) < Cardinality(S)
       /\ \E f \in [U -> Free] :
            /\ \A p, q \in U : f[p] = f[q] => p = q
            /\ mp' = [p \in Procs |-> IF p \in F THEN ForkFailed(m[p])
                                      ELSE IF p \in U THEN Forked(m[p], f[p])
                                      ELSE m[p]]
            /\ os' = [x \in Pids |-> IF \E p \in U : f[p] = x THEN "alive"
                                     ELSE Kill(kill_zombie(S))[x]]
            /\ prog' = [x \in Pids |-> IF \E p \in U : f[p] = x
                                       THEN CHOOSE p \in U : f[p] = x
                                       ELSE prog[x]]
            /\ odin' = IF Odin \in U
                       THEN [o EXCEPT !.armed = FALSE, !.run_age = 0]
                       ELSE o

----------------------------------------------------------------------------
(* The steps of on_timer; the two blocking loops share the first two.      *)

\* waitpid(-1, WNOHANG) until nothing is left: every zombie is collected.
ReapedKeepsPid(m) ==               \* mutant: a stopped process keeps its pid
  IF m.stopping THEN [m EXCEPT !.stopping = FALSE, !.state = "STOPPED"]
                ELSE [m EXCEPT !.pid = NoPid, !.state = "RESTARTING", !.age = 0]
ReapedStaysStopping(m) ==          \* mutant: the state of a stopped process is kept
  IF m.stopping THEN [m EXCEPT !.pid = NoPid, !.stopping = FALSE]
                ELSE [m EXCEPT !.pid = NoPid, !.state = "RESTARTING", !.age = 0]
ReapedAsCrashed(m) ==              \* mutant: every exit counts as a crash
  [m EXCEPT !.pid = NoPid, !.state = "RESTARTING", !.age = 0]
ReapedAsStopped(m) ==              \* mutant: every exit counts as a stop
  [m EXCEPT !.pid = NoPid, !.stopping = FALSE, !.state = "STOPPED"]
Reaped(m) == IF m.stopping
             THEN [m EXCEPT !.pid = NoPid, !.stopping = FALSE, !.state = "STOPPED"]
             ELSE [m EXCEPT !.pid = NoPid, !.state = "RESTARTING", !.age = 0]

reap_children(from, to) ==
  LET Z == {x \in Pids : os[x] = "zombie"}
  IN /\ pc = from /\ pc' = to
     /\ mp' = Each({p \in Procs : mp[p].pid \in Z}, Reaped)
     /\ os' = [x \in Pids |-> IF x \in Z THEN "free" ELSE os[x]]
     /\ prog' = [x \in Pids |-> IF x \in Z THEN NoPid ELSE prog[x]]
     /\ UNCHANGED <<odin, daemonCtl, environment>>

\* Subtracting a stop_request_time that was never assigned (its clock type is
\* the default one) from now() throws, and nothing catches it: the node
\* aborts, after force_kill of the late processes before it in the list.
Stopping == {p \in HavePid(Procs) : mp[p].stopping}
Untimed == {p \in Stopping : ~mp[p].stop_timed}
Late == {p \in Stopping : mp[p].stop_timed /\ mp[p].stop_age > StopTimeout[p]}

check_stop_timeouts(from, to) ==
  /\ pc = from
  /\ IF Untimed = {}
     THEN force_kill(Late) /\ pc' = to
     ELSE /\ force_kill({p \in Late : \A q \in Untimed : Rank[p] < Rank[q]})
          /\ pc' = "aborted"
  /\ UNCHANGED <<prog, odin, daemonCtl, environment>>

\* kill(pid, 0) succeeds for every pid the daemon has not reaped, a zombie
\* included, so a STARTING process with a pid always becomes RUNNING.
check_started ==
  LET ready(p) == /\ mp[p].state = "STARTING" /\ mp[p].pid # NoPid
                  /\ os[mp[p].pid] # "free"
      runs(p) == ready(p) \/ mp[p].state = "RUNNING"
      settled(p) == /\ runs(p) /\ mp[p].backoff > InitialBackoff
                    /\ mp[p].age >= MinUptimeReset
  IN /\ pc = "tick_started" /\ pc' = "tick_health"
     /\ mp' = [p \in Procs |->
                 [mp[p] EXCEPT !.state = IF ready(p) THEN "RUNNING" ELSE @,
                               !.backoff = IF settled(p) THEN InitialBackoff ELSE @]]
     /\ UNCHANGED <<os, prog, odin, daemonCtl, environment>>

odinChecked == /\ Odin \in Procs
               /\ mp[Odin].state = "RUNNING" /\ mp[Odin].pid # NoPid
               /\ odin.armed
odinStalled == odin.msg_age > OdinTimeout
odinGivesUp == odin.fails >= OdinMaxFails
GivenUpUnmarked(m) ==              \* mutant: the exit to come counts as a crash
  [m EXCEPT !.auto_restart = FALSE]
GivenUp(m) == [m EXCEPT !.auto_restart = FALSE, !.stopping = TRUE]

check_odin_health ==
  /\ pc = "tick_health" /\ pc' = "tick_restarts"
  /\ \/ /\ ~odinChecked
        /\ UNCHANGED <<mp, os, odin>>
     \/ /\ odinChecked /\ ~odinStalled
        /\ odin' = [odin EXCEPT !.fails =
                      IF odin.run_age >= OdinResetUptime THEN 0 ELSE @]
        /\ UNCHANGED <<mp, os>>
     \/ /\ odinChecked /\ odinStalled /\ odinGivesUp
        /\ mp' = [mp EXCEPT ![Odin] = GivenUp(@)]
        /\ os' = Kill({mp[Odin].pid})
        /\ odin' = [odin EXCEPT !.armed = FALSE]
     \/ /\ odinChecked /\ odinStalled /\ ~odinGivesUp
        /\ os' = Kill({mp[Odin].pid})
        /\ odin' = [odin EXCEPT !.armed = FALSE, !.fails = @ + 1]
        /\ UNCHANGED mp
  /\ UNCHANGED <<prog, daemonCtl, environment>>

Doubled(b) == IF 2 * b < MaxBackoff THEN 2 * b ELSE MaxBackoff

Due == {p \in Procs : /\ mp[p].state = "RESTARTING" /\ mp[p].auto_restart
                      /\ mp[p].age >= mp[p].backoff}
handle_restarts ==
  /\ pc = "tick_restarts" /\ pc' = "tick_pending"
  /\ start_process(Due, [p \in Procs |->
                           IF p \in Due THEN [mp[p] EXCEPT !.backoff = Doubled(@)]
                                        ELSE mp[p]], odin)
  /\ UNCHANGED <<daemonCtl, environment>>

dependencies_running(p) == \A d \in Deps[p] : mp[d].state = "RUNNING"
topics_ready(p) == WaitFor[p] \subseteq advertised

handle_pending ==
  /\ pc = "tick_pending" /\ pc' = "idle"
  /\ start_process({p \in Procs : /\ mp[p].state = "PENDING"
                                  /\ dependencies_running(p) /\ topics_ready(p)},
                   mp, odin)
  /\ UNCHANGED <<daemonCtl, environment>>

\* The timer fires every period; the executor runs it when it is idle, and a
\* period is also what one usleep of the two blocking loops stands for.
Sat(a) == IF a > AgeCap THEN AgeCap ELSE a

Aged(m, d) == [m EXCEPT !.age = Sat(@ + d),
                        !.stop_age = IF m.stop_timed THEN Sat(@ + d) ELSE @]
Shifted(d) == [p \in Procs |-> Aged(mp[p], d)]

Tick ==
  /\ \/ pc = "idle" /\ ~sig /\ pc' = "tick_reap"
     \/ pc = "restart_sleep" /\ pc' = "restart_reap"
     \/ pc = "shutdown_sleep" /\ pc' = "shutdown_loop"
  /\ mp' = Shifted(1)
  /\ odin' = [odin EXCEPT !.msg_age = Sat(@ + 1), !.run_age = Sat(@ + 1)]
  /\ left' = IF left > 0 THEN left - 1 ELSE left
  /\ UNCHANGED <<os, prog, sig, shuttingDown, call, environment>>

\* timesync steps CLOCK_REALTIME: every ROS time stamp gets older or younger.
Jump(d) ==
  /\ pc \in {"idle", "restart_sleep", "shutdown_sleep"}
  /\ jumps < MaxJumps /\ jumps' = jumps + 1
  /\ mp' = Shifted(d)
  /\ left' = IF left > 0 THEN (IF left > d THEN left - d ELSE 0) ELSE left
  /\ UNCHANGED <<os, prog, odin, odomQ, advertised, sig, shuttingDown, pc, call,
                 crashes>>

----------------------------------------------------------------------------
(* Services.  A request the code refuses (unknown name, already running,   *)
(* not running) changes nothing and is not an action.                      *)

ManuallyResetZero(m, p) ==         \* mutant: the backoff restarts from zero
  [m EXCEPT !.state = "PENDING", !.backoff = 0,
            !.auto_restart = IF p = Odin THEN TRUE ELSE @]
ManuallyResetGivenUp(m, p) ==      \* mutant: auto_restart is not restored
  [m EXCEPT !.state = "PENDING", !.backoff = InitialBackoff]
ManuallyReset(m, p) ==
  [m EXCEPT !.state = "PENDING", !.backoff = InitialBackoff,
            !.auto_restart = IF p = Odin THEN TRUE ELSE @]
FailsCleared(p) == IF p = Odin THEN [odin EXCEPT !.fails = 0] ELSE odin

\* The manual start shared by ~/start and the end of ~/restart.
StartByHand(p) ==
  start_process({p}, [mp EXCEPT ![p] = ManuallyReset(@, p)], FailsCleared(p))

handle_start_unguarded(p) ==       \* mutant: STARTING counts as not running
  /\ pc = "idle" /\ "start" \in Requests
  /\ mp[p].state \notin {"RUNNING", "STOPPING"}
  /\ StartByHand(p)
  /\ UNCHANGED <<pc, daemonCtl, environment>>
handle_start(p) ==
  /\ pc = "idle" /\ "start" \in Requests
  /\ mp[p].state \notin {"RUNNING", "STARTING"}
  /\ mp[p].state = "STOPPING" => StartWhileStopping
  /\ StartByHand(p)
  /\ UNCHANGED <<pc, daemonCtl, environment>>

handle_stop(p) ==
  /\ pc = "idle" /\ "stop" \in Requests
  /\ mp[p].state \in {"RUNNING", "STARTING"}
  /\ request_stop({p})
  /\ UNCHANGED <<prog, odin, pc, daemonCtl, environment>>

handle_restart(p) ==
  /\ pc = "idle" /\ "restart" \in Requests
  /\ pc' = "restart_loop" /\ call' = p
  /\ IF mp[p].state \in {"RUNNING", "STARTING"}
     THEN request_stop({p})
     ELSE UNCHANGED <<mp, os>>
  /\ UNCHANGED <<prog, odin, sig, shuttingDown, left, environment>>

\* The head of the loop that waits for the process to leave STOPPING.
RestartWaits ==
  /\ pc = "restart_loop" /\ mp[call].state = "STOPPING"
  /\ pc' = "restart_sleep"
  /\ UNCHANGED <<mp, os, prog, odin, daemonCtl, environment>>

RestartStarts ==
  /\ pc = "restart_loop" /\ mp[call].state # "STOPPING"
  /\ pc' = "idle" /\ call' = "none"
  /\ StartByHand(call)
  /\ UNCHANGED <<sig, shuttingDown, left, environment>>

\* Signal handler and ~/shutdown: both only raise the flag on_timer looks at.
handle_shutdown ==
  /\ pc \in {"idle", "restart_sleep", "shutdown_sleep"} /\ "shutdown" \in Requests
  /\ ~sig /\ sig' = TRUE
  /\ UNCHANGED <<mp, os, prog, odin, shuttingDown, left, pc, call, environment>>

----------------------------------------------------------------------------
(* shutdown_all, entered from ~/stop and ~/restart without a name and from *)
(* on_timer once the flag is up.  The destructor calls it a last time and  *)
(* finds shutting_down_ set.                                               *)

shutdown_all(caller) ==
  /\ pc = "idle" /\ ~shuttingDown
  /\ IF caller = "signal" THEN sig ELSE "all" \in Requests
  /\ shuttingDown' = TRUE /\ left' = GracefulTimeout
  /\ pc' = "shutdown_loop" /\ call' = caller
  /\ request_stop({p \in Procs :
                     mp[p].state \in {"STARTING", "RUNNING", "RESTARTING"}})
  /\ UNCHANGED <<prog, odin, sig, environment>>

HaltedOrAsked ==                   \* mutant: a process asked to stop is not killed
  {p \in Procs : mp[p].state \in {"STOPPED", "PENDING", "STOPPING"}}
Halted == {p \in Procs : mp[p].state \in {"STOPPED", "PENDING"}}

ShutdownPolls == left > 0 /\ reap_children("shutdown_loop", "shutdown_timeouts")
ShutdownDeadline ==
  /\ pc = "shutdown_loop" /\ left = 0 /\ pc' = "shutdown_kill"
  /\ UNCHANGED <<mp, os, prog, odin, daemonCtl, environment>>

ShutdownKills ==
  /\ pc = "shutdown_kill"
  /\ \/ /\ call = "stop_all" /\ force_kill(Procs \ Halted)
        /\ shuttingDown' = FALSE /\ pc' = "idle" /\ call' = "none"
        /\ UNCHANGED odin
     \/ /\ call = "restart_all"
        /\ mp' = [p \in Procs |->
                    ManuallyReset(IF p \in HavePid(Procs \ Halted)
                                  THEN ForceKilled(mp[p]) ELSE mp[p], p)]
        /\ os' = Kill({mp[p].pid : p \in HavePid(Procs \ Halted)})
        /\ odin' = [odin EXCEPT !.fails = 0]
        /\ shuttingDown' = FALSE /\ pc' = "idle" /\ call' = "none"
     \/ /\ call = "signal" /\ force_kill(Procs \ Halted)
        /\ pc' = "exited"
        /\ UNCHANGED <<shuttingDown, call, odin>>
  /\ UNCHANGED <<prog, sig, left, environment>>

----------------------------------------------------------------------------
(* The odometry subscription, and what the children do.                    *)

odin_health_cb ==
  /\ pc = "idle" /\ odomQ # NoPid /\ odomQ' = NoPid
  /\ odin' = [odin EXCEPT !.armed = TRUE, !.msg_age = 0]
  /\ UNCHANGED <<mp, os, prog, daemonCtl, pc, advertised, jumps, crashes>>

OdinPublishes(x) ==
  /\ x \in Executing /\ prog[x] = Odin /\ odomQ' = x
  /\ UNCHANGED <<mp, os, prog, odin, daemonCtl, pc, advertised, jumps, crashes>>

Advertises(x) ==
  /\ x \in Executing /\ \E p \in Procs : prog[x] \in WaitFor[p] \ advertised
  /\ advertised' = advertised \cup {prog[x]}
  /\ UNCHANGED <<mp, os, prog, odin, daemonCtl, pc, odomQ, jumps, crashes>>

\* The child of pid x exits: it crashes, obeys SIGINT, or SIGKILL takes it.
Exits(x) ==
  /\ os[x] \in {"alive", "int", "dying"}
  /\ IF os[x] = "alive" THEN crashes < MaxCrashes /\ crashes' = crashes + 1
                        ELSE UNCHANGED crashes
  /\ os' = [os EXCEPT ![x] = "zombie"]
  /\ advertised' = advertised \ {prog[x]}
  /\ UNCHANGED <<mp, prog, odin, daemonCtl, pc, odomQ, jumps>>

Terminated == pc \in {"exited", "aborted"} /\ UNCHANGED vars

Step ==
  \/ reap_children("tick_reap", "tick_timeouts")
  \/ check_stop_timeouts("tick_timeouts", "tick_started")
  \/ check_started
  \/ check_odin_health
  \/ handle_restarts
  \/ handle_pending
  \/ reap_children("restart_reap", "restart_timeouts")
  \/ check_stop_timeouts("restart_timeouts", "restart_loop")
  \/ RestartWaits
  \/ RestartStarts
  \/ ShutdownPolls
  \/ check_stop_timeouts("shutdown_timeouts",
       IF \A p \in Procs : p \in Halted \cup Late THEN "shutdown_kill"
                                                  ELSE "shutdown_sleep")
  \/ ShutdownDeadline
  \/ ShutdownKills
  \/ shutdown_all("signal")

Service ==
  \/ \E p \in Procs : handle_start(p) \/ handle_stop(p) \/ handle_restart(p)
  \/ handle_shutdown
  \/ \E c \in {"stop_all", "restart_all"} : shutdown_all(c)

Environment ==
  \/ odin_health_cb
  \/ \E x \in Pids : OdinPublishes(x) \/ Advertises(x) \/ Exits(x)
  \/ \E d \in Jumps : Jump(d)

Next == Step \/ Tick \/ Service \/ Environment \/ Terminated

Spec == Init /\ [][Next]_vars

\* A callback that runs goes on (WF of Step).  The executor takes a timer that
\* is due before any service or subscription, so requests cannot keep it from
\* running for ever (SF).  The kernel ends what SIGKILL hit, and a program that
\* keeps running gets its topics into the graph.
Fairness ==
  /\ WF_vars(Step) /\ SF_vars(Tick) /\ SF_vars(shutdown_all("signal"))
  /\ \A x \in Pids : /\ WF_vars(os[x] = "dying" /\ Exits(x))
                     /\ WF_vars(Advertises(x))

FairSpec == Spec /\ Fairness

----------------------------------------------------------------------------
(* Correctness.                                                            *)

\* Types of the state; the ages are integers because a backward step of the
\* clock makes them negative.
TypeOK ==
  /\ mp \in [Procs -> ManagedProcess]
  /\ os \in [Pids -> KernelState]
  /\ prog \in [Pids -> Procs \cup {NoPid}]
  /\ odin \in [armed : BOOLEAN, fails : Nat, msg_age : Int, run_age : Int]
  /\ odomQ \in Pids \cup {NoPid}
  /\ advertised \subseteq Procs
  /\ sig \in BOOLEAN /\ shuttingDown \in BOOLEAN /\ left \in Nat
  /\ pc \in ThreadState /\ call \in Procs \cup Callers
  /\ jumps \in Nat /\ crashes \in Nat

\* A pid the daemon keeps is a child it forked for that very process and has
\* not reaped: request_stop, force_kill and the health check can never signal
\* an id the kernel has given to somebody else since.
SignalsOwnChild ==
  \A p \in Procs : mp[p].pid # NoPid =>
    os[mp[p].pid] # "free" /\ prog[mp[p].pid] = p

\* STOPPING always carries what check_stop_timeouts needs to end it, so the
\* loop in which handle_restart blocks the whole node cannot wait for ever.
StoppingIsTimed ==
  \A p \in Procs : mp[p].state = "STOPPING" =>
    mp[p].stopping /\ mp[p].pid # NoPid /\ mp[p].stop_timed

\* No two instances of one program execute at the same time: the serial port
\* and the USB device of a driver are never opened twice.
OneInstance ==
  \A x, y \in Executing : prog[x] = prog[y] => x = y

\* Once the daemon has exited after SIGINT, SIGTERM or ~/shutdown, no child
\* of it executes any more, whatever it was doing when the flag was raised.
ExitLeavesNone == pc = "exited" => Executing = {}

\* A driver the health check has given up is down, and what is left of it is on
\* its way out: none of its instances executes, and the one that was killed is
\* marked so that waitpid takes its exit for a stop, not for a crash to restart
\* from - whatever is asked, crashes, is forked or arrives late before the exit,
\* and however the clock is stepped (check_odin_health, reap_children).
GivenUpIsDown ==
  \A p \in Procs \cap {Odin} : AutoRestart[p] /\ ~mp[p].auto_restart =>
    /\ \A x \in Executing : prog[x] # p
    /\ IF mp[p].pid = NoPid THEN mp[p].state = "STOPPED" ELSE mp[p].stopping

\* Once auto_restart was withdrawn by the health check, only a request of the
\* operator launches odin1_driver again, and it restores auto_restart.
GiveUpSticks ==
  [][\A p \in Procs \cap {Odin} :
       AutoRestart[p] /\ ~mp[p].auto_restart /\ mp'[p].pid \notin {NoPid, mp[p].pid}
         => mp'[p].auto_restart]_vars

\* A raised flag ends the daemon, also when it is raised while a restart or a
\* stop of everything blocks the executor, and whatever the children do.
SignalHonoured == sig ~> pc \in {"exited", "aborted"}

\* A process that was asked to stop does not stay in STOPPING: it obeys, or
\* the stop timeout kills it, or the node itself is gone.
StopEnds ==
  \A p \in Procs : mp[p].state = "STOPPING" ~>
                     mp[p].state # "STOPPING" \/ pc \in {"exited", "aborted"}

\* A driver given up by the health check is reported as STOPPED in the end,
\* unless an operator brought it back before.
GiveUpEnds ==
  \A p \in Procs \cap {Odin} : AutoRestart[p] /\ ~mp[p].auto_restart ~>
    mp[p].state = "STOPPED" \/ mp[p].auto_restart \/ pc \in {"exited", "aborted"}

\* With finitely many crashes every process ends up RUNNING: dependencies,
\* topics and backoff never leave one waiting for ever.
Converges == \A p \in Procs : <>[](mp[p].state = "RUNNING")
----------------------------------------------------------------------------
(* The supervisor keeps the promises of Supervision.                       *)

\* A zombie has ended, whoever knows of it.
Life(x) == CASE os[x] = "alive" -> "runs" [] os[x] = "int" -> "asked"
             [] os[x] = "dying" -> "killed" [] OTHER -> "none"
Of(x) == IF os[x] \in {"alive", "int", "dying"} THEN prog[x] ELSE NoPid
Wanted(p) == ~mp[p].stopping /\ mp[p].state \notin {"STOPPING", "STOPPED"}
Phase == IF pc \in {"exited", "aborted"} THEN "over"
         ELSE IF shuttingDown /\ call = "signal" THEN "closing" ELSE "up"
TimerSteps == {"tick_reap", "tick_timeouts", "tick_started", "tick_health",
               "tick_restarts", "tick_pending"}
Turn == IF pc \in TimerSteps THEN "timer" ELSE "request"

Sup == INSTANCE Supervision
       WITH Programs <- Procs, Watched <- {Odin}, Instances <- Pids, Nobody <- NoPid,
            life <- [x \in Pids |-> Life(x)], of <- [x \in Pids |-> Of(x)],
            wanted <- [p \in Procs |-> Wanted(p)], phase <- Phase, turn <- Turn

\* The daemon implements Supervision: one instance at a time, SIGKILL only
\* after SIGINT or a stall, a stopped program comes back by request alone, and
\* nothing is started or left behind by a daemon that goes down.
PromisesKept == Sup!Spec
=============================================================================
