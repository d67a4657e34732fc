---------------------------- MODULE AcflyOdometry ----------------------------
(***************************************************************************)
(* The odometry bridge, acfly_odometry_node.cpp, beside the driver that    *)
(* measures the odometry.  Its single thread runs a callback that keeps    *)
(* the latest message, and a timer that judges the covariance, asks for a  *)
(* reset of the driver through the command file and publishes; the         *)
(* attitude it publishes is left out.                                      *)
(*                                                                         *)
(* Stamps are ages in periods of the timer, on the host's clock, which     *)
(* timesync steps; they saturate at AgeLimit.  cov_check_enabled is TRUE.    *)
(***************************************************************************)
EXTENDS OdinDriver, FiniteSetsExt

CONSTANTS cov_degrade_bound, reset_cooldown, Suppression,
          StampAges,            \* ages of the stamps of messages that arrive
          AgeLimit,               \* ages saturate here
          CountCap,             \* the counter saturates here
          Steps, MaxSteps       \* steps of the clock, and how many there are at most

VARIABLES
    odom,       \* latest_odom_: "none", "new" (newer than what was published), "published"
                \* or "stale" (neither), whether it is degraded, and the age of its stamp while new
    count,      \* cov_degrade_cnt_
    age,        \* ages of last_reset_time_ and last_published_stamp_
    bridge,     \* "idle", "asking" between opening and writing the file, or "off"
    steps       \* how much of MaxSteps is used
bridgevars == <<odom, count, age, bridge, steps>>

BridgeInit ==
    /\ bridge \in {"idle", "off"}
    /\ odom = [is |-> "none", degraded |-> FALSE, age |-> 0]
    /\ count = 0 /\ age = [reset |-> AgeLimit, published |-> AgeLimit] /\ steps = 0

Older(a, d) == Min({a + d, AgeLimit})
Later(d) == [x \in DOMAIN age |-> Older(age[x], d)]
OdomLater(d) == [odom EXCEPT !.age = IF odom.is = "new" THEN Older(@, d) ELSE 0]

(* the driver publishes while a device is connected; a message may be overtaken by the clock *)
odom_cb ==
    /\ connected /\ main # "exited" /\ bridge = "idle"
    /\ \E degraded \in BOOLEAN, a \in StampAges :
          odom' = IF a < age.published THEN [is |-> "new", degraded |-> degraded, age |-> a]
                  ELSE [is |-> "stale", degraded |-> degraded, age |-> 0]
    /\ UNCHANGED <<count, age, bridge, steps>>

(* the end of timer_cb, with the ages it then sees: nothing is published for a *)
(* while after a reset, and the message stays the one to be judged             *)
Publishes(now, msg) ==
    IF now.reset <= Suppression THEN age' = now /\ odom' = msg
    ELSE /\ odom' = [msg EXCEPT !.is = "published", !.age = 0]
         /\ age' = [now EXCEPT !.published = msg.age]

Counted == IF odom.degraded THEN Min({count + 1, CountCap}) ELSE Max({count - 1, 0})
\* a mutant: no cooldown
ResetAlways(now) == Counted > cov_degrade_bound
Reset(now) == Counted > cov_degrade_bound /\ now.reset > reset_cooldown

(* a period passes, and the timer fires *)
Fires(new) == bridge = "idle" /\ (odom.is = "new" <=> new) /\ UNCHANGED steps

NothingNew == /\ Fires(FALSE)
              /\ age' = Later(1) /\ UNCHANGED <<odom, count, bridge>>

(* also when the command file cannot be opened *)
Judges == /\ Fires(TRUE)
          /\ count' = Counted /\ Publishes(Later(1), OdomLater(1)) /\ UNCHANGED bridge

Asks == /\ Fires(TRUE) /\ Reset(Later(1))
        /\ count' = 0 /\ age' = [Later(1) EXCEPT !.reset = 0] /\ odom' = OdomLater(1)
        /\ bridge' = "asking"

Asked == /\ bridge = "asking" /\ bridge' = "idle"
         /\ Publishes(age, odom) /\ UNCHANGED <<count, steps>>

timer_cb ==
    \/ (NothingNew \/ (Judges /\ ~Reset(Later(1)))) /\ UNCHANGED drivervars
    \/ Asks /\ Truncates("bridge") /\ UNCHANGED <<threads, device, sendimu, main, kills>>
    \/ Asked /\ Writes("bridge", "reset") /\ UNCHANGED <<threads, device, sendimu, main, kills>>

(* std::ofstream cannot open the file *)
OpenFails == Reset(Later(1)) /\ Judges /\ UNCHANGED drivervars

ClockStepped ==
    /\ bridge # "off" /\ steps < MaxSteps /\ steps' = steps + 1
    /\ \E d \in Steps : age' = Later(d) /\ odom' = OdomLater(d)
    /\ UNCHANGED <<count, bridge>>

BridgeNext ==
    \/ timer_cb \/ OpenFails
    \/ DriverNext /\ UNCHANGED bridgevars
    \/ (odom_cb \/ ClockStepped) /\ UNCHANGED drivervars

(* The timer runs, and a connected driver measures. *)
BridgeFairness ==
    /\ WF_<<drivervars, bridgevars>>(timer_cb)
    /\ WF_<<drivervars, bridgevars>>(odom_cb /\ UNCHANGED drivervars)

BridgeSpec ==
    /\ DriverInit /\ BridgeInit /\ [][BridgeNext]_<<drivervars, bridgevars>>
    /\ DriverFairness /\ BridgeFairness

-----------------------------------------------------------------------------
(* The command file holds a reset, or the bridge is about to write one to it. *)
InFile == file = "reset" \/ open["bridge"] = "file"

(* ... or the driver has read it, and will carry it out as the last one. *)
Held == InFile \/ line = "reset" \/ (line = "old" /\ main = "read")

(* How a reset comes out of the file and the driver's hands.  An operator opens *)
(* or writes the file, or the driver removes it with an operator's command.     *)
CarriedOut == asked' = "done" /\ connected
Overwritten == \/ open'["operator"] # open["operator"] /\ UNCHANGED main
               \/ main = "read" /\ main' = "removed" /\ line = "other"

(* The driver is killed or interrupted when the file holds it no more, and it   *)
(* is not yet carried out; or there is no device when it should be.             *)
DiesWithIt == /\ kills' # kills \/ (Serving /\ main' = "sig_flag")
              /\ main = "removed" \/ file \in {"empty", "other"}
NoDevice == main = "removed" /\ main' = "loop" /\ ~connected

(* A reset the bridge asked for is carried out at most once, although the file  *)
(* is emptied, written, read and removed in steps and the driver may be killed  *)
(* between any two.  It is lost in three ways and in no other: to a command of  *)
(* an operator at the same time; with a driver that dies after it removed the   *)
(* file, or after the operator wrote over what it read; and to a device that    *)
(* has gone when the driver comes to it (process_command_file, timer_cb).       *)
LeavesFor(cause) == asked = "pending" /\ Held /\ ~Held' => cause
RequestKept == [][
    /\ asked' # "twice"
    /\ LeavesFor(CarriedOut \/ Overwritten \/ DiesWithIt \/ NoDevice) ]_<<drivervars, bridgevars>>

(* What is not lost arrives: with a driver that serves, a request does not stay *)
(* in the file for ever, unless the bridge asks again and again at the moment   *)
(* the driver has read one (timer_cb, process_command_file).                    *)
RequestsArrive ==
    asked = "pending" /\ Held ~> \/ ~(asked = "pending" /\ Held) \/ line = "old"
                                 \/ ~connected \/ ~Serving

(* While odometry arrives, degraded or not, output goes on: no sequence of   *)
(* resets, suppressed seconds and steps of the clock ends it.                *)
OutputGoesOn ==
    bridge # "off" /\ <>[](connected /\ main # "exited") => []<>(odom.is = "published")
=============================================================================
