------------------------------ MODULE MCOnboard ------------------------------
(* Three systems of the vehicle, each for itself: the supervisor that starts    *)
(* everything, the driver of the sensor with its threads, and the odometry      *)
(* bridge that asks the driver for resets.                                      *)
EXTENDS MCDaemon, AcflyOdometry

CONSTANT Parts            \* the runs to consider
VARIABLE part             \* which of the three runs

sensorvars == <<drivervars, bridgevars>>
allvars == <<part, vars, sensorvars>>

MCStampAges == {-1, 0}
MCSteps == {-1, 2}

DaemonOff ==
    /\ mp = [p \in Procs |-> [state |-> "STOPPED"]] /\ odin = <<>> /\ odomQ = NoPid
    /\ os = [x \in Pids |-> "free"] /\ prog = [x \in Pids |-> NoPid] /\ advertised = {}
    /\ sig = FALSE /\ shuttingDown = FALSE /\ left = 0
    /\ pc = "exited" /\ call = "none" /\ jumps = 0 /\ crashes = 0

MCInit ==
    /\ part \in Parts
    /\ IF part = "startup" THEN Init ELSE DaemonOff
    /\ DriverInit /\ (sendimu <=> part = "threads")
    /\ BridgeInit /\ (bridge = "idle" <=> part \in {"requests", "output"})

(* Where commands and output are looked at, threads that have nothing to do with *)
(* them move first: the device thread and the IMU thread, which sees no sample.  *)
Settled == dev = "idle" /\ imu \in {"none", "waiting"}
ThreadsFirst == (dev' # dev \/ imu' # imu) /\ UNCHANGED <<main, connected>>

\* no command, and no bridge
ThreadsBound == UNCHANGED <<file, open>>
\* the device is plugged in once, and odometry stays degraded
RequestsBound == /\ sessions' <= 1 /\ UNCHANGED steps
                 /\ odom'.age >= 0 /\ (odom'.is = "none" \/ odom'.degraded)
\* the driver goes on, and operators leave it alone
OutputBound == /\ main' \notin Quitting /\ (connected => plugged') /\ UNCHANGED kills
               /\ open'["operator"] = "no"

MCNext ==
    \/ part = "startup" /\ Next /\ UNCHANGED <<part, sensorvars>>
    \/ /\ part # "startup" /\ BridgeNext /\ UNCHANGED <<part, vars>>
       /\ part = "threads" => ThreadsBound
       /\ part = "requests" => RequestsBound
       /\ part = "output" => OutputBound
       /\ part # "threads" /\ ~Settled => ThreadsFirst

MCSpec == MCInit /\ [][MCNext]_allvars /\ Fairness /\ DriverFairness /\ BridgeFairness

(* What AcflyDaemon states of a start, of the states in which one goes on. *)
StartupConverges == part = "startup" => Converges
=============================================================================
