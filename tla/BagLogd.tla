------------------------------- MODULE BagLogd -------------------------------
(***************************************************************************)
(* bag_logd_node.cpp: the flight recorder.  While the vehicle is armed it  *)
(* writes slices, rosbag2 directories named after the time they were       *)
(* opened; a timer rotates them, another one deletes the oldest ones when  *)
(* the disk runs low, and a third one tries again after a failure.         *)
(*                                                                         *)
(* One executor thread runs the callbacks, so each of them is one step.    *)
(* The clock is the system clock, which other programs step; timers run on *)
(* a clock of their own.  Sizes and space are in one unit.                 *)
(***************************************************************************)
EXTENDS Integers, FiniteSetsExt

CONSTANTS
  Configs,     \* configurations to consider, see Config
  Limit,       \* min_recording_free_space_mb
  Capacity,    \* of the disk
  SliceMax,    \* what is written between two rotations
  MaxOthers,   \* bound: space that other programs take
  MaxTime,     \* bound: the clock stays at this second
  ClockSteps,  \* steps of the system clock
  MaxSteps,    \* bound: number of clock steps
  MaxFlights,  \* bound: number of flights
  MaxCuts      \* bound: number of crashes and lost links

Config == [arm : BOOLEAN,        \* arm_record.enabled
           rotation : BOOLEAN,   \* rotation_interval_sec > 0
           auto : BOOLEAN]       \* cleanup_mode = "auto"

ASSUME BagLogdAssumption ==
  /\ Configs \subseteq Config /\ Configs # {}
  /\ {Limit, Capacity, SliceMax} \subseteq Nat \ {0}
  /\ {MaxOthers, MaxTime, MaxSteps, MaxFlights, MaxCuts} \subseteq Nat
  /\ ClockSteps \subseteq Int

VARIABLES
  cfg,        \* cfg_
  up,         \* whether the node runs
  armed,      \* armed_
  recording,  \* recording_
  current,    \* current_bag_path_, and with it writer_
  rotation,   \* rotation_timer_
  retry,      \* retry_timer_
  bags,       \* slices on disk
  mtime,      \* modification time of the storage directory
  others,     \* space that other programs take
  now,        \* the system clock
  flight,     \* the vehicle: number of the flight, and whether it is armed
  msg,        \* the message waiting in the state subscription, of depth 1
  cut,        \* whether a crash or a lost link interrupted this flight
  steps, cuts \* how much of the bounds is used

node == <<up, armed, recording, current, rotation, retry>>
disk == <<bags, mtime>>
vehicle == <<flight, msg, cut, cuts>>
vars == <<cfg, node, disk, others, now, vehicle, steps>>

\* A wall timer: cancelled, waiting for its period to pass, or due.
Timer == {"off", "waiting", "due"}
NoBag == <<>>   \* an empty current_bag_path_
\* made, a history: the rank among the slices by the order of their creation.
Bag == [name : Int \X Nat, size : Nat, flight : Nat, made : Nat]

SizeOf(bs) == Cardinality(UNION {{b.name} \X (1 .. b.size) : b \in bs})
Free(bs) == Capacity - others - SizeOf(bs)
Low(bs) == Free(bs) < Limit

Init ==
  /\ cfg \in Configs
  /\ up = FALSE /\ armed = FALSE /\ recording = FALSE /\ current = NoBag
  /\ rotation = "off" /\ retry = "off"
  /\ bags = {} /\ mtime = 0 /\ others = 0 /\ now = 0
  /\ flight = [number |-> 0, on |-> FALSE] /\ msg = "none" /\ cut = FALSE
  /\ steps = 0 /\ cuts = 0

----------------------------------------------------------------------------
(* Slices.                                                                 *)

NamesOf(bs) == {b.name : b \in bs}

\* The second the slice is opened in, or the time the directory was last
\* modified if the clock is behind that, with the first suffix that is free.
FreshName(bs, mt) ==
  LET base == IF mt > now THEN mt ELSE now
  IN <<base, Min({n \in 0 .. Cardinality(bs) : <<base, n>> \notin NamesOf(bs)})>>

\* Names as strings compare like this (up to nine suffixes).
Earlier(a, b) ==
  \/ a.name[1] < b.name[1]
  \/ a.name[1] = b.name[1] /\ a.name[2] < b.name[2]

\* The slices bs with their ranks, when others are gone.
Rank(b, bs) == Cardinality({c \in bs : c.made <= b.made})
Ranked(bs) == {[b EXCEPT !.made = Rank(b, bs)] : b \in bs}

Touched(bs) == IF bs = bags THEN mtime ELSE now

\* open_new_bag with the slices bs on disk, and what its callers do then.
Opened(bs) ==
  /\ Free(bs) > 0
  /\ current' = FreshName(bs, Touched(bs))
  /\ bags' = Ranked(bs) \cup
       {[name |-> current', size |-> 1, flight |-> flight.number, made |-> Cardinality(bs) + 1]}
  /\ mtime' = now
  /\ recording' = TRUE

NotOpened(bs) ==
  /\ current' = NoBag /\ bags' = Ranked(bs) /\ mtime' = Touched(bs)
  /\ recording' = FALSE

start_rotation_timer ==
  rotation' = IF cfg.rotation /\ rotation = "off" THEN "waiting" ELSE rotation
schedule_retry == retry' = IF retry = "off" THEN "waiting" ELSE retry

\* The slices that cleanup_old_bags leaves; active is protected.
Kept(active) ==
  IF cfg.auto THEN {b \in bags : b.name = active} ELSE bags

----------------------------------------------------------------------------
(* The node.                                                               *)

\* The constructor.
Start ==
  /\ ~up /\ up' = TRUE
  /\ IF cfg.arm
     THEN UNCHANGED <<recording, current, rotation, retry, disk>>
     ELSE \/ Opened(Kept(NoBag)) /\ start_rotation_timer /\ UNCHANGED retry
          \/ NotOpened(Kept(NoBag)) /\ schedule_retry /\ UNCHANGED rotation
  /\ UNCHANGED <<cfg, armed, others, now, vehicle, steps>>

Taken == msg' = "none" /\ UNCHANGED <<cfg, up, others, now, flight, cut, cuts, steps>>

\* arm_state_cb for a message that does not change armed_.
SameState ==
  /\ up /\ cfg.arm
  /\ msg = (IF armed THEN "armed" ELSE "disarmed")
  /\ Taken /\ UNCHANGED <<armed, recording, current, rotation, retry, disk>>

\* mutant: every message that says armed starts a recording
ArmEveryMessage ==
  /\ up /\ cfg.arm /\ msg = "armed"
  /\ Opened(Kept(NoBag)) /\ armed' = TRUE
  /\ start_rotation_timer
  /\ Taken /\ UNCHANGED retry
\* arm_state_cb on arming, which opens a slice or not.
Arm ==
  /\ up /\ cfg.arm /\ msg = "armed" /\ ~armed
  /\ Opened(Kept(NoBag)) /\ armed' = TRUE
  /\ start_rotation_timer
  /\ Taken /\ UNCHANGED retry

ArmFails ==
  /\ up /\ cfg.arm /\ msg = "armed" /\ ~armed
  /\ NotOpened(Kept(NoBag)) /\ armed' = FALSE
  /\ schedule_retry
  /\ Taken /\ UNCHANGED rotation

\* arm_state_cb on disarming.
Disarm ==
  /\ up /\ cfg.arm /\ msg = "disarmed" /\ armed
  /\ armed' = FALSE /\ recording' = FALSE
  /\ rotation' = "off" /\ current' = NoBag
  /\ Taken /\ UNCHANGED <<retry, disk>>

rotate_bag ==
  /\ up /\ rotation = "due" /\ rotation' = "waiting"
  /\ IF ~recording \/ current = NoBag
     THEN UNCHANGED <<recording, current, retry, disk>>
     ELSE IF cfg.arm /\ ~armed
     THEN current' = NoBag /\ UNCHANGED <<recording, retry, disk>>
     ELSE \/ Opened(bags) /\ UNCHANGED retry
          \/ NotOpened(bags) /\ schedule_retry
  /\ UNCHANGED <<cfg, up, armed, others, now, vehicle, steps>>

MayRecordUnarmed == TRUE   \* mutant: the retry does not look at armed_
MayRecord == cfg.arm => armed

\* retry_open_bag: not needed any more, deferred or failed, or successful.
RetryEnds ==
  /\ up /\ retry = "due" /\ (recording \/ ~MayRecord)
  /\ retry' = "off"
  /\ UNCHANGED <<cfg, up, armed, recording, current, rotation, disk>>
  /\ UNCHANGED <<others, now, vehicle, steps>>

\* mutant: a single retry
RetryWaitsOnce ==
  /\ up /\ retry = "due" /\ ~recording /\ MayRecord
  /\ retry' = "off"
  /\ UNCHANGED <<cfg, up, armed, recording, current, rotation, disk>>
  /\ UNCHANGED <<others, now, vehicle, steps>>

RetryWaits ==
  /\ up /\ retry = "due" /\ ~recording /\ MayRecord
  /\ retry' = "waiting"
  /\ UNCHANGED <<cfg, up, armed, recording, current, rotation, disk>>
  /\ UNCHANGED <<others, now, vehicle, steps>>

\* mutant: the rotation timer is not started again
RetryOpensUnsliced ==
  /\ up /\ retry = "due" /\ ~recording /\ MayRecord /\ ~Low(bags)
  /\ Opened(bags) /\ UNCHANGED rotation
  /\ retry' = "off"
  /\ UNCHANGED <<cfg, up, armed, others, now, vehicle, steps>>

RetryOpens ==
  /\ up /\ retry = "due" /\ ~recording /\ MayRecord /\ ~Low(bags)
  /\ Opened(bags) /\ start_rotation_timer
  /\ retry' = "off"
  /\ UNCHANGED <<cfg, up, armed, others, now, vehicle, steps>>

\* What the disk check leaves.  Slices go from the first name on; the loop ends
\* when there is space, or when only the active slice is left.
Candidates == {b \in bags : b.name # current}
From(c) == bags \ {d \in Candidates : Earlier(d, c)}
Deleted(b) == \A c \in Candidates : ~Earlier(b, c) => Low(From(c))
Remaining == {b \in bags : b \in Candidates => ~Deleted(b)}

\* mutant: the disk check only deletes
disk_check_deletes ==
  /\ up /\ recording /\ Low(bags)
  /\ bags' = Ranked(Remaining) /\ mtime' = Touched(Remaining)
  /\ UNCHANGED <<recording, current, rotation, retry>>
  /\ UNCHANGED <<cfg, up, armed, others, now, vehicle, steps>>

disk_check_cb ==
  /\ up /\ recording /\ Low(bags)
  /\ bags' = Ranked(Remaining) /\ mtime' = Touched(Remaining)
  /\ IF Low(Remaining)
     THEN /\ recording' = FALSE /\ current' = NoBag /\ rotation' = "off"
          /\ schedule_retry
     ELSE UNCHANGED <<recording, current, rotation, retry>>
  /\ UNCHANGED <<cfg, up, armed, others, now, vehicle, steps>>

\* A recorded message reaches the disk.
Write ==
  /\ up /\ current # NoBag /\ Free(bags) > 0
  /\ \E b \in bags :
       /\ b.name = current
       /\ cfg.rotation => b.size < SliceMax
       /\ bags' = (bags \ {b}) \cup {[b EXCEPT !.size = @ + 1]}
  /\ UNCHANGED <<cfg, node, mtime, others, now, vehicle, steps>>

Node == \/ Start \/ SameState \/ Arm \/ ArmFails \/ Disarm
        \/ rotate_bag \/ RetryEnds \/ RetryWaits \/ RetryOpens
        \/ disk_check_cb \/ Write

----------------------------------------------------------------------------
(* Around it.                                                              *)

Elapsed(timer) == IF timer = "waiting" THEN "due" ELSE timer

\* A second passes; timers may be due.
Tick ==
  /\ now' = IF now < MaxTime THEN now + 1 ELSE now
  /\ rotation' = Elapsed(rotation) /\ retry' = Elapsed(retry)
  /\ UNCHANGED <<cfg, up, armed, recording, current, disk, others, vehicle, steps>>

\* timesync steps the clock, or a boot finds it in the past.
StepClock(d) ==
  /\ steps < MaxSteps /\ steps' = steps + 1
  /\ now + d \in 0 .. MaxTime /\ now' = now + d
  /\ UNCHANGED <<cfg, node, disk, others, vehicle>>

\* mavros publishes the state with every heartbeat and whenever it changes.
Publish ==
  /\ msg = "none" /\ up
  /\ msg' = IF flight.on THEN "armed" ELSE "disarmed"
  /\ UNCHANGED <<cfg, node, disk, others, now, flight, cut, cuts, steps>>

Takeoff ==
  /\ ~flight.on /\ flight.number < MaxFlights
  /\ flight' = [number |-> flight.number + 1, on |-> TRUE]
  /\ msg' = IF up THEN "armed" ELSE msg
  /\ cut' = FALSE
  /\ UNCHANGED <<cfg, node, disk, others, now, cuts, steps>>

Land ==
  /\ flight.on /\ flight' = [flight EXCEPT !.on = FALSE]
  /\ msg' = IF up THEN "disarmed" ELSE msg
  /\ UNCHANGED <<cfg, node, disk, others, now, cut, cuts, steps>>

\* Heartbeats cease for a while: mavros publishes a state that is not armed.
LinkLost ==
  /\ cuts < MaxCuts /\ cuts' = cuts + 1
  /\ up /\ msg' = "disarmed" /\ cut' = TRUE
  /\ UNCHANGED <<cfg, node, disk, others, now, flight, steps>>

\* The node or the computer goes down; the slices stay.
Crash ==
  /\ cuts < MaxCuts /\ cuts' = cuts + 1
  /\ up /\ up' = FALSE /\ armed' = FALSE /\ recording' = FALSE
  /\ current' = NoBag /\ rotation' = "off" /\ retry' = "off"
  /\ msg' = "none" /\ cut' = TRUE
  /\ UNCHANGED <<cfg, disk, others, now, flight, steps>>

\* Other programs write or delete files.
Others ==
  /\ others' \in 0 .. MaxOthers \ {others}
  /\ Capacity - others' - SizeOf(bags) >= 0
  /\ UNCHANGED <<cfg, node, disk, now, vehicle, steps>>

Environment == \/ Tick \/ (\E d \in ClockSteps : StepClock(d))
               \/ Publish \/ Takeoff \/ Land \/ LinkLost \/ Crash \/ Others

Next == Node \/ Environment

Spec == Init /\ [][Next]_vars

\* Timers fire, a node that is down is started again, states are published
\* and handled, and opening a slice does not fail for ever.
Fairness ==
  /\ WF_vars(Tick) /\ WF_vars(Start) /\ WF_vars(rotate_bag)
  /\ WF_vars(disk_check_cb) /\ WF_vars(RetryEnds)
  /\ SF_vars(RetryOpens) /\ SF_vars(Arm) /\ WF_vars(Disarm)
  /\ WF_vars(SameState) /\ WF_vars(Publish)
FairSpec == Spec /\ Fairness

----------------------------------------------------------------------------
(* Correctness.                                                            *)

\* Types of the state, and no two slices share a directory.
TypeOK ==
  /\ cfg \in Configs
  /\ {up, armed, recording, cut} \subseteq BOOLEAN
  /\ current \in (Int \X Nat) \cup {NoBag}
  /\ rotation \in Timer /\ retry \in Timer
  /\ bags \subseteq Bag /\ IsFiniteSet(bags) /\ mtime \in Nat
  /\ others \in 0 .. MaxOthers /\ now \in 0 .. MaxTime
  /\ flight \in [number : 0 .. MaxFlights, on : BOOLEAN]
  /\ msg \in {"none", "armed", "disarmed"}
  /\ steps \in 0 .. MaxSteps /\ cuts \in 0 .. MaxCuts
  /\ \A a, b \in bags : a.name = b.name => a = b

\* The slice being written is on disk: no clean-up takes it, whichever timer
\* or message comes in between, and recording_ says truly whether there is one.
ActiveKept ==
  /\ recording <=> current # NoBag
  /\ recording => current \in NamesOf(bags)

\* While the node believes the vehicle armed, it records or tries again: no
\* failure, low disk or cancelled timer leaves it idle for the flight.
NeverIdle == up /\ (cfg.arm => armed) => recording \/ retry # "off"

\* A slice that is written is always going to be rotated, also after failures
\* that stopped the timer, so that a power cut costs one interval at most.
SlicesEnd == recording /\ cfg.rotation => rotation # "off"

\* The retry timer never resumes a recording of a vehicle that was disarmed.
QuietWhenDisarmed == cfg.arm /\ ~armed => ~recording

\* Slices are deleted in the order of their creation, although what is
\* compared are names made from the clock; within one second either may go.
OldestFirst ==
  [][recording =>
       \A a, b \in bags :
         /\ a.name \notin NamesOf(bags')
         /\ b.name \in NamesOf(bags') \ {current}
         => a.made < b.made \/ a.name[1] = b.name[1]]_vars

Loses(b) == \A c \in bags' : c.name # b.name \/ c.flight # b.flight

\* Of the flight in progress a slice is only deleted when the disk is low, as
\* long as neither a crash nor a lost link interrupts it: a failed start, a
\* rotation or a late message does not erase it.
FlightKeptUncut ==
  [][flight.on /\ ~Low(bags) /\ ~cut =>
       \A b \in bags : b.flight = flight.number => ~Loses(b)]_vars

\* Slices go for a reason: never the one being written, the oldest first, and
\* of the flight in progress none while space is left and nothing was cut off
\* (disk_check_cb, cleanup_old_bags, open_new_bag).
SlicesKept == []TypeOK /\ []ActiveKept /\ OldestFirst /\ FlightKeptUncut

\* The recorder does not fill the disk: low space is noticed and ended, by
\* deleting or else by stopping.
LowSpaceEnds == recording /\ Low(bags) ~> ~(recording /\ Low(bags))

\* During a flight recording comes back, once there is space whenever the
\* recorder has stopped.
Resumes ==
  <>[](up /\ flight.on) /\ <>[](recording \/ ~Low(bags)) => []<>recording
=============================================================================
