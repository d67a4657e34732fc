------------------------------ MODULE TimeSync ------------------------------
(***************************************************************************)
(* time_sync_node.cpp: the clock of the companion computer follows the GPS *)
(* time of the flight controller, by a step (clock_settime) when it is far *)
(* off and by a slew (adjtimex) otherwise.  The node measures time with    *)
(* the very clock it steps, so the stamps it keeps are modelled as ages on *)
(* that clock, and a step changes them.                                    *)
(*                                                                         *)
(* All times and offsets are integers in one unit.  err is GPS time minus  *)
(* host time: what an exact measurement yields now.                        *)
(***************************************************************************)
EXTENDS Integers, Sequences, SequencesExt, TLC

CONSTANTS
  WindowSize, Threshold, Timeout, Grace, RttMax, \* parameters of the node
  Period,       \* of the monitor timer
  Gain,         \* 20: a slew corrects this fraction of the offset
  MaxStep,      \* 100 ms: the largest slew
  LostLimit,    \* 3 checks in a row
  TrimFrom,     \* 10 samples: from here on the extremes are trimmed
  SlewRate,     \* what the kernel slews in one period
  Errors,       \* possible errors of the clock when the node starts
  FcuJumps,     \* steps of the flight controller's own clock
  Rtts,         \* round-trip times that are reported
  MaxFlight,    \* bound: references measured and not yet handled
  MaxJumps,     \* bound: number of FcuJumps
  AgeCap,       \* ages saturate here, above every threshold
  MayFail,      \* whether clock_settime may fail (no CAP_SYS_TIME)
  Never         \* an empty std::optional, and a reference before min_gps_year

ASSUME TimeSyncAssumption ==
  /\ {WindowSize, Period, Gain, LostLimit, TrimFrom} \subseteq Nat \ {0}
  /\ {Threshold, Timeout, Grace, RttMax, MaxStep, SlewRate} \subseteq Nat
  /\ Errors \subseteq Int /\ FcuJumps \subseteq Int /\ Rtts \subseteq Nat
  /\ {MaxFlight, MaxJumps, AgeCap} \subseteq Nat
  /\ MayFail \in BOOLEAN /\ Never \notin Int

VARIABLES
  state,      \* state_
  synced,     \* synced_, which is also the last value published on ~/synced
  lost,       \* gps_lost_count_
  window,     \* offset_window_
  rtt,        \* rtt_ns_
  lastGps,    \* now() - last_gps_time_
  boot,       \* now() - bootstrap_time_
  err,        \* GPS time - host time
  slewing,    \* rest of the single-shot adjustment in the kernel
  flight,     \* time references on their way, as the offsets measured
  gps,        \* whether the flight controller still sends references
  jumps       \* how much of the bound on FcuJumps is used

node == <<state, synced, lost, window, lastGps, boot>>
clock == <<err, slewing>>
fcu == <<flight, gps, jumps>>
vars == <<node, rtt, clock, fcu>>

State == {"INIT", "TRACKING", "HOLD"}

Init ==
  /\ state = "INIT" /\ synced = FALSE /\ lost = 0
  /\ window = <<>> /\ rtt = 0
  /\ lastGps = Never /\ boot = Never
  /\ err \in Errors /\ slewing = 0
  /\ flight = <<>> /\ gps = TRUE /\ jumps = 0

----------------------------------------------------------------------------
(* Arithmetic of the window.                                               *)

Abs(x) == IF x < 0 THEN -x ELSE x
Clamp(x, limit) == IF x > limit THEN limit ELSE IF x < -limit THEN -limit ELSE x
Truncated(a, b) == IF a < 0 THEN -((-a) \div b) ELSE a \div b

SortedSamples(w) == SortSeq(w, <)
Median(w) == IF w = <<>> THEN 0 ELSE SortedSamples(w)[Len(w) \div 2 + 1]

\* get_smoothed_offset_ms: the mean of these samples.  It is only compared and
\* divided, so it stays a sum and a count.
Trimmed(w) ==
  IF Len(w) < TrimFrom THEN w
  ELSE LET t == Len(w) \div 10 IN SubSeq(SortedSamples(w), t + 1, Len(w) - t)
SumOf(w) == FoldSeq(+, 0, w)

Large(w) == Abs(SumOf(Trimmed(w))) > Threshold * Len(Trimmed(w))
SlewOffsetCoarse(w) ==        \* mutant: truncated to a coarser unit first
  Clamp(Truncated(SumOf(Trimmed(w)), 2 * Gain * Len(Trimmed(w))), MaxStep)
SlewOffsetAway(w) ==          \* mutant: the sign of the offset is lost
  Clamp(Truncated(Abs(SumOf(Trimmed(w))), Gain * Len(Trimmed(w))), MaxStep)
SlewOffset(w) ==
  Clamp(Truncated(SumOf(Trimmed(w)), Gain * Len(Trimmed(w))), MaxStep)

Pushed(o) ==
  LET w == Append(window, o)
  IN IF Len(w) > WindowSize THEN Tail(w) ELSE w

----------------------------------------------------------------------------
(* The handlers of time_ref_cb.  w is the window with the new sample in it. *)

\* now() when last_gps_time_ is taken is the host time before any step.
Heard == 0
Older(age, d) == IF age = Never THEN Never
                 ELSE IF age + d > AgeCap THEN AgeCap ELSE age + d

SteppedKeepsWindow(w) ==      \* mutant: samples from before the step are kept
  /\ Median(w) # 0
  /\ err' = err - Median(w) /\ slewing' = 0
  /\ lastGps' = Older(Heard, Median(w))
  /\ window' = w
\* do_bootstrap that succeeds: the host clock moves by the median, the kernel
\* forgets the slew, and the time of this very reference was taken before.
Stepped(w) ==
  /\ Median(w) # 0
  /\ err' = err - Median(w) /\ slewing' = 0
  /\ lastGps' = Older(Heard, Median(w))
  /\ window' = <<>>
StepFails(w) == Median(w) = 0 \/ MayFail

NotStepped(w) == lastGps' = Heard /\ window' = w

\* apply_slew
Slewed(w) == slewing' = SlewOffset(w) /\ err' = err

Synchronised == state' = "TRACKING" /\ synced' = TRUE

handle_init(w) ==
  \/ Stepped(w) /\ boot' = 0 /\ Synchronised
  \/ StepFails(w) /\ NotStepped(w) /\ UNCHANGED <<boot, state, synced, clock>>

InGrace == boot # Never /\ boot < Grace

handle_tracking(w) ==
  /\ \/ InGrace /\ NotStepped(w) /\ Slewed(w) /\ UNCHANGED boot
     \/ /\ ~InGrace /\ Large(w)
        /\ \/ Stepped(w) /\ boot' = 0
           \/ StepFails(w) /\ NotStepped(w) /\ Slewed(w) /\ boot' = Never
     \/ ~InGrace /\ ~Large(w) /\ NotStepped(w) /\ Slewed(w) /\ boot' = Never
  /\ UNCHANGED <<state, synced>>

handle_hold(w) ==
  /\ \/ Large(w) /\ Stepped(w) /\ boot' = 0
     \/ /\ Large(w) => StepFails(w)
        /\ NotStepped(w) /\ Slewed(w) /\ UNCHANGED boot
  /\ Synchronised

\* Half the round trip is added when it is plausible.
Compensated(o) == IF rtt > 0 /\ rtt < RttMax THEN o + rtt \div 2 ELSE o

\* A reference before min_gps_year is dropped without a trace.
Implausible ==
  /\ flight # <<>> /\ Head(flight) = Never
  /\ flight' = Tail(flight)
  /\ UNCHANGED <<node, rtt, clock, gps, jumps>>

time_ref_cb ==
  /\ flight # <<>> /\ Head(flight) # Never
  /\ flight' = Tail(flight) /\ lost' = 0
  /\ LET w == Pushed(Compensated(Head(flight)))
     IN \/ state = "INIT" /\ handle_init(w)
        \/ state = "TRACKING" /\ handle_tracking(w)
        \/ state = "HOLD" /\ handle_hold(w)
  /\ UNCHANGED <<rtt, gps, jumps>>

tsync_cb(r) == rtt # r /\ rtt' = r /\ UNCHANGED <<node, clock, fcu>>

\* A period passes, in which the kernel slews, and the monitor timer fires.
Overdue == lastGps # Never /\ Older(lastGps, Period) > Timeout

LosesSync == state' = "HOLD" /\ synced' = FALSE
monitor_cb ==
  /\ LET s == Clamp(slewing, SlewRate) IN err' = err - s /\ slewing' = slewing - s
  /\ lastGps' = Older(lastGps, Period) /\ boot' = Older(boot, Period)
  /\ IF state = "TRACKING" /\ Overdue
     THEN /\ lost' = lost + 1
          /\ IF lost' >= LostLimit THEN LosesSync
                                   ELSE UNCHANGED <<state, synced>>
     ELSE UNCHANGED <<state, synced, lost>>
  /\ UNCHANGED <<window, rtt, fcu>>

----------------------------------------------------------------------------
(* mavros and the flight controller.  Topics are best effort.              *)

Measure ==
  /\ gps /\ Len(flight) < MaxFlight
  /\ flight' = Append(flight, err)
  /\ UNCHANGED <<node, rtt, clock, gps, jumps>>

MeasureWithoutFix ==
  /\ gps /\ Len(flight) < MaxFlight
  /\ flight' = Append(flight, Never)
  /\ UNCHANGED <<node, rtt, clock, gps, jumps>>

Lose ==
  /\ flight # <<>> /\ flight' = Tail(flight)
  /\ UNCHANGED <<node, rtt, clock, gps, jumps>>

GpsEnds == gps /\ gps' = FALSE /\ UNCHANGED <<node, rtt, clock, flight, jumps>>

FcuJump(d) ==
  /\ jumps < MaxJumps /\ jumps' = jumps + 1
  /\ err' = err + d
  /\ UNCHANGED <<node, rtt, slewing, flight, gps>>

Aside ==
  \/ Implausible
  \/ \E r \in Rtts : tsync_cb(r)
  \/ Measure \/ MeasureWithoutFix \/ Lose \/ GpsEnds
  \/ \E d \in FcuJumps : FcuJump(d)

Next == time_ref_cb \/ monitor_cb \/ Aside

Spec == Init /\ [][Next]_vars

\* Timers fire; while the flight controller sends references, some have a fix
\* and some of those arrive.
Fairness == /\ WF_vars(monitor_cb)
            /\ SF_vars(Measure) /\ SF_vars(time_ref_cb) /\ WF_vars(Implausible)
FairSpec == Spec /\ Fairness

----------------------------------------------------------------------------
(* Correctness.                                                            *)

\* Types of the state.
TypeOK ==
  /\ state \in State /\ synced \in BOOLEAN
  /\ lost \in 0 .. LostLimit
  /\ window \in Seq(Int) /\ Len(window) <= WindowSize
  /\ rtt \in Nat
  /\ lastGps \in Int \cup {Never} /\ boot \in Int \cup {Never}
  /\ err \in Int /\ slewing \in Int
  /\ flight \in Seq(Int \cup {Never}) /\ Len(flight) <= MaxFlight
  /\ gps \in BOOLEAN /\ jumps \in 0 .. MaxJumps

\* clock_settime was called in this step.
Steps == flight' # flight /\ err' # err

\* A step that a current reference triggers never makes the clock worse than
\* the uncertainty of a measurement, although its size is the median of a
\* window that may go back to before a slew, a failed step or a jump of GPS.
StepsImprove ==
  [][Steps /\ Head(flight) = err
       => Abs(err') <= Abs(err) \/ Abs(err') <= RttMax \div 2]_vars

\* Once the references cease for good, ~/synced says so in the end, although
\* the stamp of the last one may lie in the future of the stepped clock.
LossReported == <>(~gps) => <>[](~synced)

\* While references keep coming the clock ends up within the dead zone of the
\* slew, give or take half a round trip, and stays there: the delayed average
\* does not drive it out again.
ClockFollows == []gps => <>[](Abs(err) < Gain + RttMax \div 2)

\* While references keep coming the node never stays out of TRACKING.
SyncReturns == []gps => []<>synced
=============================================================================
