----------------------------- MODULE MCTimeSync -----------------------------
(***************************************************************************)
(* Two small instances of the time synchroniser.  In one, a period is the  *)
(* unit, the first step goes forwards, and jumps of GPS time ask for one   *)
(* backwards.  The other is the slewing loop with the numbers of the code, *)
(* in microseconds: one reference per second, ten monitor periods between  *)
(* two of them, and a GPS time that moves back by 20 ms after the first    *)
(* step.  Nothing else happens there: it is one behaviour, followed        *)
(* exactly.                                                                *)
(***************************************************************************)
EXTENDS TimeSync

VARIABLE turn   \* the loop: 0 .. 9 a period passes, then a reference; -1 is the other instance

SomeJumps == {-9, 6}

L == INSTANCE TimeSync WITH
  WindowSize <- 30, Threshold <- 500000, Timeout <- 5000000, Grace <- 3000000, RttMax <- 50000,
  Period <- 100000, Gain <- 20, MaxStep <- 100000, SlewRate <- 50, Errors <- {1000000},
  FcuJumps <- {-20000}, Rtts <- {}, AgeCap <- 6000000

LoopNext ==
  \/ turn < 10 /\ L!monitor_cb /\ turn' = turn + 1
  \/ turn = 10 /\ L!Measure /\ turn' = 11
  \/ turn = 11 /\ L!time_ref_cb /\ turn' = IF jumps < MaxJumps THEN 12 ELSE 0
  \/ turn = 12 /\ L!FcuJump(-20000) /\ turn' = 0

MCInit == (turn = -1 /\ Init) \/ (turn = 0 /\ L!Init)
MCNext == (turn = -1 /\ Next /\ UNCHANGED turn) \/ (turn >= 0 /\ LoopNext)
MCSpec == MCInit /\ [][MCNext]_<<vars, turn>> /\ Fairness
-----------------------------------------------------------------------------

\* The loop is stable: once the clock follows GPS, a disturbance of 20 ms
\* never grows, whatever the window of samples holds (apply_slew,
\* get_smoothed_offset_ms).  The other instance is well typed.
LoopStable == IF turn >= 0 THEN jumps = MaxJumps => Abs(err) <= 20000 ELSE TypeOK

\* While references keep coming the clock ends up within the dead zone of the
\* slew, and the node never stays out of TRACKING; once they cease ~/synced says
\* so (handle_tracking, handle_hold, monitor_cb).
ClockKept == ClockFollows /\ SyncReturns /\ LossReported
=============================================================================
