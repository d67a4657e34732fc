------------------------------ MODULE MCDaemon ------------------------------
(* Small instances of the supervisor. *)
EXTENDS AcflyDaemon, TLC

\* Two processes of processes.yaml: timesync depends on mavros and waits for
\* the topics mavros advertises.
TwoProcs == {"mavros", "timesync"}
TwoRank == [p \in TwoProcs |-> IF p = "mavros" THEN 1 ELSE 2]
TwoDeps == [p \in TwoProcs |-> IF p = "mavros" THEN {} ELSE {"mavros"}]
TwoAuto == [p \in TwoProcs |-> TRUE]
TwoStop == [p \in TwoProcs |-> 1]

\* The laser driver alone, with its data-plane health check.
OdinProcs == {"odin1_driver"}
OdinRank == [p \in OdinProcs |-> 1]
OdinNone == [p \in OdinProcs |-> {}]
OdinAuto == [p \in OdinProcs |-> TRUE]
OdinStop == [p \in OdinProcs |-> 1]

\* The clock stepped behind, or beyond every threshold.
ClockSteps == {-2, 2}
BackwardStep == {-1}

\* What was begun ends, whatever the children and the ROS clock do: a daemon that
\* was told to shut down exits, and a program asked to stop and a driver given up
\* leave the state they were put in.
AskedEnds == SignalHonoured /\ StopEnds /\ GiveUpEnds

PidSymmetry == Permutations(Pids)
=============================================================================
