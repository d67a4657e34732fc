---------------------------- MODULE MCDaemonClaims ----------------------------
(***************************************************************************)
(* What a comment of acfly_daemon says about the supervisor and its code   *)
(* does not keep, on a small instance: the laser driver alone, with its    *)
(* data-plane health check.                                                *)
(***************************************************************************)
EXTENDS AcflyDaemon

OdinProcs == {"odin1_driver"}
OdinRank == [p \in OdinProcs |-> 1]
OdinNone == [p \in OdinProcs |-> {}]
OdinAuto == [p \in OdinProcs |-> TRUE]
OdinStop == [p \in OdinProcs |-> 1]

\* Giving up sets the driver to STOPPED and waits for manual intervention;
\* the supervisor itself goes on.
GiveUpKeepsDaemon == pc # "aborted"
=============================================================================
