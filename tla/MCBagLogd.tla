------------------------------ MODULE MCBagLogd ------------------------------
(* Small instances of the flight recorder. *)
EXTENDS BagLogdClaims

\* bag_logd.yaml, and the configurations that differ in one setting.
Yaml == [arm |-> TRUE, rotation |-> TRUE, auto |-> TRUE]
OneOff == {Yaml, [Yaml EXCEPT !.arm = FALSE], [Yaml EXCEPT !.rotation = FALSE],
           [Yaml EXCEPT !.auto = FALSE]}
OnlyYaml == {Yaml}
Forward == {1}
None == {}

\* What stops recording or fills the disk is temporary: low space is ended and
\* recording resumes (disk_check_cb, retry_open_bag).
Recovers == LowSpaceEnds /\ Resumes
=============================================================================
