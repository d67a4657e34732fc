---------------------------- MODULE BagLogdClaims ----------------------------
(***************************************************************************)
(* A statement of bag_logd's documents that the code does not keep.        *)
(***************************************************************************)
EXTENDS BagLogd

\* "A power cut loses the active slice at most": of the flight in progress a
\* slice is only deleted when the disk is low, with no exception for what the
\* first state message after a restart, or after a lost link, does.
FlightKept ==
  [][flight.on /\ ~Low(bags) =>
       \A b \in bags : b.flight = flight.number => ~Loses(b)]_vars
=============================================================================
