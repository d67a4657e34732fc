----------------------------- MODULE Supervision -----------------------------
(***************************************************************************)
(* What the daemon promises to the programs it looks after and to the      *)
(* operator, without process states, ages, reaping or a polling loop.      *)
(*                                                                         *)
(* A step may concern several programs and instances of them.  Instances   *)
(* end when they like; everything else is up to the daemon, which acts in  *)
(* one of two turns: the timer callback, on its own account, or a request. *)
(***************************************************************************)
CONSTANTS
  Programs,   \* the supervised programs
  Watched,    \* those whose data the daemon watches for stalls
  Instances,  \* names for the instances that may exist at a time
  Nobody      \* the program of a name that is not in use

VARIABLES
  life,     \* of an instance: "none", "runs", "asked" (SIGINT) or "killed" (SIGKILL)
  of,       \* the program of an instance
  wanted,   \* whether a program is to run
  phase,    \* "up", "closing" (after a signal) or "over"
  turn      \* "timer" or "request"

promises == <<life, of, wanted, phase, turn>>

Init ==
  /\ life = [x \in Instances |-> "none"]
  /\ of = [x \in Instances |-> Nobody]
  /\ wanted = [p \in Programs |-> TRUE]
  /\ phase = "up" /\ turn = "request"

----------------------------------------------------------------------------
(* What a step may do to the instance x.                                   *)

Same(x) == life'[x] = life[x] /\ of'[x] = of[x]

\* Instances end at any time: they crash, obey a signal or are ended by one.
Ends(x) == life'[x] = "none" /\ of'[x] = Nobody

\* A wanted program is started while no other instance of it executes, and
\* never once the daemon goes down.
Launched(x) ==
  /\ phase = "up"
  /\ life[x] = "none" /\ life'[x] = "runs"
  /\ of'[x] \in Programs /\ wanted'[of'[x]]
  /\ \A y \in Instances \ {x} :
       life'[y] \in {"runs", "asked"} => of'[y] # of'[x]

\* A program asked to stop is from then on not wanted.
Asked(x) ==
  /\ phase = "up"
  /\ life[x] = "runs" /\ life'[x] = "asked"
  /\ of'[x] = of[x] /\ ~wanted'[of[x]]

\* Nothing is killed that was not asked to stop before, except, in the timer's
\* turn, a watched program that delivers nothing.
Killed(x) ==
  /\ phase # "over"
  /\ \/ life[x] = "asked"
     \/ life[x] = "runs" /\ of[x] \in Watched /\ turn = "timer"
  /\ life'[x] = "killed" /\ of'[x] = of[x]

\* What is not wanted becomes wanted again by a request alone: the timer never
\* brings back what was stopped or given up.
Wants(p) == wanted'[p] /\ ~wanted[p] => phase = "up" /\ turn = "request"

\* A daemon that was told to shut down ends when every instance is ended or
\* killed; one that gives up by itself promises nothing about them.
Closes == phase = "up" /\ phase' = "closing"
Finishes == /\ phase = "closing" /\ phase' = "over"
            /\ \A x \in Instances : life'[x] \in {"none", "killed"}
Aborts == phase = "up" /\ phase' = "over"

Next ==
  /\ \A x \in Instances : Same(x) \/ Ends(x) \/ Launched(x) \/ Asked(x) \/ Killed(x)
  /\ \A p \in Programs : Wants(p)
  /\ phase' = phase \/ Closes \/ Finishes \/ Aborts

Spec == Init /\ [][Next]_promises
=============================================================================
