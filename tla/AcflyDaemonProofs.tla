-------------------------- MODULE AcflyDaemonProofs --------------------------
(***************************************************************************)
(* Proofs about the supervisor, for every set of processes, pids, timeouts *)
(* and clock steps that satisfies DaemonAssumption: its types and the      *)
(* invariants of single handlers, mutual exclusion of the instances of a   *)
(* program, and that it implements Supervision.                            *)
(***************************************************************************)
EXTENDS AcflyDaemon, TLAPS

OdinHealth == [armed : BOOLEAN, fails : Nat, msg_age : Int, run_age : Int]

RestartPcs == {"restart_loop", "restart_sleep", "restart_reap", "restart_timeouts"}

\* While the executor is blocked in a named restart, call names a process.
RestartHasTarget == pc \in RestartPcs => call \in Procs

USE DaemonAssumption

\* Assigning one field of a ManagedProcess keeps it one.
LEMMA Setters ==
  ASSUME NEW m \in ManagedProcess
  PROVE  /\ \A s \in ProcessState : [m EXCEPT !.state = s] \in ManagedProcess
         /\ \A x \in Pids \cup {NoPid} : [m EXCEPT !.pid = x] \in ManagedProcess
         /\ \A b \in BOOLEAN : [m EXCEPT !.stopping = b] \in ManagedProcess
         /\ \A b \in BOOLEAN : [m EXCEPT !.auto_restart = b] \in ManagedProcess
         /\ \A b \in BOOLEAN : [m EXCEPT !.stop_timed = b] \in ManagedProcess
         /\ \A b \in InitialBackoff .. MaxBackoff :
              [m EXCEPT !.backoff = b] \in ManagedProcess
         /\ \A a \in Int : [m EXCEPT !.age = a] \in ManagedProcess
         /\ \A a \in Int : [m EXCEPT !.stop_age = a] \in ManagedProcess
  BY DEF ManagedProcess

LEMMA BackoffRange ==
  /\ InitialBackoff \in InitialBackoff .. MaxBackoff
  /\ \A b \in InitialBackoff .. MaxBackoff : Doubled(b) \in InitialBackoff .. MaxBackoff
  BY DEF Doubled

LEMMA SatInt == \A a \in Int : Sat(a) \in Int
  BY DEF Sat

\* What request_stop makes of a record.
LEMMA StopRequestedFields ==
  ASSUME NEW m \in ManagedProcess
  PROVE  /\ StopRequested(m) \in ManagedProcess
         /\ StopRequested(m).state = "STOPPING"
         /\ StopRequested(m).stopping
         /\ StopRequested(m).stop_timed
         /\ StopRequested(m).pid = m.pid
<1> DEFINE a == [m EXCEPT !.stopping = TRUE]
<1> DEFINE b == [a EXCEPT !.stop_age = 0]
<1> DEFINE c == [b EXCEPT !.stop_timed = TRUE]
<1> DEFINE d == [c EXCEPT !.state = "STOPPING"]
<1>1. a \in ManagedProcess
  BY Setters
<1>2. b \in ManagedProcess
  <2> HIDE DEF a
  <2> QED BY <1>1 DEF ManagedProcess
<1>3. c \in ManagedProcess
  <2> HIDE DEF b
  <2> QED BY <1>2, Setters
<1>4. d \in ManagedProcess
  <2> HIDE DEF c
  <2> QED BY <1>3, Setters DEF ProcessState
<1>5. StopRequested(m) = d
  BY DEF StopRequested
<1>6. StopRequested(m).state = "STOPPING"
  BY DEF StopRequested, ManagedProcess
<1>7. StopRequested(m).stopping
  BY DEF StopRequested, ManagedProcess
<1>8. StopRequested(m).stop_timed
  BY DEF StopRequested, ManagedProcess
<1>9. StopRequested(m).pid = m.pid
  BY DEF StopRequested, ManagedProcess
<1> HIDE DEF d
<1> QED BY <1>4, <1>5, <1>6, <1>7, <1>8, <1>9

\* What force_kill makes of a record.
LEMMA ForceKilledFields ==
  ASSUME NEW m \in ManagedProcess
  PROVE  /\ ForceKilled(m) \in ManagedProcess
         /\ ForceKilled(m).state = "STOPPED"
         /\ ForceKilled(m).pid = NoPid
         /\ ~ForceKilled(m).stopping
<1> DEFINE a == [m EXCEPT !.stopping = FALSE]
<1> DEFINE b == [a EXCEPT !.pid = NoPid]
<1> DEFINE c == [b EXCEPT !.state = "STOPPED"]
<1>1. a \in ManagedProcess
  BY Setters
<1>2. b \in ManagedProcess
  <2> HIDE DEF a
  <2> QED BY <1>1, Setters
<1>3. c \in ManagedProcess
  <2> HIDE DEF b
  <2> QED BY <1>2, Setters DEF ProcessState
<1>4. ForceKilled(m) = c
  BY DEF ForceKilled
<1>5. ForceKilled(m).state = "STOPPED"
  BY DEF ForceKilled, ManagedProcess
<1>6. ForceKilled(m).pid = NoPid /\ ~ForceKilled(m).stopping
  BY DEF ForceKilled, ManagedProcess
<1> HIDE DEF c
<1> QED BY <1>3, <1>4, <1>5, <1>6

\* What a fork that succeeds makes of a record.
LEMMA ForkedFields ==
  ASSUME NEW m \in ManagedProcess, NEW x \in Pids
  PROVE  /\ Forked(m, x) \in ManagedProcess
         /\ Forked(m, x).state = "STARTING"
         /\ Forked(m, x).pid = x
         /\ Forked(m, x).stopping = m.stopping
<1> DEFINE a == [m EXCEPT !.pid = x]
<1> DEFINE b == [a EXCEPT !.state = "STARTING"]
<1> DEFINE c == [b EXCEPT !.age = 0]
<1>1. a \in ManagedProcess
  BY Setters
<1>2. b \in ManagedProcess
  <2> HIDE DEF a
  <2> QED BY <1>1, Setters DEF ProcessState
<1>3. c \in ManagedProcess
  <2> HIDE DEF b
  <2> QED BY <1>2 DEF ManagedProcess
<1>4. Forked(m, x) = c
  BY DEF Forked
<1>5. Forked(m, x).state = "STARTING"
  BY DEF Forked, ManagedProcess
<1>6. Forked(m, x).pid = x /\ Forked(m, x).stopping = m.stopping
  BY DEF Forked, ManagedProcess
<1> HIDE DEF c
<1> QED BY <1>3, <1>4, <1>5, <1>6

\* What a fork that fails makes of a record.
LEMMA ForkFailedFields ==
  ASSUME NEW m \in ManagedProcess
  PROVE  /\ ForkFailed(m) \in ManagedProcess
         /\ ForkFailed(m).state = "RESTARTING"
         /\ ForkFailed(m).pid = m.pid
         /\ ForkFailed(m).stopping = m.stopping
<1> DEFINE a == [m EXCEPT !.state = "RESTARTING"]
<1> DEFINE b == [a EXCEPT !.age = 0]
<1>1. a \in ManagedProcess
  BY Setters DEF ProcessState
<1>2. b \in ManagedProcess
  <2> HIDE DEF a
  <2> QED BY <1>1 DEF ManagedProcess
<1>3. ForkFailed(m) = b
  BY DEF ForkFailed
<1>4. ForkFailed(m).state = "RESTARTING"
  BY DEF ForkFailed, ManagedProcess
<1>5. ForkFailed(m).pid = m.pid /\ ForkFailed(m).stopping = m.stopping
  BY DEF ForkFailed, ManagedProcess
<1> HIDE DEF b
<1> QED BY <1>2, <1>3, <1>4, <1>5

\* What a manual start makes of a record before it forks.
LEMMA ManuallyResetFields ==
  ASSUME NEW m \in ManagedProcess, NEW p \in Procs
  PROVE  /\ ManuallyReset(m, p) \in ManagedProcess
         /\ ManuallyReset(m, p).state = "PENDING"
         /\ ManuallyReset(m, p).pid = m.pid
         /\ ManuallyReset(m, p).stopping = m.stopping
<1> DEFINE a == [m EXCEPT !.state = "PENDING"]
<1> DEFINE b == [a EXCEPT !.backoff = InitialBackoff]
<1> DEFINE c == [b EXCEPT !.auto_restart = IF p = Odin THEN TRUE ELSE @]
<1>1. a \in ManagedProcess
  BY Setters DEF ProcessState
<1>2. b \in ManagedProcess
  <2> HIDE DEF a
  <2> QED BY <1>1, BackoffRange DEF ManagedProcess
<1>3. c \in ManagedProcess
  <2> HIDE DEF b
  <2> QED BY <1>2 DEF ManagedProcess
<1>4. ManuallyReset(m, p) = c
  BY DEF ManuallyReset
<1>5. ManuallyReset(m, p).state = "PENDING"
  BY DEF ManuallyReset, ManagedProcess
<1>6. /\ ManuallyReset(m, p).pid = m.pid
      /\ ManuallyReset(m, p).stopping = m.stopping
  BY DEF ManuallyReset, ManagedProcess
<1> HIDE DEF c
<1> QED BY <1>3, <1>4, <1>5, <1>6

\* What the passing of time makes of a record.
LEMMA AgedFields ==
  ASSUME NEW m \in ManagedProcess, NEW d \in Int
  PROVE  /\ Aged(m, d) \in ManagedProcess
         /\ Aged(m, d).state = m.state
         /\ Aged(m, d).pid = m.pid
         /\ Aged(m, d).stopping = m.stopping
         /\ Aged(m, d).stop_timed = m.stop_timed
<1> DEFINE a == [m EXCEPT !.age = Sat(@ + d)]
<1> DEFINE b == [a EXCEPT !.stop_age = IF m.stop_timed THEN Sat(@ + d) ELSE @]
<1>1. a \in ManagedProcess
  BY SatInt DEF ManagedProcess
<1>2. b \in ManagedProcess
  <2> HIDE DEF a
  <2> QED BY <1>1, SatInt DEF ManagedProcess
<1>3. Aged(m, d) = b
  BY DEF Aged
<1>4. Aged(m, d).state = m.state
  BY DEF Aged, ManagedProcess
<1>5. Aged(m, d).pid = m.pid
  BY DEF Aged, ManagedProcess
<1>6. Aged(m, d).stopping = m.stopping
  BY DEF Aged, ManagedProcess
<1>7. Aged(m, d).stop_timed = m.stop_timed
  BY DEF Aged, ManagedProcess
<1> HIDE DEF b
<1> QED BY <1>2, <1>3, <1>4, <1>5, <1>6, <1>7

\* What waitpid makes of a record: STOPPED if the stop was asked for.
LEMMA ReapedFields ==
  ASSUME NEW m \in ManagedProcess
  PROVE  /\ Reaped(m) \in ManagedProcess
         /\ Reaped(m).pid = NoPid
         /\ ~Reaped(m).stopping
         /\ Reaped(m).state = IF m.stopping THEN "STOPPED" ELSE "RESTARTING"
<1>1. CASE m.stopping
  <2> DEFINE a == [m EXCEPT !.pid = NoPid]
  <2> DEFINE b == [a EXCEPT !.stopping = FALSE]
  <2> DEFINE c == [b EXCEPT !.state = "STOPPED"]
  <2>1. a \in ManagedProcess
    BY Setters
  <2>2. b \in ManagedProcess
    <3> HIDE DEF a
    <3> QED BY <2>1, Setters
  <2>3. c \in ManagedProcess
    <3> HIDE DEF b
    <3> QED BY <2>2, Setters DEF ProcessState
  <2>4. Reaped(m) = c
    BY <1>1 DEF Reaped
  <2>5. c.pid = NoPid /\ c.state = "STOPPED" /\ ~c.stopping
    BY DEF ManagedProcess
  <2> HIDE DEF c
  <2> QED BY <1>1, <2>3, <2>4, <2>5
<1>2. CASE ~m.stopping
  <2> DEFINE a == [m EXCEPT !.pid = NoPid]
  <2> DEFINE b == [a EXCEPT !.state = "RESTARTING"]
  <2> DEFINE c == [b EXCEPT !.age = 0]
  <2>1. a \in ManagedProcess
    BY Setters
  <2>2. b \in ManagedProcess
    <3> HIDE DEF a
    <3> QED BY <2>1, Setters DEF ProcessState
  <2>3. c \in ManagedProcess
    <3> HIDE DEF b
    <3> QED BY <2>2 DEF ManagedProcess
  <2>4. Reaped(m) = c
    BY <1>2 DEF Reaped
  <2>5. c.pid = NoPid /\ c.state = "RESTARTING" /\ c.stopping = m.stopping
    BY DEF ManagedProcess
  <2> HIDE DEF c
  <2> QED BY <1>2, <2>3, <2>4, <2>5
<1> QED BY <1>1, <1>2

\* The assignments to the members odin_health_* keep their types.
LEMMA OdinFields ==
  ASSUME NEW o \in OdinHealth
  PROVE  /\ [o EXCEPT !.armed = FALSE, !.run_age = 0] \in OdinHealth
         /\ [o EXCEPT !.armed = TRUE, !.msg_age = 0] \in OdinHealth
         /\ [o EXCEPT !.armed = FALSE, !.fails = @ + 1] \in OdinHealth
         /\ [o EXCEPT !.armed = FALSE] \in OdinHealth
         /\ \A n \in Nat : [o EXCEPT !.fails = n] \in OdinHealth
         /\ [o EXCEPT !.msg_age = Sat(@ + 1), !.run_age = Sat(@ + 1)] \in OdinHealth
<1> DEFINE disarmed == [o EXCEPT !.armed = FALSE]
           armed == [o EXCEPT !.armed = TRUE]
           aged == [o EXCEPT !.msg_age = Sat(@ + 1)]
<1>1. /\ disarmed \in OdinHealth
      /\ armed \in OdinHealth
      /\ \A n \in Nat : [o EXCEPT !.fails = n] \in OdinHealth
  BY DEF OdinHealth
<1>2. aged \in OdinHealth
  <2>1. Sat(o.msg_age + 1) \in Int
    BY SatInt DEF OdinHealth
  <2> QED BY <2>1 DEF OdinHealth
<1> HIDE DEF disarmed, armed, aged
<1>3. [disarmed EXCEPT !.run_age = 0] \in OdinHealth
  BY <1>1 DEF OdinHealth
<1>4. [disarmed EXCEPT !.fails = @ + 1] \in OdinHealth
  <2>1. disarmed.fails + 1 \in Nat
    BY <1>1 DEF OdinHealth
  <2> QED BY <1>1, <2>1 DEF OdinHealth
<1>5. [armed EXCEPT !.msg_age = 0] \in OdinHealth
  BY <1>1 DEF OdinHealth
<1>6. [aged EXCEPT !.run_age = Sat(@ + 1)] \in OdinHealth
  <2>1. Sat(aged.run_age + 1) \in Int
    BY <1>2, SatInt DEF OdinHealth
  <2> QED BY <1>2, <2>1 DEF OdinHealth
<1> QED BY <1>1, <1>3, <1>4, <1>5, <1>6 DEF disarmed, armed, aged

\* The record part of the invariant.
Records == /\ mp \in [Procs -> ManagedProcess]
           /\ os \in [Pids -> KernelState]
           /\ prog \in [Pids -> Procs \cup {NoPid}]
           /\ odin \in OdinHealth
           /\ SignalsOwnChild
           /\ StoppingIsTimed

\* Starting any set of processes, of which only those in S had their record
\* prepared by the caller, keeps the records well formed.
LEMMA StartKeepsRecords ==
  ASSUME Records,
         NEW STATE S, S \subseteq Procs,
         NEW STATE m, m \in [Procs -> ManagedProcess],
         \A p \in Procs : m[p].pid = mp[p].pid,
         \A p \in Procs \ S : m[p] = mp[p],
         NEW STATE o, o \in OdinHealth,
         start_process(S, m, o)
  PROVE  Records'
<1> DEFINE Free == {x \in Pids : os[x] = "free"}
<1>1. PICK F \in SUBSET S : \E f \in [S \ F -> Free] :
            /\ \A p, q \in S \ F : f[p] = f[q] => p = q
            /\ mp' = [p \in Procs |-> IF p \in F THEN ForkFailed(m[p])
                                      ELSE IF p \in S \ F THEN Forked(m[p], f[p])
                                      ELSE m[p]]
            /\ os' = [x \in Pids |-> IF \E p \in S \ F : f[p] = x THEN "alive"
                                     ELSE Kill(kill_zombie(S))[x]]
            /\ prog' = [x \in Pids |-> IF \E p \in S \ F : f[p] = x
                                       THEN CHOOSE p \in S \ F : f[p] = x
                                       ELSE prog[x]]
            /\ odin' = IF Odin \in S \ F
                       THEN [o EXCEPT !.armed = FALSE, !.run_age = 0]
                       ELSE o
  BY DEF start_process
<1> DEFINE U == S \ F
<1>2. PICK f \in [U -> Free] :
            /\ \A p, q \in U : f[p] = f[q] => p = q
            /\ mp' = [p \in Procs |-> IF p \in F THEN ForkFailed(m[p])
                                      ELSE IF p \in U THEN Forked(m[p], f[p])
                                      ELSE m[p]]
            /\ os' = [x \in Pids |-> IF \E p \in U : f[p] = x THEN "alive"
                                     ELSE Kill(kill_zombie(S))[x]]
            /\ prog' = [x \in Pids |-> IF \E p \in U : f[p] = x
                                       THEN CHOOSE p \in U : f[p] = x
                                       ELSE prog[x]]
            /\ odin' = IF Odin \in U
                       THEN [o EXCEPT !.armed = FALSE, !.run_age = 0]
                       ELSE o
  BY <1>1
<1>3. \A p \in U : f[p] \in Pids /\ os[f[p]] = "free"
  OBVIOUS
<1>4. mp' \in [Procs -> ManagedProcess]
  <2> SUFFICES ASSUME NEW p \in Procs PROVE mp'[p] \in ManagedProcess
    BY <1>2
  <2> m[p] \in ManagedProcess
    OBVIOUS
  <2>1. CASE p \in F
    BY <2>1, <1>2, ForkFailedFields
  <2>2. CASE p \in U
    BY <2>2, <1>2, <1>3, ForkedFields
  <2>3. CASE p \notin S
    BY <2>3, <1>2
  <2> QED BY <2>1, <2>2, <2>3
<1>5. os' \in [Pids -> KernelState]
  BY <1>2 DEF Records, KernelState, Kill
<1>6. \A p \in U : prog'[f[p]] = p /\ os'[f[p]] = "alive"
  <2> SUFFICES ASSUME NEW p \in U PROVE prog'[f[p]] = p /\ os'[f[p]] = "alive"
    OBVIOUS
  <2>1. (CHOOSE q \in U : f[q] = f[p]) = p
    BY <1>2
  <2> QED BY <2>1, <1>2, <1>3
<1>7. prog' \in [Pids -> Procs \cup {NoPid}]
  <2> SUFFICES ASSUME NEW x \in Pids PROVE prog'[x] \in Procs \cup {NoPid}
    BY <1>2
  <2>1. CASE \E p \in U : f[p] = x
    BY <2>1, <1>6
  <2>2. CASE ~\E p \in U : f[p] = x
    BY <2>2, <1>2 DEF Records
  <2> QED BY <2>1, <2>2
<1>8. odin' \in OdinHealth
  BY <1>2, OdinFields
<1>9. SignalsOwnChild'
  <2> SUFFICES ASSUME NEW p \in Procs, mp'[p].pid # NoPid
               PROVE  os'[mp'[p].pid] # "free" /\ prog'[mp'[p].pid] = p
    BY DEF SignalsOwnChild
  <2>1. CASE p \in U
    <3>1. mp'[p].pid = f[p]
      BY <2>1, <1>2, <1>3, ForkedFields
    <3> QED BY <3>1, <2>1, <1>6
  <2>2. CASE p \notin U
    <3>1. mp'[p].pid = mp[p].pid
      <4>1. CASE p \in F
        BY <4>1, <1>2, ForkFailedFields
      <4>2. CASE p \notin S
        BY <4>2, <2>2, <1>2
      <4> QED BY <4>1, <4>2, <2>2
    <3>2. mp[p].pid \in Pids /\ os[mp[p].pid] # "free" /\ prog[mp[p].pid] = p
      BY <3>1, <2>2 DEF Records, SignalsOwnChild, ManagedProcess
    <3>3. ~\E q \in U : f[q] = mp[p].pid
      BY <3>2, <1>3
    <3> QED BY <3>1, <3>2, <3>3, <1>2 DEF Kill
  <2> QED BY <2>1, <2>2
<1>10. StoppingIsTimed'
  <2> SUFFICES ASSUME NEW p \in Procs, mp'[p].state = "STOPPING"
               PROVE  mp'[p].stopping /\ mp'[p].pid # NoPid /\ mp'[p].stop_timed
    BY DEF StoppingIsTimed
  <2>1. p \notin S
    <3>1. CASE p \in F
      BY <3>1, <1>2, ForkFailedFields
    <3>2. CASE p \in U
      BY <3>2, <1>2, <1>3, ForkedFields
    <3> QED BY <3>1, <3>2
  <2>2. mp'[p] = mp[p]
    BY <2>1, <1>2
  <2> QED BY <2>2 DEF Records, StoppingIsTimed
<1> QED BY <1>4, <1>5, <1>7, <1>8, <1>9, <1>10 DEF Records

\* request_stop and force_kill on a set of processes keep the records well
\* formed, and so does the passing of time.
LEMMA StopKeepsRecords ==
  ASSUME Records, NEW STATE S, S \subseteq Procs, request_stop(S),
         UNCHANGED <<prog, odin>>
  PROVE  Records'
<1>1. \A p \in Procs : mp[p] \in ManagedProcess
  BY DEF Records
<1>2. \A p \in HavePid(S) :
        /\ mp'[p] \in ManagedProcess /\ mp'[p].pid = mp[p].pid
        /\ mp'[p].stopping /\ mp'[p].stop_timed
  BY <1>1, StopRequestedFields DEF request_stop, Each, HavePid
<1>3. \A p \in Procs \ HavePid(S) : mp'[p] = mp[p]
  BY DEF request_stop, Each
<1>4. mp' \in [Procs -> ManagedProcess]
  BY <1>1, <1>2, <1>3 DEF request_stop, Each
<1>5. os' \in [Pids -> KernelState]
  BY DEF Records, request_stop, Interrupt, KernelState
<1>6. SignalsOwnChild'
  BY <1>1, <1>2, <1>3 DEF Records, SignalsOwnChild, request_stop, Interrupt, ManagedProcess
<1>7. StoppingIsTimed'
  BY <1>1, <1>2, <1>3 DEF Records, StoppingIsTimed, HavePid
<1> QED BY <1>4, <1>5, <1>6, <1>7 DEF Records

LEMMA KillKeepsRecords ==
  ASSUME Records, NEW STATE S, S \subseteq Procs, force_kill(S),
         UNCHANGED <<prog, odin>>
  PROVE  Records'
<1>1. \A p \in Procs : mp[p] \in ManagedProcess
  BY DEF Records
<1>2. \A p \in HavePid(S) :
        /\ mp'[p] \in ManagedProcess /\ mp'[p].pid = NoPid
        /\ mp'[p].state = "STOPPED"
  BY <1>1, ForceKilledFields DEF force_kill, Each, HavePid
<1>3. \A p \in Procs \ HavePid(S) : mp'[p] = mp[p]
  BY DEF force_kill, Each
<1>4. mp' \in [Procs -> ManagedProcess]
  BY <1>1, <1>2, <1>3 DEF force_kill, Each
<1>5. os' \in [Pids -> KernelState]
  BY DEF Records, force_kill, Kill, KernelState
<1>6. SignalsOwnChild'
  BY <1>1, <1>2, <1>3 DEF Records, SignalsOwnChild, force_kill, Kill, ManagedProcess
<1>7. StoppingIsTimed'
  BY <1>1, <1>2, <1>3 DEF Records, StoppingIsTimed
<1> QED BY <1>4, <1>5, <1>6, <1>7 DEF Records

LEMMA TimeKeepsRecords ==
  ASSUME Records, NEW d \in Int, mp' = Shifted(d), odin' \in OdinHealth,
         UNCHANGED <<os, prog>>
  PROVE  Records'
<1>1. \A p \in Procs : mp[p] \in ManagedProcess
  BY DEF Records
<1>2. \A p \in Procs :
        /\ mp'[p] \in ManagedProcess
        /\ mp'[p].state = mp[p].state /\ mp'[p].pid = mp[p].pid
        /\ mp'[p].stopping = mp[p].stopping /\ mp'[p].stop_timed = mp[p].stop_timed
  BY <1>1, AgedFields DEF Shifted
<1>3. mp' \in [Procs -> ManagedProcess]
  BY <1>2 DEF Shifted
<1> QED BY <1>2, <1>3 DEF Records, SignalsOwnChild, StoppingIsTimed

\* waitpid gives back only pids of zombies, and every record that held one of
\* them is cleared in the same step.
LEMMA ReapKeepsRecords ==
  ASSUME Records, NEW from, NEW to, reap_children(from, to)
  PROVE  Records'
<1> DEFINE Z == {x \in Pids : os[x] = "zombie"}
           C == {p \in Procs : mp[p].pid \in Z}
<1>1. \A p \in Procs : mp[p] \in ManagedProcess
  BY DEF Records
<1>2. \A p \in C :
        /\ mp'[p] \in ManagedProcess /\ mp'[p].pid = NoPid
        /\ mp'[p].state # "STOPPING"
  BY <1>1, ReapedFields DEF reap_children, Each
<1>3. \A p \in Procs \ C : mp'[p] = mp[p]
  BY DEF reap_children, Each
<1>4. mp' \in [Procs -> ManagedProcess]
  BY <1>1, <1>2, <1>3 DEF reap_children, Each
<1>5. os' \in [Pids -> KernelState] /\ prog' \in [Pids -> Procs \cup {NoPid}]
  BY DEF Records, reap_children, KernelState
<1>6. odin' = odin
  BY DEF reap_children
<1>7. SignalsOwnChild'
  <2> SUFFICES ASSUME NEW p \in Procs, mp'[p].pid # NoPid
               PROVE  os'[mp'[p].pid] # "free" /\ prog'[mp'[p].pid] = p
    BY DEF SignalsOwnChild
  <2>1. p \notin C /\ mp'[p].pid = mp[p].pid
    BY <1>2, <1>3
  <2>2. mp[p].pid \in Pids \ Z /\ os[mp[p].pid] # "free" /\ prog[mp[p].pid] = p
    BY <1>1, <2>1 DEF Records, SignalsOwnChild, ManagedProcess
  <2> QED BY <2>1, <2>2 DEF reap_children
<1>8. StoppingIsTimed'
  BY <1>1, <1>2, <1>3 DEF Records, StoppingIsTimed
<1> QED BY <1>4, <1>5, <1>6, <1>7, <1>8 DEF Records

\* check_started only turns STARTING into RUNNING and resets backoffs.
LEMMA StartedKeepsRecords ==
  ASSUME Records, check_started
  PROVE  Records' /\ \A p \in Procs : /\ mp'[p].pid = mp[p].pid
                                      /\ mp'[p].stopping = mp[p].stopping
                                      /\ \/ mp'[p].state = mp[p].state
                                         \/ /\ mp[p].state = "STARTING"
                                            /\ mp'[p].state = "RUNNING"
<1> DEFINE ready(p) == /\ mp[p].state = "STARTING" /\ mp[p].pid # NoPid
                       /\ os[mp[p].pid] # "free"
           settled(p) == /\ ready(p) \/ mp[p].state = "RUNNING"
                         /\ mp[p].backoff > InitialBackoff
                         /\ mp[p].age >= MinUptimeReset
           a(p) == [mp[p] EXCEPT !.state = IF ready(p) THEN "RUNNING" ELSE @]
           b(p) == [a(p) EXCEPT !.backoff = IF settled(p) THEN InitialBackoff ELSE @]
<1>1. \A p \in Procs : mp[p] \in ManagedProcess
  BY DEF Records
<1>2. mp' = [p \in Procs |-> b(p)] /\ UNCHANGED <<os, prog, odin>>
  BY ZenonT(60) DEF check_started
<1>3. ASSUME NEW p \in Procs
      PROVE  /\ b(p) \in ManagedProcess /\ b(p).pid = mp[p].pid
             /\ b(p).stopping = mp[p].stopping /\ b(p).stop_timed = mp[p].stop_timed
             /\ b(p).state = IF ready(p) THEN "RUNNING" ELSE mp[p].state
  <2>1. a(p) \in ManagedProcess
    <3>1. (IF ready(p) THEN "RUNNING" ELSE mp[p].state) \in ProcessState
      BY <1>1 DEF ManagedProcess, ProcessState
    <3> HIDE DEF ready
    <3> QED BY <1>1, <3>1, Setters
  <2>2. /\ a(p).pid = mp[p].pid /\ a(p).stopping = mp[p].stopping
        /\ a(p).stop_timed = mp[p].stop_timed
        /\ a(p).state = IF ready(p) THEN "RUNNING" ELSE mp[p].state
    BY <1>1 DEF ManagedProcess
  <2> HIDE DEF a, ready, settled
  <2>3. b(p) \in ManagedProcess
    BY <2>1, BackoffRange DEF ManagedProcess
  <2> QED BY <2>1, <2>2, <2>3 DEF ManagedProcess
<1> HIDE DEF b
<1>4. \A p \in Procs : mp'[p] = b(p)
  BY <1>2
<1>5. mp' \in [Procs -> ManagedProcess]
  BY <1>2, <1>3
<1>6. SignalsOwnChild'
  BY <1>2, <1>3, <1>4 DEF Records, SignalsOwnChild
<1>7. StoppingIsTimed'
  BY <1>2, <1>3, <1>4 DEF Records, StoppingIsTimed
<1> QED BY <1>2, <1>3, <1>4, <1>5, <1>6, <1>7 DEF Records

\* The health check touches no record but that of odin1_driver, and never its
\* pid or its state.
LEMMA HealthKeepsRecords ==
  ASSUME Records, check_odin_health
  PROVE  Records' /\ \A p \in Procs : /\ mp'[p].pid = mp[p].pid
                                      /\ mp'[p].state = mp[p].state
                                      /\ \/ mp'[p].stopping = mp[p].stopping
                                         \/ p = Odin /\ odinChecked /\ mp'[p].stopping
                                            /\ os' = Kill({mp[p].pid})
<1>1. \A p \in Procs : mp[p] \in ManagedProcess
  BY DEF Records
<1>2. prog' = prog
  BY DEF check_odin_health
<1>3. CASE UNCHANGED <<mp, os, odin>>
  BY <1>2, <1>3 DEF Records, SignalsOwnChild, StoppingIsTimed
<1>4. CASE /\ odin' = [odin EXCEPT !.fails =
                         IF odin.run_age >= OdinResetUptime THEN 0 ELSE @]
           /\ UNCHANGED <<mp, os>>
  <2>1. (IF odin.run_age >= OdinResetUptime THEN 0 ELSE odin.fails) \in Nat
    BY DEF Records, OdinHealth
  <2>2. odin' \in OdinHealth
    BY <1>4, <2>1, OdinFields DEF Records
  <2> QED BY <1>2, <1>4, <2>2 DEF Records, SignalsOwnChild, StoppingIsTimed
<1>5. CASE /\ odinChecked
           /\ mp' = [mp EXCEPT ![Odin] = GivenUp(@)]
           /\ os' = Kill({mp[Odin].pid})
           /\ odin' = [odin EXCEPT !.armed = FALSE]
  <2> DEFINE a == [mp[Odin] EXCEPT !.auto_restart = FALSE]
             b == [a EXCEPT !.stopping = TRUE]
  <2>1. Odin \in Procs /\ mp[Odin] \in ManagedProcess
    BY <1>1, <1>5 DEF odinChecked
  <2>2. /\ a \in ManagedProcess /\ a.pid = mp[Odin].pid /\ a.state = mp[Odin].state
        /\ a.stop_timed = mp[Odin].stop_timed
    <3>1. a \in ManagedProcess
      BY <2>1, Setters
    <3> QED BY <2>1, <3>1 DEF ManagedProcess
  <2>3. mp' = [mp EXCEPT ![Odin] = b]
    <3>1. GivenUp(mp[Odin]) = b
      BY DEF GivenUp
    <3> HIDE DEF b
    <3> QED BY <1>5, <3>1
  <2> HIDE DEF a
  <2>4. /\ b \in ManagedProcess /\ b.pid = mp[Odin].pid /\ b.state = mp[Odin].state
        /\ b.stop_timed = mp[Odin].stop_timed /\ b.stopping
    BY <2>2, Setters, ZenonT(60) DEF ManagedProcess
  <2> HIDE DEF b
  <2>5. /\ \A p \in Procs \ {Odin} : mp'[p] = mp[p]
        /\ mp'[Odin] = b
        /\ mp' \in [Procs -> ManagedProcess]
    BY <2>1, <2>3, <2>4 DEF Records
  <2>6. os' \in [Pids -> KernelState] /\ odin' \in OdinHealth
    BY <1>5, OdinFields DEF Records, Kill, KernelState
  <2>7. SignalsOwnChild'
    BY <1>1, <1>2, <1>5, <2>4, <2>5 DEF Records, SignalsOwnChild, Kill, ManagedProcess
  <2>8. StoppingIsTimed'
    BY <2>4, <2>5 DEF Records, StoppingIsTimed
  <2>9. Records'
    BY <1>2, <2>5, <2>6, <2>7, <2>8 DEF Records
  <2>10. odinChecked /\ os' = Kill({mp[Odin].pid})
    BY <1>5
  <2> QED BY <2>4, <2>5, <2>9, <2>10
<1>6. CASE /\ os' = Kill({mp[Odin].pid})
           /\ odin' = [odin EXCEPT !.armed = FALSE, !.fails = @ + 1]
           /\ UNCHANGED mp
  <2>1. os' \in [Pids -> KernelState] /\ odin' \in OdinHealth
    BY <1>6, OdinFields DEF Records, Kill, KernelState
  <2>2. SignalsOwnChild'
    BY <1>1, <1>2, <1>6 DEF Records, SignalsOwnChild, Kill, ManagedProcess
  <2> QED BY <1>2, <1>6, <2>1, <2>2 DEF Records, StoppingIsTimed
<1> QED BY <1>3, <1>4, <1>5, <1>6 DEF check_odin_health

\* A start by hand, by ~/start and by the end of ~/restart alike.
LEMMA HandKeepsRecords ==
  ASSUME Records, NEW STATE p, p \in Procs, StartByHand(p)
  PROVE  Records'
<1> DEFINE m == [mp EXCEPT ![p] = ManuallyReset(@, p)]
           o == FailsCleared(p)
<1>1. mp[p] \in ManagedProcess /\ mp \in [Procs -> ManagedProcess] /\ odin \in OdinHealth
  BY DEF Records
<1>2. ManuallyReset(mp[p], p) \in ManagedProcess /\ ManuallyReset(mp[p], p).pid = mp[p].pid
  BY <1>1, ManuallyResetFields
<1>3. /\ m \in [Procs -> ManagedProcess]
      /\ \A q \in Procs : m[q].pid = mp[q].pid
      /\ \A q \in Procs \ {p} : m[q] = mp[q]
  BY <1>1, <1>2
<1>4. o \in OdinHealth
  BY <1>1, OdinFields DEF FailsCleared
<1>5. start_process({p}, m, o)
  BY DEF StartByHand
<1> HIDE DEF m, o
<1> QED BY <1>3, <1>4, <1>5, StartKeepsRecords

\* The end of a restart of everything: what is left is killed, all is PENDING.
LEMMA RestartAllFields ==
  ASSUME Records, ShutdownKills, call = "restart_all"
  PROVE  /\ Records'
         /\ \A p \in Procs : /\ mp'[p].state = "PENDING"
                             /\ mp'[p].pid = IF p \in HavePid(Procs \ Halted)
                                             THEN NoPid ELSE mp[p].pid
                             /\ mp'[p].stopping => /\ p \notin HavePid(Procs \ Halted)
                                                   /\ mp[p].stopping
<1> DEFINE T == HavePid(Procs \ Halted)
           k(p) == IF p \in T THEN ForceKilled(mp[p]) ELSE mp[p]
<1>1. /\ mp' = [p \in Procs |-> ManuallyReset(k(p), p)]
      /\ os' = Kill({mp[p].pid : p \in T})
      /\ odin' = [odin EXCEPT !.fails = 0]
      /\ prog' = prog
  BY DEF ShutdownKills
<1>2. ASSUME NEW p \in Procs
      PROVE  /\ k(p) \in ManagedProcess /\ k(p).pid = IF p \in T THEN NoPid ELSE mp[p].pid
             /\ k(p).stopping => p \notin T /\ mp[p].stopping
  BY ForceKilledFields DEF Records
<1> HIDE DEF k, T
<1>3. \A p \in Procs : /\ mp'[p] \in ManagedProcess
                       /\ mp'[p].state = "PENDING"
                       /\ mp'[p].pid = IF p \in T THEN NoPid ELSE mp[p].pid
                       /\ mp'[p].stopping => p \notin T /\ mp[p].stopping
  BY <1>1, <1>2, ManuallyResetFields
<1>4. mp' \in [Procs -> ManagedProcess]
  BY <1>1, <1>3
<1>5. os' \in [Pids -> KernelState] /\ odin' \in OdinHealth
  BY <1>1, OdinFields DEF Records, Kill, KernelState
<1>6. SignalsOwnChild'
  BY <1>1, <1>3 DEF Records, SignalsOwnChild, Kill, ManagedProcess
<1>7. StoppingIsTimed'
  BY <1>3 DEF StoppingIsTimed
<1> QED BY <1>1, <1>3, <1>4, <1>5, <1>6, <1>7 DEF Records, T

\* The processes the two automatic launches are for.
LEMMA DueFields ==
  ASSUME Records, handle_restarts
  PROVE  \E S \in SUBSET Procs, m \in [Procs -> ManagedProcess] :
           /\ S = Due
           /\ \A p \in Procs : /\ m[p].pid = mp[p].pid /\ m[p].stopping = mp[p].stopping
                              /\ m[p].auto_restart = mp[p].auto_restart
           /\ \A p \in Procs \ S : m[p] = mp[p]
           /\ start_process(S, m, odin)
<1> DEFINE S == Due
           m == [p \in Procs |-> IF p \in Due THEN [mp[p] EXCEPT !.backoff = Doubled(@)]
                                             ELSE mp[p]]
<1>1. ASSUME NEW p \in Procs
      PROVE  /\ m[p] \in ManagedProcess /\ m[p].pid = mp[p].pid
             /\ m[p].stopping = mp[p].stopping /\ m[p].auto_restart = mp[p].auto_restart
  <2>1. mp[p] \in ManagedProcess
    BY DEF Records
  <2>2. Doubled(mp[p].backoff) \in InitialBackoff .. MaxBackoff
    BY <2>1, BackoffRange DEF ManagedProcess
  <2>3. [mp[p] EXCEPT !.backoff = Doubled(@)] \in ManagedProcess
    BY <2>1, <2>2 DEF ManagedProcess
  <2>4. /\ [mp[p] EXCEPT !.backoff = Doubled(@)].pid = mp[p].pid
        /\ [mp[p] EXCEPT !.backoff = Doubled(@)].stopping = mp[p].stopping
        /\ [mp[p] EXCEPT !.backoff = Doubled(@)].auto_restart = mp[p].auto_restart
    BY <2>1 DEF ManagedProcess
  <2> QED BY <2>1, <2>3, <2>4
<1>2. m \in [Procs -> ManagedProcess]
  BY <1>1
<1>3. S \in SUBSET Procs /\ \A p \in Procs \ S : m[p] = mp[p]
  BY DEF Due
<1>4. start_process(S, m, odin)
  BY DEF handle_restarts
<1> HIDE DEF m, S
<1>5. S = Due
  BY DEF S
<1> QED BY <1>1, <1>2, <1>3, <1>4, <1>5

\* The other part of the invariant: the scalars of the state.
Scalars == /\ odomQ \in Pids \cup {NoPid}
           /\ advertised \subseteq Procs
           /\ sig \in BOOLEAN /\ shuttingDown \in BOOLEAN /\ left \in Nat
           /\ pc \in ThreadState /\ call \in Procs \cup Callers
           /\ jumps \in Nat /\ crashes \in Nat
           /\ RestartHasTarget

Owned == Records /\ Scalars

LEMMA InitOwned == Init => Owned
<1> SUFFICES ASSUME Init PROVE Owned
  OBVIOUS
<1>1. mp \in [Procs -> ManagedProcess]
  BY BackoffRange DEF Init, ManagedProcess, ProcessState
<1>2. \A p \in Procs : mp[p].pid = NoPid /\ mp[p].state = "PENDING"
  BY DEF Init
<1>3. odin \in OdinHealth
  BY DEF Init, OdinHealth
<1>4. Records
  BY <1>1, <1>2, <1>3 DEF Init, Records, SignalsOwnChild, StoppingIsTimed, KernelState
<1>5. Scalars
  BY DEF Init, Scalars, ThreadState, Callers, RestartHasTarget, RestartPcs
<1> QED BY <1>4, <1>5 DEF Owned

LEMMA StepOwned == Owned /\ [Next]_vars => Owned'
<1> SUFFICES ASSUME Owned, [Next]_vars PROVE Owned'
  OBVIOUS
<1>0. Records /\ Scalars
  BY DEF Owned
<1> USE DEF Scalars, ThreadState, Callers, RestartHasTarget, RestartPcs,
            daemonCtl, environment
<1>1. CASE UNCHANGED vars
  BY <1>0, <1>1 DEF Owned, vars, Records, SignalsOwnChild, StoppingIsTimed
<1>2. ASSUME NEW from \in ThreadState, NEW to \in ThreadState,
             reap_children(from, to), to \in RestartPcs => from \in RestartPcs
      PROVE  Records' /\ Scalars'
  <2>1. Scalars'
    BY <1>0, <1>2 DEF reap_children
  <2> QED BY <1>0, <1>2, <2>1, ReapKeepsRecords
<1>3. ASSUME NEW from \in ThreadState, NEW to \in ThreadState,
             check_stop_timeouts(from, to), to \in RestartPcs => from \in RestartPcs
      PROVE  Records' /\ Scalars'
  <2>1. \E S \in SUBSET Procs : force_kill(S)
    BY <1>3 DEF check_stop_timeouts, Late, Stopping, HavePid
  <2>2. UNCHANGED <<prog, odin>>
    BY <1>3 DEF check_stop_timeouts
  <2>3. Scalars'
    BY <1>0, <1>3 DEF check_stop_timeouts
  <2> QED BY <1>0, <2>1, <2>2, <2>3, KillKeepsRecords
<1>4. CASE Step
  <2>1. CASE reap_children("tick_reap", "tick_timeouts")
    BY <2>1, <1>2 DEF Owned
  <2>2. CASE check_stop_timeouts("tick_timeouts", "tick_started")
    BY <2>2, <1>3 DEF Owned
  <2>3. CASE check_started
    <3>1. Scalars'
      BY <1>0, <2>3 DEF check_started
    <3> QED BY <1>0, <2>3, <3>1, StartedKeepsRecords DEF Owned
  <2>4. CASE check_odin_health
    <3>1. Scalars'
      BY <1>0, <2>4 DEF check_odin_health
    <3> QED BY <1>0, <2>4, <3>1, HealthKeepsRecords DEF Owned
  <2>5. CASE handle_restarts
    <3>1. Scalars'
      BY <1>0, <2>5 DEF handle_restarts
    <3>2. PICK S \in SUBSET Procs, m \in [Procs -> ManagedProcess] :
            /\ \A p \in Procs : m[p].pid = mp[p].pid
            /\ \A p \in Procs \ S : m[p] = mp[p]
            /\ start_process(S, m, odin)
      BY <1>0, <2>5, DueFields
    <3>3. odin \in OdinHealth
      BY <1>0 DEF Records
    <3>4. Records'
      BY <1>0, <3>2, <3>3, StartKeepsRecords
    <3> QED BY <3>1, <3>4 DEF Owned
  <2>6. CASE handle_pending
    <3>1. Scalars'
      BY <1>0, <2>6 DEF handle_pending
    <3> DEFINE S == {p \in Procs : /\ mp[p].state = "PENDING"
                                   /\ dependencies_running(p) /\ topics_ready(p)}
    <3>2. start_process(S, mp, odin) /\ S \subseteq Procs
      BY <2>6 DEF handle_pending
    <3>3. mp \in [Procs -> ManagedProcess] /\ odin \in OdinHealth
      BY <1>0 DEF Records
    <3> HIDE DEF S
    <3>4. Records'
      BY <1>0, <3>2, <3>3, StartKeepsRecords
    <3> QED BY <3>1, <3>4 DEF Owned
  <2>7. CASE reap_children("restart_reap", "restart_timeouts")
    BY <2>7, <1>2 DEF Owned
  <2>8. CASE check_stop_timeouts("restart_timeouts", "restart_loop")
    BY <2>8, <1>3 DEF Owned
  <2>9. CASE RestartWaits
    BY <1>0, <2>9 DEF Owned, RestartWaits, Records, SignalsOwnChild, StoppingIsTimed
  <2>10. CASE RestartStarts
    <3>1. Scalars'
      BY <1>0, <2>10 DEF RestartStarts
    <3>2. call \in Procs /\ StartByHand(call)
      BY <1>0, <2>10 DEF RestartStarts
    <3> QED BY <1>0, <3>1, <3>2, HandKeepsRecords DEF Owned
  <2>11. CASE ShutdownPolls
    BY <2>11, <1>2 DEF Owned, ShutdownPolls
  <2>12. CASE check_stop_timeouts("shutdown_timeouts",
                IF \A p \in Procs : p \in Halted \cup Late THEN "shutdown_kill"
                                                           ELSE "shutdown_sleep")
    <3> DEFINE to == IF \A p \in Procs : p \in Halted \cup Late THEN "shutdown_kill"
                                                               ELSE "shutdown_sleep"
    <3>1. to \in ThreadState /\ to \notin RestartPcs
      OBVIOUS
    <3>2. check_stop_timeouts("shutdown_timeouts", to)
      BY <2>12
    <3> HIDE DEF to
    <3> QED BY <3>1, <3>2, <1>3 DEF Owned
  <2>13. CASE ShutdownDeadline
    BY <1>0, <2>13 DEF Owned, ShutdownDeadline, Records, SignalsOwnChild, StoppingIsTimed
  <2>14. CASE ShutdownKills
    <3>1. Scalars'
      BY <1>0, <2>14 DEF ShutdownKills
    <3>2. CASE call = "restart_all"
      BY <1>0, <2>14, <3>1, <3>2, RestartAllFields DEF Owned
    <3>3. CASE call # "restart_all"
      <4>1. force_kill(Procs \ Halted) /\ UNCHANGED <<prog, odin>>
        BY <2>14, <3>3 DEF ShutdownKills
      <4>2. Records'
        BY <1>0, <4>1, KillKeepsRecords
      <4> QED BY <3>1, <4>2 DEF Owned
    <3> QED BY <3>2, <3>3
  <2>15. CASE shutdown_all("signal")
    <3>1. Scalars'
      BY <1>0, <2>15 DEF shutdown_all
    <3>2. \E S \in SUBSET Procs : request_stop(S)
      BY <2>15 DEF shutdown_all
    <3>3. UNCHANGED <<prog, odin>>
      BY <2>15 DEF shutdown_all
    <3> QED BY <1>0, <3>1, <3>2, <3>3, StopKeepsRecords DEF Owned
  <2> QED BY <1>4, <2>1, <2>2, <2>3, <2>4, <2>5, <2>6, <2>7, <2>8, <2>9, <2>10,
             <2>11, <2>12, <2>13, <2>14, <2>15 DEF Step
<1>5. CASE Tick
  <2>1. Scalars'
    BY <1>0, <1>5 DEF Tick
  <2>2. mp' = Shifted(1) /\ UNCHANGED <<os, prog>> /\ odin' \in OdinHealth
    BY <1>0, <1>5, OdinFields DEF Tick, Records
  <2> QED BY <1>0, <2>1, <2>2, TimeKeepsRecords DEF Owned
<1>6. CASE Service
  <2>1. ASSUME NEW p \in Procs, handle_start(p) PROVE Owned'
    <3>1. Scalars'
      BY <1>0, <2>1 DEF handle_start
    <3>2. StartByHand(p)
      BY <2>1 DEF handle_start
    <3> QED BY <1>0, <3>1, <3>2, HandKeepsRecords DEF Owned
  <2>2. ASSUME NEW p \in Procs, handle_stop(p) PROVE Owned'
    <3>1. Scalars'
      BY <1>0, <2>2 DEF handle_stop
    <3>2. request_stop({p}) /\ UNCHANGED <<prog, odin>>
      BY <2>2 DEF handle_stop
    <3> QED BY <1>0, <3>1, <3>2, StopKeepsRecords DEF Owned
  <2>3. ASSUME NEW p \in Procs, handle_restart(p) PROVE Owned'
    <3>1. Scalars'
      BY <1>0, <2>3 DEF handle_restart
    <3>2. CASE request_stop({p}) /\ UNCHANGED <<prog, odin>>
      BY <1>0, <3>1, <3>2, StopKeepsRecords DEF Owned
    <3>3. CASE UNCHANGED <<mp, os, prog, odin>>
      BY <1>0, <3>1, <3>3 DEF Owned, Records, SignalsOwnChild, StoppingIsTimed
    <3> QED BY <2>3, <3>2, <3>3 DEF handle_restart
  <2>4. CASE handle_shutdown
    BY <1>0, <2>4 DEF Owned, handle_shutdown, Records, SignalsOwnChild, StoppingIsTimed
  <2>5. ASSUME NEW c \in {"stop_all", "restart_all"}, shutdown_all(c) PROVE Owned'
    <3>1. Scalars'
      BY <1>0, <2>5 DEF shutdown_all
    <3>2. \E S \in SUBSET Procs : request_stop(S)
      BY <2>5 DEF shutdown_all
    <3>3. UNCHANGED <<prog, odin>>
      BY <2>5 DEF shutdown_all
    <3> QED BY <1>0, <3>1, <3>2, <3>3, StopKeepsRecords DEF Owned
  <2> QED BY <1>6, <2>1, <2>2, <2>3, <2>4, <2>5 DEF Service
<1>7. CASE Environment
  <2>1. CASE odin_health_cb
    <3>1. Scalars'
      BY <1>0, <2>1 DEF odin_health_cb
    <3>2. odin' \in OdinHealth /\ UNCHANGED <<mp, os, prog>>
      BY <1>0, <2>1, OdinFields DEF odin_health_cb, Records
    <3> QED BY <1>0, <3>1, <3>2 DEF Owned, Records, SignalsOwnChild, StoppingIsTimed
  <2>2. ASSUME NEW x \in Pids, OdinPublishes(x) PROVE Owned'
    <3>1. Scalars'
      BY <1>0, <2>2 DEF OdinPublishes
    <3>2. UNCHANGED <<mp, os, prog, odin>>
      BY <2>2 DEF OdinPublishes
    <3> QED BY <1>0, <3>1, <3>2 DEF Owned, Records, SignalsOwnChild, StoppingIsTimed
  <2>3. ASSUME NEW x \in Pids, Advertises(x) PROVE Owned'
    <3>1. Scalars'
      BY <1>0, <2>3 DEF Advertises, Records
    <3>2. UNCHANGED <<mp, os, prog, odin>>
      BY <2>3 DEF Advertises
    <3> QED BY <1>0, <3>1, <3>2 DEF Owned, Records, SignalsOwnChild, StoppingIsTimed
  <2>4. ASSUME NEW x \in Pids, Exits(x) PROVE Owned'
    <3>1. Scalars'
      BY <1>0, <2>4 DEF Exits
    <3>2. /\ UNCHANGED <<mp, prog, odin>>
          /\ os[x] # "free" /\ os' = [os EXCEPT ![x] = "zombie"]
      BY <2>4 DEF Exits
    <3>3. Records'
      BY <1>0, <3>2 DEF Records, SignalsOwnChild, StoppingIsTimed, KernelState, ManagedProcess
    <3> QED BY <3>1, <3>3 DEF Owned
  <2>5. ASSUME NEW d \in Jumps, Jump(d) PROVE Owned'
    <3>1. d \in Int
      OBVIOUS
    <3>2. Scalars'
      BY <1>0, <2>5, <3>1 DEF Jump
    <3>3. mp' = Shifted(d) /\ UNCHANGED <<os, prog, odin>>
      BY <2>5 DEF Jump
    <3>4. odin' \in OdinHealth
      BY <1>0, <3>3 DEF Records
    <3> QED BY <1>0, <3>1, <3>2, <3>3, <3>4, TimeKeepsRecords DEF Owned
  <2> QED BY <1>7, <2>1, <2>2, <2>3, <2>4, <2>5 DEF Environment
<1>8. CASE Terminated
  BY <1>1, <1>8 DEF Terminated
<1> QED BY <1>1, <1>4, <1>5, <1>6, <1>7, <1>8 DEF Next

\* The types of the state, for any number of processes and pids.
THEOREM TypeCorrect == Spec => []TypeOK
<1>1. Owned => TypeOK
  BY DEF Owned, Records, Scalars, TypeOK, OdinHealth
<1> QED BY <1>1, InitOwned, StepOwned, PTL DEF Spec

\* Whatever exits, crashes, is restarted or killed, in whatever order: every
\* pid the daemon signals is an unreaped child forked for that process.
THEOREM SignalsOwnChildAlways == Spec => []SignalsOwnChild
<1>1. Owned => SignalsOwnChild
  BY DEF Owned, Records
<1> QED BY <1>1, InitOwned, StepOwned, PTL DEF Spec

\* A STOPPING process always carries a running stop timeout on a live pid.
THEOREM StoppingIsTimedAlways == Spec => []StoppingIsTimed
<1>1. Owned => StoppingIsTimed
  BY DEF Owned, Records
<1> QED BY <1>1, InitOwned, StepOwned, PTL DEF Spec

(***************************************************************************)
(* The data-plane health check: a driver that it has given up stays so     *)
(* until an operator asks for it, whatever the daemon is asked meanwhile.  *)
(***************************************************************************)
HIDE DaemonAssumption

\* A driver that was given up does not wait to be launched.
GivenUpNotPending ==
  \A p \in Procs \cap {Odin} :
    AutoRestart[p] /\ ~mp[p].auto_restart => mp[p].state # "PENDING"

\* The body of GiveUpSticks.
ByRequestAlone ==
  \A p \in Procs \cap {Odin} :
    AutoRestart[p] /\ ~mp[p].auto_restart /\ mp'[p].pid \notin {NoPid, mp[p].pid}
      => mp'[p].auto_restart

Sticks == GivenUpNotPending' /\ ByRequestAlone

\* Steps that launch nothing and, but for restoring auto_restart, make nothing
\* PENDING.
Tame(p) == /\ mp'[p].pid \in {NoPid, mp[p].pid}
           /\ mp'[p].state = "PENDING" =>
                \/ mp'[p].auto_restart
                \/ /\ mp[p].state = "PENDING"
                   /\ mp'[p].auto_restart = mp[p].auto_restart

LEMMA TameSticks ==
  ASSUME GivenUpNotPending, \A p \in Procs \cap {Odin} : Tame(p)
  PROVE  Sticks
  BY DEF Sticks, GivenUpNotPending, ByRequestAlone, Tame

\* What start_process leaves in the records, and which children it adds.
LEMMA StartFields ==
  ASSUME Records, NEW STATE T, T \subseteq Procs,
         NEW STATE m, m \in [Procs -> ManagedProcess],
         NEW STATE o, o \in OdinHealth, start_process(T, m, o)
  PROVE  /\ \A p \in T : /\ mp'[p].state \in {"STARTING", "RESTARTING"}
                         /\ mp'[p].auto_restart = m[p].auto_restart
         /\ \A p \in Procs \ T : mp'[p] = m[p]
         /\ \A x \in Executing' : x \in Executing \/ os[x] = "free"
<1> DEFINE Free == {x \in Pids : os[x] = "free"}
<1>1. PICK F \in SUBSET T : \E f \in [T \ F -> Free] :
            /\ mp' = [p \in Procs |-> IF p \in F THEN ForkFailed(m[p])
                                      ELSE IF p \in T \ F THEN Forked(m[p], f[p])
                                      ELSE m[p]]
            /\ os' = [x \in Pids |-> IF \E p \in T \ F : f[p] = x THEN "alive"
                                     ELSE Kill(kill_zombie(T))[x]]
  BY ZenonT(60) DEF start_process
<1>2. PICK f \in [T \ F -> Free] :
            /\ mp' = [p \in Procs |-> IF p \in F THEN ForkFailed(m[p])
                                      ELSE IF p \in T \ F THEN Forked(m[p], f[p])
                                      ELSE m[p]]
            /\ os' = [x \in Pids |-> IF \E p \in T \ F : f[p] = x THEN "alive"
                                     ELSE Kill(kill_zombie(T))[x]]
  BY <1>1
<1>3. ASSUME NEW p \in T
      PROVE  /\ mp'[p].state \in {"STARTING", "RESTARTING"}
             /\ mp'[p].auto_restart = m[p].auto_restart
  <2>1. m[p] \in ManagedProcess
    OBVIOUS
  <2>2. CASE p \in F
    <3>1. mp'[p] = ForkFailed(m[p])
      BY <1>2, <2>2
    <3> QED BY <2>1, <3>1 DEF ForkFailed, ManagedProcess
  <2>3. CASE p \notin F
    <3>1. mp'[p] = Forked(m[p], f[p])
      BY <1>2, <2>3
    <3> QED BY <2>1, <3>1 DEF Forked, ManagedProcess
  <2> QED BY <2>2, <2>3
<1>4. \A p \in Procs \ T : mp'[p] = m[p]
  BY <1>2
<1>5. ASSUME NEW x \in Executing' PROVE x \in Executing \/ os[x] = "free"
  <2>1. CASE \E p \in T \ F : f[p] = x
    BY <2>1
  <2>2. CASE ~\E p \in T \ F : f[p] = x
    BY <1>2, <1>5, <2>2 DEF Kill, Executing
  <2> QED BY <2>1, <2>2
<1> QED BY <1>3, <1>4, <1>5

\* The automatic launches pass over a driver that was given up.
LEMMA AutomaticSticks ==
  ASSUME Records, GivenUpNotPending, handle_restarts \/ handle_pending
  PROVE  Sticks
<1>1. PICK T \in SUBSET Procs, m \in [Procs -> ManagedProcess] :
        /\ \A p \in T : mp[p].auto_restart \/ mp[p].state = "PENDING"
        /\ \A p \in Procs \ T : m[p] = mp[p]
        /\ start_process(T, m, odin)
  <2>1. CASE handle_restarts
    <3>1. PICK T \in SUBSET Procs, m \in [Procs -> ManagedProcess] :
            /\ T = Due
            /\ \A p \in Procs \ T : m[p] = mp[p]
            /\ start_process(T, m, odin)
      BY <2>1, DueFields
    <3>2. \A p \in T : mp[p].auto_restart
      BY <3>1 DEF Due
    <3> QED BY <3>1, <3>2
  <2>2. CASE handle_pending
    <3> DEFINE T == {p \in Procs : /\ mp[p].state = "PENDING"
                                   /\ dependencies_running(p) /\ topics_ready(p)}
    <3>1. start_process(T, mp, odin) /\ T \in SUBSET Procs
      BY <2>2 DEF handle_pending
    <3>2. \A p \in T : mp[p].state = "PENDING"
      OBVIOUS
    <3>3. mp \in [Procs -> ManagedProcess]
      BY DEF Records
    <3> HIDE DEF T
    <3> QED BY <3>1, <3>2, <3>3
  <2> QED BY <2>1, <2>2
<1>2. odin \in OdinHealth
  BY DEF Records
<1>3. /\ \A p \in T : mp'[p].state \in {"STARTING", "RESTARTING"}
      /\ \A p \in Procs \ T : mp'[p] = mp[p]
  BY <1>1, <1>2, StartFields
<1>4. GivenUpNotPending'
  BY <1>3 DEF GivenUpNotPending
<1>5. ByRequestAlone
  BY <1>1, <1>3 DEF GivenUpNotPending, ByRequestAlone
<1> QED BY <1>4, <1>5 DEF Sticks

\* A start by hand restores auto_restart of the driver.
LEMMA HandSticks ==
  ASSUME Records, GivenUpNotPending, NEW STATE p, p \in Procs, StartByHand(p)
  PROVE  Sticks
<1> DEFINE m == [mp EXCEPT ![p] = ManuallyReset(@, p)]
           o == FailsCleared(p)
<1>1. mp[p] \in ManagedProcess /\ mp \in [Procs -> ManagedProcess] /\ odin \in OdinHealth
  BY DEF Records
<1>2. /\ ManuallyReset(mp[p], p) \in ManagedProcess
      /\ p = Odin => ManuallyReset(mp[p], p).auto_restart
  BY <1>1, ManuallyResetFields DEF ManuallyReset, ManagedProcess
<1>3. /\ m \in [Procs -> ManagedProcess]
      /\ p = Odin => m[p].auto_restart
      /\ \A q \in Procs \ {p} : m[q] = mp[q]
  BY <1>1, <1>2
<1>4. o \in OdinHealth
  BY <1>1, OdinFields DEF FailsCleared
<1>5. start_process({p}, m, o)
  BY DEF StartByHand
<1> HIDE DEF m, o
<1>6. /\ \A q \in {p} : /\ mp'[q].state \in {"STARTING", "RESTARTING"}
                        /\ mp'[q].auto_restart = m[q].auto_restart
      /\ \A q \in Procs \ {p} : mp'[q] = m[q]
  <2>1. PICK T \in SUBSET Procs : T = {p}
    OBVIOUS
  <2>2. start_process(T, m, o)
    BY <1>5, <2>1
  <2>3. /\ \A q \in T : /\ mp'[q].state \in {"STARTING", "RESTARTING"}
                        /\ mp'[q].auto_restart = m[q].auto_restart
        /\ \A q \in Procs \ T : mp'[q] = m[q]
    BY <1>3, <1>4, <2>2, StartFields
  <2> QED BY <2>1, <2>3
<1>7. GivenUpNotPending' /\ ByRequestAlone
  BY <1>3, <1>6 DEF GivenUpNotPending, ByRequestAlone
<1> QED BY <1>7 DEF Sticks

\* Steps that end processes, and those that leave the records alone.
LEMMA EndSticks ==
  ASSUME Records, GivenUpNotPending,
         \/ \E T \in SUBSET Procs : request_stop(T) \/ force_kill(T)
         \/ \E from, to \in ThreadState : reap_children(from, to)
         \/ UNCHANGED mp
  PROVE  Sticks
<1>1. \A p \in Procs : mp[p] \in ManagedProcess
  BY DEF Records
<1>2. ASSUME NEW p \in Procs PROVE Tame(p)
  <2>1. ASSUME NEW T \in SUBSET Procs, request_stop(T) PROVE Tame(p)
    <3>1. \/ mp'[p] = mp[p]
          \/ mp'[p].pid = mp[p].pid /\ mp'[p].state = "STOPPING"
      BY <1>1, <2>1, StopRequestedFields DEF request_stop, Each
    <3> QED BY <3>1 DEF Tame
  <2>2. ASSUME NEW T \in SUBSET Procs, force_kill(T) PROVE Tame(p)
    <3>1. \/ mp'[p] = mp[p]
          \/ mp'[p].pid = NoPid /\ mp'[p].state = "STOPPED"
      BY <1>1, <2>2, ForceKilledFields DEF force_kill, Each
    <3> QED BY <3>1 DEF Tame
  <2>3. ASSUME NEW from \in ThreadState, NEW to \in ThreadState, reap_children(from, to)
        PROVE  Tame(p)
    <3>1. \/ mp'[p] = mp[p]
          \/ mp'[p].pid = NoPid /\ mp'[p].state \in {"STOPPED", "RESTARTING"}
      BY <1>1, <2>3, ReapedFields DEF reap_children, Each
    <3> QED BY <3>1 DEF Tame
  <2>4. CASE UNCHANGED mp
    BY <2>4 DEF Tame
  <2> QED BY <2>1, <2>2, <2>3, <2>4
<1> QED BY <1>2, TameSticks

LEMMA TimeSticks ==
  ASSUME Records, GivenUpNotPending, NEW d \in Int, mp' = Shifted(d)
  PROVE  Sticks
<1>1. \A p \in Procs : mp[p] \in ManagedProcess
  BY DEF Records
<1>2. ASSUME NEW p \in Procs PROVE Tame(p)
  <2>1. /\ mp'[p].state = mp[p].state /\ mp'[p].pid = mp[p].pid
        /\ mp'[p].auto_restart = mp[p].auto_restart
    <3>1. mp'[p] = Aged(mp[p], d)
      BY DEF Shifted
    <3> QED BY <1>1, <3>1 DEF Aged, ManagedProcess
  <2> QED BY <2>1 DEF Tame
<1> QED BY <1>2, TameSticks

LEMMA StartedSticks ==
  ASSUME Records, GivenUpNotPending, check_started
  PROVE  Sticks
<1>1. ASSUME NEW p \in Procs PROVE Tame(p)
  <2>1. mp[p] \in ManagedProcess
    BY DEF Records
  <2>2. mp'[p].auto_restart = mp[p].auto_restart
    BY <2>1 DEF check_started, ManagedProcess
  <2>3. /\ mp'[p].pid = mp[p].pid
        /\ mp'[p].state = mp[p].state \/ mp'[p].state = "RUNNING"
    BY StartedKeepsRecords
  <2> QED BY <2>2, <2>3 DEF Tame
<1> QED BY <1>1, TameSticks

\* The check withdraws auto_restart of a driver that is RUNNING.
LEMMA HealthSticks ==
  ASSUME Records, GivenUpNotPending, check_odin_health
  PROVE  Sticks
<1>1. \A p \in Procs : mp[p] \in ManagedProcess
  BY DEF Records
<1>2. ASSUME NEW p \in Procs PROVE Tame(p)
  <2>1. CASE mp' = mp
    BY <2>1 DEF Tame
  <2>2. CASE mp' # mp
    <3>1. mp[Odin].state = "RUNNING" /\ \A q \in Procs \ {Odin} : mp'[q] = mp[q]
      BY <1>1, <2>2 DEF check_odin_health, odinChecked, Records
    <3>2. mp'[p].pid = mp[p].pid /\ mp'[p].state = mp[p].state
      BY HealthKeepsRecords
    <3> QED BY <3>1, <3>2 DEF Tame
  <2> QED BY <2>1, <2>2
<1> QED BY <1>2, TameSticks

\* ~/restart of everything restores auto_restart of the driver too.
LEMMA RestartAllSticks ==
  ASSUME Records, GivenUpNotPending, ShutdownKills, call = "restart_all"
  PROVE  Sticks
<1> DEFINE T == HavePid(Procs \ Halted)
           k(p) == IF p \in T THEN ForceKilled(mp[p]) ELSE mp[p]
<1>1. mp' = [p \in Procs |-> ManuallyReset(k(p), p)]
  BY DEF ShutdownKills
<1>2. ASSUME NEW p \in Procs \cap {Odin} PROVE Tame(p)
  <2>1. k(p) \in ManagedProcess
    BY ForceKilledFields DEF Records
  <2>2. mp'[p] = ManuallyReset(k(p), p)
    BY <1>1
  <2> HIDE DEF k
  <2>3. mp'[p].auto_restart
    BY <2>1, <2>2 DEF ManuallyReset, ManagedProcess
  <2>4. mp'[p].pid \in {NoPid, mp[p].pid}
    BY RestartAllFields
  <2> QED BY <2>3, <2>4 DEF Tame
<1> QED BY <1>2, TameSticks

LEMMA InitNotGivenUp == Init => \A p \in Procs : mp[p].auto_restart = AutoRestart[p]
  BY DEF Init

LEMMA StepSticks ==
  ASSUME Owned, GivenUpNotPending, [Next]_vars
  PROVE  Sticks
<1>0. Records
  BY DEF Owned
<1>1. CASE Step
  <2>1. ASSUME NEW from \in ThreadState, NEW to \in ThreadState, reap_children(from, to)
        PROVE  Sticks
    BY <1>0, <2>1, EndSticks DEF reap_children
  <2>2. ASSUME NEW from, NEW to, check_stop_timeouts(from, to) PROVE Sticks
    <3>1. \E T \in SUBSET Procs : force_kill(T)
      BY <2>2 DEF check_stop_timeouts, Late, Stopping, HavePid
    <3> QED BY <1>0, <3>1, EndSticks
  <2>3. CASE check_started
    BY <1>0, <2>3, StartedSticks
  <2>4. CASE check_odin_health
    BY <1>0, <2>4, HealthSticks
  <2>5. CASE handle_restarts \/ handle_pending
    BY <1>0, <2>5, AutomaticSticks
  <2>6. CASE RestartWaits \/ ShutdownDeadline
    BY <1>0, <2>6, EndSticks DEF RestartWaits, ShutdownDeadline
  <2>7. CASE RestartStarts
    <3>1. call \in Procs /\ StartByHand(call)
      BY <2>7 DEF RestartStarts, Owned, Scalars, RestartHasTarget, RestartPcs
    <3> QED BY <1>0, <3>1, HandSticks
  <2>8. CASE ShutdownPolls
    BY <2>1, <2>8 DEF ShutdownPolls, ThreadState
  <2>9. CASE ShutdownKills
    <3>1. CASE call = "restart_all"
      BY <1>0, <2>9, <3>1, RestartAllSticks
    <3>2. CASE call # "restart_all"
      <4>1. force_kill(Procs \ Halted)
        BY <2>9, <3>2 DEF ShutdownKills
      <4> QED BY <1>0, <4>1, EndSticks
    <3> QED BY <3>1, <3>2
  <2>10. CASE shutdown_all("signal")
    <3>1. \E T \in SUBSET Procs : request_stop(T)
      BY <2>10 DEF shutdown_all
    <3> QED BY <1>0, <3>1, EndSticks
  <2>11. CASE \/ reap_children("tick_reap", "tick_timeouts")
              \/ reap_children("restart_reap", "restart_timeouts")
    BY <2>1, <2>11 DEF ThreadState
  <2> QED BY <1>1, <2>2, <2>3, <2>4, <2>5, <2>6, <2>7, <2>8, <2>9, <2>10, <2>11 DEF Step
<1>2. CASE Tick
  BY <1>0, <1>2, TimeSticks DEF Tick
<1>3. CASE Service
  <2>1. ASSUME NEW p \in Procs, handle_start(p) PROVE Sticks
    BY <1>0, <2>1, HandSticks DEF handle_start
  <2>2. ASSUME NEW p \in Procs, handle_stop(p) \/ handle_restart(p) PROVE Sticks
    <3>1. (\E T \in SUBSET Procs : request_stop(T)) \/ UNCHANGED mp
      BY <2>2 DEF handle_stop, handle_restart
    <3> QED BY <1>0, <3>1, EndSticks
  <2>3. CASE handle_shutdown
    BY <1>0, <2>3, EndSticks DEF handle_shutdown
  <2>4. ASSUME NEW c, shutdown_all(c) PROVE Sticks
    <3>1. \E T \in SUBSET Procs : request_stop(T)
      BY <2>4 DEF shutdown_all
    <3> QED BY <1>0, <3>1, EndSticks
  <2> QED BY <1>3, <2>1, <2>2, <2>3, <2>4 DEF Service
<1>4. CASE Environment
  <2>1. CASE odin_health_cb
    BY <1>0, <2>1, EndSticks DEF odin_health_cb
  <2>2. ASSUME NEW x \in Pids, OdinPublishes(x) \/ Advertises(x) \/ Exits(x) PROVE Sticks
    BY <1>0, <2>2, EndSticks DEF OdinPublishes, Advertises, Exits
  <2>3. ASSUME NEW d \in Jumps, Jump(d) PROVE Sticks
    <3>1. d \in Int /\ mp' = Shifted(d)
      BY <2>3, DaemonAssumption DEF Jump
    <3> QED BY <1>0, <3>1, TimeSticks
  <2> QED BY <1>4, <2>1, <2>2, <2>3 DEF Environment
<1>5. CASE Terminated \/ UNCHANGED vars
  BY <1>0, <1>5, EndSticks DEF Terminated, vars
<1> QED BY <1>1, <1>2, <1>3, <1>4, <1>5 DEF Next

\* A driver that was given up is launched again by an operator alone, whose
\* request restores auto_restart.
THEOREM GiveUpSticksAlways == Spec => GiveUpSticks
<1>1. Init => GivenUpNotPending
  BY InitNotGivenUp DEF GivenUpNotPending
<1>2. Owned /\ GivenUpNotPending /\ [Next]_vars => GivenUpNotPending' /\ [ByRequestAlone]_vars
  BY StepSticks DEF Sticks
<1> QED BY <1>1, <1>2, InitOwned, StepOwned, PTL
        DEF Spec, GiveUpSticks, ByRequestAlone

-----------------------------------------------------------------------------
(* Mutual exclusion of the instances of a program: as long as nobody calls   *)
(* ~/start for a process that is STOPPING, every executing child is the one  *)
(* whose pid its record holds.                                               *)

Down == {"PENDING", "RESTARTING", "STOPPED"}
Up == {"STARTING", "RUNNING", "STOPPING"}

\* A record holds a pid exactly in the states in which it should.
PidMatchesState ==
  \A p \in Procs : /\ mp[p].state \in Down => mp[p].pid = NoPid
                   /\ mp[p].state \in Up => mp[p].pid # NoPid

\* No executing child is forgotten.
EveryInstanceManaged ==
  \A x \in Executing : prog[x] \in Procs /\ mp[prog[x]].pid = x

\* The process a named restart waits for cannot come back up by itself.
RestartTargetHalts ==
  pc \in RestartPcs => mp[call].state \notin {"STARTING", "RUNNING"}

Instances == PidMatchesState /\ EveryInstanceManaged
Exclusive == Instances /\ RestartTargetHalts /\ ExitLeavesNone

LEMMA PidsAreReal == \A x \in Pids : x # NoPid
  BY DaemonAssumption

\* Starting processes that are down adds one managed instance to each at most.
LEMMA StartInstances ==
  ASSUME Records, Instances,
         NEW STATE S, S \subseteq Procs, \A p \in S : mp[p].pid = NoPid,
         NEW STATE m, m \in [Procs -> ManagedProcess],
         \A p \in Procs : m[p].pid = mp[p].pid,
         \A p \in Procs \ S : m[p] = mp[p],
         NEW STATE o, start_process(S, m, o)
  PROVE  Instances'
<1> DEFINE Free == {x \in Pids : os[x] = "free"}
<1>1. PICK F \in SUBSET S : \E f \in [S \ F -> Free] :
            /\ \A p, q \in S \ F : f[p] = f[q] => p = q
            /\ mp' = [p \in Procs |-> IF p \in F THEN ForkFailed(m[p])
                                      ELSE IF p \in S \ F THEN Forked(m[p], f[p])
                                      ELSE m[p]]
            /\ os' = [x \in Pids |-> IF \E p \in S \ F : f[p] = x THEN "alive"
                                     ELSE Kill(kill_zombie(S))[x]]
            /\ prog' = [x \in Pids |-> IF \E p \in S \ F : f[p] = x
                                       THEN CHOOSE p \in S \ F : f[p] = x
                                       ELSE prog[x]]
            /\ odin' = IF Odin \in S \ F
                       THEN [o EXCEPT !.armed = FALSE, !.run_age = 0]
                       ELSE o
  BY DEF start_process
<1> DEFINE U == S \ F
<1>2. PICK f \in [U -> Free] :
            /\ \A p, q \in U : f[p] = f[q] => p = q
            /\ mp' = [p \in Procs |-> IF p \in F THEN ForkFailed(m[p])
                                      ELSE IF p \in U THEN Forked(m[p], f[p])
                                      ELSE m[p]]
            /\ os' = [x \in Pids |-> IF \E p \in U : f[p] = x THEN "alive"
                                     ELSE Kill(kill_zombie(S))[x]]
            /\ prog' = [x \in Pids |-> IF \E p \in U : f[p] = x
                                       THEN CHOOSE p \in U : f[p] = x
                                       ELSE prog[x]]
  BY <1>1
<1>3. \A p \in U : f[p] \in Pids
  OBVIOUS
<1>4. \A p \in U : mp'[p].pid = f[p] /\ mp'[p].state = "STARTING"
  BY <1>2, <1>3, ForkedFields
<1>5. \A p \in F : mp'[p].pid = NoPid /\ mp'[p].state = "RESTARTING"
  BY <1>2, ForkFailedFields
<1>6. \A p \in Procs \ S : mp'[p] = mp[p]
  BY <1>2
<1>7. \A p \in U : prog'[f[p]] = p
  <2> SUFFICES ASSUME NEW p \in U PROVE prog'[f[p]] = p
    OBVIOUS
  <2>1. (CHOOSE q \in U : f[q] = f[p]) = p
    BY <1>2
  <2> QED BY <2>1, <1>2, <1>3
<1>8. PidMatchesState'
  <2> SUFFICES ASSUME NEW p \in Procs
               PROVE  /\ mp'[p].state \in Down => mp'[p].pid = NoPid
                      /\ mp'[p].state \in Up => mp'[p].pid # NoPid
    BY DEF PidMatchesState
  <2>1. CASE p \in U
    BY <2>1, <1>3, <1>4, PidsAreReal DEF Down
  <2>2. CASE p \in F
    BY <2>2, <1>5 DEF Up
  <2>3. CASE p \notin S
    BY <2>3, <1>6 DEF Instances, PidMatchesState
  <2> QED BY <2>1, <2>2, <2>3
<1>9. EveryInstanceManaged'
  <2> SUFFICES ASSUME NEW x \in Executing'
               PROVE  prog'[x] \in Procs /\ mp'[prog'[x]].pid = x
    BY DEF EveryInstanceManaged
  <2>1. x \in Pids /\ os'[x] \in {"alive", "int"}
    BY DEF Executing
  <2>2. CASE \E p \in U : f[p] = x
    BY <2>2, <1>4, <1>7
  <2>3. CASE ~\E p \in U : f[p] = x
    <3>1. x \in Executing /\ prog'[x] = prog[x]
      BY <2>1, <2>3, <1>2 DEF Kill, Executing
    <3>2. prog[x] \in Procs /\ mp[prog[x]].pid = x
      BY <3>1 DEF Instances, EveryInstanceManaged
    <3>3. prog[x] \notin S
      BY <2>1, <3>2, PidsAreReal
    <3> QED BY <3>1, <3>2, <3>3, <1>6
  <2> QED BY <2>2, <2>3
<1> QED BY <1>8, <1>9 DEF Instances

LEMMA StopInstances ==
  ASSUME Records, Instances, NEW STATE S, S \subseteq Procs, request_stop(S),
         prog' = prog
  PROVE  /\ Instances'
         /\ \A p \in S : mp[p].pid # NoPid => mp'[p].state = "STOPPING"
<1>1. \A p \in Procs : mp[p] \in ManagedProcess
  BY DEF Records
<1>2. \A p \in HavePid(S) : mp'[p].pid = mp[p].pid /\ mp'[p].state = "STOPPING"
  BY <1>1, StopRequestedFields DEF request_stop, Each, HavePid
<1>3. \A p \in Procs \ HavePid(S) : mp'[p] = mp[p]
  BY DEF request_stop, Each
<1>4. PidMatchesState'
  BY <1>2, <1>3 DEF Instances, PidMatchesState, HavePid, Down, Up
<1>5. Executing' \subseteq Executing
  BY DEF Executing, request_stop, Interrupt
<1>6. EveryInstanceManaged'
  BY <1>2, <1>3, <1>5 DEF Instances, EveryInstanceManaged
<1> QED BY <1>2, <1>4, <1>6 DEF Instances, HavePid

LEMMA KillInstances ==
  ASSUME Records, Instances, NEW STATE S, S \subseteq Procs, force_kill(S),
         prog' = prog
  PROVE  /\ Instances'
         /\ \A p \in Procs : mp'[p] = mp[p] \/ mp'[p].state = "STOPPED"
         /\ \A x \in Executing' : x \in Executing /\ prog[x] \notin S
<1>1. \A p \in Procs : mp[p] \in ManagedProcess
  BY DEF Records
<1>2. \A p \in HavePid(S) : mp'[p].pid = NoPid /\ mp'[p].state = "STOPPED"
  BY <1>1, ForceKilledFields DEF force_kill, Each, HavePid
<1>3. \A p \in Procs \ HavePid(S) : mp'[p] = mp[p]
  BY DEF force_kill, Each
<1>4. PidMatchesState'
  BY <1>2, <1>3 DEF Instances, PidMatchesState, Up
<1>5. ASSUME NEW x \in Executing'
      PROVE  x \in Executing /\ prog[x] \notin S /\ prog[x] \in Procs
             /\ mp[prog[x]].pid = x
  <2>1. x \in Executing /\ x \notin {mp[p].pid : p \in HavePid(S)}
    BY <1>5 DEF Executing, force_kill, Kill
  <2>2. prog[x] \in Procs /\ mp[prog[x]].pid = x /\ x \in Pids
    BY <2>1 DEF Instances, EveryInstanceManaged, Executing
  <2>3. prog[x] \notin HavePid(S)
    BY <2>1, <2>2
  <2> QED BY <2>1, <2>2, <2>3, PidsAreReal DEF HavePid
<1>6. EveryInstanceManaged'
  BY <1>3, <1>5 DEF EveryInstanceManaged, HavePid
<1> QED BY <1>2, <1>3, <1>4, <1>5, <1>6 DEF Instances

LEMMA ReapInstances ==
  ASSUME Records, Instances, NEW from, NEW to, reap_children(from, to)
  PROVE  /\ Instances'
         /\ \A p \in Procs : mp'[p] = mp[p] \/ mp'[p].state \in {"STOPPED", "RESTARTING"}
<1> DEFINE Z == {x \in Pids : os[x] = "zombie"}
           C == {p \in Procs : mp[p].pid \in Z}
<1>1. \A p \in Procs : mp[p] \in ManagedProcess
  BY DEF Records
<1>2. \A p \in C : mp'[p].pid = NoPid /\ mp'[p].state \in {"STOPPED", "RESTARTING"}
  BY <1>1, ReapedFields DEF reap_children, Each
<1>3. \A p \in Procs \ C : mp'[p] = mp[p]
  BY DEF reap_children, Each
<1>4. PidMatchesState'
  BY <1>2, <1>3 DEF Instances, PidMatchesState, Up
<1>5. ASSUME NEW x \in Executing'
      PROVE  x \in Executing /\ x \notin Z /\ prog'[x] = prog[x]
  BY <1>5 DEF Executing, reap_children
<1>6. EveryInstanceManaged'
  BY <1>3, <1>5 DEF Instances, EveryInstanceManaged
<1> QED BY <1>2, <1>3, <1>4, <1>6 DEF Instances

\* Steps that change neither a pid nor what executes, and no state either
\* except that STARTING may become RUNNING.
LEMMA QuietInstances ==
  ASSUME Records, Instances, prog' = prog, Executing' \subseteq Executing,
         \A p \in Procs : /\ mp'[p].pid = mp[p].pid
                          /\ \/ mp'[p].state = mp[p].state
                             \/ mp[p].state = "STARTING" /\ mp'[p].state = "RUNNING"
  PROVE  Instances'
<1>1. PidMatchesState'
  <2> SUFFICES ASSUME NEW p \in Procs
               PROVE  /\ mp'[p].state \in Down => mp'[p].pid = NoPid
                      /\ mp'[p].state \in Up => mp'[p].pid # NoPid
    BY DEF PidMatchesState
  <2> QED BY DEF Instances, PidMatchesState, Down, Up
<1>2. EveryInstanceManaged'
  BY DEF Instances, EveryInstanceManaged
<1> QED BY <1>1, <1>2 DEF Instances

\* A start by hand of a process that is down.
LEMMA HandInstances ==
  ASSUME Records, Instances, NEW STATE p, p \in Procs, StartByHand(p),
         mp[p].state \notin Up
  PROVE  Instances'
<1> DEFINE m == [mp EXCEPT ![p] = ManuallyReset(@, p)]
           o == FailsCleared(p)
<1>1. mp[p] \in ManagedProcess /\ mp \in [Procs -> ManagedProcess]
  BY DEF Records
<1>2. ManuallyReset(mp[p], p) \in ManagedProcess /\ ManuallyReset(mp[p], p).pid = mp[p].pid
  BY <1>1, ManuallyResetFields
<1>3. /\ m \in [Procs -> ManagedProcess]
      /\ \A q \in Procs : m[q].pid = mp[q].pid
      /\ \A q \in Procs \ {p} : m[q] = mp[q]
  BY <1>1, <1>2
<1>4. mp[p].state \in ProcessState
  BY <1>1 DEF ManagedProcess
<1>5. mp[p].pid = NoPid
  BY <1>4 DEF Instances, PidMatchesState, Up, Down, ProcessState
<1>6. start_process({p}, m, o)
  BY DEF StartByHand
<1> HIDE DEF m, o
<1> QED BY <1>3, <1>5, <1>6, StartInstances

LEMMA InitExclusive == Init => Exclusive
<1> SUFFICES ASSUME Init PROVE Exclusive
  OBVIOUS
<1>1. \A p \in Procs : mp[p].pid = NoPid /\ mp[p].state = "PENDING"
  BY DEF Init
<1>2. Executing = {}
  BY DEF Init, Executing
<1>3. pc = "idle"
  BY DEF Init
<1> QED BY <1>1, <1>2, <1>3 DEF Exclusive, Instances, PidMatchesState,
      EveryInstanceManaged, RestartTargetHalts, ExitLeavesNone, RestartPcs, Up

LEMMA StepExclusive ==
  ASSUME ~StartWhileStopping, Owned, Exclusive, [Next]_vars
  PROVE  Exclusive'
<1>0. Records /\ Scalars /\ Instances
  BY DEF Owned, Exclusive
<1> USE DEF RestartPcs
<1>1. CASE UNCHANGED vars
  BY <1>1 DEF vars, Exclusive, Instances, PidMatchesState, EveryInstanceManaged,
              RestartTargetHalts, ExitLeavesNone, Executing
<1>2. ASSUME NEW from \in ThreadState, NEW to \in ThreadState,
             reap_children(from, to), to \in RestartPcs => from \in RestartPcs,
             to # "exited"
      PROVE  Exclusive'
  <2>1. /\ Instances'
        /\ \A p \in Procs : mp'[p] = mp[p] \/ mp'[p].state \in {"STOPPED", "RESTARTING"}
    BY <1>0, <1>2, ReapInstances
  <2>2. pc = from /\ pc' = to /\ call' = call
    BY <1>2 DEF reap_children, daemonCtl
  <2>3. RestartTargetHalts' /\ ExitLeavesNone'
    BY <1>0, <1>2, <2>1, <2>2
       DEF Exclusive, RestartTargetHalts, ExitLeavesNone, Scalars, RestartHasTarget
  <2> QED BY <2>1, <2>3 DEF Exclusive
<1>3. ASSUME NEW from \in ThreadState, NEW to \in ThreadState,
             check_stop_timeouts(from, to), to \in RestartPcs => from \in RestartPcs,
             to # "exited"
      PROVE  Exclusive'
  <2>1. \E S \in SUBSET Procs : force_kill(S)
    BY <1>3 DEF check_stop_timeouts, Late, Stopping, HavePid
  <2>2. prog' = prog /\ pc = from /\ pc' \in {to, "aborted"} /\ call' = call
    BY <1>3 DEF check_stop_timeouts, daemonCtl
  <2>3. Instances' /\ \A p \in Procs : mp'[p] = mp[p] \/ mp'[p].state = "STOPPED"
    BY <1>0, <2>1, <2>2, KillInstances
  <2>4. RestartTargetHalts' /\ ExitLeavesNone'
    BY <1>0, <1>3, <2>2, <2>3
       DEF Exclusive, RestartTargetHalts, ExitLeavesNone, Scalars, RestartHasTarget
  <2> QED BY <2>3, <2>4 DEF Exclusive
<1>4. ASSUME pc' \notin RestartPcs, pc' # "exited", Instances'
      PROVE  Exclusive'
  BY <1>4 DEF Exclusive, RestartTargetHalts, ExitLeavesNone
<1>5. CASE Step
  <2> USE DEF ThreadState
  <2>1. CASE reap_children("tick_reap", "tick_timeouts")
    BY <2>1, <1>2
  <2>2. CASE check_stop_timeouts("tick_timeouts", "tick_started")
    BY <2>2, <1>3
  <2>3. CASE check_started
    <3>1. /\ Executing' \subseteq Executing /\ prog' = prog
          /\ pc' = "tick_health"
      BY <2>3 DEF check_started, Executing
    <3>2. Instances'
      BY <1>0, <2>3, <3>1, StartedKeepsRecords, QuietInstances
    <3> QED BY <3>1, <3>2, <1>4
  <2>4. CASE check_odin_health
    <3>1. prog' = prog /\ pc' = "tick_restarts" /\ Executing' \subseteq Executing
      BY <2>4 DEF check_odin_health, Executing, Kill
    <3>2. Instances'
      BY <1>0, <2>4, <3>1, HealthKeepsRecords, QuietInstances
    <3> QED BY <3>1, <3>2, <1>4
  <2>5. CASE handle_restarts
    <3>1. PICK S \in SUBSET Procs, m \in [Procs -> ManagedProcess] :
            /\ S = Due
            /\ \A p \in Procs : m[p].pid = mp[p].pid
            /\ \A p \in Procs \ S : m[p] = mp[p]
            /\ start_process(S, m, odin)
      BY <1>0, <2>5, DueFields
    <3>2. \A p \in S : mp[p].pid = NoPid
      BY <1>0, <3>1 DEF Due, Instances, PidMatchesState, Down
    <3>3. Instances'
      BY <1>0, <3>1, <3>2, StartInstances
    <3>4. pc' = "tick_pending"
      BY <2>5 DEF handle_restarts
    <3> QED BY <3>3, <3>4, <1>4
  <2>6. CASE handle_pending
    <3> DEFINE S == {p \in Procs : /\ mp[p].state = "PENDING"
                                   /\ dependencies_running(p) /\ topics_ready(p)}
    <3>1. start_process(S, mp, odin) /\ S \subseteq Procs /\ pc' = "idle"
      BY <2>6 DEF handle_pending
    <3>2. \A p \in S : mp[p].pid = NoPid
      BY <1>0 DEF Instances, PidMatchesState, Down
    <3>3. mp \in [Procs -> ManagedProcess]
      BY <1>0 DEF Records
    <3> HIDE DEF S
    <3>4. Instances'
      BY <1>0, <3>1, <3>2, <3>3, StartInstances
    <3> QED BY <3>1, <3>4, <1>4
  <2>7. CASE reap_children("restart_reap", "restart_timeouts")
    BY <2>7, <1>2
  <2>8. CASE check_stop_timeouts("restart_timeouts", "restart_loop")
    BY <2>8, <1>3
  <2>9. CASE RestartWaits
    <3>1. UNCHANGED <<mp, os, prog, call>> /\ pc' = "restart_sleep" /\ pc = "restart_loop"
      BY <2>9 DEF RestartWaits, daemonCtl
    <3> QED BY <3>1 DEF Exclusive, Instances, PidMatchesState, EveryInstanceManaged,
                        RestartTargetHalts, ExitLeavesNone, Executing
  <2>10. CASE RestartStarts
    <3>1. /\ call \in Procs /\ StartByHand(call) /\ mp[call].state \notin Up
          /\ pc' = "idle"
      BY <1>0, <2>10 DEF RestartStarts, Scalars, RestartHasTarget, Exclusive,
                         RestartTargetHalts, Up
    <3>2. Instances'
      BY <1>0, <3>1, HandInstances
    <3> QED BY <3>1, <3>2, <1>4
  <2>11. CASE ShutdownPolls
    BY <2>11, <1>2 DEF ShutdownPolls
  <2>12. CASE check_stop_timeouts("shutdown_timeouts",
                IF \A p \in Procs : p \in Halted \cup Late THEN "shutdown_kill"
                                                           ELSE "shutdown_sleep")
    <3> DEFINE to == IF \A p \in Procs : p \in Halted \cup Late THEN "shutdown_kill"
                                                               ELSE "shutdown_sleep"
    <3>1. to \in ThreadState /\ to \notin RestartPcs /\ to # "exited"
      OBVIOUS
    <3>2. check_stop_timeouts("shutdown_timeouts", to)
      BY <2>12
    <3> HIDE DEF to
    <3> QED BY <3>1, <3>2, <1>3
  <2>13. CASE ShutdownDeadline
    <3>1. UNCHANGED <<mp, os, prog>> /\ pc' = "shutdown_kill"
      BY <2>13 DEF ShutdownDeadline
    <3>2. Instances'
      BY <1>0, <3>1 DEF Instances, PidMatchesState, EveryInstanceManaged, Executing
    <3> QED BY <3>1, <3>2, <1>4
  <2>14. CASE ShutdownKills
    <3>1. prog' = prog
      BY <2>14 DEF ShutdownKills
    <3>2. CASE call = "restart_all"
      <4>1. \A p \in Procs :
              /\ mp'[p].state = "PENDING"
              /\ mp'[p].pid = IF p \in HavePid(Procs \ Halted) THEN NoPid ELSE mp[p].pid
        BY <1>0, <2>14, <3>2, RestartAllFields
      <4>2. \A p \in Halted : mp[p].pid = NoPid
        BY <1>0 DEF Halted, Instances, PidMatchesState, Down
      <4>3. \A p \in Procs : mp'[p].pid = NoPid
        BY <4>1, <4>2 DEF HavePid
      <4>4. os' = Kill({mp[p].pid : p \in HavePid(Procs \ Halted)}) /\ pc' = "idle"
        BY <2>14, <3>2 DEF ShutdownKills
      <4>5. Executing' = {}
        <5> SUFFICES ASSUME NEW x \in Executing' PROVE FALSE
          OBVIOUS
        <5>1. x \in Executing /\ x \notin {mp[p].pid : p \in HavePid(Procs \ Halted)}
          BY <4>4 DEF Executing, Kill
        <5>2. prog[x] \in Procs /\ mp[prog[x]].pid = x /\ x # NoPid
          BY <1>0, <5>1, PidsAreReal DEF Instances, EveryInstanceManaged, Executing
        <5> QED BY <4>2, <5>1, <5>2 DEF HavePid
      <4>6. Instances'
        BY <4>1, <4>3, <4>5 DEF Instances, PidMatchesState, EveryInstanceManaged, Up
      <4> QED BY <4>4, <4>6, <1>4
    <3>3. CASE call # "restart_all"
      <4>1. force_kill(Procs \ Halted) /\ pc' \in {"idle", "exited"}
        BY <2>14, <3>3 DEF ShutdownKills
      <4>2. /\ Instances'
            /\ \A x \in Executing' : x \in Executing /\ prog[x] \notin Procs \ Halted
        BY <1>0, <3>1, <4>1, KillInstances
      <4>3. Executing' = {}
        <5> SUFFICES ASSUME NEW x \in Executing' PROVE FALSE
          OBVIOUS
        <5>1. prog[x] \in Halted /\ mp[prog[x]].pid = x /\ x # NoPid
          BY <1>0, <4>2, PidsAreReal DEF Instances, EveryInstanceManaged, Executing
        <5> QED BY <1>0, <5>1 DEF Halted, Instances, PidMatchesState, Down
      <4> QED BY <4>1, <4>2, <4>3 DEF Exclusive, RestartTargetHalts, ExitLeavesNone
    <3> QED BY <3>2, <3>3
  <2>15. CASE shutdown_all("signal")
    <3>1. (\E S \in SUBSET Procs : request_stop(S)) /\ prog' = prog /\ pc' = "shutdown_loop"
      BY <2>15 DEF shutdown_all
    <3>2. Instances'
      BY <1>0, <3>1, StopInstances
    <3> QED BY <3>1, <3>2, <1>4
  <2> QED BY <1>5, <2>1, <2>2, <2>3, <2>4, <2>5, <2>6, <2>7, <2>8, <2>9, <2>10,
             <2>11, <2>12, <2>13, <2>14, <2>15 DEF Step
<1>6. ASSUME NEW d \in Int, mp' = Shifted(d), UNCHANGED <<os, prog, call>>,
             pc' # "exited", pc' \in RestartPcs => pc \in RestartPcs
      PROVE  Exclusive'
  <2>1. \A p \in Procs : mp'[p].pid = mp[p].pid /\ mp'[p].state = mp[p].state
    BY <1>0, <1>6, AgedFields DEF Shifted, Records
  <2>2. Executing' \subseteq Executing
    BY <1>6 DEF Executing
  <2>3. Instances'
    BY <1>0, <1>6, <2>1, <2>2, QuietInstances
  <2>4. RestartTargetHalts' /\ ExitLeavesNone'
    BY <1>0, <1>6, <2>1
       DEF Exclusive, RestartTargetHalts, ExitLeavesNone, Scalars, RestartHasTarget
  <2> QED BY <2>3, <2>4 DEF Exclusive
<1>7. CASE Tick
  BY <1>6, <1>7 DEF Tick
<1>8. ASSUME UNCHANGED <<mp, prog, call, pc>>, Executing' \subseteq Executing
      PROVE  Exclusive'
  <2>1. Instances'
    BY <1>0, <1>8, QuietInstances
  <2> QED BY <1>8, <2>1 DEF Exclusive, RestartTargetHalts, ExitLeavesNone
<1>9. CASE Service
  <2>1. ASSUME NEW p \in Procs, handle_start(p) PROVE Exclusive'
    <3>1. StartByHand(p) /\ mp[p].state \notin Up /\ pc' = "idle"
      BY <2>1 DEF handle_start, Up
    <3>2. Instances'
      BY <1>0, <3>1, HandInstances
    <3> QED BY <3>1, <3>2, <1>4
  <2>2. ASSUME NEW p \in Procs, handle_stop(p) PROVE Exclusive'
    <3>1. request_stop({p}) /\ prog' = prog /\ pc' = "idle"
      BY <2>2 DEF handle_stop
    <3>2. Instances'
      BY <1>0, <3>1, StopInstances
    <3> QED BY <3>1, <3>2, <1>4
  <2>3. ASSUME NEW p \in Procs, handle_restart(p) PROVE Exclusive'
    <3>1. pc' = "restart_loop" /\ call' = p /\ prog' = prog
      BY <2>3 DEF handle_restart
    <3>2. CASE mp[p].state \in {"RUNNING", "STARTING"}
      <4>1. request_stop({p}) /\ mp[p].pid # NoPid
        BY <1>0, <2>3, <3>2 DEF handle_restart, Instances, PidMatchesState, Up
      <4>2. Instances' /\ mp'[p].state = "STOPPING"
        BY <1>0, <3>1, <4>1, StopInstances
      <4> QED BY <3>1, <4>2 DEF Exclusive, RestartTargetHalts, ExitLeavesNone
    <3>3. CASE mp[p].state \notin {"RUNNING", "STARTING"}
      <4>1. UNCHANGED <<mp, os, prog>>
        BY <2>3, <3>3 DEF handle_restart
      <4>2. Instances'
        BY <1>0, <4>1 DEF Instances, PidMatchesState, EveryInstanceManaged, Executing
      <4> QED BY <3>1, <3>3, <4>1, <4>2 DEF Exclusive, RestartTargetHalts, ExitLeavesNone
    <3> QED BY <3>2, <3>3
  <2>4. CASE handle_shutdown
    BY <1>8, <2>4 DEF handle_shutdown, Executing
  <2>5. ASSUME NEW c \in {"stop_all", "restart_all"}, shutdown_all(c) PROVE Exclusive'
    <3>1. (\E S \in SUBSET Procs : request_stop(S)) /\ prog' = prog /\ pc' = "shutdown_loop"
      BY <2>5 DEF shutdown_all
    <3>2. Instances'
      BY <1>0, <3>1, StopInstances
    <3> QED BY <3>1, <3>2, <1>4
  <2> QED BY <1>9, <2>1, <2>2, <2>3, <2>4, <2>5 DEF Service
<1>10. CASE Environment
  <2>1. CASE odin_health_cb
    BY <1>8, <2>1 DEF odin_health_cb, daemonCtl, Executing
  <2>2. ASSUME NEW x \in Pids, OdinPublishes(x) PROVE Exclusive'
    BY <1>8, <2>2 DEF OdinPublishes, daemonCtl, Executing
  <2>3. ASSUME NEW x \in Pids, Advertises(x) PROVE Exclusive'
    BY <1>8, <2>3 DEF Advertises, daemonCtl, Executing
  <2>4. ASSUME NEW x \in Pids, Exits(x) PROVE Exclusive'
    <3>1. Executing' \subseteq Executing
      BY <1>0, <2>4 DEF Exits, Executing, Records
    <3> QED BY <1>8, <2>4, <3>1 DEF Exits, daemonCtl
  <2>5. ASSUME NEW d \in Jumps, Jump(d) PROVE Exclusive'
    <3>1. d \in Int
      BY DaemonAssumption
    <3> QED BY <1>6, <2>5, <3>1 DEF Jump
  <2> QED BY <1>10, <2>1, <2>2, <2>3, <2>4, <2>5 DEF Environment
<1>11. CASE Terminated
  BY <1>1, <1>11 DEF Terminated
<1> QED BY <1>1, <1>5, <1>7, <1>9, <1>10, <1>11 DEF Next

\* Two instances of one program never execute at the same time, in any number
\* of processes, whatever crashes, hangs, is restarted or killed, and however
\* the clock is stepped - provided ~/start is not called while STOPPING.
THEOREM OneInstanceAlways ==
  ASSUME ~StartWhileStopping
  PROVE  Spec => []OneInstance
<1>1. Exclusive => OneInstance
  BY DEF Exclusive, Instances, EveryInstanceManaged, OneInstance
<1>2. Owned /\ Exclusive /\ [Next]_vars => Exclusive'
  BY StepExclusive
<1> QED BY <1>1, <1>2, InitOwned, StepOwned, InitExclusive, PTL DEF Spec

\* After an exit on request no child of the daemon executes any more.
THEOREM ExitLeavesNoneAlways ==
  ASSUME ~StartWhileStopping
  PROVE  Spec => []ExitLeavesNone
<1>1. Exclusive => ExitLeavesNone
  BY DEF Exclusive
<1>2. Owned /\ Exclusive /\ [Next]_vars => Exclusive'
  BY StepExclusive
<1> QED BY <1>1, <1>2, InitOwned, StepOwned, InitExclusive, PTL DEF Spec

-----------------------------------------------------------------------------
(* What is left of a driver the health check has given up: its record says   *)
(* STOPPED, or holds a child that executes no more and whose exit is marked  *)
(* as that of a stop.                                                        *)

GivenUpMarked ==
  \A p \in Procs \cap {Odin} : AutoRestart[p] /\ ~mp[p].auto_restart =>
    IF mp[p].pid = NoPid THEN mp[p].state = "STOPPED"
    ELSE mp[p].stopping /\ mp[p].pid \notin Executing

\* What a step makes of a record: it is brought back, it is down, or the child
\* it holds is on its way out.
Ending(p) ==
  \/ mp'[p].auto_restart
  \/ mp'[p].pid = NoPid /\ mp'[p].state = "STOPPED"
  \/ mp'[p].pid # NoPid /\ mp'[p].stopping /\ mp'[p].pid \notin Executing'

\* Or it leaves what counts alone.
AsBefore(p) ==
  /\ mp'[p].auto_restart = mp[p].auto_restart /\ mp'[p].pid = mp[p].pid
  /\ mp[p].stopping => mp'[p].stopping
  /\ mp[p].pid = NoPid /\ mp[p].state = "STOPPED" => mp'[p].state = "STOPPED"
  /\ mp[p].pid \in Executing' => mp[p].pid \in Executing

\* Or the driver was not given up before, and is not now.
NotYet(p) ==
  /\ mp'[p].auto_restart = mp[p].auto_restart
  /\ mp[p].pid # NoPid /\ ~mp[p].stopping

LEMMA EndingMarked ==
  ASSUME GivenUpMarked,
         \A p \in Procs \cap {Odin} : AutoRestart[p] => Ending(p) \/ AsBefore(p) \/ NotYet(p)
  PROVE  GivenUpMarked'
  BY DEF GivenUpMarked, Ending, AsBefore, NotYet

LEMMA StartEnding ==
  ASSUME Records, GivenUpNotPending, GivenUpMarked,
         NEW STATE T, T \subseteq Procs,
         NEW STATE m, m \in [Procs -> ManagedProcess],
         NEW STATE o, o \in OdinHealth, start_process(T, m, o),
         \A p \in Procs \ T : m[p] = mp[p],
         \A p \in T \cap {Odin} : AutoRestart[p] => m[p].auto_restart
  PROVE  GivenUpMarked'
<1>1. /\ \A p \in T : mp'[p].auto_restart = m[p].auto_restart
      /\ \A p \in Procs \ T : mp'[p] = m[p]
      /\ \A x \in Executing' : x \in Executing \/ os[x] = "free"
  BY StartFields
<1>2. ASSUME NEW p \in Procs \cap {Odin}, AutoRestart[p] PROVE Ending(p) \/ AsBefore(p)
  <2>1. CASE p \in T
    BY <1>1, <1>2, <2>1 DEF Ending
  <2>2. CASE p \notin T
    <3>1. mp'[p] = mp[p]
      BY <1>1, <2>2
    <3>2. mp[p].pid \in Executing' => mp[p].pid \in Executing
      BY <1>1, PidsAreReal DEF Records, SignalsOwnChild, Executing
    <3> QED BY <3>1, <3>2 DEF AsBefore
  <2> QED BY <2>1, <2>2
<1> QED BY <1>2, EndingMarked

LEMMA AutomaticEnding ==
  ASSUME Records, GivenUpNotPending, GivenUpMarked, handle_restarts \/ handle_pending
  PROVE  GivenUpMarked'
<1>1. odin \in OdinHealth /\ mp \in [Procs -> ManagedProcess]
  BY DEF Records
<1>2. CASE handle_restarts
  <2>1. PICK T \in SUBSET Procs, m \in [Procs -> ManagedProcess] :
          /\ T = Due
          /\ \A p \in Procs : m[p].auto_restart = mp[p].auto_restart
          /\ \A p \in Procs \ T : m[p] = mp[p]
          /\ start_process(T, m, odin)
    BY <1>2, DueFields
  <2>2. \A p \in T : m[p].auto_restart
    BY <2>1 DEF Due
  <2> QED BY <1>1, <2>1, <2>2, StartEnding
<1>3. CASE handle_pending
  <2> DEFINE T == {p \in Procs : /\ mp[p].state = "PENDING"
                                 /\ dependencies_running(p) /\ topics_ready(p)}
  <2>1. start_process(T, mp, odin) /\ T \in SUBSET Procs
    BY <1>3 DEF handle_pending
  <2>2. \A p \in T \cap {Odin} : AutoRestart[p] => mp[p].auto_restart
    BY DEF GivenUpNotPending
  <2> HIDE DEF T
  <2> QED BY <1>1, <2>1, <2>2, StartEnding
<1> QED BY <1>2, <1>3

LEMMA HandEnding ==
  ASSUME Records, GivenUpNotPending, GivenUpMarked, NEW STATE p, p \in Procs, StartByHand(p)
  PROVE  GivenUpMarked'
<1> DEFINE m == [mp EXCEPT ![p] = ManuallyReset(@, p)]
           o == FailsCleared(p)
           T == {p}
<1>1. mp[p] \in ManagedProcess /\ mp \in [Procs -> ManagedProcess] /\ odin \in OdinHealth
  BY DEF Records
<1>2. /\ ManuallyReset(mp[p], p) \in ManagedProcess
      /\ p = Odin => ManuallyReset(mp[p], p).auto_restart
  BY <1>1, ManuallyResetFields DEF ManuallyReset, ManagedProcess
<1>3. /\ m \in [Procs -> ManagedProcess]
      /\ \A q \in T \cap {Odin} : m[q].auto_restart
      /\ \A q \in Procs \ T : m[q] = mp[q]
  BY <1>1, <1>2
<1>4. o \in OdinHealth
  BY <1>1, OdinFields DEF FailsCleared
<1>5. start_process(T, m, o) /\ T \subseteq Procs
  BY DEF StartByHand
<1> HIDE DEF m, o, T
<1> QED BY <1>3, <1>4, <1>5, StartEnding

\* Steps that ask to stop, kill or collect, and those that leave the records alone.
LEMMA EndEnding ==
  ASSUME Records, GivenUpMarked,
         \/ \E T \in SUBSET Procs : request_stop(T) \/ force_kill(T)
         \/ \E from, to \in ThreadState : reap_children(from, to)
         \/ UNCHANGED mp /\ Executing' \subseteq Executing
  PROVE  GivenUpMarked'
<1>1. \A p \in Procs : mp[p] \in ManagedProcess
  BY DEF Records
<1>2. ASSUME NEW p \in Procs PROVE Ending(p) \/ AsBefore(p) \/ NotYet(p)
  <2>1. ASSUME NEW T \in SUBSET Procs, request_stop(T) PROVE AsBefore(p)
    <3>1. Executing' \subseteq Executing
      BY <2>1 DEF request_stop, Interrupt, Executing
    <3>2. CASE p \in HavePid(T)
      <4>1. mp'[p] = StopRequested(mp[p])
        BY <2>1, <3>2 DEF request_stop, Each
      <4>2. /\ StopRequested(mp[p]).pid = mp[p].pid /\ StopRequested(mp[p]).stopping
            /\ StopRequested(mp[p]).auto_restart = mp[p].auto_restart
        BY <1>1, StopRequestedFields DEF StopRequested, ManagedProcess
      <4>3. mp[p].pid # NoPid
        BY <3>2 DEF HavePid
      <4> QED BY <3>1, <4>1, <4>2, <4>3 DEF AsBefore
    <3>3. CASE p \notin HavePid(T)
      <4>1. mp'[p] = mp[p]
        BY <2>1, <3>3 DEF request_stop, Each
      <4> QED BY <3>1, <4>1 DEF AsBefore
    <3> QED BY <3>2, <3>3
  <2>2. ASSUME NEW T \in SUBSET Procs, force_kill(T) PROVE Ending(p) \/ AsBefore(p)
    <3>1. Executing' \subseteq Executing
      BY <2>2 DEF force_kill, Kill, Executing
    <3>2. \/ mp'[p] = mp[p]
          \/ mp'[p].pid = NoPid /\ mp'[p].state = "STOPPED"
      BY <1>1, <2>2, ForceKilledFields DEF force_kill, Each
    <3> QED BY <3>1, <3>2 DEF Ending, AsBefore
  <2>3. ASSUME NEW from \in ThreadState, NEW to \in ThreadState, reap_children(from, to)
        PROVE  Ending(p) \/ AsBefore(p) \/ NotYet(p)
    <3> DEFINE Z == {x \in Pids : os[x] = "zombie"}
    <3>1. Executing' \subseteq Executing
      BY <2>3 DEF reap_children, Executing
    <3>2. CASE mp[p].pid \notin Z
      <4>1. mp'[p] = mp[p]
        BY <2>3, <3>2 DEF reap_children, Each
      <4> QED BY <3>1, <4>1 DEF AsBefore
    <3>3. CASE mp[p].pid \in Z /\ mp[p].stopping
      <4>1. mp'[p] = Reaped(mp[p])
        BY <2>3, <3>3 DEF reap_children, Each
      <4> QED BY <1>1, <3>3, <4>1, ReapedFields DEF Ending
    <3>4. CASE mp[p].pid \in Z /\ ~mp[p].stopping
      <4>1. mp'[p] = Reaped(mp[p])
        BY <2>3, <3>4 DEF reap_children, Each
      <4>2. Reaped(mp[p]).auto_restart = mp[p].auto_restart
        BY <1>1, <3>4 DEF Reaped, ManagedProcess
      <4>3. mp[p].pid # NoPid
        BY <3>4, PidsAreReal
      <4> QED BY <3>4, <4>1, <4>2, <4>3 DEF NotYet
    <3> QED BY <3>2, <3>3, <3>4
  <2>4. CASE UNCHANGED mp /\ Executing' \subseteq Executing
    BY <2>4 DEF AsBefore
  <2> QED BY <2>1, <2>2, <2>3, <2>4
<1> QED BY <1>2, EndingMarked

LEMMA TimeEnding ==
  ASSUME Records, GivenUpMarked, NEW d \in Int, mp' = Shifted(d), os' = os
  PROVE  GivenUpMarked'
<1>1. ASSUME NEW p \in Procs PROVE AsBefore(p)
  <2>1. mp'[p] = Aged(mp[p], d) /\ mp[p] \in ManagedProcess
    BY DEF Shifted, Records
  <2>2. /\ Aged(mp[p], d).state = mp[p].state /\ Aged(mp[p], d).pid = mp[p].pid
        /\ Aged(mp[p], d).stopping = mp[p].stopping
        /\ Aged(mp[p], d).auto_restart = mp[p].auto_restart
    BY <2>1 DEF Aged, ManagedProcess
  <2>3. Executing' = Executing
    BY DEF Executing
  <2> QED BY <2>1, <2>2, <2>3 DEF AsBefore
<1> QED BY <1>1, EndingMarked

LEMMA StartedEnding ==
  ASSUME Records, GivenUpMarked, check_started
  PROVE  GivenUpMarked'
<1>1. ASSUME NEW p \in Procs PROVE AsBefore(p)
  <2>1. mp[p] \in ManagedProcess
    BY DEF Records
  <2>2. mp'[p].auto_restart = mp[p].auto_restart /\ os' = os
    BY <2>1 DEF check_started, ManagedProcess
  <2>3. /\ mp'[p].pid = mp[p].pid /\ mp'[p].stopping = mp[p].stopping
        /\ mp'[p].state = mp[p].state \/ mp[p].state = "STARTING"
    BY StartedKeepsRecords
  <2> QED BY <2>2, <2>3 DEF AsBefore, Executing
<1> QED BY <1>1, EndingMarked

\* Where a driver is given up: it was RUNNING, and its child is killed with it.
LEMMA HealthEnding ==
  ASSUME Records, GivenUpMarked, check_odin_health
  PROVE  GivenUpMarked'
<1>1. Executing' \subseteq Executing
  BY DEF check_odin_health, Kill, Executing
<1>2. ASSUME NEW p \in Procs PROVE Ending(p) \/ AsBefore(p)
  <2>1. CASE mp' = mp
    BY <1>1, <2>1 DEF AsBefore
  <2>2. CASE mp' # mp
    <3>1. /\ odinChecked /\ os' = Kill({mp[Odin].pid})
          /\ mp' = [mp EXCEPT ![Odin] = GivenUp(@)]
      BY <2>2 DEF check_odin_health
    <3>2. CASE p = Odin
      <4>1. mp[p] \in ManagedProcess /\ mp'[p] = GivenUp(mp[p])
        BY <3>1, <3>2 DEF Records
      <4>2. mp'[p].pid = mp[p].pid /\ mp'[p].stopping
        BY <4>1 DEF GivenUp, ManagedProcess
      <4>3. mp[p].pid # NoPid /\ mp[p].pid \notin Executing'
        BY <3>1, <3>2 DEF odinChecked, Kill, Executing
      <4> QED BY <4>2, <4>3 DEF Ending
    <3>3. CASE p # Odin
      <4>1. mp'[p] = mp[p]
        BY <3>1, <3>3 DEF Records
      <4> QED BY <1>1, <4>1 DEF AsBefore
    <3> QED BY <3>2, <3>3
  <2> QED BY <2>1, <2>2
<1> QED BY <1>2, EndingMarked

LEMMA RestartAllEnding ==
  ASSUME Records, GivenUpMarked, ShutdownKills, call = "restart_all"
  PROVE  GivenUpMarked'
<1> DEFINE k(p) == IF p \in HavePid(Procs \ Halted) THEN ForceKilled(mp[p]) ELSE mp[p]
<1>1. mp' = [p \in Procs |-> ManuallyReset(k(p), p)]
  BY DEF ShutdownKills
<1>2. ASSUME NEW p \in Procs \cap {Odin} PROVE Ending(p)
  <2>1. k(p) \in ManagedProcess
    BY ForceKilledFields DEF Records
  <2>2. mp'[p] = ManuallyReset(k(p), p)
    BY <1>1
  <2> HIDE DEF k
  <2> QED BY <2>1, <2>2 DEF ManuallyReset, ManagedProcess, Ending
<1> QED BY <1>2, EndingMarked

LEMMA StepGivenUp ==
  ASSUME Owned, GivenUpNotPending, GivenUpMarked, [Next]_vars
  PROVE  GivenUpMarked'
<1>0. Records
  BY DEF Owned
<1>1. CASE Step
  <2>1. ASSUME NEW from \in ThreadState, NEW to \in ThreadState, reap_children(from, to)
        PROVE  GivenUpMarked'
    BY <1>0, <2>1, EndEnding
  <2>2. ASSUME NEW from, NEW to, check_stop_timeouts(from, to) PROVE GivenUpMarked'
    <3>1. \E T \in SUBSET Procs : force_kill(T)
      BY <2>2 DEF check_stop_timeouts, Late, Stopping, HavePid
    <3> QED BY <1>0, <3>1, EndEnding
  <2>3. CASE check_started
    BY <1>0, <2>3, StartedEnding
  <2>4. CASE check_odin_health
    BY <1>0, <2>4, HealthEnding
  <2>5. CASE handle_restarts \/ handle_pending
    BY <1>0, <2>5, AutomaticEnding
  <2>6. CASE RestartWaits \/ ShutdownDeadline
    <3>1. UNCHANGED <<mp, os>>
      BY <2>6 DEF RestartWaits, ShutdownDeadline
    <3> QED BY <1>0, <3>1, EndEnding DEF Executing
  <2>7. CASE RestartStarts
    <3>1. call \in Procs /\ StartByHand(call)
      BY <2>7 DEF RestartStarts, Owned, Scalars, RestartHasTarget, RestartPcs
    <3> QED BY <1>0, <3>1, HandEnding
  <2>8. CASE ShutdownPolls
    BY <2>1, <2>8 DEF ShutdownPolls, ThreadState
  <2>9. CASE ShutdownKills
    <3>1. CASE call = "restart_all"
      BY <1>0, <2>9, <3>1, RestartAllEnding
    <3>2. CASE call # "restart_all"
      <4>1. force_kill(Procs \ Halted)
        BY <2>9, <3>2 DEF ShutdownKills
      <4> QED BY <1>0, <4>1, EndEnding
    <3> QED BY <3>1, <3>2
  <2>10. CASE shutdown_all("signal")
    <3>1. \E T \in SUBSET Procs : request_stop(T)
      BY <2>10 DEF shutdown_all
    <3> QED BY <1>0, <3>1, EndEnding
  <2>11. CASE \/ reap_children("tick_reap", "tick_timeouts")
              \/ reap_children("restart_reap", "restart_timeouts")
    BY <2>1, <2>11 DEF ThreadState
  <2> QED BY <1>1, <2>2, <2>3, <2>4, <2>5, <2>6, <2>7, <2>8, <2>9, <2>10, <2>11 DEF Step
<1>2. CASE Tick
  BY <1>0, <1>2, TimeEnding DEF Tick
<1>3. CASE Service
  <2>1. ASSUME NEW p \in Procs, handle_start(p) PROVE GivenUpMarked'
    BY <1>0, <2>1, HandEnding DEF handle_start
  <2>2. ASSUME NEW p \in Procs, handle_stop(p) \/ handle_restart(p) PROVE GivenUpMarked'
    <3>1. (\E T \in SUBSET Procs : request_stop(T)) \/ UNCHANGED <<mp, os>>
      BY <2>2 DEF handle_stop, handle_restart
    <3> QED BY <1>0, <3>1, EndEnding DEF Executing
  <2>3. CASE handle_shutdown
    BY <1>0, <2>3, EndEnding DEF handle_shutdown, Executing
  <2>4. ASSUME NEW c, shutdown_all(c) PROVE GivenUpMarked'
    <3>1. \E T \in SUBSET Procs : request_stop(T)
      BY <2>4 DEF shutdown_all
    <3> QED BY <1>0, <3>1, EndEnding
  <2> QED BY <1>3, <2>1, <2>2, <2>3, <2>4 DEF Service
<1>4. CASE Environment
  <2>1. CASE odin_health_cb
    BY <1>0, <2>1, EndEnding DEF odin_health_cb, Executing
  <2>2. ASSUME NEW x \in Pids, OdinPublishes(x) \/ Advertises(x) \/ Exits(x)
        PROVE  GivenUpMarked'
    <3>1. UNCHANGED mp /\ Executing' \subseteq Executing
      BY <1>0, <2>2 DEF OdinPublishes, Advertises, Exits, Executing, Records
    <3> QED BY <1>0, <3>1, EndEnding
  <2>3. ASSUME NEW d \in Jumps, Jump(d) PROVE GivenUpMarked'
    <3>1. d \in Int /\ mp' = Shifted(d) /\ os' = os
      BY <2>3, DaemonAssumption DEF Jump
    <3> QED BY <1>0, <3>1, TimeEnding
  <2> QED BY <1>4, <2>1, <2>2, <2>3 DEF Environment
<1>5. CASE Terminated \/ UNCHANGED vars
  BY <1>0, <1>5, EndEnding DEF Terminated, vars, Executing
<1> QED BY <1>1, <1>2, <1>3, <1>4, <1>5 DEF Next

\* A driver the health check has given up executes no more, and its exit is
\* taken for a stop, with any number of processes, pids, crashes and steps of
\* the clock - provided ~/start is not called while STOPPING, which may leave
\* an instance behind that no record holds.
THEOREM GivenUpIsDownAlways ==
  ASSUME ~StartWhileStopping
  PROVE  Spec => []GivenUpIsDown
<1>1. Exclusive /\ GivenUpMarked => GivenUpIsDown
  <2>1. Exclusive => \A x \in Executing : mp[prog[x]].pid = x /\ x # NoPid
    BY PidsAreReal DEF Exclusive, Instances, EveryInstanceManaged, Executing
  <2> QED BY <2>1 DEF GivenUpMarked, GivenUpIsDown
<1>2. Owned /\ Exclusive /\ [Next]_vars => Exclusive'
  BY StepExclusive
<1>3. Owned /\ GivenUpNotPending /\ [Next]_vars => GivenUpNotPending'
  BY StepSticks DEF Sticks
<1>4. Owned /\ GivenUpNotPending /\ GivenUpMarked /\ [Next]_vars => GivenUpMarked'
  BY StepGivenUp
<1>5. Init => GivenUpNotPending /\ GivenUpMarked
  BY InitNotGivenUp DEF GivenUpNotPending, GivenUpMarked
<1> QED BY <1>1, <1>2, <1>3, <1>4, <1>5, InitOwned, StepOwned, InitExclusive, PTL DEF Spec

-----------------------------------------------------------------------------
(* The supervisor implements Supervision: every step of it is, seen through  *)
(* the mapping at the end of AcflyDaemon, a step of Supervision.             *)

ShutdownPcs == {"shutdown_loop", "shutdown_timeouts", "shutdown_sleep", "shutdown_kill"}
OverPcs == {"exited", "aborted"}

\* A process that is down is not being stopped; one that is being stopped has
\* got its signal, or has ended.
Marks ==
  \A p \in Procs :
    /\ mp[p].state \in Down => ~mp[p].stopping
    /\ mp[p].stopping /\ mp[p].pid # NoPid => os[mp[p].pid] \in {"int", "dying", "zombie"}

\* shutting_down_ is up while shutdown_all runs, and nothing starts meanwhile.
ShutdownFlag == pc \notin OverPcs => (shuttingDown <=> pc \in ShutdownPcs)
NothingComesUp ==
  pc \in ShutdownPcs => \A p \in Procs : mp[p].state \notin {"STARTING", "RUNNING"}

Marked == Marks /\ ShutdownFlag /\ NothingComesUp

-----------------------------------------------------------------------------
(* What happens to an instance, in terms of the mapping.                   *)

LEMMA SameInstance ==
  ASSUME NEW x \in Pids, os'[x] = os[x], prog'[x] = prog[x]
  PROVE  Sup!Same(x)
BY DEF Sup!Same, Life, Of

LEMMA EndedInstance ==
  ASSUME NEW x \in Pids, os'[x] \in {"free", "zombie"}
  PROVE  Sup!Ends(x)
BY DEF Sup!Ends, Life, Of

LEMMA KilledInstance ==
  ASSUME NEW x \in Pids, Phase # "over", prog'[x] = prog[x], os'[x] = "dying",
         os[x] = "int" \/ (os[x] = "alive" /\ prog[x] = Odin /\ Turn = "timer")
  PROVE  Sup!Killed(x)
BY DEF Sup!Killed, Life, Of

LEMMA AskedInstance ==
  ASSUME NEW x \in Pids, Phase = "up", prog'[x] = prog[x], prog[x] \in Procs,
         os[x] = "alive", os'[x] = "int", ~Wanted(prog[x])'
  PROVE  Sup!Asked(x)
BY DEF Sup!Asked, Life, Of

LEMMA LaunchedInstance ==
  ASSUME NEW x \in Pids, Phase = "up", OneInstance', prog'[x] \in Procs,
         os[x] = "free", os'[x] = "alive",
         ~mp'[prog'[x]].stopping, mp'[prog'[x]].state = "STARTING"
  PROVE  Sup!Launched(x)
<1>1. \A y \in Pids : os'[y] \in {"alive", "int"} /\ prog'[y] = prog'[x] => y = x
  BY DEF OneInstance, Executing
<1>2. \A y \in Pids :
        ([z \in Pids |-> Life(z)])'[y] \in {"runs", "asked"} => os'[y] \in {"alive", "int"}
  BY DEF Life
<1>3. \A y \in Pids :
        os'[y] \in {"alive", "int"} => ([z \in Pids |-> Of(z)])'[y] = prog'[y]
  BY DEF Of
<1>4. ([p \in Procs |-> Wanted(p)])'[prog'[x]]
  BY DEF Wanted
<1>5. [z \in Pids |-> Life(z)][x] = "none" /\ ([z \in Pids |-> Life(z)])'[x] = "runs"
  BY DEF Life
<1> QED BY <1>1, <1>2, <1>3, <1>4, <1>5 DEF Sup!Launched

-----------------------------------------------------------------------------
(* What the steps do to all instances, and to what is wanted.              *)

Lives ==
  \A x \in Pids : \/ Sup!Same(x) \/ Sup!Ends(x) \/ Sup!Launched(x)
                  \/ Sup!Asked(x) \/ Sup!Killed(x)
Unwanted(m) == m.stopping \/ m.state \in {"STOPPING", "STOPPED"}
NoneRevived == \A p \in Procs : Unwanted(mp[p]) => Unwanted(mp'[p])
Request == Phase = "up" /\ Turn = "request"

LEMMA SameLives == ASSUME UNCHANGED <<os, prog>> PROVE Lives
  BY SameInstance DEF Lives

LEMMA StopPromises ==
  ASSUME Records, Marks, NEW STATE T, T \subseteq Procs, request_stop(T),
         prog' = prog, Phase = "up"
  PROVE  Lives /\ Marks' /\ NoneRevived
<1> DEFINE X == {mp[p].pid : p \in HavePid(T)}
<1>1. \A p \in Procs : mp[p] \in ManagedProcess
  BY DEF Records
<1>2. \A p \in HavePid(T) : /\ mp'[p].pid = mp[p].pid /\ mp'[p].state = "STOPPING"
                            /\ mp'[p].stopping
  BY <1>1, StopRequestedFields DEF request_stop, Each, HavePid
<1>3. \A p \in Procs \ HavePid(T) : mp'[p] = mp[p]
  BY DEF request_stop, Each
<1>4. \A x \in Pids : os'[x] = IF x \in X /\ os[x] = "alive" THEN "int" ELSE os[x]
  BY DEF request_stop, Interrupt
<1>5. ASSUME NEW x \in Pids PROVE Sup!Same(x) \/ Sup!Asked(x)
  <2>1. CASE x \in X /\ os[x] = "alive"
    <3>1. PICK p \in HavePid(T) : mp[p].pid = x
      BY <2>1
    <3>2. prog[x] = p /\ p \in Procs
      BY <3>1 DEF Records, SignalsOwnChild, HavePid
    <3>3. ~Wanted(prog[x])'
      BY <1>2, <3>2 DEF Wanted
    <3> QED BY <1>4, <2>1, <3>2, <3>3, AskedInstance
  <2>2. CASE ~(x \in X /\ os[x] = "alive")
    BY <1>4, <2>2, SameInstance
  <2> QED BY <2>1, <2>2
<1>6. Marks'
  <2> SUFFICES ASSUME NEW p \in Procs
               PROVE  /\ mp'[p].state \in Down => ~mp'[p].stopping
                      /\ mp'[p].stopping /\ mp'[p].pid # NoPid
                           => os'[mp'[p].pid] \in {"int", "dying", "zombie"}
    BY DEF Marks
  <2>1. CASE p \in HavePid(T)
    <3>1. mp[p].pid \in X /\ mp[p].pid \in Pids
      BY <1>1, <2>1 DEF HavePid, ManagedProcess
    <3>2. os[mp[p].pid] \in {"alive", "int", "dying", "zombie"}
      BY <2>1, <3>1 DEF Records, SignalsOwnChild, KernelState, HavePid
    <3> QED BY <1>2, <1>4, <2>1, <3>1, <3>2 DEF Down
  <2>2. CASE p \notin HavePid(T)
    <3>1. mp'[p] = mp[p]
      BY <1>3, <2>2
    <3>2. ASSUME mp[p].stopping, mp[p].pid # NoPid
          PROVE  os'[mp[p].pid] \in {"int", "dying", "zombie"}
      BY <1>1, <1>4, <3>2 DEF Marks, ManagedProcess
    <3> QED BY <3>1, <3>2 DEF Marks
  <2> QED BY <2>1, <2>2
<1>7. NoneRevived
  BY <1>2, <1>3 DEF NoneRevived, Unwanted
<1>8. Lives
  BY <1>5 DEF Lives
<1> QED BY <1>6, <1>7, <1>8

\* SIGKILL for processes that were asked to stop.
LEMMA KillLives ==
  ASSUME Records, Marks, Phase # "over", prog' = prog,
         NEW STATE T, T \subseteq Procs, os' = Kill({mp[p].pid : p \in HavePid(T)}),
         \A p \in HavePid(T) : mp[p].stopping
  PROVE  /\ Lives
         /\ \A x \in Pids : os[x] \in {"int", "dying", "zombie"}
                              => os'[x] \in {"int", "dying", "zombie"}
<1> DEFINE X == {mp[p].pid : p \in HavePid(T)}
<1>1. \A x \in Pids : os'[x] = IF x \in X /\ os[x] \in {"alive", "int"} THEN "dying" ELSE os[x]
  BY DEF Kill, Executing
<1>2. \A x \in Pids : x \in X => os[x] \in {"int", "dying", "zombie"}
  BY DEF HavePid, Marks
<1>3. ASSUME NEW x \in Pids PROVE Sup!Same(x) \/ Sup!Killed(x)
  <2>1. CASE x \in X /\ os[x] = "int"
    BY <1>1, <2>1, KilledInstance
  <2>2. CASE ~(x \in X /\ os[x] = "int")
    <3>1. os'[x] = os[x]
      BY <1>1, <1>2, <2>2
    <3> QED BY <3>1, SameInstance
  <2> QED BY <2>1, <2>2
<1> QED BY <1>1, <1>3 DEF Lives

LEMMA KillPromises ==
  ASSUME Records, Marks, NEW STATE T, T \subseteq Procs, force_kill(T),
         prog' = prog, Phase # "over", \A p \in HavePid(T) : mp[p].stopping
  PROVE  Lives /\ Marks' /\ NoneRevived
<1>1. \A p \in Procs : mp[p] \in ManagedProcess
  BY DEF Records
<1>2. \A p \in HavePid(T) : mp'[p].state = "STOPPED" /\ ~mp'[p].stopping /\ mp'[p].pid = NoPid
  BY <1>1, ForceKilledFields DEF force_kill, Each, HavePid
<1>3. \A p \in Procs \ HavePid(T) : mp'[p] = mp[p]
  BY DEF force_kill, Each
<1>4. /\ Lives
      /\ \A x \in Pids : os[x] \in {"int", "dying", "zombie"}
                           => os'[x] \in {"int", "dying", "zombie"}
  BY KillLives DEF force_kill
<1>5. Marks'
  <2> SUFFICES ASSUME NEW p \in Procs
               PROVE  /\ mp'[p].state \in Down => ~mp'[p].stopping
                      /\ mp'[p].stopping /\ mp'[p].pid # NoPid
                           => os'[mp'[p].pid] \in {"int", "dying", "zombie"}
    BY DEF Marks
  <2>1. CASE p \in HavePid(T)
    BY <1>2, <2>1
  <2>2. CASE p \notin HavePid(T)
    <3>1. mp'[p] = mp[p] /\ mp[p].pid \in Pids \cup {NoPid}
      BY <1>1, <1>3, <2>2 DEF ManagedProcess
    <3> QED BY <1>4, <3>1 DEF Marks
  <2> QED BY <2>1, <2>2
<1>6. NoneRevived
  BY <1>2, <1>3 DEF NoneRevived, Unwanted
<1> QED BY <1>4, <1>5, <1>6

LEMMA ReapPromises ==
  ASSUME Records, Instances, Marks, NEW from, NEW to, reap_children(from, to)
  PROVE  Lives /\ Marks' /\ NoneRevived
<1> DEFINE Z == {x \in Pids : os[x] = "zombie"}
           C == {p \in Procs : mp[p].pid \in Z}
<1>1. \A p \in Procs : mp[p] \in ManagedProcess
  BY DEF Records
<1>2. \A p \in C : /\ mp'[p].pid = NoPid /\ ~mp'[p].stopping
                   /\ mp'[p].state = IF mp[p].stopping THEN "STOPPED" ELSE "RESTARTING"
  BY <1>1, ReapedFields DEF reap_children, Each
<1>3. \A p \in Procs \ C : mp'[p] = mp[p]
  BY DEF reap_children, Each
<1>4. Lives
  <2> SUFFICES ASSUME NEW x \in Pids PROVE Sup!Same(x) \/ Sup!Ends(x)
    BY DEF Lives
  <2>1. CASE x \in Z
    <3>1. os'[x] = "free"
      BY <2>1 DEF reap_children
    <3> QED BY <3>1, EndedInstance
  <2>2. CASE x \notin Z
    <3>1. os'[x] = os[x] /\ prog'[x] = prog[x]
      BY <2>2 DEF reap_children
    <3> QED BY <3>1, SameInstance
  <2> QED BY <2>1, <2>2
<1>5. \A x \in Pids \ Z : os'[x] = os[x]
  BY DEF reap_children
<1>6. Marks'
  <2> SUFFICES ASSUME NEW p \in Procs
               PROVE  /\ mp'[p].state \in Down => ~mp'[p].stopping
                      /\ mp'[p].stopping /\ mp'[p].pid # NoPid
                           => os'[mp'[p].pid] \in {"int", "dying", "zombie"}
    BY DEF Marks
  <2>1. CASE p \in C
    BY <1>2, <2>1
  <2>2. CASE p \notin C
    <3>1. mp'[p] = mp[p] /\ mp[p].pid \in (Pids \ Z) \cup {NoPid}
      BY <1>1, <1>3, <2>2 DEF ManagedProcess
    <3> QED BY <1>5, <3>1 DEF Marks
  <2> QED BY <2>1, <2>2
<1>7. NoneRevived
  <2> SUFFICES ASSUME NEW p \in Procs, Unwanted(mp[p]) PROVE Unwanted(mp'[p])
    BY DEF NoneRevived
  <2>1. CASE p \in C
    <3>1. mp[p].pid # NoPid
      BY <2>1, PidsAreReal
    <3>2. mp[p].state # "STOPPED"
      BY <3>1 DEF Instances, PidMatchesState, Down
    <3>3. mp[p].stopping
      BY <3>2 DEF Unwanted, Records, StoppingIsTimed
    <3> QED BY <1>2, <2>1, <3>3 DEF Unwanted
  <2>2. CASE p \notin C
    BY <1>3, <2>2
  <2> QED BY <2>1, <2>2
<1> QED BY <1>4, <1>6, <1>7

\* Starting processes that nobody stops launches one instance of each at most.
LEMMA StartPromises ==
  ASSUME Records, Instances, Marks, Phase = "up",
         NEW STATE T, T \subseteq Procs, \A p \in T : mp[p].pid = NoPid,
         NEW STATE m, m \in [Procs -> ManagedProcess],
         \A p \in Procs : m[p].pid = mp[p].pid /\ m[p].stopping = mp[p].stopping,
         \A p \in T : ~mp[p].stopping,
         \A p \in Procs \ T : m[p] = mp[p],
         NEW STATE o, start_process(T, m, o)
  PROVE  Lives /\ Marks' /\ \A p \in Procs \ T : mp'[p] = mp[p]
<1> DEFINE Free == {x \in Pids : os[x] = "free"}
<1>1. PICK F \in SUBSET T : \E f \in [T \ F -> Free] :
            /\ \A p, q \in T \ F : f[p] = f[q] => p = q
            /\ mp' = [p \in Procs |-> IF p \in F THEN ForkFailed(m[p])
                                      ELSE IF p \in T \ F THEN Forked(m[p], f[p])
                                      ELSE m[p]]
            /\ os' = [x \in Pids |-> IF \E p \in T \ F : f[p] = x THEN "alive"
                                     ELSE Kill(kill_zombie(T))[x]]
            /\ prog' = [x \in Pids |-> IF \E p \in T \ F : f[p] = x
                                       THEN CHOOSE p \in T \ F : f[p] = x
                                       ELSE prog[x]]
            /\ odin' = IF Odin \in T \ F
                       THEN [o EXCEPT !.armed = FALSE, !.run_age = 0]
                       ELSE o
  BY DEF start_process
<1> DEFINE U == T \ F
<1>2. PICK f \in [U -> Free] :
            /\ \A p, q \in U : f[p] = f[q] => p = q
            /\ mp' = [p \in Procs |-> IF p \in F THEN ForkFailed(m[p])
                                      ELSE IF p \in U THEN Forked(m[p], f[p])
                                      ELSE m[p]]
            /\ os' = [x \in Pids |-> IF \E p \in U : f[p] = x THEN "alive"
                                     ELSE Kill(kill_zombie(T))[x]]
            /\ prog' = [x \in Pids |-> IF \E p \in U : f[p] = x
                                       THEN CHOOSE p \in U : f[p] = x
                                       ELSE prog[x]]
  BY <1>1
<1>3. \A p \in U : f[p] \in Pids /\ os[f[p]] = "free"
  OBVIOUS
<1>4. ASSUME NEW p \in U
      PROVE  mp'[p].state = "STARTING" /\ ~mp'[p].stopping
  <2>1. mp'[p] = Forked(m[p], f[p]) /\ m[p] \in ManagedProcess /\ f[p] \in Pids
    BY <1>2, <1>3
  <2>2. ~m[p].stopping
    OBVIOUS
  <2> QED BY <2>1, <2>2, ForkedFields
<1>5. \A p \in F : mp'[p].pid = NoPid /\ ~mp'[p].stopping
  BY <1>2, ForkFailedFields
<1>6. \A p \in Procs \ T : mp'[p] = mp[p]
  BY <1>2
<1>7. \A p \in U : prog'[f[p]] = p
  <2> SUFFICES ASSUME NEW p \in U PROVE prog'[f[p]] = p
    OBVIOUS
  <2>1. (CHOOSE q \in U : f[q] = f[p]) = p
    BY <1>2
  <2> QED BY <2>1, <1>2, <1>3
<1>8. kill_zombie(T) = {}
  BY DEF kill_zombie, Instances, EveryInstanceManaged, Managed
<1>9. \A x \in Pids : ~(\E p \in U : f[p] = x) => os'[x] = os[x] /\ prog'[x] = prog[x]
  BY <1>2, <1>8 DEF Kill
<1>10. OneInstance'
  <2>1. Instances'
    BY StartInstances
  <2> QED BY <2>1 DEF Instances, EveryInstanceManaged, OneInstance
<1>11. ASSUME NEW x \in Pids PROVE Sup!Same(x) \/ Sup!Launched(x)
  <2>1. CASE \E p \in U : f[p] = x
    <3>1. PICK p \in U : f[p] = x
      BY <2>1
    <3>2. /\ prog'[x] = p /\ p \in Procs /\ os[x] = "free" /\ os'[x] = "alive"
          /\ ~mp'[prog'[x]].stopping /\ mp'[prog'[x]].state = "STARTING"
      BY <1>2, <1>3, <1>4, <1>7, <3>1
    <3> QED BY <1>10, <3>2, LaunchedInstance
  <2>2. CASE ~\E p \in U : f[p] = x
    BY <1>9, <2>2, SameInstance
  <2> QED BY <2>1, <2>2
<1>12. Lives
  BY <1>11 DEF Lives
<1>13. Marks'
  <2> SUFFICES ASSUME NEW p \in Procs
               PROVE  /\ mp'[p].state \in Down => ~mp'[p].stopping
                      /\ mp'[p].stopping /\ mp'[p].pid # NoPid
                           => os'[mp'[p].pid] \in {"int", "dying", "zombie"}
    BY DEF Marks
  <2>1. CASE p \in T
    BY <1>4, <1>5, <2>1
  <2>2. CASE p \notin T
    <3>1. mp'[p] = mp[p] /\ mp[p].pid \in Pids \cup {NoPid}
      BY <1>6, <2>2 DEF Records, ManagedProcess
    <3>2. ASSUME mp[p].stopping, mp[p].pid # NoPid
          PROVE  os'[mp[p].pid] \in {"int", "dying", "zombie"}
      <4>1. os[mp[p].pid] \in {"int", "dying", "zombie"} /\ mp[p].pid \in Pids
        BY <3>1, <3>2 DEF Marks
      <4> QED BY <1>3, <1>9, <4>1
    <3> QED BY <3>1, <3>2 DEF Marks
  <2> QED BY <2>1, <2>2
<1> QED BY <1>6, <1>12, <1>13

\* A start by hand of a process that is down.
LEMMA HandPromises ==
  ASSUME Records, Instances, Marks, Phase = "up",
         NEW STATE p, p \in Procs, StartByHand(p), mp[p].state \notin Up
  PROVE  Lives /\ Marks'
<1> DEFINE m == [mp EXCEPT ![p] = ManuallyReset(@, p)]
           o == FailsCleared(p)
<1>1. mp[p] \in ManagedProcess /\ mp \in [Procs -> ManagedProcess]
  BY DEF Records
<1>2. /\ ManuallyReset(mp[p], p) \in ManagedProcess
      /\ ManuallyReset(mp[p], p).pid = mp[p].pid
      /\ ManuallyReset(mp[p], p).stopping = mp[p].stopping
  BY <1>1, ManuallyResetFields
<1>3. /\ m \in [Procs -> ManagedProcess]
      /\ \A q \in Procs : m[q].pid = mp[q].pid /\ m[q].stopping = mp[q].stopping
      /\ \A q \in Procs \ {p} : m[q] = mp[q]
  BY <1>1, <1>2
<1>4. mp[p].state \in Down
  BY <1>1 DEF ManagedProcess, Up, Down, ProcessState
<1>5. mp[p].pid = NoPid /\ ~mp[p].stopping
  BY <1>4 DEF Instances, PidMatchesState, Marks
<1>6. start_process({p}, m, o)
  BY DEF StartByHand
<1> HIDE DEF m, o
<1> QED BY <1>3, <1>5, <1>6, StartPromises

\* The states a daemon that shuts down can hold.
LEMMA GoingDown ==
  ASSUME Owned, Exclusive, Marked, pc \in ShutdownPcs
  PROVE  /\ \A p \in Procs : mp[p].pid # NoPid
              => mp[p].state = "STOPPING" /\ mp[p].stopping /\ mp[p].stop_timed
         /\ Untimed = {}
<1>1. ASSUME NEW p \in Procs, mp[p].pid # NoPid
      PROVE  mp[p].state = "STOPPING" /\ mp[p].stopping /\ mp[p].stop_timed
  <2>1. mp[p].state \in ProcessState
    BY DEF Owned, Records, ManagedProcess
  <2>2. mp[p].state = "STOPPING"
    BY <1>1, <2>1 DEF Marked, NothingComesUp, Exclusive, Instances, PidMatchesState,
                      Down, ProcessState
  <2> QED BY <2>2 DEF Owned, Records, StoppingIsTimed
<1> QED BY <1>1 DEF Untimed, Stopping, HavePid
-----------------------------------------------------------------------------
(* Every step is a step of Supervision, and keeps Marked.                  *)

\* shutting_down_ and who raised it decide where the daemon is in its life.
Flow == <<shuttingDown, call>>
LEMMA SamePhase ==
  ASSUME UNCHANGED Flow, pc \notin OverPcs, pc' \notin OverPcs
  PROVE  Phase' = Phase
  BY DEF Phase, Flow, OverPcs

LEMMA PhaseUp ==
  ASSUME ShutdownFlag, pc \notin OverPcs, pc \notin ShutdownPcs
  PROVE  Phase = "up" /\ ~shuttingDown
  BY DEF Phase, ShutdownFlag, OverPcs

LEMMA Kept ==
  ASSUME Lives, NoneRevived \/ Request,
         Phase' = Phase \/ Sup!Closes \/ Sup!Finishes \/ Sup!Aborts
  PROVE  Sup!Next
<1>1. ASSUME NEW p \in Procs PROVE Sup!Wants(p)
  <2>1. NoneRevived => ~(Wanted(p)' /\ ~Wanted(p))
    BY DEF NoneRevived, Unwanted, Wanted
  <2> QED BY <2>1 DEF Sup!Wants, Request
<1> QED BY <1>1 DEF Sup!Next, Lives

\* A step that neither enters nor leaves shutdown_all keeps what Marked says of it.
LEMMA KeptMarked ==
  ASSUME Marked, Marks', pc \notin OverPcs, UNCHANGED shuttingDown,
         pc' \in OverPcs \/ (pc' \in ShutdownPcs <=> pc \in ShutdownPcs),
         pc \in ShutdownPcs => \A p \in Procs : mp'[p].state \notin {"STARTING", "RUNNING"}
  PROVE  Marked'
  BY DEF Marked, ShutdownFlag, NothingComesUp, OverPcs, ShutdownPcs

LEMMA InitMarked == Init => Marked /\ Sup!Init
<1> SUFFICES ASSUME Init PROVE Marked /\ Sup!Init
  OBVIOUS
<1>1. \A p \in Procs : mp[p].pid = NoPid /\ mp[p].state = "PENDING" /\ ~mp[p].stopping
  BY DEF Init
<1>2. pc = "idle" /\ ~shuttingDown
  BY DEF Init
<1>3. Marked
  BY <1>1, <1>2 DEF Marked, Marks, ShutdownFlag, NothingComesUp, ShutdownPcs, OverPcs
<1>4. \A x \in Pids : Life(x) = "none" /\ Of(x) = NoPid
  BY DEF Init, Life, Of
<1>5. \A p \in Procs : Wanted(p) = TRUE
  BY <1>1 DEF Wanted
<1>6. Phase = "up" /\ Turn = "request"
  BY <1>2 DEF Phase, Turn, TimerSteps
<1> QED BY <1>3, <1>4, <1>5, <1>6 DEF Sup!Init

\* Time passes: for the timer, for one of the two loops, or by a step of the clock.
LEMMA TimePromises ==
  ASSUME Records, Marked, NEW d \in Int, mp' = Shifted(d),
         UNCHANGED <<os, prog, shuttingDown, call>>,
         pc \notin OverPcs, pc' \notin OverPcs,
         pc' \in ShutdownPcs <=> pc \in ShutdownPcs
  PROVE  Marked' /\ Sup!Next
<1>1. \A p \in Procs : /\ mp'[p].state = mp[p].state /\ mp'[p].pid = mp[p].pid
                       /\ mp'[p].stopping = mp[p].stopping
  BY AgedFields DEF Shifted, Records
<1>2. Marks' /\ NoneRevived
  BY <1>1 DEF Marked, Marks, NoneRevived, Unwanted
<1>3. Marked'
  BY <1>1, <1>2, KeptMarked DEF Marked, NothingComesUp
<1>4. Phase' = Phase
  BY SamePhase DEF Flow
<1> QED BY <1>2, <1>3, <1>4, SameLives, Kept

LEMMA ReapStep ==
  ASSUME Owned, Exclusive, Marked, NEW from, NEW to, reap_children(from, to),
         from \notin OverPcs, to \notin OverPcs, to \in ShutdownPcs <=> from \in ShutdownPcs
  PROVE  Marked' /\ Sup!Next
<1>1. Records /\ Instances /\ Marks
  BY DEF Owned, Exclusive, Marked
<1>2. Lives /\ Marks' /\ NoneRevived
  BY <1>1, ReapPromises
<1>3. \A p \in Procs : mp'[p] = mp[p] \/ mp'[p].state \in {"STOPPED", "RESTARTING"}
  BY <1>1, ReapInstances
<1>4. pc = from /\ pc' = to /\ UNCHANGED Flow
  BY DEF reap_children, daemonCtl, Flow
<1>5. pc \in ShutdownPcs => \A p \in Procs : mp'[p].state \notin {"STARTING", "RUNNING"}
  BY <1>3 DEF Marked, NothingComesUp
<1>6. Marked'
  BY <1>2, <1>4, <1>5, KeptMarked DEF Flow
<1>7. Phase' = Phase
  BY <1>4, SamePhase
<1> QED BY <1>2, <1>6, <1>7, Kept

LEMMA TimeoutStep ==
  ASSUME Owned, Exclusive, Marked, NEW from, NEW to, check_stop_timeouts(from, to),
         from \notin OverPcs, to \notin OverPcs, to \in ShutdownPcs <=> from \in ShutdownPcs
  PROVE  Marked' /\ Sup!Next
<1>1. Records /\ Instances /\ Marks
  BY DEF Owned, Exclusive, Marked
<1>2. prog' = prog /\ pc = from /\ pc' \in {to, "aborted"} /\ UNCHANGED Flow
  BY DEF check_stop_timeouts, daemonCtl, Flow
<1>3. PICK T \in SUBSET Procs : force_kill(T) /\ \A p \in HavePid(T) : mp[p].stopping
  BY DEF check_stop_timeouts, Late, Stopping, HavePid
<1>4. Phase # "over"
  BY <1>2 DEF Phase, OverPcs
<1>5. Lives /\ Marks' /\ NoneRevived
  BY <1>1, <1>2, <1>3, <1>4, KillPromises
<1>6. \A p \in Procs : mp'[p] = mp[p] \/ mp'[p].state = "STOPPED"
  BY <1>1, <1>2, <1>3, KillInstances
<1>7. pc \in ShutdownPcs => \A p \in Procs : mp'[p].state \notin {"STARTING", "RUNNING"}
  BY <1>6 DEF Marked, NothingComesUp
<1>8. Marked'
  BY <1>2, <1>5, <1>7, KeptMarked DEF Flow, OverPcs
<1>9. CASE pc' \notin OverPcs
  <2>1. Phase' = Phase
    BY <1>2, <1>9, SamePhase
  <2> QED BY <1>5, <1>8, <2>1, Kept
<1>10. CASE pc' \in OverPcs
  <2>1. pc' = "aborted" /\ Untimed # {}
    BY <1>2, <1>10 DEF check_stop_timeouts
  <2>2. pc \notin ShutdownPcs
    BY <2>1, GoingDown
  <2>3. Phase = "up" /\ Phase' = "over"
    BY <1>2, <2>1, <2>2, PhaseUp DEF Marked, Phase
  <2>4. Sup!Aborts
    BY <2>3 DEF Sup!Aborts
  <2> QED BY <1>5, <1>8, <2>4, Kept
<1> QED BY <1>9, <1>10

LEMMA StartedStep ==
  ASSUME Owned, Marked, check_started
  PROVE  Marked' /\ Sup!Next
<1>1. Records /\ Marks
  BY DEF Owned, Marked
<1>2. \A p \in Procs : /\ mp'[p].pid = mp[p].pid
                       /\ mp'[p].stopping = mp[p].stopping
                       /\ \/ mp'[p].state = mp[p].state
                          \/ mp[p].state = "STARTING" /\ mp'[p].state = "RUNNING"
  BY <1>1, StartedKeepsRecords
<1>3. UNCHANGED <<os, prog, shuttingDown, call>> /\ pc = "tick_started" /\ pc' = "tick_health"
  BY DEF check_started, daemonCtl
<1>4. Marks' /\ NoneRevived
  BY <1>1, <1>2, <1>3 DEF Marks, NoneRevived, Unwanted, Down
<1>5. Marked'
  BY <1>3, <1>4, KeptMarked DEF OverPcs, ShutdownPcs
<1>6. Phase' = Phase
  BY <1>3, SamePhase DEF Flow, OverPcs
<1> QED BY <1>3, <1>4, <1>5, <1>6, SameLives, Kept

LEMMA HealthStep ==
  ASSUME Owned, Exclusive, Marked, check_odin_health
  PROVE  Marked' /\ Sup!Next
<1>1. Records /\ Instances /\ Marks
  BY DEF Owned, Exclusive, Marked
<1>2. /\ UNCHANGED <<prog, shuttingDown, call>>
      /\ pc = "tick_health" /\ pc' = "tick_restarts"
  BY DEF check_odin_health, daemonCtl
<1>3. Turn = "timer" /\ Phase # "over" /\ Phase' = Phase
  BY <1>2, SamePhase DEF Turn, TimerSteps, Phase, Flow, OverPcs
<1>4. os' = os \/ (odinChecked /\ os' = Kill({mp[Odin].pid}))
  BY DEF check_odin_health
<1>5. \A p \in Procs : /\ mp'[p].pid = mp[p].pid /\ mp'[p].state = mp[p].state
                       /\ \/ mp'[p].stopping = mp[p].stopping
                          \/ /\ p = Odin /\ odinChecked /\ mp'[p].stopping
                             /\ os' = Kill({mp[p].pid})
  BY <1>1, HealthKeepsRecords
<1>6. ASSUME NEW x \in Pids PROVE Sup!Same(x) \/ Sup!Killed(x)
  <2>1. CASE os'[x] = os[x]
    BY <1>2, <2>1, SameInstance
  <2>2. CASE os'[x] # os[x]
    <3>1. /\ odinChecked /\ x = mp[Odin].pid /\ os'[x] = "dying"
          /\ os[x] \in {"alive", "int"}
      BY <1>4, <2>2 DEF Kill, Executing
    <3>2. prog[x] = Odin
      BY <1>1, <3>1 DEF odinChecked, Records, SignalsOwnChild
    <3> QED BY <1>2, <1>3, <3>1, <3>2, KilledInstance
  <2> QED BY <2>1, <2>2
<1>7. Lives
  BY <1>6 DEF Lives
<1>8. \A x \in Pids : os[x] \in {"int", "dying", "zombie"} => os'[x] \in {"int", "dying", "zombie"}
  BY <1>4 DEF Kill
<1>9. Marks'
  <2> SUFFICES ASSUME NEW p \in Procs
               PROVE  /\ mp'[p].state \in Down => ~mp'[p].stopping
                      /\ mp'[p].stopping /\ mp'[p].pid # NoPid
                           => os'[mp'[p].pid] \in {"int", "dying", "zombie"}
    BY DEF Marks
  <2>1. mp[p].pid \in Pids \cup {NoPid}
    BY <1>1 DEF Records, ManagedProcess
  <2>2. CASE mp'[p].stopping = mp[p].stopping
    BY <1>1, <1>5, <1>8, <2>1, <2>2 DEF Marks
  <2>3. CASE p = Odin /\ odinChecked /\ mp'[p].stopping /\ os' = Kill({mp[p].pid})
    <3>1. mp[p].pid \in Pids /\ mp'[p].state = "RUNNING"
      BY <1>5, <2>1, <2>3 DEF odinChecked
    <3>2. os[mp[p].pid] \in {"alive", "int", "dying", "zombie"}
      BY <1>1, <3>1, PidsAreReal DEF Records, SignalsOwnChild, KernelState
    <3>3. os'[mp[p].pid] \in {"int", "dying", "zombie"}
      BY <2>3, <3>1, <3>2 DEF Kill, Executing
    <3> QED BY <1>5, <3>1, <3>3 DEF Down
  <2> QED BY <1>5, <2>2, <2>3
<1>10. NoneRevived
  BY <1>5 DEF NoneRevived, Unwanted
<1>11. Marked'
  BY <1>2, <1>9, KeptMarked DEF OverPcs, ShutdownPcs
<1> QED BY <1>3, <1>7, <1>10, <1>11, Kept

\* The two automatic launches are of processes that were wanted before.
LEMMA AutomaticStep ==
  ASSUME Owned, Exclusive, Marked, handle_restarts \/ handle_pending
  PROVE  Marked' /\ Sup!Next
<1>1. Records /\ Instances /\ Marks /\ ShutdownFlag
  BY DEF Owned, Exclusive, Marked
<1>2. /\ UNCHANGED Flow /\ pc \in {"tick_restarts", "tick_pending"}
      /\ pc' \in {"tick_pending", "idle"}
  BY DEF handle_restarts, handle_pending, daemonCtl, Flow
<1>3. Phase = "up" /\ Phase' = Phase
  BY <1>1, <1>2, PhaseUp, SamePhase DEF OverPcs, ShutdownPcs
<1>4. PICK T \in SUBSET Procs, m \in [Procs -> ManagedProcess] :
        /\ \A p \in T : mp[p].state \in {"PENDING", "RESTARTING"}
        /\ \A p \in Procs : m[p].pid = mp[p].pid /\ m[p].stopping = mp[p].stopping
        /\ \A p \in Procs \ T : m[p] = mp[p]
        /\ start_process(T, m, odin)
  <2>1. CASE handle_restarts
    <3>1. PICK T \in SUBSET Procs, m \in [Procs -> ManagedProcess] :
            /\ T = Due
            /\ \A p \in Procs : m[p].pid = mp[p].pid /\ m[p].stopping = mp[p].stopping
            /\ \A p \in Procs \ T : m[p] = mp[p]
            /\ start_process(T, m, odin)
      BY <1>1, <2>1, DueFields
    <3>2. \A p \in T : mp[p].state = "RESTARTING"
      BY <3>1 DEF Due
    <3> QED BY <3>1, <3>2
  <2>2. CASE handle_pending
    <3> DEFINE T == {p \in Procs : /\ mp[p].state = "PENDING"
                                   /\ dependencies_running(p) /\ topics_ready(p)}
    <3>1. start_process(T, mp, odin) /\ T \in SUBSET Procs
      BY <2>2 DEF handle_pending
    <3>2. \A p \in T : mp[p].state = "PENDING"
      OBVIOUS
    <3>3. mp \in [Procs -> ManagedProcess]
      BY <1>1 DEF Records
    <3> HIDE DEF T
    <3> QED BY <3>1, <3>2, <3>3
  <2> QED BY <2>1, <2>2
<1>5. \A p \in T : mp[p].pid = NoPid /\ ~mp[p].stopping
  BY <1>1, <1>4 DEF Instances, PidMatchesState, Marks, Down
<1>6. Lives /\ Marks' /\ \A p \in Procs \ T : mp'[p] = mp[p]
  BY <1>1, <1>3, <1>4, <1>5, StartPromises
<1>7. NoneRevived
  BY <1>4, <1>5, <1>6 DEF NoneRevived, Unwanted
<1>8. Marked'
  BY <1>2, <1>6, KeptMarked DEF Flow, OverPcs, ShutdownPcs
<1> QED BY <1>3, <1>6, <1>7, <1>8, Kept

\* ~/start and the end of ~/restart.
LEMMA ByHandStep ==
  ASSUME Owned, Exclusive, Marked, NEW STATE p, p \in Procs, StartByHand(p),
         mp[p].state \notin Up, pc \in {"idle", "restart_loop"}, pc' = "idle",
         UNCHANGED shuttingDown
  PROVE  Marked' /\ Sup!Next
<1>1. Records /\ Instances /\ Marks /\ ShutdownFlag
  BY DEF Owned, Exclusive, Marked
<1>2. Phase = "up" /\ ~shuttingDown
  BY <1>1, PhaseUp DEF OverPcs, ShutdownPcs
<1>3. Request
  BY <1>2 DEF Request, Turn, TimerSteps
<1>4. Lives /\ Marks'
  BY <1>1, <1>2, HandPromises
<1>5. Marked'
  BY <1>4, KeptMarked DEF OverPcs, ShutdownPcs
<1>6. Phase' = Phase
  BY <1>2 DEF Phase
<1> QED BY <1>3, <1>4, <1>5, <1>6, Kept

LEMMA ShutdownStep ==
  ASSUME Owned, Exclusive, Marked, NEW c \in {"stop_all", "restart_all", "signal"},
         shutdown_all(c)
  PROVE  Marked' /\ Sup!Next
<1> DEFINE T == {p \in Procs : mp[p].state \in {"STARTING", "RUNNING", "RESTARTING"}}
<1>1. Records /\ Instances /\ Marks /\ ShutdownFlag
  BY DEF Owned, Exclusive, Marked
<1>2. /\ prog' = prog /\ pc = "idle" /\ pc' = "shutdown_loop" /\ shuttingDown' = TRUE
      /\ call' = c /\ request_stop(T)
  BY DEF shutdown_all
<1>3. Phase = "up"
  BY <1>1, <1>2, PhaseUp DEF OverPcs, ShutdownPcs
<1>4. Lives /\ Marks' /\ NoneRevived
  BY <1>1, <1>2, <1>3, StopPromises
<1>5. \A p \in Procs : mp'[p].state \notin {"STARTING", "RUNNING"}
  <2> SUFFICES ASSUME NEW p \in Procs PROVE mp'[p].state \notin {"STARTING", "RUNNING"}
    OBVIOUS
  <2>1. CASE mp[p].pid # NoPid /\ p \in T
    BY <1>1, <1>2, <2>1, StopInstances
  <2>2. CASE ~(mp[p].pid # NoPid /\ p \in T)
    <3>1. mp'[p] = mp[p]
      BY <1>2, <2>2 DEF request_stop, Each, HavePid
    <3> QED BY <1>1, <2>2, <3>1 DEF Instances, PidMatchesState, Up
  <2> QED BY <2>1, <2>2
<1>6. Marked'
  BY <1>2, <1>4, <1>5 DEF Marked, ShutdownFlag, NothingComesUp, ShutdownPcs
<1>7. Phase' = Phase \/ Sup!Closes
  BY <1>2, <1>3 DEF Phase, Sup!Closes
<1> QED BY <1>4, <1>6, <1>7, Kept

\* The end of shutdown_all; what it kills was asked to stop before.
LEMMA ShutdownEnds ==
  ASSUME Owned, Exclusive, Marked, ShutdownKills, ExitLeavesNone'
  PROVE  Marked' /\ Sup!Next
<1> DEFINE T == Procs \ Halted
<1>1. Records /\ Instances /\ Marks /\ ShutdownFlag
  BY DEF Owned, Exclusive, Marked
<1>2. pc = "shutdown_kill" /\ prog' = prog /\ shuttingDown
  BY <1>1 DEF ShutdownKills, ShutdownFlag, OverPcs, ShutdownPcs
<1>3. Phase # "over"
  BY <1>2 DEF Phase
<1>4. \A p \in Procs : mp[p].pid # NoPid => mp[p].state = "STOPPING" /\ mp[p].stopping
  BY <1>2, GoingDown DEF ShutdownPcs
<1>5. \A p \in HavePid(T) : mp[p].stopping
  BY <1>4 DEF HavePid
<1>6. CASE call = "restart_all"
  <2>1. /\ shuttingDown' = FALSE /\ pc' = "idle" /\ call' = "none"
        /\ os' = Kill({mp[p].pid : p \in HavePid(T)})
    BY <1>6 DEF ShutdownKills
  <2>2. Lives
    <3>1. T \subseteq Procs
      OBVIOUS
    <3> HIDE DEF T
    <3> QED BY <1>1, <1>2, <1>3, <1>5, <2>1, <3>1, KillLives
  <2>3. \A p \in Procs : /\ mp'[p].state = "PENDING"
                         /\ mp'[p].stopping => p \notin HavePid(T) /\ mp[p].stopping
    BY <1>1, <1>6, RestartAllFields
  <2>4. \A p \in Procs : ~mp'[p].stopping
    <3> SUFFICES ASSUME NEW p \in Procs, mp'[p].stopping PROVE FALSE
      OBVIOUS
    <3>1. p \notin HavePid(T) /\ mp[p].stopping
      BY <2>3
    <3>2. mp[p].pid = NoPid
      BY <1>4, <3>1 DEF HavePid, Halted
    <3>3. mp[p].state \in Down
      BY <1>1, <3>2 DEF Records, ManagedProcess, Instances, PidMatchesState, Up, Down,
                        ProcessState
    <3> QED BY <1>1, <3>1, <3>3 DEF Marks
  <2>5. Marked'
    BY <2>1, <2>3, <2>4 DEF Marked, Marks, ShutdownFlag, NothingComesUp, ShutdownPcs
  <2>6. Phase' = Phase /\ Request
    BY <1>2, <1>6, <2>1 DEF Request, Phase, Turn, TimerSteps
  <2> QED BY <2>2, <2>5, <2>6, Kept
<1>7. CASE call # "restart_all"
  <2>1. /\ force_kill(T)
        /\ \/ call = "stop_all" /\ pc' = "idle" /\ shuttingDown' = FALSE
           \/ call = "signal" /\ pc' = "exited" /\ UNCHANGED shuttingDown
    BY <1>7 DEF ShutdownKills
  <2>2. Lives /\ Marks' /\ NoneRevived
    BY <1>1, <1>2, <1>3, <1>5, <2>1, KillPromises
  <2>3. Marked'
    BY <2>1, <2>2 DEF Marked, ShutdownFlag, NothingComesUp, ShutdownPcs, OverPcs
  <2>4. CASE call = "stop_all"
    <3>1. Phase' = Phase
      BY <1>2, <2>1, <2>4 DEF Phase
    <3> QED BY <2>2, <2>3, <3>1, Kept
  <2>5. CASE call = "signal"
    <3>1. Phase = "closing" /\ Phase' = "over" /\ pc' = "exited"
      BY <1>2, <2>1, <2>5 DEF Phase
    <3>2. \A x \in Pids : ([y \in Pids |-> Life(y)])'[x] \in {"none", "killed"}
      BY <3>1 DEF ExitLeavesNone, Executing, Life
    <3>3. Sup!Finishes
      BY <3>1, <3>2 DEF Sup!Finishes
    <3> QED BY <2>2, <2>3, <3>3, Kept
  <2> QED BY <2>1, <2>4, <2>5
<1> QED BY <1>6, <1>7

\* ~/stop and the start of ~/restart, which may find nothing to stop.
LEMMA AskStep ==
  ASSUME Owned, Exclusive, Marked, NEW p \in Procs, handle_stop(p) \/ handle_restart(p)
  PROVE  Marked' /\ Sup!Next
<1>1. Records /\ Instances /\ Marks /\ ShutdownFlag
  BY DEF Owned, Exclusive, Marked
<1>2. /\ UNCHANGED <<prog, shuttingDown>> /\ pc = "idle" /\ pc' \in {"idle", "restart_loop"}
      /\ request_stop({p}) \/ UNCHANGED <<mp, os>>
  BY DEF handle_stop, handle_restart, daemonCtl
<1>3. Phase = "up" /\ ~shuttingDown
  BY <1>1, <1>2, PhaseUp DEF OverPcs, ShutdownPcs
<1>4. Lives /\ Marks' /\ NoneRevived
  <2>1. CASE request_stop({p})
    BY <1>1, <1>2, <1>3, <2>1, StopPromises
  <2>2. CASE UNCHANGED <<mp, os>>
    BY <1>1, <1>2, <2>2, SameLives DEF Marks, NoneRevived
  <2> QED BY <1>2, <2>1, <2>2
<1>5. Marked'
  BY <1>2, <1>4, KeptMarked DEF OverPcs, ShutdownPcs
<1>6. Phase' = Phase
  BY <1>2, <1>3 DEF Phase
<1> QED BY <1>4, <1>5, <1>6, Kept

LEMMA ExitStep ==
  ASSUME Owned, Marked, NEW x \in Pids, Exits(x)
  PROVE  Marked' /\ Sup!Next
<1>1. /\ UNCHANGED <<mp, prog, shuttingDown, call, pc>> /\ os[x] # "free"
      /\ os' = [os EXCEPT ![x] = "zombie"] /\ os \in [Pids -> KernelState]
  BY DEF Exits, daemonCtl, Owned, Records
<1>2. Lives
  BY <1>1, SameInstance, EndedInstance DEF Lives
<1>3. Marks'
  <2>1. \A p \in Procs : mp[p].pid \in Pids \cup {NoPid}
    BY DEF Owned, Records, ManagedProcess
  <2> QED BY <1>1, <2>1 DEF Marked, Marks
<1>4. Marked' /\ NoneRevived /\ Phase' = Phase
  BY <1>1, <1>3 DEF Marked, ShutdownFlag, NothingComesUp, NoneRevived, Phase
<1> QED BY <1>2, <1>4, Kept

\* Steps in which neither a record nor an instance changes.
LEMMA IdleStep ==
  ASSUME Marked, UNCHANGED <<mp, os, prog, shuttingDown, call>>,
         pc' = pc \/ (pc' \notin OverPcs /\ pc \notin OverPcs),
         pc' \in ShutdownPcs <=> pc \in ShutdownPcs
  PROVE  Marked' /\ Sup!Next
<1>1. Marked' /\ NoneRevived
  BY DEF Marked, Marks, ShutdownFlag, NothingComesUp, NoneRevived
<1>2. Phase' = Phase
  BY SamePhase DEF Phase, Flow
<1> QED BY <1>1, <1>2, SameLives, Kept

LEMMA StepPromises ==
  ASSUME ~StartWhileStopping, Owned, Exclusive, Marked, [Next]_vars
  PROVE  Marked' /\ Sup!Next
<1> USE DEF OverPcs, ShutdownPcs
<1>1. ASSUME UNCHANGED vars PROVE Marked' /\ Sup!Next
  BY <1>1, IdleStep DEF vars
<1>2. CASE Step
  <2>1. CASE reap_children("tick_reap", "tick_timeouts")
    BY <2>1, ReapStep
  <2>2. CASE check_stop_timeouts("tick_timeouts", "tick_started")
    BY <2>2, TimeoutStep
  <2>3. CASE check_started
    BY <2>3, StartedStep
  <2>4. CASE check_odin_health
    BY <2>4, HealthStep
  <2>5. CASE handle_restarts \/ handle_pending
    BY <2>5, AutomaticStep
  <2>6. CASE reap_children("restart_reap", "restart_timeouts")
    BY <2>6, ReapStep
  <2>7. CASE check_stop_timeouts("restart_timeouts", "restart_loop")
    BY <2>7, TimeoutStep
  <2>8. CASE RestartWaits
    BY <2>8, IdleStep DEF RestartWaits, daemonCtl
  <2>9. CASE RestartStarts
    <3>1. /\ call \in Procs /\ StartByHand(call) /\ mp[call].state \notin Up
          /\ pc = "restart_loop" /\ pc' = "idle" /\ UNCHANGED shuttingDown
      BY <2>9 DEF RestartStarts, Owned, Scalars, RestartHasTarget, RestartPcs,
                  Exclusive, RestartTargetHalts, Up
    <3> QED BY <3>1, ByHandStep
  <2>10. CASE ShutdownPolls
    BY <2>10, ReapStep DEF ShutdownPolls
  <2>11. CASE check_stop_timeouts("shutdown_timeouts",
                IF \A p \in Procs : p \in Halted \cup Late THEN "shutdown_kill"
                                                           ELSE "shutdown_sleep")
    <3> DEFINE to == IF \A p \in Procs : p \in Halted \cup Late THEN "shutdown_kill"
                                                               ELSE "shutdown_sleep"
    <3>1. to \in {"shutdown_kill", "shutdown_sleep"}
      OBVIOUS
    <3>2. check_stop_timeouts("shutdown_timeouts", to)
      BY <2>11
    <3> HIDE DEF to
    <3> QED BY <3>1, <3>2, TimeoutStep
  <2>12. CASE ShutdownDeadline
    BY <2>12, IdleStep DEF ShutdownDeadline, daemonCtl
  <2>13. CASE ShutdownKills
    <3>1. ExitLeavesNone'
      BY StepExclusive DEF Exclusive
    <3> QED BY <2>13, <3>1, ShutdownEnds
  <2>14. CASE shutdown_all("signal")
    BY <2>14, ShutdownStep
  <2> QED BY <1>2, <2>1, <2>2, <2>3, <2>4, <2>5, <2>6, <2>7, <2>8, <2>9, <2>10,
             <2>11, <2>12, <2>13, <2>14 DEF Step
<1>3. ASSUME NEW d \in Int, mp' = Shifted(d), UNCHANGED <<os, prog, shuttingDown, call>>,
             pc \notin OverPcs, pc' \notin OverPcs, pc' \in ShutdownPcs <=> pc \in ShutdownPcs
      PROVE  Marked' /\ Sup!Next
  BY <1>3, TimePromises DEF Owned
<1>4. CASE Tick
  BY <1>3, <1>4 DEF Tick
<1>5. CASE Service
  <2>1. ASSUME NEW p \in Procs, handle_start(p) PROVE Marked' /\ Sup!Next
    <3>1. /\ StartByHand(p) /\ mp[p].state \notin Up /\ pc = "idle" /\ pc' = "idle"
          /\ UNCHANGED shuttingDown
      BY <2>1 DEF handle_start, Up, daemonCtl
    <3> QED BY <3>1, ByHandStep
  <2>2. ASSUME NEW p \in Procs, handle_stop(p) \/ handle_restart(p) PROVE Marked' /\ Sup!Next
    BY <2>2, AskStep
  <2>3. CASE handle_shutdown
    BY <2>3, IdleStep DEF handle_shutdown
  <2>4. ASSUME NEW c \in {"stop_all", "restart_all"}, shutdown_all(c) PROVE Marked' /\ Sup!Next
    BY <2>4, ShutdownStep
  <2> QED BY <1>5, <2>1, <2>2, <2>3, <2>4 DEF Service
<1>6. CASE Environment
  <2>1. CASE odin_health_cb
    BY <2>1, IdleStep DEF odin_health_cb, daemonCtl
  <2>2. ASSUME NEW x \in Pids, OdinPublishes(x) \/ Advertises(x) PROVE Marked' /\ Sup!Next
    BY <2>2, IdleStep DEF OdinPublishes, Advertises, daemonCtl
  <2>3. ASSUME NEW x \in Pids, Exits(x) PROVE Marked' /\ Sup!Next
    BY <2>3, ExitStep
  <2>4. ASSUME NEW d \in Jumps, Jump(d) PROVE Marked' /\ Sup!Next
    <3>1. d \in Int
      BY DaemonAssumption
    <3> QED BY <1>3, <2>4, <3>1 DEF Jump
  <2> QED BY <1>6, <2>1, <2>2, <2>3, <2>4 DEF Environment
<1>7. CASE Terminated
  BY <1>1, <1>7 DEF Terminated
<1> QED BY <1>1, <1>2, <1>4, <1>5, <1>6, <1>7 DEF Next

\* The supervisor implements Supervision, in any number of processes and
\* whatever crashes, hangs, is started, stopped, restarted or killed: provided
\* ~/start is not called while STOPPING, one instance of a program is launched
\* at a time, SIGKILL follows SIGINT or a stall, a program that was stopped or
\* given up comes back by request alone, and a daemon told to shut down ends
\* when every instance is ended or killed.
THEOREM PromisesKeptAlways ==
  ASSUME ~StartWhileStopping
  PROVE  Spec => PromisesKept
<1>1. Owned /\ Exclusive /\ [Next]_vars => Exclusive'
  BY StepExclusive
<1>2. Owned /\ Exclusive /\ Marked /\ [Next]_vars => Marked' /\ [Sup!Next]_(Sup!promises)
  BY StepPromises
<1> QED BY <1>1, <1>2, InitOwned, StepOwned, InitExclusive, InitMarked,
           PTL DEF Spec, PromisesKept, Sup!Spec
=============================================================================
