---------------------------- MODULE BagLogdProofs ----------------------------
(***************************************************************************)
(* Proofs about the flight recorder, for every configuration, limit and    *)
(* size of the disk and however often the clock is stepped; that slices go *)
(* in the order of their creation, for a clock that never goes back.       *)
(*                                                                         *)
(* First the life of the recorder (Lifecycle), then what is on disk, which *)
(* rests on it: the surroundings keep their types (World), directories     *)
(* have different names and the one being written is there (Storage),      *)
(* slices of the flight in progress are there only while the node takes it *)
(* for that flight (Flown), and names follow the creation (Ordered).       *)
(***************************************************************************)
EXTENDS BagLogd, TLAPS, FiniteSetTheorems, WellFoundedInduction

Recorder == <<up, armed, recording, current, rotation, retry>>

\* What the three properties rest on.  The flag and the slice go together, a
\* node that is down has no timers, and timers and flags have their types.
Lifecycle ==
  /\ cfg \in Config
  /\ {up, armed, recording} \subseteq BOOLEAN
  /\ rotation \in Timer /\ retry \in Timer
  /\ recording <=> current # NoBag
  /\ ~up => ~armed /\ ~recording /\ rotation = "off" /\ retry = "off"
  /\ NeverIdle /\ SlicesEnd /\ QuietWhenDisarmed

\* Opening a slice always leaves one, whatever the clock and the disk are.
LEMMA OpenedNames == \A bs, mt : FreshName(bs, mt) # NoBag
  BY DEF FreshName, NoBag

LEMMA OpenedRecords ==
  ASSUME NEW bs, Opened(bs)
  PROVE  recording' = TRUE /\ current' # NoBag
  BY OpenedNames DEF Opened

LEMMA NotOpenedStops ==
  ASSUME NEW bs, NotOpened(bs)
  PROVE  recording' = FALSE /\ current' = NoBag
  BY DEF NotOpened

LEMMA InitLifecycle == Init => Lifecycle
  BY BagLogdAssumption
     DEF Init, Lifecycle, Config, Timer, NeverIdle, SlicesEnd, QuietWhenDisarmed

\* Steps that leave the recorder alone.
LEMMA StutterLifecycle == Lifecycle /\ UNCHANGED <<cfg, Recorder>> => Lifecycle'
  BY DEF Lifecycle, Recorder, NeverIdle, SlicesEnd, QuietWhenDisarmed

LEMMA NextLifecycle == Lifecycle /\ [Next]_vars => Lifecycle'
<1> SUFFICES ASSUME Lifecycle, [Next]_vars PROVE Lifecycle'
  OBVIOUS
<1> USE DEF Lifecycle, Config, Timer, NeverIdle, SlicesEnd, QuietWhenDisarmed
<1>1. CASE Start
  BY <1>1, OpenedRecords, NotOpenedStops DEF Start, start_rotation_timer, schedule_retry
<1>2. CASE SameState
  BY <1>2, StutterLifecycle DEF SameState, Taken, Recorder
<1>3. CASE Arm
  BY <1>3, OpenedRecords DEF Arm, Taken, start_rotation_timer
<1>4. CASE ArmFails
  BY <1>4, NotOpenedStops DEF ArmFails, Taken, schedule_retry
<1>5. CASE Disarm
  BY <1>5 DEF Disarm, Taken
<1>6. CASE rotate_bag
  <2>1. CASE ~recording \/ current = NoBag
    BY <1>6, <2>1 DEF rotate_bag
  <2>2. CASE recording /\ current # NoBag
    <3>1. ~(cfg.arm /\ ~armed)
      BY <2>2
    <3>2. CASE Opened(bags) /\ UNCHANGED retry
      BY <1>6, <2>2, <3>1, <3>2, OpenedRecords DEF rotate_bag
    <3>3. CASE NotOpened(bags) /\ schedule_retry
      BY <1>6, <2>2, <3>1, <3>3, NotOpenedStops DEF rotate_bag, schedule_retry
    <3> QED BY <1>6, <2>2, <3>1, <3>2, <3>3 DEF rotate_bag
  <2> QED BY <2>1, <2>2
<1>7. CASE RetryEnds
  BY <1>7 DEF RetryEnds, MayRecord
<1>8. CASE RetryWaits
  BY <1>8 DEF RetryWaits
<1>9. CASE RetryOpens
  BY <1>9, OpenedRecords DEF RetryOpens, MayRecord, start_rotation_timer
<1>10. CASE disk_check_cb
  BY <1>10 DEF disk_check_cb, schedule_retry
<1>11. CASE Write
  BY <1>11, StutterLifecycle DEF Write, node, Recorder
<1>12. CASE Tick
  BY <1>12 DEF Tick, Elapsed
<1>13. CASE Crash
  BY <1>13 DEF Crash
<1>14. CASE \/ (\E d \in ClockSteps : StepClock(d))
            \/ Publish \/ Takeoff \/ Land \/ LinkLost \/ Others
  BY <1>14, StutterLifecycle
     DEF StepClock, Publish, Takeoff, Land, LinkLost, Others, node, Recorder
<1>15. CASE UNCHANGED vars
  BY <1>15, StutterLifecycle DEF vars, node, Recorder
<1> QED
  BY <1>1, <1>2, <1>3, <1>4, <1>5, <1>6, <1>7, <1>8, <1>9, <1>10, <1>11, <1>12,
     <1>13, <1>14, <1>15 DEF Next, Node, Environment

THEOREM LifecycleAlways == Spec => []Lifecycle
  BY InitLifecycle, NextLifecycle, PTL DEF Spec

\* While the node believes the vehicle armed it records or has a retry
\* scheduled: retry_open_bag, rotate_bag and disk_check_cb leave no gap.
THEOREM NeverIdleAlways == Spec => []NeverIdle
<1>1. Lifecycle => NeverIdle
  BY DEF Lifecycle
<1> QED BY <1>1, LifecycleAlways, PTL

\* Every slice that is written has a rotation timer that will end it.
THEOREM SlicesEndAlways == Spec => []SlicesEnd
<1>1. Lifecycle => SlicesEnd
  BY DEF Lifecycle
<1> QED BY <1>1, LifecycleAlways, PTL

\* Nothing is recorded for a vehicle that was disarmed, in particular not by a
\* retry_open_bag scheduled before.
THEOREM QuietWhenDisarmedAlways == Spec => []QuietWhenDisarmed
<1>1. Lifecycle => QuietWhenDisarmed
  BY DEF Lifecycle
<1> QED BY <1>1, LifecycleAlways, PTL

-----------------------------------------------------------------------------
(* Names of new slices.                                                      *)

\* The first suffix that is free exists, and makes a new name.
LEMMA MinOfNats ==
  ASSUME NEW S \in SUBSET Nat, S # {}
  PROVE  Min(S) \in S /\ \A x \in S : Min(S) <= x
<1> DEFINE R == OpToRel(<, Nat)
<1>1. IsWellFoundedOn(R, Nat)
  BY NatLessThanWellFounded
<1>2. PICK m \in S : \A y \in S : ~ (<<y, m>> \in R)
  <2> HIDE DEF R
  <2> QED BY <1>1, WFMin
<1>3. \A y \in S : m <= y
  <2> TAKE y \in S
  <2>1. ~ (y < m)
    BY <1>2 DEF OpToRel
  <2> QED BY <2>1
<1> QED BY <1>3 DEF Min

\* There are more suffixes to try than directories.
LEMMA FreshIsFree ==
  ASSUME NEW bs, IsFiniteSet(bs), NEW mt \in Nat, now \in Nat
  PROVE  /\ FreshName(bs, mt) \in Nat \X Nat
         /\ FreshName(bs, mt) \notin NamesOf(bs)
<1> DEFINE base == IF mt > now THEN mt ELSE now
           N == 0 .. Cardinality(bs)
           S == {n \in N : <<base, n>> \notin NamesOf(bs)}
<1>1. Cardinality(bs) \in Nat
  BY FS_CardinalityType
<1>2. S # {}
  <2> SUFFICES ASSUME S = {} PROVE FALSE
    OBVIOUS
  <2> DEFINE f == [n \in N |-> CHOOSE b \in bs : b.name = <<base, n>>]
  <2>1. \A n \in N : f[n] \in bs /\ f[n].name = <<base, n>>
    BY DEF NamesOf
  <2>2. f \in [N -> bs]
    BY <2>1
  <2>3. IsFiniteSet(N) /\ Cardinality(bs) < Cardinality(N)
    BY <1>1, FS_Interval
  <2>4. PICK x, y \in N : x # y /\ f[x] = f[y]
    <3> HIDE DEF N, f
    <3> QED BY <2>2, <2>3, FS_PigeonHole
  <2>5. <<base, x>> = <<base, y>>
    BY <2>1, <2>4
  <2> QED BY <2>4, <2>5
<1>3. S \in SUBSET Nat
  BY <1>1
<1>4. Min(S) \in S
  <2> HIDE DEF S
  <2> QED BY <1>2, <1>3, MinOfNats
<1>5. FreshName(bs, mt) = <<base, Min(S)>>
  BY DEF FreshName
<1>6. base \in Nat
  OBVIOUS
<1> QED
  <2> HIDE DEF base
  <2> QED BY <1>3, <1>4, <1>5, <1>6

-----------------------------------------------------------------------------
(* What is on disk.                                                          *)

\* What surrounds the recorder keeps its types.
World ==
  /\ cfg \in Configs /\ cut \in BOOLEAN
  /\ others \in 0 .. MaxOthers /\ now \in 0 .. MaxTime
  /\ flight \in [number : 0 .. MaxFlights, on : BOOLEAN]
  /\ msg \in {"none", "armed", "disarmed"}
  /\ steps \in 0 .. MaxSteps /\ cuts \in 0 .. MaxCuts

\* Slices on disk: no two share a directory.
Directories(bs) ==
  /\ bs \subseteq Bag /\ IsFiniteSet(bs)
  /\ \A a, b \in bs : a.name = b.name => a = b

\* The slice being written is one of them.
Storage ==
  /\ Directories(bags) /\ mtime \in Nat
  /\ current \in (Int \X Nat) \cup {NoBag}
  /\ recording => current \in NamesOf(bags)

LEMMA InitWorld == Init => World
<1> SUFFICES ASSUME Init PROVE World
  OBVIOUS
<1>1. flight \in [number : 0 .. MaxFlights, on : BOOLEAN]
  BY BagLogdAssumption DEF Init
<1>2. cfg \in Configs /\ cut \in BOOLEAN /\ msg \in {"none", "armed", "disarmed"}
  BY DEF Init
<1>3. /\ others \in 0 .. MaxOthers /\ now \in 0 .. MaxTime
      /\ steps \in 0 .. MaxSteps /\ cuts \in 0 .. MaxCuts
  BY BagLogdAssumption DEF Init
<1> QED
  BY <1>1, <1>2, <1>3 DEF World

LEMMA NextWorld == World /\ [Next]_vars => World'
<1> SUFFICES ASSUME World, [Next]_vars PROVE World'
  OBVIOUS
<1> USE BagLogdAssumption DEF World
<1>1. CASE Node
  <2>1. UNCHANGED <<cfg, cut, others, now, flight, steps, cuts>> /\ msg' \in {msg, "none"}
    BY <1>1 DEF Node, Start, SameState, Arm, ArmFails, Disarm, rotate_bag, RetryEnds, RetryWaits,
                RetryOpens, disk_check_cb, Write, Taken, vehicle
  <2> QED BY <2>1
<1>2. CASE Tick
  BY <1>2 DEF Tick, vehicle
<1>3. CASE \E d \in ClockSteps : StepClock(d)
  BY <1>3 DEF StepClock, vehicle
<1>4. CASE Publish
  BY <1>4 DEF Publish
<1>5. CASE Takeoff
  <2>1. flight' \in [number : 0 .. MaxFlights, on : BOOLEAN]
    BY <1>5 DEF Takeoff
  <2> QED BY <1>5, <2>1 DEF Takeoff
<1>6. CASE Land
  BY <1>6 DEF Land
<1>7. CASE LinkLost
  BY <1>7 DEF LinkLost
<1>8. CASE Crash
  BY <1>8 DEF Crash
<1>9. CASE Others
  BY <1>9 DEF Others, vehicle
<1>10. CASE UNCHANGED vars
  BY <1>10 DEF vars, vehicle
<1> QED
  BY <1>1, <1>2, <1>3, <1>4, <1>5, <1>6, <1>7, <1>8, <1>9, <1>10 DEF Next, Environment

\* New ranks leave names, and give each slice one that is not beyond the last.
LEMMA RankType ==
  ASSUME NEW bs, IsFiniteSet(bs), NEW b \in bs
  PROVE  Rank(b, bs) \in Nat /\ Rank(b, bs) <= Cardinality(bs)
  BY FS_Subset, FS_CardinalityType DEF Rank

LEMMA RankedDirectories ==
  ASSUME NEW bs, Directories(bs)
  PROVE  /\ Directories(Ranked(bs))
         /\ NamesOf(Ranked(bs)) = NamesOf(bs)
<1> DEFINE R(b) == [b EXCEPT !.made = Rank(b, bs)]
           f == [b \in bs |-> R(b)]
<1>1. \A b \in bs : b \in Bag /\ R(b) \in Bag /\ R(b).name = b.name
  BY RankType DEF Directories, Bag
<1>2. Ranked(bs) = {R(b) : b \in bs}
  BY DEF Ranked
<1>3. f \in Surjection(bs, Ranked(bs))
  <2> HIDE DEF R
  <2> QED BY <1>2 DEF Surjection
<1>4. IsFiniteSet(Ranked(bs))
  BY <1>3, FS_Surjection DEF Directories
<1> HIDE DEF R
<1>5. NamesOf(Ranked(bs)) = NamesOf(bs)
  BY <1>1, <1>2 DEF NamesOf
<1> QED
  BY <1>1, <1>2, <1>4, <1>5 DEF Directories

LEMMA SubDirectories ==
  ASSUME NEW bs, Directories(bs), NEW cs \in SUBSET bs
  PROVE  Directories(cs)
  BY FS_Subset DEF Directories

\* open_new_bag, after any clean-up.
LEMMA OpenedStorage ==
  ASSUME World, Storage, NEW bs \in SUBSET bags, Opened(bs)
  PROVE  Storage' /\ NamesOf(bags') = NamesOf(bs) \cup {current'}
<1> DEFINE new == [name |-> current', size |-> 1, flight |-> flight.number,
                   made |-> Cardinality(bs) + 1]
<1>1. Directories(bs) /\ now \in Nat /\ Touched(bs) \in Nat
  BY SubDirectories, BagLogdAssumption DEF Storage, World, Touched
<1>2. current' \in Nat \X Nat /\ current' \notin NamesOf(bs)
  BY <1>1, FreshIsFree DEF Opened, Directories
<1>3. Directories(Ranked(bs)) /\ NamesOf(Ranked(bs)) = NamesOf(bs)
  BY <1>1, RankedDirectories
<1>4. new \in Bag /\ new.name = current'
  BY <1>1, <1>2, FS_CardinalityType DEF Bag, Directories, World
<1>5. bags' = Ranked(bs) \cup {new} /\ mtime' = now
  BY DEF Opened
<1> HIDE DEF new
<1>6. \A b \in Ranked(bs) : b.name # new.name
  BY <1>2, <1>3, <1>4 DEF NamesOf
<1>7. Directories(bags')
  BY <1>3, <1>4, <1>5, <1>6, FS_AddElement DEF Directories
<1>8. NamesOf(bags') = NamesOf(bs) \cup {current'}
  BY <1>3, <1>4, <1>5 DEF NamesOf
<1> QED
  BY <1>1, <1>2, <1>5, <1>7, <1>8 DEF Storage, NamesOf

LEMMA NotOpenedStorage ==
  ASSUME World, Storage, NEW bs \in SUBSET bags, NotOpened(bs)
  PROVE  Storage' /\ NamesOf(bags') = NamesOf(bs)
<1>1. Directories(bs) /\ now \in Nat /\ Touched(bs) \in Nat
  BY SubDirectories, BagLogdAssumption DEF Storage, World, Touched
<1> QED
  BY <1>1, RankedDirectories DEF Storage, NotOpened, Directories, NamesOf

\* Clean-ups only delete, and leave the active slice.
LEMMA KeptSubset == Kept(NoBag) \in SUBSET bags
  BY DEF Kept

LEMMA RemainingSubset == Remaining \in SUBSET bags
  BY DEF Remaining

LEMMA RemainingActive ==
  ASSUME current \in NamesOf(bags)
  PROVE  current \in NamesOf(Remaining)
  BY DEF NamesOf, Remaining, Candidates

\* Steps that leave the slices alone.
LEMMA StutterStorage ==
  ASSUME Storage, UNCHANGED disk, recording' \in {FALSE, recording}, current' \in {current, NoBag},
         recording' => current' = current
  PROVE  Storage'
<1>1. bags' = bags /\ mtime' = mtime
  BY DEF disk
<1>2. recording' => current' \in NamesOf(bags')
  <2>1. CASE recording' = FALSE
    BY <2>1
  <2>2. CASE recording' = recording
    BY <1>1, <2>2 DEF Storage
  <2> QED BY <2>1, <2>2
<1> QED
  BY <1>1, <1>2 DEF Storage

LEMMA WriteStorage ==
  ASSUME Storage, Write
  PROVE  Storage'
<1>1. PICK b \in bags : b.name = current /\
                        bags' = (bags \ {b}) \cup {[b EXCEPT !.size = @ + 1]}
  BY DEF Write
<1> DEFINE c == [b EXCEPT !.size = @ + 1]
<1>2. c \in Bag /\ c.name = b.name
  BY DEF Storage, Directories, Bag
<1>3. UNCHANGED <<mtime, recording, current>>
  BY DEF Write, node
<1> HIDE DEF c
<1>4. IsFiniteSet(bags') /\ bags' \subseteq Bag
  BY <1>1, <1>2, FS_RemoveElement, FS_AddElement DEF Storage, Directories, c
<1>5. \A x, y \in bags' : x.name = y.name => x = y
  BY <1>1, <1>2 DEF Storage, Directories, c
<1>6. current \in NamesOf(bags')
  BY <1>1, <1>2 DEF NamesOf, c
<1> QED
  BY <1>3, <1>4, <1>5, <1>6 DEF Storage, Directories

LEMMA NextStorage == Lifecycle /\ World /\ Storage /\ [Next]_vars => Storage'
<1> SUFFICES ASSUME Lifecycle, World, Storage, [Next]_vars PROVE Storage'
  OBVIOUS
<1>1. CASE Start
  <2>1. CASE cfg.arm
    BY <1>1, <2>1, StutterStorage DEF Start, disk
  <2>2. CASE ~cfg.arm
    BY <1>1, <2>2, KeptSubset, OpenedStorage, NotOpenedStorage DEF Start
  <2> QED BY <2>1, <2>2
<1>2. CASE SameState \/ RetryEnds \/ RetryWaits
  BY <1>2, StutterStorage DEF SameState, RetryEnds, RetryWaits, disk
<1>3. CASE Arm \/ ArmFails
  BY <1>3, KeptSubset, OpenedStorage, NotOpenedStorage DEF Arm, ArmFails
<1>4. CASE Disarm
  BY <1>4, StutterStorage DEF Disarm, disk
<1>5. CASE rotate_bag
  <2>1. CASE ~recording \/ current = NoBag
    BY <1>5, <2>1, StutterStorage DEF rotate_bag, disk
  <2>2. CASE recording /\ current # NoBag
    <3>1. ~(cfg.arm /\ ~armed)
      BY <2>2 DEF Lifecycle, QuietWhenDisarmed
    <3> QED BY <1>5, <2>2, <3>1, OpenedStorage, NotOpenedStorage DEF rotate_bag
  <2> QED BY <2>1, <2>2
<1>6. CASE RetryOpens
  BY <1>6, OpenedStorage DEF RetryOpens
<1>7. CASE disk_check_cb
  <2>1. Directories(Remaining)
    BY RemainingSubset, SubDirectories DEF Storage
  <2>2. Directories(bags') /\ NamesOf(bags') = NamesOf(Remaining)
    BY <1>7, <2>1, RankedDirectories DEF disk_check_cb
  <2>3. mtime' \in Nat
    BY <1>7, BagLogdAssumption DEF disk_check_cb, Touched, Storage, World
  <2>4. \/ UNCHANGED <<recording, current>>
        \/ recording' = FALSE /\ current' = NoBag
    BY <1>7 DEF disk_check_cb
  <2> QED
    BY <2>2, <2>3, <2>4, RemainingActive DEF Storage
<1>8. CASE Write
  BY <1>8, WriteStorage
<1>9. CASE Environment
  <2>1. UNCHANGED disk
    BY <1>9 DEF Environment, Tick, StepClock, Publish, Takeoff, Land, LinkLost, Crash, Others
  <2>2. UNCHANGED <<recording, current>> \/ (recording' = FALSE /\ current' = NoBag)
    BY <1>9 DEF Environment, Tick, StepClock, Publish, Takeoff, Land, LinkLost, Crash, Others, node
  <2> QED BY <2>1, <2>2, StutterStorage
<1>10. CASE UNCHANGED vars
  BY <1>10, StutterStorage DEF vars, node
<1> QED
  BY <1>1, <1>2, <1>3, <1>4, <1>5, <1>6, <1>7, <1>8, <1>9, <1>10 DEF Next, Node

-----------------------------------------------------------------------------
(* Slices of the flight in progress.                                         *)

\* What was known of a slice is known of the one that stands for it.
LEMMA RankedSlices ==
  ASSUME NEW bs, Directories(bs)
  PROVE  /\ \A b \in bs : \E c \in Ranked(bs) : c.name = b.name /\ c.flight = b.flight
         /\ \A c \in Ranked(bs) : \E b \in bs :
              c.name = b.name /\ c.flight = b.flight /\ c.made = Rank(b, bs)
<1> DEFINE R(b) == [b EXCEPT !.made = Rank(b, bs)]
<1>1. \A b \in bs : R(b).name = b.name /\ R(b).flight = b.flight /\ R(b).made = Rank(b, bs)
  BY DEF Directories, Bag
<1>2. Ranked(bs) = {R(b) : b \in bs}
  BY DEF Ranked
<1> HIDE DEF R
<1> QED
  BY <1>1, <1>2

\* Unless something cut the flight off, no message says that it is over, and a node
\* that is about to take a message for its beginning has no slice of it yet.
Flown ==
  /\ \A b \in bags : b.flight <= flight.number
  /\ ~up => msg = "none"
  /\ flight.on /\ ~cut =>
       /\ msg # "disarmed"
       /\ ~up \/ (cfg.arm /\ ~armed) => \A b \in bags : b.flight # flight.number

LEMMA InitFlown == Init => Flown
  BY DEF Init, Flown

\* Steps of the node after which only slices are left that were there before.
LEMMA FewerFlown ==
  ASSUME Flown, UNCHANGED <<cfg, flight, cut>>, up, up',
         msg' \in {msg, "none"}, cfg.arm /\ ~armed' => ~armed,
         \A c \in bags' : \E b \in bags : c.flight = b.flight
  PROVE  Flown'
  BY DEF Flown

\* Steps that open a slice of this flight.
LEMMA MoreFlown ==
  ASSUME World, Flown, UNCHANGED <<cfg, flight, cut>>, up', cfg.arm => armed',
         msg' \in {msg, "none"},
         \A c \in bags' : c.flight = flight.number \/ \E b \in bags : c.flight = b.flight
  PROVE  Flown'
  BY DEF Flown, World

LEMMA OpenedFlights ==
  ASSUME Storage, NEW bs \in SUBSET bags, Opened(bs)
  PROVE  /\ \A c \in bags' : c.flight = flight.number \/ \E b \in bags : c.flight = b.flight
         /\ \A b \in bs : \E c \in bags' : c.name = b.name /\ c.flight = b.flight
<1>1. Directories(bs)
  BY SubDirectories DEF Storage
<1> QED BY <1>1, RankedSlices DEF Opened

LEMMA NotOpenedFlights ==
  ASSUME Storage, NEW bs \in SUBSET bags, NotOpened(bs)
  PROVE  /\ \A c \in bags' : \E b \in bags : c.flight = b.flight
         /\ \A b \in bs : \E c \in bags' : c.name = b.name /\ c.flight = b.flight
<1>1. Directories(bs)
  BY SubDirectories DEF Storage
<1> QED BY <1>1, RankedSlices DEF NotOpened

LEMMA WriteFlights ==
  ASSUME Storage, Write
  PROVE  /\ \A c \in bags' : \E b \in bags : c.flight = b.flight
         /\ \A b \in bags : \E c \in bags' : c.name = b.name /\ c.flight = b.flight
<1>1. PICK b \in bags : bags' = (bags \ {b}) \cup {[b EXCEPT !.size = @ + 1]}
  BY DEF Write
<1> DEFINE c == [b EXCEPT !.size = @ + 1]
<1>2. c.flight = b.flight /\ c.name = b.name
  BY DEF Storage, Directories, Bag
<1>3. bags' = (bags \ {b}) \cup {c}
  BY <1>1
<1> HIDE DEF c
<1> QED
  BY <1>2, <1>3

LEMMA CheckFlights ==
  ASSUME Storage, disk_check_cb
  PROVE  \A c \in bags' : \E b \in bags : c.flight = b.flight
<1>1. Directories(Remaining) /\ Remaining \subseteq bags /\ bags' = Ranked(Remaining)
  BY SubDirectories, RemainingSubset DEF Storage, disk_check_cb
<1> QED BY <1>1, RankedSlices

LEMMA NextFlown == Lifecycle /\ World /\ Storage /\ Flown /\ [Next]_vars => Flown'
<1> SUFFICES ASSUME Lifecycle, World, Storage, Flown, [Next]_vars PROVE Flown'
  OBVIOUS
<1>1. CASE Start
  <2>1. CASE cfg.arm
    <3>1. ~armed
      BY <1>1 DEF Start, Lifecycle
    <3> QED BY <1>1, <2>1, <3>1 DEF Start, Flown, vehicle, disk
  <2>2. CASE ~cfg.arm
    <3>1. \A c \in bags' : c.flight = flight.number \/ \E b \in bags : c.flight = b.flight
      BY <1>1, <2>2, KeptSubset, OpenedFlights, NotOpenedFlights DEF Start
    <3> QED BY <1>1, <2>2, <3>1, MoreFlown DEF Start, vehicle
  <2> QED BY <2>1, <2>2
<1>2. CASE SameState \/ RetryEnds \/ RetryWaits
  BY <1>2, FewerFlown DEF SameState, RetryEnds, RetryWaits, Taken, vehicle, disk
<1>3. CASE Arm
  BY <1>3, KeptSubset, OpenedFlights, MoreFlown DEF Arm, Taken
<1>4. CASE ArmFails
  BY <1>4, KeptSubset, NotOpenedFlights, FewerFlown DEF ArmFails, Taken
<1>5. CASE Disarm
  BY <1>5 DEF Disarm, Taken, Flown, disk
<1>6. CASE rotate_bag
  <2>1. up' /\ UNCHANGED <<cfg, flight, cut, msg, armed>> /\ up
    BY <1>6 DEF rotate_bag, vehicle
  <2>2. CASE bags' = bags
    BY <2>1, <2>2, FewerFlown
  <2>3. CASE NotOpened(bags)
    BY <2>1, <2>3, NotOpenedFlights, FewerFlown
  <2>4. CASE Opened(bags) /\ (cfg.arm => armed)
    BY <2>1, <2>4, OpenedFlights, MoreFlown DEF World
  <2> QED BY <1>6, <2>2, <2>3, <2>4 DEF rotate_bag, disk
<1>7. CASE RetryOpens
  BY <1>7, OpenedFlights, MoreFlown DEF RetryOpens, MayRecord, vehicle
<1>8. CASE disk_check_cb
  BY <1>8, CheckFlights, FewerFlown DEF disk_check_cb, vehicle
<1>9. CASE Write
  BY <1>9, WriteFlights, FewerFlown DEF Write, node, vehicle
<1>10. CASE Tick \/ (\E d \in ClockSteps : StepClock(d)) \/ Others
  BY <1>10 DEF Tick, StepClock, Others, vehicle, node, disk, Flown
<1>11. CASE Publish
  BY <1>11 DEF Publish, node, disk, Flown
<1>12. CASE Takeoff
  BY <1>12 DEF Takeoff, node, disk, Flown, World, Storage, Directories, Bag
<1>13. CASE Land
  BY <1>13 DEF Land, node, disk, Flown, World
<1>14. CASE LinkLost
  BY <1>14 DEF LinkLost, node, disk, Flown
<1>15. CASE Crash
  BY <1>15 DEF Crash, disk, Flown
<1>16. CASE UNCHANGED vars
  BY <1>16 DEF vars, vehicle, node, disk, Flown
<1> QED
  BY <1>1, <1>2, <1>3, <1>4, <1>5, <1>6, <1>7, <1>8, <1>9, <1>10, <1>11, <1>12, <1>13,
     <1>14, <1>15, <1>16 DEF Next, Node, Environment

\* A step loses no slice of a flight that nothing cut off, if the disk is not low.
LEMMA FlightStep ==
  ASSUME Lifecycle, World, Storage, Flown, [Next]_vars,
         flight.on, ~Low(bags), ~cut, NEW b \in bags, b.flight = flight.number
  PROVE  ~Loses(b)
<1> SUFFICES \E c \in bags' : c.name = b.name /\ c.flight = b.flight
  BY DEF Loses
<1>1. up /\ (cfg.arm => armed) /\ msg # "disarmed"
  BY DEF Flown
<1>2. CASE rotate_bag
  BY <1>2, OpenedFlights, NotOpenedFlights DEF rotate_bag, disk
<1>3. CASE RetryOpens
  BY <1>3, OpenedFlights DEF RetryOpens
<1>4. CASE Write
  BY <1>4, WriteFlights
<1>5. CASE UNCHANGED bags
  BY <1>5
<1>6. ~Start /\ ~Arm /\ ~ArmFails /\ ~disk_check_cb
  BY <1>1 DEF Start, Arm, ArmFails, disk_check_cb
<1>7. CASE SameState \/ Disarm \/ RetryEnds \/ RetryWaits \/ Environment \/ UNCHANGED vars
  BY <1>7 DEF SameState, Disarm, RetryEnds, RetryWaits, Environment, Tick, StepClock, Publish,
              Takeoff, Land, LinkLost, Crash, Others, disk, vars
<1> QED
  BY <1>2, <1>3, <1>4, <1>6, <1>7 DEF Next, Node

-----------------------------------------------------------------------------
(* The order of creation.                                                    *)

\* Ranks follow the order of creation, ...
LEMMA RankOrder ==
  ASSUME NEW bs, Directories(bs), NEW a \in bs, NEW b \in bs, a.made < b.made
  PROVE  Rank(a, bs) < Rank(b, bs)
<1> DEFINE A == {c \in bs : c.made <= a.made}
           B == {c \in bs : c.made <= b.made}
<1>1. \A c \in bs : c.made \in Nat
  BY DEF Directories, Bag
<1>2. A \subseteq B /\ b \in B /\ b \notin A
  BY <1>1
<1>3. IsFiniteSet(B)
  BY FS_Subset DEF Directories
<1>4. Cardinality(A) <= Cardinality(B) /\ Cardinality(A) # Cardinality(B)
  <2> HIDE DEF A, B
  <2> QED BY <1>2, <1>3, FS_Subset
<1>5. Cardinality(A) \in Nat /\ Cardinality(B) \in Nat
  <2> HIDE DEF A, B
  <2> QED BY <1>2, <1>3, FS_Subset, FS_CardinalityType
<1> QED
  BY <1>4, <1>5 DEF Rank

\* ... and names do too, as long as the clock never goes back.
Ages(bs) ==
  /\ \A b \in bs : b.name[1] <= now
  /\ \A a, b \in bs : a.made = b.made => a = b
  /\ \A a, b \in bs : a.made < b.made => a.name[1] <= b.name[1]

Ordered == Ages(bags) /\ mtime <= now

LEMMA InitOrdered == Init => Ordered
  BY DEF Init, Ordered, Ages

LEMMA RankedAges ==
  ASSUME NEW bs, Directories(bs), Ages(bs)
  PROVE  Ages(Ranked(bs))
<1>1. \A a, b \in bs : /\ a.made \in Nat /\ Rank(a, bs) \in Nat
                       /\ a.made < b.made => Rank(a, bs) < Rank(b, bs)
  BY RankOrder, RankType DEF Directories, Bag
<1>2. \A c \in Ranked(bs) : \E b \in bs : c.name = b.name /\ c.made = Rank(b, bs)
  BY RankedSlices
<1>3. ASSUME NEW c \in Ranked(bs), NEW d \in Ranked(bs)
      PROVE  /\ c.name[1] <= now
             /\ c.made = d.made => c = d
             /\ c.made < d.made => c.name[1] <= d.name[1]
  <2>1. PICK a \in bs : c.name = a.name /\ c.made = Rank(a, bs)
    BY <1>2
  <2>2. PICK b \in bs : d.name = b.name /\ d.made = Rank(b, bs)
    BY <1>2
  <2>3. a.made < b.made \/ b.made < a.made \/ a = b
    BY <1>1 DEF Ages
  <2>4. a = b => c = d
    BY <2>1, <2>2, RankedDirectories DEF Directories
  <2> QED
    BY <1>1, <2>1, <2>2, <2>3, <2>4 DEF Ages
<1> QED
  BY <1>3 DEF Ages

LEMMA OpenedOrdered ==
  ASSUME World, Storage, Ordered, NEW bs \in SUBSET bags, Opened(bs), now' = now
  PROVE  Ordered'
<1> DEFINE new == [name |-> current', size |-> 1, flight |-> flight.number,
                   made |-> Cardinality(bs) + 1]
<1>1. Directories(bs) /\ Ages(bs) /\ Touched(bs) <= now /\ now \in Nat /\ Touched(bs) \in Nat
  BY SubDirectories, BagLogdAssumption DEF Storage, Ordered, Ages, Touched, World
<1>2. current'[1] = now
  BY <1>1 DEF Opened, FreshName
<1>3. bags' = Ranked(bs) \cup {new} /\ mtime' = now
  BY DEF Opened
<1>4. Ages(Ranked(bs)) /\ Directories(Ranked(bs))
  BY <1>1, RankedAges, RankedDirectories
<1>5. new.name[1] = now /\ new.made = Cardinality(bs) + 1
  BY <1>2
<1> HIDE DEF new
<1>6. \A b \in Ranked(bs) : b.made \in Nat /\ b.made < new.made
  <2> SUFFICES ASSUME NEW b \in Ranked(bs) PROVE b.made \in Nat /\ b.made < new.made
    OBVIOUS
  <2>1. PICK c \in bs : b.made = Rank(c, bs)
    BY <1>1, RankedSlices
  <2>2. Cardinality(bs) \in Nat /\ Rank(c, bs) \in Nat /\ Rank(c, bs) <= Cardinality(bs)
    BY <1>1, RankType, FS_CardinalityType DEF Directories
  <2> QED BY <1>5, <2>1, <2>2
<1>7. Ages(bags')
  <2>1. new.made \in Nat
    BY <1>1, <1>5, FS_CardinalityType DEF Directories
  <2> QED BY <1>1, <1>3, <1>4, <1>5, <1>6, <2>1 DEF Ages
<1> QED
  BY <1>1, <1>3, <1>7 DEF Ordered, Ages

LEMMA FewerOrdered ==
  ASSUME World, Storage, Ordered, NEW bs \in SUBSET bags, bags' = Ranked(bs),
         mtime' \in {mtime, now}, now' = now
  PROVE  Ordered'
<1>1. Directories(bs) /\ Ages(bs) /\ now \in Nat
  BY SubDirectories, BagLogdAssumption DEF Storage, Ordered, Ages, World
<1>2. Ages(Ranked(bs))
  BY <1>1, RankedAges
<1> QED BY <1>1, <1>2 DEF Ordered, Ages

LEMMA LaterOrdered ==
  ASSUME World, Storage, Ordered, UNCHANGED disk, now' \in Nat, now <= now'
  PROVE  Ordered'
<1>1. now \in Nat /\ mtime \in Nat /\ \A b \in bags : b.name[1] \in Int
  BY BagLogdAssumption DEF Storage, World, Directories, Bag
<1> QED
  BY <1>1 DEF disk, Ordered, Ages

LEMMA WriteOrdered ==
  ASSUME Storage, Ordered, Write
  PROVE  Ordered'
<1>1. PICK b \in bags : bags' = (bags \ {b}) \cup {[b EXCEPT !.size = @ + 1]}
  BY DEF Write
<1> DEFINE c == [b EXCEPT !.size = @ + 1]
<1>2. c.made = b.made /\ c.name = b.name
  BY DEF Storage, Directories, Bag
<1>3. bags' = (bags \ {b}) \cup {c} /\ now' = now /\ mtime' = mtime
  BY <1>1 DEF Write
<1> HIDE DEF c
<1> QED
  BY <1>2, <1>3 DEF Ordered, Ages

LEMMA NextOrdered ==
  ASSUME ClockSteps \subseteq Nat, World, Storage, Ordered, [Next]_vars
  PROVE  Ordered'
<1>0. now \in Nat /\ MaxTime \in Nat
  BY BagLogdAssumption DEF World
<1>1. CASE Start
  BY <1>0, <1>1, KeptSubset, OpenedOrdered, FewerOrdered, LaterOrdered DEF Start, NotOpened, Touched
<1>2. CASE Arm \/ ArmFails
  BY <1>2, KeptSubset, OpenedOrdered, FewerOrdered DEF Arm, ArmFails, NotOpened, Touched, Taken
<1>3. CASE rotate_bag
  BY <1>0, <1>3, OpenedOrdered, FewerOrdered, LaterOrdered DEF rotate_bag, NotOpened, Touched
<1>4. CASE RetryOpens
  BY <1>4, OpenedOrdered DEF RetryOpens
<1>5. CASE disk_check_cb
  BY <1>5, RemainingSubset, FewerOrdered DEF disk_check_cb, Touched
<1>6. CASE Write
  BY <1>6, WriteOrdered
<1>7. CASE Tick
  BY <1>0, <1>7, LaterOrdered DEF Tick
<1>8. CASE \E d \in ClockSteps : StepClock(d)
  BY <1>0, <1>8, LaterOrdered DEF StepClock
<1>9. CASE SameState \/ Disarm \/ RetryEnds \/ RetryWaits
  BY <1>0, <1>9, LaterOrdered DEF SameState, Disarm, RetryEnds, RetryWaits, Taken
<1>10. CASE Publish \/ Takeoff \/ Land \/ LinkLost \/ Crash \/ Others \/ UNCHANGED vars
  BY <1>0, <1>10, LaterOrdered DEF Publish, Takeoff, Land, LinkLost, Crash, Others, vars
<1> QED
  BY <1>1, <1>2, <1>3, <1>4, <1>5, <1>6, <1>7, <1>8, <1>9, <1>10 DEF Next, Node, Environment

\* A step deletes slices in the order of their creation while one is written.
LEMMA OrderStep ==
  ASSUME Lifecycle, World, Storage, Ordered, [Next]_vars, recording,
         NEW a \in bags, NEW b \in bags,
         a.name \notin NamesOf(bags'), b.name \in NamesOf(bags') \ {current}
  PROVE  a.made < b.made \/ a.name[1] = b.name[1]
<1>1. CASE disk_check_cb
  <2>1. NamesOf(bags') = NamesOf(Remaining)
    BY <1>1, RemainingSubset, SubDirectories, RankedDirectories DEF disk_check_cb, Storage
  <2>2. a \notin Remaining /\ b \in Remaining
    BY <2>1, RemainingSubset DEF NamesOf, Storage, Directories
  <2>3. Deleted(a) /\ ~Deleted(b)
    BY <2>2 DEF Remaining, Candidates
  <2>4. PICK c \in Candidates : ~Earlier(b, c) /\ Earlier(a, c)
    BY <2>3 DEF Deleted
  <2>5. \A d \in {a, b, c} : d.name[1] \in Int /\ d.name[2] \in Nat /\ d.made \in Nat
    BY <2>4 DEF Storage, Directories, Bag, Candidates
  <2>6. a.name[1] <= b.name[1]
    BY <2>4, <2>5 DEF Earlier
  <2>7. a # b
    BY <2>2
  <2> QED BY <2>5, <2>6, <2>7 DEF Ordered, Ages
<1>2. CASE rotate_bag \/ RetryOpens
  <2>1. NamesOf(bags) \subseteq NamesOf(bags')
    BY <1>2, OpenedStorage, NotOpenedStorage DEF rotate_bag, RetryOpens, disk
  <2> QED BY <2>1 DEF NamesOf
<1>3. CASE Write
  <2>1. \E c \in bags' : c.name = a.name
    BY <1>3, WriteFlights
  <2> QED BY <2>1 DEF NamesOf
<1>4. ~Start /\ ~Arm /\ ~ArmFails
  BY DEF Start, Arm, ArmFails, Lifecycle, QuietWhenDisarmed
<1>5. CASE UNCHANGED bags
  BY <1>5 DEF NamesOf
<1>6. CASE SameState \/ Disarm \/ RetryEnds \/ RetryWaits \/ Environment \/ UNCHANGED vars
  <2>1. UNCHANGED bags
    BY <1>6 DEF SameState, Disarm, RetryEnds, RetryWaits, Environment, Tick, StepClock, Publish,
              Takeoff, Land, LinkLost, Crash, Others, disk, vars
  <2> QED BY <2>1, <1>5
<1> QED
  BY <1>1, <1>2, <1>3, <1>4, <1>6 DEF Next, Node

-----------------------------------------------------------------------------
(* The theorems.                                                             *)

\* The inductive invariant, for every clock.
IInv == Lifecycle /\ World /\ Storage /\ Flown

LEMMA InitIInv == Init => IInv
<1> SUFFICES ASSUME Init PROVE IInv
  OBVIOUS
<1>1. Storage
  BY FS_EmptySet DEF Init, Storage, Directories, NamesOf
<1> QED
  BY <1>1, InitLifecycle, InitWorld, InitFlown DEF IInv

LEMMA NextIInv == IInv /\ [Next]_vars => IInv'
  BY NextLifecycle, NextWorld, NextStorage, NextFlown DEF IInv

LEMMA IInvAlways == Spec => []IInv
  BY InitIInv, NextIInv, PTL DEF Spec

LEMMA IInvSound == IInv => TypeOK /\ ActiveKept
<1> SUFFICES ASSUME IInv PROVE TypeOK /\ ActiveKept
  OBVIOUS
<1>1. ActiveKept
  BY DEF IInv, Lifecycle, Storage, ActiveKept
<1>2. {up, armed, recording, cut} \subseteq BOOLEAN
  BY DEF IInv, Lifecycle, World
<1> QED
  BY <1>1, <1>2 DEF IInv, Lifecycle, World, Storage, Directories, TypeOK

\* No two slices ever share a directory, and the slice being written is on disk,
\* whatever cleanup_old_bags and disk_check_cb delete and wherever the clock is.
THEOREM ActiveKeptAlways == Spec => [](TypeOK /\ ActiveKept)
  BY IInvAlways, IInvSound, PTL

\* Of a flight that nothing cut off no slice is deleted while there is space,
\* by a message, a retry, a rotation or a failed start (arm_state_cb).
THEOREM FlightKeptAlways == Spec => FlightKeptUncut
<1> DEFINE NothingLost == flight.on /\ ~Low(bags) /\ ~cut =>
                      \A b \in bags : b.flight = flight.number => ~Loses(b)
<1>1. IInv /\ [Next]_vars => [NothingLost]_vars
  BY FlightStep DEF IInv
<1> QED
  BY <1>1, IInvAlways, PTL DEF Spec, FlightKeptUncut

\* If the clock is never stepped back, slices also go in the order in which
\* they were created, although names made from the clock are compared.
THEOREM SlicesKeptAlways ==
  ASSUME ClockSteps \subseteq Nat
  PROVE  Spec => SlicesKept
<1> DEFINE InOrder == recording =>
             \A a, b \in bags :
               /\ a.name \notin NamesOf(bags')
               /\ b.name \in NamesOf(bags') \ {current}
               => a.made < b.made \/ a.name[1] = b.name[1]
<1>1. IInv /\ Ordered /\ [Next]_vars => Ordered'
  BY NextOrdered DEF IInv
<1>2. IInv /\ Ordered /\ [Next]_vars => [InOrder]_vars
  BY OrderStep DEF IInv
<1>3. Spec => OldestFirst
  BY <1>1, <1>2, InitOrdered, IInvAlways, PTL DEF Spec, OldestFirst
<1> QED
  BY <1>3, ActiveKeptAlways, FlightKeptAlways, PTL DEF SlicesKept
=============================================================================
