------------------------------- MODULE MavPoints -------------------------------
(* The older lists of pymavlink (mavwp.py): rally points, numbered from 1 by   *)
(* their callers, and fence points, a return point followed by a polygon whose *)
(* last point repeats its first.                                               *)
EXTENDS Integers, SequencesExt

CONSTANTS
    Places,         \* positions
    RallyFiles,     \* files load may be given: sequences of [kind, point]
    FenceFiles,     \* the same for fences
    MaxRally,       \* 10 in the code
    MaxPoints       \* bound of the checked instance

VARIABLES
    rally_points,   \* [idx, count, at, alt, land_dir]
    points,         \* [idx, count, at]
    error,          \* whether the last call raised an error
    stale           \* history: a fence point was removed, and no index set since

pointvars == <<rally_points, points, error, stale>>

(* the place of Python's list[i], 0 for an IndexError *)
PyIndex(n, i) == IF i >= 0 /\ i < n THEN i + 1 ELSE IF i < 0 /\ -i <= n THEN n + i + 1 ELSE 0

numbered(ps) == [i \in DOMAIN ps |-> [ps[i] EXCEPT !.idx = i - 1, !.count = Len(ps)]]
-------------------------------------------------------------------------------
(* Rally points *)

append_rally_point(ps, p) == IF Len(ps) > MaxRally - 1 THEN ps ELSE numbered(Append(ps, p))

(* the message about a wrong number is printed, and the removal still tried *)
remove_rally(i) ==
    LET place == PyIndex(Len(rally_points), i - 1)
    IN  /\ rally_points' = IF place = 0 THEN rally_points
                           ELSE numbered(RemoveAt(rally_points, place))
        /\ error' = (place = 0)
move_rally(i, at) ==
    LET place == PyIndex(Len(rally_points), i - 1)
    IN  /\ rally_points' = IF place = 0 THEN rally_points
                           ELSE [rally_points EXCEPT ![place].at = at]
        /\ error' = (place = 0)
set_alt(i, alt) ==
    /\ rally_points' = IF i < 1 \/ i > Len(rally_points) THEN rally_points
                       ELSE [rally_points EXCEPT ![i].alt = alt]
    /\ error' = FALSE

(* land_dir is in degrees in a file and in hundredths of a degree in a message; save writes the latter *)
RallyOf(p) == [p EXCEPT !.land_dir = 100 * @]
ReadRally(r, line) ==
    CASE r.error \/ line.kind \in {"comment", "blank", "other"} -> r
      [] ~r.error /\ line.kind = "bad" -> [r EXCEPT !.error = TRUE]
      [] OTHER -> [r EXCEPT !.points = append_rally_point(@, RallyOf(line.point))]
load_rally(lines) == FoldLeft(ReadRally, [points |-> <<>>, error |-> FALSE], lines)
Lines(ps) == [i \in DOMAIN ps |-> [kind |-> "point", point |-> ps[i]]]
save_rally(ps) == Lines(ps)
-------------------------------------------------------------------------------
(* Fence points *)

AddPoint(ps, at) == numbered(Append(ps, [idx |-> 0, count |-> 0, at |-> at]))
ReadFence(r, line) ==
    CASE r.error \/ line.kind \in {"comment", "blank"} -> r
      [] ~r.error /\ line.kind = "bad" -> [r EXCEPT !.error = TRUE]
      [] OTHER -> [r EXCEPT !.points = AddPoint(@, line.point.at)]
load_fence(lines) == FoldLeft(ReadFence, [points |-> <<>>, error |-> FALSE], lines)
save_fence(ps) == Lines(ps)
polygon(ps) == [i \in 1 .. Len(ps) - 1 |-> ps[i + 1].at]

(* list[i].at = at for a Python index; one that is not there ends the call *)
Put(r, i, at) ==
    LET place == PyIndex(Len(r.points), i)
    IN  IF r.error \/ place = 0 THEN [r EXCEPT !.error = TRUE]
        ELSE [r EXCEPT !.points[place].at = at]
Copy(r, to, from) ==
    IF r.error \/ PyIndex(Len(r.points), from) = 0 THEN [r EXCEPT !.error = TRUE]
    ELSE Put(r, to, r.points[PyIndex(Len(r.points), from)].at)
When(condition, r, s) == IF condition THEN s ELSE r

MovedFirst(ps, i, at) ==
    LET one == Put([points |-> ps, error |-> FALSE], i, at) IN
        When(i = 1, one, Put(one, Len(ps) - 1, at))
MovedFence(ps, i, at) ==
    LET n == Len(ps)
        one == Put([points |-> ps, error |-> FALSE], i, at)
        two == When(i = 1, one, Put(one, n - 1, at))
    IN  When(i = n - 1, two, Put(two, 1, at))
RemovedFence(ps, i) ==
    LET place == PyIndex(Len(ps), i)
        n == Len(ps) - 1
        one == [points |-> RemoveAt(ps, place), error |-> FALSE]
        two == When(i = 1, one, Copy(one, n - 1, 1))
    IN  IF place = 0 THEN [points |-> ps, error |-> TRUE] ELSE When(i = n, two, Copy(two, 1, n - 1))
-------------------------------------------------------------------------------

PointsInit == rally_points = <<>> /\ points = <<>> /\ error = FALSE /\ stale = FALSE

RallyAdd ==
    \E p \in [idx : {0}, count : {0}, at : Places, alt : {0}, land_dir : {0}] :
        rally_points' = append_rally_point(rally_points, p) /\ error' = FALSE
RallyRemove == \E i \in -1 .. MaxRally + 1 : remove_rally(i)
RallyMove == \E i \in -1 .. MaxRally + 1, at \in Places : move_rally(i, at)
RallyAlt == \E i \in -1 .. MaxRally + 1 : set_alt(i, 1)
RallyLoad == \E file \in RallyFiles : LET r ==
  load_rally(file) IN rally_points' = r.points /\ error' = r.error
RallyReload == LET r == load_rally(save_rally(rally_points)) IN
    (\A i \in DOMAIN rally_points : rally_points[i].land_dir <= 100) /\
        rally_points' = r.points /\ error' = r.error
RallyNext ==
    /\ RallyAdd \/ RallyRemove \/ RallyMove \/ RallyAlt \/ RallyLoad \/ RallyReload
    /\ UNCHANGED <<points, stale>>

FenceAdd == \E at \in Places : Len(points) < MaxPoints /\
    points' = AddPoint(points, at) /\ error' = FALSE /\ stale' = FALSE
FenceMove ==
    \E i \in -1 .. Len(points), at \in Places :
        LET r == MovedFence(points, i, at) IN points' = r.points /\
            error' = r.error /\ UNCHANGED stale
FenceRemove ==
    \E i \in -1 .. Len(points) :
        LET r == RemovedFence(points, i)
        IN  points' = r.points /\ error' = r.error /\
            stale' = (stale \/ Len(r.points) < Len(points))
FenceLoad == \E file \in FenceFiles : LET r ==
  load_fence(file) IN points' = r.points /\ error' = r.error /\ stale' = FALSE
FenceReload == LET r == load_fence(save_fence(points)) IN points' = r.points /\
    error' = r.error /\ stale' = FALSE
FenceClear == points' = <<>> /\ error' = FALSE /\ stale' = FALSE
FenceNext ==
    /\ FenceAdd \/ FenceMove \/ FenceRemove \/ FenceLoad \/ FenceReload \/ FenceClear
    /\ UNCHANGED rally_points

PointsSpec == PointsInit /\ [][RallyNext \/ FenceNext]_pointvars
-------------------------------------------------------------------------------

(* What files hold: a rally point has all its fields, of a fence point only the *)
(* position is read.                                                            *)
PointsAssumption ==
    /\ MaxRally \in Nat \ {0}
    /\ RallyFiles \subseteq Seq([kind : STRING,
           point : [idx : Int, count : Int, at : Places, alt : Int, land_dir : Int]])
    /\ \A file \in FenceFiles : Len(file) \in Nat /\ DOMAIN file = 1 .. Len(file)

Numbered(ps) == \A i \in DOMAIN ps : ps[i].idx = i - 1 /\ ps[i].count = Len(ps)
Closed(ps) == Len(ps) >= 3 /\ ps[2].at = ps[Len(ps)].at
(* A fence that is closed stays closed when a point is moved and when one that is  *)
(* not the return point is removed; points know their number; ten is the limit    *)
(* (MAVRallyLoader, MAVFenceLoader).                                               *)
PointsSound ==
    [][/\ Numbered(rally_points') /\ Len(rally_points') <= MaxRally
       /\ stale' \/ Numbered(points')
       /\ Closed(points) =>
             /\ \A i \in 0 .. Len(points) - 1, at \in Places :
                  Closed(MovedFence(points, i, at).points)
             /\ \A i \in 1 .. Len(points) - 1 : Len(points) > 3
                  => Closed(RemovedFence(points, i).points)]_pointvars
===============================================================================
