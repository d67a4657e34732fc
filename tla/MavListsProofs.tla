----------------------------- MODULE MavListsProofs -----------------------------
(* Proofs about the lists of pymavlink: PointsSound of the rally and fence points *)
(* (MavPoints), ListsSound of mission items and their views (MavWp) and SetsReach *)
(* of parameters set and loaded (MavParm), for all positions, items and files.    *)
(* What load makes of a file is a fold over its lines and a view is a loop, so     *)
(* the first lemmas are induction over the naturals, folds and loops, in a form    *)
(* without operator parameters: a property is a set, the operation that is         *)
(* repeated a function.                                                            *)
EXTENDS MavPoints, MavWp, MavParm, SequenceTheorems, FiniteSetTheorems, WellFoundedInduction, TLAPS

\* Every set of naturals that is not empty has a least element, as the intervals
\* that end in its elements are finite sets.
LEMMA Least ==
  ASSUME NEW T \in SUBSET Nat, T # {}
  PROVE  \E n \in T : \A m \in T : n <= m
<1> DEFINE U == {0 .. m : m \in T}
<1>1. U \subseteq SUBSET Nat /\ U # {}
  <2>1. \A m \in T : 0 .. m \subseteq Nat
    OBVIOUS
  <2> QED BY <2>1
<1>2. \A u \in U : IsFiniteSet(u)
  BY FS_Interval
<1>3. U \subseteq FiniteSubsetsOf(Nat)
  BY <1>1, <1>2 DEF FiniteSubsetsOf
<1>4. PICK x \in U : \A y \in U : ~ (<<y, x>> \in StrictSubsetOrdering(Nat))
  BY <1>1, <1>3, FS_StrictSubsetOrderingWellFounded, WFMin
<1>5. \A y \in U : ~(y \subseteq x /\ y # x)
  <2> TAKE y \in U
  <2>1. <<y, x>> \in (SUBSET Nat) \X (SUBSET Nat)
    BY <1>1
  <2> QED BY <1>4, <2>1, Zenon DEF StrictSubsetOrdering
<1>6. PICK n \in T : x = 0 .. n
  OBVIOUS
<1>7. ASSUME NEW m \in T, m < n PROVE FALSE
  <2>1. 0 .. m \in U /\ 0 .. m \subseteq x
    BY <1>6, <1>7
  <2>2. n \in x /\ n \notin 0 .. m
    BY <1>6, <1>7
  <2> QED BY <2>1, <2>2, <1>5
<1> QED BY <1>7

\* Induction up to n; S is the set of those numbers that have the property.
LEMMA UpTo ==
  ASSUME NEW n \in Nat, NEW S, 0 \in S, \A k \in 1 .. n : k - 1 \in S => k \in S
  PROVE  0 .. n \subseteq S
<1> SUFFICES ASSUME (0 .. n) \ S # {} PROVE FALSE
  OBVIOUS
<1>1. (0 .. n) \ S \in SUBSET Nat
  OBVIOUS
<1>2. PICK k \in (0 .. n) \ S : \A m \in (0 .. n) \ S : k <= m
  BY <1>1, Least
<1>3. k \in 1 .. n /\ k - 1 \in 0 .. n /\ ~(k <= k - 1)
  BY <1>2
<1> QED BY <1>2, <1>3

(* FoldLeft takes the places of a sequence in their order by taking away the *)
(* largest place of a set of places.                                         *)

LEMMA MaxIn ==
  ASSUME NEW n \in Nat, NEW s \in SUBSET (1 .. n), s # {}
  PROVE  /\ Max(s) \in s
         /\ \A x \in s : x <= Max(s)
<1> DEFINE T == {n - x : x \in s}
<1>1. T \in SUBSET Nat /\ T # {}
  <2>1. \A x \in s : n - x \in Nat
    OBVIOUS
  <2> QED BY <2>1
<1>2. PICK d \in T : \A e \in T : d <= e
  BY <1>1, Least
<1>3. PICK x \in s : d = n - x
  BY <1>2
<1>4. ASSUME NEW y \in s PROVE y <= x
  <2>1. n - y \in T
    OBVIOUS
  <2>2. n - x <= n - y
    BY <1>2, <1>3, <2>1
  <2> QED BY <2>2
<1>5. \E z \in s : \A y \in s : z >= y
  BY <1>4
<1>6. Max(s) \in s /\ \A y \in s : Max(s) >= y
  BY <1>5, Zenon DEF Max
<1> QED BY <1>6

\* A set of numbers up to k, without k.
LEMMA Lower ==
  ASSUME NEW k \in Nat \ {0}, NEW s \in SUBSET (1 .. k)
  PROVE  /\ s \ {k} \in SUBSET (1 .. k - 1) /\ s \ {k} \in SUBSET (1 .. k)
         /\ k \notin s \ {k}
         /\ k \notin s => s \in SUBSET (1 .. k - 1)
<1>1. \A x \in 1 .. k : x # k => x \in 1 .. k - 1
  OBVIOUS
<1>2. \A x \in s : x \in 1 .. k
  OBVIOUS
<1> QED BY <1>1, <1>2

LEMMA MaxTop ==
  ASSUME NEW k \in Nat \ {0}, NEW s \in SUBSET (1 .. k), k \in s
  PROVE  Max(s) = k
<1> k \in Nat /\ s # {}
  OBVIOUS
<1>1. Max(s) \in s /\ k <= Max(s)
  BY MaxIn
<1>2. Max(s) \in 1 .. k
  BY <1>1
<1> QED BY <1>1, <1>2

\* g has the value of the fold for each set of places: G[v, i] is the result of
\* folding the element at place i into v.
Folds(g, n, V, base, G) ==
  /\ g \in [SUBSET (1 .. n) -> V]
  /\ \A s \in SUBSET (1 .. n) :
       g[s] = IF s = {} THEN base ELSE G[<<g[s \ {Max(s)}], Max(s)>>]

LEMMA FoldExists ==
  ASSUME NEW n \in Nat, NEW V, NEW base \in V, NEW G \in [V \X (1 .. n) -> V]
  PROVE  \E g : Folds(g, n, V, base, G)
<1> DEFINE Fold(g, k) == \A s \in SUBSET (1 .. k) :
             g[s] = IF s = {} THEN base ELSE G[<<g[s \ {Max(s)}], Max(s)>>]
           S == {k \in 0 .. n : \E g \in [SUBSET (1 .. k) -> V] : Fold(g, k)}
<1>1. 0 \in S
  <2> DEFINE g == [s \in SUBSET (1 .. 0) |-> base]
  <2>1. \A s \in SUBSET (1 .. 0) : s = {}
    OBVIOUS
  <2>2. g \in [SUBSET (1 .. 0) -> V] /\ Fold(g, 0)
    BY <2>1
  <2>3. 0 \in 0 .. n
    OBVIOUS
  <2> HIDE DEF g, Fold
  <2> QED BY <2>2, <2>3
<1>2. ASSUME NEW k \in 1 .. n, k - 1 \in S PROVE k \in S
  <2>1. PICK g \in [SUBSET (1 .. k - 1) -> V] : Fold(g, k - 1)
    BY <1>2
  <2> DEFINE h == [s \in SUBSET (1 .. k) |->
                     IF k \in s THEN G[<<g[s \ {k}], k>>] ELSE g[s]]
  <2>2. ASSUME NEW s \in SUBSET (1 .. k)
        PROVE  /\ h[s] \in V
               /\ h[s] = IF s = {} THEN base ELSE G[<<h[s \ {Max(s)}], Max(s)>>]
    <3>1. CASE k \in s
      <4>1. Max(s) = k
        BY <3>1, MaxTop
      <4>2. s \ {k} \in SUBSET (1 .. k - 1) /\ s \ {k} \in SUBSET (1 .. k) /\ k \notin s \ {k}
        <5> k \in Nat \ {0}
          OBVIOUS
        <5> QED BY Lower
      <4>3. h[s \ {k}] = g[s \ {k}] /\ g[s \ {k}] \in V
        BY <4>2
      <4>4. h[s] = G[<<g[s \ {k}], k>>]
        BY <3>1
      <4> QED BY <3>1, <4>1, <4>3, <4>4
    <3>2. CASE k \notin s
      <4>1. s \in SUBSET (1 .. k - 1) /\ h[s] = g[s] /\ g[s] \in V
        BY <3>2
      <4>2. CASE s = {}
        <5>1. g[s] = base
          BY <4>1, <4>2, <2>1
        <5> QED BY <4>1, <4>2, <5>1
      <4>3. CASE s # {}
        <5>1. Max(s) \in s
          <6> k \in Nat
            OBVIOUS
          <6> QED BY <4>3, MaxIn
        <5>2. /\ s \ {Max(s)} \in SUBSET (1 .. k - 1)
              /\ s \ {Max(s)} \in SUBSET (1 .. k) /\ k \notin s \ {Max(s)}
          BY <3>2, <4>1
        <5>3. h[s \ {Max(s)}] = g[s \ {Max(s)}]
          BY <5>2
        <5> QED BY <4>1, <4>3, <5>3, <2>1
      <4> QED BY <4>2, <4>3
    <3> QED BY <3>1, <3>2
  <2>3. h \in [SUBSET (1 .. k) -> V]
    BY <2>2
  <2>4. Fold(h, k)
    BY <2>2
  <2>5. k \in 0 .. n
    OBVIOUS
  <2> HIDE DEF h, Fold
  <2> QED BY <2>3, <2>4, <2>5
<1>3. n \in S
  <2> HIDE DEF S
  <2> QED BY <1>1, <1>2, UpTo
<1> QED BY <1>3 DEF Folds

\* Whatever set the first value is in and no step leaves, the fold is in: h is
\* the function FoldLeft is defined by.
LEMMA FoldIn ==
  ASSUME NEW n \in Nat, NEW V, NEW h,
         \A s \in SUBSET (1 .. n) : s = {} => h[s] \in V,
         \A s \in SUBSET (1 .. n) : s # {} /\ h[s \ {Max(s)}] \in V => h[s] \in V
  PROVE  h[1 .. n] \in V
<1> DEFINE S == {k \in 0 .. n : \A s \in SUBSET (1 .. k) : h[s] \in V}
<1>1. 0 \in S
  <2>1. \A s \in SUBSET (1 .. 0) : s = {} /\ s \in SUBSET (1 .. n)
    OBVIOUS
  <2> QED BY <2>1
<1>2. ASSUME NEW k \in 1 .. n, k - 1 \in S PROVE k \in S
  <2>1. ASSUME NEW s \in SUBSET (1 .. k) PROVE h[s] \in V
    <3>0. s \in SUBSET (1 .. n) /\ k \in Nat \ {0}
      OBVIOUS
    <3>1. CASE k \in s
      <4>1. Max(s) = k
        BY <3>0, <3>1, MaxTop
      <4>2. s \ {k} \in SUBSET (1 .. k - 1)
        BY <3>0, Lower
      <4>3. h[s \ {k}] \in V
        BY <1>2, <4>2
      <4> QED BY <3>0, <3>1, <4>1, <4>3
    <3>2. CASE k \notin s
      <4>1. s \in SUBSET (1 .. k - 1)
        BY <3>0, <3>2, Lower
      <4> QED BY <1>2, <4>1
    <3> QED BY <3>1, <3>2
  <2>2. k \in 0 .. n
    OBVIOUS
  <2> QED BY <2>1, <2>2
<1>3. n \in S
  <2>1. 0 .. n \subseteq S
    <3> HIDE DEF S
    <3> QED BY <1>1, <1>2, UpTo
  <2>2. n \in 0 .. n
    OBVIOUS
  <2> HIDE DEF S
  <2> QED BY <2>1, <2>2
<1>4. 1 .. n \in SUBSET (1 .. n)
  OBVIOUS
<1> QED BY <1>3, <1>4

-----------------------------------------------------------------------------
(* What load returns is in every set that its steps do not leave. *)

LEMMA RallyFold ==
  ASSUME NEW lines, NEW n \in Nat, DOMAIN lines = 1 .. n, NEW V,
         [points |-> <<>>, error |-> FALSE] \in V,
         \A r \in V, i \in 1 .. n : ReadRally(r, lines[i]) \in V
  PROVE  load_rally(lines) \in V
<1> DEFINE base == [points |-> <<>>, error |-> FALSE]
           G == [x \in V \X (1 .. n) |-> ReadRally(x[1], lines[x[2]])]
           Is(h) == h = [s \in SUBSET (1 .. n) |-> IF s = {} THEN base
                                ELSE ReadRally(h[s \ {Max(s)}], lines[Max(s)])]
           g == CHOOSE h : Is(h)
<1>1. \E h : Is(h)
  <2>1. G \in [V \X (1 .. n) -> V]
    OBVIOUS
  <2>2. PICK h : Folds(h, n, V, base, G)
    <3>1. base \in V
      OBVIOUS
    <3> HIDE DEF G, base, Is, g
    <3> QED BY <2>1, <3>1, FoldExists
  <2>3. ASSUME NEW s \in SUBSET (1 .. n), s # {}
        PROVE  h[s] = ReadRally(h[s \ {Max(s)}], lines[Max(s)])
    <3>1. Max(s) \in 1 .. n /\ h[s \ {Max(s)}] \in V
      BY <2>2, <2>3, MaxIn DEF Folds
    <3> QED BY <2>2, <2>3, <3>1 DEF Folds
  <2>4. Is(h)
    BY <2>2, <2>3 DEF Folds
  <2> HIDE DEF Is
  <2> QED BY <2>4
<1>2. Is(g)
  <2> HIDE DEF Is
  <2> QED BY <1>1
<1>3. load_rally(lines) = g[1 .. n]
  BY DEF load_rally, FoldLeft, MapThenFoldSet
<1> HIDE DEF g
<1>4. ASSUME NEW s \in SUBSET (1 .. n), s # {}, g[s \ {Max(s)}] \in V PROVE g[s] \in V
  <2>1. Max(s) \in 1 .. n
    BY <1>4, MaxIn
  <2>2. g[s] = ReadRally(g[s \ {Max(s)}], lines[Max(s)])
    BY <1>2, <1>4
  <2> QED BY <1>4, <2>1, <2>2
<1>5. \A s \in SUBSET (1 .. n) : s = {} => g[s] \in V
  BY <1>2
<1>6. g[1 .. n] \in V
  <2> HIDE DEF Is
  <2> QED BY <1>4, <1>5, FoldIn
<1> QED BY <1>3, <1>6

LEMMA FenceFold ==
  ASSUME NEW lines, NEW n \in Nat, DOMAIN lines = 1 .. n, NEW V,
         [points |-> <<>>, error |-> FALSE] \in V,
         \A r \in V, i \in 1 .. n : ReadFence(r, lines[i]) \in V
  PROVE  load_fence(lines) \in V
<1> DEFINE base == [points |-> <<>>, error |-> FALSE]
           G == [x \in V \X (1 .. n) |-> ReadFence(x[1], lines[x[2]])]
           Is(h) == h = [s \in SUBSET (1 .. n) |-> IF s = {} THEN base
                                ELSE ReadFence(h[s \ {Max(s)}], lines[Max(s)])]
           g == CHOOSE h : Is(h)
<1>1. \E h : Is(h)
  <2>1. G \in [V \X (1 .. n) -> V]
    OBVIOUS
  <2>2. PICK h : Folds(h, n, V, base, G)
    <3>1. base \in V
      OBVIOUS
    <3> HIDE DEF G, base, Is, g
    <3> QED BY <2>1, <3>1, FoldExists
  <2>3. ASSUME NEW s \in SUBSET (1 .. n), s # {}
        PROVE  h[s] = ReadFence(h[s \ {Max(s)}], lines[Max(s)])
    <3>1. Max(s) \in 1 .. n /\ h[s \ {Max(s)}] \in V
      BY <2>2, <2>3, MaxIn DEF Folds
    <3> QED BY <2>2, <2>3, <3>1 DEF Folds
  <2>4. Is(h)
    BY <2>2, <2>3 DEF Folds
  <2> HIDE DEF Is
  <2> QED BY <2>4
<1>2. Is(g)
  <2> HIDE DEF Is
  <2> QED BY <1>1
<1>3. load_fence(lines) = g[1 .. n]
  BY DEF load_fence, FoldLeft, MapThenFoldSet
<1> HIDE DEF g
<1>4. ASSUME NEW s \in SUBSET (1 .. n), s # {}, g[s \ {Max(s)}] \in V PROVE g[s] \in V
  <2>1. Max(s) \in 1 .. n
    BY <1>4, MaxIn
  <2>2. g[s] = ReadFence(g[s \ {Max(s)}], lines[Max(s)])
    BY <1>2, <1>4
  <2> QED BY <1>4, <2>1, <2>2
<1>5. \A s \in SUBSET (1 .. n) : s = {} => g[s] \in V
  BY <1>2
<1>6. g[1 .. n] \in V
  <2> HIDE DEF Is
  <2> QED BY <1>4, <1>5, FoldIn
<1> QED BY <1>3, <1>6

-----------------------------------------------------------------------------
(* What the points are, of rally points and of fences. *)

RallyPoint == [idx : Int, count : Int, at : Places, alt : Int, land_dir : Int]
FencePlaces == Places \union UNION {{content[i].point.at : i \in DOMAIN content} : content \in FenceFiles}
FencePoint == [idx : Int, count : Int, at : FencePlaces]
Rallies == {ps \in Seq(RallyPoint) : Numbered(ps) /\ Len(ps) <= MaxRally}
Fences == {ps \in Seq(FencePoint) : Numbered(ps)}

\* A removal takes out one element and moves down those behind it.
LEMMA RemovedAt ==
  ASSUME NEW T, NEW ps \in Seq(T), NEW k \in 1 .. Len(ps)
  PROVE  /\ RemoveAt(ps, k) \in Seq(T)
         /\ Len(RemoveAt(ps, k)) = Len(ps) - 1
         /\ \A j \in 1 .. Len(ps) - 1 : RemoveAt(ps, k)[j] = ps[IF j < k THEN j ELSE j + 1]
<1> DEFINE front == SubSeq(ps, 1, k - 1)
           back == SubSeq(ps, k + 1, Len(ps))
<1>1. front \in Seq(T) /\ Len(front) = k - 1 /\ \A j \in 1 .. k - 1 : front[j] = ps[j]
  OBVIOUS
<1>2. back \in Seq(T) /\ Len(back) = Len(ps) - k /\ \A j \in 1 .. Len(ps) - k : back[j] = ps[j + k]
  OBVIOUS
<1>3. RemoveAt(ps, k) = front \o back
  BY DEF RemoveAt
<1>4. Len(ps) \in Nat /\ k \in 1 .. Len(ps)
  OBVIOUS
<1> HIDE DEF front, back
<1>5. front \o back \in Seq(T) /\ Len(front \o back) = Len(ps) - 1
  <2>1. front \o back \in Seq(T) /\ Len(front \o back) = Len(front) + Len(back)
    BY <1>1, <1>2, ConcatProperties
  <2>2. k - 1 + (Len(ps) - k) = Len(ps) - 1
    BY <1>4
  <2> QED BY <1>1, <1>2, <2>1, <2>2
<1>6. ASSUME NEW j \in 1 .. Len(ps) - 1
      PROVE  (front \o back)[j] = ps[IF j < k THEN j ELSE j + 1]
  <2>1. CASE j < k
    BY <1>1, <1>2, <1>4, <2>1
  <2>2. CASE j >= k
    <3>1. (front \o back)[j] = back[j - (k - 1)]
      BY <1>1, <1>2, <1>4, <2>2
    <3>2. j - (k - 1) \in 1 .. Len(ps) - k
      BY <1>4, <2>2
    <3>3. back[j - (k - 1)] = ps[(j - (k - 1)) + k]
      BY <1>2, <3>2
    <3>4. (j - (k - 1)) + k = j + 1 /\ ~(j < k)
      BY <1>4, <2>2
    <3> QED BY <3>1, <3>3, <3>4
  <2>3. j < k \/ j >= k
    BY <1>4
  <2> QED BY <2>1, <2>2, <2>3
<1> QED BY <1>3, <1>5, <1>6

\* numbered changes numbers only, and they are right afterwards.
LEMMA NumberedRally ==
  ASSUME NEW ps \in Seq(RallyPoint)
  PROVE  /\ numbered(ps) \in Seq(RallyPoint) /\ Len(numbered(ps)) = Len(ps)
         /\ Numbered(numbered(ps))
<1>1. numbered(ps) = [i \in 1 .. Len(ps) |-> [ps[i] EXCEPT !.idx = i - 1, !.count = Len(ps)]]
  BY DEF numbered
<1> DEFINE n == Len(ps)
           q == numbered(ps)
<1>2. n \in Nat /\ DOMAIN q = 1 .. n
  <2>1. DOMAIN numbered(ps) = DOMAIN ps
    BY DEF numbered
  <2>2. DOMAIN ps = 1 .. n /\ n \in Nat
    OBVIOUS
  <2> QED BY <2>1, <2>2
<1>3. ASSUME NEW i \in 1 .. n
      PROVE  q[i] \in RallyPoint /\ q[i].idx = i - 1 /\ q[i].count = n
  <2>1. ps[i] \in RallyPoint
    OBVIOUS
  <2>2. q[i] = [ps[i] EXCEPT !.idx = i - 1, !.count = n]
    BY <1>1
  <2>3. i - 1 \in Int /\ n \in Int
    BY <1>2
  <2> HIDE DEF n, q
  <2> QED BY <2>1, <2>2, <2>3 DEF RallyPoint
<1>4. q = [i \in 1 .. n |-> q[i]]
  BY <1>1
<1> HIDE DEF n, q
<1>5. q \in [1 .. n -> RallyPoint]
  BY <1>3, <1>4
<1>6. q \in Seq(RallyPoint) /\ Len(q) = n
  BY <1>2, <1>5
<1>7. Numbered(q)
  BY <1>2, <1>3, <1>6 DEF Numbered
<1> QED BY <1>6, <1>7 DEF n, q

LEMMA NumberedFence ==
  ASSUME NEW ps \in Seq(FencePoint)
  PROVE  numbered(ps) \in Fences
<1>1. numbered(ps) = [i \in 1 .. Len(ps) |-> [ps[i] EXCEPT !.idx = i - 1, !.count = Len(ps)]]
  BY DEF numbered
<1> DEFINE n == Len(ps)
           q == numbered(ps)
<1>2. n \in Nat /\ DOMAIN q = 1 .. n
  <2>1. DOMAIN numbered(ps) = DOMAIN ps
    BY DEF numbered
  <2>2. DOMAIN ps = 1 .. n /\ n \in Nat
    OBVIOUS
  <2> QED BY <2>1, <2>2
<1>3. ASSUME NEW i \in 1 .. n
      PROVE  q[i] \in FencePoint /\ q[i].idx = i - 1 /\ q[i].count = n
  <2>1. ps[i] \in FencePoint
    OBVIOUS
  <2>2. q[i] = [ps[i] EXCEPT !.idx = i - 1, !.count = n]
    BY <1>1
  <2>3. i - 1 \in Int /\ n \in Int
    BY <1>2
  <2> HIDE DEF n, q
  <2> QED BY <2>1, <2>2, <2>3 DEF FencePoint
<1>4. q = [i \in 1 .. n |-> q[i]]
  BY <1>1
<1> HIDE DEF n, q
<1>5. q \in [1 .. n -> FencePoint]
  BY <1>3, <1>4
<1>6. q \in Seq(FencePoint) /\ Len(q) = n
  BY <1>2, <1>5
<1>7. Numbered(q)
  BY <1>2, <1>3, <1>6 DEF Numbered
<1> QED BY <1>6, <1>7 DEF n, q, Fences

LEMMA PyIndexRange ==
  ASSUME NEW n \in Nat, NEW i \in Int
  PROVE  /\ PyIndex(n, i) \in 0 .. n
         /\ i \in 0 .. n - 1 => PyIndex(n, i) = i + 1
BY DEF PyIndex

LEMMA RallyAppended ==
  ASSUME NEW ps \in Rallies, NEW p \in RallyPoint, MaxRally \in Nat
  PROVE  append_rally_point(ps, p) \in Rallies
<1>1. Append(ps, p) \in Seq(RallyPoint) /\ Len(Append(ps, p)) = Len(ps) + 1
  BY DEF Rallies
<1>2. numbered(Append(ps, p)) \in Seq(RallyPoint) /\ Len(numbered(Append(ps, p))) = Len(ps) + 1
      /\ Numbered(numbered(Append(ps, p)))
  BY <1>1, NumberedRally
<1> QED BY <1>2 DEF append_rally_point, Rallies

\* A file of rally points, however it is damaged, leaves numbered points, ten at most.
LEMMA RallyLoaded ==
  ASSUME NEW lines, NEW n \in Nat, DOMAIN lines = 1 .. n, MaxRally \in Nat,
         \A i \in 1 .. n : lines[i].point \in RallyPoint
  PROVE  load_rally(lines).points \in Rallies
<1> DEFINE V == [points : Rallies, error : BOOLEAN]
<1>1. [points |-> <<>>, error |-> FALSE] \in V
  BY DEF Rallies, Numbered
<1>2. ASSUME NEW r \in V, NEW i \in 1 .. n PROVE ReadRally(r, lines[i]) \in V
  <2>1. RallyOf(lines[i].point) \in RallyPoint
    BY SMTT(60) DEF RallyOf, RallyPoint
  <2>2. append_rally_point(r.points, RallyOf(lines[i].point)) \in Rallies
    BY <2>1, RallyAppended
  <2> QED BY <2>2 DEF ReadRally
<1>3. load_rally(lines) \in V
  <2> HIDE DEF V
  <2> QED BY <1>1, <1>2, RallyFold
<1> QED BY <1>3

LEMMA PointAdded ==
  ASSUME NEW ps \in Seq(FencePoint), NEW at \in FencePlaces
  PROVE  AddPoint(ps, at) \in Fences
<1>1. Append(ps, [idx |-> 0, count |-> 0, at |-> at]) \in Seq(FencePoint)
  BY DEF FencePoint
<1> QED BY <1>1, NumberedFence DEF AddPoint

LEMMA FenceLoaded ==
  ASSUME NEW lines, NEW n \in Nat, DOMAIN lines = 1 .. n,
         \A i \in 1 .. n : lines[i].point.at \in FencePlaces
  PROVE  load_fence(lines).points \in Fences
<1> DEFINE V == [points : Fences, error : BOOLEAN]
<1>1. [points |-> <<>>, error |-> FALSE] \in V
  BY DEF Fences, Numbered
<1>2. ASSUME NEW r \in V, NEW i \in 1 .. n PROVE ReadFence(r, lines[i]) \in V
  <2>1. AddPoint(r.points, lines[i].point.at) \in Fences
    BY PointAdded DEF Fences
  <2> QED BY <2>1 DEF ReadFence
<1>3. load_fence(lines) \in V
  <2> HIDE DEF V
  <2> QED BY <1>1, <1>2, FenceFold
<1> QED BY <1>3

-----------------------------------------------------------------------------
(* The calls that change a fence: Put and Copy leave the numbers alone and put a *)
(* position at the place a Python index stands for.                              *)

Results == [points : Seq(FencePoint), error : BOOLEAN]
SameNumbers(ps, qs) == Len(qs) = Len(ps) /\ \A j \in 1 .. Len(ps) :
                    qs[j].idx = ps[j].idx /\ qs[j].count = ps[j].count
At(r, q, place, at) == ~q.error /\ \A j \in 1 .. Len(r.points) :
                    q.points[j].at = IF j = place THEN at ELSE r.points[j].at

LEMMA PutSound ==
  ASSUME NEW r \in Results, NEW i \in Int, NEW at \in FencePlaces
  PROVE  /\ Put(r, i, at) \in Results /\ SameNumbers(r.points, Put(r, i, at).points)
         /\ ~r.error /\ PyIndex(Len(r.points), i) # 0
              => At(r, Put(r, i, at), PyIndex(Len(r.points), i), at)
<1> DEFINE n == Len(r.points)
           place == PyIndex(n, i)
           q == Put(r, i, at)
<1>1. n \in Nat /\ r.points \in [1 .. n -> FencePoint] /\ r.error \in BOOLEAN
  BY DEF Results
<1>2. place \in 0 .. n
  BY <1>1, PyIndexRange
<1>3. CASE r.error \/ place = 0
  <2>1. q = [r EXCEPT !.error = TRUE]
    BY <1>3 DEF Put
  <2> QED BY <1>3, <2>1 DEF SameNumbers, Results
<1>4. CASE ~r.error /\ place # 0
  <2>1. q = [r EXCEPT !.points = [r.points EXCEPT ![place] = [r.points[place] EXCEPT !.at = at]]]
    BY <1>4 DEF Put
  <2>2. q.points = [r.points EXCEPT ![place] = [r.points[place] EXCEPT !.at = at]] /\ ~q.error
        /\ q = [points |-> q.points, error |-> FALSE]
    BY <2>1, <1>4 DEF Results
  <2>3. r.points[place] \in FencePoint /\ [r.points[place] EXCEPT !.at = at] \in FencePoint
    BY <1>1, <1>2, <1>4 DEF FencePoint
  <2>4. q.points \in [1 .. n -> FencePoint]
    BY <1>1, <2>2, <2>3
  <2>5. q.points \in Seq(FencePoint) /\ Len(q.points) = n
    BY <1>1, <2>4
  <2>6. ASSUME NEW j \in 1 .. n
        PROVE  /\ q.points[j].idx = r.points[j].idx /\ q.points[j].count = r.points[j].count
               /\ q.points[j].at = IF j = place THEN at ELSE r.points[j].at
    BY <1>1, <2>2, <2>3 DEF FencePoint
  <2>7. n = Len(r.points)
    OBVIOUS
  <2> HIDE DEF n, q, place
  <2>8. q \in Results
    <3>1. [points |-> q.points, error |-> FALSE] \in Results
      BY <2>5 DEF Results
    <3> QED BY <2>2, <3>1, Zenon
  <2>9. SameNumbers(r.points, q.points) /\ At(r, q, place, at)
    BY <2>2, <2>5, <2>6, <2>7 DEF SameNumbers, At
  <2> QED BY <2>8, <2>9 DEF q, place, n
<1> QED BY <1>1, <1>3, <1>4

LEMMA CopySound ==
  ASSUME NEW r \in Results, NEW to \in Int, NEW from \in Int
  PROVE  /\ Copy(r, to, from) \in Results /\ SameNumbers(r.points, Copy(r, to, from).points)
         /\ ~r.error /\ PyIndex(Len(r.points), to) # 0 /\ PyIndex(Len(r.points), from) # 0
              => At(r, Copy(r, to, from), PyIndex(Len(r.points), to),
                    r.points[PyIndex(Len(r.points), from)].at)
<1> DEFINE place == PyIndex(Len(r.points), from)
<1>1. place \in 0 .. Len(r.points) /\ r.points \in Seq(FencePoint)
  <2>1. r.points \in Seq(FencePoint) /\ Len(r.points) \in Nat
    BY DEF Results
  <2> QED BY <2>1, PyIndexRange
<1>2. CASE r.error \/ place = 0
  <2>1. Copy(r, to, from) = [r EXCEPT !.error = TRUE]
    BY <1>2 DEF Copy
  <2> QED BY <1>2, <2>1 DEF SameNumbers, Results
<1>3. CASE ~r.error /\ place # 0
  <2>1. Copy(r, to, from) = Put(r, to, r.points[place].at)
    BY <1>3 DEF Copy
  <2> HIDE DEF place
  <2>2. r.points[place].at \in FencePlaces
    <3>1. place \in 1 .. Len(r.points)
      BY <1>1, <1>3
    <3>2. r.points[place] \in FencePoint
      BY <1>1, <3>1
    <3> QED BY <3>2 DEF FencePoint
  <2>3. /\ Put(r, to, r.points[place].at) \in Results
        /\ SameNumbers(r.points, Put(r, to, r.points[place].at).points)
        /\ ~r.error /\ PyIndex(Len(r.points), to) # 0
             => At(r, Put(r, to, r.points[place].at), PyIndex(Len(r.points), to), r.points[place].at)
    BY <2>2, PutSound
  <2> QED BY <2>1, <2>3 DEF place
<1> QED BY <1>1, <1>2, <1>3 DEF Results

LEMMA SameTrans ==
  ASSUME NEW ps \in Seq(FencePoint), NEW qs \in Seq(FencePoint), NEW rs \in Seq(FencePoint),
         SameNumbers(ps, qs), SameNumbers(qs, rs)
  PROVE  SameNumbers(ps, rs)
BY DEF SameNumbers

\* What moving a point leaves: the numbers, and the number of points.
LEMMA MovedSound ==
  ASSUME NEW ps \in Seq(FencePoint), NEW i \in Int, NEW at \in FencePlaces
  PROVE  MovedFence(ps, i, at) \in Results /\ SameNumbers(ps, MovedFence(ps, i, at).points)
<1> DEFINE zero == [points |-> ps, error |-> FALSE]
           one == Put(zero, i, at)
           two == When(i = 1, one, Put(one, Len(ps) - 1, at))
           three == When(i = Len(ps) - 1, two, Put(two, 1, at))
<1>1. zero \in Results /\ zero.points = ps /\ Len(ps) - 1 \in Int /\ 1 \in Int
  BY DEF Results
<1>2. MovedFence(ps, i, at) = three
  BY DEF MovedFence
<1> HIDE DEF zero
<1>3. one \in Results /\ SameNumbers(ps, one.points)
  BY <1>1, PutSound
<1> HIDE DEF one
<1>4. two \in Results /\ SameNumbers(ps, two.points)
  <2>1. Put(one, Len(ps) - 1, at) \in Results /\ SameNumbers(one.points, Put(one, Len(ps) - 1, at).points)
    BY <1>1, <1>3, PutSound
  <2>2. SameNumbers(ps, Put(one, Len(ps) - 1, at).points)
    BY <1>3, <2>1, SameTrans DEF Results
  <2> QED BY <1>3, <2>1, <2>2 DEF When
<1> HIDE DEF two
<1>5. three \in Results /\ SameNumbers(ps, three.points)
  <2>1. Put(two, 1, at) \in Results /\ SameNumbers(two.points, Put(two, 1, at).points)
    BY <1>1, <1>4, PutSound
  <2>2. SameNumbers(ps, Put(two, 1, at).points)
    BY <1>4, <2>1, SameTrans DEF Results
  <2> QED BY <1>4, <2>1, <2>2 DEF When
<1> QED BY <1>2, <1>5

LEMMA MovedNumbered ==
  ASSUME NEW ps \in Fences, NEW i \in Int, NEW at \in FencePlaces
  PROVE  MovedFence(ps, i, at).points \in Fences
<1>1. ps \in Seq(FencePoint)
  BY DEF Fences
<1>2. MovedFence(ps, i, at).points \in Seq(FencePoint) /\ SameNumbers(ps, MovedFence(ps, i, at).points)
  BY <1>1, MovedSound DEF Results
<1> HIDE DEF MovedFence
<1> QED BY <1>1, <1>2, SMTT(60) DEF SameNumbers, Fences, Numbered

\* What removing a point leaves is a sequence of points, and the fence as it was
\* where there is no such point.
LEMMA RemovedSound ==
  ASSUME NEW ps \in Seq(FencePoint), NEW i \in Int
  PROVE  /\ RemovedFence(ps, i) \in Results
         /\ IF PyIndex(Len(ps), i) = 0 THEN RemovedFence(ps, i).points = ps
            ELSE Len(RemovedFence(ps, i).points) = Len(ps) - 1
<1> DEFINE place == PyIndex(Len(ps), i)
           n == Len(ps) - 1
           one == [points |-> RemoveAt(ps, place), error |-> FALSE]
           two == When(i = 1, one, Copy(one, n - 1, 1))
           three == When(i = n, two, Copy(two, 1, n - 1))
<1>1. RemovedFence(ps, i) = IF place = 0 THEN [points |-> ps, error |-> TRUE] ELSE three
  BY DEF RemovedFence
<1>2. CASE place = 0
  BY <1>1, <1>2 DEF Results
<1>3. CASE place # 0
  <2>1. place \in 1 .. Len(ps) /\ n \in Int /\ n - 1 \in Int /\ 1 \in Int
    BY <1>3, PyIndexRange
  <2>2. one \in Results /\ Len(one.points) = n
    <3> HIDE DEF place
    <3> QED BY <2>1, RemovedAt DEF Results
  <2> HIDE DEF one, n, place
  <2>3. two \in Results /\ Len(two.points) = n
    BY <2>1, <2>2, CopySound DEF When, SameNumbers
  <2> HIDE DEF two
  <2>4. three \in Results /\ Len(three.points) = n
    BY <2>1, <2>3, CopySound DEF When, SameNumbers
  <2> HIDE DEF three
  <2> QED BY <1>1, <1>3, <2>4 DEF n, place
<1> QED BY <1>2, <1>3

(* A fence that is closed stays closed. *)

LEMMA MovedClosed ==
  ASSUME NEW ps \in Seq(FencePoint), Closed(ps), NEW i \in 0 .. Len(ps) - 1, NEW at \in FencePlaces
  PROVE  Closed(MovedFence(ps, i, at).points)
<1> DEFINE n == Len(ps)
           zero == [points |-> ps, error |-> FALSE]
           one == Put(zero, i, at)
           two == When(i = 1, one, Put(one, n - 1, at))
           three == When(i = n - 1, two, Put(two, 1, at))
<1>1. n \in Nat /\ n >= 3 /\ ps[2].at = ps[n].at
  BY DEF Closed
<1>2. MovedFence(ps, i, at) = three
  BY DEF MovedFence
<1>3. zero \in Results /\ zero.points = ps /\ ~zero.error
  BY DEF Results
<1>4. i \in Int /\ n - 1 \in Int /\ 1 \in Int /\ i \in 0 .. n - 1
  BY <1>1
<1>5. PyIndex(n, i) = i + 1 /\ PyIndex(n, n - 1) = n /\ PyIndex(n, 1) = 2 /\ i + 1 # 0 /\ n # 0
  BY <1>1, <1>4 DEF PyIndex
<1>6. Len(zero.points) = n
  BY <1>3
<1> HIDE DEF zero
<1>7. one \in Results /\ Len(one.points) = n /\ ~one.error
      /\ \A j \in 1 .. n : one.points[j].at = IF j = i + 1 THEN at ELSE ps[j].at
  <2>1. /\ one \in Results /\ SameNumbers(zero.points, one.points)
        /\ ~zero.error /\ PyIndex(Len(zero.points), i) # 0
             => At(zero, one, PyIndex(Len(zero.points), i), at)
    BY <1>3, <1>4, PutSound
  <2> HIDE DEF one, n
  <2>2. At(zero, one, i + 1, at)
    BY <1>3, <1>5, <1>6, <2>1
  <2> QED BY <1>3, <1>6, <2>1, <2>2 DEF SameNumbers, At
<1> HIDE DEF one, n
<1>8. two \in Results /\ Len(two.points) = n /\ ~two.error
      /\ \A j \in 1 .. n : two.points[j].at =
            IF j = i + 1 \/ (i = 1 /\ j = n) THEN at ELSE ps[j].at
  <2>1. CASE i = 1
    <3>1. two = Put(one, n - 1, at)
      BY <2>1 DEF When
    <3> QED BY <1>4, <1>5, <1>7, <2>1, <3>1, PutSound, SMTT(60) DEF SameNumbers, At
  <2>2. CASE i # 1
    BY <1>7, <2>2 DEF When
  <2> QED BY <2>1, <2>2
<1> HIDE DEF two
<1>9. three \in Results /\ Len(three.points) = n
      /\ \A j \in 1 .. n : three.points[j].at =
            IF j = i + 1 \/ (i = 1 /\ j = n) \/ (i = n - 1 /\ j = 2) THEN at ELSE ps[j].at
  <2>1. CASE i = n - 1
    <3>1. three = Put(two, 1, at)
      BY <2>1 DEF When
    <3> QED BY <1>4, <1>5, <1>8, <2>1, <3>1, PutSound, SMTT(60) DEF SameNumbers, At
  <2>2. CASE i # n - 1
    BY <1>8, <2>2 DEF When
  <2> QED BY <2>1, <2>2
<1> HIDE DEF three
<1>10. three.points[2].at = three.points[n].at
  <2>1. 2 \in 1 .. n /\ n \in 1 .. n
    BY <1>1
  <2>2. three.points[2].at = IF i = 1 \/ i = n - 1 THEN at ELSE ps[2].at
    BY <1>1, <1>4, <1>9, <2>1
  <2>3. three.points[n].at = IF i = 1 \/ i = n - 1 THEN at ELSE ps[n].at
    BY <1>1, <1>4, <1>9, <2>1
  <2> QED BY <1>1, <2>2, <2>3
<1> QED BY <1>1, <1>2, <1>9, <1>10 DEF Closed

LEMMA RemovedClosed ==
  ASSUME NEW ps \in Seq(FencePoint), Closed(ps), NEW i \in 1 .. Len(ps) - 1, Len(ps) > 3
  PROVE  Closed(RemovedFence(ps, i).points)
<1> DEFINE place == PyIndex(Len(ps), i)
           n == Len(ps) - 1
           one == [points |-> RemoveAt(ps, place), error |-> FALSE]
           two == When(i = 1, one, Copy(one, n - 1, 1))
           three == When(i = n, two, Copy(two, 1, n - 1))
<1>1. n \in Nat /\ n >= 3 /\ ps[2].at = ps[n + 1].at /\ Len(ps) = n + 1
  BY DEF Closed
<1>2. place = i + 1
  BY DEF PyIndex
<1>3. RemovedFence(ps, i) = three
  BY <1>2 DEF RemovedFence
<1>4. i \in 1 .. n /\ n - 1 \in Int /\ 1 \in Int
  BY <1>1
<1>5. PyIndex(n, n - 1) = n /\ PyIndex(n, 1) = 2 /\ n # 0
  BY <1>1 DEF PyIndex
<1>6. one \in Results /\ Len(one.points) = n /\ ~one.error
      /\ \A j \in 1 .. n : one.points[j].at = ps[IF j < i + 1 THEN j ELSE j + 1].at
  <2>1. i + 1 \in 1 .. Len(ps)
    OBVIOUS
  <2> QED BY <1>2, <2>1, RemovedAt DEF Results
<1> HIDE DEF one, n
<1>7. 2 \in 1 .. n /\ n \in 1 .. n
  BY <1>1
<1>8. two \in Results /\ Len(two.points) = n /\ ~two.error
      /\ two.points[2].at = (IF i = 1 THEN ps[3].at ELSE ps[2].at)
      /\ two.points[n].at = (IF i = 1 THEN ps[3].at ELSE IF i = n THEN ps[n].at ELSE ps[n + 1].at)
  <2>1. one.points[2].at = (IF i = 1 THEN ps[3].at ELSE ps[2].at)
    <3>1. one.points[2].at = ps[IF 2 < i + 1 THEN 2 ELSE 2 + 1].at
      BY <1>6, <1>7
    <3>2. 2 < i + 1 <=> i # 1
      BY <1>4
    <3> QED BY <3>1, <3>2
  <2>2. one.points[n].at = (IF i = n THEN ps[n].at ELSE ps[n + 1].at)
    BY <1>1, <1>4, <1>6, <1>7
  <2>3. CASE i = 1
    <3>1. two = Copy(one, n - 1, 1)
      BY <2>3 DEF When
    <3>2. two \in Results /\ SameNumbers(one.points, two.points) /\ At(one, two, n, one.points[2].at)
      <4>1. /\ Copy(one, n - 1, 1) \in Results
            /\ SameNumbers(one.points, Copy(one, n - 1, 1).points)
            /\ At(one, Copy(one, n - 1, 1), n, one.points[2].at)
        <5> DEFINE copy == Copy(one, n - 1, 1)
        <5>1. /\ copy \in Results /\ SameNumbers(one.points, copy.points)
              /\ ~one.error /\ PyIndex(Len(one.points), n - 1) # 0 /\ PyIndex(Len(one.points), 1) # 0
                   => At(one, copy, PyIndex(Len(one.points), n - 1),
                         one.points[PyIndex(Len(one.points), 1)].at)
          BY <1>4, <1>6, CopySound
        <5> HIDE DEF copy
        <5>2. At(one, copy, n, one.points[2].at)
          BY <1>5, <1>6, <5>1
        <5> QED BY <5>1, <5>2 DEF copy
      <4> QED BY <3>1, <4>1, Zenon
    <3> QED BY <1>1, <1>6, <1>7, <2>1, <2>3, <3>2 DEF SameNumbers, At
  <2>4. CASE i # 1
    BY <1>6, <2>1, <2>2, <2>4 DEF When
  <2> QED BY <2>3, <2>4
<1> HIDE DEF two
<1>9. Len(three.points) = n /\ three.points[2].at = three.points[n].at
  <2>1. CASE i = n
    <3>1. three = Copy(two, 1, n - 1)
      BY <2>1 DEF When
    <3>2. SameNumbers(two.points, three.points) /\ At(two, three, 2, two.points[n].at)
      BY <1>4, <1>5, <1>8, <3>1, CopySound
    <3> QED BY <1>1, <1>7, <1>8, <3>2 DEF SameNumbers, At
  <2>2. CASE i # n
    BY <1>1, <1>8, <2>2 DEF When
  <2> QED BY <2>1, <2>2
<1> HIDE DEF three
<1> QED BY <1>1, <1>3, <1>9 DEF Closed

-----------------------------------------------------------------------------
(* The calls that change rally points, and the theorem. *)

LEMMA RallyRemoved ==
  ASSUME NEW ps \in Rallies, NEW place \in 1 .. Len(ps), MaxRally \in Nat
  PROVE  numbered(RemoveAt(ps, place)) \in Rallies
<1>1. ps \in Seq(RallyPoint) /\ Len(ps) <= MaxRally /\ Len(ps) \in Nat
  BY DEF Rallies
<1>2. RemoveAt(ps, place) \in Seq(RallyPoint) /\ Len(RemoveAt(ps, place)) = Len(ps) - 1
  BY <1>1, RemovedAt
<1>3. /\ numbered(RemoveAt(ps, place)) \in Seq(RallyPoint)
      /\ Len(numbered(RemoveAt(ps, place))) = Len(ps) - 1
      /\ Numbered(numbered(RemoveAt(ps, place)))
  BY <1>2, NumberedRally
<1> QED BY <1>1, <1>3 DEF Rallies

\* A point keeps its number when its position or altitude is set.
LEMMA RallyChanged ==
  ASSUME NEW ps \in Rallies, NEW place \in 1 .. Len(ps), NEW p \in RallyPoint,
         p.idx = ps[place].idx, p.count = ps[place].count
  PROVE  [ps EXCEPT ![place] = p] \in Rallies
<1> DEFINE qs == [ps EXCEPT ![place] = p]
<1>1. ps \in Seq(RallyPoint) /\ Numbered(ps) /\ Len(ps) <= MaxRally /\ Len(ps) \in Nat
  BY DEF Rallies
<1>2. qs \in Seq(RallyPoint) /\ Len(qs) = Len(ps)
  BY <1>1
<1>3. Numbered(qs)
  BY <1>1, <1>2 DEF Numbered
<1> HIDE DEF qs
<1> QED BY <1>1, <1>2, <1>3 DEF Rallies, qs

\* The points of a file that save wrote are those of the list.
LEMMA Saved ==
  ASSUME NEW T, NEW ps \in Seq(T)
  PROVE  /\ DOMAIN Lines(ps) = 1 .. Len(ps)
         /\ \A i \in 1 .. Len(ps) : Lines(ps)[i].point = ps[i]
BY DEF Lines

(* Numbers are right and there are ten rally points at most; the fence's points know *)
(* their number unless one was removed since.                                         *)
PointsInv ==
  /\ rally_points \in Rallies
  /\ points \in Seq(FencePoint)
  /\ stale \in BOOLEAN
  /\ stale \/ Numbered(points)

\* An empty sequence is numbered, of whatever its points would be.
LEMMA NoPoints == ASSUME NEW T PROVE <<>> \in Seq(T) /\ Numbered(<<>>) /\ Len(<<>>) = 0
BY DEF Numbered

LEMMA RallyStep ==
  ASSUME PointsAssumption, PointsInv, RallyNext
  PROVE  PointsInv'
<1> USE DEF PointsInv
<1>0. MaxRally \in Nat /\ rally_points \in Rallies /\ Len(rally_points) \in Nat
      /\ rally_points \in Seq(RallyPoint)
  BY DEF PointsAssumption, Rallies
<1>1. CASE RallyAdd
  <2>1. PICK p \in [idx : {0}, count : {0}, at : Places, alt : {0}, land_dir : {0}] :
          rally_points' = append_rally_point(rally_points, p)
    BY <1>1 DEF RallyAdd
  <2>2. p \in RallyPoint
    BY DEF RallyPoint
  <2> QED BY <1>0, <2>1, <2>2, RallyAppended DEF RallyNext
<1>2. CASE RallyRemove
  <2>1. PICK i \in -1 .. MaxRally + 1 : remove_rally(i)
    BY <1>2 DEF RallyRemove
  <2> DEFINE place == PyIndex(Len(rally_points), i - 1)
  <2>2. place \in 0 .. Len(rally_points)
    <3>1. i - 1 \in Int
      BY <1>0
    <3> QED BY <1>0, <3>1, PyIndexRange
  <2>3. rally_points' = IF place = 0 THEN rally_points ELSE numbered(RemoveAt(rally_points, place))
    BY <2>1 DEF remove_rally
  <2> HIDE DEF place
  <2>4. rally_points' \in Rallies
    BY <1>0, <2>2, <2>3, RallyRemoved
  <2> QED BY <2>4 DEF RallyNext
<1>3. CASE RallyMove
  <2>1. PICK i \in -1 .. MaxRally + 1, at \in Places : move_rally(i, at)
    BY <1>3 DEF RallyMove
  <2> DEFINE place == PyIndex(Len(rally_points), i - 1)
             p == [rally_points[place] EXCEPT !.at = at]
  <2>2. place \in 0 .. Len(rally_points)
    <3>1. i - 1 \in Int
      BY <1>0
    <3> QED BY <1>0, <3>1, PyIndexRange
  <2>3. rally_points' = IF place = 0 THEN rally_points ELSE [rally_points EXCEPT ![place] = p]
    BY <2>1 DEF move_rally
  <2>4. ASSUME place # 0
        PROVE  p \in RallyPoint /\ p.idx = rally_points[place].idx /\ p.count = rally_points[place].count
    <3> HIDE DEF place
    <3>1. rally_points[place] \in RallyPoint
      BY <1>0, <2>2, <2>4
    <3> QED BY <3>1 DEF RallyPoint
  <2> HIDE DEF place, p
  <2>5. rally_points' \in Rallies
    BY <1>0, <2>2, <2>3, <2>4, RallyChanged
  <2> QED BY <2>5 DEF RallyNext
<1>4. CASE RallyAlt
  <2>1. PICK i \in -1 .. MaxRally + 1 : set_alt(i, 1)
    BY <1>4 DEF RallyAlt
  <2> DEFINE p == [rally_points[i] EXCEPT !.alt = 1]
  <2>2. rally_points' = IF i < 1 \/ i > Len(rally_points) THEN rally_points
                        ELSE [rally_points EXCEPT ![i] = p]
    BY <2>1 DEF set_alt
  <2>3. ASSUME ~(i < 1 \/ i > Len(rally_points))
        PROVE  /\ i \in 1 .. Len(rally_points) /\ p \in RallyPoint
               /\ p.idx = rally_points[i].idx /\ p.count = rally_points[i].count
    <3>1. i \in 1 .. Len(rally_points)
      BY <1>0, <2>3
    <3>2. rally_points[i] \in RallyPoint
      BY <1>0, <3>1
    <3> QED BY <3>1, <3>2 DEF RallyPoint
  <2> HIDE DEF p
  <2>4. rally_points' \in Rallies
    BY <1>0, <2>2, <2>3, RallyChanged
  <2> QED BY <2>4 DEF RallyNext
<1>5. CASE RallyLoad
  <2>1. PICK content \in RallyFiles : rally_points' = load_rally(content).points
    BY <1>5 DEF RallyLoad
  <2>2. DOMAIN content = 1 .. Len(content) /\ Len(content) \in Nat
        /\ \A i \in 1 .. Len(content) : content[i].point \in RallyPoint
    <3>1. content \in Seq([kind : STRING, point : RallyPoint])
      BY DEF PointsAssumption, RallyPoint
    <3>2. \A i \in 1 .. Len(content) : content[i] \in [kind : STRING, point : RallyPoint]
      <4> DEFINE PointLine == [kind : STRING, point : RallyPoint]
      <4>1. \A f \in Seq(PointLine) : \A i \in 1 .. Len(f) : f[i] \in PointLine
        <5> HIDE DEF PointLine
        <5> QED OBVIOUS
      <4> QED BY <3>1, <4>1, Zenon
    <3>3. Len(content) \in Nat /\ DOMAIN content = 1 .. Len(content)
      BY <3>1
    <3> QED BY <3>2, <3>3
  <2>3. rally_points' \in Rallies
    BY <1>0, <2>1, <2>2, RallyLoaded
  <2> QED BY <2>3 DEF RallyNext
<1>6. CASE RallyReload
  <2> DEFINE content == save_rally(rally_points)
  <2>1. rally_points' = load_rally(content).points
    BY <1>6 DEF RallyReload
  <2>2. DOMAIN content = 1 .. Len(rally_points)
        /\ \A i \in 1 .. Len(rally_points) : content[i].point \in RallyPoint
    BY <1>0, Saved DEF save_rally
  <2> HIDE DEF content
  <2>3. rally_points' \in Rallies
    BY <1>0, <2>1, <2>2, RallyLoaded
  <2> QED BY <2>3 DEF RallyNext
<1> QED BY <1>1, <1>2, <1>3, <1>4, <1>5, <1>6 DEF RallyNext

LEMMA FenceStep ==
  ASSUME PointsAssumption, PointsInv, FenceNext
  PROVE  PointsInv'
<1>0. points \in Seq(FencePoint) /\ Len(points) \in Nat /\ rally_points' = rally_points
      /\ stale \in BOOLEAN /\ rally_points \in Rallies /\ (stale \/ points \in Fences)
  BY DEF PointsInv, FenceNext, Fences
<1> SUFFICES points' \in Seq(FencePoint) /\ stale' \in BOOLEAN /\ (stale' \/ Numbered(points'))
  BY <1>0 DEF PointsInv
<1>1. CASE FenceAdd
  <2>1. PICK at \in Places : points' = AddPoint(points, at) /\ stale' = FALSE
    BY <1>1 DEF FenceAdd
  <2>2. points' \in Fences
    BY <1>0, <2>1, PointAdded DEF FencePlaces
  <2> QED BY <2>1, <2>2 DEF Fences
<1>2. CASE FenceMove
  <2>1. PICK i \in -1 .. Len(points), at \in Places :
          points' = MovedFence(points, i, at).points /\ stale' = stale
    BY <1>2 DEF FenceMove
  <2>2. i \in Int /\ at \in FencePlaces
    BY <1>0 DEF FencePlaces
  <2>3. points' \in Seq(FencePoint)
    BY <1>0, <2>1, <2>2, MovedSound DEF Results
  <2>4. stale \/ points' \in Fences
    BY <1>0, <2>1, <2>2, MovedNumbered
  <2> QED BY <1>0, <2>1, <2>3, <2>4 DEF Fences
<1>3. CASE FenceRemove
  <2>1. PICK i \in -1 .. Len(points) :
          /\ points' = RemovedFence(points, i).points
          /\ stale' = (stale \/ Len(RemovedFence(points, i).points) < Len(points))
    BY <1>3 DEF FenceRemove
  <2>2. i \in Int
    BY <1>0
  <2>3. /\ points' \in Seq(FencePoint)
        /\ points' = points \/ Len(points') < Len(points)
    BY <1>0, <2>1, <2>2, RemovedSound DEF Results
  <2> QED BY <1>0, <2>1, <2>3 DEF Fences
<1>4. CASE FenceLoad
  <2>1. PICK content \in FenceFiles : points' = load_fence(content).points /\ stale' = FALSE
    BY <1>4 DEF FenceLoad
  <2>2. Len(content) \in Nat /\ DOMAIN content = 1 .. Len(content)
    BY DEF PointsAssumption
  <2>3. \A i \in 1 .. Len(content) : content[i].point.at \in FencePlaces
    BY <2>2 DEF FencePlaces
  <2>4. points' \in Fences
    BY <2>1, <2>2, <2>3, FenceLoaded
  <2> QED BY <2>1, <2>4 DEF Fences
<1>5. CASE FenceReload
  <2> DEFINE content == save_fence(points)
  <2>1. points' = load_fence(content).points /\ stale' = FALSE
    BY <1>5 DEF FenceReload
  <2>2. DOMAIN content = 1 .. Len(points) /\ \A i \in 1 .. Len(points) : content[i].point = points[i]
    BY <1>0, Saved DEF save_fence
  <2>3. \A i \in 1 .. Len(points) : points[i] \in FencePoint
    BY <1>0
  <2>4. \A i \in 1 .. Len(points) : content[i].point.at \in FencePlaces
    BY <2>2, <2>3 DEF FencePoint
  <2> HIDE DEF content
  <2>5. points' \in Fences
    BY <1>0, <2>1, <2>2, <2>4, FenceLoaded
  <2> QED BY <2>1, <2>5 DEF Fences
<1>6. CASE FenceClear
  BY <1>6, NoPoints DEF FenceClear
<1> QED BY <1>1, <1>2, <1>3, <1>4, <1>5, <1>6 DEF FenceNext

\* Points keep their numbers, there are never more rally points than the vehicle
\* takes, and a closed fence stays closed under every move and removal, whatever
\* the files, the positions and the numbers that calls are given
\* (MAVRallyLoader, MAVFenceLoader).
THEOREM PointsSoundAlways == ASSUME PointsAssumption PROVE PointsSpec => PointsSound
<1> DEFINE Good == /\ Numbered(rally_points') /\ Len(rally_points') <= MaxRally
                   /\ stale' \/ Numbered(points')
                   /\ Closed(points) =>
                         /\ \A i \in 0 .. Len(points) - 1, at \in Places :
                              Closed(MovedFence(points, i, at).points)
                         /\ \A i \in 1 .. Len(points) - 1 : Len(points) > 3
                              => Closed(RemovedFence(points, i).points)
<1>1. PointsInit => PointsInv
  <2>1. <<>> \in Rallies
    BY NoPoints DEF Rallies, PointsAssumption
  <2> QED BY <2>1, NoPoints DEF PointsInit, PointsInv
<1>2. PointsInv /\ [RallyNext \/ FenceNext]_pointvars => PointsInv'
  <2>1. PointsInv /\ UNCHANGED pointvars => PointsInv'
    BY DEF PointsInv, pointvars
  <2> QED BY <2>1, RallyStep, FenceStep
<1>3. PointsInv /\ PointsInv' => Good
  <2> SUFFICES ASSUME PointsInv, PointsInv' PROVE Good
    OBVIOUS
  <2>1. Numbered(rally_points') /\ Len(rally_points') <= MaxRally /\ (stale' \/ Numbered(points'))
    BY DEF PointsInv, Rallies
  <2>2. points \in Seq(FencePoint) /\ Places \subseteq FencePlaces
    BY DEF PointsInv, FencePlaces
  <2> QED BY <2>1, <2>2, MovedClosed, RemovedClosed
<1> HIDE DEF Good
<1>4. PointsInv /\ PointsInv' => [Good]_pointvars
  BY <1>3
<1>5. PointsSpec => [][Good]_pointvars
  BY <1>1, <1>2, <1>4, PTL DEF PointsSpec
<1> QED BY <1>5 DEF PointsSound, Good

-----------------------------------------------------------------------------
(* Mission items: each knows its own place. *)

LEMMA LinesFold ==
  ASSUME NEW version, NEW lines, NEW n \in Nat, DOMAIN lines = 1 .. n, NEW V,
         [points |-> <<>>, comment |-> NoText, raised |-> FALSE] \in V,
         \A r \in V, i \in 1 .. n : ReadLine(version, r, lines[i]) \in V
  PROVE  _read_waypoints(version, lines) \in V
<1> DEFINE base == [points |-> <<>>, comment |-> NoText, raised |-> FALSE]
           G == [x \in V \X (1 .. n) |-> ReadLine(version, x[1], lines[x[2]])]
           Is(h) == h = [s \in SUBSET (1 .. n) |-> IF s = {} THEN base
                                ELSE ReadLine(version, h[s \ {Max(s)}], lines[Max(s)])]
           g == CHOOSE h : Is(h)
<1>1. \E h : Is(h)
  <2>1. G \in [V \X (1 .. n) -> V]
    OBVIOUS
  <2>2. PICK h : Folds(h, n, V, base, G)
    <3>1. base \in V
      OBVIOUS
    <3> HIDE DEF G, base, Is, g
    <3> QED BY <2>1, <3>1, FoldExists
  <2>3. ASSUME NEW s \in SUBSET (1 .. n), s # {}
        PROVE  h[s] = ReadLine(version, h[s \ {Max(s)}], lines[Max(s)])
    <3>1. Max(s) \in 1 .. n /\ h[s \ {Max(s)}] \in V
      BY <2>2, <2>3, MaxIn DEF Folds
    <3> QED BY <2>2, <2>3, <3>1 DEF Folds
  <2>4. Is(h)
    BY <2>2, <2>3 DEF Folds
  <2> HIDE DEF Is
  <2> QED BY <2>4
<1>2. Is(g)
  <2> HIDE DEF Is
  <2> QED BY <1>1
<1>3. _read_waypoints(version, lines) = g[1 .. n]
  BY DEF _read_waypoints, FoldLeft, MapThenFoldSet
<1> HIDE DEF g
<1>4. ASSUME NEW s \in SUBSET (1 .. n), s # {}, g[s \ {Max(s)}] \in V PROVE g[s] \in V
  <2>1. Max(s) \in 1 .. n
    BY <1>4, MaxIn
  <2>2. g[s] = ReadLine(version, g[s \ {Max(s)}], lines[Max(s)])
    BY <1>2, <1>4
  <2> QED BY <1>4, <2>1, <2>2
<1>5. \A s \in SUBSET (1 .. n) : s = {} => g[s] \in V
  BY <1>2
<1>6. g[1 .. n] \in V
  <2> HIDE DEF Is
  <2> QED BY <1>4, <1>5, FoldIn
<1> QED BY <1>3, <1>6

LEMMA PointsFold ==
  ASSUME NEW content, NEW n \in Nat, DOMAIN content.lines = 1 .. n, NEW V,
         <<>> \in V,
         \A r \in V, i \in 1 .. n : AddLine(r, content.lines[i]) \in V
  PROVE  PointsOf(content) \in V
<1> DEFINE base == <<>>
           G == [x \in V \X (1 .. n) |-> AddLine(x[1], content.lines[x[2]])]
           Is(h) == h = [s \in SUBSET (1 .. n) |-> IF s = {} THEN base
                                ELSE AddLine(h[s \ {Max(s)}], content.lines[Max(s)])]
           g == CHOOSE h : Is(h)
<1>1. \E h : Is(h)
  <2>1. G \in [V \X (1 .. n) -> V]
    OBVIOUS
  <2>2. PICK h : Folds(h, n, V, base, G)
    <3>1. base \in V
      OBVIOUS
    <3> HIDE DEF G, base, Is, g
    <3> QED BY <2>1, <3>1, FoldExists
  <2>3. ASSUME NEW s \in SUBSET (1 .. n), s # {}
        PROVE  h[s] = AddLine(h[s \ {Max(s)}], content.lines[Max(s)])
    <3>1. Max(s) \in 1 .. n /\ h[s \ {Max(s)}] \in V
      BY <2>2, <2>3, MaxIn DEF Folds
    <3> QED BY <2>2, <2>3, <3>1 DEF Folds
  <2>4. Is(h)
    BY <2>2, <2>3 DEF Folds
  <2> HIDE DEF Is
  <2> QED BY <2>4
<1>2. Is(g)
  <2> HIDE DEF Is
  <2> QED BY <1>1
<1>3. PointsOf(content) = g[1 .. n]
  BY DEF PointsOf, FoldLeft, MapThenFoldSet
<1> HIDE DEF g
<1>4. ASSUME NEW s \in SUBSET (1 .. n), s # {}, g[s \ {Max(s)}] \in V PROVE g[s] \in V
  <2>1. Max(s) \in 1 .. n
    BY <1>4, MaxIn
  <2>2. g[s] = AddLine(g[s \ {Max(s)}], content.lines[Max(s)])
    BY <1>2, <1>4
  <2> QED BY <1>4, <2>1, <2>2
<1>5. \A s \in SUBSET (1 .. n) : s = {} => g[s] \in V
  BY <1>2
<1>6. g[1 .. n] \in V
  <2> HIDE DEF Is
  <2> QED BY <1>4, <1>5, FoldIn
<1> QED BY <1>3, <1>6

\* An item of a list: what is given and loaded, with the comments a file may hold.
\* (the provers do not know that a literal is a string)
Comments == STRING \union {NoText} \union {Ended(text) : text \in STRING}
Commands == STRING \union {"FENCE_VERTEX", "FENCE_RETURN_POINT", "RALLY_POINT", "NAV_TAKEOFF",
                           "NAV_RETURN_TO_LAUNCH", "NAV_LAND", "NAV_WAYPOINT", "NAV_LOITER_UNLIM"}
KnownItem ==
    {w \in [seq : Int, x : Int, command : Commands, param1 : Nat, located : BOOLEAN, z : Int,
            int : BOOLEAN, current : BOOLEAN, autocontinue : BOOLEAN, comment : Comments] :
        w.command = "DO_JUMP" => ~w.located}
InPlace(ps) == \A i \in DOMAIN ps : ps[i].seq = i - 1
Indexed == {ps \in Seq(KnownItem) : InPlace(ps)}

LEMMA NoComment == NoText \in Comments
BY DEF Comments

LEMMA ItemKnown == Item \subseteq KnownItem
BY DEF Item, KnownItem, Comments, Commands

LEMMA PutInPlace ==
  ASSUME NEW w \in KnownItem, NEW i \in Int
  PROVE  [w EXCEPT !.seq = i] \in KnownItem /\ [w EXCEPT !.seq = i].seq = i
BY DEF KnownItem

\* Any sequence whose items are put in place is indexed.
LEMMA Placed ==
  ASSUME NEW n \in Nat, NEW ps, ps = [i \in 1 .. n |-> ps[i]],
         \A i \in 1 .. n : ps[i] \in KnownItem
  PROVE  /\ ps \in Seq(KnownItem) /\ Len(ps) = n
         /\ (\A i \in 1 .. n : ps[i].seq = i - 1) => InPlace(ps)
<1>1. ps \in [1 .. n -> KnownItem]
  OBVIOUS
<1>2. ps \in Seq(KnownItem) /\ Len(ps) = n /\ DOMAIN ps = 1 .. n
  BY <1>1
<1> QED BY <1>2 DEF InPlace

LEMMA Reindexed ==
  ASSUME NEW ps \in Seq(KnownItem)
  PROVE  reindex(ps) \in Indexed
<1> DEFINE n == Len(ps)
           q == reindex(ps)
<1>1. n \in Nat /\ \A i \in 1 .. n : ps[i] \in KnownItem
  OBVIOUS
<1>2. q = [i \in 1 .. n |-> [ps[i] EXCEPT !.seq = i - 1]]
  BY DEF reindex
<1>3. ASSUME NEW i \in 1 .. n PROVE q[i] \in KnownItem /\ q[i].seq = i - 1
  <2>1. q[i] = [ps[i] EXCEPT !.seq = i - 1] /\ i - 1 \in Int /\ ps[i] \in KnownItem
    BY <1>1, <1>2
  <2> HIDE DEF n, q
  <2> QED BY <2>1, PutInPlace
<1>4. q = [i \in 1 .. n |-> q[i]]
  BY <1>2
<1> HIDE DEF n, q
<1>5. q \in Seq(KnownItem) /\ InPlace(q)
  BY <1>1, <1>3, <1>4, Placed
<1> QED BY <1>5 DEF Indexed, q

LEMMA ItemAdded ==
  ASSUME NEW ps \in Seq(KnownItem), NEW w \in KnownItem
  PROVE  /\ add(ps, w) \in Seq(KnownItem)
         /\ InPlace(ps) => InPlace(add(ps, w))
<1> DEFINE v == [w EXCEPT !.seq = Len(ps)]
<1>1. Len(ps) \in Nat /\ v \in KnownItem /\ v.seq = Len(ps)
  BY PutInPlace
<1>2. add(ps, w) = Append(ps, v)
  BY DEF add
<1> HIDE DEF v
<1>3. Append(ps, v) \in Seq(KnownItem) /\ Len(Append(ps, v)) = Len(ps) + 1
      /\ \A i \in 1 .. Len(ps) + 1 : Append(ps, v)[i] = IF i = Len(ps) + 1 THEN v ELSE ps[i]
  BY <1>1
<1>4. ASSUME InPlace(ps), NEW i \in 1 .. Len(ps) + 1 PROVE Append(ps, v)[i].seq = i - 1
  <2>1. CASE i = Len(ps) + 1
    BY <1>1, <1>3, <2>1
  <2>2. CASE i # Len(ps) + 1
    <3>1. i \in DOMAIN ps
      BY <1>1, <2>2
    <3> QED BY <1>3, <1>4, <2>2, <3>1 DEF InPlace
  <2> QED BY <2>1, <2>2
<1>5. DOMAIN Append(ps, v) = 1 .. Len(ps) + 1
  BY <1>1, <1>3
<1> QED BY <1>2, <1>3, <1>4, <1>5 DEF InPlace

LEMMA ItemsAdded ==
  ASSUME NEW ps \in Seq(KnownItem), NEW ws \in Seq(KnownItem)
  PROVE  /\ add_list(ps, ws) \in Seq(KnownItem)
         /\ InPlace(ps) => InPlace(add_list(ps, ws))
<1> DEFINE n == Len(ws)
           k == Len(ps)
           q == [i \in 1 .. n |-> [ws[i] EXCEPT !.seq = k + i - 1]]
<1>1. n \in Nat /\ k \in Nat /\ \A i \in 1 .. n : ws[i] \in KnownItem
  OBVIOUS
<1>2. add_list(ps, ws) = ps \o q
  BY DEF add_list
<1>3. ASSUME NEW i \in 1 .. n PROVE q[i] \in KnownItem /\ q[i].seq = k + i - 1
  <2>1. q[i] = [ws[i] EXCEPT !.seq = k + i - 1] /\ k + i - 1 \in Int /\ ws[i] \in KnownItem
    BY <1>1
  <2> HIDE DEF n, q, k
  <2> QED BY <2>1, PutInPlace
<1>4. q = [i \in 1 .. n |-> q[i]]
  OBVIOUS
<1>5. k = Len(ps) /\ DOMAIN ps = 1 .. k
  OBVIOUS
<1> HIDE DEF n, q, k
<1>6. q \in Seq(KnownItem) /\ Len(q) = n
  BY <1>1, <1>3, <1>4, Placed
<1>7. ps \o q \in Seq(KnownItem) /\ Len(ps \o q) = k + n
      /\ \A i \in 1 .. k + n : (ps \o q)[i] = IF i <= k THEN ps[i] ELSE q[i - k]
  BY <1>5, <1>6, ConcatProperties
<1>8. ASSUME InPlace(ps), NEW i \in 1 .. k + n PROVE (ps \o q)[i].seq = i - 1
  <2>1. CASE i <= k
    <3>1. i \in DOMAIN ps
      BY <1>1, <1>5, <2>1
    <3> QED BY <1>7, <1>8, <2>1, <3>1 DEF InPlace
  <2>2. CASE ~(i <= k)
    <3>1. i - k \in 1 .. n /\ k + (i - k) - 1 = i - 1
      BY <1>1, <2>2
    <3>2. (ps \o q)[i] = q[i - k]
      BY <1>7, <2>2
    <3> QED BY <1>3, <3>1, <3>2
  <2> QED BY <2>1, <2>2
<1>9. DOMAIN (ps \o q) = 1 .. k + n
  BY <1>1, <1>7
<1> QED BY <1>2, <1>7, <1>8, <1>9 DEF InPlace

LEMMA ItemInserted ==
  ASSUME NEW ps \in Seq(KnownItem), NEW w \in KnownItem, NEW k \in 1 .. Len(ps)
  PROVE  InsertAt(ps, k, w) \in Seq(KnownItem)
<1>1. SubSeq(ps, 1, k - 1) \in Seq(KnownItem) /\ SubSeq(ps, k, Len(ps)) \in Seq(KnownItem)
      /\ <<w>> \in Seq(KnownItem)
  OBVIOUS
<1>2. SubSeq(ps, 1, k - 1) \o <<w>> \in Seq(KnownItem)
  BY <1>1, ConcatProperties
<1>3. (SubSeq(ps, 1, k - 1) \o <<w>>) \o SubSeq(ps, k, Len(ps)) \in Seq(KnownItem)
  BY <1>1, <1>2, ConcatProperties
<1> QED BY <1>3 DEF InsertAt

LEMMA Inserted ==
  ASSUME NEW ps \in Seq(KnownItem), NEW w \in KnownItem, NEW idx \in Int
  PROVE  /\ insert(ps, idx, w) \in Seq(KnownItem)
         /\ InPlace(ps) \/ (0 <= idx /\ idx < Len(ps)) => InPlace(insert(ps, idx, w))
<1>1. CASE idx >= Len(ps)
  BY <1>1, ItemAdded DEF insert
<1>2. CASE idx < 0
  BY <1>2 DEF insert
<1>3. CASE 0 <= idx /\ idx < Len(ps)
  <2>1. InsertAt(ps, idx + 1, w) \in Seq(KnownItem)
    BY <1>3, ItemInserted
  <2> QED BY <1>3, <2>1, Reindexed DEF insert, Indexed
<1> QED BY <1>1, <1>2, <1>3


LEMMA WasSet ==
  ASSUME NEW ps \in Seq(KnownItem), NEW w \in KnownItem, NEW idx \in 0 .. Len(ps)
  PROVE  /\ set(ps, idx, w) \in Seq(KnownItem)
         /\ InPlace(ps) => InPlace(set(ps, idx, w))
<1>0. Len(ps) \in Nat /\ DOMAIN ps = 1 .. Len(ps)
  OBVIOUS
<1>1. CASE idx = Len(ps)
  BY <1>1, ItemAdded DEF set
<1>2. CASE idx < Len(ps)
  <2> DEFINE v == [w EXCEPT !.seq = idx]
             q == [ps EXCEPT ![idx + 1] = v]
  <2>1. v \in KnownItem /\ v.seq = idx
    BY PutInPlace
  <2>2. set(ps, idx, w) = q
    BY <1>2 DEF set
  <2>3. idx + 1 \in 1 .. Len(ps)
    BY <1>2
  <2> HIDE DEF v
  <2>4. q \in Seq(KnownItem) /\ DOMAIN q = 1 .. Len(ps)
    BY <2>1, <2>3
  <2>5. \A i \in 1 .. Len(ps) : q[i] = IF i = idx + 1 THEN v ELSE ps[i]
    OBVIOUS
  <2>6. InPlace(ps) => InPlace(q)
    BY <1>0, <2>1, <2>3, <2>4, <2>5 DEF InPlace
  <2> QED BY <2>2, <2>4, <2>6
<1>3. idx = Len(ps) \/ idx < Len(ps)
  <2> DEFINE n == Len(ps)
  <2>1. idx \in 0 .. n /\ n \in Nat
    BY <1>0
  <2> HIDE DEF n
  <2>2. idx = n \/ idx < n
    BY <2>1
  <2> QED BY <2>2 DEF n
<1> QED BY <1>1, <1>2, <1>3

LEMMA WasRemoved ==
  ASSUME NEW ps \in Seq(KnownItem), NEW w, Has(ps, w)
  PROVE  Removed(ps, w) \in Seq(KnownItem)
<1> DEFINE T == {i \in 1 .. Len(ps) : Same(ps[i], w)}
           First(i) == Same(ps[i], w) /\ \A j \in 1 .. i - 1 : ~Same(ps[j], w)
           k == CHOOSE i \in DOMAIN ps : First(i)
<1>0. Len(ps) \in Nat /\ DOMAIN ps = 1 .. Len(ps)
  OBVIOUS
<1>1. T \in SUBSET Nat /\ T # {}
  BY <1>0 DEF Has
<1>2. PICK i \in T : \A m \in T : i <= m
  BY <1>1, Least
<1>3. ASSUME NEW j \in 1 .. i - 1 PROVE ~Same(ps[j], w)
  <2>1. j \in 1 .. Len(ps) /\ ~(i <= j)
    BY <1>0
  <2> QED BY <1>2, <2>1
<1>4. i \in DOMAIN ps /\ First(i)
  BY <1>0, <1>3
<1>5. k \in DOMAIN ps
  <2> HIDE DEF First
  <2> QED BY <1>4
<1>6. Removed(ps, w) = RemoveAt(ps, k)
  BY DEF Removed
<1> HIDE DEF k
<1> QED BY <1>0, <1>5, <1>6, RemovedAt

-----------------------------------------------------------------------------
(* What load makes of the files: indexed lists, or the list as it was. *)

FilesKnown == \A content \in MissionFiles :
    /\ Len(content.lines) \in Nat /\ DOMAIN content.lines = 1 .. Len(content.lines)
    /\ \A i \in DOMAIN content.lines :
         /\ content.lines[i].text \in STRING
         /\ content.lines[i].kind = "item" \/ content.version = WplPb110
              => content.lines[i].item \in KnownItem
    /\ content.defaults \in [current : BOOLEAN, autocontinue : BOOLEAN, param1 : Nat]

ItemRecord ==
    [seq : Int, x : Int, command : Commands, param1 : Nat, located : BOOLEAN, z : Int,
     int : BOOLEAN, current : BOOLEAN, autocontinue : BOOLEAN, comment : Comments]

\* The fields the code writes, one at a time.
WithCommand(w, c) == [w EXCEPT !.command = c]
WithParam(w, c) == [w EXCEPT !.param1 = c]
WithZ(w, c) == [w EXCEPT !.z = c]
WithInt(w, c) == [w EXCEPT !.int = c]
WithCurrent(w, c) == [w EXCEPT !.current = c]
WithAuto(w, c) == [w EXCEPT !.autocontinue = c]
WithComment(w, c) == [w EXCEPT !.comment = c]
Like(w, v) == v \in ItemRecord /\ v.command = w.command /\ v.located = w.located

\* fence and rally points of the old files, as items
AsFence(w, command, param1) == [w EXCEPT !.command = command, !.param1 = param1, !.z = 0, !.int = TRUE]
AsRally(w) == [w EXCEPT !.command = "RALLY_POINT", !.z = 1000 * @, !.int = TRUE]

LEMMA EmptyIndexed == <<>> \in Indexed /\ <<>> \in Seq(KnownItem) /\ InPlace(<<>>)
BY DEF Indexed, InPlace

\* A record of an item keeps the other fields when one is written.
LEMMA Written ==
  ASSUME NEW w \in ItemRecord
  PROVE  /\ \A c \in Commands : WithCommand(w, c) \in ItemRecord /\ WithCommand(w, c).command = c
         /\ \A c \in Nat : Like(w, WithParam(w, c))
         /\ \A c \in Int : Like(w, WithZ(w, c))
         /\ \A c \in BOOLEAN : Like(w, WithInt(w, c))
         /\ \A c \in BOOLEAN : Like(w, WithCurrent(w, c))
         /\ \A c \in BOOLEAN : Like(w, WithAuto(w, c))
         /\ \A c \in Comments : Like(w, WithComment(w, c))
<1>1. \A c \in Commands : WithCommand(w, c) \in ItemRecord /\ WithCommand(w, c).command = c
  BY DEF ItemRecord, WithCommand
<1>2. \A c \in Nat : Like(w, WithParam(w, c))
  BY DEF ItemRecord, WithParam, Like
<1>3. \A c \in Int : Like(w, WithZ(w, c))
  BY DEF ItemRecord, WithZ, Like
<1>4. \A c \in BOOLEAN : Like(w, WithInt(w, c))
  BY DEF ItemRecord, WithInt, Like
<1>5. \A c \in BOOLEAN : Like(w, WithCurrent(w, c))
  BY DEF ItemRecord, WithCurrent, Like
<1>6. \A c \in BOOLEAN : Like(w, WithAuto(w, c))
  BY DEF ItemRecord, WithAuto, Like
<1>7. \A c \in Comments : Like(w, WithComment(w, c))
  BY DEF ItemRecord, WithComment, Like
<1> QED BY <1>1, <1>2, <1>3, <1>4, <1>5, <1>6, <1>7

LEMMA Known ==
  ASSUME NEW w
  PROVE  w \in KnownItem <=> w \in ItemRecord /\ (w.command = "DO_JUMP" => ~w.located)
BY DEF KnownItem, ItemRecord

LEMMA LikeKnown ==
  ASSUME NEW w \in KnownItem, NEW v, Like(w, v)
  PROVE  v \in KnownItem
BY Known DEF Like

\* An item made a command that is no jump is an item.
LEMMA Commanded ==
  ASSUME NEW w \in KnownItem, NEW command \in Commands, command # "DO_JUMP"
  PROVE  WithCommand(w, command) \in KnownItem
<1>1. WithCommand(w, command) \in ItemRecord /\ WithCommand(w, command).command = command
  BY Known, Written
<1> QED BY <1>1, Known

LEMMA Rewritten ==
  ASSUME NEW w \in KnownItem, NEW command \in Commands, command # "DO_JUMP", NEW param1 \in Nat
  PROVE  AsFence(w, command, param1) \in KnownItem
<1> DEFINE v1 == WithCommand(w, command)
           v2 == WithParam(v1, param1)
           v3 == WithZ(v2, 0)
           v4 == WithInt(v3, TRUE)
<1>1. AsFence(w, command, param1) = v4
  BY DEF AsFence, WithCommand, WithParam, WithZ, WithInt
<1>2. v1 \in KnownItem /\ v1 \in ItemRecord
  BY Commanded, Known
<1> HIDE DEF v1
<1>3. v2 \in KnownItem /\ v2 \in ItemRecord
  BY <1>2, Written, LikeKnown, Known
<1> HIDE DEF v2
<1>4. v3 \in KnownItem /\ v3 \in ItemRecord
  BY <1>3, Written, LikeKnown, Known
<1> HIDE DEF v3
<1>5. v4 \in KnownItem
  BY <1>4, Written, LikeKnown
<1> QED BY <1>1, <1>5

LEMMA RallyRewritten ==
  ASSUME NEW w \in KnownItem
  PROVE  AsRally(w) \in KnownItem
<1> DEFINE v1 == WithCommand(w, "RALLY_POINT")
           v2 == WithZ(v1, 1000 * w.z)
           v3 == WithInt(v2, TRUE)
<1>a. "RALLY_POINT" \in Commands /\ "RALLY_POINT" # "DO_JUMP"
  BY DEF Commands
<1>0. w \in ItemRecord /\ w.z \in Int /\ 1000 * w.z \in Int
  BY Known DEF ItemRecord
<1>1. AsRally(w) = v3
  BY <1>0 DEF AsRally, WithCommand, WithZ, WithInt, ItemRecord
<1>2. v1 \in KnownItem /\ v1 \in ItemRecord
  BY <1>a, Commanded, Known
<1> HIDE DEF v1
<1>3. v2 \in KnownItem /\ v2 \in ItemRecord
  BY <1>0, <1>2, Written, LikeKnown, Known
<1> HIDE DEF v2
<1>4. v3 \in KnownItem
  BY <1>3, Written, LikeKnown
<1> QED BY <1>1, <1>4

LEMMA PbRewritten ==
  ASSUME NEW w \in KnownItem, NEW seq \in Int,
         NEW defaults \in [current : BOOLEAN, autocontinue : BOOLEAN, param1 : Nat]
  PROVE  PbItem(seq, w, defaults) \in KnownItem
<1> DEFINE current == w.current \/ (seq = 0 \/ defaults.current)
           autocontinue == w.autocontinue \/ defaults.autocontinue
           param1 == IF w.param1 # 0 THEN w.param1 ELSE defaults.param1
           v1 == WithCurrent(w, current)
           v2 == WithAuto(v1, autocontinue)
           v3 == WithParam(v2, param1)
           v4 == WithComment(v3, NoText)
           v5 == WithInt(v4, FALSE)
<1>0. w \in ItemRecord
  BY Known
<1>1. param1 \in Nat /\ NoText \in Comments
  BY <1>0, NoComment DEF ItemRecord
<1>2. current \in BOOLEAN /\ autocontinue \in BOOLEAN
  OBVIOUS
<1>3. PbItem(seq, w, defaults) = v5
  BY DEF PbItem, WithCurrent, WithAuto, WithParam, WithComment, WithInt
<1> HIDE DEF current, autocontinue, param1
<1>4. v1 \in KnownItem /\ v1 \in ItemRecord
  BY <1>0, <1>2, Written, LikeKnown, Known
<1> HIDE DEF v1
<1>5. v2 \in KnownItem /\ v2 \in ItemRecord
  BY <1>2, <1>4, Written, LikeKnown, Known
<1> HIDE DEF v2
<1>6. v3 \in KnownItem /\ v3 \in ItemRecord
  BY <1>1, <1>5, Written, LikeKnown, Known
<1> HIDE DEF v3
<1>7. v4 \in KnownItem /\ v4 \in ItemRecord
  BY <1>1, <1>6, Written, LikeKnown, Known
<1> HIDE DEF v4
<1>8. v5 \in KnownItem
  BY <1>7, Written, LikeKnown
<1> QED BY <1>3, <1>8

LEMMA ItemConverted ==
  ASSUME NEW w \in KnownItem, NEW ps
  PROVE  /\ Item110(ps, w) \in KnownItem
         /\ w.command \in DOMAIN CmdMap => Item100(ps, w) \in KnownItem
<1>1. Item110(ps, w) \in KnownItem
  <2>0. "NAV_WAYPOINT" \in Commands /\ "NAV_WAYPOINT" # "DO_JUMP"
    BY DEF Commands
  <2>1. WithCommand(w, "NAV_WAYPOINT") \in KnownItem
    BY <2>0, Commanded
  <2> QED BY <2>1 DEF Item110, WithCommand
<1>2. ASSUME w.command \in DOMAIN CmdMap PROVE Item100(ps, w) \in KnownItem
  <2>0. CmdMap[w.command] \in {"NAV_TAKEOFF", "NAV_RETURN_TO_LAUNCH", "NAV_LAND", "NAV_WAYPOINT",
                               "NAV_LOITER_UNLIM"}
    BY <1>2, Zenon DEF CmdMap
  <2>1. CmdMap[w.command] \in Commands /\ CmdMap[w.command] # "DO_JUMP"
    BY <2>0 DEF Commands
  <2>2. WithCommand(w, CmdMap[w.command]) \in KnownItem
    BY <2>1, Commanded
  <2> QED BY <2>2 DEF Item100, WithCommand
<1> QED BY <1>1, <1>2

LEMMA LineRead ==
  ASSUME NEW version, NEW line, line.text \in STRING, line.kind = "item" => line.item \in KnownItem,
         NEW r \in [points : Indexed, comment : Comments, raised : BOOLEAN]
  PROVE  ReadLine(version, r, line) \in [points : Indexed, comment : Comments, raised : BOOLEAN]
<1> DEFINE V == [points : Indexed, comment : Comments, raised : BOOLEAN]
<1>0. r.raised \in BOOLEAN
  OBVIOUS
<1>1. CASE r.raised \/ line.kind = "blank"
  <2>1. ReadLine(version, r, line) = r
    BY <1>0, <1>1, Zenon DEF ReadLine, Readable
  <2> QED BY <2>1
<1>2. CASE ~r.raised /\ line.kind = "comment"
  <2>1. Ended(line.text) \in Comments
    BY DEF Comments
  <2>2. ReadLine(version, r, line) = [r EXCEPT !.comment = Ended(line.text)]
    BY <1>0, <1>2, Zenon DEF ReadLine, Readable
  <2> QED BY <2>1, <2>2
<1>3. CASE ~r.raised /\ line.kind \notin {"blank", "comment"} /\ Readable(version, line)
  <2> DEFINE v == IF version = Wpl100 THEN Item100(r.points, line.item)
                  ELSE Item110(r.points, line.item)
             w == [v EXCEPT !.comment = r.comment, !.int = FALSE]
  <2>1. v \in KnownItem
    BY <1>3, ItemConverted DEF Readable
  <2>2. w \in KnownItem
    <3> HIDE DEF v
    <3> QED BY <2>1 DEF KnownItem
  <2>3. ReadLine(version, r, line) = [points |-> add(r.points, w), comment |-> NoText, raised |-> FALSE]
    BY <1>3 DEF ReadLine
  <2> HIDE DEF w
  <2>4. add(r.points, w) \in Indexed /\ NoText \in Comments
    <3>1. r.points \in Seq(KnownItem) /\ InPlace(r.points)
      BY DEF Indexed
    <3>2. add(r.points, w) \in Seq(KnownItem) /\ InPlace(add(r.points, w))
      BY <2>2, <3>1, ItemAdded
    <3> QED BY <3>2, NoComment DEF Indexed
  <2> QED BY <2>3, <2>4
<1>4. CASE ~r.raised /\ line.kind \notin {"blank", "comment"} /\ ~Readable(version, line)
  <2>1. ReadLine(version, r, line) = [r EXCEPT !.raised = TRUE]
    BY <1>4 DEF ReadLine
  <2> QED BY <2>1
<1> QED BY <1>1, <1>2, <1>3, <1>4

LEMMA TextRead ==
  ASSUME FilesKnown, NEW content \in MissionFiles
  PROVE  _read_waypoints(content.version, content.lines).points \in Indexed
<1> DEFINE V == [points : Indexed, comment : Comments, raised : BOOLEAN]
           n == Len(content.lines)
<1>1. n \in Nat /\ DOMAIN content.lines = 1 .. n
      /\ \A i \in 1 .. n : /\ content.lines[i].text \in STRING
                           /\ content.lines[i].kind = "item" => content.lines[i].item \in KnownItem
  BY DEF FilesKnown
<1>2. [points |-> <<>>, comment |-> NoText, raised |-> FALSE] \in V
  <2> QED BY NoComment, EmptyIndexed
<1>3. ASSUME NEW r \in V, NEW i \in 1 .. n PROVE ReadLine(content.version, r, content.lines[i]) \in V
  BY <1>1, LineRead
<1>4. _read_waypoints(content.version, content.lines) \in V
  <2> HIDE DEF V, n
  <2> QED BY <1>1, <1>2, <1>3, LinesFold
<1> QED BY <1>4

LEMMA PbRead ==
  ASSUME FilesKnown, NEW content \in MissionFiles, content.version = WplPb110
  PROVE  _read_waypoints_pb_110(content).points \in Indexed
<1>0. PICK n \in Nat : n = Len(content.lines)
  BY DEF FilesKnown
<1> DEFINE item(i) == PbItem(i - 1, content.lines[i].item, content.defaults)
           q == [i \in DOMAIN content.lines |-> [item(i) EXCEPT !.seq = i - 1]]
<1>1. n \in Nat /\ DOMAIN content.lines = 1 .. n /\ \A i \in 1 .. n : content.lines[i].item \in KnownItem
      /\ content.defaults \in [current : BOOLEAN, autocontinue : BOOLEAN, param1 : Nat]
  BY <1>0 DEF FilesKnown
<1>2. CASE ~HaveProtobuf \/ ~content.parses
  BY <1>2, EmptyIndexed DEF _read_waypoints_pb_110
<1>3. CASE ~(~HaveProtobuf \/ ~content.parses)
  <2>1. _read_waypoints_pb_110(content).points = q
    BY <1>3 DEF _read_waypoints_pb_110
  <2>2. ASSUME NEW i \in 1 .. n PROVE item(i) \in KnownItem
    <3>1. content.lines[i].item \in KnownItem /\ i - 1 \in Int
      BY <1>1
    <3> QED BY <1>1, <3>1, PbRewritten
  <2>3. ASSUME NEW i \in 1 .. n PROVE q[i] \in KnownItem /\ q[i].seq = i - 1
    <3>0. item(i) \in KnownItem /\ i - 1 \in Int /\ i \in DOMAIN content.lines
      BY <1>1, <2>2
    <3> HIDE DEF item
    <3>1. q[i] = [item(i) EXCEPT !.seq = i - 1] /\ i - 1 \in Int /\ item(i) \in KnownItem
      BY <3>0
    <3> HIDE DEF q
    <3> QED BY <3>1, PutInPlace
  <2>4. q = [i \in 1 .. n |-> q[i]]
    BY <1>1
  <2> HIDE DEF q
  <2> QED BY <1>1, <2>1, <2>3, <2>4, Placed DEF Indexed
<1> QED BY <1>2, <1>3

LEMMA OldPoints ==
  ASSUME FilesKnown, NEW content \in MissionFiles
  PROVE  PointsOf(content) \in Seq({l \in {content.lines[i] : i \in DOMAIN content.lines} : l.item \in KnownItem})
<1> DEFINE S == {l \in {content.lines[i] : i \in DOMAIN content.lines} : l.item \in KnownItem}
           n == Len(content.lines)
<1>1. n \in Nat /\ DOMAIN content.lines = 1 .. n
      /\ \A i \in 1 .. n : content.lines[i].kind = "item" => content.lines[i] \in S
  BY DEF FilesKnown
<1>2. ASSUME NEW r \in Seq(S), NEW i \in 1 .. n PROVE AddLine(r, content.lines[i]) \in Seq(S)
  <2> HIDE DEF S, n
  <2> QED BY <1>1 DEF AddLine
<1>3. <<>> \in Seq(S)
  OBVIOUS
<1> HIDE DEF S, n
<1>4. PointsOf(content) \in Seq(S)
  BY <1>1, <1>2, <1>3, PointsFold
<1> QED BY <1>4 DEF S

LEMMA OldItems ==
  ASSUME NEW S, \A l \in S : l.item \in KnownItem, NEW ls \in Seq(S)
  PROVE  /\ RallyItems(ls) \in Seq(KnownItem)
         /\ Len(ls) >= 5 => FenceItems(ls) \in Seq(KnownItem)
<1> DEFINE n == Len(ls)
<1>1. n \in Nat /\ DOMAIN ls = 1 .. n /\ \A i \in 1 .. n : ls[i].item \in KnownItem
  OBVIOUS
<1>2. RallyItems(ls) \in Seq(KnownItem)
  <2> DEFINE q == RallyItems(ls)
  <2>1. q = [i \in 1 .. n |-> AsRally(ls[i].item)]
    BY <1>1 DEF RallyItems, AsRally
  <2>2. ASSUME NEW i \in 1 .. n PROVE q[i] \in KnownItem
    <3>2. ls[i].item \in KnownItem
      BY <1>1
    <3>3. AsRally(ls[i].item) \in KnownItem
      BY <3>2, RallyRewritten
    <3> HIDE DEF q, n
    <3> QED BY <2>1, <3>3
  <2>3. q = [i \in 1 .. n |-> q[i]]
    BY <2>1
  <2> HIDE DEF q, n
  <2>4. q \in Seq(KnownItem)
    BY <1>1, <2>2, <2>3, Placed
  <2> QED BY <2>4 DEF q
<1>3. ASSUME n >= 5 PROVE FenceItems(ls) \in Seq(KnownItem)
  <2> DEFINE q == Vertices(ls)
             home == AsFence(ls[1].item, "FENCE_RETURN_POINT", 0)
  <2>1. q = [i \in 1 .. n - 2 |-> AsFence(ls[i + 1].item, "FENCE_VERTEX", n - 2)]
    BY DEF Vertices, AsFence
  <2>2. ASSUME NEW i \in 1 .. n - 2 PROVE q[i] \in KnownItem
    <3>2. ls[i + 1].item \in KnownItem /\ n - 2 \in Nat
      BY <1>1, <1>3
    <3> HIDE DEF q, n
    <3>3. "FENCE_VERTEX" \in Commands /\ "FENCE_VERTEX" # "DO_JUMP"
      BY DEF Commands
    <3>4. AsFence(ls[i + 1].item, "FENCE_VERTEX", n - 2) \in KnownItem
      BY <3>2, <3>3, Rewritten
    <3> QED BY <2>1, <3>4
  <2>3. q = [i \in 1 .. n - 2 |-> q[i]] /\ n - 2 \in Nat
    <3>1. n - 2 \in Nat
      BY <1>1, <1>3
    <3> HIDE DEF q, n
    <3> QED BY <2>1, <3>1
  <2>4. home \in KnownItem
    <3>1. ls[1].item \in KnownItem
      BY <1>1, <1>3
    <3>2. "FENCE_RETURN_POINT" \in Commands /\ "FENCE_RETURN_POINT" # "DO_JUMP" /\ 0 \in Nat
      BY DEF Commands
    <3> QED BY <3>1, <3>2, Rewritten
  <2>5. FenceItems(ls) = <<home>> \o q
    BY DEF FenceItems, AsFence
  <2> HIDE DEF q, n, home
  <2>6. q \in Seq(KnownItem) /\ <<home>> \in Seq(KnownItem)
    BY <2>2, <2>3, <2>4, Placed
  <2> QED BY <2>5, <2>6, ConcatProperties
<1> QED BY <1>2, <1>3

LEMMA WasLoaded ==
  ASSUME FilesKnown, NEW content \in MissionFiles, NEW ps
  PROVE  \/ load_items(ps, content).points \in Indexed
         \/ load_items(ps, content).points = ps /\ ~load_items(ps, content).cleared
<1>1. CASE OldFence(content) \/ OldRally(content)
  <2>1. load_items(ps, content) = load_old(ps, content)
    BY <1>1 DEF load_items
  <2> DEFINE S == {l \in {content.lines[i] : i \in DOMAIN content.lines} : l.item \in KnownItem}
  <2>2. PointsOf(content) \in Seq(S) /\ \A l \in S : l.item \in KnownItem
    BY OldPoints
  <2> HIDE DEF S
  <2>3. /\ RallyItems(PointsOf(content)) \in Seq(KnownItem)
        /\ Len(PointsOf(content)) >= 5 => FenceItems(PointsOf(content)) \in Seq(KnownItem)
    BY <2>2, OldItems
  <2>4. <<>> \in Seq(KnownItem) /\ InPlace(<<>>) /\ Len(PointsOf(content)) \in Nat
    BY <2>2, EmptyIndexed
  <2>5. /\ add_list(<<>>, RallyItems(PointsOf(content))) \in Indexed
        /\ Len(PointsOf(content)) >= 5 => add_list(<<>>, FenceItems(PointsOf(content))) \in Indexed
    BY <2>3, <2>4, ItemsAdded DEF Indexed
  <2> QED BY <2>1, <2>4, <2>5 DEF load_old
<1>2. CASE ~(OldFence(content) \/ OldRally(content)) /\ content.version \notin Versions
  BY <1>2 DEF load_items
<1>3. CASE ~(OldFence(content) \/ OldRally(content)) /\ content.version \in Versions
  <2>1. load_items(ps, content).points = ReadFile(content).points
    BY <1>3 DEF load_items
  <2>2. ReadFile(content).points \in Indexed
    BY TextRead, PbRead DEF ReadFile
  <2> QED BY <2>1, <2>2
<1> QED BY <1>1, <1>2, <1>3


-----------------------------------------------------------------------------
(* The inductive invariant: a list of items, indexed unless a removal raised half-way. *)

Classes == {"mission", "fence", "rally"}
WpTyped == Class \in Classes /\ wpoints \in Seq(KnownItem) /\ unindexed \in BOOLEAN
WpInv == WpTyped /\ (~unindexed => InPlace(wpoints))

LEMMA WpGiven ==
  ASSUME WpAssumption
  PROVE  /\ FilesKnown /\ Lists \subseteq Seq(KnownItem)
         /\ \A class \in Classes : Items[class] \subseteq KnownItem
<1>1. \A class \in Classes : Items[class] \subseteq KnownItem
  BY ItemKnown DEF WpAssumption, Classes
<1>2. Lists \subseteq Seq(KnownItem)
  <2>1. ASSUME NEW ws \in Lists PROVE ws \in Seq(KnownItem)
    <3>1. ws \in Seq(Item)
      BY DEF WpAssumption
    <3>2. Item \subseteq KnownItem
      BY ItemKnown
    <3> HIDE DEF Item, KnownItem
    <3> QED BY <3>1, <3>2
  <2> QED BY <2>1
<1>3. FilesKnown
  BY ItemKnown DEF WpAssumption, FilesKnown
<1> QED BY <1>1, <1>2, <1>3

LEMMA WpStart == ASSUME WpInit PROVE WpInv
BY EmptyIndexed DEF WpInit, WpInv, WpTyped, Classes

LEMMA WpStep ==
  ASSUME WpAssumption, WpInv, [WpNext]_wpvars
  PROVE  WpInv'
<1>0. /\ FilesKnown /\ Lists \subseteq Seq(KnownItem) /\ Items[Class] \subseteq KnownItem
      /\ Class \in Classes /\ wpoints \in Seq(KnownItem) /\ unindexed \in BOOLEAN
      /\ ~unindexed => InPlace(wpoints)
  BY WpGiven DEF WpInv, WpTyped
<1> SUFFICES ASSUME WpNext PROVE WpInv'
  BY DEF WpInv, WpTyped, InPlace, wpvars
<1>1. Class' = Class
  BY DEF WpNext
<1>2. CASE AddItem
  BY <1>0, <1>1, <1>2, ItemAdded DEF AddItem, WpInv, WpTyped
<1>3. CASE AddItems
  BY <1>0, <1>1, <1>3, ItemsAdded DEF AddItems, WpInv, WpTyped
<1>4. CASE InsertItem
  <2>1. PICK w \in Items[Class], idx \in -1 .. MaxItems :
            /\ wpoints' = insert(wpoints, idx, w)
            /\ unindexed' = (unindexed /\ (idx < 0 \/ idx >= Len(wpoints)))
    BY <1>4 DEF InsertItem
  <2>2. idx \in Int /\ w \in KnownItem /\ Len(wpoints) \in Nat
    BY <1>0 DEF WpAssumption
  <2>3. /\ insert(wpoints, idx, w) \in Seq(KnownItem)
        /\ InPlace(wpoints) \/ (0 <= idx /\ idx < Len(wpoints)) => InPlace(insert(wpoints, idx, w))
    BY <1>0, <2>2, Inserted
  <2>4. unindexed' \in BOOLEAN /\ (~unindexed' => ~unindexed \/ (0 <= idx /\ idx < Len(wpoints)))
    BY <1>0, <2>1, <2>2
  <2> QED BY <1>0, <1>1, <2>1, <2>3, <2>4 DEF WpInv, WpTyped
<1>5. CASE SetItem
  <2>1. PICK w \in Items[Class], idx \in 0 .. MaxItems :
            /\ wpoints' = IF idx > Len(wpoints) THEN wpoints ELSE set(wpoints, idx, w)
            /\ unindexed' = unindexed
    BY <1>5 DEF SetItem
  <2>2. w \in KnownItem /\ Len(wpoints) \in Nat /\ idx \in Nat
    BY <1>0 DEF WpAssumption
  <2>3. CASE idx > Len(wpoints)
    BY <1>0, <1>1, <2>1, <2>3 DEF WpInv, WpTyped
  <2>4. CASE idx \in 0 .. Len(wpoints)
    <3>1. ~(idx > Len(wpoints))
      BY <2>2, <2>4
    <3>2. /\ set(wpoints, idx, w) \in Seq(KnownItem)
          /\ InPlace(wpoints) => InPlace(set(wpoints, idx, w))
      BY <1>0, <2>2, <2>4, WasSet
    <3> QED BY <1>0, <1>1, <2>1, <3>1, <3>2 DEF WpInv, WpTyped
  <2>5. idx > Len(wpoints) \/ idx \in 0 .. Len(wpoints)
    BY <2>2
  <2> QED BY <2>3, <2>4, <2>5
<1>6. CASE RemoveItem
  <2>1. PICK w : /\ wpoints' = IF Has(wpoints, w) THEN reindex(Removed(wpoints, w)) ELSE wpoints
                 /\ unindexed' = (unindexed /\ ~Has(wpoints, w))
    BY <1>6 DEF RemoveItem
  <2>2. CASE Has(wpoints, w)
    <3>1. reindex(Removed(wpoints, w)) \in Indexed
      BY <1>0, <2>2, WasRemoved, Reindexed
    <3> QED BY <1>0, <1>1, <2>1, <2>2, <3>1 DEF WpInv, WpTyped, Indexed
  <2>3. CASE ~Has(wpoints, w)
    BY <1>0, <1>1, <2>1, <2>3 DEF WpInv, WpTyped
  <2> QED BY <2>2, <2>3
<1>7. CASE RemoveItems
  <2>1. PICK v, w : /\ Has(wpoints, v)
                    /\ raised' = ~Has(Removed(wpoints, v), w)
                    /\ wpoints' = IF raised' THEN Removed(wpoints, v)
                                  ELSE reindex(Removed(Removed(wpoints, v), w))
                    /\ unindexed' = raised'
    BY <1>7 DEF RemoveItems
  <2>2. Removed(wpoints, v) \in Seq(KnownItem)
    BY <1>0, <2>1, WasRemoved
  <2>3. CASE Has(Removed(wpoints, v), w)
    <3>1. reindex(Removed(Removed(wpoints, v), w)) \in Indexed
      BY <2>2, <2>3, WasRemoved, Reindexed
    <3> QED BY <1>0, <1>1, <2>1, <2>3, <3>1 DEF WpInv, WpTyped, Indexed
  <2>4. CASE ~Has(Removed(wpoints, v), w)
    BY <1>0, <1>1, <2>1, <2>2, <2>4 DEF WpInv, WpTyped
  <2> QED BY <2>3, <2>4
<1>8. CASE ClearItems
  BY <1>0, <1>1, <1>8, EmptyIndexed DEF ClearItems, WpInv, WpTyped
<1>9. CASE Load
  <2>1. PICK content \in MissionFiles :
            /\ wpoints' = load_items(wpoints, content).points
            /\ unindexed' = (unindexed /\ ~load_items(wpoints, content).cleared)
    BY <1>9 DEF Load
  <2>2. CASE load_items(wpoints, content).points \in Indexed
    BY <1>0, <1>1, <2>1, <2>2 DEF WpInv, WpTyped, Indexed
  <2>3. CASE load_items(wpoints, content).points = wpoints /\ ~load_items(wpoints, content).cleared
    BY <1>0, <1>1, <2>1, <2>3 DEF WpInv, WpTyped
  <2> QED BY <1>0, <2>2, <2>3, WasLoaded
<1> QED BY <1>2, <1>3, <1>4, <1>5, <1>6, <1>7, <1>8, <1>9 DEF WpNext


-----------------------------------------------------------------------------
(* What is built step by step from a function exists, and stays in the function's set. *)

Steps(f, n, V, base, G) ==
    f \in [0 .. n -> V] /\ f[0] = base /\ \A k \in 1 .. n : f[k] = G[f[k - 1]]

LEMMA StepsExist ==
  ASSUME NEW n \in Nat, NEW V, NEW base \in V, NEW G \in [V -> V]
  PROVE  \E f : Steps(f, n, V, base, G)
<1> DEFINE S == {k \in 0 .. n : \E f : Steps(f, k, V, base, G)}
<1>1. 0 \in S
  <2> DEFINE f == [k \in 0 .. 0 |-> base]
  <2>1. Steps(f, 0, V, base, G)
    BY DEF Steps
  <2> QED BY <2>1
<1>2. ASSUME NEW k \in 1 .. n, k - 1 \in S PROVE k \in S
  <2>1. PICK f : Steps(f, k - 1, V, base, G)
    BY <1>2
  <2> DEFINE g == [j \in 0 .. k |-> IF j = k THEN G[f[k - 1]] ELSE f[j]]
  <2>2. f \in [0 .. k - 1 -> V] /\ f[0] = base /\ \A j \in 1 .. k - 1 : f[j] = G[f[j - 1]]
    BY <2>1 DEF Steps
  <2>3. f[k - 1] \in V /\ G[f[k - 1]] \in V
    BY <2>2
  <2>4. g \in [0 .. k -> V]
    BY <2>2, <2>3
  <2>5. g[0] = base
    BY <2>2
  <2>6. ASSUME NEW j \in 1 .. k PROVE g[j] = G[g[j - 1]]
    <3>1. CASE j = k
      BY <3>1
    <3>2. CASE j \in 1 .. k - 1
      BY <2>2, <3>2
    <3> QED BY <3>1, <3>2
  <2> HIDE DEF g
  <2>7. Steps(g, k, V, base, G)
    BY <2>4, <2>5, <2>6 DEF Steps
  <2> QED BY <2>7
<1> HIDE DEF S
<1>3. 0 .. n \subseteq S
  BY <1>1, <1>2, UpTo
<1>4. n \in S
  BY <1>3
<1> QED BY <1>4 DEF S

-----------------------------------------------------------------------------
(* One pass of view_indexes. *)

Spots(ps) == 0 .. Len(ps) - 1
Views(ps) == [idx : 0 .. Len(ps), ret : Seq(Spots(ps)), done : SUBSET Spots(ps),
              failed : {FALSE}]
Follows(ret, i) == \E k \in 1 .. Len(ret) - 1 : ret[k] = i /\ ret[k + 1] = i + 1
Grown(ps, ret, ret2, idx) ==
    ret2 = IF is_location_wp(ps[idx + 1]) THEN Append(ret, idx) ELSE ret

\* What a pass does to a view that has not come to its end.
Skips(ps, v, u) ==
    u.idx = v.idx + 1 /\ u.ret = v.ret /\ u.done = v.done /\ v.idx \notin v.done
    /\ ps[v.idx + 1].command \in Starts /\ v.ret # <<>>
Meets(ps, v, u) ==
    v.idx \in v.done /\ u.idx = Len(ps) /\ u.done = v.done /\ Grown(ps, v.ret, u.ret, v.idx)
Opens(ps, v, u) ==
    v.ret = <<>> /\ u.idx = v.idx + 1 /\ u.ret = <<v.idx>> /\ u.done = v.done \union {v.idx}
    /\ v.idx \notin v.done
Jumps(ps, v, u) ==
    /\ v.idx \notin v.done /\ u.done = v.done \union {v.idx}
    /\ ps[v.idx + 1].command = "DO_JUMP" /\ u.idx \in Spots(ps) /\ Grown(ps, v.ret, u.ret, u.idx)
PassesBy(ps, v, u) ==
    /\ v.idx \notin v.done /\ u.done = v.done \union {v.idx}
    /\ u.idx = IF ps[v.idx + 1].command \in Landings THEN Len(ps) ELSE v.idx + 1
    /\ ps[v.idx + 1].command \notin Starts /\ Grown(ps, v.ret, u.ret, v.idx)

LEMMA GrownView ==
  ASSUME NEW ps, NEW S, NEW ret \in Seq(S), NEW idx \in S, NEW ret2, Grown(ps, ret, ret2, idx)
  PROVE  /\ ret2 \in Seq(S)
         /\ Len(ret) <= Len(ret2) /\ \A k \in 1 .. Len(ret) : ret2[k] = ret[k]
         /\ is_location_wp(ps[idx + 1]) => /\ Len(ret2) = Len(ret) + 1
                                           /\ ret2[Len(ret) + 1] = idx
         /\ ~is_location_wp(ps[idx + 1]) => ret2 = ret
<1>1. CASE is_location_wp(ps[idx + 1])
  BY <1>1 DEF Grown
<1>2. CASE ~is_location_wp(ps[idx + 1])
  BY <1>2 DEF Grown
<1> QED BY <1>1, <1>2

LEMMA Passed ==
  ASSUME NEW ps \in Seq(KnownItem), Legal(ps), NEW v \in Views(ps), v.idx # Len(ps)
  PROVE  /\ ViewStep(ps, v) \in Views(ps)
         /\ \/ Skips(ps, v, ViewStep(ps, v)) \/ Meets(ps, v, ViewStep(ps, v))
            \/ Opens(ps, v, ViewStep(ps, v)) \/ Jumps(ps, v, ViewStep(ps, v))
            \/ PassesBy(ps, v, ViewStep(ps, v))
<1> DEFINE n == Len(ps)
           w == ps[v.idx + 1]
           u == ViewStep(ps, v)
           D == v.done \union {v.idx}
<1>1. n \in Nat /\ v.idx \in 0 .. n /\ v.ret \in Seq(Spots(ps)) /\ v.done \in SUBSET Spots(ps)
      /\ v.failed = FALSE
  <2>1. n \in Nat
    OBVIOUS
  <2>2. v.idx \in 0 .. n /\ v.ret \in Seq(Spots(ps)) /\ v.done \in SUBSET Spots(ps)
    BY DEF Views
  <2>3. v.failed = FALSE
    BY DEF Views
  <2> QED BY <2>1, <2>2, <2>3
<1>2. v.idx \in Spots(ps) /\ v.idx + 1 \in 0 .. n /\ v.idx < n /\ ~(v.idx >= n)
  BY <1>1 DEF Spots
<1>3. D \in SUBSET Spots(ps)
  BY <1>1, <1>2
<1>4. w \in KnownItem /\ (w.command = "DO_JUMP" => w.param1 \in Spots(ps))
  <2>1. v.idx + 1 \in 1 .. n /\ DOMAIN ps = 1 .. n
    BY <1>1, <1>2
  <2>2. w \in KnownItem /\ (w.command = "DO_JUMP" => w.param1 < n)
    BY <2>1 DEF Legal
  <2>3. w.param1 \in Nat
    BY <2>2 DEF KnownItem
  <2> QED BY <1>1, <2>2, <2>3 DEF Spots
<1>5. ASSUME NEW to \in Spots(ps)
      PROVE  Shown(ps, v, to) \in Seq(Spots(ps)) /\ Grown(ps, v.ret, Shown(ps, v, to), to)
  <2>1. Grown(ps, v.ret, Shown(ps, v, to), to)
    BY DEF Grown, Shown
  <2> QED BY <1>1, <2>1, GrownView
<1>6. CASE v.idx \in v.done
  <2>1. u = [v EXCEPT !.idx = n, !.ret = Shown(ps, v, v.idx)]
    BY <1>1, <1>2, <1>6, Zenon DEF ViewStep
  <2>2. u \in Views(ps) /\ u.idx = n /\ u.ret = Shown(ps, v, v.idx) /\ u.done = v.done
    <3>1. Shown(ps, v, v.idx) \in Seq(Spots(ps)) /\ n \in 0 .. n
      BY <1>1, <1>2, <1>5
    <3> HIDE DEF u
    <3> QED BY <1>1, <2>1, <3>1 DEF Views
  <2> QED BY <1>2, <1>5, <1>6, <2>2 DEF Meets
<1>7. CASE v.idx \notin v.done
  <2>0. u = ViewItem(ps, v, w)
    BY <1>1, <1>2, <1>7, Zenon DEF ViewStep
  <2>1. CASE w.command \in Starts /\ v.ret # <<>>
    <3>1. u = [v EXCEPT !.idx = @ + 1]
      BY <2>0, <2>1, Zenon DEF ViewItem, Starts
    <3>2. u \in Views(ps) /\ u.idx = v.idx + 1 /\ u.ret = v.ret /\ u.done = v.done
      <4> HIDE DEF u
      <4> QED BY <1>1, <1>2, <3>1 DEF Views
    <3> QED BY <1>7, <2>1, <3>2 DEF Skips
  <2>2. CASE w.command \in Starts /\ v.ret = <<>>
    <3>1. u = [v EXCEPT !.idx = @ + 1, !.ret = <<v.idx>>, !.done = D]
      BY <2>0, <2>2, Zenon DEF ViewItem, Starts
    <3>2. <<v.idx>> \in Seq(Spots(ps))
      BY <1>2
    <3>3. u \in Views(ps) /\ u.idx = v.idx + 1 /\ u.ret = <<v.idx>> /\ u.done = D
      <4> HIDE DEF u, D
      <4> QED BY <1>1, <1>2, <1>3, <3>1, <3>2 DEF Views
    <3> QED BY <1>7, <2>2, <3>3 DEF Opens
  <2>3. CASE w.command = "DO_JUMP"
    <3> DEFINE v2 == [v EXCEPT !.done = D]
    <3>1. u = Jump(ps, v2, w.param1)
      BY <2>0, <2>3, Zenon DEF ViewItem, Starts
    <3>2. v2 \in Views(ps) /\ v2.ret = v.ret /\ v2.done = D
      <4> HIDE DEF D
      <4> QED BY <1>1, <1>3 DEF Views
    <3>3. w.param1 \in Spots(ps) /\ ~(w.param1 >= n) /\ w.param1 \in 0 .. n
      BY <1>1, <1>4, <2>3 DEF Spots
    <3>4. u = [v2 EXCEPT !.idx = w.param1, !.ret = Shown(ps, v2, w.param1)]
      BY <3>1, <3>3 DEF Jump
    <3>5. Shown(ps, v2, w.param1) = Shown(ps, v, w.param1)
      BY <3>2 DEF Shown
    <3>6. u \in Views(ps) /\ u.idx = w.param1 /\ u.ret = Shown(ps, v, w.param1) /\ u.done = D
      <4>1. Shown(ps, v, w.param1) \in Seq(Spots(ps))
        BY <1>5, <3>3
      <4> HIDE DEF u, v2, D
      <4> QED BY <3>2, <3>3, <3>4, <3>5, <4>1 DEF Views
    <3> QED BY <1>5, <1>7, <2>3, <3>3, <3>6 DEF Jumps
  <2>4. CASE w.command \notin Starts /\ w.command # "DO_JUMP"
    <3> DEFINE to == IF w.command \in Landings THEN n ELSE v.idx + 1
    <3>1. u = [v EXCEPT !.idx = IF w.command \in Landings THEN Len(ps) ELSE @ + 1,
                        !.ret = Shown(ps, v, v.idx), !.done = D]
      BY <2>0, <2>4, Zenon DEF ViewItem
    <3>2. to \in 0 .. n
      BY <1>1, <1>2
    <3>3. u \in Views(ps) /\ u.idx = to /\ u.ret = Shown(ps, v, v.idx) /\ u.done = D
      <4>1. Shown(ps, v, v.idx) \in Seq(Spots(ps))
        BY <1>2, <1>5
      <4>2. u = [v EXCEPT !.idx = to, !.ret = Shown(ps, v, v.idx), !.done = D]
        BY <3>1
      <4> HIDE DEF u, D, to
      <4> QED BY <1>1, <1>2, <1>3, <3>2, <4>1, <4>2 DEF Views
    <3> QED BY <1>2, <1>5, <1>7, <2>4, <3>3 DEF PassesBy
  <2> QED BY <2>1, <2>2, <2>3, <2>4
<1> QED BY <1>6, <1>7

\* The parts of the invariant of a view: past its first item it leads to no landing start,
\* shows the locations it is done with, and joins the legs it is done with or is about to.
Leads(ps, ret) == \A k \in 2 .. Len(ret) : ps[ret[k] + 1].command # "DO_LAND_START"
Shows(ps, new, ret) == \A i \in new : is_location_wp(ps[i + 1]) => i \in ToSet(ret)
Pending(ret, idx, i) == idx = i + 1 /\ ret # <<>> /\ ret[Len(ret)] = i
Joins(ps, new, ret, idx) ==
    \A i \in new : i + 1 < Len(ps) /\ Leg(ps, i + 1) => Follows(ret, i) \/ Pending(ret, idx, i)
ViewInv(ps, done, first, v) ==
    /\ v \in Views(ps) /\ done \subseteq v.done
    /\ Leads(ps, v.ret) /\ Shows(ps, v.done \ done, v.ret) /\ Joins(ps, v.done \ done, v.ret, v.idx)
    /\ first \in v.done \/ (v.idx = first /\ v.ret = <<>>)

\* What a list of items that has grown keeps and gets.
Kept(ps, P, ret, ret2, idx) ==
    /\ ToSet(ret) \subseteq ToSet(ret2)
    /\ \A i \in P : Follows(ret, i) => Follows(ret2, i)
    /\ Leads(ps, ret) => Leads(ps, ret2)
    /\ is_location_wp(ps[idx + 1]) =>
         /\ idx \in ToSet(ret2) /\ ret2 # <<>> /\ ret2[Len(ret2)] = idx
         /\ \A i \in P : Pending(ret, idx, i) => Follows(ret2, i)

LEMMA GrownKeeps ==
  ASSUME NEW ps, NEW P, NEW ret \in Seq(P), NEW idx \in P, NEW ret2,
         Grown(ps, ret, ret2, idx)
  PROVE  Kept(ps, P, ret, ret2, idx)
<1> DEFINE m == Len(ret)
<1>0. /\ ret2 \in Seq(P)
      /\ Len(ret) <= Len(ret2) /\ \A k \in 1 .. Len(ret) : ret2[k] = ret[k]
      /\ is_location_wp(ps[idx + 1]) => Len(ret2) = Len(ret) + 1 /\ ret2[Len(ret) + 1] = idx
      /\ ~is_location_wp(ps[idx + 1]) => ret2 = ret
  BY GrownView
<1>1. /\ m \in Nat /\ Len(ret2) \in Nat /\ m <= Len(ret2)
      /\ DOMAIN ret = 1 .. m /\ DOMAIN ret2 = 1 .. Len(ret2)
  BY <1>0
<1>2. ToSet(ret) \subseteq ToSet(ret2)
  <2>1. ASSUME NEW k \in 1 .. m PROVE k \in 1 .. Len(ret2) /\ ret2[k] = ret[k]
    <3>1. k \in 1 .. Len(ret2)
      BY <1>1
    <3> QED BY <1>0, <3>1
  <2> QED BY <1>1, <2>1 DEF ToSet
<1>3. ASSUME NEW i \in P, Follows(ret, i) PROVE Follows(ret2, i)
  <2>1. PICK k \in 1 .. m - 1 : ret[k] = i /\ ret[k + 1] = i + 1
    BY <1>3 DEF Follows
  <2>2. k \in 1 .. Len(ret2) - 1 /\ k \in 1 .. m /\ k + 1 \in 1 .. m
    BY <1>1
  <2>3. ret2[k] = i /\ ret2[k + 1] = i + 1
    BY <1>0, <2>1, <2>2
  <2> QED BY <2>2, <2>3 DEF Follows
<1>4. ASSUME Leads(ps, ret) PROVE Leads(ps, ret2)
  <2>1. CASE is_location_wp(ps[idx + 1])
    <3>1. ps[idx + 1].command # "DO_LAND_START"
      BY <2>1 DEF is_location_wp
    <3>2. ASSUME NEW k \in 2 .. Len(ret2) PROVE ps[ret2[k] + 1].command # "DO_LAND_START"
      <4>1. k \in 2 .. m \/ k = m + 1
        BY <1>0, <1>1, <2>1
      <4>2. CASE k \in 2 .. m
        <5>0. k \in 1 .. m
          BY <1>1, <4>2
        <5>1. ret2[k] = ret[k]
          BY <1>0, <5>0
        <5> QED BY <1>4, <4>2, <5>1 DEF Leads
      <4>3. CASE k = m + 1
        BY <1>0, <2>1, <3>1, <4>3
      <4> QED BY <4>1, <4>2, <4>3
    <3> QED BY <3>2 DEF Leads
  <2>2. CASE ~is_location_wp(ps[idx + 1])
    BY <1>0, <1>4, <2>2
  <2> QED BY <2>1, <2>2
<1>5. ASSUME is_location_wp(ps[idx + 1])
      PROVE  /\ idx \in ToSet(ret2) /\ ret2 # <<>> /\ ret2[Len(ret2)] = idx
             /\ \A i \in P : Pending(ret, idx, i) => Follows(ret2, i)
  <2>1. Len(ret2) = m + 1 /\ ret2[m + 1] = idx
    BY <1>0, <1>5
  <2>2. m + 1 \in DOMAIN ret2 /\ ret2 # <<>>
    BY <1>1, <2>1
  <2>3. idx \in ToSet(ret2)
    BY <2>1, <2>2 DEF ToSet
  <2>4. ASSUME NEW i \in P, Pending(ret, idx, i) PROVE Follows(ret2, i)
    <3>1. m \in 1 .. Len(ret2) - 1 /\ m \in 1 .. m
      <4>1. ret # <<>>
        BY <2>4 DEF Pending
      <4>2. m # 0
        BY <4>1
      <4> QED BY <1>1, <2>1, <4>2
    <3>2. ret2[m] = i /\ ret2[m + 1] = i + 1
      BY <1>0, <2>1, <2>4, <3>1 DEF Pending
    <3> QED BY <3>1, <3>2 DEF Follows
  <2> QED BY <2>1, <2>2, <2>3, <2>4
<1> QED BY <1>2, <1>3, <1>4, <1>5 DEF Kept

LEMMA ViewStart ==
  ASSUME NEW ps \in Seq(KnownItem), NEW done \in SUBSET Spots(ps), NEW first \in Spots(ps)
  PROVE  ViewInv(ps, done, first, [idx |-> first, ret |-> <<>>, done |-> done, failed |-> FALSE])
<1> DEFINE v == [idx |-> first, ret |-> <<>>, done |-> done, failed |-> FALSE]
<1>1. first \in 0 .. Len(ps)
  BY DEF Spots
<1>2. v \in Views(ps)
  BY <1>1 DEF Views
<1>3. v.done \ done = {} /\ v.ret = <<>> /\ v.idx = first /\ v.done = done
  OBVIOUS
<1> HIDE DEF v
<1>4. Leads(ps, v.ret)
  BY <1>3 DEF Leads
<1> QED BY <1>2, <1>3, <1>4 DEF ViewInv, Shows, Joins, v

\* A leg leaves and reaches locations, and no landing and no start stands between them.
LEMMA LegEnds ==
  ASSUME NEW ps, NEW i, Leg(ps, i + 1)
  PROVE  /\ is_location_wp(ps[i + 1]) /\ is_location_wp(ps[i + 1 + 1])
         /\ ps[i + 1].command \notin Landings /\ ps[i + 1 + 1].command \notin Starts
BY DEF Leg

LEMMA ViewKept ==
  ASSUME NEW ps \in Seq(KnownItem), Legal(ps), NEW done \in SUBSET Spots(ps),
         NEW first \in Spots(ps), NEW v, ViewInv(ps, done, first, v)
  PROVE  ViewInv(ps, done, first, ViewStep(ps, v))
<1> DEFINE n == Len(ps)
           u == ViewStep(ps, v)
           new == v.done \ done
<1>0. /\ n \in Nat /\ Spots(ps) = 0 .. n - 1 /\ v \in Views(ps) /\ v.idx \in 0 .. n
      /\ v.ret \in Seq(0 .. n - 1) /\ v.done \in SUBSET (0 .. n - 1)
  <2>1. n \in Nat
    OBVIOUS
  <2>2. v \in Views(ps)
    BY DEF ViewInv
  <2> QED BY <2>1, <2>2 DEF Views, Spots
<1>1. CASE v.idx = n
  <2>1. ViewStep(ps, v) = v
    BY <1>0, <1>1 DEF ViewStep
  <2> QED BY <2>1
<1>2. CASE v.idx # n
  <2>0. /\ u \in Views(ps)
        /\ Skips(ps, v, u) \/ Meets(ps, v, u) \/ Opens(ps, v, u) \/ Jumps(ps, v, u)
           \/ PassesBy(ps, v, u)
    BY <1>0, <1>2, Passed
  <2> HIDE DEF u
  <2>a. /\ done \subseteq v.done /\ Leads(ps, v.ret) /\ Shows(ps, new, v.ret)
        /\ Joins(ps, new, v.ret, v.idx)
        /\ first \in v.done \/ (v.idx = first /\ v.ret = <<>>)
    BY DEF ViewInv
  <2>b. /\ new \in SUBSET (0 .. n - 1) /\ v.idx \in 0 .. n - 1
        /\ new \in SUBSET Spots(ps) /\ v.idx \in Spots(ps)
    BY <1>0, <1>2
  <2>d. v.ret \in Seq(Spots(ps))
    BY <1>0
  <2>c. ps[v.idx + 1] \in KnownItem
    BY <1>0, <2>b
  <2>1. ASSUME Skips(ps, v, u) PROVE ViewInv(ps, done, first, u)
    <3>1. u.idx = v.idx + 1 /\ u.ret = v.ret /\ u.done = v.done /\ v.ret # <<>>
          /\ ps[v.idx + 1].command \in Starts
      BY <2>1 DEF Skips
    <3>2. ASSUME NEW i \in new, i + 1 < n, Leg(ps, i + 1) PROVE Follows(v.ret, i)
      <4>1. ~Pending(v.ret, v.idx, i)
        BY <3>1, <3>2, LegEnds DEF Pending
      <4> QED BY <2>a, <3>2, <4>1 DEF Joins
    <3>3. Joins(ps, u.done \ done, u.ret, u.idx)
      BY <3>1, <3>2 DEF Joins
    <3> QED BY <2>0, <2>a, <3>1, <3>3 DEF ViewInv
  <2>2. ASSUME Meets(ps, v, u) PROVE ViewInv(ps, done, first, u)
    <3>1. v.idx \in v.done /\ u.idx = n /\ u.done = v.done /\ Grown(ps, v.ret, u.ret, v.idx)
      BY <2>2 DEF Meets
    <3>2. /\ ToSet(v.ret) \subseteq ToSet(u.ret)
          /\ \A i \in Spots(ps) : Follows(v.ret, i) => Follows(u.ret, i)
          /\ Leads(ps, v.ret) => Leads(ps, u.ret)
          /\ is_location_wp(ps[v.idx + 1]) =>
               /\ v.idx \in ToSet(u.ret) /\ u.ret # <<>> /\ u.ret[Len(u.ret)] = v.idx
               /\ \A i \in Spots(ps) : Pending(v.ret, v.idx, i) => Follows(u.ret, i)
      <4>1. Kept(ps, Spots(ps), v.ret, u.ret, v.idx)
        BY <2>b, <2>d, <3>1, GrownKeeps
      <4> QED BY <4>1 DEF Kept
    <3>3. Shows(ps, u.done \ done, u.ret)
      BY <2>a, <3>1, <3>2 DEF Shows
    <3>4. ASSUME NEW i \in new, i + 1 < n, Leg(ps, i + 1) PROVE Follows(u.ret, i)
      <4>1. CASE Follows(v.ret, i)
        BY <2>b, <3>2, <4>1
      <4>2. CASE Pending(v.ret, v.idx, i)
        BY <2>b, <3>2, <3>4, <4>2, LegEnds DEF Pending
      <4> QED BY <2>a, <3>4, <4>1, <4>2 DEF Joins
    <3>5. Joins(ps, u.done \ done, u.ret, u.idx)
      BY <3>1, <3>4 DEF Joins
    <3>6. first \in u.done
      BY <2>a, <3>1
    <3> QED BY <2>0, <2>a, <3>1, <3>2, <3>3, <3>5, <3>6 DEF ViewInv
  <2>3. ASSUME Opens(ps, v, u) PROVE ViewInv(ps, done, first, u)
    <3>1. v.ret = <<>> /\ u.idx = v.idx + 1 /\ u.ret = <<v.idx>> /\ u.done = v.done \union {v.idx}
      BY <2>3 DEF Opens
    <3>2. /\ Len(u.ret) = 1 /\ u.ret # <<>> /\ u.ret[1] = v.idx /\ v.idx \in ToSet(u.ret)
          /\ ToSet(v.ret) = {} /\ \A i : ~Follows(v.ret, i) /\ ~Pending(v.ret, v.idx, i)
      BY <3>1 DEF ToSet, Follows, Pending
    <3>3. Leads(ps, u.ret)
      BY <3>2 DEF Leads
    <3>4. Shows(ps, u.done \ done, u.ret)
      BY <2>a, <3>1, <3>2 DEF Shows
    <3>5. Joins(ps, u.done \ done, u.ret, u.idx)
      <4>1. Pending(u.ret, u.idx, v.idx)
        BY <3>1, <3>2 DEF Pending
      <4>2. \A i \in new : ~(i + 1 < n /\ Leg(ps, i + 1))
        BY <2>a, <3>2 DEF Joins
      <4> QED BY <3>1, <4>1, <4>2 DEF Joins
    <3>6. first \in u.done
      BY <2>a, <3>1
    <3> QED BY <2>0, <2>a, <3>1, <3>3, <3>4, <3>5, <3>6 DEF ViewInv
  <2>4. ASSUME Jumps(ps, v, u) PROVE ViewInv(ps, done, first, u)
    <3>1. /\ u.done = v.done \union {v.idx} /\ ps[v.idx + 1].command = "DO_JUMP"
          /\ u.idx \in 0 .. n - 1 /\ Grown(ps, v.ret, u.ret, u.idx)
      BY <1>0, <2>4 DEF Jumps
    <3>2. ~is_location_wp(ps[v.idx + 1])
      BY <2>c, <3>1 DEF KnownItem, is_location_wp
    <3>3. /\ ToSet(v.ret) \subseteq ToSet(u.ret)
          /\ \A i \in Spots(ps) : Follows(v.ret, i) => Follows(u.ret, i)
          /\ Leads(ps, v.ret) => Leads(ps, u.ret)
      <4>1. u.idx \in Spots(ps)
        BY <1>0, <3>1
      <4>2. Kept(ps, Spots(ps), v.ret, u.ret, u.idx)
        BY <2>d, <3>1, <4>1, GrownKeeps
      <4> QED BY <4>2 DEF Kept
    <3>4. Shows(ps, u.done \ done, u.ret)
      BY <2>a, <3>1, <3>2, <3>3 DEF Shows
    <3>5. ASSUME NEW i \in u.done \ done, i + 1 < n, Leg(ps, i + 1) PROVE Follows(u.ret, i)
      <4>1. is_location_wp(ps[i + 1]) /\ is_location_wp(ps[i + 1 + 1])
        BY <3>5, LegEnds
      <4>2. i \in new /\ ~Pending(v.ret, v.idx, i)
        BY <3>1, <3>2, <3>5, <4>1 DEF Pending
      <4> QED BY <2>a, <2>b, <3>3, <3>5, <4>2 DEF Joins
    <3>6. Joins(ps, u.done \ done, u.ret, u.idx)
      BY <3>5 DEF Joins
    <3>7. first \in u.done
      BY <2>a, <3>1
    <3> QED BY <2>0, <2>a, <3>1, <3>3, <3>4, <3>6, <3>7 DEF ViewInv
  <2>5. ASSUME PassesBy(ps, v, u) PROVE ViewInv(ps, done, first, u)
    <3>1. /\ u.done = v.done \union {v.idx} /\ Grown(ps, v.ret, u.ret, v.idx)
          /\ u.idx = IF ps[v.idx + 1].command \in Landings THEN n ELSE v.idx + 1
      BY <2>5 DEF PassesBy
    <3>2. /\ ToSet(v.ret) \subseteq ToSet(u.ret)
          /\ \A i \in Spots(ps) : Follows(v.ret, i) => Follows(u.ret, i)
          /\ Leads(ps, v.ret) => Leads(ps, u.ret)
          /\ is_location_wp(ps[v.idx + 1]) =>
               /\ v.idx \in ToSet(u.ret) /\ u.ret # <<>> /\ u.ret[Len(u.ret)] = v.idx
               /\ \A i \in Spots(ps) : Pending(v.ret, v.idx, i) => Follows(u.ret, i)
      <4>1. Kept(ps, Spots(ps), v.ret, u.ret, v.idx)
        BY <2>b, <2>d, <3>1, GrownKeeps
      <4> QED BY <4>1 DEF Kept
    <3>3. Shows(ps, u.done \ done, u.ret)
      BY <2>a, <3>1, <3>2 DEF Shows
    <3>4. ASSUME NEW i \in u.done \ done, i + 1 < n, Leg(ps, i + 1)
          PROVE  Follows(u.ret, i) \/ Pending(u.ret, u.idx, i)
      <4>1. /\ is_location_wp(ps[i + 1]) /\ is_location_wp(ps[i + 1 + 1])
            /\ ps[i + 1].command \notin Landings
        BY <3>4, LegEnds
      <4>2. CASE i = v.idx
        BY <3>1, <3>2, <4>1, <4>2 DEF Pending
      <4>3. CASE i \in new /\ Follows(v.ret, i)
        BY <2>b, <3>2, <4>3
      <4>4. CASE i \in new /\ Pending(v.ret, v.idx, i)
        BY <2>b, <3>2, <4>1, <4>4 DEF Pending
      <4> QED BY <2>a, <3>1, <3>4, <4>2, <4>3, <4>4 DEF Joins
    <3>5. Joins(ps, u.done \ done, u.ret, u.idx)
      BY <3>4 DEF Joins
    <3>6. first \in u.done
      BY <2>a, <3>1
    <3> QED BY <2>0, <2>a, <3>1, <3>2, <3>3, <3>5, <3>6 DEF ViewInv
  <2>6. ViewInv(ps, done, first, u)
    BY <2>0, <2>1, <2>2, <2>3, <2>4, <2>5
  <2> QED BY <2>6 DEF u
<1> QED BY <1>1, <1>2

-----------------------------------------------------------------------------
(* A view comes to an end: each pass is done with one more item, or goes on. *)

Left(ps, v) == (Len(ps) - Cardinality(v.done)) * (Len(ps) + 1) + (Len(ps) - v.idx)

LEMMA DoneCount ==
  ASSUME NEW n \in Nat, NEW D \in SUBSET (0 .. n - 1)
  PROVE  /\ Cardinality(D) \in 0 .. n
         /\ Cardinality(D) = n => D = 0 .. n - 1
         /\ \A i \in 0 .. n - 1 : i \notin D => Cardinality(D \union {i}) = Cardinality(D) + 1
         /\ \A E \in SUBSET (0 .. n - 1) : D \subseteq E => Cardinality(D) <= Cardinality(E)
                                                  /\ (D # E => Cardinality(D) < Cardinality(E))
<1>1. IsFiniteSet(0 .. n - 1) /\ Cardinality(0 .. n - 1) = n
  <2>1. IsFiniteSet(0 .. n - 1)
        /\ Cardinality(0 .. n - 1) = IF 0 > n - 1 THEN 0 ELSE (n - 1) - 0 + 1
    BY FS_Interval
  <2> QED BY <2>1
<1>2. \A T \in SUBSET (0 .. n - 1) :
          IsFiniteSet(T) /\ Cardinality(T) \in Nat /\ Cardinality(T) <= n
          /\ (Cardinality(T) = n => T = 0 .. n - 1)
  <2> TAKE T \in SUBSET (0 .. n - 1)
  <2>1. IsFiniteSet(T) /\ Cardinality(T) <= Cardinality(0 .. n - 1)
        /\ (Cardinality(0 .. n - 1) = Cardinality(T) => 0 .. n - 1 = T)
    BY <1>1, FS_Subset
  <2>2. Cardinality(T) \in Nat
    BY <2>1, FS_CardinalityType
  <2> QED BY <1>1, <2>1, <2>2
<1>3. ASSUME NEW i \in 0 .. n - 1, i \notin D PROVE Cardinality(D \union {i}) = Cardinality(D) + 1
  BY <1>2, <1>3, FS_AddElement
<1>4. ASSUME NEW E \in SUBSET (0 .. n - 1), D \subseteq E
      PROVE  Cardinality(D) <= Cardinality(E) /\ (D # E => Cardinality(D) < Cardinality(E))
  <2>1. Cardinality(D) <= Cardinality(E) /\ (Cardinality(E) = Cardinality(D) => E = D)
    BY <1>2, <1>4, FS_Subset
  <2>2. Cardinality(D) \in Nat /\ Cardinality(E) \in Nat
    BY <1>2
  <2> QED BY <2>1, <2>2
<1> QED BY <1>2, <1>3, <1>4

LEMMA LeftNat ==
  ASSUME NEW ps \in Seq(KnownItem), NEW v \in Views(ps)
  PROVE  /\ Left(ps, v) \in Nat
         /\ Left(ps, v) <= (Len(ps) + 1) * (Len(ps) + 1) - 1
<1> DEFINE n == Len(ps)
           c == Cardinality(v.done)
<1>1. n \in Nat
  OBVIOUS
<1>2. v.done \in SUBSET (0 .. n - 1) /\ v.idx \in 0 .. n
  BY DEF Views, Spots
<1>3. c \in 0 .. n
  BY <1>1, <1>2, DoneCount
<1>4. PICK i \in 0 .. n : i = v.idx
  BY <1>2
<1>5. Left(ps, v) = (n - c) * (n + 1) + (n - i)
  BY <1>4 DEF Left
<1> HIDE DEF n, c
<1>6. (n - c) * (n + 1) \in Nat /\ (n - c) * (n + 1) <= n * (n + 1)
  <2>1. PICK a \in 0 .. n : a = n - c
    BY <1>1, <1>3
  <2>2. a * (n + 1) \in Nat /\ a * (n + 1) <= n * (n + 1)
    BY <1>1, SMT
  <2> QED BY <2>1, <2>2
<1>7. n * (n + 1) + n = (n + 1) * (n + 1) - 1 /\ n * (n + 1) \in Nat
  BY <1>1
<1>8. (n - c) * (n + 1) + (n - i) \in Nat /\ (n - c) * (n + 1) + (n - i) <= (n + 1) * (n + 1) - 1
  BY <1>1, <1>4, <1>6, <1>7
<1> QED BY <1>5, <1>8 DEF n

LEMMA LessLeft ==
  ASSUME NEW ps \in Seq(KnownItem), Legal(ps), NEW v \in Views(ps), v.idx # Len(ps)
  PROVE  ViewStep(ps, v).idx = Len(ps) \/ Left(ps, ViewStep(ps, v)) <= Left(ps, v) - 1
<1> DEFINE n == Len(ps)
           u == ViewStep(ps, v)
           c == Cardinality(v.done)
<1>0. n \in Nat
  OBVIOUS
<1>1. u \in Views(ps) /\ (Skips(ps, v, u) \/ Meets(ps, v, u) \/ Opens(ps, v, u) \/ Jumps(ps, v, u)
                          \/ PassesBy(ps, v, u))
  BY Passed
<1>2. v.done \in SUBSET (0 .. n - 1) /\ v.idx \in 0 .. n - 1 /\ u.idx \in 0 .. n
  BY <1>0, <1>1 DEF Views, Spots
<1>3. c \in 0 .. n /\ \A i \in 0 .. n - 1 : i \notin v.done => Cardinality(v.done \union {i}) = c + 1
  BY <1>0, <1>2, DoneCount
<1>4. \/ u.idx = n
      \/ u.done = v.done /\ u.idx = v.idx + 1
      \/ v.idx \notin v.done /\ u.done = v.done \union {v.idx}
  BY <1>1 DEF Skips, Meets, Opens, Jumps, PassesBy
<1>5. Left(ps, v) = (n - c) * (n + 1) + (n - v.idx)
  BY DEF Left
<1>6. Left(ps, u) = (n - Cardinality(u.done)) * (n + 1) + (n - u.idx)
  BY DEF Left
<1> HIDE DEF u, c, n
<1>7. CASE u.done = v.done /\ u.idx = v.idx + 1
  <2>1. PICK a \in Int : a = (n - c) * (n + 1)
    BY <1>0, <1>3
  <2>2. Left(ps, u) = a + (n - (v.idx + 1)) /\ Left(ps, v) = a + (n - v.idx)
    BY <1>5, <1>6, <1>7, <2>1 DEF c
  <2>3. Left(ps, u) <= Left(ps, v) - 1
    BY <1>0, <1>2, <2>2
  <2> QED BY <2>3 DEF u
<1>8. CASE v.idx \notin v.done /\ u.done = v.done \union {v.idx}
  <2>1. Cardinality(u.done) = c + 1
    BY <1>2, <1>3, <1>8
  <2>2. (n - (c + 1)) * (n + 1) = (n - c) * (n + 1) - (n + 1)
    BY <1>0, <1>3
  <2>3. PICK a \in Int : a = (n - c) * (n + 1)
    BY <1>0, <1>3
  <2>4. Left(ps, u) = a - (n + 1) + (n - u.idx) /\ Left(ps, v) = a + (n - v.idx)
    BY <1>5, <1>6, <2>1, <2>2, <2>3
  <2>5. Left(ps, u) <= Left(ps, v) - 1
    BY <1>0, <1>2, <2>4, SMTT(60)
  <2> QED BY <2>5 DEF u
<1> QED BY <1>4, <1>7, <1>8 DEF u, n

LEMMA ViewOver ==
  ASSUME NEW ps \in Seq(KnownItem), NEW v, v.idx = Len(ps)
  PROVE  ViewStep(ps, v) = v
<1>1. Len(ps) \in Nat
  OBVIOUS
<1>2. v.idx >= Len(ps)
  BY <1>1
<1> QED BY <1>1, <1>2 DEF ViewStep

LEMMA ViewEnds ==
  ASSUME NEW ps \in Seq(KnownItem), Legal(ps), NEW f,
         \A k \in 0 .. Passes(ps) : f[k] \in Views(ps),
         \A k \in 1 .. Passes(ps) : f[k] = ViewStep(ps, f[k - 1])
  PROVE  f[Passes(ps)].idx = Len(ps)
<1> DEFINE n == Len(ps)
           p == Passes(ps)
           S == {k \in 0 .. p : f[k].idx = n \/ Left(ps, f[k]) <= p - 1 - k}
<1>1. n \in Nat /\ p = (n + 1) * (n + 1) /\ p \in Nat
  <2>1. n \in Nat
    OBVIOUS
  <2> QED BY <2>1 DEF Passes
<1>2. \A k \in 0 .. p : Left(ps, f[k]) \in Nat /\ Left(ps, f[k]) <= p - 1
  BY <1>1, LeftNat
<1>3. 0 \in S
  BY <1>1, <1>2
<1>4. ASSUME NEW k \in 1 .. p, k - 1 \in S PROVE k \in S
  <2>1. k - 1 \in 0 .. p /\ f[k] = ViewStep(ps, f[k - 1]) /\ f[k - 1] \in Views(ps)
        /\ (f[k - 1].idx = n \/ Left(ps, f[k - 1]) <= p - 1 - (k - 1))
    BY <1>1, <1>4
  <2>2. CASE f[k - 1].idx = n
    <3>1. f[k] = f[k - 1]
      BY <2>1, <2>2, ViewOver
    <3> QED BY <1>1, <2>2, <3>1
  <2>3. CASE f[k - 1].idx # n
    <3>1. f[k].idx = n \/ Left(ps, f[k]) <= Left(ps, f[k - 1]) - 1
      BY <2>1, <2>3, LessLeft
    <3>2. Left(ps, f[k]) \in Nat /\ Left(ps, f[k - 1]) \in Nat /\ k \in 0 .. p
      BY <1>1, <1>2, <2>1
    <3>3. f[k].idx = n \/ Left(ps, f[k]) <= p - 1 - k
      BY <1>1, <2>1, <2>3, <3>1, <3>2
    <3> QED BY <3>2, <3>3
  <2> QED BY <2>2, <2>3
<1>5. 0 .. p \subseteq S
  <2> HIDE DEF S, p
  <2> QED BY <1>1, <1>3, <1>4, UpTo
<1>6. p \in S
  <2> HIDE DEF S, p
  <2> QED BY <1>1, <1>5
<1>7. ~(Left(ps, f[p]) <= p - 1 - p)
  BY <1>1, <1>2
<1> QED BY <1>6, <1>7

-----------------------------------------------------------------------------
(* The views of a mission, one after the other. *)

\* What view_indexes returns, from an item that no view has shown.
Drew(ps, done, v) ==
    /\ v \in Views(ps) /\ done \subseteq v.done /\ v.done # done
    /\ Leads(ps, v.ret) /\ Shows(ps, v.done \ done, v.ret)
    /\ \A i \in v.done \ done : i + 1 < Len(ps) /\ Leg(ps, i + 1) => Follows(v.ret, i)

LEMMA ViewDrawn ==
  ASSUME NEW ps \in Seq(KnownItem), Legal(ps), NEW done \in SUBSET Spots(ps), done # Spots(ps)
  PROVE  Drew(ps, done, view_indexes(ps, done))
<1> DEFINE n == Len(ps)
           first == FirstOpen(ps, done)
           base == [idx |-> first, ret |-> <<>>, done |-> done, failed |-> FALSE]
           p == Passes(ps)
           V == {v \in Views(ps) : ViewInv(ps, done, first, v)}
           G == [v \in V |-> ViewStep(ps, v)]
           Is(h) == h = [k \in 0 .. p |-> IF k = 0 THEN base ELSE ViewStep(ps, h[k - 1])]
           f == CHOOSE h : Is(h)
<1>1. n \in Nat /\ p \in Nat /\ Spots(ps) = 0 .. n - 1
  <2>1. n \in Nat
    OBVIOUS
  <2> QED BY <2>1 DEF Passes, Spots
<1>2. first \in Spots(ps) /\ first \notin done
  <2> DEFINE T == Spots(ps) \ done
             Free(i) == i \notin done /\ \A j \in 0 .. i - 1 : j \in done
  <2>1. T \in SUBSET Nat /\ T # {}
    <3>1. Spots(ps) \in SUBSET Nat
      BY <1>1
    <3>2. done \subseteq Spots(ps) /\ done # Spots(ps)
      OBVIOUS
    <3>3. T # {}
      BY <3>2
    <3> QED BY <3>1, <3>3
  <2>2. PICK i \in T : \A m \in T : i <= m
    BY <2>1, Least
  <2>3. i \in 0 .. n - 1 /\ i \in 0 .. n
    BY <1>1, <2>2
  <2>4. \A j \in 0 .. i - 1 : j \in done
    <3> TAKE j \in 0 .. i - 1
    <3>1. j \in 0 .. n - 1 /\ ~(i <= j)
      BY <2>3
    <3> QED BY <1>1, <2>2, <3>1
  <2>5. Free(i)
    BY <2>2, <2>4
  <2>6. first = CHOOSE j \in 0 .. n : Free(j)
    BY DEF FirstOpen
  <2>7. first \in 0 .. n /\ Free(first)
    <3> HIDE DEF Free, first
    <3> QED BY <2>3, <2>5, <2>6
  <2>8. first # n
    <3>1. CASE first = n
      <4>1. Spots(ps) \subseteq done
        BY <1>1, <2>7, <3>1
      <4> QED BY <2>2, <4>1
    <3> QED BY <3>1
  <2> HIDE DEF first
  <2> QED BY <1>1, <2>7, <2>8
<1> HIDE DEF first
<1>3. base \in V
  <2>1. ViewInv(ps, done, first, base)
    BY <1>2, ViewStart
  <2> QED BY <2>1 DEF ViewInv
<1>4. G \in [V -> V]
  <2>1. ASSUME NEW v \in V PROVE ViewStep(ps, v) \in V
    <3>1. ViewInv(ps, done, first, ViewStep(ps, v))
      BY <1>2, ViewKept
    <3> QED BY <3>1 DEF ViewInv
  <2> HIDE DEF V
  <2> QED BY <2>1
<1>5. \E h : Is(h)
  <2>1. PICK h : Steps(h, p, V, base, G)
    <3> HIDE DEF V, G, base, p, Is, f
    <3> QED BY <1>1, <1>3, <1>4, StepsExist
  <2>2. h \in [0 .. p -> V] /\ h[0] = base /\ \A k \in 1 .. p : h[k] = G[h[k - 1]]
    BY <2>1 DEF Steps
  <2>3. ASSUME NEW k \in 1 .. p PROVE h[k] = ViewStep(ps, h[k - 1])
    <3>1. k - 1 \in 0 .. p
      BY <1>1
    <3>2. h[k - 1] \in V
      BY <2>2, <3>1
    <3> QED BY <2>2, <3>2
  <2>4. Is(h)
    <3> HIDE DEF V, G, base
    <3>1. \A k \in 0 .. p : h[k] = IF k = 0 THEN base ELSE ViewStep(ps, h[k - 1])
      BY <1>1, <2>2, <2>3
    <3> HIDE DEF p
    <3> QED BY <2>2, <3>1
  <2> HIDE DEF Is
  <2> QED BY <2>4
<1>6. Is(f)
  <2> HIDE DEF Is
  <2> QED BY <1>5
<1>7. view_indexes(ps, done) = f[p]
  BY DEF view_indexes, first
<1> HIDE DEF f
<1>8. f[0] = base /\ \A k \in 1 .. p : f[k] = ViewStep(ps, f[k - 1])
  <2> HIDE DEF base, p
  <2> QED BY <1>1, <1>6
<1>9. 0 .. p \subseteq {k \in 0 .. p : f[k] \in V}
  <2> DEFINE S == {k \in 0 .. p : f[k] \in V}
  <2>1. 0 \in S
    <3> HIDE DEF V, base, p
    <3> QED BY <1>1, <1>3, <1>8
  <2>2. ASSUME NEW k \in 1 .. p, k - 1 \in S PROVE k \in S
    <3>1. f[k] = G[f[k - 1]] /\ k \in 0 .. p
      BY <1>1, <1>8, <2>2
    <3>2. f[k - 1] \in V
      BY <2>2
    <3> HIDE DEF V, G, p
    <3> QED BY <1>4, <3>1, <3>2
  <2> HIDE DEF S, p
  <2>3. 0 .. p \subseteq S
    BY <1>1, <2>1, <2>2, UpTo
  <2> QED BY <2>3 DEF S
<1>10. f[p].idx = n
  <2>1. \A k \in 0 .. p : f[k] \in Views(ps)
    BY <1>9
  <2> QED BY <1>8, <2>1, ViewEnds
<1>11. ViewInv(ps, done, first, f[p]) /\ f[p] \in Views(ps)
  <2>1. p \in 0 .. p
    <3> HIDE DEF p
    <3> QED BY <1>1
  <2> QED BY <1>9, <2>1
<1> DEFINE v == f[p]
<1> HIDE DEF v, p
<1>12. v.idx = n /\ ViewInv(ps, done, first, v) /\ v \in Views(ps)
  BY <1>10, <1>11 DEF v
<1>13. first \in v.done
  BY <1>1, <1>2, <1>12 DEF ViewInv
<1>14. ASSUME NEW i \in v.done \ done, i + 1 < n, Leg(ps, i + 1) PROVE Follows(v.ret, i)
  <2>1. ~Pending(v.ret, v.idx, i)
    <3>1. v.done \in SUBSET Spots(ps)
      BY <1>12 DEF Views
    <3> QED BY <1>1, <1>12, <1>14, <3>1 DEF Pending
  <2> QED BY <1>12, <1>14, <2>1 DEF ViewInv, Joins
<1>15. Drew(ps, done, v)
  BY <1>2, <1>12, <1>13, <1>14 DEF Drew, ViewInv
<1> QED BY <1>7, <1>15 DEF v

\* What view_list has drawn so far.
Drawings(ps) == [views : Seq(Seq(Spots(ps))), done : SUBSET Spots(ps), failed : {FALSE}]
ListInv(ps, r) ==
    /\ r \in Drawings(ps)
    /\ \A i \in r.done : is_location_wp(ps[i + 1]) => ShownIn(r.views, i)
    /\ \A i \in r.done : i + 1 < Len(ps) /\ Leg(ps, i + 1) => LegIn(r.views, i)
    /\ \A i \in DOMAIN r.views : Leads(ps, r.views[i])

LEMMA ListKept ==
  ASSUME NEW ps \in Seq(KnownItem), Legal(ps), NEW r, ListInv(ps, r)
  PROVE  /\ ListInv(ps, NextView(ps, r))
         /\ r.done = Spots(ps) => NextView(ps, r).done = Spots(ps)
         /\ r.done # Spots(ps) =>
              Cardinality(r.done) + 1 <= Cardinality(NextView(ps, r).done)
<1> DEFINE n == Len(ps)
           v == view_indexes(ps, r.done)
           views == IF v.ret = <<>> THEN r.views ELSE Append(r.views, v.ret)
           q == [views |-> views, done |-> v.done, failed |-> v.failed]
<1>1. n \in Nat /\ Spots(ps) = 0 .. n - 1 /\ r \in Drawings(ps)
  <2>1. n \in Nat
    OBVIOUS
  <2> QED BY <2>1 DEF Spots, ListInv
<1>2. r.views \in Seq(Seq(Spots(ps))) /\ r.done \in SUBSET Spots(ps)
  BY <1>1 DEF Drawings
<1>a. ~r.failed
  BY <1>1 DEF Drawings
<1>3. CASE r.done = Spots(ps)
  <2>1. Cardinality(r.done) = n
    <3>1. IsFiniteSet(0 .. n - 1)
          /\ Cardinality(0 .. n - 1) = IF 0 > n - 1 THEN 0 ELSE (n - 1) - 0 + 1
      BY <1>1, FS_Interval, SMTT(60)
    <3> QED BY <1>1, <1>3, <3>1
  <2>2. NextView(ps, r) = r
    BY <2>1 DEF NextView
  <2> QED BY <1>3, <2>2
<1>4. CASE r.done # Spots(ps)
  <2>1. Cardinality(r.done) # n
    BY <1>1, <1>2, <1>4, DoneCount
  <2>2. NextView(ps, r) = q
    BY <1>a, <2>1 DEF NextView
  <2>3. Drew(ps, r.done, v)
    BY <1>2, <1>4, ViewDrawn
  <2> HIDE DEF v
  <2>4. v \in Views(ps) /\ r.done \subseteq v.done /\ v.done # r.done
    BY <2>3 DEF Drew
  <2>5. v.ret \in Seq(Spots(ps)) /\ v.done \in SUBSET Spots(ps) /\ v.failed \in {FALSE}
    BY <2>4 DEF Views
  <2> DEFINE old == DOMAIN r.views
  <2>6. /\ views \in Seq(Seq(Spots(ps)))
        /\ \A i \in DOMAIN r.views : i \in DOMAIN views /\ views[i] = r.views[i]
        /\ v.ret # <<>> => \E i \in DOMAIN views : views[i] = v.ret
        /\ \A i \in DOMAIN views :
             (i \in DOMAIN r.views /\ views[i] = r.views[i]) \/ views[i] = v.ret
    <3> DEFINE T == Seq(Spots(ps))
    <3>1. r.views \in Seq(T) /\ v.ret \in T
      BY <1>2, <2>5
    <3> HIDE DEF T
    <3>2. CASE v.ret = <<>>
      <4>1. views = r.views
        BY <3>2
      <4> HIDE DEF views
      <4>2. views \in Seq(T)
        BY <3>1, <4>1
      <4> QED BY <3>2, <4>1, <4>2 DEF T
    <3>3. CASE v.ret # <<>>
      <4> DEFINE m == Len(r.views)
      <4>1. views = Append(r.views, v.ret)
        BY <3>3
      <4> HIDE DEF views
      <4>2. m \in Nat /\ DOMAIN r.views = 1 .. m
        BY <3>1
      <4>3. views \in Seq(T) /\ Len(views) = m + 1 /\ DOMAIN views = 1 .. m + 1
            /\ views[m + 1] = v.ret /\ \A i \in 1 .. m : views[i] = r.views[i]
        BY <3>1, <4>1
      <4>4. m + 1 \in DOMAIN views /\ \A i \in 1 .. m + 1 : i \in 1 .. m \/ i = m + 1
        BY <4>2, <4>3
      <4>5. \A i \in 1 .. m : i \in 1 .. m + 1
        BY <4>2
      <4> HIDE DEF m
      <4> QED BY <4>2, <4>3, <4>4, <4>5 DEF T
    <3> QED BY <3>2, <3>3
  <2> HIDE DEF views
  <2>7. q \in Drawings(ps)
    BY <2>5, <2>6 DEF Drawings
  <2>8. ASSUME NEW i \in v.done, is_location_wp(ps[i + 1]) PROVE ShownIn(views, i)
    <3>1. CASE i \in r.done
      <4>1. PICK j \in DOMAIN r.views : i \in ToSet(r.views[j])
        BY <2>8, <3>1 DEF ListInv, ShownIn
      <4> QED BY <2>6, <4>1 DEF ShownIn
    <3>2. CASE i \notin r.done
      <4>1. i \in ToSet(v.ret)
        BY <2>3, <2>8, <3>2 DEF Drew, Shows
      <4>2. v.ret # <<>>
        BY <4>1 DEF ToSet
      <4> QED BY <2>6, <4>1, <4>2 DEF ShownIn
    <3> QED BY <3>1, <3>2
  <2>9. ASSUME NEW i \in v.done, i + 1 < n, Leg(ps, i + 1) PROVE LegIn(views, i)
    <3>1. CASE i \in r.done
      <4>1. PICK j \in DOMAIN r.views : Follows(r.views[j], i)
        BY <2>9, <3>1 DEF ListInv, LegIn, Follows
      <4>2. j \in DOMAIN views /\ Follows(views[j], i)
        BY <2>6, <4>1
      <4> QED BY <4>2 DEF LegIn, Follows
    <3>2. CASE i \notin r.done
      <4>1. Follows(v.ret, i)
        BY <2>3, <2>9, <3>2 DEF Drew
      <4>2. v.ret # <<>>
        BY <4>1 DEF Follows
      <4>3. PICK j \in DOMAIN views : views[j] = v.ret
        BY <2>6, <4>2
      <4>4. Follows(views[j], i)
        BY <4>1, <4>3
      <4> QED BY <4>4 DEF LegIn, Follows
    <3> QED BY <3>1, <3>2
  <2>10. \A i \in DOMAIN views : Leads(ps, views[i])
    BY <2>3, <2>6 DEF Drew, ListInv
  <2>11. ListInv(ps, q)
    BY <2>7, <2>8, <2>9, <2>10 DEF ListInv
  <2>12. Cardinality(r.done) + 1 <= Cardinality(v.done)
    <3>1. Cardinality(r.done) \in 0 .. n /\ Cardinality(v.done) \in 0 .. n
          /\ Cardinality(r.done) < Cardinality(v.done)
      BY <1>1, <1>2, <2>4, <2>5, DoneCount
    <3> QED BY <1>1, <3>1
  <2> QED BY <1>4, <2>2, <2>11, <2>12
<1> QED BY <1>3, <1>4

LEMMA AllDrawn ==
  ASSUME NEW ps \in Seq(KnownItem), Legal(ps)
  PROVE  Drawn(ps, view_list(ps))
<1> DEFINE n == Len(ps)
           base == [views |-> <<>>, done |-> {}, failed |-> FALSE]
           V == {r \in Drawings(ps) : ListInv(ps, r)}
           G == [r \in V |-> NextView(ps, r)]
           Is(h) == h = [k \in 0 .. n |-> IF k = 0 THEN base ELSE NextView(ps, h[k - 1])]
           f == CHOOSE h : Is(h)
<1>1. n \in Nat /\ Spots(ps) = 0 .. n - 1 /\ DOMAIN ps = 1 .. n
  <2>1. n \in Nat /\ DOMAIN ps = 1 .. n
    OBVIOUS
  <2> QED BY <2>1 DEF Spots
<1>3. base \in V
  <2>1. <<>> \in Seq(Seq(Spots(ps))) /\ {} \in SUBSET Spots(ps)
    OBVIOUS
  <2>2. base \in Drawings(ps)
    BY <2>1 DEF Drawings
  <2>3. base.done = {} /\ DOMAIN base.views = {}
    OBVIOUS
  <2> QED BY <2>2, <2>3 DEF ListInv
<1>4. G \in [V -> V]
  <2>1. ASSUME NEW r \in V PROVE NextView(ps, r) \in V
    <3>1. ListInv(ps, NextView(ps, r))
      BY ListKept
    <3> QED BY <3>1 DEF ListInv
  <2> HIDE DEF V
  <2> QED BY <2>1
<1>5. \E h : Is(h)
  <2>1. PICK h : Steps(h, n, V, base, G)
    <3> HIDE DEF V, G, base, n, Is, f
    <3> QED BY <1>1, <1>3, <1>4, StepsExist
  <2>2. h \in [0 .. n -> V] /\ h[0] = base /\ \A k \in 1 .. n : h[k] = G[h[k - 1]]
    BY <2>1 DEF Steps
  <2>3. ASSUME NEW k \in 1 .. n PROVE h[k] = NextView(ps, h[k - 1])
    <3>1. k - 1 \in 0 .. n
      BY <1>1
    <3>2. h[k - 1] \in V
      BY <2>2, <3>1
    <3> QED BY <2>2, <3>2
  <2>4. Is(h)
    <3> HIDE DEF V, G, base
    <3>1. \A k \in 0 .. n : h[k] = IF k = 0 THEN base ELSE NextView(ps, h[k - 1])
      BY <1>1, <2>2, <2>3
    <3> HIDE DEF n
    <3> QED BY <2>2, <3>1
  <2> HIDE DEF Is
  <2> QED BY <2>4
<1>6. Is(f)
  <2> HIDE DEF Is
  <2> QED BY <1>5
<1>7. view_list(ps) = f[n]
  BY DEF view_list
<1> HIDE DEF f
<1>8. f[0] = base /\ \A k \in 1 .. n : f[k] = NextView(ps, f[k - 1])
  <2> HIDE DEF base, n
  <2> QED BY <1>1, <1>6
<1> DEFINE Far(k) == f[k].done = Spots(ps) \/ k <= Cardinality(f[k].done)
           S == {k \in 0 .. n : f[k] \in V /\ Far(k)}
<1>9. 0 \in S
  <2>1. f[0] \in V
    <3> HIDE DEF V, base
    <3> QED BY <1>3, <1>8
  <2>2. 0 <= Cardinality(f[0].done)
    BY <1>8, FS_EmptySet
  <2> QED BY <1>1, <2>1, <2>2
<1>10. ASSUME NEW k \in 1 .. n, k - 1 \in S PROVE k \in S
  <2>1. /\ f[k] = NextView(ps, f[k - 1]) /\ k \in 0 .. n /\ k \in Nat
        /\ ListInv(ps, f[k - 1]) /\ Far(k - 1) /\ f[k - 1] \in Drawings(ps)
    BY <1>1, <1>8, <1>10
  <2> DEFINE r == f[k - 1]
             q == f[k]
  <2>2. /\ ListInv(ps, q)
        /\ r.done = Spots(ps) => q.done = Spots(ps)
        /\ r.done # Spots(ps) => Cardinality(r.done) + 1 <= Cardinality(q.done)
    BY <2>1, ListKept
  <2>3. q \in V
    BY <2>2 DEF ListInv
  <2>4. Far(k)
    <3>1. CASE r.done = Spots(ps)
      BY <2>2, <3>1
    <3>2. CASE r.done # Spots(ps)
      <4>1. r.done \in SUBSET Spots(ps) /\ q.done \in SUBSET Spots(ps)
        BY <2>1, <2>3 DEF Drawings
      <4>2. Cardinality(r.done) \in 0 .. n /\ Cardinality(q.done) \in 0 .. n
        BY <1>1, <4>1, DoneCount
      <4>3. k - 1 <= Cardinality(r.done) /\ Cardinality(r.done) + 1 <= Cardinality(q.done)
        BY <2>1, <2>2, <3>2
      <4>4. k <= Cardinality(q.done)
        BY <1>1, <2>1, <4>2, <4>3
      <4> QED BY <4>4
    <3> QED BY <3>1, <3>2
  <2> HIDE DEF V, Far
  <2> QED BY <2>1, <2>3, <2>4
<1>11. 0 .. n \subseteq S
  <2> HIDE DEF S, n
  <2> QED BY <1>1, <1>9, <1>10, UpTo
<1>12. f[n] \in V /\ Far(n)
  <2> HIDE DEF V, Far
  <2> QED BY <1>1, <1>11
<1> DEFINE r == f[n]
<1>13. ListInv(ps, r) /\ r \in Drawings(ps) /\ (r.done = Spots(ps) \/ n <= Cardinality(r.done))
  BY <1>12
<1> HIDE DEF r
<1>14. r.done = 0 .. n - 1 /\ ~r.failed
  <2>1. r.done \in SUBSET Spots(ps) /\ r.failed \in {FALSE}
    BY <1>13 DEF Drawings
  <2>2. Cardinality(r.done) \in 0 .. n /\ (Cardinality(r.done) = n => r.done = 0 .. n - 1)
    BY <1>1, <2>1, DoneCount
  <2>3. r.done = Spots(ps) \/ Cardinality(r.done) = n
    BY <1>1, <1>13, <2>2
  <2> QED BY <1>1, <2>1, <2>2, <2>3
<1>15. ASSUME NEW i \in DOMAIN ps, is_location_wp(ps[i]) PROVE ShownIn(r.views, i - 1)
  <2>1. i - 1 \in r.done /\ (i - 1) + 1 = i
    BY <1>1, <1>14
  <2> QED BY <1>13, <1>15, <2>1 DEF ListInv
<1>16. ASSUME NEW i \in 1 .. n - 1, Leg(ps, i) PROVE LegIn(r.views, i - 1)
  <2>1. i - 1 \in r.done /\ (i - 1) + 1 = i /\ (i - 1) + 1 < n
    BY <1>1, <1>14
  <2> QED BY <1>13, <1>16, <2>1 DEF ListInv
<1>17. ASSUME NEW i \in DOMAIN r.views, NEW k \in 2 .. Len(r.views[i])
       PROVE  ps[r.views[i][k] + 1].command # "DO_LAND_START"
  <2>1. Leads(ps, r.views[i])
    BY <1>13 DEF ListInv
  <2> QED BY <2>1 DEF Leads
<1>18. Drawn(ps, r)
  BY <1>14, <1>15, <1>16, <1>17 DEF Drawn
<1> QED BY <1>7, <1>18 DEF r

-----------------------------------------------------------------------------
(* Every item knows its own place, and the views of a mission are complete.     *)

\* The lists of pymavlink stay indexed, whatever is added, inserted, set, removed or loaded,
\* and every mission whose jumps stay in it is drawn whole (reindex, view_list).
THEOREM ListsSoundAlways == ASSUME WpAssumption PROVE WpSpec => []ListsSound
<1>1. WpInit => WpInv
  BY WpStart
<1>2. WpInv /\ [WpNext]_wpvars => WpInv'
  BY WpStep
<1>3. WpInv => ListsSound
  <2> SUFFICES ASSUME WpInv PROVE ListsSound
    OBVIOUS
  <2>1. wpoints \in Seq(KnownItem) /\ (~unindexed => InPlace(wpoints))
    BY DEF WpInv, WpTyped
  <2>2. Legal(wpoints) => Drawn(wpoints, view_list(wpoints))
    BY <2>1, AllDrawn
  <2> QED BY <2>1, <2>2 DEF ListsSound, InPlace
<1> QED BY <1>1, <1>2, <1>3, PTL DEF WpSpec

(* --------------------------- parameters set and loaded ---------------------- *)
Fields == {"name", "value", "typed", "retries", "polls", "sent", "stale"}

(* The records have their fields, a vehicle answers for the parameters it has, and *)
(* nothing is looked for before it was sent.                                       *)
Formed ==
    /\ DOMAIN vehicle = Names
    /\ DOMAIN call = Fields /\ call.stale \in BOOLEAN
    /\ DOMAIN file = {"lines", "known", "check", "failed"}
    /\ file.failed \in BOOLEAN /\ file.check \in BOOLEAN
    /\ \A m \in net : m.kind = "PARAM_VALUE" => m.name \in Names
    /\ call # Idle /\ ~call.sent => call.polls = 0

(* The lines that are left are the end of the file; the set that runs is that of the *)
(* line before them.                                                                  *)
ParmLines == Seq([kind : {"value", "word", "other"}, name : STRING, value : Int])
Behind == Len(file.lines) - Len(todo)
LeftOver ==
    /\ file.lines \in ParmLines /\ todo \in ParmLines /\ Len(todo) <= Len(file.lines)
    /\ \A i \in 1 .. Len(todo) : todo[i] = file.lines[Behind + i]
Loading == file.lines # <<>> /\ (todo # <<>> \/ call # Idle)
Current ==
    Loading =>
        /\ file.check => file.known \subseteq DOMAIN parms
        /\ call # Idle => /\ Behind \in 1 .. Len(file.lines) /\ Wanted(file.lines[Behind])
                          /\ call.name = file.lines[Behind].name
                          /\ call.value = file.lines[Behind].value /\ call.typed = FALSE

(* Without older messages, everything on its way about the parameter is from this set: *)
(* who answers has the value.                                                          *)
Ours ==
    call # Idle /\ ~call.stale =>
        \A m \in net : m.name = call.name =>
            /\ m.value = call.value
            /\ m.kind = "PARAM_VALUE" => vehicle[call.name] = call.value

(* What a load that has not failed knows of the parameters of its file, but for the one *)
(* it is setting: dictionary, vehicle and messages agree, and the lines read so far are *)
(* at the vehicle.                                                                       *)
Setting(n) == call # Idle /\ call.name = n
Agree ==
    \A n \in Names : Mentions(file.lines, n) /\ ~Setting(n) =>
        /\ \A m \in net : m.name = n => m.value = vehicle[n]
        /\ n \in DOMAIN parms => parms[n] = vehicle[n]
LastSoFar(i) ==
    \A j \in 1 .. Behind : j > i /\ Wanted(file.lines[j]) => file.lines[j].name # file.lines[i].name
Reached ==
    \A i \in 1 .. Behind :
        /\ Wanted(file.lines[i]) /\ file.lines[i].name \in Names /\ ~Setting(file.lines[i].name)
        /\ file.check => file.lines[i].name \in file.known
        /\ LastSoFar(i)
        => vehicle[file.lines[i].name] = file.lines[i].value
Sound == ~file.failed /\ ~(call # Idle /\ call.stale)
Knows == Loading /\ Sound => Agree /\ Reached

IInv == Formed /\ LeftOver /\ Current /\ Ours /\ Knows

LEMMA Initially == ParmInit => IInv
<1> SUFFICES ASSUME ParmInit PROVE IInv
  OBVIOUS
<1>1. Formed
  BY DEF ParmInit, Formed, Fields, Idle, NoParmFile
<1>2. LeftOver
  BY DEF ParmInit, LeftOver, NoParmFile, ParmLines, Behind
<1>3. ~Loading /\ call = Idle
  BY DEF ParmInit, Loading
<1>4. QED
  BY <1>1, <1>2, <1>3 DEF IInv, Current, Ours, Knows

(* A set begins: it is one that runs, with nothing to look for yet. *)
LEMMA BeginsFormed ==
    ASSUME NEW name, NEW value, NEW typed, Begin(name, value, typed)
    PROVE  /\ DOMAIN call' = Fields /\ call'.stale \in BOOLEAN /\ call' # Idle /\ call'.polls = 0
           /\ call'.name = name /\ call'.value = value /\ call'.typed = typed
           /\ ~call'.stale => \A m \in net : m.name # name
BY ParmAssumption DEF Begin, Idle, Fields

(* What sending and waiting do to the set that runs. *)
LEMMA StillRuns ==
    ASSUME Formed, Send \/ Sleep
    PROVE  /\ DOMAIN call' = Fields /\ call # Idle /\ call' # Idle /\ call'.sent
           /\ call'.name = call.name /\ call'.value = call.value /\ call'.typed = call.typed
           /\ call'.stale = call.stale
<1>1. CASE Send
  BY <1>1 DEF Send, Formed, Fields, Idle
<1>2. CASE Sleep
  <2>1. call.sent
    BY <1>2 DEF Sleep, Formed
  <2>2. QED
    BY <1>2, <2>1 DEF Sleep, Formed, Fields, Idle
<1>3. QED
  BY <1>1, <1>2

LEMMA FormedKept == IInv /\ [ParmNext]_parmvars => Formed'
<1> SUFFICES ASSUME IInv, [ParmNext]_parmvars PROVE Formed'
  OBVIOUS
<1> USE DEF IInv
<1>1. CASE mavset
  <2>1. PICK name \in Names, value \in Values, typed \in BOOLEAN : Begin(name, value, typed)
    BY <1>1 DEF mavset
  <2>2. QED
    BY <1>1, <2>1, BeginsFormed DEF mavset, Formed, NoParmFile
<1>2. CASE Refuse \/ Lose \/ Fill
  BY <1>2 DEF Refuse, Lose, Fill, Formed
<1>3. CASE Send \/ Sleep
  <2>1. \A m \in net' : m.kind = "PARAM_VALUE" => m.name \in Names
    BY <1>3 DEF Send, Sleep, Formed
  <2>2. QED
    BY <1>3, <2>1, StillRuns DEF Send, Sleep, Formed
<1>4. CASE Poll
  <2>1. PICK m \in net : /\ net' = net \ {m}
                         /\ Finished(m) \/ UNCHANGED <<call, result, parms, file>>
    BY <1>4 DEF Poll
  <2>2. CASE Finished(m)
    BY <1>4, <2>1, <2>2 DEF Poll, Finished, Formed, Idle, Fields
  <2>3. CASE UNCHANGED <<call, result, parms, file>>
    BY <1>4, <2>1, <2>3 DEF Poll, Formed
  <2>4. QED
    BY <2>1, <2>2, <2>3
<1>5. CASE TimeOut
  BY <1>5 DEF TimeOut, Formed, Idle, Fields
<1>6. CASE load
  BY <1>6 DEF load, Formed, Uncertain
<1>7. CASE Line
  <2>1. CASE Skipped(todo[1])
    BY <1>7, <2>1 DEF Line, Formed
  <2>2. CASE ~Skipped(todo[1])
    <3>1. Begin(todo[1].name, todo[1].value, FALSE)
      BY <1>7, <2>2 DEF Line
    <3>2. QED
      BY <1>7, <3>1, BeginsFormed DEF Line, Formed
  <2>3. QED
    BY <2>1, <2>2
<1>8. CASE LineRaises
  <2>1. file' = file \/ file' = NoParmFile
    BY <1>8 DEF LineRaises
  <2>2. UNCHANGED <<vehicle, net, call>>
    BY <1>8 DEF LineRaises
  <2>3. /\ DOMAIN file' = {"lines", "known", "check", "failed"}
        /\ file'.failed \in BOOLEAN /\ file'.check \in BOOLEAN
    <3>1. CASE file' = file
      BY <3>1 DEF Formed
    <3>2. CASE file' = NoParmFile
      BY <3>2 DEF NoParmFile
    <3>3. QED
      BY <2>1, <3>1, <3>2
  <2>4. QED
    BY <2>2, <2>3 DEF Formed
<1>9. CASE Handle
  <2>1. PICK m \in net :
          /\ m.name \in Names /\ vehicle' = [vehicle EXCEPT ![m.name] = m.value]
          /\ net' = (net \ {m}) \union {[kind |-> "PARAM_VALUE",
                                         name |-> m.name, value |-> m.value, typed |-> m.typed]}
    BY <1>9 DEF Handle
  <2>2. QED
    BY <1>9, <2>1 DEF Handle, Formed
<1>10. CASE UNCHANGED parmvars
  BY <1>10 DEF parmvars, Formed
<1>11. QED
  BY <1>1, <1>2, <1>3, <1>4, <1>5, <1>6, <1>7, <1>8, <1>9, <1>10 DEF ParmNext

(* A line is taken from what is left of the file. *)
LEMMA LineTaken ==
    ASSUME LeftOver, todo # <<>>, todo' = Tail(todo), file' = file
    PROVE  /\ LeftOver' /\ Behind' = Behind + 1 /\ Behind \in Nat /\ Behind' \in 1 .. Len(file.lines)
           /\ todo[1] = file.lines[Behind'] /\ file.lines # <<>>
<1>1. /\ todo' \in ParmLines /\ Len(todo') = Len(todo) - 1 /\ Len(todo) \in Nat \ {0}
      /\ \A i \in 1 .. Len(todo') : todo'[i] = todo[i + 1]
  BY DEF LeftOver, ParmLines
<1>2. Len(file.lines) \in Nat /\ Behind' = Behind + 1 /\ Behind \in Nat /\ Behind' \in 1 .. Len(file.lines)
  BY <1>1 DEF LeftOver, ParmLines, Behind
<1>3. \A i \in 1 .. Len(todo') : todo'[i] = file'.lines[Behind' + i]
  BY <1>1, <1>2 DEF LeftOver
<1>4. LeftOver'
  BY <1>1, <1>2, <1>3 DEF LeftOver
<1>5. todo[1] = file.lines[Behind']
  BY <1>1, <1>2 DEF LeftOver
<1>6. file.lines # <<>>
  BY <1>2
<1>7. QED
  BY <1>2, <1>4, <1>5, <1>6

LEMMA InPlaceKept == IInv /\ [ParmNext]_parmvars => LeftOver'
<1> SUFFICES ASSUME IInv, [ParmNext]_parmvars PROVE LeftOver'
  OBVIOUS
<1> USE DEF IInv
<1>1. CASE mavset
  BY <1>1 DEF mavset, LeftOver, NoParmFile, ParmLines, Behind
<1>2. CASE load
  BY <1>2, ParmAssumption DEF load, LeftOver, ParmLines, Behind
<1>3. CASE Line
  BY <1>3, LineTaken DEF Line
<1>4. CASE LineRaises
  <2>1. CASE todo' = Tail(todo) /\ file' = file
    BY <1>4, <2>1, LineTaken DEF LineRaises
  <2>2. CASE todo' = <<>> /\ file' = NoParmFile
    BY <2>2 DEF LeftOver, NoParmFile, ParmLines, Behind
  <2>3. QED
    BY <1>4, <2>1, <2>2 DEF LineRaises
<1>5. ASSUME todo' = todo, file'.lines = file.lines PROVE LeftOver'
  BY <1>5 DEF LeftOver, Behind
<1>6. CASE Poll \/ TimeOut
  BY <1>5, <1>6 DEF Poll, Finished, TimeOut, Formed
<1>7. CASE Refuse \/ Lose \/ Fill \/ Send \/ Sleep \/ Handle \/ UNCHANGED parmvars
  BY <1>5, <1>7 DEF Refuse, Lose, Fill, Send, Sleep, Handle, parmvars
<1>8. QED
  BY <1>1, <1>2, <1>3, <1>4, <1>6, <1>7 DEF ParmNext

(* The set that runs is that of the line last read, and a parameter the load knew is *)
(* known still.                                                                        *)
LEMMA CurrentKept == IInv /\ [ParmNext]_parmvars => Current'
<1> SUFFICES ASSUME IInv, [ParmNext]_parmvars PROVE Current'
  OBVIOUS
<1> USE DEF IInv
<1>1. CASE mavset
  BY <1>1 DEF mavset, NoParmFile, Current, Loading
<1>2. CASE load
  BY <1>2 DEF load, Current
<1>3. CASE Line
  <2>1. /\ Behind' \in 1 .. Len(file.lines) /\ todo[1] = file.lines[Behind']
        /\ Loading /\ UNCHANGED <<file, parms>> /\ call = Idle
    BY <1>3, LineTaken DEF Line, Loading
  <2>2. CASE Skipped(todo[1])
    BY <1>3, <2>1, <2>2 DEF Line, Current
  <2>3. CASE ~Skipped(todo[1])
    <3>1. Begin(todo[1].name, todo[1].value, FALSE) /\ Wanted(todo[1])
      BY <1>3, <2>3 DEF Line, Skipped
    <3>2. call'.name = todo[1].name /\ call'.value = todo[1].value /\ call'.typed = FALSE
      BY <3>1, BeginsFormed
    <3>3. QED
      BY <2>1, <3>1, <3>2 DEF Current
  <2>4. QED
    BY <2>2, <2>3
<1>4. CASE LineRaises
  <2>1. call = Idle /\ call' = Idle /\ parms' = parms /\ todo # <<>>
    BY <1>4 DEF LineRaises
  <2>2. CASE file' = file
    BY <2>1, <2>2 DEF Current, Loading
  <2>3. CASE file' = NoParmFile
    BY <2>3 DEF NoParmFile, Current, Loading
  <2>4. QED
    BY <1>4, <2>2, <2>3 DEF LineRaises
<1>5. CASE Send \/ Sleep
  <2>1. UNCHANGED <<file, todo, parms>>
    BY <1>5 DEF Send, Sleep
  <2>2. QED
    BY <1>5, <2>1, StillRuns DEF Current, Loading, Behind
<1>6. CASE Poll
  <2>1. CASE \E m \in net : Finished(m)
    <3>1. /\ call' = Idle /\ todo' = todo /\ DOMAIN parms \subseteq DOMAIN parms' /\ call # Idle
          /\ file'.lines = file.lines /\ file'.check = file.check /\ file'.known = file.known
      BY <1>6, <2>1 DEF Poll, Finished, With, Formed
    <3>2. QED
      BY <3>1 DEF Current, Loading
  <2>2. CASE UNCHANGED <<call, result, parms, file>>
    BY <1>6, <2>2 DEF Poll, Current, Loading, Behind
  <2>3. QED
    BY <1>6, <2>1, <2>2 DEF Poll
<1>7. CASE TimeOut
  <2>1. /\ call' = Idle /\ todo' = todo /\ parms' = parms /\ call # Idle
        /\ file'.lines = file.lines /\ file'.check = file.check /\ file'.known = file.known
    BY <1>7 DEF TimeOut, Formed
  <2>2. QED
    BY <2>1 DEF Current, Loading
<1>8. CASE Fill
  BY <1>8 DEF Fill, Current, Loading
<1>9. CASE Refuse \/ Lose \/ Handle \/ UNCHANGED parmvars
  BY <1>9 DEF Refuse, Lose, Handle, parmvars, Current, Loading, Behind
<1>10. QED
  BY <1>1, <1>2, <1>3, <1>4, <1>5, <1>6, <1>7, <1>8, <1>9 DEF ParmNext

(* What is on its way about the parameter that is set stays from this set. *)
LEMMA OursKept == IInv /\ [ParmNext]_parmvars => Ours'
<1> SUFFICES ASSUME IInv, [ParmNext]_parmvars PROVE Ours'
  OBVIOUS
<1> USE DEF IInv
<1>1. ASSUME NEW name, NEW value, NEW typed, Begin(name, value, typed), net' = net PROVE Ours'
  BY <1>1, BeginsFormed DEF Ours
<1>2. ASSUME call' = Idle PROVE Ours'
  BY <1>2 DEF Ours
<1>3. CASE mavset \/ Line
  BY <1>1, <1>2, <1>3 DEF mavset, Line
<1>4. CASE Refuse \/ load \/ LineRaises \/ Fill \/ TimeOut
  BY <1>2, <1>4 DEF Refuse, load, LineRaises, Fill, TimeOut
<1>5. CASE Send \/ Sleep
  <2>1. vehicle' = vehicle /\ \A m \in net' : m \in net \/
            (m.kind = "PARAM_SET" /\ m.name = call.name /\ m.value = call.value)
    BY <1>5 DEF Send, Sleep
  <2>2. QED
    BY <1>5, <2>1, StillRuns DEF Ours
<1>6. CASE Poll
  <2>1. CASE \E m \in net : Finished(m)
    BY <1>2, <2>1 DEF Finished
  <2>2. CASE call' = call
    BY <1>6, <2>2 DEF Poll, Ours
  <2>3. QED
    BY <1>6, <2>1, <2>2 DEF Poll
<1>7. CASE Handle
  <2>1. PICK m \in net :
          /\ m.name \in Names /\ vehicle' = [vehicle EXCEPT ![m.name] = m.value]
          /\ net' = (net \ {m}) \union {[kind |-> "PARAM_VALUE",
                                         name |-> m.name, value |-> m.value, typed |-> m.typed]}
    BY <1>7 DEF Handle
  <2>2. vehicle'[m.name] = m.value /\ \A n \in Names \ {m.name} : vehicle'[n] = vehicle[n]
    BY <2>1 DEF Formed
  <2>3. \A x \in net' : \/ x \in net
                        \/ x.kind = "PARAM_VALUE" /\ x.name = m.name /\ x.value = m.value
    BY <2>1
  <2>4. call' = call
    BY <1>7 DEF Handle
  <2>5. \A x \in net : x.kind = "PARAM_VALUE" => x.name \in Names
    BY DEF Formed
  <2>6. QED
    BY <2>1, <2>2, <2>3, <2>4, <2>5 DEF Ours
<1>8. CASE Lose \/ UNCHANGED parmvars
  BY <1>8 DEF Lose, parmvars, Ours
<1>9. QED
  BY <1>3, <1>4, <1>5, <1>6, <1>7, <1>8 DEF ParmNext

(* The goal for a load that goes on: what it knows, and what it has done. *)
Goes == Loading /\ Sound /\ IInv

(* A step that keeps file, set, vehicle and dictionary keeps what the load knows. *)
LEMMA Unmoved ==
    ASSUME Goes, UNCHANGED <<file, todo, vehicle, parms>>,
           call' # Idle <=> call # Idle, call'.name = call.name,
           \A m \in net' : m \in net \/ Setting(m.name)
    PROVE  Agree' /\ Reached'
<1>1. Agree /\ Reached /\ Behind' = Behind
  BY DEF Goes, IInv, Knows, Behind
<1>2. \A n : Setting(n)' <=> Setting(n)
  BY DEF Setting
<1>3. \A n : Mentions(file.lines, n)' <=> Mentions(file.lines, n)
  BY DEF Mentions, Wanted
<1>4. Agree'
  BY <1>1, <1>2, <1>3 DEF Agree, Setting
<1>5. \A i : LastSoFar(i)' <=> LastSoFar(i)
  BY <1>1 DEF LastSoFar, Wanted
<1>6. Reached'
  BY <1>1, <1>2, <1>5 DEF Reached, Setting, Wanted
<1>7. QED
  BY <1>4, <1>6

(* The vehicle takes a value that is on its way: it is that of the set that runs, *)
(* or one the vehicle has already.                                                 *)
LEMMA HandleGoes == ASSUME Goes, Handle PROVE Agree' /\ Reached'
<1>1. PICK m \in net :
        /\ m.name \in Names /\ vehicle' = [vehicle EXCEPT ![m.name] = m.value]
        /\ net' = (net \ {m}) \union {[kind |-> "PARAM_VALUE",
                                       name |-> m.name, value |-> m.value, typed |-> m.typed]}
  BY DEF Handle
<1>2. UNCHANGED <<file, todo, parms, call>>
  BY DEF Handle
<1>3. Agree /\ Reached /\ Behind' = Behind /\ DOMAIN vehicle = Names
  BY <1>2 DEF Goes, IInv, Knows, Formed, Behind
<1>4. \A n \in Names : Mentions(file.lines, n) /\ ~Setting(n) => vehicle'[n] = vehicle[n]
  BY <1>1, <1>3 DEF Agree
<1>5. \A x \in net' : x \in net \/ (x.name = m.name /\ x.value = m.value)
  BY <1>1
<1>6. Agree'
  BY <1>1, <1>2, <1>3, <1>4, <1>5 DEF Agree, Setting, Mentions, Wanted
<1>7. \A i \in 1 .. Behind : Wanted(file.lines[i]) => Mentions(file.lines, file.lines[i].name)
  <2>1. Behind <= Len(file.lines) /\ DOMAIN file.lines = 1 .. Len(file.lines) /\ Len(file.lines) \in Nat
        /\ Len(todo) \in Nat
    BY DEF Goes, IInv, LeftOver, ParmLines, Behind
  <2>2. QED
    BY <2>1 DEF Mentions, Behind
<1>8. Reached'
  BY <1>2, <1>3, <1>4, <1>7 DEF Reached, LastSoFar, Setting, Wanted
<1>9. QED
  BY <1>6, <1>8

(* An answer ends the set: whatever was on its way about the parameter is of this set, *)
(* so that vehicle, dictionary and messages have the value of the line.                *)
LEMMA FinishedGoes ==
    ASSUME Goes, Poll, NEW m \in net, Finished(m), m.kind = "PARAM_VALUE", Answers(m),
           net' = net \ {m}
    PROVE  Agree' /\ Reached'
<1>1. /\ UNCHANGED <<vehicle, todo>> /\ file'.lines = file.lines
      /\ file'.check = file.check /\ file'.known = file.known /\ call' = Idle /\ call # Idle
  BY DEF Poll, Finished, Goes, IInv, Formed
<1>2. Agree /\ Reached /\ Behind' = Behind
  BY <1>1 DEF Goes, IInv, Knows, Behind
<1>3. /\ ~call.stale /\ m.name = call.name /\ vehicle[call.name] = call.value
      /\ \A x \in net : x.name = call.name => x.value = call.value
  BY <1>1 DEF Goes, IInv, Ours, Sound, Answers
<1>4. /\ Behind \in 1 .. Len(file.lines) /\ Wanted(file.lines[Behind])
      /\ call.name = file.lines[Behind].name /\ call.value = file.lines[Behind].value
      /\ call.typed = FALSE
  BY <1>1 DEF Goes, IInv, Current
<1>5. parms' = With(parms, call.name, call.value)
  BY <1>4 DEF Finished, Numeric
<1>6. \A n \in Names : Mentions(file.lines, n) =>
        /\ \A x \in net' : x.name = n => x.value = vehicle[n]
        /\ n \in DOMAIN parms' => parms'[n] = vehicle[n]
  <2>1. SUFFICES ASSUME NEW n \in Names, Mentions(file.lines, n)
                 PROVE  /\ \A x \in net' : x.name = n => x.value = vehicle[n]
                        /\ n \in DOMAIN parms' => parms'[n] = vehicle[n]
    OBVIOUS
  <2>2. CASE n = call.name
    BY <1>3, <1>5, <2>2 DEF With
  <2>3. CASE n # call.name
    <3>1. n \in DOMAIN parms' => n \in DOMAIN parms /\ parms'[n] = parms[n]
      BY <1>5, <2>3 DEF With
    <3>2. QED
      BY <1>2, <2>1, <2>3, <3>1 DEF Agree, Setting
  <2>4. QED
    BY <2>2, <2>3
<1>7. Agree'
  BY <1>1, <1>6 DEF Agree, Mentions, Wanted
<1>8. ASSUME NEW i \in 1 .. Behind, Wanted(file.lines[i]), file.lines[i].name \in Names,
             file.check => file.lines[i].name \in file.known, LastSoFar(i)
      PROVE  vehicle[file.lines[i].name] = file.lines[i].value
  <2>1. CASE file.lines[i].name = call.name
    <3>1. i = Behind
      BY <1>4, <1>8, <2>1 DEF LastSoFar
    <3>2. QED
      BY <1>3, <1>4, <3>1
  <2>2. CASE file.lines[i].name # call.name
    BY <1>2, <1>8, <2>2 DEF Reached, Setting
  <2>3. QED
    BY <2>1, <2>2
<1>9. Reached'
  BY <1>1, <1>2, <1>8 DEF Reached, LastSoFar, Wanted
<1>10. QED
  BY <1>7, <1>9

(* A line is read: one that is skipped has its value at the vehicle already, or is *)
(* about a parameter the load does not know.                                        *)
LEMMA LineGoes ==
    ASSUME Goes, todo # <<>>, todo' = Tail(todo), UNCHANGED <<file, vehicle, net, parms>>,
           call = Idle, ~Wanted(todo[1]) \/ Line
    PROVE  Agree' /\ Reached'
<1>1. /\ Behind' = Behind + 1 /\ Behind \in Nat /\ Behind' \in 1 .. Len(file.lines)
      /\ todo[1] = file.lines[Behind'] /\ file.lines \in ParmLines
  BY LineTaken DEF Goes, IInv, LeftOver
<1>2. Agree /\ Reached /\ \A n : ~Setting(n)
  BY DEF Goes, IInv, Knows, Setting
<1>3. Agree'
  BY <1>2 DEF Agree, Mentions, Wanted
<1>4. Mentions(file.lines, todo[1].name) \/ ~Wanted(todo[1])
  BY <1>1 DEF Mentions, ParmLines
<1>5. file.check => file.known \subseteq DOMAIN parms
  BY DEF Goes, IInv, Current
<1>6. ASSUME Wanted(todo[1]), todo[1].name \in Names, ~(call' # Idle /\ call'.name = todo[1].name),
             file.check => todo[1].name \in file.known
      PROVE  vehicle[todo[1].name] = todo[1].value
  <2>1. Line
    BY <1>6
  <2>2. CASE Skipped(todo[1])
    <3>1. todo[1].name \in DOMAIN parms /\ parms[todo[1].name] = todo[1].value
      BY <1>5, <1>6, <2>2 DEF Skipped
    <3>2. QED
      BY <1>2, <1>4, <1>6, <3>1 DEF Agree
  <2>3. CASE ~Skipped(todo[1])
    <3>1. Begin(todo[1].name, todo[1].value, FALSE)
      BY <2>1, <2>3 DEF Line
    <3>2. QED
      BY <1>6, <3>1, BeginsFormed
  <2>4. QED
    BY <2>2, <2>3
<1>7. ASSUME NEW i \in 1 .. Behind', Wanted(file.lines[i]), file.lines[i].name \in Names,
             ~(call' # Idle /\ call'.name = file.lines[i].name),
             file.check => file.lines[i].name \in file.known, LastSoFar(i)'
      PROVE  vehicle[file.lines[i].name] = file.lines[i].value
  <2>1. CASE i = Behind'
    BY <1>1, <1>6, <1>7, <2>1
  <2>2. CASE i \in 1 .. Behind
    <3>1. LastSoFar(i)
      BY <1>1, <1>7 DEF LastSoFar, Wanted
    <3>2. QED
      BY <1>2, <1>7, <2>2, <3>1 DEF Reached
  <2>3. QED
    BY <1>1, <2>1, <2>2
<1>8. Reached'
  BY <1>7 DEF Reached, Wanted, Setting
<1>9. QED
  BY <1>3, <1>8

(* Every step of a load that does not fail keeps what it knows and adds what it did. *)
LEMMA LoadGoes ==
    ASSUME IInv, Loading, [ParmNext]_parmvars, file'.lines # <<>>, Sound'
    PROVE  /\ Agree' /\ Reached'
           /\ file'.lines = file.lines /\ file'.check = file.check /\ file'.known = file.known
<1>1. ASSUME file' = file, call' = call \/ call = Idle PROVE Goes
  BY <1>1 DEF Goes, Sound
<1>2. CASE mavset \/ Refuse \/ load \/ Fill
  BY <1>2 DEF mavset, Refuse, load, Fill, Loading
<1>3. CASE Send \/ Sleep
  <2>1. /\ UNCHANGED <<file, todo, vehicle, parms>>
        /\ \A m \in net' : m \in net \/ m.name = call.name
    BY <1>3 DEF Send, Sleep
  <2>2. /\ call # Idle /\ call' # Idle /\ call'.name = call.name /\ call'.stale = call.stale
    BY <1>3, StillRuns DEF IInv
  <2>3. Goes
    BY <2>1, <2>2 DEF Goes, Sound
  <2>4. QED
    BY <2>1, <2>2, <2>3, Unmoved DEF Setting
<1>4. CASE Poll
  <2>1. PICK m \in net : /\ m.kind = "PARAM_VALUE" /\ net' = net \ {m}
                         /\ \/ Answers(m) /\ Finished(m)
                            \/ ~Answers(m) /\ UNCHANGED <<call, result, parms, file>>
    BY <1>4 DEF Poll
  <2>2. CASE Answers(m) /\ Finished(m)
    <3>1. /\ file'.lines = file.lines /\ file'.check = file.check /\ file'.known = file.known
          /\ file'.failed = (file.failed \/ call.stale)
      BY <2>2 DEF Finished, IInv, Formed
    <3>2. Goes
      BY <3>1 DEF Goes, Sound
    <3>3. QED
      BY <1>4, <2>1, <2>2, <3>1, <3>2, FinishedGoes
  <2>3. CASE UNCHANGED <<call, result, parms, file>>
    BY <1>1, <1>4, <2>1, <2>3, Unmoved DEF Poll
  <2>4. QED
    BY <2>1, <2>2, <2>3
<1>5. CASE TimeOut
  BY <1>5 DEF TimeOut, IInv, Formed, Sound
<1>6. CASE Line
  <2>1. todo # <<>> /\ todo' = Tail(todo) /\ call = Idle /\ UNCHANGED <<file, vehicle, net, parms>>
    BY <1>6 DEF Line
  <2>2. QED
    BY <1>1, <1>6, <2>1, LineGoes
<1>7. CASE LineRaises
  <2>1. /\ todo # <<>> /\ todo[1].kind = "word" /\ call = Idle /\ UNCHANGED <<vehicle, net, parms>>
        /\ (todo' = Tail(todo) /\ file' = file) \/ file' = NoParmFile
    BY <1>7 DEF LineRaises
  <2>2. file' = file /\ todo' = Tail(todo)
    BY <2>1 DEF NoParmFile
  <2>3. ~Wanted(todo[1])
    BY <2>1 DEF Wanted
  <2>4. QED
    BY <1>1, <2>1, <2>2, <2>3, LineGoes
<1>8. CASE Handle
  BY <1>1, <1>8, HandleGoes DEF Handle
<1>9. CASE Lose \/ UNCHANGED parmvars
  BY <1>1, <1>9, Unmoved DEF Lose, parmvars
<1>10. QED
  BY <1>2, <1>3, <1>4, <1>5, <1>6, <1>7, <1>8, <1>9 DEF ParmNext

(* A load begins with what the vehicle has, or counts as failed. *)
LEMMA KeptKept == IInv /\ [ParmNext]_parmvars => Knows'
<1> SUFFICES ASSUME IInv, [ParmNext]_parmvars, Loading', Sound' PROVE Agree' /\ Reached'
  BY DEF Knows
<1>1. CASE Loading
  BY <1>1, LoadGoes DEF Loading
<1>2. CASE load
  <2>1. PICK lines \in ParmFiles : /\ todo' = lines /\ file'.lines = lines
                                   /\ file'.failed = Uncertain(lines)
    BY <1>2 DEF load
  <2>2. UNCHANGED <<vehicle, net, parms>> /\ lines \in ParmLines
    BY <1>2, ParmAssumption DEF load, ParmLines
  <2>3. ~Uncertain(lines)
    BY <2>1 DEF Sound
  <2>4. Agree'
    BY <2>1, <2>2, <2>3 DEF Agree, Uncertain, Mentions, Wanted
  <2>5. Behind' = 0
    BY <2>1, <2>2 DEF Behind, ParmLines
  <2>6. QED
    BY <2>4, <2>5 DEF Reached
<1>3. CASE ~Loading /\ ~load
  <2>1. CASE file.lines = <<>>
    <3>1. todo = <<>>
      BY <2>1 DEF IInv, LeftOver, ParmLines
    <3>2. \/ file' = file \/ file' = NoParmFile \/ file'.lines = file.lines
      BY <1>3, <3>1 DEF ParmNext, parmvars, mavset, Refuse, Send, Poll, Finished, Sleep, TimeOut,
          Line, LineRaises, Fill, Handle, Lose, IInv, Formed
    <3>3. QED
      BY <2>1, <3>2 DEF NoParmFile, Loading
  <2>2. CASE todo = <<>> /\ call = Idle
    <3>1. CASE mavset
      BY <3>1 DEF mavset, NoParmFile, Loading
    <3>2. CASE ~mavset
      <4>1. todo' = todo /\ call' = call
        BY <1>3, <2>2, <3>2 DEF ParmNext, parmvars, Refuse, Send, Poll, Sleep, TimeOut,
            Line, LineRaises, Fill, Handle, Lose
      <4>2. QED
        BY <2>2, <4>1 DEF Loading
    <3>3. QED
      BY <3>1, <3>2
  <2>3. QED
    BY <1>3, <2>1, <2>2 DEF Loading
<1>4. QED
  BY <1>1, <1>2, <1>3

(* A set that ends with TRUE was ended by an answer. *)
LEMMA SetKeptHere == IInv /\ [ParmNext]_parmvars => SetKept
<1> SUFFICES ASSUME IInv, [ParmNext]_parmvars, SetReturns, ~call.stale
             PROVE  vehicle'[call.name] = call.value
  BY DEF SetKept
<1>1. call # Idle /\ call' = Idle /\ result' = "set"
  BY DEF SetReturns
<1>2. ~(Send \/ Sleep)
  BY <1>1, StillRuns DEF IInv
<1>3. Poll
  BY <1>1, <1>2 DEF ParmNext, parmvars, mavset, Refuse, TimeOut, load, Line, LineRaises, Fill,
      Handle, Lose
<1>4. PICK m \in net : m.kind = "PARAM_VALUE" /\ Answers(m)
  BY <1>1, <1>3 DEF Poll
<1>5. vehicle' = vehicle
  BY <1>3 DEF Poll
<1>6. QED
  BY <1>1, <1>4, <1>5 DEF IInv, Ours, Answers

LEMMA LoadKeptHere == IInv /\ [ParmNext]_parmvars /\ IInv' => LoadKept
<1> SUFFICES ASSUME IInv, [ParmNext]_parmvars, IInv', LoadReturns, ~file'.failed,
                    NEW i \in DOMAIN file'.lines, Promised(file', i)
             PROVE  vehicle'[file'.lines[i].name] = file'.lines[i].value
  BY DEF LoadKept
<1>1. Loading /\ todo' = <<>> /\ call' = Idle /\ file'.lines # <<>>
  BY DEF LoadReturns, Loading
<1>2. Reached'
  BY <1>1, LoadGoes DEF Sound
<1>3. Behind' = Len(file'.lines) /\ DOMAIN file'.lines = 1 .. Behind'
  BY <1>1 DEF Behind, IInv, LeftOver, ParmLines
<1>4. ~Setting(file.lines[i].name)'
  BY <1>1 DEF Setting
<1>5. QED
  BY <1>2, <1>3, <1>4 DEF Reached, Promised, LastSoFar, Wanted

(* With any number of parameters, retries, calls and messages on their way, lost or   *)
(* overtaken: a set that returns TRUE has set the vehicle, and a load none of whose    *)
(* sets failed has left every value it may set there, if no older message was about    *)
(* what they set (MAVParmDict.mavset and load, which compare the name of an answer).    *)
THEOREM SetsReachAlways == ParmSpec => SetsReach
<1>1. IInv /\ [ParmNext]_parmvars => IInv'
  BY FormedKept, InPlaceKept, CurrentKept, OursKept, KeptKept DEF IInv
<1>2. IInv /\ [ParmNext]_parmvars /\ IInv' => [SetKept /\ LoadKept]_parmvars
  BY SetKeptHere, LoadKeptHere
<1>3. QED
  BY Initially, <1>1, <1>2, PTL DEF ParmSpec, SetsReach
===============================================================================
