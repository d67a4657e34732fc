----------------------------- MODULE MavFtpProofs -----------------------------
(* Theorem about MavFtp, with its proof: what callers are told of their        *)
(* transfers holds (TransfersSound), whatever the link loses or delays.  The   *)
(* invariant gives each phase of a call its own account of the client, the     *)
(* link and the server; it is stated after the lemmas about data.              *)
EXTENDS MavFtp, SequenceTheorems, FiniteSetTheorems, WellFoundedInduction, TLAPS

(* ---------------------------- sequences and folds --------------------------- *)
(* Induction over the naturals and folds, with no operator as a parameter: a      *)
(* property is a set, the operation that is repeated a function.                  *)
\* A sequence of any values is one of its own elements.
Sequential(s) == s \in Seq(ToSet(s))

\* The elements of a sequence of none and of one.
LEMMA OneElement == ToSet(<<>>) = {} /\ \A a : ToSet(<<a>>) = {a}
BY DEF ToSet

\* A sequence without elements is empty.
LEMMA NoElement ==
    ASSUME NEW s, Sequential(s)
    PROVE  s = <<>> <=> ToSet(s) = {}
<1>1. \A t : Sequential(t) => (t = <<>> <=> ToSet(t) = {})
  BY DEF Sequential, ToSet
<1> QED BY <1>1

\* A sequence over a set has its elements in it.
LEMMA IntoSeq ==
    ASSUME NEW S, NEW s \in Seq(S)
    PROVE  Sequential(s) /\ ToSet(s) \subseteq S
<1>1. \A i \in 1 .. Len(s) : s[i] \in ToSet(s)
  BY DEF ToSet
<1>2. s = [i \in 1 .. Len(s) |-> s[i]] /\ Len(s) \in Nat
  OBVIOUS
<1>3. Sequential(s)
  BY <1>1, <1>2, IsASeq DEF Sequential
<1> QED BY <1>3 DEF ToSet

\* A sequence is one over any set that has its elements.
LEMMA Wider ==
    ASSUME NEW s, Sequential(s), NEW T, ToSet(s) \subseteq T
    PROVE  s \in Seq(T)
BY SeqMonotonic DEF Sequential

\* One element more.
LEMMA Appended ==
    ASSUME NEW s, Sequential(s), NEW e
    PROVE  /\ Sequential(Append(s, e))
           /\ ToSet(Append(s, e)) = ToSet(s) \union {e}
           /\ DOMAIN Append(s, e) = 1 .. Len(s) + 1
           /\ DOMAIN s = 1 .. Len(s) /\ Len(s) \in Nat
           /\ \A i \in DOMAIN s : Append(s, e)[i] = s[i]
           /\ Append(s, e)[Len(s) + 1] = e
<1> DEFINE S == ToSet(s) \union {e}
<1>1. s \in Seq(S) /\ e \in S
  BY Wider
<1> HIDE DEF S
<1>2. /\ Append(s, e) \in Seq(S) /\ Len(Append(s, e)) = Len(s) + 1
      /\ \A i \in 1 .. Len(s) : Append(s, e)[i] = s[i]
      /\ Append(s, e)[Len(s) + 1] = e /\ Len(s) \in Nat /\ DOMAIN s = 1 .. Len(s)
  BY <1>1, AppendProperties
<1>3. DOMAIN Append(s, e) = 1 .. Len(s) + 1
  BY <1>2
<1>4. ToSet(Append(s, e)) \subseteq ToSet(s) \union {e}
  BY <1>2, <1>3 DEF ToSet
<1>5. ToSet(s) \subseteq ToSet(Append(s, e)) /\ e \in ToSet(Append(s, e))
  BY <1>2, <1>3 DEF ToSet
<1> QED BY <1>2, <1>3, <1>4, <1>5, IntoSeq

\* The first element is taken away.
LEMMA Taken ==
    ASSUME NEW s, Sequential(s), s # <<>>
    PROVE  /\ Sequential(Tail(s)) /\ ToSet(Tail(s)) \subseteq ToSet(s)
           /\ Head(s) \in ToSet(s) /\ Head(s) = s[1] /\ 1 \in DOMAIN s
           /\ Len(s) \in Nat /\ Len(Tail(s)) = Len(s) - 1 /\ DOMAIN s = 1 .. Len(s)
           /\ DOMAIN Tail(s) = 1 .. Len(s) - 1
           /\ \A i \in DOMAIN Tail(s) : i + 1 \in DOMAIN s /\ i + 1 # 1 /\ Tail(s)[i] = s[i + 1]
           /\ \A i \in DOMAIN s : i = 1 \/ (i - 1 \in DOMAIN Tail(s) /\ Tail(s)[i - 1] = s[i])
<1>1. s \in Seq(ToSet(s))
  BY DEF Sequential
<1>2. /\ Head(s) \in ToSet(s) /\ Tail(s) \in Seq(ToSet(s)) /\ Len(Tail(s)) = Len(s) - 1
      /\ \A i \in 1 .. Len(Tail(s)) : Tail(s)[i] = s[i + 1]
  BY <1>1, HeadTailProperties
<1>3. DOMAIN s = 1 .. Len(s) /\ DOMAIN Tail(s) = 1 .. Len(s) - 1 /\ Len(s) \in Nat \ {0}
  BY <1>1, <1>2
<1>4. Head(s) = s[1]
  BY <1>1
<1>5. ToSet(Tail(s)) \subseteq ToSet(s)
  BY <1>2, IntoSeq
<1>6. Sequential(Tail(s))
  BY <1>2, IntoSeq
<1> QED BY <1>2, <1>3, <1>4, <1>5, <1>6

\* Two sequences are joined.
LEMMA Joined ==
    ASSUME NEW s, Sequential(s), NEW t, Sequential(t)
    PROVE  Sequential(s \o t) /\ ToSet(s \o t) \subseteq ToSet(s) \union ToSet(t)
<1> DEFINE S == ToSet(s) \union ToSet(t)
<1>1. s \in Seq(S) /\ t \in Seq(S)
  BY Wider
<1>2. s \o t \in Seq(S)
  BY <1>1, ConcatProperties
<1> QED BY <1>2, IntoSeq

\* Two sequences that share no element.
LEMMA Concatenated ==
    ASSUME NEW s, Sequential(s), NEW t, Sequential(t)
    PROVE  /\ Sequential(s \o t) /\ ToSet(s \o t) = ToSet(s) \union ToSet(t)
           /\ /\ \A i, j \in DOMAIN s : s[i] = s[j] => i = j
              /\ \A i, j \in DOMAIN t : t[i] = t[j] => i = j
              /\ ToSet(s) \intersect ToSet(t) = {}
              => \A i, j \in DOMAIN (s \o t) : (s \o t)[i] = (s \o t)[j] => i = j
<1> DEFINE S == ToSet(s) \union ToSet(t)
           a == Len(s)
           b == Len(t)
           u == s \o t
<1>1. s \in Seq(S) /\ t \in Seq(S)
  BY Wider
<1> HIDE DEF S
<1>2. /\ u \in Seq(S) /\ Len(u) = a + b
      /\ \A i \in 1 .. a + b : u[i] = IF i <= a THEN s[i] ELSE t[i - a]
  BY <1>1, ConcatProperties
<1>3. a \in Nat /\ b \in Nat /\ DOMAIN s = 1 .. a /\ DOMAIN t = 1 .. b /\ DOMAIN u = 1 .. a + b
  BY <1>1, <1>2
<1> HIDE DEF u, a, b
<1>4. Sequential(u) /\ ToSet(u) \subseteq ToSet(s) \union ToSet(t)
  BY <1>2, IntoSeq DEF S
<1>5. ASSUME NEW x \in ToSet(s) PROVE x \in ToSet(u)
  <2>1. PICK i \in 1 .. a : x = s[i]
    BY <1>3 DEF ToSet
  <2>2. i \in 1 .. a + b /\ u[i] = x
    BY <1>2, <1>3, <2>1
  <2> QED BY <1>3, <2>2 DEF ToSet
<1>6. ASSUME NEW x \in ToSet(t) PROVE x \in ToSet(u)
  <2>1. PICK i \in 1 .. b : x = t[i]
    BY <1>3 DEF ToSet
  <2>2. i + a \in 1 .. a + b /\ ~(i + a <= a) /\ i + a - a = i
    BY <1>3
  <2>3. u[i + a] = x
    BY <1>2, <1>3, <2>1, <2>2
  <2> QED BY <1>3, <2>2, <2>3 DEF ToSet
<1>7. ASSUME \A i, j \in DOMAIN s : s[i] = s[j] => i = j,
             \A i, j \in DOMAIN t : t[i] = t[j] => i = j,
             ToSet(s) \intersect ToSet(t) = {},
             NEW i \in DOMAIN u, NEW j \in DOMAIN u, u[i] = u[j]
      PROVE  i = j
  <2>1. \A k \in 1 .. a + b : /\ k <= a => u[k] \in ToSet(s) /\ k \in DOMAIN s /\ u[k] = s[k]
                              /\ ~(k <= a) => /\ u[k] \in ToSet(t)
                                              /\ k - a \in DOMAIN t /\ u[k] = t[k - a]
    <3> SUFFICES ASSUME NEW k \in 1 .. a + b
                 PROVE  /\ k <= a => u[k] \in ToSet(s) /\ k \in DOMAIN s /\ u[k] = s[k]
                        /\ ~(k <= a) => /\ u[k] \in ToSet(t)
                                        /\ k - a \in DOMAIN t /\ u[k] = t[k - a]
      OBVIOUS
    <3>1. CASE k <= a
      <4>1. k \in 1 .. a /\ u[k] = s[k]
        BY <1>2, <1>3, <3>1
      <4> QED BY <1>3, <3>1, <4>1 DEF ToSet
    <3>2. CASE ~(k <= a)
      <4>1. k - a \in 1 .. b /\ u[k] = t[k - a]
        BY <1>2, <1>3, <3>2
      <4> QED BY <1>3, <3>2, <4>1 DEF ToSet
    <3> QED BY <3>1, <3>2
  <2>2. (i <= a) <=> (j <= a)
    BY <1>3, <1>7, <2>1
  <2>3. CASE i <= a /\ j <= a
    BY <1>3, <1>7, <2>1, <2>3
  <2>4. CASE ~(i <= a) /\ ~(j <= a)
    <3>1. i - a = j - a
      BY <1>3, <1>7, <2>1, <2>4
    <3> QED BY <1>3, <3>1
  <2> QED BY <2>2, <2>3, <2>4
<1> QED BY <1>4, <1>5, <1>6, <1>7 DEF u

\* One element is taken out and those behind it move down.
LEMMA RemovedAt ==
  ASSUME NEW T, NEW ps \in Seq(T), NEW k \in 1 .. Len(ps)
  PROVE  /\ RemoveAt(ps, k) \in Seq(T)
         /\ Len(RemoveAt(ps, k)) = Len(ps) - 1
         /\ \A j \in 1 .. Len(ps) - 1 : RemoveAt(ps, k)[j] = ps[IF j < k THEN j ELSE j + 1]
<1> DEFINE front == SubSeq(ps, 1, k - 1)
           back == SubSeq(ps, k + 1, Len(ps))
<1>1. front \in Seq(T) /\ Len(front) = k - 1 /\ \A j \in 1 .. k - 1 : front[j] = ps[j]
  OBVIOUS
<1>2. back \in Seq(T) /\ Len(back) = Len(ps) - k /\ \A j \in 1 .. Len(ps) - k : back[j] = ps[j + k]
  OBVIOUS
<1>3. RemoveAt(ps, k) = front \o back
  BY DEF RemoveAt
<1>4. Len(ps) \in Nat /\ k \in 1 .. Len(ps)
  OBVIOUS
<1> HIDE DEF front, back
<1>5. front \o back \in Seq(T) /\ Len(front \o back) = Len(ps) - 1
  <2>1. front \o back \in Seq(T) /\ Len(front \o back) = Len(front) + Len(back)
    BY <1>1, <1>2, ConcatProperties
  <2>2. k - 1 + (Len(ps) - k) = Len(ps) - 1
    BY <1>4
  <2> QED BY <1>1, <1>2, <2>1, <2>2
<1>6. ASSUME NEW j \in 1 .. Len(ps) - 1
      PROVE  (front \o back)[j] = ps[IF j < k THEN j ELSE j + 1]
  <2>1. CASE j < k
    BY <1>1, <1>2, <1>4, <2>1
  <2>2. CASE j >= k
    <3>1. (front \o back)[j] = back[j - (k - 1)]
      BY <1>1, <1>2, <1>4, <2>2
    <3>2. j - (k - 1) \in 1 .. Len(ps) - k
      BY <1>4, <2>2
    <3>3. back[j - (k - 1)] = ps[(j - (k - 1)) + k]
      BY <1>2, <3>2
    <3>4. (j - (k - 1)) + k = j + 1 /\ ~(j < k)
      BY <1>4, <2>2
    <3> QED BY <3>1, <3>3, <3>4
  <2>3. j < k \/ j >= k
    BY <1>4
  <2> QED BY <2>1, <2>2, <2>3
<1> QED BY <1>3, <1>5, <1>6

\* Every set of naturals that is not empty has a least element.
LEMMA Least ==
    ASSUME NEW S \in SUBSET Nat, S # {}
    PROVE  \E m \in S : \A x \in S : m <= x
<1> DEFINE R == OpToRel(<, Nat)
<1>1. IsWellFoundedOn(R, Nat)
  BY NatLessThanWellFounded
<1>2. PICK m \in S : \A y \in S : ~(<<y, m>> \in R)
  <2> HIDE DEF R
  <2> QED
    BY <1>1, WFMin
<1>3. ASSUME NEW y \in S
      PROVE  m <= y
  <2>1. ~(y < m)
    BY <1>2 DEF OpToRel
  <2> QED
    BY <2>1
<1> QED
  BY <1>3

\* The first of the elements that are e is taken out; all of them are different.
LEMMA RemovedFirst ==
  ASSUME NEW s, Sequential(s), NEW e \in ToSet(s),
         \A i, j \in DOMAIN s : s[i] = s[j] => i = j
  PROVE  LET t == RemoveFirst(s, e) IN
         /\ Sequential(t) /\ ToSet(t) = ToSet(s) \ {e}
         /\ \A i, j \in DOMAIN t : t[i] = t[j] => i = j
<1> DEFINE S == {i \in 1 .. Len(s) : s[i] = e}
           k == Min(S)
           t == RemoveAt(s, k)
<1>1. DOMAIN s = 1 .. Len(s) /\ Len(s) \in Nat /\ s \in Seq(ToSet(s))
  BY DEF Sequential
<1>2. \E i \in 1 .. Len(s) : s[i] = e
  BY <1>1 DEF ToSet
<1>3. S \in SUBSET Nat /\ S # {}
  BY <1>2
<1>4. k \in S
  <2>1. PICK i \in S : \A j \in S : i <= j
    BY <1>3, Least
  <2> QED BY <2>1, Zenon DEF Min
<1>5. RemoveFirst(s, e) = t
  BY <1>2 DEF RemoveFirst, SelectInSeq
<1>6. k \in 1 .. Len(s) /\ s[k] = e
  BY <1>4
<1> HIDE DEF S, k
<1>7. /\ t \in Seq(ToSet(s)) /\ Len(t) = Len(s) - 1
      /\ \A j \in 1 .. Len(s) - 1 : t[j] = s[IF j < k THEN j ELSE j + 1]
  <2> DEFINE T == ToSet(s)
  <2>1. s \in Seq(T)
    BY <1>1
  <2> HIDE DEF T
  <2>2. /\ t \in Seq(T) /\ Len(t) = Len(s) - 1
        /\ \A j \in 1 .. Len(s) - 1 : t[j] = s[IF j < k THEN j ELSE j + 1]
    BY <1>6, <2>1, RemovedAt
  <2> QED BY <2>2 DEF T
<1> HIDE DEF t
<1>8. DOMAIN t = 1 .. Len(s) - 1
  BY <1>7
<1>9. ToSet(t) = ToSet(s) \ {e}
  <2>1. ASSUME NEW x \in ToSet(t) PROVE x \in ToSet(s) \ {e}
    <3>1. PICK j \in 1 .. Len(s) - 1 : x = t[j]
      BY <1>8 DEF ToSet
    <3>2. PICK i \in 1 .. Len(s) : i # k /\ x = s[i]
      <4>1. CASE j < k
        BY <1>1, <1>6, <1>7, <3>1, <4>1, SMTT(60)
      <4>2. CASE ~(j < k)
        BY <1>1, <1>6, <1>7, <3>1, <4>2
      <4> QED BY <4>1, <4>2
    <3> QED BY <1>1, <1>6, <3>2 DEF ToSet
  <2>2. ASSUME NEW x \in ToSet(s), x # e PROVE x \in ToSet(t)
    <3>1. PICK i \in 1 .. Len(s) : x = s[i] /\ i # k
      BY <1>1, <1>6, <2>2 DEF ToSet
    <3>2. CASE i < k
      <4>1. i \in 1 .. Len(s) - 1 /\ t[i] = s[i]
        BY <1>1, <1>6, <1>7, <3>2
      <4> QED BY <1>8, <3>1, <4>1 DEF ToSet
    <3>3. CASE i > k
      <4>1. i - 1 \in 1 .. Len(s) - 1 /\ t[i - 1] = s[i]
        <5>1. i - 1 \in 1 .. Len(s) - 1 /\ ~(i - 1 < k) /\ i - 1 + 1 = i
          BY <1>1, <1>6, <3>3
        <5> QED BY <1>7, <5>1
      <4> QED BY <1>8, <3>1, <4>1 DEF ToSet
    <3> QED BY <1>6, <3>1, <3>2, <3>3
  <2> QED BY <2>1, <2>2
<1>10. ASSUME NEW i \in DOMAIN t, NEW j \in DOMAIN t, t[i] = t[j] PROVE i = j
  <2> DEFINE Was(x) == IF x < k THEN x ELSE x + 1
  <2>1. /\ Was(i) \in DOMAIN s /\ t[i] = s[Was(i)]
        /\ Was(j) \in DOMAIN s /\ t[j] = s[Was(j)]
    BY <1>1, <1>6, <1>7, <1>8
  <2>2. Was(i) = Was(j)
    BY <1>10, <2>1
  <2>3. i \in Nat /\ j \in Nat /\ k \in Nat
    BY <1>1, <1>6, <1>8
  <2> QED BY <2>2, <2>3
<1> QED BY <1>5, <1>7, <1>9, <1>10, IntoSeq

(* --------------------------------- induction -------------------------------- *)
\* Induction up to n; S is the set of those numbers that have the property.
LEMMA UpTo ==
  ASSUME NEW n \in Nat, NEW S, 0 \in S, \A k \in 1 .. n : k - 1 \in S => k \in S
  PROVE  0 .. n \subseteq S
<1> SUFFICES ASSUME (0 .. n) \ S # {} PROVE FALSE
  OBVIOUS
<1>1. (0 .. n) \ S \in SUBSET Nat
  OBVIOUS
<1>2. PICK k \in (0 .. n) \ S : \A m \in (0 .. n) \ S : k <= m
  BY <1>1, Least
<1>3. k \in 1 .. n /\ k - 1 \in 0 .. n /\ ~(k <= k - 1)
  BY <1>2
<1> QED BY <1>2, <1>3

(* FoldLeft takes the places of a sequence in their order by taking away the *)
(* largest place of a set of places.                                         *)
LEMMA MaxIn ==
  ASSUME NEW n \in Nat, NEW s \in SUBSET (1 .. n), s # {}
  PROVE  /\ Max(s) \in s
         /\ \A x \in s : x <= Max(s)
<1> DEFINE T == {n - x : x \in s}
<1>1. T \in SUBSET Nat /\ T # {}
  <2>1. \A x \in s : n - x \in Nat
    OBVIOUS
  <2> QED BY <2>1
<1>2. PICK d \in T : \A e \in T : d <= e
  BY <1>1, Least
<1>3. PICK x \in s : d = n - x
  BY <1>2
<1>4. ASSUME NEW y \in s PROVE y <= x
  <2>1. n - y \in T
    OBVIOUS
  <2>2. n - x <= n - y
    BY <1>2, <1>3, <2>1
  <2> QED BY <2>2
<1>5. \E z \in s : \A y \in s : z >= y
  BY <1>4
<1>6. Max(s) \in s /\ \A y \in s : Max(s) >= y
  BY <1>5, Zenon DEF Max
<1> QED BY <1>6

\* A set of numbers up to k, without k.
LEMMA Lower ==
  ASSUME NEW k \in Nat \ {0}, NEW s \in SUBSET (1 .. k)
  PROVE  /\ s \ {k} \in SUBSET (1 .. k - 1) /\ s \ {k} \in SUBSET (1 .. k)
         /\ k \notin s \ {k}
         /\ k \notin s => s \in SUBSET (1 .. k - 1)
<1>1. \A x \in 1 .. k : x # k => x \in 1 .. k - 1
  OBVIOUS
<1>2. \A x \in s : x \in 1 .. k
  OBVIOUS
<1> QED BY <1>1, <1>2

\* What is at the top is the maximum.
LEMMA MaxTop ==
  ASSUME NEW k \in Nat \ {0}, NEW s \in SUBSET (1 .. k), k \in s
  PROVE  Max(s) = k
<1> k \in Nat /\ s # {}
  OBVIOUS
<1>1. Max(s) \in s /\ k <= Max(s)
  BY MaxIn
<1>2. Max(s) \in 1 .. k
  BY <1>1
<1> QED BY <1>1, <1>2

\* g has the value of the fold for each set of places: G[v, i] is the result of
\* folding the element at place i into v.
Folds(g, n, V, base, G) ==
  /\ g \in [SUBSET (1 .. n) -> V]
  /\ \A s \in SUBSET (1 .. n) :
       g[s] = IF s = {} THEN base ELSE G[<<g[s \ {Max(s)}], Max(s)>>]

\* The function that a fold is defined by exists.
LEMMA FoldExists ==
  ASSUME NEW n \in Nat, NEW V, NEW base \in V, NEW G \in [V \X (1 .. n) -> V]
  PROVE  \E g : Folds(g, n, V, base, G)
<1> DEFINE Fold(g, k) == \A s \in SUBSET (1 .. k) :
             g[s] = IF s = {} THEN base ELSE G[<<g[s \ {Max(s)}], Max(s)>>]
           S == {k \in 0 .. n : \E g \in [SUBSET (1 .. k) -> V] : Fold(g, k)}
<1>1. 0 \in S
  <2> DEFINE g == [s \in SUBSET (1 .. 0) |-> base]
  <2>1. \A s \in SUBSET (1 .. 0) : s = {}
    OBVIOUS
  <2>2. g \in [SUBSET (1 .. 0) -> V] /\ Fold(g, 0)
    BY <2>1
  <2>3. 0 \in 0 .. n
    OBVIOUS
  <2> HIDE DEF g, Fold
  <2> QED BY <2>2, <2>3
<1>2. ASSUME NEW k \in 1 .. n, k - 1 \in S PROVE k \in S
  <2>1. PICK g \in [SUBSET (1 .. k - 1) -> V] : Fold(g, k - 1)
    BY <1>2
  <2> DEFINE h == [s \in SUBSET (1 .. k) |->
                     IF k \in s THEN G[<<g[s \ {k}], k>>] ELSE g[s]]
  <2>2. ASSUME NEW s \in SUBSET (1 .. k)
        PROVE  /\ h[s] \in V
               /\ h[s] = IF s = {} THEN base ELSE G[<<h[s \ {Max(s)}], Max(s)>>]
    <3>1. CASE k \in s
      <4>1. Max(s) = k
        BY <3>1, MaxTop
      <4>2. s \ {k} \in SUBSET (1 .. k - 1) /\ s \ {k} \in SUBSET (1 .. k) /\ k \notin s \ {k}
        <5> k \in Nat \ {0}
          OBVIOUS
        <5> QED BY Lower
      <4>3. h[s \ {k}] = g[s \ {k}] /\ g[s \ {k}] \in V
        BY <4>2
      <4>4. h[s] = G[<<g[s \ {k}], k>>]
        BY <3>1
      <4> QED BY <3>1, <4>1, <4>3, <4>4
    <3>2. CASE k \notin s
      <4>1. s \in SUBSET (1 .. k - 1) /\ h[s] = g[s] /\ g[s] \in V
        BY <3>2
      <4>2. CASE s = {}
        <5>1. g[s] = base
          BY <4>1, <4>2, <2>1
        <5> QED BY <4>1, <4>2, <5>1
      <4>3. CASE s # {}
        <5>1. Max(s) \in s
          <6> k \in Nat
            OBVIOUS
          <6> QED BY <4>3, MaxIn
        <5>2. /\ s \ {Max(s)} \in SUBSET (1 .. k - 1)
              /\ s \ {Max(s)} \in SUBSET (1 .. k) /\ k \notin s \ {Max(s)}
          BY <3>2, <4>1
        <5>3. h[s \ {Max(s)}] = g[s \ {Max(s)}]
          BY <5>2
        <5> QED BY <4>1, <4>3, <5>3, <2>1
      <4> QED BY <4>2, <4>3
    <3> QED BY <3>1, <3>2
  <2>3. h \in [SUBSET (1 .. k) -> V]
    BY <2>2
  <2>4. Fold(h, k)
    BY <2>2
  <2>5. k \in 0 .. n
    OBVIOUS
  <2> HIDE DEF h, Fold
  <2> QED BY <2>3, <2>4, <2>5
<1>3. n \in S
  <2> HIDE DEF S
  <2> QED BY <1>1, <1>2, UpTo
<1> QED BY <1>3 DEF Folds

\* Whatever set the first value is in and no step leaves, the fold is in: h is
\* the function FoldLeft is defined by.
LEMMA FoldIn ==
  ASSUME NEW n \in Nat, NEW V, NEW h,
         \A s \in SUBSET (1 .. n) : s = {} => h[s] \in V,
         \A s \in SUBSET (1 .. n) : s # {} /\ h[s \ {Max(s)}] \in V => h[s] \in V
  PROVE  h[1 .. n] \in V
<1> DEFINE S == {k \in 0 .. n : \A s \in SUBSET (1 .. k) : h[s] \in V}
<1>1. 0 \in S
  <2>1. \A s \in SUBSET (1 .. 0) : s = {} /\ s \in SUBSET (1 .. n)
    OBVIOUS
  <2> QED BY <2>1
<1>2. ASSUME NEW k \in 1 .. n, k - 1 \in S PROVE k \in S
  <2>1. ASSUME NEW s \in SUBSET (1 .. k) PROVE h[s] \in V
    <3>0. s \in SUBSET (1 .. n) /\ k \in Nat \ {0}
      OBVIOUS
    <3>1. CASE k \in s
      <4>1. Max(s) = k
        BY <3>0, <3>1, MaxTop
      <4>2. s \ {k} \in SUBSET (1 .. k - 1)
        BY <3>0, Lower
      <4>3. h[s \ {k}] \in V
        BY <1>2, <4>2
      <4> QED BY <3>0, <3>1, <4>1, <4>3
    <3>2. CASE k \notin s
      <4>1. s \in SUBSET (1 .. k - 1)
        BY <3>0, <3>2, Lower
      <4> QED BY <1>2, <4>1
    <3> QED BY <3>1, <3>2
  <2>2. k \in 0 .. n
    OBVIOUS
  <2> QED BY <2>1, <2>2
<1>3. n \in S
  <2>1. 0 .. n \subseteq S
    <3> HIDE DEF S
    <3> QED BY <1>1, <1>2, UpTo
  <2>2. n \in 0 .. n
    OBVIOUS
  <2> HIDE DEF S
  <2> QED BY <2>1, <2>2
<1>4. 1 .. n \in SUBSET (1 .. n)
  OBVIOUS
<1> QED BY <1>3, <1>4

(* -------------------------------- arithmetic -------------------------------- *)
LEMMA Products ==
    ASSUME NEW a \in Nat, NEW b \in Nat, NEW w \in Nat
    PROVE  /\ a * w \in Nat
           /\ a < b => a * w + w <= b * w
<1>1. a * w \in Nat /\ b * w \in Nat
  OBVIOUS
<1>2. ASSUME a < b PROVE a * w + w <= b * w
  <2>1. PICK d \in Nat : b = a + 1 + d
    <3>1. b - a - 1 \in Nat /\ b = a + 1 + (b - a - 1)
      BY <1>2
    <3> QED BY <3>1
  <2>2. b * w = a * w + w + d * w
    BY <2>1
  <2>3. d * w \in Nat
    OBVIOUS
  <2> QED BY <1>1, <2>2, <2>3
<1> QED BY <1>1, <1>2

\* What a quotient is.
LEMMA Quotient ==
    ASSUME NEW n \in Nat, NEW d \in Nat \ {0}
    PROVE  /\ n \div d \in Nat
           /\ (n \div d) * d <= n /\ n < (n \div d) * d + d
BY Z3

\* A multiple is divided.
LEMMA Divided ==
    ASSUME NEW b \in Nat, NEW w \in Nat \ {0}
    PROVE  (b * w) \div w = b
<1> DEFINE q == (b * w) \div w
<1>1. b * w \in Nat
  BY Products
<1>2. q \in Nat /\ q * w <= b * w /\ b * w < q * w + w
  BY <1>1, Quotient
<1> HIDE DEF q
<1>3. ~(q < b) /\ ~(b < q)
  <2>1. q < b => q * w + w <= b * w
    BY <1>2, Products
  <2>2. b < q => b * w + w <= q * w
    BY <1>2, Products
  <2>3. q * w \in Nat
    BY <1>2, Products
  <2> QED BY <1>1, <1>2, <2>1, <2>2, <2>3
<1> QED BY <1>2, <1>3 DEF q

(* -------------------------------- the invariant ----------------------------- *)
Fields == {"session", "last_op", "fh", "filename", "callback", "put_callback", "read_gaps",
           "read_gap_times", "too_fast", "read_total", "requested_offset", "requested_size",
           "reached_eof", "backlog", "burst_size", "last_burst_read", "op_start", "last_send",
           "open_retries", "write_list", "write_total", "write_idx", "write_recv_idx",
           "write_pending", "write_last_send", "write_file_size", "dir_offset",
           "list_temp_result", "list_result", "done", "quiet", "pc", "call", "ret", "told", "out"}

(* ---------------------------------- the parts ------------------------------- *)
\* What every state of the client has, also in the middle of a handler.
Formed(m) ==
    /\ DOMAIN m = Fields
    /\ m.session \in Nat /\ m.last_send \in Nat /\ m.quiet \in Nat
    /\ m.requested_offset \in Nat /\ m.done \in BOOLEAN
    /\ m.list_result \in {<<>>, Directory}
    /\ m.pc # "ready" => m.ret # "RemoteReplyTimeout"
    /\ Sequential(m.out)

NoGaps(m) == m.read_gaps = <<>> /\ m.read_gap_times = <<>>
Cleared(m) ==
    /\ m.fh = NotOpen /\ m.write_list = NoWrites
    /\ m.callback = FALSE /\ m.put_callback = FALSE /\ NoGaps(m)
    /\ m.read_total = 0 /\ m.last_burst_read = -1 /\ m.reached_eof = FALSE

NothingTold(m) == m.told = <<>> \/ m.told[1] = "failed"

IsOp(op) == /\ op = Op(op.opcode, op.session, op.offset, op.size, op.file)
            /\ op.session \in Nat /\ op.offset \in Nat /\ op.size \in Nat

Reading(m) ==
    /\ m.pc = "reply" /\ m.call \in {"get", "read"} /\ m.told = <<>>
    /\ m.callback \in BOOLEAN /\ m.put_callback = FALSE /\ m.write_list = NoWrites
    /\ m.call = "read" => m.callback = FALSE /\ m.done = FALSE
    /\ m.burst_size = burst_read_size

\* The file is asked for.
Asks(m) ==
    /\ Reading(m)
    /\ m.fh = NotOpen /\ NoGaps(m)
    /\ m.read_total = 0 /\ m.last_burst_read = -1 /\ m.reached_eof = FALSE
    /\ m.last_op = Op("OpenFileRO", m.session, 0, 0, m.filename)
    /\ m.open_retries \in 0 .. 2
    /\ m.op_start = IF m.last_send < ReadRetryTime THEN m.last_send ELSE ReadRetryTime

\* The file is read.
Begin(m) == IF m.callback THEN 0 ELSE m.requested_offset
GapSet(m) == ToSet(m.read_gaps)
In(o, g) == g[1] <= o /\ o < g[1] + g[2]
IsGap(g, m) == /\ g = <<g[1], g[2]>> /\ g[1] \in Nat /\ g[2] \in 1 .. burst_read_size
               /\ Begin(m) <= g[1] /\ g[1] + g[2] <= m.fh.tell
Apart(g, h) == g[1] + g[2] <= h[1] \/ h[1] + h[2] <= g[1]
Gaps(m) ==
    /\ Sequential(m.read_gaps)
    /\ \A i, j \in DOMAIN m.read_gaps : m.read_gaps[i] = m.read_gaps[j] => i = j
    /\ DOMAIN m.read_gap_times = GapSet(m)
    /\ \A g \in GapSet(m) : IsGap(g, m) /\ m.read_gap_times[g] \in Nat
    /\ \A g, h \in GapSet(m) : g # h => Apart(g, h)
    /\ \A g \in GapSet(m), o \in DOMAIN m.fh.data : ~In(o, g)
Target(m) == m.filename \in Files /\ m.filename # None /\ m.requested_size = Size[m.filename]
Had(m) ==
    /\ m.fh = [tell |-> m.fh.tell, data |-> m.fh.data] /\ m.fh.tell \in Nat
    /\ Begin(m) <= m.fh.tell
    /\ \A o \in DOMAIN m.fh.data : /\ o \in 0 .. m.requested_size - 1
                                   /\ Begin(m) <= o /\ o < m.fh.tell
                                   /\ m.fh.data[o] = m.filename
    /\ \A o \in Begin(m) .. m.fh.tell - 1 :
          o \in DOMAIN m.fh.data \/ \E g \in GapSet(m) : In(o, g)
    /\ m.read_total \in Nat /\ m.read_total <= Cardinality(DOMAIN m.fh.data)
ReadOp(op, session) ==
    /\ IsOp(op) /\ op.session = session
    /\ \/ op.opcode = "BurstReadFile" /\ op.size = burst_read_size
       \/ op.opcode = "ReadFile" /\ op.size \in 1 .. burst_read_size
Clocks(m) ==
    /\ m.reached_eof \in BOOLEAN
    /\ m.reached_eof => m.requested_size <= m.fh.tell
    /\ m.last_burst_read \in Nat /\ m.op_start \in Nat
Sends(m) ==
    /\ ReadOp(m.last_op, m.session)
    /\ \A op \in ToSet(m.out) : ReadOp(op, m.session)
Downloads(m) ==
    Formed(m) /\ Reading(m) /\ Target(m) /\ Had(m) /\ Gaps(m) /\ Clocks(m) /\ Sends(m)
\* Between two turns it is not known to be over.
GoesOn(m) == Downloads(m) /\ (m.reached_eof => m.read_gaps # <<>>)

\* A file is put.
Offsets(m) == {b * write_size : b \in 0 .. m.write_total - 1}
WriteOp(op, m) ==
    /\ IsOp(op) /\ op.session = m.session
    /\ op.opcode = "CreateFile" \/ (op.opcode = "WriteFile" /\ op.offset \in Offsets(m))
Puts(m) ==
    /\ m.pc = "reply" /\ m.call = "put" /\ m.told = <<>>
    /\ m.callback = FALSE /\ m.put_callback = TRUE
    /\ m.fh = [tell |-> 0, data |-> <<>>] /\ NoGaps(m)
    /\ m.read_total = 0 /\ m.last_burst_read = -1 /\ m.reached_eof = FALSE
    /\ m.write_file_size \in Nat /\ m.write_total = Blocks(m.write_file_size)
    /\ m.write_list \subseteq 0 .. m.write_total - 1
    /\ m.write_idx \in Nat /\ m.write_recv_idx \in Int /\ m.write_pending \in 0 .. write_qsize
    /\ m.write_last_send \in {-1, 0, 1} /\ (m.write_last_send = -1 => m.write_pending = 0)
    /\ WriteOp(m.last_op, m) /\ \A op \in ToSet(m.out) : WriteOp(op, m)

Lists(m) ==
    /\ m.pc = "reply" /\ m.call = "list" /\ m.told = <<>> /\ Cleared(m)
    /\ m.last_op = Op("ListDirectory", m.session, m.dir_offset, 0, None)
    /\ m.dir_offset \in 0 .. Len(Directory)
    /\ m.list_temp_result = SubSeq(Directory, 1, m.dir_offset)

Requests(m) ==
    /\ m.pc = "reply" /\ m.call \in Simple /\ m.told = <<>> /\ Cleared(m)
    /\ m.last_op = Op(m.call, m.session, 0, 0, None)

\* A read() that failed waits for its own end.
Failed(m) ==
    /\ m.pc = "reply" /\ m.call = "read" /\ m.done = FALSE /\ Cleared(m) /\ NothingTold(m)
    /\ m.last_op.opcode = "TerminateSession"

Ends(m) ==
    /\ m.pc \in {"terminating", "cancelling"} /\ Cleared(m)
    /\ m.last_op.opcode = "TerminateSession"
    /\ m.call = "put" => m.told # <<>>
    /\ m.call = "read" /\ ~m.done => NothingTold(m)
    /\ m.pc = "terminating" => m.call \in {"get", "read", "put"}
    /\ m.pc = "cancelling" => m.call = "cancel" /\ m.ret = "Success"

(* ---------------------------------- the link -------------------------------- *)
IsReply(r) == r.session \in Nat
World ==
    /\ DOMAIN server = {"open", "written"} /\ DOMAIN server.open = {"session", "file", "size"}
    /\ server.open.session \in Int /\ server.open.session <= c.session
    /\ server.open = NoSession \/ server.open.session \in Nat
    /\ Sequential(up) /\ Sequential(down)
    /\ \A op \in ToSet(up) : IsOp(op) /\ op.session <= c.session
    /\ \A r \in ToSet(down) : r.session \in Nat /\ r.session <= c.session
    /\ DOMAIN budget = {"loss", "late", "calls"} /\ budget.calls \in 0 .. MaxCalls
    /\ budget.loss \in Nat /\ budget.late \in Nat

Limit == 4 * (MaxCalls - budget.calls) + 1
NoLink == up = <<>> /\ down = <<>>

Asking ==
    /\ Asks(c) /\ c.last_send < IdleTime /\ c.session + 4 - c.open_retries <= Limit
    /\ \A i \in DOMAIN up :
          IF up[i].session = c.session THEN i = Len(up) /\ up[i] = c.last_op
          ELSE up[i].opcode \in {"OpenFileRO", "TerminateSession"}
    /\ \A i \in DOMAIN down : down[i].session = c.session =>
          /\ up = <<>> /\ i = Len(down) /\ down[i].req = "OpenFileRO"
          /\ down[i].ack => /\ c.filename \in Files /\ down[i].len = Size[c.filename]
                            /\ server.open = [session |-> c.session, file |-> c.filename, size |-> 0]

Right(r, m) ==
    /\ r.session = m.session /\ r.req \in {"BurstReadFile", "ReadFile"} /\ r.offset \in Nat
    /\ r.ack => /\ r.file = m.filename /\ r.len \in 1 .. burst_read_size
                /\ r.offset + r.len <= Size[m.filename]
                /\ r.req = "BurstReadFile" /\ r.len < burst_read_size =>
                      r.offset + r.len = Size[m.filename]
    /\ ~r.ack => r.payload = EndOfFile /\ r.len = 0 /\ r.offset >= Size[m.filename]

Downloading ==
    /\ GoesOn(c) /\ c.last_send < IdleTime /\ c.session + 2 <= Limit
    /\ \A op \in ToSet(up) : ReadOp(op, c.session)
    /\ server.open.session = c.session /\ server.open.file = c.filename
    /\ \A r \in ToSet(down) : Right(r, c)

Putting ==
    /\ Puts(c) /\ c.last_send < IdleTime /\ c.session + 2 <= Limit
    /\ \A op \in ToSet(up) : WriteOp(op, c)
    /\ \A i \in DOMAIN up : up[i].opcode = "CreateFile" =>
          i = 1 /\ down = <<>> /\ server.open.session # c.session
    /\ \A r \in ToSet(down) : /\ r.session = c.session /\ r.req \in {"CreateFile", "WriteFile"}
                              /\ r.req = "WriteFile" => r.offset \in Offsets(c)
    /\ server.open.session # c.session =>
          /\ c.write_list = 0 .. c.write_total - 1 /\ \A r \in ToSet(down) : ~r.ack
    /\ server.open.session = c.session =>
          /\ server.written \subseteq Offsets(c)
          /\ \A b \in 0 .. c.write_total - 1 :
                b \notin c.write_list => b * write_size \in server.written
          /\ \A r \in ToSet(down) : r.req = "WriteFile" /\ r.ack => r.offset \in server.written

LinkAge == NoLink \/ c.last_send < IdleTime
Listing_ ==
    /\ Lists(c) /\ LinkAge /\ c.session + 1 <= Limit /\ server.open.session < c.session
    /\ \/ up = <<c.last_op>> /\ down = <<>>
       \/ /\ up = <<>> /\ down # <<>> /\ Len(down) = 1
          /\ down[1].req = "ListDirectory" /\ down[1].session = c.session
          /\ IF down[1].ack THEN /\ c.dir_offset < Len(Directory)
                                 /\ down[1].names = <<Directory[c.dir_offset + 1]>>
             ELSE down[1].payload = EndOfFile /\ c.dir_offset = Len(Directory)
       \/ NoLink

Requesting ==
    /\ Requests(c) /\ LinkAge /\ c.session + 1 <= Limit /\ server.open.session < c.session
    /\ \A op \in ToSet(up) : op.opcode \in Simple
    /\ \A r \in ToSet(down) : r.req \in Simple

Failing == Failed(c) /\ NoLink /\ c.session + 1 <= Limit /\ server.open.session < c.session

Ending ==
    /\ Ends(c) /\ c.session + (IF c.pc = "terminating" THEN 2 ELSE 1) <= Limit
    /\ Told("put") /\ c.told[4] # 0 =>
          \A op \in ToSet(up) : /\ op.opcode # "CreateFile"
                                /\ op.opcode = "WriteFile" => op.offset \in server.written

Ready ==
    /\ c.pc = "ready"
    /\ c.session + (IF LeftOpen THEN 1 ELSE 0) <= Limit
    /\ LeftOpen => NothingTold(c)
    /\ ~LeftOpen => /\ Cleared(c) /\ NoLink /\ server.open.session < c.session
                    /\ c.call = "put" => c.told # <<>>

Phase == \/ Asking \/ Downloading \/ Putting \/ Listing_ \/ Requesting
         \/ Failing \/ Ending \/ Ready
IInv == Formed(c) /\ c.out = <<>> /\ World /\ TransfersWhole /\ Phase

(* ---------------------------------- the gaps -------------------------------- *)
\* What lies between two places is split into gaps, none longer than a step.
LEMMA GapsOf ==
    ASSUME NEW from \in Nat, NEW to \in Nat, from < to, NEW step \in Nat \ {0},
           NEW gs, gs = GapsBetween(from, to, step)
    PROVE  /\ Sequential(gs) /\ \A i, j \in DOMAIN gs : gs[i] = gs[j] => i = j
           /\ \A g \in ToSet(gs) : /\ g = <<g[1], g[2]>> /\ g[1] \in Nat /\ g[2] \in 1 .. step
                                   /\ from <= g[1] /\ g[1] + g[2] <= to
           /\ \A g, h \in ToSet(gs) : g # h => Apart(g, h)
           /\ \A o \in from .. to - 1 : \E g \in ToSet(gs) : In(o, g)
<1> DEFINE n == to - from + step - 1
           k == n \div step
           At(i) == from + (i - 1) * step
           Length(i) == IF to - At(i) <= step THEN to - At(i) ELSE step
<1>1. n \in Nat /\ k \in Nat /\ k * step <= n /\ n < k * step + step
  <2>1. n \in Nat
    OBVIOUS
  <2> HIDE DEF n
  <2> QED BY <2>1, Quotient
<1>2. gs = [i \in 1 .. k |-> <<At(i), Length(i)>>]
  BY DEF GapsBetween
<1>3. DOMAIN gs = 1 .. k /\ \A i \in 1 .. k : gs[i] = <<At(i), Length(i)>>
  BY <1>2
<1>4. k * step + step \in Nat /\ k * step <= to - from + step - 1
      /\ to - from <= k * step
  <2>1. k * step \in Nat
    <3> HIDE DEF k
    <3> QED BY <1>1, Products
  <2> HIDE DEF k
  <2> QED BY <1>1, <2>1
<1> HIDE DEF k, n
<1>5. ASSUME NEW i \in 1 .. k, NEW j \in 1 .. k, i < j
      PROVE  At(i) + step <= At(j)
  <2>1. (i - 1) * step + step <= (j - 1) * step /\ (i - 1) * step \in Nat /\ (j - 1) * step \in Nat
    <3>1. i - 1 \in Nat /\ j - 1 \in Nat /\ i - 1 < j - 1
      BY <1>1, <1>5
    <3> HIDE DEF At, Length
    <3> QED BY <3>1, Products
  <2> QED BY <2>1
<1>6. ASSUME NEW i \in 1 .. k
      PROVE  At(i) \in Nat /\ from <= At(i) /\ At(i) < to
  <2>1. (i - 1) * step \in Nat /\ (i - 1) * step + step <= k * step
    <3>1. i - 1 \in Nat /\ i - 1 < k
      BY <1>1
    <3> QED BY <1>1, <3>1, Products
  <2>2. (i - 1) * step + step <= to - from + step - 1
    BY <1>1, <1>4, <2>1
  <2> QED BY <2>1, <2>2
<1> HIDE DEF At
<1>7. \A i \in 1 .. k : Length(i) \in 1 .. step /\ At(i) + Length(i) <= to
  BY <1>6
<1>8. Sequential(gs)
  <2>1. \A i \in 1 .. k : <<At(i), Length(i)>> \in Nat \X Nat
    BY <1>6, <1>7
  <2>2. gs \in Seq(Nat \X Nat)
    BY <1>1, <1>2, <2>1, IsASeq
  <2> QED BY <2>2, IntoSeq
<1>9. \A g \in ToSet(gs) : \E i \in 1 .. k : g = <<At(i), Length(i)>> /\ g = gs[i]
  BY <1>3 DEF ToSet
<1>10. \A i \in 1 .. k : <<At(i), Length(i)>> \in ToSet(gs)
  <2>1. \A i \in 1 .. k : gs[i] \in ToSet(gs)
    BY <1>3 DEF ToSet
  <2> QED BY <1>3, <2>1
<1>11. \A g \in ToSet(gs) : /\ g = <<g[1], g[2]>> /\ g[1] \in Nat /\ g[2] \in 1 .. step
                            /\ from <= g[1] /\ g[1] + g[2] <= to
  BY <1>6, <1>7, <1>9
<1>12. ASSUME NEW i \in 1 .. k, NEW j \in 1 .. k, i < j
       PROVE  At(i) # At(j) /\ At(i) + Length(i) <= At(j)
  BY <1>5, <1>6, <1>7, <1>12
<1>13. \A i, j \in DOMAIN gs : gs[i] = gs[j] => i = j
  <2> SUFFICES ASSUME NEW i \in 1 .. k, NEW j \in 1 .. k, gs[i] = gs[j], i # j PROVE FALSE
    BY <1>3
  <2>1. At(i) = At(j)
    BY <1>3
  <2>2. i < j \/ j < i
    BY <1>1
  <2> QED BY <1>12, <2>1, <2>2
<1>14. \A g, h \in ToSet(gs) : g # h => Apart(g, h)
  <2> SUFFICES ASSUME NEW g \in ToSet(gs), NEW h \in ToSet(gs), g # h PROVE Apart(g, h)
    OBVIOUS
  <2>1. PICK i \in 1 .. k : g = <<At(i), Length(i)>>
    BY <1>9
  <2>2. PICK j \in 1 .. k : h = <<At(j), Length(j)>>
    BY <1>9
  <2>3. i < j \/ j < i
    BY <1>1, <2>1, <2>2
  <2> HIDE DEF Length
  <2> QED BY <1>12, <2>1, <2>2, <2>3 DEF Apart
<1>15. ASSUME NEW o \in from .. to - 1 PROVE \E g \in ToSet(gs) : In(o, g)
  <2> DEFINE q == (o - from) \div step
  <2>1. q \in Nat /\ q * step <= o - from /\ o - from < q * step + step
    <3>1. o - from \in Nat
      OBVIOUS
    <3> QED BY <3>1, Quotient
  <2> HIDE DEF q
  <2>2. q < k
    <3> SUFFICES ASSUME k <= q PROVE FALSE
      BY <1>1, <2>1
    <3>1. k * step <= q * step /\ q * step \in Nat /\ k * step \in Nat
      <4>1. k = q \/ k < q
        BY <1>1, <2>1
      <4>2. k * step \in Nat /\ q * step \in Nat /\ (k < q => k * step + step <= q * step)
        BY <1>1, <2>1, Products
      <4> QED BY <4>1, <4>2
    <3> QED BY <1>4, <2>1, <3>1
  <2>3. q + 1 \in 1 .. k
    BY <1>1, <2>1, <2>2
  <2>4. At(q + 1) = from + q * step
    BY <2>1 DEF At
  <2>5. q * step \in Nat
    BY <2>1, Products
  <2>6. In(o, <<At(q + 1), Length(q + 1)>>)
    BY <1>7, <2>1, <2>3, <2>4, <2>5 DEF In
  <2> QED BY <1>10, <2>3, <2>6
<1> QED BY <1>8, <1>11, <1>13, <1>14, <1>15

(* --------------------------------- the members ------------------------------ *)
\* n differs from m in no other members than those of S.
Same(m, n, S) == DOMAIN n = Fields /\ \A x \in Fields \ S : n[x] = m[x]

\* A request is sent.
LEMMA Sent ==
    ASSUME NEW m, Formed(m), NEW op
    PROVE  LET n == __send(m, op) IN
           /\ Same(m, n, {"out", "last_op", "last_send"})
           /\ n.last_op = op /\ n.last_send = 0 /\ n.out = Append(m.out, op)
           /\ Sequential(n.out) /\ ToSet(n.out) = ToSet(m.out) \union {op}
           /\ Formed(n)
<1> DEFINE n == __send(m, op)
<1>1. DOMAIN m = Fields
  BY DEF Formed
<1>2. DOMAIN n = Fields /\ \A x \in Fields \ {"out", "last_op", "last_send"} : n[x] = m[x]
  BY <1>1 DEF __send
<1>3. n.last_op = op /\ n.last_send = 0 /\ n.out = Append(m.out, op)
  BY <1>1 DEF __send, Fields
<1> HIDE DEF n
<1>4. Sequential(n.out) /\ ToSet(n.out) = ToSet(m.out) \union {op}
  BY <1>3, Appended DEF Formed
<1>5. Formed(n)
  BY <1>2, <1>3, <1>4 DEF Formed, Fields
<1> QED BY <1>2, <1>3, <1>4, <1>5 DEF Same, n

\* A caller is told.
LEMMA Tells ==
    ASSUME NEW m, Formed(m), NEW kind, NEW data
    PROVE  LET n == Tell(m, kind, data) IN
           /\ Same(m, n, {"told"}) /\ n.told = <<kind, m.call, m.filename, data>>
           /\ Formed(n)
<1> DEFINE n == Tell(m, kind, data)
<1>1. DOMAIN m = Fields
  BY DEF Formed
<1>2. DOMAIN n = Fields /\ \A x \in Fields \ {"told"} : n[x] = m[x]
  BY <1>1 DEF Tell
<1>3. n.told = <<kind, m.call, m.filename, data>>
  BY <1>1 DEF Tell, Fields
<1> HIDE DEF n
<1>5. Formed(n)
  BY <1>2 DEF Formed, Fields
<1> QED BY <1>2, <1>3, <1>5 DEF Same, n

\* A transfer that ends is cleared away; a callback that is left is told of the failure.
LEMMA Cleaned ==
    ASSUME NEW m, Formed(m), m.ret # "RemoteReplyTimeout"
    PROVE  LET n == __terminate_session(m) IN
           /\ Formed(n) /\ Cleared(n)
           /\ n.pc = (IF m.pc = "ready" THEN "cancelling" ELSE "terminating")
           /\ n.last_op = Op("TerminateSession", m.session, 0, 0, None) /\ n.last_send = 0
           /\ n.out = Append(m.out, n.last_op)
           /\ \A x \in {"session", "call", "ret", "done", "list_result", "requested_offset", "quiet"} :
                 n[x] = m[x]
           /\ n.told = IF m.callback \/ m.put_callback
                       THEN <<"failed", m.call, m.filename, <<>> >> ELSE m.told
<1> DEFINE op == Op("TerminateSession", m.session, 0, 0, None)
           s == __send(m, op)
           t == IF m.callback \/ m.put_callback THEN Tell(s, "failed", <<>>) ELSE s
           n == __terminate_session(m)
<1>1. /\ Same(m, s, {"out", "last_op", "last_send"}) /\ Formed(s)
      /\ s.last_op = op /\ s.last_send = 0 /\ s.out = Append(m.out, op)
  BY Sent
<1> HIDE DEF op, s
<1>2. s.call = m.call /\ s.filename = m.filename /\ s.told = m.told
  BY <1>1 DEF Same, Fields
<1>3. /\ Same(s, t, {"told"}) /\ Formed(t)
      /\ t.told = IF m.callback \/ m.put_callback
                  THEN <<"failed", m.call, m.filename, <<>> >> ELSE m.told
  <2>1. CASE m.callback \/ m.put_callback
    BY <1>1, <1>2, <2>1, Tells
  <2>2. CASE ~(m.callback \/ m.put_callback)
    BY <1>1, <1>2, <2>2 DEF Same
  <2> QED BY <2>1, <2>2
<1> HIDE DEF t
<1>4. n = [t EXCEPT !.fh = NotOpen, !.filename = None, !.write_list = NoWrites, !.callback = FALSE,
              !.put_callback = FALSE, !.read_gaps = <<>>, !.read_gap_times = <<>>, !.read_total = 0,
              !.last_burst_read = -1, !.reached_eof = FALSE, !.backlog = 0,
              !.pc = IF m.pc = "ready" THEN "cancelling" ELSE "terminating"]
  BY DEF __terminate_session, op, s, t
<1>5. DOMAIN t = Fields
  BY <1>3 DEF Same
<1> HIDE DEF n
<1>6. /\ DOMAIN n = Fields
      /\ n.fh = NotOpen /\ n.write_list = NoWrites /\ n.callback = FALSE /\ n.put_callback = FALSE
      /\ n.read_gaps = <<>> /\ n.read_gap_times = <<>> /\ n.read_total = 0
      /\ n.last_burst_read = -1 /\ n.reached_eof = FALSE
      /\ n.pc = (IF m.pc = "ready" THEN "cancelling" ELSE "terminating")
      /\ \A x \in {"session", "call", "ret", "done", "list_result", "requested_offset", "quiet",
                   "last_op", "last_send", "out", "told"} : n[x] = t[x]
  BY <1>4, <1>5, ZenonT(60) DEF Fields
<1>7. \A x \in {"session", "call", "ret", "done", "list_result", "requested_offset", "quiet"} :
         n[x] = m[x]
  BY <1>1, <1>3, <1>6 DEF Same, Fields
<1>8. n.last_op = op /\ n.last_send = 0 /\ n.out = Append(m.out, op) /\ n.out = s.out
      /\ n.told = t.told
  BY <1>1, <1>3, <1>6 DEF Same, Fields
<1>9. Cleared(n)
  BY <1>6 DEF Cleared, NoGaps
<1>10. Formed(n)
  BY <1>1, <1>6, <1>7, <1>8 DEF Formed
<1> QED BY <1>3, <1>6, <1>7, <1>8, <1>9, <1>10 DEF n, op

\* What is known of a download stays known while other members change.
LEMMA StillDownloads ==
    ASSUME NEW m, NEW n, NEW S, Same(m, n, S)
    PROVE  /\ S \intersect {"pc", "call", "told", "callback", "put_callback", "write_list", "done",
                            "burst_size"} = {} /\ Reading(m) => Reading(n)
           /\ S \intersect {"filename", "requested_size"} = {} /\ Target(m) => Target(n)
           /\ S \intersect {"fh", "filename", "callback", "requested_offset", "requested_size",
                            "read_gaps", "read_total"} = {} /\ Had(m) => Had(n)
           /\ S \intersect {"fh", "callback", "requested_offset", "read_gaps",
                            "read_gap_times"} = {} /\ Gaps(m) => Gaps(n)
           /\ S \intersect {"fh", "reached_eof", "requested_size", "last_burst_read",
                            "op_start"} = {} /\ Clocks(m) => Clocks(n)
<1>1. ASSUME S \intersect {"pc", "call", "told", "callback", "put_callback", "write_list", "done",
                            "burst_size"} = {}, Reading(m) PROVE Reading(n)
  <2>1. \A x \in {"pc", "call", "told", "callback", "put_callback", "write_list", "done",
                  "burst_size"} : n[x] = m[x]
    BY <1>1 DEF Same, Fields
  <2> QED BY <1>1, <2>1 DEF Reading
<1>2. ASSUME S \intersect {"filename", "requested_size"} = {}, Target(m) PROVE Target(n)
  <2>1. \A x \in {"filename", "requested_size"} : n[x] = m[x]
    BY <1>2 DEF Same, Fields
  <2> QED BY <1>2, <2>1 DEF Target
<1>3. ASSUME S \intersect {"fh", "filename", "callback", "requested_offset", "requested_size",
                           "read_gaps", "read_total"} = {}, Had(m) PROVE Had(n)
  <2>1. \A x \in {"fh", "filename", "callback", "requested_offset", "requested_size",
                  "read_gaps", "read_total"} : n[x] = m[x]
    BY <1>3 DEF Same, Fields
  <2>2. Begin(n) = Begin(m) /\ GapSet(n) = GapSet(m)
    BY <2>1 DEF Begin, GapSet
  <2>3. /\ n.fh = m.fh /\ n.filename = m.filename /\ n.requested_size = m.requested_size
        /\ n.read_total = m.read_total
    BY <2>1
  <2> QED BY <1>3, <2>2, <2>3 DEF Had
<1>4. ASSUME S \intersect {"fh", "callback", "requested_offset", "read_gaps",
                           "read_gap_times"} = {}, Gaps(m) PROVE Gaps(n)
  <2>1. \A x \in {"fh", "callback", "requested_offset", "read_gaps",
                  "read_gap_times"} : n[x] = m[x]
    BY <1>4 DEF Same, Fields
  <2>2. Begin(n) = Begin(m) /\ GapSet(n) = GapSet(m)
    BY <2>1 DEF Begin, GapSet
  <2>3. n.fh = m.fh /\ n.read_gaps = m.read_gaps /\ n.read_gap_times = m.read_gap_times
    BY <2>1
  <2>4. \A g : IsGap(g, n) <=> IsGap(g, m)
    BY <2>2, <2>3 DEF IsGap
  <2> QED BY <1>4, <2>2, <2>3, <2>4 DEF Gaps
<1>5. ASSUME S \intersect {"fh", "reached_eof", "requested_size", "last_burst_read",
                           "op_start"} = {}, Clocks(m) PROVE Clocks(n)
  <2>1. \A x \in {"fh", "reached_eof", "requested_size", "last_burst_read",
                  "op_start"} : n[x] = m[x]
    BY <1>5 DEF Same, Fields
  <2> QED BY <1>5, <2>1 DEF Clocks
<1> QED BY <1>1, <1>2, <1>3, <1>4, <1>5

\* A read of the file is sent.
LEMMA ReadSent ==
    ASSUME NEW m, Downloads(m), NEW op, ReadOp(op, m.session)
    PROVE  LET n == __send(m, op) IN
           /\ Downloads(n) /\ Same(m, n, {"out", "last_op", "last_send"}) /\ n.last_send = 0
<1> DEFINE n == __send(m, op)
<1>1. /\ Same(m, n, {"out", "last_op", "last_send"}) /\ Formed(n)
      /\ n.last_op = op /\ n.last_send = 0 /\ ToSet(n.out) = ToSet(m.out) \union {op}
  BY Sent DEF Downloads
<1> HIDE DEF n
<1>2. n.session = m.session
  BY <1>1 DEF Same, Fields
<1>3. Reading(n) /\ Target(n) /\ Had(n) /\ Gaps(n) /\ Clocks(n)
  BY <1>1, StillDownloads DEF Downloads
<1>4. Sends(n)
  BY <1>1, <1>2 DEF Sends, Downloads
<1> QED BY <1>1, <1>3, <1>4 DEF Downloads, n

\* A gap that is asked for goes to the end of the list.
LEMMA GapSent ==
    ASSUME NEW m, Downloads(m), NEW g \in GapSet(m)
    PROVE  LET n == __send_gap_read(m, g) IN
           /\ Downloads(n) /\ n.last_send = 0 /\ GapSet(n) = GapSet(m)
           /\ Same(m, n, {"out", "last_op", "last_send", "read_gaps", "read_gap_times",
                          "too_fast", "backlog"})
<1> DEFINE op == Op("ReadFile", m.session, g[1], g[2], None)
           s == __send(m, op)
           gaps == Append(RemoveFirst(m.read_gaps, g), g)
           n == __send_gap_read(m, g)
<1>1. IsGap(g, m) /\ burst_read_size = m.burst_size /\ m.session \in Nat
  BY DEF Downloads, Gaps, Reading, Formed
<1>2. ReadOp(op, m.session)
  <2>1. /\ op.opcode = "ReadFile" /\ op.session = m.session /\ op.offset = g[1] /\ op.size = g[2]
        /\ op.file = None
    BY DEF Op
  <2>2. g[2] \in Nat /\ g[1] \in Nat /\ g[2] \in 1 .. burst_read_size
    BY <1>1 DEF IsGap
  <2>3. IsOp(op)
    BY <1>1, <2>1, <2>2 DEF IsOp
  <2> QED BY <2>1, <2>2, <2>3 DEF ReadOp
<1>3. /\ Downloads(s) /\ Same(m, s, {"out", "last_op", "last_send"}) /\ s.last_send = 0
  BY <1>2, ReadSent
<1> HIDE DEF op, s
<1>4. s.read_gaps = m.read_gaps /\ s.read_gap_times = m.read_gap_times
  BY <1>3 DEF Same, Fields
<1>5. n = [s EXCEPT !.read_gaps = gaps, !.read_gap_times = [@ EXCEPT ![g] = 1],
              !.too_fast = TRUE, !.backlog = @ + 1]
  BY <1>4 DEF __send_gap_read, s, op
<1>6. Sequential(m.read_gaps) /\ \A i, j \in DOMAIN m.read_gaps : m.read_gaps[i] = m.read_gaps[j] => i = j
  BY DEF Downloads, Gaps
<1>7. /\ Sequential(RemoveFirst(m.read_gaps, g))
      /\ ToSet(RemoveFirst(m.read_gaps, g)) = GapSet(m) \ {g}
      /\ \A i, j \in DOMAIN RemoveFirst(m.read_gaps, g) :
            RemoveFirst(m.read_gaps, g)[i] = RemoveFirst(m.read_gaps, g)[j] => i = j
  BY <1>6, RemovedFirst DEF GapSet
<1> DEFINE less == RemoveFirst(m.read_gaps, g)
<1>8. Sequential(gaps) /\ ToSet(gaps) = GapSet(m)
  <2>1. Sequential(Append(less, g)) /\ ToSet(Append(less, g)) = ToSet(less) \union {g}
    <3> HIDE DEF less
    <3> QED BY <1>7, Appended DEF less
  <2> QED BY <1>7, <2>1
<1>9. \A i, j \in DOMAIN gaps : gaps[i] = gaps[j] => i = j
  <2>1. g \notin ToSet(less)
    BY <1>7
  <2> HIDE DEF less
  <2>2. /\ DOMAIN gaps = 1 .. Len(less) + 1 /\ DOMAIN less = 1 .. Len(less) /\ Len(less) \in Nat
        /\ \A i \in DOMAIN less : gaps[i] = less[i] /\ less[i] # g
        /\ gaps[Len(less) + 1] = g
    <3>1. \A i \in DOMAIN less : less[i] # g
      BY <2>1 DEF ToSet
    <3> QED BY <1>7, <3>1, Appended DEF less
  <2>3. \A i, j \in DOMAIN less : less[i] = less[j] => i = j
    BY <1>7 DEF less
  <2> HIDE DEF gaps
  <2> QED BY <2>2, <2>3
<1> HIDE DEF gaps, n
<1>10. DOMAIN s = Fields
  BY <1>3 DEF Same
<1>11. /\ Same(s, n, {"read_gaps", "read_gap_times", "too_fast", "backlog"})
       /\ n.read_gaps = gaps /\ n.read_gap_times = [m.read_gap_times EXCEPT ![g] = 1]
       /\ n.too_fast = TRUE
  BY <1>4, <1>5, <1>10 DEF Same, Fields
<1>12. GapSet(n) = GapSet(m) /\ GapSet(s) = GapSet(m)
  BY <1>4, <1>8, <1>11 DEF GapSet
<1>13. n.fh = s.fh /\ Begin(n) = Begin(s)
  BY <1>11 DEF Same, Fields, Begin
<1>14. Had(n)
  <2>1. /\ n.filename = s.filename /\ n.requested_size = s.requested_size
        /\ n.read_total = s.read_total
    BY <1>11 DEF Same, Fields
  <2> QED BY <1>3, <1>12, <1>13, <2>1 DEF Downloads, Had
<1>15. Gaps(n)
  <2>1. \A h : IsGap(h, n) <=> IsGap(h, s)
    BY <1>13 DEF IsGap
  <2>2. DOMAIN n.read_gap_times = GapSet(n) /\ \A h \in GapSet(n) : n.read_gap_times[h] \in Nat
    BY <1>3, <1>4, <1>11, <1>12 DEF Downloads, Gaps
  <2> QED BY <1>3, <1>8, <1>9, <1>11, <1>12, <1>13, <2>1, <2>2 DEF Downloads, Gaps
<1>16. Reading(n) /\ Target(n)
  BY <1>3, <1>11, StillDownloads DEF Downloads
<1>17. Clocks(n)
  <2>1. /\ n.reached_eof = s.reached_eof /\ n.requested_size = s.requested_size
        /\ n.last_burst_read = s.last_burst_read /\ n.op_start = s.op_start
    BY <1>11 DEF Same, Fields
  <2> QED BY <1>3, <1>11, <1>13, <2>1 DEF Downloads, Clocks
<1>18. n.last_send = 0 /\ n.session = s.session /\ n.last_op = s.last_op /\ n.out = s.out
  BY <1>3, <1>11 DEF Same, Fields
<1>19. Sends(n)
  BY <1>3, <1>18 DEF Downloads, Sends
<1>20. Formed(n)
  <2>1. \A x \in {"session", "last_send", "quiet", "requested_offset", "done", "list_result", "pc",
                  "ret", "out"} : n[x] = s[x]
    BY <1>11 DEF Same, Fields
  <2> QED BY <1>3, <1>11, <2>1 DEF Downloads, Formed, Same
<1>21. Same(m, n, {"out", "last_op", "last_send", "read_gaps", "read_gap_times",
                   "too_fast", "backlog"})
  BY <1>3, <1>11 DEF Same
<1> QED BY <1>12, <1>14, <1>15, <1>16, <1>17, <1>18, <1>19, <1>20, <1>21 DEF Downloads, n

(* ----------------------------------- the loops ------------------------------ *)
\* The two loops of the client that send: over the gaps of a file, and over the free places of the queue.
Again(of, m, x) == IF of = "gaps" THEN SendUnasked(m, x) ELSE SendBlock(m, x)

\* h has what the client is after a set of turns of the loop.
Loops(h, n, of, m, xs) ==
    h = [s \in SUBSET (1 .. n) |->
            IF s = {} THEN m ELSE Again(of, h[s \ {Max(s)}], xs[Max(s)])]

\* The function that a loop over gaps or blocks is defined by exists.
LEMMA LoopsExist ==
    ASSUME NEW n \in Nat, NEW of, NEW m, NEW xs
    PROVE  \E h : Loops(h, n, of, m, xs)
<1> DEFINE S == {k \in 0 .. n : \E h : Loops(h, k, of, m, xs)}
<1>1. 0 \in S
  <2> DEFINE h == [s \in SUBSET (1 .. 0) |-> m]
  <2>1. \A s \in SUBSET (1 .. 0) : s = {}
    OBVIOUS
  <2>2. Loops(h, 0, of, m, xs)
    BY <2>1 DEF Loops
  <2>3. 0 \in 0 .. n
    OBVIOUS
  <2> HIDE DEF h
  <2> QED BY <2>2, <2>3
<1>2. ASSUME NEW k \in 1 .. n, k - 1 \in S PROVE k \in S
  <2>1. PICK g : Loops(g, k - 1, of, m, xs)
    BY <1>2
  <2> DEFINE h == [s \in SUBSET (1 .. k) |->
                     IF k \in s THEN Again(of, g[s \ {k}], xs[k]) ELSE g[s]]
             Next_(s) == IF s = {} THEN m ELSE Again(of, h[s \ {Max(s)}], xs[Max(s)])
  <2>2. ASSUME NEW s \in SUBSET (1 .. k) PROVE h[s] = Next_(s)
    <3>1. CASE k \in s
      <4>1. Max(s) = k
        BY <3>1, MaxTop
      <4>2. s \ {k} \in SUBSET (1 .. k - 1) /\ s \ {k} \in SUBSET (1 .. k) /\ k \notin s \ {k}
        <5> k \in Nat \ {0}
          OBVIOUS
        <5> QED BY Lower
      <4>3. h[s \ {k}] = g[s \ {k}]
        BY <4>2
      <4>4. h[s] = Again(of, g[s \ {k}], xs[k])
        BY <3>1
      <4> QED BY <3>1, <4>1, <4>3, <4>4
    <3>2. CASE k \notin s
      <4>1. s \in SUBSET (1 .. k - 1) /\ h[s] = g[s]
        BY <3>2
      <4>2. g[s] = IF s = {} THEN m ELSE Again(of, g[s \ {Max(s)}], xs[Max(s)])
        BY <2>1, <4>1 DEF Loops
      <4>3. CASE s = {}
        BY <4>1, <4>2, <4>3
      <4>4. CASE s # {}
        <5>1. Max(s) \in s
          <6> k \in Nat
            OBVIOUS
          <6> QED BY <4>4, MaxIn
        <5>2. /\ s \ {Max(s)} \in SUBSET (1 .. k - 1)
              /\ s \ {Max(s)} \in SUBSET (1 .. k) /\ k \notin s \ {Max(s)}
          BY <3>2, <4>1
        <5>3. h[s \ {Max(s)}] = g[s \ {Max(s)}]
          BY <5>2
        <5> QED BY <4>1, <4>2, <4>4, <5>3
      <4> QED BY <4>3, <4>4
    <3> QED BY <3>1, <3>2
  <2>3. h = [s \in SUBSET (1 .. k) |-> Next_(s)]
    <3>1. h = [s \in SUBSET (1 .. k) |-> h[s]]
      OBVIOUS
    <3> HIDE DEF h
    <3> QED BY <2>2, <3>1
  <2>4. Loops(h, k, of, m, xs)
    <3> HIDE DEF h
    <3> QED BY <2>3 DEF Loops
  <2>5. k \in 0 .. n
    OBVIOUS
  <2> HIDE DEF h
  <2> QED BY <2>4, <2>5
<1>3. n \in S
  <2>1. 0 .. n \subseteq S
    <3> HIDE DEF S
    <3> QED BY <1>1, <1>2, UpTo
  <2>2. n \in 0 .. n
    OBVIOUS
  <2> HIDE DEF S
  <2> QED BY <2>1, <2>2
<1> QED BY <1>3

\* The turns one after another.
LEMMA Turns ==
    ASSUME NEW n \in Nat, NEW of, NEW m, NEW xs, NEW h, Loops(h, n, of, m, xs)
    PROVE  /\ h[1 .. 0] = m
           /\ \A k \in 1 .. n : h[1 .. k] = Again(of, h[1 .. k - 1], xs[k])
<1>1. h[1 .. 0] = m
  <2>1. 1 .. 0 = {} /\ 1 .. 0 \in SUBSET (1 .. n)
    OBVIOUS
  <2> QED BY <2>1 DEF Loops
<1>2. ASSUME NEW k \in 1 .. n PROVE h[1 .. k] = Again(of, h[1 .. k - 1], xs[k])
  <2>1. 1 .. k \in SUBSET (1 .. n) /\ 1 .. k # {} /\ k \in 1 .. k /\ k \in Nat \ {0}
    OBVIOUS
  <2>2. Max(1 .. k) = k
    BY <2>1, MaxTop
  <2>3. (1 .. k) \ {k} = 1 .. k - 1
    OBVIOUS
  <2> QED BY <2>1, <2>2, <2>3 DEF Loops
<1> QED BY <1>1, <1>2

\* The loop over the gaps is such a function.
LEMMA UnaskedFold ==
    ASSUME NEW m, NEW xs, NEW n \in Nat, DOMAIN xs = 1 .. n
    PROVE  \E h : Loops(h, n, "gaps", m, xs) /\ FoldLeft(SendUnasked, m, xs) = h[1 .. n]
<1> DEFINE Is(h) == h = [s \in SUBSET (1 .. n) |-> IF s = {} THEN m
                           ELSE SendUnasked(h[s \ {Max(s)}], xs[Max(s)])]
           g == CHOOSE h : Is(h)
<1>1. \E h : Is(h)
  <2>1. PICK h : Loops(h, n, "gaps", m, xs)
    BY LoopsExist
  <2>2. Is(h)
    BY <2>1 DEF Loops, Again
  <2> HIDE DEF Is
  <2> QED BY <2>2
<1>2. Is(g)
  <2> HIDE DEF Is
  <2> QED BY <1>1
<1>3. FoldLeft(SendUnasked, m, xs) = g[1 .. n]
  BY DEF FoldLeft, MapThenFoldSet
<1> HIDE DEF g
<1>4. Loops(g, n, "gaps", m, xs)
  BY <1>2 DEF Loops, Again
<1> QED BY <1>3, <1>4

\* The loop over the blocks is such a function.
LEMMA BlockFold ==
    ASSUME NEW m, NEW xs, NEW n \in Nat, DOMAIN xs = 1 .. n
    PROVE  \E h : Loops(h, n, "blocks", m, xs) /\ FoldLeft(SendBlock, m, xs) = h[1 .. n]
<1> DEFINE Is(h) == h = [s \in SUBSET (1 .. n) |-> IF s = {} THEN m
                           ELSE SendBlock(h[s \ {Max(s)}], xs[Max(s)])]
           g == CHOOSE h : Is(h)
<1>1. \E h : Is(h)
  <2>1. PICK h : Loops(h, n, "blocks", m, xs)
    BY LoopsExist
  <2>2. Is(h)
    BY <2>1 DEF Loops, Again
  <2> HIDE DEF Is
  <2> QED BY <2>2
<1>2. Is(g)
  <2> HIDE DEF Is
  <2> QED BY <1>1
<1>3. FoldLeft(SendBlock, m, xs) = g[1 .. n]
  BY DEF FoldLeft, MapThenFoldSet
<1> HIDE DEF g
<1>4. Loops(g, n, "blocks", m, xs)
  BY <1>2 DEF Loops, Again
<1> QED BY <1>3, <1>4

(* -------------------------------- the downloads ----------------------------- *)
Resends == {"out", "last_op", "last_send", "read_gaps", "read_gap_times", "too_fast", "backlog"}

\* What asking for gaps keeps: the download with the same gaps.
Resent(m, n) == /\ Downloads(n) /\ GapSet(n) = GapSet(m) /\ Same(m, n, Resends)
                /\ n.last_send \in {0, m.last_send}

\* A download is still one after its gaps are asked for.
LEMMA UnaskedSent ==
    ASSUME NEW m, Downloads(m)
    PROVE  Resent(m, FoldLeft(SendUnasked, m, m.read_gaps))
<1> DEFINE n == Len(m.read_gaps)
<1>1. n \in Nat /\ DOMAIN m.read_gaps = 1 .. n /\ \A i \in 1 .. n : m.read_gaps[i] \in GapSet(m)
  BY DEF Downloads, Gaps, Sequential, GapSet, ToSet
<1> HIDE DEF n
<1>2. PICK h : /\ Loops(h, n, "gaps", m, m.read_gaps)
               /\ FoldLeft(SendUnasked, m, m.read_gaps) = h[1 .. n]
  BY <1>1, UnaskedFold
<1>3. h[1 .. 0] = m /\ \A k \in 1 .. n : h[1 .. k] = SendUnasked(h[1 .. k - 1], m.read_gaps[k])
  <2>1. /\ h[1 .. 0] = m
        /\ \A k \in 1 .. n : h[1 .. k] = Again("gaps", h[1 .. k - 1], m.read_gaps[k])
    BY <1>1, <1>2, Turns
  <2> QED BY <2>1 DEF Again
<1> DEFINE S == {k \in 0 .. n : Resent(m, h[1 .. k])}
<1>4. 0 \in S
  <2>1. 0 \in 0 .. n
    BY <1>1
  <2>2. Resent(m, m)
    BY DEF Resent, Same, Downloads, Formed
  <2> QED BY <1>3, <2>1, <2>2
<1>5. ASSUME NEW k \in 1 .. n, k - 1 \in S PROVE k \in S
  <2> DEFINE v == h[1 .. k - 1]
             g == m.read_gaps[k]
  <2>1. Resent(m, v) /\ g \in GapSet(m) /\ h[1 .. k] = SendUnasked(v, g) /\ k \in 0 .. n
    BY <1>1, <1>3, <1>5
  <2> HIDE DEF v, g
  <2>2. Resent(m, SendUnasked(v, g))
    <3>1. CASE v.read_gap_times[g] = 0
      <4>1. SendUnasked(v, g) = __send_gap_read(v, g)
        BY <3>1 DEF SendUnasked
      <4> DEFINE w == __send_gap_read(v, g)
      <4>2. /\ Downloads(w) /\ w.last_send = 0 /\ GapSet(w) = GapSet(v) /\ Same(v, w, Resends)
        BY <2>1, GapSent DEF Resent, Resends
      <4> HIDE DEF w
      <4>3. Same(m, w, Resends)
        BY <2>1, <4>2 DEF Resent, Same
      <4> QED BY <2>1, <4>1, <4>2, <4>3 DEF Resent, w
    <3>2. CASE v.read_gap_times[g] # 0
      BY <2>1, <3>2 DEF SendUnasked
    <3> QED BY <3>1, <3>2
  <2> QED BY <2>1, <2>2
<1>6. n \in S
  <2>1. 0 .. n \subseteq S
    <3> HIDE DEF S
    <3> QED BY <1>1, <1>4, <1>5, UpTo
  <2> HIDE DEF S
  <2> QED BY <1>1, <2>1
<1> QED BY <1>2, <1>6

\* A gap that was asked for long ago counts as not asked for.
LEMMA GapForgotten ==
    ASSUME NEW m, Downloads(m), NEW g \in GapSet(m), NEW b
    PROVE  LET n == [m EXCEPT !.backlog = b, !.read_gap_times = [@ EXCEPT ![g] = 0]] IN
           /\ Downloads(n) /\ Same(m, n, {"backlog", "read_gap_times"})
           /\ n.read_gap_times[g] = 0
<1> DEFINE n == [m EXCEPT !.backlog = b, !.read_gap_times = [@ EXCEPT ![g] = 0]]
<1>1. DOMAIN m = Fields
  BY DEF Downloads, Formed
<1>2. /\ Same(m, n, {"backlog", "read_gap_times"})
      /\ n.read_gap_times = [m.read_gap_times EXCEPT ![g] = 0]
  BY <1>1 DEF Same, Fields
<1> HIDE DEF n
<1>3. Reading(n) /\ Target(n) /\ Had(n) /\ Clocks(n)
  BY <1>2, StillDownloads DEF Downloads
<1>4. Gaps(n) /\ n.read_gap_times[g] = 0
  <2>1. \A x \in {"fh", "callback", "requested_offset", "read_gaps"} : n[x] = m[x]
    BY <1>2 DEF Same, Fields
  <2>2. Begin(n) = Begin(m) /\ GapSet(n) = GapSet(m)
    BY <2>1 DEF Begin, GapSet
  <2>3. n.fh = m.fh /\ n.read_gaps = m.read_gaps
    BY <2>1
  <2>4. \A h : IsGap(h, n) <=> IsGap(h, m)
    BY <2>2, <2>3 DEF IsGap
  <2>5. /\ DOMAIN n.read_gap_times = GapSet(n) /\ \A h \in GapSet(n) : n.read_gap_times[h] \in Nat
        /\ n.read_gap_times[g] = 0
    BY <1>2, <2>2 DEF Downloads, Gaps
  <2> QED BY <2>2, <2>3, <2>4, <2>5 DEF Downloads, Gaps
<1>5. Sends(n) /\ Formed(n)
  <2>1. \A x \in {"session", "last_send", "quiet", "requested_offset", "done", "list_result", "pc",
                  "ret", "out", "last_op"} : n[x] = m[x]
    BY <1>2 DEF Same, Fields
  <2> QED BY <1>2, <2>1 DEF Downloads, Sends, Formed, Same
<1> QED BY <1>2, <1>3, <1>4, <1>5 DEF Downloads, n

\* Nothing is lost by asking again, and a gap whose time has come is asked for.
LEMMA ReadsAgain ==
    ASSUME NEW m, Downloads(m), RetryTime = 1
    PROVE  LET n == __check_read_send(m) IN
           /\ Resent(m, n)
           /\ m.reached_eof /\ m.read_gaps # <<>> /\ ~m.too_fast
                 /\ m.read_gap_times[m.read_gaps[1]] # 1 => n.last_send = 0
<1> DEFINE n == __check_read_send(m)
<1>0. Resent(m, m)
  BY DEF Resent, Same, Downloads, Formed
<1>1. CASE m.read_gaps = <<>>
  BY <1>0, <1>1 DEF __check_read_send
<1>2. CASE m.read_gaps # <<>> /\ ~m.reached_eof
  <2>1. n = FoldLeft(SendUnasked, m, m.read_gaps)
    BY <1>2 DEF __check_read_send
  <2> HIDE DEF n
  <2> QED BY <1>2, <2>1, UnaskedSent DEF n
<1>3. CASE m.read_gaps # <<>> /\ m.reached_eof
  <2> DEFINE g == m.read_gaps[1]
             late == m.read_gap_times[g] > RetryTime
             b == IF m.backlog > 0 THEN m.backlog - 1 ELSE 0
             f == [m EXCEPT !.backlog = b, !.read_gap_times = [@ EXCEPT ![g] = 0]]
             v == IF late THEN f ELSE m
  <2>1. n = IF v.read_gap_times[g] = 0 /\ ~v.too_fast THEN __send_gap_read(v, g) ELSE v
    BY <1>3 DEF __check_read_send
  <2>2. g \in GapSet(m) /\ m.read_gap_times[g] \in Nat
    BY <1>3 DEF Downloads, Gaps, Sequential, GapSet, ToSet
  <2>3. Downloads(f) /\ Same(m, f, {"backlog", "read_gap_times"}) /\ f.read_gap_times[g] = 0
    <3> HIDE DEF b, g
    <3> QED BY <2>2, GapForgotten
  <2> HIDE DEF f
  <2>4. /\ Downloads(v) /\ GapSet(v) = GapSet(m) /\ Same(m, v, Resends) /\ v.last_send = m.last_send
        /\ v.too_fast = m.too_fast
    <3>1. Same(m, m, {"backlog", "read_gap_times"})
      BY DEF Same, Downloads, Formed
    <3>2. Same(m, v, {"backlog", "read_gap_times"}) /\ Downloads(v)
      BY <2>3, <3>1
    <3> HIDE DEF v
    <3> QED BY <3>2 DEF Same, Fields, Resends, GapSet
  <2>5. m.read_gap_times[g] # 1 => v.read_gap_times[g] = 0
    BY <2>2, <2>3
  <2> HIDE DEF v, g, n
  <2>6. CASE v.read_gap_times[g] = 0 /\ ~v.too_fast
    <3> DEFINE w == __send_gap_read(v, g)
    <3>1. /\ Downloads(w) /\ w.last_send = 0 /\ GapSet(w) = GapSet(v) /\ Same(v, w, Resends)
      BY <2>2, <2>4, GapSent DEF Resends
    <3>2. n = w
      BY <2>1, <2>6
    <3> HIDE DEF w
    <3>3. Same(m, w, Resends)
      BY <2>4, <3>1 DEF Same
    <3> QED BY <2>4, <3>1, <3>2, <3>3 DEF Resent, n
  <2>7. CASE ~(v.read_gap_times[g] = 0 /\ ~v.too_fast)
    <3>1. n = v
      BY <2>1, <2>7
    <3> QED BY <2>4, <2>5, <2>7, <3>1 DEF Resent, n, g
  <2> QED BY <2>6, <2>7
<1> QED BY <1>1, <1>2, <1>3

\* Asking again keeps a download going, and what it is of.
LEMMA ResentGoesOn ==
    ASSUME NEW m, NEW n, Resent(m, n), Sequential(m.read_gaps)
    PROVE  /\ (m.read_gaps = <<>>) <=> (n.read_gaps = <<>>)
           /\ GoesOn(m) => GoesOn(n)
           /\ \A x \in {"session", "filename", "call", "requested_offset", "quiet"} : n[x] = m[x]
<1>1. (m.read_gaps = <<>>) <=> (n.read_gaps = <<>>)
  <2>1. Sequential(n.read_gaps)
    BY DEF Resent, Downloads, Gaps
  <2> QED BY <2>1, NoElement DEF Resent, GapSet
<1>2. n.reached_eof = m.reached_eof
  BY DEF Resent, Same, Fields, Resends
<1>3. \A x \in {"session", "filename", "call", "requested_offset", "quiet"} : n[x] = m[x]
  BY DEF Resent, Same, Fields, Resends
<1> QED BY <1>1, <1>2, <1>3 DEF GoesOn, Resent

(* --------------------------------- the outcomes ----------------------------- *)
\* What a caller is told to have got is the whole file.
GotWhole(m) ==
    m.told # <<>> /\ m.told[1] = "got" =>
        m.told[4] \in {WholeFrom(from, m.told[3]) : from \in {0, m.requested_offset}}
PutTold(m) == m.told # <<>> /\ m.told[1] = "put"
Known(m) == \A op \in ToSet(m.out) : IsOp(op) /\ op.session <= m.session

\* A transfer is over, and its caller told.
Over(m, n) ==
    /\ Formed(n) /\ Ends(n) /\ n.pc = "terminating" /\ Known(n) /\ GotWhole(n)
    /\ n.session = m.session /\ n.requested_offset = m.requested_offset
    /\ n.last_send = 0 /\ (m.call # "put" => ~PutTold(n))

\* A transfer is over by __terminate_session.
LEMMA OverBy ==
    ASSUME NEW m, Formed(m), m.pc = "reply", m.call \in {"get", "read", "put"}, Known(m),
           GotWhole(m), m.callback \in BOOLEAN, m.put_callback \in BOOLEAN,
           m.call = "put" => m.put_callback \/ m.told # <<>>,
           m.call = "read" /\ ~m.done => NothingTold(m), m.call # "put" => ~PutTold(m)
    PROVE  Over(m, __terminate_session(m))
<1> DEFINE n == __terminate_session(m)
<1>1. /\ Formed(n) /\ Cleared(n) /\ n.pc = "terminating"
      /\ n.last_op = Op("TerminateSession", m.session, 0, 0, None) /\ n.last_send = 0
      /\ n.out = Append(m.out, n.last_op)
      /\ \A x \in {"session", "call", "ret", "done", "list_result", "requested_offset", "quiet"} :
            n[x] = m[x]
      /\ n.told = IF m.callback \/ m.put_callback
                  THEN <<"failed", m.call, m.filename, <<>> >> ELSE m.told
  <2>1. m.ret # "RemoteReplyTimeout"
    BY DEF Formed
  <2> QED BY <2>1, Cleaned
<1> HIDE DEF n
<1>2. /\ n.session = m.session /\ n.call = m.call /\ n.done = m.done
      /\ n.requested_offset = m.requested_offset /\ n.quiet = m.quiet
  BY <1>1
<1>3. GotWhole(n) /\ (m.call = "read" /\ ~m.done => NothingTold(n))
      /\ (m.call = "put" => n.told # <<>>) /\ (m.call # "put" => ~PutTold(n))
  BY <1>1, <1>2 DEF GotWhole, NothingTold, PutTold
<1>4. Known(n)
  <2>1. ToSet(n.out) = ToSet(m.out) \union {n.last_op}
    BY <1>1, Appended DEF Formed
  <2>2. IsOp(n.last_op) /\ n.last_op.session = m.session /\ m.session \in Nat
    BY <1>1 DEF IsOp, Op, Formed
  <2> QED BY <1>2, <2>1, <2>2 DEF Known
<1>5. Ends(n)
  <2>1. n.last_op.opcode = "TerminateSession"
    BY <1>1 DEF Op
  <2> QED BY <1>1, <1>2, <1>3, <2>1 DEF Ends
<1> QED BY <1>1, <1>2, <1>3, <1>4, <1>5 DEF Over, n

\* A download that is finished has every byte from where it began.
LEMMA WholeRead ==
    ASSUME FtpAssumption, NEW m, Downloads(m), ReadFinished(m)
    PROVE  /\ Size[m.filename] \in Nat /\ Begin(m) \in Nat
           /\ \A o \in Begin(m) .. Size[m.filename] - 1 :
                 o \in DOMAIN m.fh.data /\ m.fh.data[o] = m.filename
<1> DEFINE size == m.requested_size
           D == DOMAIN m.fh.data
<1>1. size \in Nat /\ size = Size[m.filename] /\ Begin(m) \in Nat
  BY DEF Downloads, Target, FtpAssumption, Files, Begin, Formed
<1>2. /\ \A o \in D : o \in 0 .. size - 1 /\ m.fh.data[o] = m.filename
      /\ \A o \in Begin(m) .. m.fh.tell - 1 : o \in D \/ \E g \in GapSet(m) : In(o, g)
      /\ m.read_total <= Cardinality(D) /\ m.read_total \in Nat /\ m.fh.tell \in Nat
  BY DEF Downloads, Had
<1>3. GapSet(m) = {}
  BY DEF ReadFinished, GapSet, ToSet
<1> HIDE DEF D, size
<1>4. CASE m.reached_eof
  <2>1. size <= m.fh.tell
    BY <1>4 DEF Downloads, Clocks, size
  <2>2. \A o \in Begin(m) .. size - 1 : o \in D
    BY <1>1, <1>2, <1>3, <2>1
  <2> QED BY <1>1, <1>2, <2>2 DEF D
<1>5. CASE m.read_total >= size
  <2>1. IsFiniteSet(0 .. size - 1) /\ Cardinality(0 .. size - 1) = size
    <3> DEFINE top == size - 1
    <3>1. top \in Int
      BY <1>1
    <3>2. IsFiniteSet(0 .. top) /\ Cardinality(0 .. top) = IF 0 > top THEN 0 ELSE top - 0 + 1
      <4> HIDE DEF top
      <4> QED BY <3>1, FS_Interval
    <3> QED BY <1>1, <3>2
  <2>2. D \subseteq 0 .. size - 1
    BY <1>2
  <2>3. IsFiniteSet(D) /\ Cardinality(D) <= size /\ (Cardinality(D) = size => D = 0 .. size - 1)
    BY <2>1, <2>2, FS_Subset
  <2>4. Cardinality(D) \in Nat
    BY <2>3, FS_CardinalityType
  <2>5. D = 0 .. size - 1
    BY <1>1, <1>2, <1>5, <2>3, <2>4
  <2>6. \A o \in Begin(m) .. size - 1 : o \in D
    BY <1>1, <2>5
  <2> QED BY <1>1, <1>2, <2>6 DEF D
<1> QED BY <1>4, <1>5 DEF ReadFinished, size

\* A download ends with its whole file.
LEMMA Finished ==
    ASSUME FtpAssumption, NEW m, Downloads(m), ReadFinished(m)
    PROVE  Over(m, __check_read_finished(m))
<1> DEFINE b == IF m.callback THEN 0 ELSE m.requested_offset
           data == From(Covered(m), b)
           t == Tell(m, "got", data)
           d == [t EXCEPT !.callback = FALSE, !.done = ~m.callback]
           n == __check_read_finished(m)
<1>1. Open(m) /\ m.op_start # -1
  <2>1. m.fh.tell \in Nat /\ m.op_start \in Nat
    BY DEF Downloads, Had, Clocks
  <2> QED BY <2>1 DEF Open, NotOpen
<1>2. n = __terminate_session(d)
  BY <1>1 DEF __check_read_finished
<1>3. data = WholeFrom(b, m.filename)
  <2> DEFINE size == m.requested_size
  <2>1. /\ size \in Nat /\ b \in Nat
        /\ \A o \in b .. size - 1 : o \in DOMAIN m.fh.data /\ m.fh.data[o] = m.filename
    <3>1. size = Size[m.filename]
      BY DEF Downloads, Target
    <3> HIDE DEF size
    <3> QED BY <3>1, WholeRead DEF Begin
  <2>2. DOMAIN Covered(m) = 0 .. size - 1
    BY DEF Covered
  <2>3. \A o \in b .. size - 1 : Covered(m)[o] = m.filename
    BY <2>1 DEF Covered
  <2>4. {x \in DOMAIN Covered(m) : x >= b} = b .. size - 1
    BY <2>1, <2>2
  <2>5. data = [o \in b .. size - 1 |-> Covered(m)[o]]
    BY <2>4 DEF From
  <2>6. size = Size[m.filename]
    BY DEF Downloads, Target
  <2> HIDE DEF size, data, b
  <2> QED BY <2>3, <2>5, <2>6 DEF WholeFrom
<1> HIDE DEF b, data
<1>4. /\ Same(m, t, {"told"}) /\ Formed(t) /\ t.told = <<"got", m.call, m.filename, data>>
  BY Tells DEF Downloads
<1> HIDE DEF t
<1>5. /\ Same(m, d, {"told", "callback", "done"}) /\ d.told = t.told
      /\ d.callback = FALSE /\ d.done = ~m.callback
  BY <1>4 DEF Same, Fields
<1> HIDE DEF d, n
<1>6. \A x \in {"session", "last_send", "quiet", "requested_offset", "list_result", "pc", "ret", "out",
                "put_callback", "call", "filename"} : d[x] = m[x]
  BY <1>5 DEF Same, Fields
<1>7. Reading(m) /\ Formed(m) /\ Sends(m)
  BY DEF Downloads
<1>8. Formed(d)
  BY <1>5, <1>6, <1>7 DEF Formed, Same, Reading
<1>9. GotWhole(d)
  BY <1>3, <1>4, <1>5, <1>6 DEF GotWhole, b
<1>10. Known(d) /\ ~PutTold(d)
  BY <1>4, <1>5, <1>6, <1>7 DEF Known, Sends, ReadOp, Formed, PutTold
<1>11. Over(d, n)
  BY <1>2, <1>5, <1>6, <1>7, <1>8, <1>9, <1>10, OverBy DEF Reading
<1> QED BY <1>6, <1>11 DEF Over, n

Marks == {"ret", "burst_size", "backlog", "last_burst_read", "last_send", "op_start",
          "write_last_send", "quiet", "too_fast", "read_gap_times"}

\* The download is the same whatever the clocks and the result of a turn are.
LEMMA Marked ==
    ASSUME NEW m, Downloads(m), NEW n, Same(m, n, Marks), n.ret # "RemoteReplyTimeout",
           n.burst_size = burst_read_size, n.last_burst_read \in Nat, n.last_send \in Nat,
           n.op_start \in Nat, n.quiet \in Nat,
           DOMAIN n.read_gap_times = DOMAIN m.read_gap_times,
           \A g \in DOMAIN m.read_gap_times : n.read_gap_times[g] \in Nat
    PROVE  Downloads(n)
<1>1. \A x \in Fields \ Marks : n[x] = m[x]
  BY DEF Same
<1>2. /\ n.session = m.session /\ n.requested_offset = m.requested_offset /\ n.done = m.done
      /\ n.list_result = m.list_result /\ n.pc = m.pc /\ n.out = m.out /\ n.last_op = m.last_op
      /\ n.call = m.call /\ n.told = m.told /\ n.callback = m.callback
      /\ n.put_callback = m.put_callback /\ n.write_list = m.write_list /\ n.fh = m.fh
      /\ n.read_gaps = m.read_gaps /\ n.reached_eof = m.reached_eof
      /\ n.requested_size = m.requested_size
  BY <1>1 DEF Fields, Marks
<1>3. Target(n) /\ Had(n)
  BY StillDownloads DEF Downloads, Marks
<1>4. Formed(n) /\ Reading(n) /\ Clocks(n) /\ Sends(n)
  <2>1. Formed(m) /\ Reading(m) /\ Clocks(m) /\ Sends(m)
    BY DEF Downloads
  <2>2. Formed(n)
    BY <1>2, <2>1 DEF Formed, Same
  <2>3. Reading(n)
    BY <1>2, <2>1 DEF Reading
  <2>4. Clocks(n) /\ Sends(n)
    BY <1>2, <2>1 DEF Clocks, Sends
  <2> QED BY <2>2, <2>3, <2>4
<1>5. Gaps(n)
  <2>1. Begin(n) = Begin(m) /\ GapSet(n) = GapSet(m)
    BY <1>2 DEF Begin, GapSet
  <2>2. \A g : IsGap(g, n) <=> IsGap(g, m)
    BY <1>2, <2>1 DEF IsGap
  <2>3. Gaps(m)
    BY DEF Downloads
  <2>4. DOMAIN n.read_gap_times = GapSet(n) /\ \A g \in GapSet(n) : n.read_gap_times[g] \in Nat
    BY <2>1, <2>3 DEF Gaps
  <2> QED BY <1>2, <2>1, <2>2, <2>3, <2>4 DEF Gaps
<1> QED BY <1>3, <1>4, <1>5 DEF Downloads

\* The result of the turn does not matter to a download.
LEMMA SuccessfulIs ==
    ASSUME NEW m, Downloads(m)
    PROVE  /\ Same(m, Successful(m), {"ret"}) /\ Successful(m).ret = "Success"
           /\ Downloads(Successful(m)) /\ (ReadFinished(Successful(m)) <=> ReadFinished(m))
<1> DEFINE n == Successful(m)
<1>1. DOMAIN m = Fields /\ m.burst_size = burst_read_size /\ Clocks(m) /\ Gaps(m) /\ Formed(m)
  BY DEF Downloads, Formed, Reading
<1>2. Same(m, n, {"ret"}) /\ n.ret = "Success"
  BY <1>1 DEF Successful, Same, Fields
<1> HIDE DEF n
<1>3. \A x \in {"burst_size", "last_burst_read", "last_send", "op_start", "quiet", "read_gap_times",
                "read_gaps", "reached_eof", "read_total", "requested_size"} : n[x] = m[x]
  BY <1>2 DEF Same, Fields
<1>4. Same(m, n, Marks)
  BY <1>2 DEF Same, Marks
<1>5. Downloads(n)
  BY <1>1, <1>2, <1>3, <1>4, Marked DEF Clocks, Gaps, Formed
<1> QED BY <1>2, <1>3, <1>5 DEF ReadFinished, n

LEMMA FinishedWell ==
    ASSUME FtpAssumption, NEW m, Downloads(m), ReadFinished(m)
    PROVE  Over(m, __check_read_finished(Successful(m)))
<1> DEFINE n == __check_read_finished(Successful(m))
<1>1. Over(Successful(m), n)
  BY SuccessfulIs, Finished
<1>2. \A x \in {"session", "requested_offset", "call"} : Successful(m)[x] = m[x]
  BY SuccessfulIs DEF Same, Fields
<1> HIDE DEF n
<1> QED BY <1>1, <1>2 DEF Over, n

\* The file's end is reached: the download is over, or its gaps are asked for.
Kept(m, n) == \A x \in {"session", "filename", "call", "requested_offset", "quiet"} : n[x] = m[x]
Continues(m, n) == /\ GoesOn(n) /\ Kept(m, n)
                   /\ n.last_send \in {0, m.last_send}
Proceeds(m, n) == Continues(m, n) \/ Over(m, n)

\* A download that has reached the end goes on or is over.
LEMMA AtEof ==
    ASSUME FtpAssumption, NEW m, Downloads(m), m.requested_size <= m.fh.tell
    PROVE  Proceeds(m, EofReached(m))
<1> DEFINE e == [m EXCEPT !.reached_eof = TRUE]
           n == EofReached(m)
<1>1. DOMAIN m = Fields
  BY DEF Downloads, Formed
<1>2. Same(m, e, {"reached_eof"}) /\ e.reached_eof = TRUE
  BY <1>1 DEF Same, Fields
<1>3. n = IF ReadEnded(e) THEN __check_read_finished(Successful(e)) ELSE __check_read_send(e)
  BY DEF EofReached
<1> HIDE DEF e, n
<1>4. \A x \in {"session", "last_send", "quiet", "requested_offset", "done", "list_result", "pc",
                "ret", "out", "last_op", "fh", "requested_size", "last_burst_read", "op_start",
                "too_fast", "filename", "call"} : e[x] = m[x]
  BY <1>2 DEF Same, Fields
<1>5. Reading(e) /\ Target(e) /\ Had(e) /\ Gaps(e)
  BY <1>2, StillDownloads DEF Downloads
<1>6. Formed(e) /\ Sends(e) /\ Clocks(e)
  <2>1. Formed(m) /\ Sends(m) /\ Clocks(m)
    BY DEF Downloads
  <2>2. Formed(e)
    BY <1>2, <1>4, <2>1 DEF Formed, Same
  <2>3. Sends(e)
    BY <1>4, <2>1 DEF Sends
  <2>4. Clocks(e)
    BY <1>2, <1>4, <2>1 DEF Clocks
  <2> QED BY <2>2, <2>3, <2>4
<1>7. Downloads(e)
  BY <1>5, <1>6 DEF Downloads
<1>8. CASE ReadFinished(e)
  <2>1. n = __check_read_finished(Successful(e))
    BY <1>3, <1>8 DEF ReadEnded
  <2>2. Over(e, n)
    BY <1>7, <1>8, <2>1, FinishedWell
  <2> QED BY <1>4, <2>2 DEF Over, Proceeds, n
<1>9. CASE ~ReadFinished(e)
  <2>1. Open(e) /\ e.op_start # -1
    <3>1. e.fh.tell \in Nat /\ e.op_start \in Nat
      BY <1>7 DEF Downloads, Had, Clocks
    <3> QED BY <3>1 DEF Open, NotOpen
  <2>2. n = __check_read_send(e)
    BY <1>3, <1>9, <2>1 DEF ReadEnded
  <2>3. GoesOn(e) /\ Sequential(e.read_gaps) /\ RetryTime = 1
    BY <1>2, <1>7, <1>9 DEF GoesOn, ReadFinished, Downloads, Gaps, FtpAssumption
  <2>4. Resent(e, n)
    BY <1>7, <2>2, <2>3, ReadsAgain
  <2>5. /\ GoesOn(n)
        /\ \A x \in {"session", "filename", "call", "requested_offset", "quiet"} : n[x] = e[x]
    BY <2>3, <2>4, ResentGoesOn
  <2>6. n.last_send \in {0, m.last_send}
    BY <1>4, <2>4 DEF Resent
  <2> QED BY <1>4, <2>5, <2>6 DEF Proceeds, Continues, Kept, n
<1> QED BY <1>8, <1>9

(* ---------------------------------- the payload ----------------------------- *)
LEMMA MergedIs ==
    ASSUME NEW new, NEW old
    PROVE  /\ DOMAIN Merged(new, old) = DOMAIN new \union DOMAIN old
           /\ \A x \in DOMAIN new : Merged(new, old)[x] = new[x]
           /\ \A x \in DOMAIN old \ DOMAIN new : Merged(new, old)[x] = old[x]
BY DEF Merged

\* Bytes that were not there before are more bytes.
LEMMA MoreBytes ==
    ASSUME NEW size \in Nat, NEW D \in SUBSET (0 .. size - 1), NEW a \in Nat, NEW k \in Nat \ {0},
           \A o \in a .. a + k - 1 : o \notin D
    PROVE  /\ Cardinality(D) \in Nat
           /\ Cardinality((a .. a + k - 1) \union D) = Cardinality(D) + k
<1> DEFINE top == size - 1
           end == a + k - 1
           E == a .. end
<1>1. top \in Int /\ end \in Int /\ a \in Int
  OBVIOUS
<1>2. IsFiniteSet(0 .. top)
  <2> HIDE DEF top
  <2> QED BY <1>1, FS_Interval
<1>3. IsFiniteSet(D) /\ Cardinality(D) \in Nat
  BY <1>2, FS_Subset, FS_CardinalityType
<1>4. IsFiniteSet(E) /\ Cardinality(E) = k
  <2>1. IsFiniteSet(E) /\ Cardinality(E) = IF a > end THEN 0 ELSE end - a + 1
    <3> HIDE DEF end
    <3> QED BY <1>1, FS_Interval
  <2> QED BY <2>1
<1>5. E \intersect D = {}
  OBVIOUS
<1> HIDE DEF E
<1>6. Cardinality({}) = 0
  BY FS_EmptySet
<1>7. Cardinality(E \union D) = Cardinality(E) + Cardinality(D) - Cardinality(E \intersect D)
  BY <1>3, <1>4, FS_Union
<1>8. Cardinality(E \union D) = Cardinality(D) + k
  BY <1>3, <1>4, <1>5, <1>6, <1>7
<1> QED BY <1>3, <1>8 DEF E

Payloads == {"fh", "read_total", "read_gaps", "read_gap_times"}

\* A piece of the file, whole and in its bounds, that is written where nothing was yet.
IsPiece(r, m) == /\ r.offset \in Nat /\ r.len \in 1 .. burst_read_size /\ r.file = m.filename
                 /\ Begin(m) <= r.offset /\ r.offset + r.len <= m.requested_size
                 /\ \A o \in r.offset .. r.offset + r.len - 1 : o \notin DOMAIN m.fh.data

\* Whatever gaps there are then, if they and the bytes are all there is before the place.
LEMMA PieceWritten ==
    ASSUME FtpAssumption, NEW m, Downloads(m), NEW r, IsPiece(r, m), NEW n, Same(m, n, Payloads),
           NEW tell \in Nat, m.fh.tell <= tell, r.offset + r.len <= tell,
           n.fh = [tell |-> tell, data |-> Merged([o \in r.offset .. (r.offset + r.len - 1) |-> r.file],
                                                  m.fh.data)],
           n.read_total = m.read_total + r.len,
           Sequential(n.read_gaps),
           \A i, j \in DOMAIN n.read_gaps : n.read_gaps[i] = n.read_gaps[j] => i = j,
           DOMAIN n.read_gap_times = GapSet(n),
           \A g \in GapSet(n) : /\ n.read_gap_times[g] \in Nat /\ IsGap(g, n)
                                /\ g[1] + g[2] <= r.offset \/ r.offset + r.len <= g[1]
                                /\ \A o \in DOMAIN m.fh.data : ~In(o, g),
           \A g, h \in GapSet(n) : g # h => Apart(g, h),
           \A o \in Begin(m) .. tell - 1 :
              \/ o \in DOMAIN m.fh.data \/ o \in r.offset .. r.offset + r.len - 1
              \/ \E g \in GapSet(n) : In(o, g)
    PROVE  Downloads(n)
<1> DEFINE piece == r.offset .. r.offset + r.len - 1
           new == [o \in piece |-> r.file]
           D == DOMAIN m.fh.data
<1>1. Begin(n) = Begin(m) /\ n.filename = m.filename /\ n.requested_size = m.requested_size
  BY DEF Same, Fields, Payloads, Begin
<1>2. n.fh.tell = tell /\ n.fh.data = Merged(new, m.fh.data) /\ n.fh = [tell |-> n.fh.tell, data |-> n.fh.data]
  OBVIOUS
<1>3. r.len \in Nat \ {0} /\ r.offset \in Nat /\ r.file = m.filename /\ Begin(m) <= r.offset
      /\ r.offset + r.len <= m.requested_size /\ \A o \in piece : o \notin D
  BY SMTT(60) DEF IsPiece, FtpAssumption
<1>4. DOMAIN n.fh.data = piece \union D /\ (\A o \in piece : n.fh.data[o] = m.filename)
      /\ (\A o \in D : n.fh.data[o] = m.fh.data[o])
  <2>1. DOMAIN new = piece /\ \A o \in piece : new[o] = m.filename
    BY <1>3
  <2> DEFINE all == Merged(new, m.fh.data)
  <2> HIDE DEF new
  <2>2. DOMAIN all = DOMAIN new \union D
    BY MergedIs
  <2>3. \A x \in DOMAIN new : all[x] = new[x]
    BY DEF Merged
  <2>4. \A x \in D \ DOMAIN new : all[x] = m.fh.data[x]
    BY DEF Merged
  <2> HIDE DEF new, piece, all, D
  <2> QED BY <1>2, <1>3, <2>1, <2>2, <2>3, <2>4 DEF all
<1>5. Had(m) /\ m.requested_size \in Nat /\ Begin(m) \in Nat
  BY DEF Downloads, Target, FtpAssumption, Files, Begin, Formed
<1>6. n.read_total \in Nat /\ n.read_total <= Cardinality(DOMAIN n.fh.data)
  <2>1. D \in SUBSET (0 .. m.requested_size - 1)
    BY <1>5 DEF Had
  <2> HIDE DEF D
  <2>2. Cardinality(D) \in Nat /\ Cardinality(piece \union D) = Cardinality(D) + r.len
    BY <1>3, <1>5, <2>1, MoreBytes
  <2>3. m.read_total \in Nat /\ m.read_total <= Cardinality(D)
    BY <1>5 DEF Had, D
  <2> HIDE DEF piece
  <2> QED BY <1>3, <1>4, <2>2, <2>3
<1> HIDE DEF new
<1>7. \A o \in DOMAIN n.fh.data : /\ o \in 0 .. m.requested_size - 1
                                  /\ Begin(m) <= o /\ o < tell /\ n.fh.data[o] = m.filename
  <2>1. \A o \in D : /\ o \in 0 .. m.requested_size - 1
                     /\ Begin(m) <= o /\ o < tell /\ m.fh.data[o] = m.filename
    <3>1. m.fh.tell \in Nat /\ m.fh.tell <= tell
      BY <1>5 DEF Had
    <3> QED BY <1>5, <3>1 DEF Had
  <2>2. \A o \in piece : o \in 0 .. m.requested_size - 1 /\ Begin(m) <= o /\ o < tell
    BY <1>3, <1>5, SMTT(60)
  <2> HIDE DEF piece, D
  <2> QED BY <1>4, <2>1, <2>2
<1>8. \A o \in Begin(m) .. tell - 1 : o \in DOMAIN n.fh.data \/ \E g \in GapSet(n) : In(o, g)
  BY <1>4
<1>9. Begin(m) <= tell
  BY <1>3, <1>5
<1>10. \A g \in GapSet(n), o \in DOMAIN n.fh.data : ~In(o, g)
  <2>1. \A g \in GapSet(n) : g[1] \in Nat /\ g[2] \in Nat
    BY DEF IsGap, FtpAssumption
  <2>2. ASSUME NEW g \in GapSet(n), NEW o \in piece PROVE ~In(o, g)
    <3>1. g[1] + g[2] <= r.offset \/ r.offset + r.len <= g[1]
      OBVIOUS
    <3> QED BY <1>3, <2>1, <3>1 DEF In
  <2> HIDE DEF piece, D
  <2> QED BY <1>4, <2>2 DEF D
<1> HIDE DEF piece, D
<1>11. Had(n)
  BY <1>1, <1>2, <1>6, <1>7, <1>8, <1>9 DEF Had
<1>12. Gaps(n)
  BY <1>10 DEF Gaps
<1>13. Reading(n) /\ Target(n)
  BY StillDownloads DEF Downloads, Payloads
<1>14. \A x \in {"session", "last_send", "quiet", "requested_offset", "done", "list_result", "pc",
                 "ret", "out", "last_op", "reached_eof", "too_fast", "last_burst_read",
                 "op_start"} : n[x] = m[x]
  BY DEF Same, Fields, Payloads
<1>15. Formed(m) /\ Sends(m) /\ Clocks(m)
  BY DEF Downloads
<1>16. Formed(n) /\ Sends(n)
  BY <1>14, <1>15 DEF Formed, Sends, Same
<1>17. Clocks(n)
  <2>1. m.fh.tell \in Nat
    BY <1>5 DEF Had
  <2> QED BY <1>1, <1>2, <1>5, <1>14, <1>15, <2>1 DEF Clocks
<1> QED BY <1>11, <1>12, <1>13, <1>16, <1>17 DEF Downloads

\* A piece at the end of what is read or behind it: what lies between becomes gaps.
LEMMA Written ==
    ASSUME FtpAssumption, NEW m, Downloads(m), NEW r, IsPiece(r, m), m.fh.tell <= r.offset
    PROVE  LET n == __write_payload(IF r.offset > m.fh.tell THEN NewGaps(m, r) ELSE m, r) IN
           /\ Downloads(n) /\ Same(m, n, Payloads) /\ n.fh.tell = r.offset + r.len
           /\ m.read_gaps # <<>> => n.read_gaps # <<>>
<1> DEFINE gs == GapsBetween(m.fh.tell, r.offset, m.burst_size)
           k == IF r.offset > m.fh.tell THEN NewGaps(m, r) ELSE m
           n == __write_payload(k, r)
           times == Merged([g \in ToSet(gs) |-> 0], m.read_gap_times)
<1>1. /\ DOMAIN m = Fields /\ m.burst_size = burst_read_size /\ m.burst_size \in Nat \ {0}
      /\ Had(m) /\ Gaps(m) /\ m.fh.tell \in Nat /\ r.offset \in Nat /\ r.len \in Nat \ {0}
  BY SMTT(60) DEF Downloads, Formed, Reading, FtpAssumption, IsPiece, Had
<1>2. /\ Same(m, k, {"read_gaps", "read_gap_times"})
      /\ k.read_gaps = IF r.offset > m.fh.tell THEN m.read_gaps \o gs ELSE m.read_gaps
      /\ k.read_gap_times = IF r.offset > m.fh.tell THEN times ELSE m.read_gap_times
  <2>1. CASE r.offset > m.fh.tell
    <3>1. k = [m EXCEPT !.read_gaps = m.read_gaps \o gs, !.read_gap_times = times]
      BY <2>1 DEF NewGaps
    <3> HIDE DEF k, gs, times
    <3> QED BY <1>1, <2>1, <3>1 DEF Same, Fields
  <2>2. CASE ~(r.offset > m.fh.tell)
    BY <1>1, <2>2 DEF Same
  <2> QED BY <2>1, <2>2
<1> HIDE DEF k
<1>3. /\ Same(k, n, {"fh", "read_total"}) /\ n.read_total = k.read_total + r.len
      /\ n.fh = [tell |-> r.offset + r.len,
                 data |-> Merged([o \in r.offset .. (r.offset + r.len - 1) |-> r.file], k.fh.data)]
  BY <1>2 DEF __write_payload, Same, Fields
<1> HIDE DEF n
<1>4. /\ Same(m, n, Payloads) /\ n.read_total = m.read_total + r.len
      /\ n.fh = [tell |-> r.offset + r.len,
                 data |-> Merged([o \in r.offset .. (r.offset + r.len - 1) |-> r.file], m.fh.data)]
      /\ n.read_gaps = k.read_gaps /\ n.read_gap_times = k.read_gap_times
  BY <1>2, <1>3 DEF Same, Fields, Payloads
<1>5. Begin(n) = Begin(m)
  BY <1>4 DEF Same, Fields, Payloads, Begin
<1> DEFINE Found(gaps, T) ==
             /\ Sequential(gaps) /\ \A i, j \in DOMAIN gaps : gaps[i] = gaps[j] => i = j
             /\ DOMAIN T = ToSet(gaps)
             /\ \A g \in ToSet(gaps) : /\ T[g] \in Nat
                   /\ g = <<g[1], g[2]>> /\ g[1] \in Nat /\ g[2] \in 1 .. burst_read_size
                   /\ Begin(m) <= g[1] /\ g[1] + g[2] <= r.offset
                   /\ \A o \in DOMAIN m.fh.data : ~In(o, g)
             /\ \A g, h \in ToSet(gaps) : g # h => Apart(g, h)
             /\ \A o \in Begin(m) .. r.offset - 1 :
                   o \in DOMAIN m.fh.data \/ \E g \in ToSet(gaps) : In(o, g)
<1>6. Found(n.read_gaps, n.read_gap_times)
  <2> DEFINE old == m.read_gaps
  <2>1. /\ Sequential(old) /\ \A i, j \in DOMAIN old : old[i] = old[j] => i = j
        /\ DOMAIN m.read_gap_times = ToSet(old)
        /\ \A g \in ToSet(old) : /\ m.read_gap_times[g] \in Nat
                   /\ g = <<g[1], g[2]>> /\ g[1] \in Nat /\ g[2] \in 1 .. burst_read_size
                   /\ Begin(m) <= g[1] /\ g[1] + g[2] <= m.fh.tell
                   /\ \A o \in DOMAIN m.fh.data : ~In(o, g)
        /\ \A g, h \in ToSet(old) : g # h => Apart(g, h)
        /\ \A o \in Begin(m) .. m.fh.tell - 1 :
                   o \in DOMAIN m.fh.data \/ \E g \in ToSet(old) : In(o, g)
        /\ \A o \in DOMAIN m.fh.data : o \in Nat /\ o < m.fh.tell
    <3>1. Target(m) /\ m.requested_size \in Nat
      BY DEF Downloads, Target, FtpAssumption, Files
    <3> QED BY <1>1, <3>1 DEF Gaps, Had, GapSet, IsGap
  <2>2. Begin(m) \in Nat /\ Begin(m) <= m.fh.tell /\ burst_read_size \in Nat
    BY <1>1 DEF Had, Begin, Downloads, Formed
  <2>3. CASE r.offset > m.fh.tell
    <3>1. /\ Sequential(gs) /\ \A i, j \in DOMAIN gs : gs[i] = gs[j] => i = j
          /\ \A g \in ToSet(gs) : /\ g = <<g[1], g[2]>> /\ g[1] \in Nat /\ g[2] \in 1 .. burst_read_size
                                  /\ m.fh.tell <= g[1] /\ g[1] + g[2] <= r.offset
          /\ \A g, h \in ToSet(gs) : g # h => Apart(g, h)
          /\ \A o \in m.fh.tell .. r.offset - 1 : \E g \in ToSet(gs) : In(o, g)
      <4>1. m.fh.tell < r.offset
        BY <1>1, <2>3
      <4> HIDE DEF gs
      <4> QED BY <1>1, <4>1, GapsOf DEF gs
    <3> HIDE DEF gs, old
    <3>2. ToSet(old) \intersect ToSet(gs) = {}
      <4> SUFFICES ASSUME NEW g, g \in ToSet(old), g \in ToSet(gs) PROVE FALSE
        OBVIOUS
      <4>1. g[1] + g[2] <= m.fh.tell /\ m.fh.tell <= g[1] /\ g[1] \in Nat /\ g[2] \in 1 .. burst_read_size
        BY <2>1, <3>1
      <4> QED BY <1>1, <2>2, <4>1
    <3>3. /\ Sequential(old \o gs) /\ ToSet(old \o gs) = ToSet(old) \union ToSet(gs)
          /\ \A i, j \in DOMAIN (old \o gs) : (old \o gs)[i] = (old \o gs)[j] => i = j
      BY <2>1, <3>1, <3>2, Concatenated
    <3> DEFINE all == old \o gs
               zero == [g \in ToSet(gs) |-> 0]
    <3>4. /\ DOMAIN times = ToSet(all) /\ \A g \in ToSet(all) : times[g] \in Nat
      <4>1. DOMAIN zero = ToSet(gs) /\ \A g \in ToSet(gs) : zero[g] = 0
        OBVIOUS
      <4>2. times = Merged(zero, m.read_gap_times)
        OBVIOUS
      <4> HIDE DEF zero, times
      <4>3. DOMAIN times = DOMAIN zero \union DOMAIN m.read_gap_times
        BY <4>2, MergedIs
      <4>4. \A g \in DOMAIN zero : times[g] = zero[g]
        BY <4>2 DEF Merged
      <4>5. \A g \in DOMAIN m.read_gap_times \ DOMAIN zero : times[g] = m.read_gap_times[g]
        BY <4>2 DEF Merged
      <4> QED BY <2>1, <3>3, <4>1, <4>3, <4>4, <4>5
    <3> HIDE DEF zero, times
    <3>5. \A g \in ToSet(all) : /\ g = <<g[1], g[2]>> /\ g[1] \in Nat /\ g[2] \in 1 .. burst_read_size
                   /\ Begin(m) <= g[1] /\ g[1] + g[2] <= r.offset
                   /\ \A o \in DOMAIN m.fh.data : ~In(o, g)
      <4>1. ASSUME NEW g \in ToSet(old)
            PROVE  /\ g = <<g[1], g[2]>> /\ g[1] \in Nat /\ g[2] \in 1 .. burst_read_size
                   /\ Begin(m) <= g[1] /\ g[1] + g[2] <= r.offset
                   /\ \A o \in DOMAIN m.fh.data : ~In(o, g)
        BY <1>1, <2>1, <2>2, <2>3
      <4>2. ASSUME NEW g \in ToSet(gs)
            PROVE  /\ g = <<g[1], g[2]>> /\ g[1] \in Nat /\ g[2] \in 1 .. burst_read_size
                   /\ Begin(m) <= g[1] /\ g[1] + g[2] <= r.offset
                   /\ \A o \in DOMAIN m.fh.data : ~In(o, g)
        <5>1. /\ g = <<g[1], g[2]>> /\ g[1] \in Nat /\ g[2] \in 1 .. burst_read_size
              /\ m.fh.tell <= g[1] /\ g[1] + g[2] <= r.offset
          BY <3>1
        <5>2. \A o \in DOMAIN m.fh.data : ~In(o, g)
          BY <1>1, <2>1, <5>1 DEF In
        <5>3. Begin(m) <= g[1]
          BY <1>1, <2>2, <5>1
        <5> QED BY <5>1, <5>2, <5>3
      <4> HIDE DEF all
      <4> QED BY <3>3, <4>1, <4>2 DEF all
    <3>6. \A g, h \in ToSet(all) : g # h => Apart(g, h)
      <4>1. ASSUME NEW g \in ToSet(old), NEW h \in ToSet(gs) PROVE Apart(g, h) /\ Apart(h, g)
        <5>1. g[1] + g[2] <= m.fh.tell /\ g[1] \in Nat /\ g[2] \in 1 .. burst_read_size
          BY <2>1
        <5>2. m.fh.tell <= h[1] /\ h[1] \in Nat /\ h[2] \in 1 .. burst_read_size
          BY <3>1
        <5> QED BY <1>1, <2>2, <5>1, <5>2 DEF Apart
      <4> HIDE DEF all
      <4> QED BY <2>1, <3>1, <3>3, <4>1 DEF all
    <3>7. \A o \in Begin(m) .. r.offset - 1 :
             o \in DOMAIN m.fh.data \/ \E g \in ToSet(all) : In(o, g)
      <4>1. ASSUME NEW o \in Begin(m) .. r.offset - 1
            PROVE o \in Begin(m) .. m.fh.tell - 1 \/ o \in m.fh.tell .. r.offset - 1
        BY <1>1, <2>2
      <4> HIDE DEF all
      <4> QED BY <2>1, <3>1, <3>3, <4>1 DEF all
    <3>8. n.read_gaps = all /\ n.read_gap_times = times
      BY <1>2, <1>4, <2>3 DEF old
    <3> HIDE DEF all
    <3>9. Sequential(all) /\ \A i, j \in DOMAIN all : all[i] = all[j] => i = j
      BY <3>3 DEF all
    <3> QED BY <3>4, <3>5, <3>6, <3>7, <3>8, <3>9
  <2>4. CASE ~(r.offset > m.fh.tell)
    <3>1. r.offset = m.fh.tell /\ n.read_gaps = old /\ n.read_gap_times = m.read_gap_times
      BY <1>1, <1>2, <1>4, <2>4
    <3> HIDE DEF old
    <3> QED BY <2>1, <3>1
  <2> QED BY <2>3, <2>4
<1> DEFINE tell == r.offset + r.len
<1>7. n.fh.tell = tell /\ tell \in Nat /\ m.fh.tell <= tell /\ Begin(m) \in Nat
  BY <1>1, <1>4 DEF Begin, Downloads, Formed
<1>8. GapSet(n) = ToSet(n.read_gaps)
  BY DEF GapSet
<1>9. \A g \in GapSet(n) : /\ n.read_gap_times[g] \in Nat /\ IsGap(g, n)
                           /\ g[1] + g[2] <= r.offset
                           /\ \A o \in DOMAIN m.fh.data : ~In(o, g)
  <2> HIDE DEF tell
  <2>1. ASSUME NEW g \in GapSet(n) PROVE g[1] + g[2] <= tell
    BY <1>1, <1>6, <1>8, SMTT(60) DEF tell, FtpAssumption
  <2> QED BY <1>5, <1>6, <1>7, <1>8, <2>1 DEF IsGap
<1>10. \A o \in Begin(m) .. tell - 1 :
         o \in Begin(m) .. r.offset - 1 \/ o \in r.offset .. r.offset + r.len - 1
  BY <1>1, <1>7
<1>11. Downloads(n)
  <2>1. /\ Sequential(n.read_gaps)
        /\ \A i, j \in DOMAIN n.read_gaps : n.read_gaps[i] = n.read_gaps[j] => i = j
        /\ DOMAIN n.read_gap_times = GapSet(n)
        /\ \A g, h \in GapSet(n) : g # h => Apart(g, h)
    BY <1>6, <1>8
  <2>2. \A o \in Begin(m) .. tell - 1 :
              \/ o \in DOMAIN m.fh.data \/ o \in r.offset .. r.offset + r.len - 1
              \/ \E g \in GapSet(n) : In(o, g)
    BY <1>6, <1>8, <1>10
  <2>3. r.offset + r.len <= tell
    BY <1>1
  <2> HIDE DEF Found
  <2> QED BY <1>4, <1>7, <1>9, <2>1, <2>2, <2>3, PieceWritten
<1>12. m.read_gaps # <<>> => n.read_gaps # <<>>
  <2>1. CASE r.offset > m.fh.tell
    <3>1. m.fh.tell < r.offset
      BY <1>1, <2>1
    <3>2. Sequential(m.read_gaps) /\ Sequential(gs)
      <4> HIDE DEF gs
      <4> QED BY <1>1, <3>1, GapsOf DEF gs, Gaps
    <3>3. ToSet(m.read_gaps \o gs) = ToSet(m.read_gaps) \union ToSet(gs)
      <4> HIDE DEF gs
      <4> QED BY <3>2, Concatenated
    <3>4. m.read_gaps # <<>> => ToSet(m.read_gaps) # {}
      BY <3>2, NoElement
    <3>5. n.read_gaps = m.read_gaps \o gs
      BY <1>2, <1>4, <2>1
    <3> HIDE DEF gs
    <3> QED BY <3>3, <3>4, <3>5, OneElement
  <2>2. CASE ~(r.offset > m.fh.tell)
    BY <1>2, <1>4, <2>2
  <2> QED BY <2>1, <2>2
<1> QED BY <1>4, <1>7, <1>11, <1>12 DEF n, k

\* A piece that was asked for again fills its gap.
LEMMA Filled ==
    ASSUME FtpAssumption, NEW m, Downloads(m), NEW r, r.file = m.filename,
           r.offset + r.len <= m.requested_size, Contains(m.read_gaps, <<r.offset, r.len>>)
    PROVE  LET n == FillGap(m, r, <<r.offset, r.len>>) IN
           Downloads(n) /\ Same(m, n, Payloads) /\ r.offset + r.len <= n.fh.tell
<1> DEFINE gap == <<r.offset, r.len>>
           less == RemoveFirst(m.read_gaps, gap)
           times == [g \in DOMAIN m.read_gap_times \ {gap} |-> m.read_gap_times[g]]
           k == [m EXCEPT !.read_gaps = less, !.read_gap_times = times]
           w == __write_payload(k, r)
           n == FillGap(m, r, gap)
<1>1. /\ DOMAIN m = Fields /\ Had(m) /\ Gaps(m) /\ m.fh.tell \in Nat /\ burst_read_size \in Nat
  BY DEF Downloads, Formed, FtpAssumption, Had
<1>2. gap \in GapSet(m)
  <2>1. PICK i \in 1 .. Len(m.read_gaps) : m.read_gaps[i] = gap
    BY DEF Contains
  <2>2. DOMAIN m.read_gaps = 1 .. Len(m.read_gaps)
    BY <1>1 DEF Gaps, Sequential
  <2> QED BY <2>1, <2>2 DEF GapSet, ToSet
<1>3. IsGap(gap, m) /\ \A o \in DOMAIN m.fh.data : ~In(o, gap)
  BY <1>1, <1>2 DEF Gaps
<1>4. gap[1] = r.offset /\ gap[2] = r.len
  OBVIOUS
<1> HIDE DEF gap
<1>5. /\ r.offset \in Nat /\ r.len \in 1 .. burst_read_size /\ Begin(m) <= r.offset
      /\ r.offset + r.len <= m.fh.tell
  BY <1>3, <1>4 DEF IsGap
<1>6. IsPiece(r, m)
  <2>1. \A o \in r.offset .. r.offset + r.len - 1 : o \notin DOMAIN m.fh.data
    BY <1>3, <1>4, <1>5 DEF In
  <2> QED BY <1>5, <2>1 DEF IsPiece
<1>7. /\ Same(m, k, {"read_gaps", "read_gap_times"})
      /\ k.read_gaps = less /\ k.read_gap_times = times
  <2> HIDE DEF less, times
  <2> QED BY <1>1 DEF Same, Fields
<1>8. n = [w EXCEPT !.fh = [@ EXCEPT !.tell = m.fh.tell]]
  BY DEF FillGap
<1> HIDE DEF k, less, times
<1>9. /\ Same(k, w, {"fh", "read_total"}) /\ w.read_total = k.read_total + r.len
      /\ w.fh = [tell |-> r.offset + r.len,
                 data |-> Merged([o \in r.offset .. (r.offset + r.len - 1) |-> r.file], k.fh.data)]
  BY <1>7 DEF __write_payload, Same, Fields
<1> HIDE DEF w, n
<1>10. /\ Same(k, n, {"fh", "read_total"}) /\ n.read_total = k.read_total + r.len
       /\ n.fh = [tell |-> m.fh.tell,
                  data |-> Merged([o \in r.offset .. (r.offset + r.len - 1) |-> r.file], k.fh.data)]
  BY <1>8, <1>9 DEF Same, Fields
<1>11. /\ Same(m, n, Payloads) /\ n.read_total = m.read_total + r.len
       /\ n.fh = [tell |-> m.fh.tell,
                  data |-> Merged([o \in r.offset .. (r.offset + r.len - 1) |-> r.file], m.fh.data)]
       /\ n.read_gaps = less /\ n.read_gap_times = times
  BY <1>7, <1>10 DEF Same, Fields, Payloads
<1>12. Begin(n) = Begin(m) /\ n.fh.tell = m.fh.tell
  BY <1>11 DEF Same, Fields, Payloads, Begin
<1>13. /\ Sequential(less) /\ ToSet(less) = GapSet(m) \ {gap}
       /\ \A i, j \in DOMAIN less : less[i] = less[j] => i = j
  BY <1>1, <1>2, RemovedFirst DEF Gaps, GapSet, less
<1>14. GapSet(n) = GapSet(m) \ {gap}
  BY <1>11, <1>13 DEF GapSet
<1>15. DOMAIN n.read_gap_times = GapSet(n) /\ \A g \in GapSet(n) : n.read_gap_times[g] \in Nat
  BY <1>1, <1>11, <1>14 DEF Gaps, times
<1>16. \A g \in GapSet(n) : /\ IsGap(g, n)
                            /\ g[1] + g[2] <= r.offset \/ r.offset + r.len <= g[1]
                            /\ \A o \in DOMAIN m.fh.data : ~In(o, g)
  <2> SUFFICES ASSUME NEW g \in GapSet(n)
               PROVE  /\ IsGap(g, n)
                      /\ g[1] + g[2] <= r.offset \/ r.offset + r.len <= g[1]
                      /\ \A o \in DOMAIN m.fh.data : ~In(o, g)
    OBVIOUS
  <2>1. g \in GapSet(m) /\ g # gap
    BY <1>14
  <2>2. IsGap(g, m) /\ Apart(g, gap) /\ \A o \in DOMAIN m.fh.data : ~In(o, g)
    BY <1>1, <1>2, <2>1 DEF Gaps
  <2> QED BY <1>4, <1>12, <2>2 DEF IsGap, Apart
<1>17. \A g, h \in GapSet(n) : g # h => Apart(g, h)
  BY <1>1, <1>14 DEF Gaps
<1>18. \A o \in Begin(m) .. m.fh.tell - 1 :
              \/ o \in DOMAIN m.fh.data \/ o \in r.offset .. r.offset + r.len - 1
              \/ \E g \in GapSet(n) : In(o, g)
  <2> SUFFICES ASSUME NEW o \in Begin(m) .. m.fh.tell - 1, o \notin DOMAIN m.fh.data
               PROVE  o \in r.offset .. r.offset + r.len - 1 \/ \E g \in GapSet(n) : In(o, g)
    OBVIOUS
  <2>1. PICK g \in GapSet(m) : In(o, g)
    BY <1>1 DEF Had
  <2>2. CASE g = gap
    <3>1. Begin(m) \in Nat /\ o \in Int
      BY <1>1 DEF Begin, Downloads, Formed
    <3> QED BY <1>4, <1>5, <2>1, <2>2, <3>1 DEF In
  <2>3. CASE g # gap
    BY <1>14, <2>1, <2>3
  <2> QED BY <2>2, <2>3
<1>19. Downloads(n)
  <2> DEFINE tell == m.fh.tell
  <2>1. /\ tell \in Nat /\ m.fh.tell <= tell /\ r.offset + r.len <= tell
        /\ n.fh = [tell |-> tell,
                   data |-> Merged([o \in r.offset .. (r.offset + r.len - 1) |-> r.file], m.fh.data)]
    BY <1>1, <1>5, <1>11
  <2>2. \A o \in Begin(m) .. tell - 1 :
              \/ o \in DOMAIN m.fh.data \/ o \in r.offset .. r.offset + r.len - 1
              \/ \E g \in GapSet(n) : In(o, g)
    BY <1>18
  <2>3. \A g \in GapSet(n) : /\ n.read_gap_times[g] \in Nat /\ IsGap(g, n)
                             /\ g[1] + g[2] <= r.offset \/ r.offset + r.len <= g[1]
                             /\ \A o \in DOMAIN m.fh.data : ~In(o, g)
    BY <1>15, <1>16
  <2>4. /\ Sequential(n.read_gaps)
        /\ \A i, j \in DOMAIN n.read_gaps : n.read_gaps[i] = n.read_gaps[j] => i = j
    BY <1>11, <1>13
  <2> HIDE DEF tell
  <2> QED BY <1>6, <1>11, <1>15, <1>17, <2>1, <2>2, <2>3, <2>4, PieceWritten
<1>20. r.offset + r.len <= n.fh.tell
  BY <1>5, <1>12
<1> QED BY <1>11, <1>19, <1>20 DEF n, gap

(* ------------------------------- what comes back ---------------------------- *)
\* What follows on a state that goes on follows on the one before it.
LEMMA Following ==
    ASSUME NEW k, NEW m, NEW n, Kept(k, m), m.last_send \in {0, k.last_send}, Proceeds(m, n)
    PROVE  Proceeds(k, n)
<1>1. /\ m.session = k.session /\ m.requested_offset = k.requested_offset /\ m.quiet = k.quiet
      /\ \A x \in {"session", "filename", "call", "requested_offset", "quiet"} : m[x] = k[x]
  BY DEF Kept
<1>2. CASE Continues(m, n)
  BY <1>1, <1>2 DEF Continues, Kept, Proceeds
<1>3. CASE Over(m, n)
  BY <1>1, <1>3 DEF Over, Proceeds
<1> QED BY <1>2, <1>3 DEF Proceeds

\* A packet of a burst is dealt with; at its end the next burst is asked for.
LEMMA BurstGoesOn ==
    ASSUME FtpAssumption, NEW m, GoesOn(m), NEW r, r.offset \in Nat, r.len \in Nat,
           r.offset + r.len <= m.fh.tell,
           r.len < burst_read_size => r.offset + r.len = m.requested_size
    PROVE  Proceeds(m, BurstContinues(m, r))
<1> DEFINE n == BurstContinues(m, r)
           op == [m.last_op EXCEPT !.offset = r.offset + r.len]
<1>1. Downloads(m) /\ m.burst_size = burst_read_size
  BY DEF GoesOn, Downloads, Reading
<1>2. CASE ~r.complete
  <2>1. n = m
    BY <1>2 DEF BurstContinues
  <2>2. Continues(m, m)
    BY DEF Continues, Kept
  <2> QED BY <2>1, <2>2 DEF Proceeds
<1>3. CASE r.complete /\ r.len > 0 /\ r.len < m.burst_size
  <2> DEFINE e == Successful(m)
  <2>1. n = EofReached(e)
    BY <1>3 DEF BurstContinues
  <2>2. Downloads(e) /\ Same(m, e, {"ret"})
    BY <1>1, SuccessfulIs
  <2> HIDE DEF e
  <2>3. e.fh = m.fh /\ e.requested_size = m.requested_size /\ Kept(m, e) /\ e.last_send = m.last_send
    BY <2>2 DEF Same, Fields, Kept
  <2>4. e.requested_size <= e.fh.tell
    BY <1>1, <1>3, <2>3
  <2>5. Proceeds(e, n)
    BY <2>1, <2>2, <2>4, AtEof
  <2> HIDE DEF n
  <2> QED BY <2>3, <2>5, Following DEF n
<1>4. CASE r.complete /\ ~(r.len > 0 /\ r.len < m.burst_size)
  <2>1. n = __send(m, op)
    BY <1>4 DEF BurstContinues
  <2>2. ReadOp(op, m.session)
    <3>1. ReadOp(m.last_op, m.session)
      BY <1>1 DEF Downloads, Sends
    <3>2. m.last_op = Op(m.last_op.opcode, m.last_op.session, m.last_op.offset, m.last_op.size,
                         m.last_op.file)
      BY <3>1 DEF ReadOp, IsOp
    <3>3. /\ op.opcode = m.last_op.opcode /\ op.session = m.last_op.session
          /\ op.size = m.last_op.size /\ op.file = m.last_op.file /\ op.offset = r.offset + r.len
          /\ op = Op(op.opcode, op.session, op.offset, op.size, op.file)
      BY <3>2 DEF Op
    <3> HIDE DEF op
    <3>4. op.offset \in Nat
      BY <3>3
    <3> QED BY <3>1, <3>3, <3>4 DEF ReadOp, IsOp
  <2> HIDE DEF op
  <2>3. Downloads(n) /\ Same(m, n, {"out", "last_op", "last_send"}) /\ n.last_send = 0
    BY <1>1, <2>1, <2>2, ReadSent
  <2> HIDE DEF n
  <2>4. Kept(m, n) /\ n.reached_eof = m.reached_eof /\ n.read_gaps = m.read_gaps
    BY <2>3 DEF Kept, Same, Fields
  <2> QED BY <2>3, <2>4 DEF Proceeds, Continues, GoesOn, n
<1> QED BY <1>2, <1>3, <1>4

\* A member of the turn is set: the result, the burst, what is outstanding.
LEMMA Noted ==
    ASSUME NEW m, GoesOn(m), NEW n, Same(m, n, {"ret", "burst_size", "last_burst_read", "backlog"}),
           n.ret # "RemoteReplyTimeout", n.burst_size = burst_read_size, n.last_burst_read \in Nat
    PROVE  Continues(m, n)
<1>1. Downloads(m)
  BY DEF GoesOn
<1>2. /\ n.last_send = m.last_send /\ n.op_start = m.op_start /\ n.quiet = m.quiet
      /\ n.too_fast = m.too_fast /\ n.read_gap_times = m.read_gap_times
      /\ n.reached_eof = m.reached_eof /\ n.read_gaps = m.read_gaps /\ Kept(m, n)
  BY DEF Same, Fields, Kept
<1>3. Same(m, n, Marks)
  BY DEF Same, Marks
<1>4. /\ n.last_send \in Nat /\ n.op_start \in Nat /\ n.quiet \in Nat
      /\ DOMAIN n.read_gap_times = DOMAIN m.read_gap_times
      /\ \A g \in DOMAIN m.read_gap_times : n.read_gap_times[g] \in Nat
  BY <1>1, <1>2 DEF Downloads, Formed, Clocks, Gaps
<1>5. Downloads(n)
  BY <1>1, <1>3, <1>4, Marked
<1> QED BY <1>2, <1>5 DEF Continues, GoesOn

\* After a piece, either all is read or there is more to be asked for.
LEMMA NotFinished ==
    ASSUME NEW m, Downloads(m), ~ReadFinished(m)
    PROVE  GoesOn(m)
BY DEF GoesOn, ReadFinished

\* A download has its file open.
LEMMA IsOpen ==
    ASSUME NEW m, Downloads(m)
    PROVE  Open(m) /\ m.op_start # -1 /\ m.filename # None
<1>1. m.fh.tell \in Nat /\ m.op_start \in Nat
  BY DEF Downloads, Had, Clocks
<1> QED BY <1>1 DEF Open, NotOpen, Downloads, Target

\* What a payload does not touch.
LEMMA PayloadKeeps ==
    ASSUME NEW m, NEW n, Same(m, n, Payloads)
    PROVE  /\ Kept(m, n) /\ n.last_send = m.last_send /\ n.reached_eof = m.reached_eof
           /\ n.requested_size = m.requested_size /\ n.burst_size = m.burst_size
           /\ n.ret = m.ret
BY DEF Same, Fields, Payloads, Kept

\* __handle_burst_read
LEMMA BurstHandled ==
    ASSUME FtpAssumption, NEW k, GoesOn(k), NEW r, Right(r, k), r.req = "BurstReadFile"
    PROVE  Proceeds(k, __handle_burst_read(k, r))
<1> DEFINE m == [k EXCEPT !.last_burst_read = 0, !.ret = "Fail",
                          !.burst_size = IF r.len > @ THEN MaxPayload ELSE @]
           gap == <<r.offset, r.len>>
           n == __handle_burst_read(k, r)
<1>1. Downloads(k) /\ Open(k) /\ k.filename # None /\ DOMAIN k = Fields
      /\ k.burst_size = burst_read_size /\ burst_read_size \in Nat
      /\ k.requested_size = Size[k.filename] /\ k.requested_size \in Nat
  <2>1. Downloads(k)
    BY DEF GoesOn
  <2>2. DOMAIN k = Fields /\ k.burst_size = burst_read_size /\ burst_read_size \in Nat
        /\ k.requested_size = Size[k.filename] /\ k.requested_size \in Nat
    BY <2>1 DEF Downloads, Formed, Reading, Target, FtpAssumption, Files
  <2> QED BY <2>1, <2>2, IsOpen
<1>2. ~(r.len > burst_read_size) /\ r.len \in Nat
  BY <1>1 DEF Right
<1>3. /\ Same(k, m, {"ret", "burst_size", "last_burst_read", "backlog"}) /\ m.ret = "Fail"
      /\ m.last_burst_read = 0 /\ m.burst_size = IF r.len > k.burst_size THEN MaxPayload ELSE k.burst_size
  BY <1>1 DEF Same, Fields
<1>4. Continues(k, m) /\ m.burst_size = burst_read_size
  <2> HIDE DEF m
  <2>1. m.burst_size = burst_read_size /\ m.ret # "RemoteReplyTimeout" /\ m.last_burst_read \in Nat
    BY <1>1, <1>2, <1>3
  <2> QED BY <1>3, <2>1, Noted
<1>7. CASE r.ack
  <2>1. Continues(k, m) /\ m.burst_size = burst_read_size
    BY <1>4
  <2>2. GoesOn(m) /\ Downloads(m) /\ Kept(k, m) /\ m.last_send \in {0, k.last_send}
    BY <2>1 DEF Continues, GoesOn
  <2>3. m.filename = k.filename /\ m.requested_size = k.requested_size /\ m.reached_eof = k.reached_eof
        /\ m.read_gaps = k.read_gaps /\ m.fh = k.fh
    BY <1>3 DEF Same, Fields
  <2>4. /\ r.offset \in Nat /\ r.file = m.filename /\ r.len \in 1 .. burst_read_size
        /\ r.offset + r.len <= m.requested_size
        /\ r.len < burst_read_size => r.offset + r.len = m.requested_size
    BY <1>1, <1>7, <2>3 DEF Right
  <2>5. n = IF r.offset < m.fh.tell
            THEN IF ~Contains(m.read_gaps, gap) THEN m
                 ELSE LET p == FillGap(m, r, gap) IN
                      IF ReadEnded(p) THEN __check_read_finished(Successful(p)) ELSE BurstContinues(p, r)
            ELSE BurstContinues(__write_payload(IF r.offset > m.fh.tell THEN NewGaps(m, r) ELSE m, r), r)
    BY <1>1, <1>7 DEF __handle_burst_read
  <2> HIDE DEF n, m
  <2>6. CASE r.offset < m.fh.tell /\ ~Contains(m.read_gaps, gap)
    BY <2>1, <2>5, <2>6 DEF Proceeds, n
  <2>7. CASE r.offset < m.fh.tell /\ Contains(m.read_gaps, gap)
    <3> DEFINE p == FillGap(m, r, gap)
    <3>1. Downloads(p) /\ Same(m, p, Payloads) /\ r.offset + r.len <= p.fh.tell
      BY <2>2, <2>4, <2>7, Filled
    <3>2. n = IF ReadEnded(p) THEN __check_read_finished(Successful(p)) ELSE BurstContinues(p, r)
      BY <2>5, <2>7
    <3> HIDE DEF p
    <3>3. /\ Kept(m, p) /\ p.last_send = m.last_send /\ p.requested_size = m.requested_size
      BY <3>1, PayloadKeeps
    <3>4. Kept(k, p) /\ p.last_send \in {0, k.last_send}
      BY <2>2, <3>3 DEF Kept
    <3>5. ReadEnded(p) <=> ReadFinished(p)
      BY <3>1, IsOpen DEF ReadEnded
    <3>6. CASE ReadFinished(p)
      <4>1. Over(p, n)
        BY <3>1, <3>2, <3>5, <3>6, FinishedWell
      <4> QED BY <3>4, <4>1, Following DEF Proceeds, n
    <3>7. CASE ~ReadFinished(p)
      <4>1. GoesOn(p) /\ n = BurstContinues(p, r)
        BY <3>1, <3>2, <3>5, <3>7, NotFinished
      <4>2. Proceeds(p, n)
        BY <2>4, <3>1, <3>3, <4>1, BurstGoesOn
      <4> QED BY <3>4, <4>2, Following DEF n
    <3> QED BY <3>6, <3>7
  <2>8. CASE ~(r.offset < m.fh.tell)
    <3> DEFINE p == __write_payload(IF r.offset > m.fh.tell THEN NewGaps(m, r) ELSE m, r)
    <3>1. m.fh.tell <= r.offset /\ IsPiece(r, m)
      <4>1. /\ m.fh.tell \in Nat /\ Begin(m) <= m.fh.tell /\ Begin(m) \in Nat
            /\ \A o \in DOMAIN m.fh.data : o < m.fh.tell /\ o \in 0 .. m.requested_size - 1
        BY <2>2 DEF Downloads, Had, Begin, Formed
      <4>2. m.fh.tell <= r.offset /\ Begin(m) <= r.offset
        BY <2>4, <2>8, <4>1
      <4>3. \A o \in r.offset .. r.offset + r.len - 1 : o \notin DOMAIN m.fh.data
        BY <2>4, <4>1, <4>2
      <4> QED BY <2>4, <4>2, <4>3 DEF IsPiece
    <3>2. /\ Downloads(p) /\ Same(m, p, Payloads) /\ p.fh.tell = r.offset + r.len
          /\ m.read_gaps # <<>> => p.read_gaps # <<>>
      BY <2>2, <3>1, Written
    <3>3. n = BurstContinues(p, r)
      BY <2>5, <2>8
    <3> HIDE DEF p
    <3>4. /\ Kept(m, p) /\ p.last_send = m.last_send /\ p.requested_size = m.requested_size
          /\ p.reached_eof = m.reached_eof
      BY <3>2, PayloadKeeps
    <3>5. Kept(k, p) /\ p.last_send \in {0, k.last_send}
      BY <2>2, <3>4 DEF Kept
    <3>6. GoesOn(p)
      BY <2>2, <3>2, <3>4 DEF GoesOn
    <3>7. Proceeds(p, n)
      BY <2>4, <3>2, <3>3, <3>4, <3>6, BurstGoesOn
    <3> QED BY <3>5, <3>7, Following DEF n
  <2> QED BY <2>6, <2>7, <2>8
<1>8. CASE ~r.ack
  <2>1. r.payload = EndOfFile /\ r.offset >= k.requested_size /\ r.payload[1] = 6 /\ r.offset \in Nat
    BY <1>1, <1>8 DEF Right, EndOfFile
  <2>2. n = IF ~m.reached_eof /\ r.offset > m.fh.tell THEN m ELSE EofReached(m)
    BY <1>1, <1>8, <2>1 DEF __handle_burst_read
  <2>3. m.requested_size = k.requested_size /\ Kept(k, m) /\ m.last_send \in {0, k.last_send}
        /\ Downloads(m)
    <3>1. m.requested_size = k.requested_size
      BY <1>3 DEF Same, Fields
    <3> HIDE DEF m
    <3> QED BY <1>4, <3>1 DEF Continues, GoesOn
  <2> HIDE DEF n, m
  <2>4. CASE ~m.reached_eof /\ r.offset > m.fh.tell
    BY <1>4, <2>2, <2>4 DEF Proceeds, n
  <2>5. CASE ~(~m.reached_eof /\ r.offset > m.fh.tell)
    <3>1. m.requested_size <= m.fh.tell
      <4>1. m.fh.tell \in Nat /\ (m.reached_eof => m.requested_size <= m.fh.tell)
        BY <2>3 DEF Downloads, Had, Clocks
      <4> QED BY <1>1, <2>1, <2>3, <2>5, <4>1
    <3>2. Proceeds(m, n)
      BY <2>2, <2>3, <2>5, <3>1, AtEof
    <3> QED BY <2>3, <3>2, Following DEF n
  <2> QED BY <2>4, <2>5
<1> QED BY <1>7, <1>8

\* A download may be given up.
LEMMA GivenUp ==
    ASSUME NEW m, Downloads(m)
    PROVE  Over(m, __terminate_session(m)) /\ ~Open(__terminate_session(m))
<1>1. Formed(m) /\ Reading(m) /\ Sends(m)
  BY DEF Downloads
<1>2. Known(m)
  BY <1>1 DEF Known, Sends, ReadOp, Formed
<1>3. /\ m.pc = "reply" /\ m.call \in {"get", "read"} /\ m.call # "put" /\ m.told = <<>>
      /\ m.callback \in BOOLEAN /\ m.put_callback = FALSE /\ GotWhole(m) /\ NothingTold(m)
      /\ ~PutTold(m)
  BY <1>1 DEF Reading, GotWhole, NothingTold, PutTold
<1>4. Over(m, __terminate_session(m))
  BY <1>1, <1>2, <1>3, OverBy
<1> QED BY <1>4 DEF Over, Ends, Cleared, Open

\* What is over has no file open.
LEMMA OverClosed ==
    ASSUME NEW m, NEW n, Over(m, n)
    PROVE  ~Open(n)
BY DEF Over, Ends, Cleared, Open

\* A download goes on or is over after __check_read_send.
LEMMA AskedAgain ==
    ASSUME FtpAssumption, NEW m, GoesOn(m)
    PROVE  Proceeds(m, __check_read_send(m))
<1> DEFINE n == __check_read_send(m)
<1>1. Downloads(m) /\ Sequential(m.read_gaps) /\ RetryTime = 1
  BY DEF GoesOn, Downloads, Gaps, FtpAssumption
<1>2. Resent(m, n)
  BY <1>1, ReadsAgain
<1> HIDE DEF n
<1>3. GoesOn(n) /\ Kept(m, n)
  BY <1>1, <1>2, ResentGoesOn DEF Kept
<1> QED BY <1>2, <1>3 DEF Resent, Proceeds, Continues, n

\* __handle_reply_read
LEMMA ReadHandled ==
    ASSUME FtpAssumption, NEW k, GoesOn(k), NEW r, Right(r, k), r.req = "ReadFile"
    PROVE  Proceeds(k, __handle_reply_read(k, r))
<1> DEFINE m == [k EXCEPT !.backlog = IF @ > 0 THEN @ - 1 ELSE 0, !.ret = "Success"]
           gap == <<r.offset, r.len>>
           n == __handle_reply_read(k, r)
           p == FillGap(m, r, gap)
           f == IF ~r.ack THEN __terminate_session(m)
                ELSE IF Contains(m.read_gaps, gap) THEN __check_read_finished(p)
                ELSE IF r.len < m.burst_size THEN __terminate_session(m)
                ELSE m
<1>1. Downloads(k) /\ Open(k) /\ k.filename # None /\ DOMAIN k = Fields
      /\ k.burst_size = burst_read_size /\ k.last_burst_read \in Nat
      /\ k.requested_size = Size[k.filename]
  <2>1. Downloads(k)
    BY DEF GoesOn
  <2>2. DOMAIN k = Fields /\ k.burst_size = burst_read_size /\ k.last_burst_read \in Nat
        /\ k.requested_size = Size[k.filename]
    BY <2>1 DEF Downloads, Formed, Reading, Target, Clocks
  <2> QED BY <2>1, <2>2, IsOpen
<1>2. n = IF Open(f) THEN __check_read_send(f) ELSE f
  BY <1>1 DEF __handle_reply_read
<1>3. /\ Same(k, m, {"ret", "burst_size", "last_burst_read", "backlog"}) /\ m.ret = "Success"
      /\ m.last_burst_read = k.last_burst_read /\ m.burst_size = k.burst_size
      /\ m.filename = k.filename /\ m.requested_size = k.requested_size
  BY <1>1 DEF Same, Fields
<1> HIDE DEF m
<1>4. Continues(k, m)
  BY <1>1, <1>3, Noted
<1>5. GoesOn(m) /\ Downloads(m) /\ Kept(k, m) /\ m.last_send \in {0, k.last_send}
  BY <1>4 DEF Continues, GoesOn
<1> HIDE DEF n, f
<1>6. Proceeds(m, n)
  <2>1. CASE f = __terminate_session(m)
    <3>1. Over(m, f) /\ ~Open(f)
      BY <1>5, <2>1, GivenUp
    <3> QED BY <1>2, <3>1 DEF Proceeds
  <2>2. CASE r.ack /\ Contains(m.read_gaps, gap)
    <3>1. f = __check_read_finished(p)
      BY <2>2 DEF f
    <3>2. Downloads(p) /\ Same(m, p, Payloads)
      <4>1. r.file = m.filename /\ r.offset + r.len <= m.requested_size
        BY <1>1, <1>3, <2>2 DEF Right
      <4> QED BY <1>5, <2>2, <4>1, Filled
    <3> HIDE DEF p
    <3>3. Kept(m, p) /\ p.last_send = m.last_send
      BY <3>2, PayloadKeeps
    <3>4. CASE ReadFinished(p)
      <4>1. Over(p, f)
        BY <3>1, <3>2, <3>4, Finished
      <4>2. n = f
        BY <1>2, <4>1, OverClosed
      <4> QED BY <3>3, <4>1, <4>2, Following DEF Proceeds
    <3>5. CASE ~ReadFinished(p)
      <4>1. f = p
        BY <3>1, <3>5 DEF __check_read_finished
      <4>2. GoesOn(p) /\ Open(p)
        BY <3>2, <3>5, NotFinished, IsOpen
      <4>3. Proceeds(p, n)
        BY <1>2, <4>1, <4>2, AskedAgain
      <4> QED BY <3>3, <4>3, Following
    <3> QED BY <3>4, <3>5
  <2>3. CASE f = m
    <3>1. Open(m)
      BY <1>5, IsOpen
    <3> QED BY <1>2, <1>5, <2>3, <3>1, AskedAgain
  <2> QED BY <2>1, <2>2, <2>3 DEF f
<1> QED BY <1>5, <1>6, Following DEF n

(* --------------------------- the file that is asked for --------------------- *)
LEMMA DecodedNot ==
    ASSUME NEW payload
    PROVE  Decoded(payload) # "RemoteReplyTimeout"
BY DEF Decoded, FtpError

\* __handle_open_ro_reply
LEMMA OpenHandled ==
    ASSUME FtpAssumption, NEW m, Formed(m), Asks(m), m.out = <<>>, NEW r,
           r.ack => m.filename \in Files /\ r.len = Size[m.filename]
    PROVE  LET n == __handle_open_ro_reply(m, r) IN
           \/ Over(m, n)
           \/ /\ r.ack /\ GoesOn(n) /\ Kept(m, n) /\ n.last_send = 0
           \/ n.out = <<>> /\ Formed(n) /\ Asks(n) /\ Same(m, n, {"ret"})
<1> DEFINE n == __handle_open_ro_reply(m, r)
<1>1. DOMAIN m = Fields /\ Reading(m)
  BY DEF Formed, Asks
<1>2. CASE ~r.ack
  <2> DEFINE k == [m EXCEPT !.ret = __decode_ftp_ack_and_nack(r)]
  <2>1. n = __terminate_session(k)
    BY <1>2 DEF __handle_open_ro_reply
  <2>2. Same(m, k, {"ret"}) /\ k.ret # "RemoteReplyTimeout"
    <3>1. __decode_ftp_ack_and_nack(r) # "RemoteReplyTimeout"
      BY <1>2, DecodedNot DEF __decode_ftp_ack_and_nack
    <3> QED BY <1>1, <3>1 DEF Same, Fields
  <2> HIDE DEF k, n
  <2>3. \A x \in Fields \ {"ret"} : k[x] = m[x]
    BY <2>2 DEF Same
  <2>4. Formed(k)
    BY <2>2, <2>3 DEF Formed, Fields, Same
  <2>5. /\ k.pc = "reply" /\ k.call \in {"get", "read"} /\ k.told = <<>>
        /\ k.callback \in BOOLEAN /\ k.put_callback = FALSE /\ k.out = <<>>
        /\ k.session = m.session /\ k.requested_offset = m.requested_offset /\ k.quiet = m.quiet
        /\ k.call = m.call
    BY <1>1, <2>3 DEF Fields, Reading
  <2>6. GotWhole(k) /\ NothingTold(k) /\ Known(k) /\ k.call # "put" /\ ~PutTold(k)
    BY <2>5, OneElement DEF GotWhole, NothingTold, Known, PutTold
  <2>7. Over(k, n)
    BY <2>1, <2>4, <2>5, <2>6, OverBy
  <2>8. Over(m, n)
    BY <2>5, <2>7 DEF Over
  <2> QED BY <2>8 DEF n
<1>3. CASE r.ack /\ m.filename = None
  <2>1. n = [m EXCEPT !.ret = "FileNotFound"]
    BY <1>3 DEF __handle_open_ro_reply
  <2>2. Same(m, n, {"ret"}) /\ n.ret = "FileNotFound"
    BY <1>1, <2>1 DEF Same, Fields
  <2> HIDE DEF n
  <2>3. \A x \in Fields \ {"ret"} : n[x] = m[x]
    BY <2>2 DEF Same
  <2>4. Formed(n) /\ n.out = <<>>
    BY <2>2, <2>3 DEF Formed, Fields, Same
  <2>5. Asks(n)
    BY <2>3 DEF Asks, Reading, Fields, NoGaps
  <2> QED BY <2>2, <2>4, <2>5 DEF n
<1>4. CASE r.ack /\ m.filename # None
  <2> DEFINE start == IF m.callback THEN 0 ELSE m.requested_offset
             k == [m EXCEPT !.fh = [tell |-> start, data |-> <<>>],
                            !.requested_size = r.len, !.last_burst_read = 0, !.ret = "Success"]
             op == Op("BurstReadFile", m.session, 0, m.burst_size, None)
  <2>1. n = __send(k, op)
    BY <1>4 DEF __handle_open_ro_reply
  <2>2. /\ Same(m, k, {"fh", "requested_size", "last_burst_read", "ret"})
        /\ k.fh = [tell |-> start, data |-> <<>>] /\ k.requested_size = r.len
        /\ k.last_burst_read = 0 /\ k.ret = "Success"
    <3> HIDE DEF start
    <3> QED BY <1>1 DEF Same, Fields
  <2> HIDE DEF k, n
  <2>3. /\ k.session = m.session /\ k.last_send = m.last_send /\ k.quiet = m.quiet
        /\ k.requested_offset = m.requested_offset /\ k.done = m.done /\ k.list_result = m.list_result
        /\ k.pc = m.pc /\ k.out = m.out /\ k.call = m.call /\ k.told = m.told
        /\ k.callback = m.callback /\ k.put_callback = m.put_callback
        /\ k.write_list = m.write_list /\ k.burst_size = m.burst_size /\ k.filename = m.filename
        /\ k.read_gaps = m.read_gaps /\ k.read_gap_times = m.read_gap_times
        /\ k.read_total = m.read_total /\ k.reached_eof = m.reached_eof
        /\ k.op_start = m.op_start /\ k.too_fast = m.too_fast
    BY <2>2 DEF Same, Fields
  <2>4. Formed(m) /\ m.out = <<>>
    OBVIOUS
  <2>5. Formed(k)
    BY <2>2, <2>3, <2>4 DEF Formed, Same
  <2>6. Reading(k) /\ Target(k) /\ Clocks(k)
    <3>1. Reading(k)
      BY <1>1, <2>3 DEF Reading
    <3>2. Target(k)
      BY <1>4, <2>2, <2>3 DEF Target
    <3>3. m.op_start \in Nat
      BY <2>4 DEF Asks, Formed, FtpAssumption
    <3>4. k.reached_eof = FALSE /\ k.op_start \in Nat /\ k.last_burst_read \in Nat
      BY <2>2, <2>3, <3>3 DEF Asks
    <3>5. Clocks(k)
      BY <3>4 DEF Clocks
    <3> QED BY <3>1, <3>2, <3>5
  <2>7. DOMAIN <<>> = {} /\ GapSet(k) = {} /\ k.read_gaps = <<>> /\ k.read_gap_times = <<>>
        /\ Sequential(<<>>)
    <3>1. DOMAIN <<>> = {} /\ Sequential(<<>>)
      BY DEF Sequential
    <3>2. k.read_gaps = <<>> /\ k.read_gap_times = <<>>
      BY <2>3 DEF Asks, NoGaps
    <3> QED BY <3>1, <3>2, OneElement DEF GapSet
  <2>8. Had(k)
    <3>1. start \in Nat /\ Begin(k) = start
      BY <2>3, <2>4 DEF Begin, Formed
    <3> HIDE DEF start
    <3>2. k.fh.tell = start /\ k.fh.data = <<>> /\ k.fh = [tell |-> k.fh.tell, data |-> k.fh.data]
      BY <2>2
    <3>3. k.read_total = 0 /\ Cardinality(DOMAIN k.fh.data) = 0
      BY <2>3, <2>7, <3>2, FS_EmptySet DEF Asks
    <3>4. Begin(k) .. k.fh.tell - 1 = {}
      BY <3>1, <3>2
    <3> QED BY <2>7, <3>1, <3>2, <3>3, <3>4 DEF Had
  <2>9. Gaps(k)
    <3>1. DOMAIN k.read_gaps = {} /\ DOMAIN k.read_gap_times = {}
      BY <2>7
    <3> QED BY <2>7, <3>1 DEF Gaps
  <2>10. /\ Same(k, n, {"out", "last_op", "last_send"}) /\ Formed(n)
         /\ n.last_op = op /\ n.last_send = 0 /\ ToSet(n.out) = ToSet(k.out) \union {op}
    BY <2>1, <2>5, Sent
  <2>11. Reading(n) /\ Target(n) /\ Had(n) /\ Gaps(n) /\ Clocks(n)
    BY <2>6, <2>8, <2>9, <2>10, StillDownloads
  <2>12. ToSet(n.out) = {op} /\ n.session = k.session /\ n.reached_eof = k.reached_eof
    BY <2>3, <2>4, <2>10, OneElement DEF Same, Fields
  <2>13. ReadOp(op, m.session)
    <3>1. /\ op.opcode = "BurstReadFile" /\ op.session = m.session /\ op.offset = 0
          /\ op.size = m.burst_size /\ op.file = None
      BY DEF op, Op
    <3>2. m.burst_size = burst_read_size /\ m.burst_size \in Nat /\ m.session \in Nat
      BY <1>1, <2>4 DEF Reading, FtpAssumption, Formed
    <3> QED BY <3>1, <3>2 DEF ReadOp, IsOp
  <2>14. Sends(n)
    BY <2>3, <2>10, <2>12, <2>13 DEF Sends
  <2>15. GoesOn(n)
    BY <2>3, <2>4, <2>10, <2>11, <2>12, <2>14 DEF GoesOn, Downloads, Asks
  <2>16. Kept(m, n)
    BY <2>3, <2>10 DEF Kept, Same, Fields
  <2> QED BY <1>4, <2>10, <2>15, <2>16 DEF n
<1> QED BY <1>2, <1>3, <1>4

(* ------------------------------- one more turn ------------------------------ *)
Due(m) == \/ ~m.reached_eof /\ m.last_burst_read >= RetryTime
          \/ m.reached_eof /\ ~m.too_fast /\ m.read_gap_times[m.read_gaps[1]] # 1

\* __idle_task during a download: what is due is asked for.
LEMMA IdleDownload ==
    ASSUME FtpAssumption, NEW m, GoesOn(m)
    PROVE  LET n == __idle_task(m) IN Continues(m, n) /\ (Due(m) => n.last_send = 0)
<1> DEFINE k == RetryBurst(m)
           w == __check_read_send(k)
           n == __idle_task(m)
           op == Op("BurstReadFile", m.session, m.fh.tell, m.burst_size, None)
           b == [m EXCEPT !.last_burst_read = 0]
<1>1. /\ Downloads(m) /\ DOMAIN m = Fields /\ RetryTime = 1 /\ Open(m) /\ m.last_burst_read \in Nat
      /\ m.burst_size = burst_read_size /\ m.ret # "RemoteReplyTimeout" /\ m.fh.tell \in Nat
      /\ m.session \in Nat
  BY IsOpen DEF GoesOn, Downloads, Formed, FtpAssumption, Reading, Clocks, Had
<1>2. Continues(m, k) /\ (~m.reached_eof /\ m.last_burst_read >= RetryTime => k.last_send = 0)
      /\ (m.reached_eof => k = m)
  <2>1. CASE ~m.reached_eof /\ m.last_burst_read >= RetryTime
    <3>1. k = __send(b, op)
      BY <2>1 DEF RetryBurst
    <3>2. /\ Same(m, b, {"ret", "burst_size", "last_burst_read", "backlog"}) /\ b.last_burst_read = 0
          /\ b.ret = m.ret /\ b.burst_size = m.burst_size /\ b.session = m.session
          /\ b.last_send = m.last_send
      BY <1>1 DEF Same, Fields
    <3> HIDE DEF b, k
    <3>3. Continues(m, b)
      BY <1>1, <3>2, Noted
    <3>4. ReadOp(op, b.session)
      <4>1. /\ op.opcode = "BurstReadFile" /\ op.session = m.session /\ op.offset = m.fh.tell
            /\ op.size = m.burst_size /\ op.file = None
        BY DEF Op
      <4>2. burst_read_size \in Nat
        BY DEF FtpAssumption
      <4> QED BY <1>1, <3>2, <4>1, <4>2 DEF ReadOp, IsOp
    <3> HIDE DEF op
    <3>5. Downloads(k) /\ Same(b, k, {"out", "last_op", "last_send"}) /\ k.last_send = 0
      BY <3>1, <3>3, <3>4, ReadSent DEF Continues, GoesOn
    <3>6. Kept(b, k) /\ k.reached_eof = b.reached_eof /\ k.read_gaps = b.read_gaps
      BY <3>5 DEF Kept, Same, Fields
    <3>7. Continues(b, k)
      BY <3>3, <3>5, <3>6 DEF Continues, GoesOn
    <3>8. Kept(m, k)
      BY <3>3, <3>6 DEF Continues, Kept
    <3> QED BY <2>1, <3>5, <3>7, <3>8 DEF Continues, k
  <2>2. CASE ~(~m.reached_eof /\ m.last_burst_read >= RetryTime)
    <3>1. k = m
      BY <2>2 DEF RetryBurst
    <3>2. Continues(m, m)
      BY DEF Continues, Kept
    <3> QED BY <2>2, <3>1, <3>2
  <2> QED BY <2>1, <2>2
<1> HIDE DEF k
<1>3. GoesOn(k) /\ Downloads(k) /\ Sequential(k.read_gaps) /\ Kept(m, k)
  BY <1>2 DEF Continues, GoesOn, Downloads, Gaps
<1>4. /\ Resent(k, w)
      /\ k.reached_eof /\ k.read_gaps # <<>> /\ ~k.too_fast
            /\ k.read_gap_times[k.read_gaps[1]] # 1 => w.last_send = 0
  BY <1>1, <1>3, ReadsAgain
<1>5. GoesOn(w) /\ Kept(k, w) /\ w.last_send \in {0, k.last_send}
  BY <1>3, <1>4, ResentGoesOn DEF Resent, Kept
<1>6. n = w
  <2>1. ~(m.op_start >= ReadRetryTime /\ m.last_op.opcode = "OpenFileRO")
    BY <1>1 DEF Downloads, Sends, ReadOp
  <2>2. ~NothingPending(m)
    BY <1>1 DEF NothingPending
  <2>3. n = IF w.write_list # NoWrites THEN __send_more_writes(w) ELSE w
    BY <1>1, <2>1, <2>2 DEF __idle_task, k
  <2>4. w.write_list = NoWrites
    BY <1>5 DEF GoesOn, Downloads, Reading
  <2> HIDE DEF n, w
  <2> QED BY <2>3, <2>4
<1> HIDE DEF n, w
<1>7. Continues(m, n)
  <2>1. Kept(m, w)
    BY <1>3, <1>5 DEF Kept
  <2>2. w.last_send \in {0, m.last_send}
    BY <1>2, <1>5 DEF Continues
  <2> QED BY <1>5, <1>6, <2>1, <2>2 DEF Continues
<1>8. Due(m) => n.last_send = 0
  <2>1. CASE ~m.reached_eof /\ m.last_burst_read >= RetryTime
    BY <1>2, <1>5, <1>6, <2>1
  <2>2. CASE m.reached_eof /\ ~m.too_fast /\ m.read_gap_times[m.read_gaps[1]] # 1
    BY <1>2, <1>4, <1>6, <2>2 DEF GoesOn
  <2> QED BY <2>1, <2>2 DEF Due
<1> QED BY <1>7, <1>8 DEF n

\* A turn leaves a read() that heard nothing for too long.
LeftRead(m, n) == /\ Formed(n) /\ n.pc = "ready" /\ n.call = "read" /\ n.done = FALSE /\ n.told = <<>>
                  /\ Known(n) /\ n.session \in {m.session, m.session + 1}
                  /\ n.requested_offset = m.requested_offset

\* A turn of the loop lets a download go on, or leaves a read() that has heard nothing.
LEMMA TurnDownload ==
    ASSUME FtpAssumption, NEW m, GoesOn(m), m.last_send < IdleTime \/ Due(m)
    PROVE  LET n == Turn(m) IN
           \/ Continues(m, n) /\ n.last_send < IdleTime
           \/ LeftRead(m, n)
<1> DEFINE w == __idle_task(m)
           n == Turn(m)
<1>1. Continues(m, w) /\ (Due(m) => w.last_send = 0)
  BY IdleDownload
<1>2. n = IF w.pc = "reply" /\ LoopEnds(w) THEN [w EXCEPT !.pc = "ready"] ELSE w
  BY DEF Turn
<1> HIDE DEF w, n
<1>3. /\ Formed(w) /\ Reading(w) /\ Sends(w) /\ IdleTime \in Nat \ {0} /\ w.last_send < IdleTime
  BY <1>1 DEF Continues, GoesOn, Downloads, FtpAssumption
<1>4. CASE w.pc = "reply" /\ LoopEnds(w)
  <2>1. n = [w EXCEPT !.pc = "ready"]
    BY <1>2, <1>4
  <2>2. w.call = "read" /\ w.done = FALSE /\ w.told = <<>>
    BY <1>3, <1>4 DEF LoopEnds, IsIdle, Reading, Formed
  <2>3. Same(w, n, {"pc"}) /\ n.pc = "ready"
    BY <1>3, <2>1 DEF Same, Fields, Formed
  <2>4. \A x \in Fields \ {"pc"} : n[x] = w[x]
    BY <2>3 DEF Same
  <2>5. Formed(n)
    BY <1>3, <2>3, <2>4 DEF Formed, Same, Fields
  <2>6. n.call = "read" /\ n.done = FALSE /\ n.told = <<>> /\ n.session = w.session
        /\ n.requested_offset = w.requested_offset /\ n.out = w.out
    BY <2>2, <2>4 DEF Fields
  <2>7. Known(n)
    BY <1>3, <2>6 DEF Known, Sends, ReadOp, Formed
  <2>8. n.session = m.session /\ n.requested_offset = m.requested_offset
    BY <1>1, <2>6 DEF Continues, Kept
  <2> QED BY <2>3, <2>5, <2>6, <2>7, <2>8 DEF LeftRead, n
<1>5. CASE ~(w.pc = "reply" /\ LoopEnds(w))
  BY <1>1, <1>2, <1>3, <1>5 DEF n
<1> QED BY <1>4, <1>5

\* What the passing of time touches.
LEMMA LaterIs ==
    ASSUME NEW m, DOMAIN m = Fields
    PROVE  LET n == Later(m) IN
           /\ Same(m, n, Marks \ {"ret", "burst_size", "backlog"})
           /\ n.last_send = Aged(m.last_send, IdleTime) /\ n.op_start = Aged(m.op_start, ReadRetryTime)
           /\ n.last_burst_read = Aged(m.last_burst_read, RetryTime)
           /\ n.write_last_send = Aged(m.write_last_send, 1)
           /\ n.quiet = Aged(m.quiet, IdleTime + 1) /\ n.too_fast = FALSE
           /\ n.read_gap_times = [g \in DOMAIN m.read_gap_times |->
                  IF m.read_gap_times[g] = 0 THEN 0 ELSE Aged(m.read_gap_times[g], RetryTime + 1)]
BY DEF Later, Same, Fields, Marks

\* Time passes: a download stays what it is, and something is due.
LEMMA LaterDownload ==
    ASSUME FtpAssumption, NEW m, GoesOn(m)
    PROVE  LET n == Later(m) IN
           /\ GoesOn(n) /\ Due(n) /\ \A x \in {"session", "filename", "call", "requested_offset"} : n[x] = m[x]
<1> DEFINE n == Later(m)
<1>1. /\ Downloads(m) /\ DOMAIN m = Fields /\ RetryTime = 1
  BY DEF GoesOn, Downloads, Formed, FtpAssumption
<1>2. /\ Same(m, n, Marks \ {"ret", "burst_size", "backlog"})
      /\ n.last_send = Aged(m.last_send, IdleTime) /\ n.op_start = Aged(m.op_start, ReadRetryTime)
      /\ n.last_burst_read = Aged(m.last_burst_read, RetryTime)
      /\ n.quiet = Aged(m.quiet, IdleTime + 1) /\ n.too_fast = FALSE
      /\ n.read_gap_times = [g \in DOMAIN m.read_gap_times |->
             IF m.read_gap_times[g] = 0 THEN 0 ELSE Aged(m.read_gap_times[g], RetryTime + 1)]
  BY <1>1, LaterIs
<1> HIDE DEF n
<1>3. /\ n.ret = m.ret /\ n.burst_size = m.burst_size /\ n.reached_eof = m.reached_eof
      /\ n.read_gaps = m.read_gaps
      /\ \A x \in {"session", "filename", "call", "requested_offset"} : n[x] = m[x]
  BY <1>2 DEF Same, Fields, Marks
<1>4. Same(m, n, Marks)
  BY <1>2 DEF Same
<1>5. /\ n.last_send \in Nat /\ n.op_start \in Nat /\ n.quiet \in Nat
      /\ n.last_burst_read \in Nat /\ n.last_burst_read >= 1
  <2>1. /\ m.last_send \in Nat /\ m.op_start \in Nat /\ m.quiet \in Nat /\ m.last_burst_read \in Nat
    BY <1>1 DEF Downloads, Formed, Clocks
  <2> QED BY <1>1, <1>2, <2>1 DEF Aged
<1>6. \A g \in DOMAIN m.read_gap_times : n.read_gap_times[g] \in Nat /\ n.read_gap_times[g] # 1
  <2>1. \A g \in DOMAIN m.read_gap_times : m.read_gap_times[g] \in Nat
    BY <1>1 DEF Downloads, Gaps
  <2> QED BY <1>1, <1>2, <2>1 DEF Aged
<1>7. n.ret # "RemoteReplyTimeout" /\ n.burst_size = burst_read_size
  BY <1>1, <1>3 DEF Downloads, Formed, Reading
<1>8. Downloads(n)
  BY <1>1, <1>2, <1>4, <1>5, <1>6, <1>7, Marked
<1>9. GoesOn(n)
  BY <1>3, <1>8 DEF GoesOn
<1>10. Due(n)
  <2>1. CASE ~n.reached_eof
    BY <1>1, <1>5, <2>1 DEF Due
  <2>2. CASE n.reached_eof
    <3>1. n.read_gaps[1] \in GapSet(n)
      BY <1>9, <2>2 DEF GoesOn, Downloads, Gaps, Sequential, GapSet, ToSet
    <3>2. n.read_gap_times[n.read_gaps[1]] # 1
      BY <1>2, <1>6, <1>8, <3>1 DEF Downloads, Gaps
    <3> QED BY <1>2, <2>2, <3>2 DEF Due
  <2> QED BY <2>1, <2>2
<1> QED BY <1>3, <1>9, <1>10 DEF n

(* --------------------------- a step of the client --------------------------- *)
\* The client becomes n: what n sends goes on the link, and at most packets to it are taken away.
Advances(n) ==
    /\ c' = [n EXCEPT !.out = <<>>] /\ up' = up \o n.out /\ server' = server
    /\ DOMAIN budget' = {"loss", "late", "calls"} /\ budget'.calls = budget.calls
    /\ budget'.loss \in Nat /\ budget'.late \in Nat
    /\ Sequential(down') /\ ToSet(down') \subseteq ToSet(down)

\* What holds of a client whose packets go on the link.
LEMMA Advanced ==
    ASSUME FtpAssumption, World, NEW n, Formed(n), Known(n), c.session <= n.session, c.session \in Nat,
           Advances(n)
    PROVE  /\ Formed(c)' /\ c'.out = <<>> /\ World' /\ Same(n, c', {"out"})
           /\ ToSet(up') = ToSet(up) \union ToSet(n.out) /\ Limit' = Limit
<1>1. Same(n, c', {"out"}) /\ c'.out = <<>>
  BY DEF Advances, Same, Formed, Fields
<1>2. Formed(c')
  <2>1. \A x \in Fields \ {"out"} : c'[x] = n[x]
    BY <1>1 DEF Same
  <2>2. Sequential(<<>>)
    BY DEF Sequential
  <2> QED BY <1>1, <2>1, <2>2 DEF Formed, Same, Fields
<1>3. Sequential(up') /\ ToSet(up') = ToSet(up) \union ToSet(n.out)
  BY Concatenated DEF Advances, World, Formed
<1>4. c'.session = n.session /\ n.session \in Nat
  BY <1>1 DEF Same, Fields, Formed
<1>5. World'
  <2>1. \A op \in ToSet(up') : IsOp(op) /\ op.session <= c'.session
    <3>1. \A op \in ToSet(up) : IsOp(op) /\ op.session <= c.session /\ op.session \in Nat
      BY DEF World, IsOp
    <3>2. \A op \in ToSet(n.out) : IsOp(op) /\ op.session <= n.session
      BY DEF Known
    <3> QED BY <1>3, <1>4, <3>1, <3>2
  <2>2. \A r \in ToSet(down') : r.session \in Nat /\ r.session <= c'.session
    BY <1>4 DEF World, Advances
  <2>3. server.open.session \in Int /\ server.open.session <= c'.session
    BY <1>4 DEF World
  <2> QED BY <1>3, <2>1, <2>2, <2>3 DEF World, Advances
<1>6. Limit' = Limit
  BY DEF Limit, Advances
<1> QED BY <1>1, <1>2, <1>3, <1>5, <1>6

\* The next state is one of a download.
LEMMA ToDownloading ==
    ASSUME FtpAssumption, World, NEW n, GoesOn(n), n.session = c.session, n.last_send < IdleTime,
           Advances(n), n.session + 2 <= Limit,
           \A op \in ToSet(up) : ReadOp(op, n.session),
           server.open.session = n.session /\ server.open.file = n.filename,
           \A r \in ToSet(down') : Right(r, n)
    PROVE  IInv'
<1>1. Formed(n) /\ Sends(n) /\ Downloads(n) /\ n.session \in Nat /\ Reading(n)
  BY DEF GoesOn, Downloads, Formed
<1>2. Known(n)
  BY <1>1 DEF Known, Sends, ReadOp
<1>3. /\ Formed(c)' /\ c'.out = <<>> /\ World' /\ Same(n, c', {"out"})
      /\ ToSet(up') = ToSet(up) \union ToSet(n.out) /\ Limit' = Limit
  BY <1>1, <1>2, Advanced
<1>4. /\ c'.session = n.session /\ c'.last_send = n.last_send /\ c'.filename = n.filename
      /\ c'.last_op = n.last_op /\ c'.reached_eof = n.reached_eof /\ c'.read_gaps = n.read_gaps
      /\ c'.told = n.told /\ c'.list_result = n.list_result
  BY <1>3 DEF Same, Fields
<1>5. GoesOn(c')
  <2>1. Reading(c') /\ Target(c') /\ Had(c') /\ Gaps(c') /\ Clocks(c')
    BY <1>1, <1>3, StillDownloads DEF Downloads
  <2>2. Sends(c')
    BY <1>1, <1>3, <1>4, OneElement DEF Sends
  <2> QED BY <1>3, <1>4, <2>1, <2>2 DEF GoesOn, Downloads
<1>6. TransfersWhole'
  BY <1>1, <1>3, <1>4 DEF TransfersWhole, Told, Reading, Formed
<1>7. Downloading'
  <2>1. \A op \in ToSet(up') : ReadOp(op, c'.session)
    BY <1>1, <1>3, <1>4 DEF Sends
  <2>2. \A r \in ToSet(down') : Right(r, c')
    BY <1>4 DEF Right
  <2> QED BY <1>3, <1>4, <1>5, <2>1, <2>2 DEF Downloading, Advances
<1> QED BY <1>3, <1>6, <1>7 DEF IInv, Phase

\* The sessions do not begin anew.
LEMMA LimitIs ==
    ASSUME FtpAssumption, World
    PROVE  Limit \in 0 .. 253
<1>1. MaxCalls \in 0 .. 63 /\ budget.calls \in 0 .. MaxCalls
  BY DEF FtpAssumption, World
<1> QED BY <1>1 DEF Limit

\* What the server holds of the file that a caller is told to have put.
PutWhole(m) ==
    m.told # <<>> /\ m.told[1] = "put" /\ m.told[4] # 0 =>
        /\ server.written = {b * write_size : b \in 0 .. (Blocks(m.told[4]) - 1)}
        /\ \A op \in ToSet(up) \union ToSet(m.out) :
              /\ op.opcode # "CreateFile"
              /\ op.opcode = "WriteFile" => op.offset \in server.written

\* What a caller has been told stays true.
LEMMA WholeStays ==
    ASSUME NEW n, Formed(n), GotWhole(n), PutWhole(n), c'.told = n.told, server' = server,
           c'.requested_offset = n.requested_offset, c'.list_result = n.list_result
    PROVE  TransfersWhole'
BY DEF TransfersWhole, Told, GotWhole, PutWhole, Formed

\* The next state is one of a transfer that is over.
LEMMA ToEnding ==
    ASSUME FtpAssumption, World, c.session \in Nat, NEW n, Over(c, n), Advances(n),
           n.session + 2 <= Limit, PutWhole(n)
    PROVE  IInv'
<1>1. /\ Formed(n) /\ Known(n) /\ Ends(n) /\ GotWhole(n) /\ n.session = c.session
      /\ n.pc = "terminating"
  BY DEF Over
<1>2. /\ Formed(c)' /\ c'.out = <<>> /\ World' /\ Same(n, c', {"out"})
      /\ ToSet(up') = ToSet(up) \union ToSet(n.out) /\ Limit' = Limit
  BY <1>1, Advanced
<1>3. \A x \in Fields \ {"out"} : c'[x] = n[x]
  BY <1>2 DEF Same
<1>4. Ends(c')
  BY <1>1, <1>3 DEF Ends, Cleared, NoGaps, NothingTold, Fields
<1>5. /\ c'.told = n.told /\ c'.session = n.session /\ c'.pc = n.pc /\ server' = server
      /\ c'.requested_offset = n.requested_offset /\ c'.list_result = n.list_result
  BY <1>3 DEF Fields, Advances
<1>6. TransfersWhole'
  BY <1>1, <1>5, WholeStays
<1>7. Ending'
  BY <1>1, <1>2, <1>4, <1>5 DEF Ending, Told, PutWhole
<1> QED BY <1>2, <1>6, <1>7 DEF IInv, Phase

\* The next state is one of a read() that has been left.
LEMMA ToLeft ==
    ASSUME FtpAssumption, World, c.session \in Nat, NEW n, LeftRead(c, n), Advances(n),
           n.session + 1 <= Limit
    PROVE  IInv'
<1>1. /\ Formed(n) /\ Known(n) /\ c.session <= n.session /\ n.pc = "ready" /\ n.call = "read"
      /\ n.done = FALSE /\ n.told = <<>>
  BY DEF LeftRead
<1>2. /\ Formed(c)' /\ c'.out = <<>> /\ World' /\ Same(n, c', {"out"}) /\ Limit' = Limit
  BY <1>1, Advanced
<1>3. /\ c'.told = <<>> /\ c'.session = n.session /\ c'.pc = "ready" /\ c'.call = "read"
      /\ c'.done = FALSE /\ c'.list_result = n.list_result
  BY <1>1, <1>2 DEF Same, Fields
<1>4. TransfersWhole'
  BY <1>1, <1>3 DEF TransfersWhole, Told, Formed
<1>5. Ready'
  BY <1>1, <1>2, <1>3 DEF Ready, LeftOpen, NothingTold
<1> QED BY <1>2, <1>4, <1>5 DEF IInv, Phase

\* What a handler or a turn makes of a download.
LEMMA DownloadAdvances ==
    ASSUME FtpAssumption, IInv, Downloading, NEW n, Advances(n),
           \/ GoesOn(n) /\ n.last_send < IdleTime /\ n.session = c.session /\ n.filename = c.filename
           \/ Over(c, n)
           \/ LeftRead(c, n)
    PROVE  IInv'
<1>1. World /\ c.session \in Nat /\ c.session + 2 <= Limit
  BY DEF IInv, Downloading, Formed
<1>2. CASE GoesOn(n) /\ n.last_send < IdleTime /\ n.session = c.session /\ n.filename = c.filename
  <2>1. \A r \in ToSet(down') : Right(r, n)
    BY <1>2 DEF Downloading, Advances, Right
  <2>2. /\ \A op \in ToSet(up) : ReadOp(op, n.session)
        /\ server.open.session = n.session /\ server.open.file = n.filename
    BY <1>2 DEF Downloading
  <2> QED BY <1>1, <1>2, <2>1, <2>2, ToDownloading
<1>3. CASE Over(c, n)
  <2>1. n.session = c.session /\ c.call # "put"
    BY <1>3 DEF Over, Downloading, GoesOn, Downloads, Reading
  <2>2. PutWhole(n)
    BY <1>3, <2>1 DEF Over, PutTold, PutWhole
  <2> QED BY <1>1, <1>3, <2>1, <2>2, ToEnding
<1>4. CASE LeftRead(c, n)
  <2>1. n.session + 1 <= Limit
    <3>1. Limit \in 0 .. 253
      BY <1>1, LimitIs
    <3> QED BY <1>1, <1>4, <3>1 DEF LeftRead
  <2> QED BY <1>1, <1>4, <2>1, ToLeft
<1> QED BY <1>2, <1>3, <1>4

\* A packet breaks the silence of a download.
LEMMA QuietZero ==
    ASSUME NEW m, GoesOn(m)
    PROVE  LET n == [m EXCEPT !.quiet = 0] IN
           GoesOn(n) /\ \A x \in Fields \ {"quiet"} : n[x] = m[x]
<1> DEFINE n == [m EXCEPT !.quiet = 0]
<1>1. Downloads(m) /\ DOMAIN m = Fields
  BY DEF GoesOn, Downloads, Formed
<1>2. Same(m, n, {"quiet"}) /\ n.quiet = 0
  BY <1>1 DEF Same, Fields
<1> HIDE DEF n
<1>3. \A x \in Fields \ {"quiet"} : n[x] = m[x]
  BY <1>2 DEF Same
<1>4. /\ n.last_send = m.last_send /\ n.op_start = m.op_start /\ n.last_burst_read = m.last_burst_read
      /\ n.ret = m.ret /\ n.burst_size = m.burst_size /\ n.read_gap_times = m.read_gap_times
      /\ n.reached_eof = m.reached_eof /\ n.read_gaps = m.read_gaps
  BY <1>3 DEF Fields
<1>5. /\ n.last_send \in Nat /\ n.op_start \in Nat /\ n.quiet \in Nat /\ n.last_burst_read \in Nat
      /\ n.burst_size = burst_read_size /\ n.ret # "RemoteReplyTimeout"
      /\ DOMAIN n.read_gap_times = DOMAIN m.read_gap_times
      /\ \A g \in DOMAIN m.read_gap_times : n.read_gap_times[g] \in Nat
  BY <1>1, <1>2, <1>4 DEF Downloads, Formed, Reading, Clocks, Gaps
<1>6. Same(m, n, Marks)
  BY <1>2 DEF Same, Marks
<1>7. Downloads(n)
  BY <1>1, <1>5, <1>6, Marked
<1> QED BY <1>3, <1>4, <1>7 DEF GoesOn, n

\* A download keeps the invariant when it takes a packet, and when none is there.
LEMMA DownloadReceives ==
    ASSUME FtpAssumption, IInv, Downloading, Receive
    PROVE  IInv'
<1> DEFINE q == [c EXCEPT !.quiet = 0]
           r == Head(down)
           m == __mavlink_packet(q, r)
           n == IF m.pc = "reply" THEN Turn(m) ELSE m
<1>1. World /\ GoesOn(c) /\ c.last_send < IdleTime /\ IdleTime \in Nat \ {0} /\ down # <<>>
  BY DEF IInv, Downloading, FtpAssumption, Receive
<1>2. Sequential(down) /\ r \in ToSet(down) /\ Sequential(Tail(down)) /\ ToSet(Tail(down)) \subseteq ToSet(down)
  BY <1>1, Taken DEF World
<1>3. GoesOn(q) /\ \A x \in Fields \ {"quiet"} : q[x] = c[x]
  BY <1>1, QuietZero
<1> HIDE DEF q
<1>4. /\ q.session = c.session /\ q.filename = c.filename /\ q.last_send = c.last_send
      /\ q.call = c.call /\ q.requested_offset = c.requested_offset
  BY <1>3 DEF Fields
<1>5. Right(r, q)
  BY <1>2, <1>4 DEF Downloading, Right
<1>6. m = Handled(q, r)
  BY <1>5 DEF __mavlink_packet, Right
<1>7. Proceeds(q, m)
  <2>1. CASE r.req = "BurstReadFile"
    <3>1. Handled(q, r) = __handle_burst_read(q, r)
      BY <2>1 DEF Handled
    <3> QED BY <1>3, <1>5, <1>6, <2>1, <3>1, BurstHandled
  <2>2. CASE r.req = "ReadFile"
    <3>1. Handled(q, r) = __handle_reply_read(q, r)
      BY <2>2 DEF Handled
    <3> QED BY <1>3, <1>5, <1>6, <2>2, <3>1, ReadHandled
  <2> QED BY <1>5, <2>1, <2>2 DEF Right
<1>8. Advances(n)
  <2>1. Becomes(n) /\ down' = Tail(down) /\ UNCHANGED <<server, budget>>
    BY DEF Receive, q
  <2>2. /\ DOMAIN budget = {"loss", "late", "calls"}
        /\ budget.loss \in Nat /\ budget.late \in Nat
    BY <1>1 DEF World
  <2> HIDE DEF n, r
  <2> QED BY <1>2, <2>1, <2>2 DEF Becomes, Advances
<1> HIDE DEF m
<1>9. \/ GoesOn(n) /\ n.last_send < IdleTime /\ n.session = c.session /\ n.filename = c.filename
      \/ Over(c, n)
      \/ LeftRead(c, n)
  <2>1. CASE Over(q, m)
    <3>1. m.pc = "terminating"
      BY <2>1 DEF Over
    <3>2. n = m
      BY <3>1
    <3>3. Over(c, m)
      BY <1>4, <2>1 DEF Over
    <3> QED BY <3>2, <3>3
  <2>2. CASE Continues(q, m)
    <3>1. GoesOn(m) /\ m.pc = "reply" /\ Kept(q, m) /\ m.last_send < IdleTime
      BY <1>1, <1>4, <2>2 DEF Continues, GoesOn, Downloads, Reading
    <3>2. n = Turn(m)
      BY <3>1
    <3> HIDE DEF n
    <3>3. (Continues(m, n) /\ n.last_send < IdleTime) \/ LeftRead(m, n)
      BY <3>1, <3>2, TurnDownload
    <3>4. m.session = c.session /\ m.filename = c.filename /\ m.requested_offset = c.requested_offset
      BY <1>4, <3>1 DEF Kept
    <3> QED BY <3>3, <3>4 DEF Continues, Kept, LeftRead
  <2> QED BY <1>7, <2>1, <2>2 DEF Proceeds
<1> HIDE DEF n
<1> QED BY <1>8, <1>9, DownloadAdvances

LEMMA DownloadWaits ==
    ASSUME FtpAssumption, IInv, Downloading, NoPacket
    PROVE  IInv'
<1>1. World /\ GoesOn(c) /\ c.last_send < IdleTime /\ IdleTime \in Nat \ {0} /\ DOMAIN c = Fields
  BY DEF IInv, Downloading, FtpAssumption, Formed
<1>2. PICK late \in BOOLEAN :
        /\ late /\ ~(up = <<>> /\ down = <<>>) => c.last_send + 1 < IdleTime /\ budget.late > 0
        /\ budget' = [budget EXCEPT !.late = IF late /\
             ~(up = <<>> /\ down = <<>>) THEN @ - 1 ELSE @]
        /\ Becomes(Turn(IF late THEN Later(c) ELSE [c EXCEPT !.too_fast = FALSE]))
  BY DEF NoPacket
<1> DEFINE m == IF late THEN Later(c) ELSE [c EXCEPT !.too_fast = FALSE]
           n == Turn(m)
<1>3. GoesOn(m) /\ (m.last_send < IdleTime \/ Due(m))
      /\ \A x \in {"session", "filename", "call", "requested_offset"} : m[x] = c[x]
  <2>1. CASE late
    <3>1. m = Later(c)
      BY <2>1
    <3> HIDE DEF m
    <3> QED BY <1>1, <3>1, LaterDownload
  <2>2. CASE ~late
    <3>1. m = [c EXCEPT !.too_fast = FALSE]
      BY <2>2
    <3>2. Same(c, m, {"too_fast"})
      BY <1>1, <3>1 DEF Same, Fields
    <3> HIDE DEF m
    <3>3. \A x \in Fields \ {"too_fast"} : m[x] = c[x]
      BY <3>2 DEF Same
    <3>4. /\ m.last_send = c.last_send /\ m.op_start = c.op_start /\ m.last_burst_read = c.last_burst_read
          /\ m.ret = c.ret /\ m.burst_size = c.burst_size /\ m.read_gap_times = c.read_gap_times
          /\ m.reached_eof = c.reached_eof /\ m.read_gaps = c.read_gaps /\ m.quiet = c.quiet
          /\ m.session = c.session /\ m.filename = c.filename /\ m.call = c.call
          /\ m.requested_offset = c.requested_offset
      BY <3>3 DEF Fields
    <3>5. Downloads(c)
      BY <1>1 DEF GoesOn
    <3>6. /\ m.last_send \in Nat /\ m.op_start \in Nat /\ m.quiet \in Nat /\ m.last_burst_read \in Nat
          /\ m.burst_size = burst_read_size /\ m.ret # "RemoteReplyTimeout"
          /\ DOMAIN m.read_gap_times = DOMAIN c.read_gap_times
          /\ \A g \in DOMAIN c.read_gap_times : m.read_gap_times[g] \in Nat
      BY <3>4, <3>5 DEF Downloads, Formed, Reading, Clocks, Gaps
    <3>7. Same(c, m, Marks)
      BY <3>2 DEF Same, Marks
    <3>8. Downloads(m)
      BY <3>5, <3>6, <3>7, Marked
    <3> QED BY <1>1, <3>4, <3>8 DEF GoesOn
  <2> QED BY <2>1, <2>2
<1> HIDE DEF m
<1>4. (Continues(m, n) /\ n.last_send < IdleTime) \/ LeftRead(m, n)
  BY <1>3, TurnDownload
<1>5. Advances(n)
  <2>1. Becomes(n) /\ down' = down /\ server' = server
    BY <1>2 DEF NoPacket, m
  <2>2. /\ DOMAIN budget' = {"loss", "late", "calls"} /\ budget'.calls = budget.calls
        /\ budget'.loss \in Nat /\ budget'.late \in Nat
    <3>1. CASE late /\ ~(up = <<>> /\ down = <<>>)
      BY <1>1, <1>2, <3>1 DEF World
    <3>2. CASE ~(late /\ ~(up = <<>> /\ down = <<>>))
      BY <1>1, <1>2, <3>2 DEF World
    <3> QED BY <3>1, <3>2
  <2> HIDE DEF n
  <2> QED BY <1>1, <2>1, <2>2 DEF Becomes, Advances, World
<1> HIDE DEF n
<1> QED BY <1>3, <1>4, <1>5, DownloadAdvances DEF Continues, Kept, LeftRead

\* Two packets more on a link.
LEMMA TwoMore ==
    ASSUME NEW s, Sequential(s), NEW t, Sequential(t), DOMAIN t = 1 .. 2
    PROVE  /\ Len(s) \in Nat /\ DOMAIN s = 1 .. Len(s)
           /\ DOMAIN (s \o t) = 1 .. Len(s) + 2 /\ Len(s \o t) = Len(s) + 2
           /\ \A i \in DOMAIN s : (s \o t)[i] = s[i]
           /\ (s \o t)[Len(s) + 1] = t[1] /\ (s \o t)[Len(s) + 2] = t[2]
<1> DEFINE S == ToSet(s) \union ToSet(t)
           a == Len(s)
           u == s \o t
<1>1. s \in Seq(S) /\ t \in Seq(S)
  BY Wider
<1> HIDE DEF S
<1>2. Len(t) = 2 /\ a \in Nat /\ DOMAIN s = 1 .. a
  BY <1>1
<1>3. /\ u \in Seq(S) /\ Len(u) = a + Len(t)
      /\ \A i \in 1 .. a + Len(t) : u[i] = IF i <= a THEN s[i] ELSE t[i - a]
  BY <1>1, ConcatProperties
<1>4. DOMAIN u = 1 .. a + 2 /\ Len(u) = a + 2
  BY <1>2, <1>3
<1> HIDE DEF u, a
<1>5. \A i \in DOMAIN s : u[i] = s[i]
  BY <1>2, <1>3
<1>6. u[a + 1] = t[1] /\ u[a + 2] = t[2]
  <2>1. /\ a + 1 \in 1 .. a + 2 /\ ~(a + 1 <= a) /\ a + 1 - a = 1
        /\ a + 2 \in 1 .. a + 2 /\ ~(a + 2 <= a) /\ a + 2 - a = 2
    BY <1>2
  <2> QED BY <1>2, <1>3, <2>1
<1> QED BY <1>2, <1>4, <1>5, <1>6 DEF u, a

\* An element of joined sequences is one of either.
LEMMA FromEither ==
    ASSUME NEW s, Sequential(s), NEW t, Sequential(t), NEW i \in DOMAIN (s \o t)
    PROVE  (s \o t)[i] \in ToSet(t) \/ (i \in DOMAIN s /\ (s \o t)[i] = s[i])
<1> DEFINE S == ToSet(s) \union ToSet(t)
           a == Len(s)
           b == Len(t)
           u == s \o t
<1>1. s \in Seq(S) /\ t \in Seq(S)
  BY Wider
<1> HIDE DEF S
<1>2. /\ u \in Seq(S) /\ Len(u) = a + b
      /\ \A k \in 1 .. a + b : u[k] = IF k <= a THEN s[k] ELSE t[k - a]
  BY <1>1, ConcatProperties
<1>3. a \in Nat /\ b \in Nat /\ DOMAIN s = 1 .. a /\ DOMAIN t = 1 .. b /\ DOMAIN u = 1 .. a + b
  BY <1>1, <1>2
<1>4. i \in 1 .. a + b
  BY <1>3
<1> HIDE DEF u, a, b
<1>5. CASE i <= a
  BY <1>2, <1>3, <1>4, <1>5 DEF u
<1>6. CASE ~(i <= a)
  <2>1. i - a \in DOMAIN t /\ u[i] = t[i - a]
    BY <1>2, <1>3, <1>4, <1>6
  <2> QED BY <2>1 DEF ToSet, u
<1> QED BY <1>5, <1>6

(* ------------------------------ asking for a file --------------------------- *)
\* __idle_task asks for the file again in a new session, at most twice.
AskedAnew(m, n) ==
    /\ Formed(n) /\ Asks(n) /\ n.last_send = 0 /\ n.session = m.session + 1
    /\ n.open_retries = m.open_retries + 1 /\ n.requested_offset = m.requested_offset
    /\ Sequential(n.out) /\ DOMAIN n.out = 1 .. 2 /\ n.out[2] = n.last_op
    /\ n.out[1] = Op("TerminateSession", m.session, 0, 0, None)

\* A sequence of two.
LEMMA Two ==
    ASSUME NEW s, Sequential(s), Len(s) = 1, NEW e
    PROVE  /\ Sequential(Append(s, e)) /\ DOMAIN Append(s, e) = 1 .. 2
           /\ Append(s, e)[1] = s[1] /\ Append(s, e)[2] = e
<1>1. /\ Sequential(Append(s, e))
      /\ DOMAIN Append(s, e) = 1 .. Len(s) + 1
      /\ DOMAIN s = 1 .. Len(s)
      /\ \A i \in DOMAIN s : Append(s, e)[i] = s[i]
      /\ Append(s, e)[Len(s) + 1] = e
  BY Appended, SMTT(60)
<1>2. 1 \in DOMAIN s
  BY <1>1
<1> QED BY <1>1, <1>2

\* An opening that is late is tried again in the next session, or given up.
LEMMA OpensAgain ==
    ASSUME FtpAssumption, NEW m, Formed(m), Asks(m), m.out = <<>>, m.session < 255
    PROVE  Over(m, RetryOpen(m)) \/ (AskedAnew(m, RetryOpen(m)) /\ m.open_retries < 2)
<1> DEFINE late == [m EXCEPT !.op_start = 0, !.open_retries = @ + 1]
           ends == Op("TerminateSession", m.session, 0, 0, None)
           again == __send(late, ends)
           n == RetryOpen(m)
           next == (m.session + 1) % 256
           asks == [again EXCEPT !.session = next]
           op == [m.last_op EXCEPT !.session = next]
           stops == [late EXCEPT !.op_start = -1]
<1>1. DOMAIN m = Fields /\ Reading(m) /\ m.open_retries \in 0 .. 2 /\ m.session \in Nat
      /\ next = m.session + 1
  BY DEF Formed, Asks
<1>2. /\ Same(m, late, {"op_start", "open_retries"}) /\ late.op_start = 0
      /\ late.open_retries = m.open_retries + 1 /\ late.session = m.session
  BY <1>1 DEF Same, Fields
<1>3. /\ Same(m, stops, {"op_start", "open_retries"})
  BY <1>1 DEF Same, Fields
<1> HIDE DEF next
<1>4. CASE late.open_retries > 2
  <2>1. n = __terminate_session(stops)
    BY <1>4 DEF RetryOpen
  <2> HIDE DEF stops, n, late
  <2>2. \A x \in Fields \ {"op_start", "open_retries"} : stops[x] = m[x]
    BY <1>3 DEF Same
  <2>3. Formed(stops)
    BY <1>3, <2>2 DEF Formed, Fields, Same
  <2>4. /\ stops.pc = "reply" /\ stops.call \in {"get", "read"} /\ stops.told = <<>>
        /\ stops.callback \in BOOLEAN /\ stops.put_callback = FALSE /\ stops.out = <<>>
        /\ stops.session = m.session /\ stops.requested_offset = m.requested_offset
        /\ stops.call = m.call
    BY <1>1, <2>2 DEF Fields, Reading
  <2>5. GotWhole(stops) /\ NothingTold(stops) /\ Known(stops) /\ stops.call # "put" /\ ~PutTold(stops)
    BY <2>4, OneElement DEF GotWhole, NothingTold, Known, PutTold
  <2>6. Over(stops, n)
    BY <2>1, <2>3, <2>4, <2>5, OverBy
  <2>7. Over(m, n)
    BY <2>4, <2>6 DEF Over
  <2> QED BY <2>7 DEF n
<1>5. CASE ~(late.open_retries > 2)
  <2>1. again.session = m.session => n = __send(asks, op)
    <3>1. n = __send([again EXCEPT !.session = (@ + 1) % 256],
                     [m.last_op EXCEPT !.session = (m.session + 1) % 256])
      BY <1>5 DEF RetryOpen
    <3> HIDE DEF n, again
    <3> QED BY <3>1 DEF next
  <2> HIDE DEF late, n
  <2>2. \A x \in Fields \ {"op_start", "open_retries"} : late[x] = m[x]
    BY <1>2 DEF Same
  <2>3. Formed(late) /\ late.out = <<>>
    BY <1>2, <2>2 DEF Formed, Fields, Same
  <2>4. /\ Same(late, again, {"out", "last_op", "last_send"}) /\ again.out = Append(<<>>, ends)
        /\ Formed(again)
    BY <2>3, Sent
  <2> HIDE DEF again, ends
  <2>5. /\ Same(again, asks, {"session"}) /\ asks.session = m.session + 1
    BY <1>1, <2>4 DEF Same, Fields
  <2> HIDE DEF asks
  <2>6. Formed(asks) /\ asks.out = <<ends>>
    <3>1. \A x \in Fields \ {"session"} : asks[x] = again[x]
      BY <2>5 DEF Same
    <3>2. Append(<<>>, ends) = <<ends>>
      OBVIOUS
    <3> QED BY <1>1, <2>4, <2>5, <3>1, <3>2, SMTT(60) DEF Formed, Fields, Same
  <2>7. /\ Same(asks, n, {"out", "last_op", "last_send"}) /\ Formed(n) /\ n.last_op = op
        /\ n.last_send = 0 /\ n.out = Append(<<ends>>, op)
    <3>1. again.session = m.session
      BY <2>2, <2>4 DEF Same, Fields
    <3>2. n = __send(asks, op)
      BY <2>1, <3>1
    <3> HIDE DEF op
    <3>3. /\ Same(asks, n, {"out", "last_op", "last_send"}) /\ Formed(n) /\ n.last_op = op
          /\ n.last_send = 0 /\ n.out = Append(asks.out, op)
      BY <2>6, <3>2, Sent
    <3> QED BY <2>6, <3>3
  <2>8. \A x \in Fields \ {"op_start", "open_retries", "session", "out", "last_op", "last_send"} :
           n[x] = m[x]
    BY <2>2, <2>4, <2>5, <2>7 DEF Same
  <2>9. n.session = m.session + 1 /\ n.open_retries = m.open_retries + 1 /\ n.op_start = 0
    BY <1>2, <2>4, <2>5, <2>7 DEF Same, Fields
  <2>10. op = Op("OpenFileRO", n.session, 0, 0, n.filename)
    <3>1. m.last_op = Op("OpenFileRO", m.session, 0, 0, m.filename)
      BY DEF Asks
    <3>2. n.filename = m.filename
      BY <2>8 DEF Fields
    <3> QED BY <1>1, <2>9, <3>1, <3>2 DEF Op
  <2> HIDE DEF op
  <2>11. Reading(n)
    BY <1>1, <2>8 DEF Reading, Fields
  <2>12. Asks(n)
    <3>1. /\ n.fh = NotOpen /\ NoGaps(n) /\ n.read_total = 0 /\ n.last_burst_read = -1
          /\ n.reached_eof = FALSE
      BY <2>8 DEF Asks, NoGaps, Fields
    <3>2. n.open_retries \in 0 .. 2
      BY <1>1, <1>2, <1>5, <2>9
    <3>3. n.op_start = IF n.last_send < ReadRetryTime THEN n.last_send ELSE ReadRetryTime
      BY <2>7, <2>9 DEF FtpAssumption
    <3> QED BY <2>7, <2>10, <2>11, <3>1, <3>2, <3>3 DEF Asks
  <2>13. DOMAIN n.out = 1 .. 2 /\ n.out[1] = ends /\ n.out[2] = op /\ Sequential(n.out)
    <3> DEFINE one == <<ends>>
    <3>1. Sequential(one) /\ Len(one) = 1 /\ one[1] = ends
      BY <2>6 DEF Formed
    <3> HIDE DEF one
    <3>3. n.out = Append(one, op)
      BY <2>7 DEF one
    <3>4. /\ Sequential(Append(one, op)) /\ DOMAIN Append(one, op) = 1 .. 2
          /\ Append(one, op)[1] = one[1] /\ Append(one, op)[2] = op
      BY <3>1, Two
    <3> QED BY <3>1, <3>3, <3>4
  <2>14. m.open_retries < 2
    BY <1>1, <1>2, <1>5
  <2>15. n.requested_offset = m.requested_offset
    BY <2>8 DEF Fields
  <2> QED BY <2>7, <2>9, <2>12, <2>13, <2>14, <2>15 DEF AskedAnew, ends, n
<1> QED BY <1>4, <1>5

\* __idle_task while the file is asked for.
LEMMA IdleAsking ==
    ASSUME FtpAssumption, NEW m, Formed(m), Asks(m), m.out = <<>>, m.session < 255
    PROVE  LET n == __idle_task(m) IN
           \/ Over(m, n)
           \/ AskedAnew(m, n) /\ m.open_retries < 2
           \/ n = m /\ m.last_send < ReadRetryTime
<1> DEFINE n == __idle_task(m)
           w == RetryOpen(m)
<1>1. m.last_op.opcode = "OpenFileRO" /\ ReadRetryTime \in Nat /\ m.last_send \in Nat /\ m.pc = "reply"
  BY DEF Asks, Op, FtpAssumption, Formed, Reading
<1>2. CASE m.op_start >= ReadRetryTime
  <2>1. n = IF w.pc # m.pc \/ NothingPending(w) \/ ~Open(w) THEN w
            ELSE LET k == __check_read_send(RetryBurst(w)) IN
                 IF k.write_list # NoWrites THEN __send_more_writes(k) ELSE k
    BY <1>1, <1>2 DEF __idle_task
  <2>2. Over(m, w) \/ (AskedAnew(m, w) /\ m.open_retries < 2)
    BY OpensAgain
  <2> HIDE DEF n, w
  <2>3. w.pc # m.pc \/ ~Open(w)
    BY <1>1, <2>2 DEF Over, AskedAnew, Asks, Open
  <2>4. n = w
    BY <2>1, <2>3
  <2> QED BY <2>2, <2>4 DEF n
<1>3. CASE ~(m.op_start >= ReadRetryTime)
  <2>1. ~Open(m)
    BY DEF Asks, Open
  <2>2. n = m
    BY <1>3, <2>1 DEF __idle_task
  <2>3. m.last_send < ReadRetryTime
    BY <1>1, <1>3 DEF Asks
  <2> QED BY <2>2, <2>3 DEF n
<1> QED BY <1>2, <1>3

\* The requests of a second try.
LEMMA AnewKnown ==
    ASSUME NEW m, Formed(m), Asks(m), NEW n, AskedAnew(m, n)
    PROVE  /\ Known(n) /\ m.session \in Nat /\ n.session = m.session + 1
           /\ n.requested_offset \in Nat
<1>1. m.session \in Nat /\ n.session = m.session + 1 /\ n.requested_offset \in Nat
  BY DEF Formed, AskedAnew
<1>2. \A op \in ToSet(n.out) : op = n.out[1] \/ op = n.out[2]
  <2>1. ToSet(n.out) = {n.out[i] : i \in DOMAIN n.out}
    BY DEF ToSet
  <2> QED BY <2>1 DEF AskedAnew
<1>3. n.out[1].session = m.session /\ IsOp(n.out[1])
  BY <1>1 DEF AskedAnew, Op, IsOp
<1>4. n.out[2].session = n.session /\ IsOp(n.out[2])
  BY <1>1 DEF AskedAnew, Asks, Op, IsOp
<1> QED BY <1>1, <1>2, <1>3, <1>4 DEF Known

\* A turn of the loop while the file is asked for.
LEMMA TurnAsking ==
    ASSUME FtpAssumption, NEW m, Formed(m), Asks(m), m.out = <<>>, m.session < 255
    PROVE  LET n == Turn(m) IN
           \/ Over(m, n)
           \/ LeftRead(m, n)
           \/ AskedAnew(m, n) /\ m.open_retries < 2
           \/ n = m /\ m.last_send < ReadRetryTime
<1> DEFINE w == __idle_task(m)
           n == Turn(m)
<1>1. \/ Over(m, w)
      \/ AskedAnew(m, w) /\ m.open_retries < 2
      \/ w = m /\ m.last_send < ReadRetryTime
  BY IdleAsking
<1>2. n = IF w.pc = "reply" /\ LoopEnds(w) THEN [w EXCEPT !.pc = "ready"] ELSE w
  BY DEF Turn
<1> HIDE DEF w, n
<1>3. CASE w.pc = "reply" /\ LoopEnds(w)
  <2>1. /\ Formed(w) /\ Asks(w) /\ Reading(w) /\ IdleTime \in Nat \ {0} /\ w.last_send < IdleTime
        /\ ReadRetryTime <= IdleTime /\ m.session \in Nat /\ w.session \in {m.session, m.session + 1}
        /\ w.requested_offset = m.requested_offset
    <3>1. IdleTime \in Nat \ {0} /\ ReadRetryTime \in 1 .. IdleTime /\ m.session \in Nat
          /\ m.last_send \in Nat
      BY DEF FtpAssumption, Formed
    <3>2. ~Over(m, w)
      BY <1>3 DEF Over
    <3>3. CASE AskedAnew(m, w)
      BY <3>1, <3>3 DEF AskedAnew, Asks
    <3>4. CASE w = m /\ m.last_send < ReadRetryTime
      BY <3>1, <3>4 DEF Asks
    <3> QED BY <1>1, <3>2, <3>3, <3>4
  <2>2. n = [w EXCEPT !.pc = "ready"]
    BY <1>2, <1>3
  <2>3. w.call = "read" /\ w.done = FALSE /\ w.told = <<>>
    BY <1>3, <2>1 DEF LoopEnds, IsIdle, Reading, Formed
  <2>4. Same(w, n, {"pc"}) /\ n.pc = "ready"
    BY <2>1, <2>2 DEF Same, Fields, Formed
  <2>5. \A x \in Fields \ {"pc"} : n[x] = w[x]
    BY <2>4 DEF Same
  <2>6. w.ret # "RemoteReplyTimeout"
    BY <2>1 DEF Formed, Reading
  <2>7. Formed(n)
    BY <2>1, <2>4, <2>5, <2>6 DEF Formed, Same, Fields
  <2>8. /\ n.call = "read" /\ n.done = FALSE /\ n.told = <<>> /\ n.session = w.session
        /\ n.requested_offset = w.requested_offset /\ n.out = w.out
    BY <2>3, <2>5 DEF Fields
  <2>9. Known(w)
    <3>1. CASE AskedAnew(m, w)
      BY <3>1, AnewKnown
    <3>2. CASE w = m
      BY <3>2, OneElement DEF Known
    <3> QED BY <1>1, <1>3, <3>1, <3>2 DEF Over
  <2>10. Known(n)
    BY <2>8, <2>9 DEF Known
  <2> QED BY <2>1, <2>4, <2>7, <2>8, <2>10 DEF LeftRead, n
<1>4. CASE ~(w.pc = "reply" /\ LoopEnds(w))
  <2>1. n = w
    BY <1>2, <1>4
  <2> QED BY <1>1, <2>1 DEF n
<1> QED BY <1>3, <1>4

\* The client asks for a file: what is on the link belongs to an earlier session or to the last request.
LEMMA ToAsking ==
    ASSUME FtpAssumption, World, c.session \in Nat, NEW n, Formed(n), Asks(n), Known(n),
           c.session <= n.session, n.last_send < IdleTime, n.session + 4 - n.open_retries <= Limit,
           Advances(n),
           \A i \in DOMAIN up' :
              IF up'[i].session = n.session THEN i = Len(up') /\ up'[i] = n.last_op
              ELSE up'[i].opcode \in {"OpenFileRO", "TerminateSession"},
           \A i \in DOMAIN down' : down'[i].session = n.session =>
              /\ up' = <<>> /\ i = Len(down') /\ down'[i].req = "OpenFileRO"
              /\ down'[i].ack =>
                   /\ n.filename \in Files /\ down'[i].len = Size[n.filename]
                   /\ server.open = [session |-> n.session, file |-> n.filename, size |-> 0]
    PROVE  IInv'
<1>1. /\ Formed(c)' /\ c'.out = <<>> /\ World' /\ Same(n, c', {"out"}) /\ Limit' = Limit
      /\ server' = server
  BY Advanced DEF Advances
<1>2. \A x \in Fields \ {"out"} : c'[x] = n[x]
  BY <1>1 DEF Same
<1>3. /\ c'.session = n.session /\ c'.last_send = n.last_send /\ c'.filename = n.filename
      /\ c'.last_op = n.last_op /\ c'.open_retries = n.open_retries
      /\ c'.told = n.told /\ c'.list_result = n.list_result
  BY <1>2 DEF Fields
<1>4. Asks(c')
  BY <1>2 DEF Asks, Reading, NoGaps, Fields
<1>5. TransfersWhole'
  BY <1>3 DEF TransfersWhole, Told, Formed, Asks, Reading
<1>6. Asking'
  BY <1>1, <1>3, <1>4 DEF Asking
<1> QED BY <1>1, <1>5, <1>6 DEF IInv, Phase

\* What a handler or a turn makes of a client that asks for a file.
LEMMA AskingAdvances ==
    ASSUME FtpAssumption, IInv, Asking, NEW m, Formed(m), Asks(m), m.out = <<>>,
           m.session = c.session, m.open_retries = c.open_retries, m.filename = c.filename,
           m.call = c.call, m.requested_offset = c.requested_offset,
           m.last_op = c.last_op, down' = down \/ (down # <<>> /\ down' = Tail(down)), Advances(Turn(m))
    PROVE  IInv'
<1> DEFINE n == Turn(m)
<1>1. World /\ c.session \in Nat /\ c.session + 4 - c.open_retries <= Limit /\ c.open_retries \in 0 .. 2
      /\ Limit \in 0 .. 253 /\ ReadRetryTime \in 1 .. IdleTime /\ IdleTime \in Nat \ {0}
      /\ Asks(c)
  BY LimitIs DEF IInv, Asking, Formed, Asks, FtpAssumption
<1>2. \/ Over(m, n)
      \/ LeftRead(m, n)
      \/ AskedAnew(m, n) /\ m.open_retries < 2
      \/ n = m /\ m.last_send < ReadRetryTime
  <2>1. m.session < 255
    BY <1>1, SMTT(60)
  <2> QED BY <2>1, TurnAsking
<1>3. Advances(n)
  OBVIOUS
<1> HIDE DEF n
<1>4. /\ Sequential(down) /\ Sequential(down') /\ Sequential(up)
      /\ \A j \in DOMAIN down' : \E i \in DOMAIN down : /\ down'[j] = down[i]
                                                        /\ i = Len(down) => j = Len(down')
  <2>1. Sequential(down) /\ Sequential(down') /\ Sequential(up)
    BY <1>1, <1>3 DEF World, Advances
  <2>2. CASE down' = down
    BY <2>1, <2>2
  <2>3. CASE down # <<>> /\ down' = Tail(down)
    <3>1. /\ Len(down) \in Nat /\ Len(down') = Len(down) - 1
          /\ \A i \in DOMAIN down' : i + 1 \in DOMAIN down /\ down'[i] = down[i + 1]
          /\ DOMAIN down' = 1 .. Len(down) - 1
      BY <2>1, <2>3, Taken
    <3>2. \A j \in DOMAIN down' : (j + 1 = Len(down)) => j = Len(down')
      BY <3>1
    <3> QED BY <2>1, <3>1, <3>2
  <2> QED BY <2>1, <2>2, <2>3
<1>5. CASE Over(m, n)
  <2>1. Over(c, n) /\ c.call # "put" /\ n.session = c.session
    BY <1>1, <1>5 DEF Over, Asks, Reading
  <2>2. PutWhole(n)
    BY <2>1 DEF Over, PutTold, PutWhole
  <2> QED BY <1>1, <1>3, <2>1, <2>2, ToEnding
<1>6. CASE LeftRead(m, n)
  <2>1. LeftRead(c, n) /\ n.session \in {c.session, c.session + 1}
    BY <1>6 DEF LeftRead
  <2>2. n.session + 1 <= Limit
    BY <1>1, <2>1
  <2> QED BY <1>1, <1>3, <2>1, <2>2, ToLeft
<1>7. CASE AskedAnew(m, n) /\ m.open_retries < 2
  <2>1. /\ Formed(n) /\ Asks(n) /\ n.last_send = 0 /\ n.session = c.session + 1
        /\ n.open_retries = c.open_retries + 1 /\ Known(n)
    BY <1>7, AnewKnown DEF AskedAnew
  <2>2. /\ n.session + 4 - n.open_retries <= Limit /\ c.session <= n.session
        /\ n.last_send < IdleTime
    BY <1>1, <2>1
  <2>3. \A i \in DOMAIN up' :
          IF up'[i].session = n.session THEN i = Len(up') /\ up'[i] = n.last_op
          ELSE up'[i].opcode \in {"OpenFileRO", "TerminateSession"}
    <3>1. up' = up \o n.out /\ Sequential(n.out) /\ DOMAIN n.out = 1 .. 2
          /\ n.out[2] = n.last_op /\ n.out[1].opcode = "TerminateSession"
      BY <1>3, <1>7 DEF Advances, AskedAnew, Op
    <3>2. /\ Len(up) \in Nat /\ DOMAIN up = 1 .. Len(up)
          /\ DOMAIN up' = 1 .. Len(up) + 2 /\ Len(up') = Len(up) + 2
          /\ \A i \in DOMAIN up : up'[i] = up[i]
          /\ up'[Len(up) + 1] = n.out[1] /\ up'[Len(up) + 2] = n.out[2]
      BY <1>4, <3>1, TwoMore, SMTT(60)
    <3>3. \A i \in DOMAIN up : up[i].opcode \in {"OpenFileRO", "TerminateSession"}
                               /\ up[i].session # n.session
      <4>1. c.last_op.opcode = "OpenFileRO"
        BY <1>1 DEF Asks, Op
      <4>2. \A i \in DOMAIN up : up[i].session <= c.session /\ up[i].session \in Nat
        BY <1>1 DEF World, ToSet, IsOp
      <4> QED BY <1>1, <2>1, <4>1, <4>2 DEF Asking
    <3>4. TAKE i \in DOMAIN up'
    <3>5. i \in DOMAIN up \/ i = Len(up) + 1 \/ i = Len(up) + 2
      BY <3>2
    <3>6. n.out[1].session # n.session
      BY <1>1, <1>7, <2>1 DEF AskedAnew, Op
    <3>7. CASE i \in DOMAIN up
      BY <3>2, <3>3, <3>7
    <3>8. CASE i = Len(up) + 1
      <4>1. up'[i] = n.out[1]
        BY <3>2, <3>8
      <4> QED BY <3>1, <3>6, <4>1
    <3>9. CASE i = Len(up) + 2
      <4>1. up'[i] = n.last_op /\ i = Len(up')
        BY <3>1, <3>2, <3>9
      <4>2. n.last_op.session = n.session
        BY <2>1 DEF Asks, Op
      <4> QED BY <4>1, <4>2
    <3> QED BY <3>5, <3>7, <3>8, <3>9
  <2>4. \A j \in DOMAIN down' : down'[j].session # n.session
    <3>1. \A i \in DOMAIN down : down[i].session <= c.session /\ down[i].session \in Nat
      BY <1>1 DEF World, ToSet
    <3> QED BY <1>1, <1>4, <2>1, <3>1
  <2> QED BY <1>1, <1>3, <2>1, <2>2, <2>3, <2>4, ToAsking
<1>8. CASE n = m /\ m.last_send < ReadRetryTime
  <2>1. n.out = <<>> /\ up' = up
    <3>1. n.out = <<>>
      BY <1>8
    <3>2. up \o <<>> = up
      BY <1>4 DEF Sequential
    <3> QED BY <1>3, <3>1, <3>2 DEF Advances
  <2>2. Formed(n) /\ Asks(n) /\ Known(n) /\ n.session = c.session /\ n.open_retries = c.open_retries
        /\ n.filename = c.filename /\ n.last_op = c.last_op
    BY <1>8, <2>1, OneElement DEF Known
  <2>3. n.last_send < IdleTime /\ n.session + 4 - n.open_retries <= Limit /\ c.session <= n.session
    <3>1. m.last_send \in Nat
      BY DEF Formed
    <3> QED BY <1>1, <1>8, <2>2, <3>1
  <2>4. \A i \in DOMAIN up' :
          IF up'[i].session = n.session THEN i = Len(up') /\ up'[i] = n.last_op
          ELSE up'[i].opcode \in {"OpenFileRO", "TerminateSession"}
    BY <2>1, <2>2 DEF Asking
  <2>5. \A i \in DOMAIN down' : down'[i].session = n.session =>
              /\ up' = <<>> /\ i = Len(down') /\ down'[i].req = "OpenFileRO"
              /\ down'[i].ack =>
                   /\ n.filename \in Files /\ down'[i].len = Size[n.filename]
                   /\ server.open = [session |-> n.session, file |-> n.filename, size |-> 0]
    BY <1>4, <2>1, <2>2 DEF Asking
  <2> QED BY <1>1, <1>3, <2>2, <2>3, <2>4, <2>5, ToAsking
<1> QED BY <1>2, <1>5, <1>6, <1>7, <1>8

\* Only marks of time and of the last result differ.
AskMarks == {"ret", "quiet", "too_fast", "last_send", "op_start", "last_burst_read",
             "write_last_send", "read_gap_times"}
\* The file is still asked for after changes that do not concern it.
LEMMA StillAsks ==
    ASSUME NEW m, Formed(m), Asks(m), m.out = <<>>, NEW n, Same(m, n, AskMarks),
           n.ret # "RemoteReplyTimeout", n.quiet \in Nat, n.last_send \in Nat,
           n.op_start = (IF n.last_send < ReadRetryTime THEN n.last_send ELSE ReadRetryTime),
           n.last_burst_read = -1, n.read_gap_times = <<>>
    PROVE  /\ Formed(n) /\ Asks(n) /\ n.out = <<>>
           /\ n.session = m.session /\ n.open_retries = m.open_retries /\ n.filename = m.filename
           /\ n.call = m.call /\ n.requested_offset = m.requested_offset /\ n.last_op = m.last_op
<1>1. \A x \in Fields \ AskMarks : n[x] = m[x]
  BY DEF Same
<1>2. Formed(n)
  BY <1>1 DEF Formed, Same, Fields, AskMarks
<1>3. Asks(n)
  <2>1. Reading(n)
    BY <1>1 DEF Reading, Asks, Fields, AskMarks
  <2>2. /\ n.fh = NotOpen /\ NoGaps(n) /\ n.read_total = 0 /\ n.reached_eof = FALSE
    BY <1>1 DEF Asks, NoGaps, Fields, AskMarks
  <2>3. n.last_op = Op("OpenFileRO", n.session, 0, 0, n.filename) /\ n.open_retries \in 0 .. 2
    BY <1>1 DEF Asks, Fields, AskMarks
  <2> QED BY <2>1, <2>2, <2>3 DEF Asks
<1> QED BY <1>1, <1>2, <1>3 DEF Fields, AskMarks

\* Asking for a file keeps the invariant when a packet is taken, and when none is there.
LEMMA AskingReceives ==
    ASSUME FtpAssumption, IInv, Asking, Receive
    PROVE  IInv'
<1> DEFINE q == [c EXCEPT !.quiet = 0]
           r == Head(down)
           m == __mavlink_packet(q, r)
           n == IF m.pc = "reply" THEN Turn(m) ELSE m
<1>1. /\ World /\ Formed(c) /\ Asks(c) /\ c.out = <<>> /\ c.session \in Nat /\ down # <<>>
      /\ c.session + 4 - c.open_retries <= Limit /\ c.open_retries \in 0 .. 2 /\ Limit \in 0 .. 253
      /\ IdleTime \in Nat \ {0} /\ DOMAIN c = Fields /\ c.call # "put" /\ c.pc = "reply"
  BY LimitIs DEF IInv, Asking, Formed, Asks, Receive, FtpAssumption, Reading
<1>2. Same(c, q, {"quiet"}) /\ q.quiet = 0
  BY <1>1 DEF Same, Fields
<1> HIDE DEF q
<1>3. /\ Formed(q) /\ Asks(q) /\ q.out = <<>>
      /\ q.session = c.session /\ q.open_retries = c.open_retries /\ q.filename = c.filename
      /\ q.call = c.call /\ q.requested_offset = c.requested_offset /\ q.last_op = c.last_op
      /\ q.ret = c.ret
  <2>1. \A x \in Fields \ {"quiet"} : q[x] = c[x]
    BY <1>2 DEF Same
  <2>2. /\ q.ret = c.ret /\ q.last_send = c.last_send /\ q.op_start = c.op_start
        /\ q.last_burst_read = c.last_burst_read /\ q.read_gap_times = c.read_gap_times
    BY <2>1 DEF Fields
  <2>3. Same(c, q, AskMarks)
    BY <1>2 DEF Same, AskMarks
  <2>4. /\ c.ret # "RemoteReplyTimeout" /\ c.last_send \in Nat /\ c.last_burst_read = -1
        /\ c.read_gap_times = <<>>
        /\ c.op_start = IF c.last_send < ReadRetryTime THEN c.last_send ELSE ReadRetryTime
    BY <1>1 DEF Formed, Asks, NoGaps
  <2> QED BY <1>1, <1>2, <2>2, <2>3, <2>4, StillAsks
<1>4. Sequential(down) /\ r \in ToSet(down) /\ Sequential(Tail(down)) /\ ToSet(Tail(down)) \subseteq ToSet(down)
      /\ r = down[1] /\ 1 \in DOMAIN down /\ Len(Tail(down)) = Len(down) - 1 /\ Len(down) \in Nat
  BY <1>1, Taken DEF World
<1>5. Advances(n) /\ down' = Tail(down)
  <2>1. Becomes(n) /\ down' = Tail(down) /\ UNCHANGED <<server, budget>>
    BY DEF Receive, q
  <2>2. /\ DOMAIN budget = {"loss", "late", "calls"}
        /\ budget.loss \in Nat /\ budget.late \in Nat
    BY <1>1 DEF World
  <2> HIDE DEF n, r
  <2> QED BY <1>4, <2>1, <2>2 DEF Becomes, Advances
<1>6. \/ Over(q, m)
      \/ /\ r.session = c.session /\ r.ack /\ GoesOn(m) /\ Kept(q, m) /\ m.last_send = 0
      \/ Formed(m) /\ Asks(m) /\ Same(q, m, {"ret"})
  <2>1. CASE r.session # q.session
    <3>1. m = [q EXCEPT !.ret = "InvalidSession"]
      BY <2>1 DEF __mavlink_packet
    <3> HIDE DEF m, r
    <3>2. Same(q, m, {"ret"}) /\ m.ret = "InvalidSession"
      BY <1>3, <3>1 DEF Same, Formed, Fields
    <3>3. \A x \in Fields \ {"ret"} : m[x] = q[x]
      BY <3>2 DEF Same
    <3>4. /\ m.last_send = q.last_send /\ m.op_start = q.op_start /\ m.quiet = q.quiet
          /\ m.last_burst_read = q.last_burst_read /\ m.read_gap_times = q.read_gap_times
      BY <3>3 DEF Fields
    <3>5. Same(q, m, AskMarks)
      BY <3>2 DEF Same, AskMarks
    <3>6. /\ q.quiet \in Nat /\ q.last_send \in Nat /\ q.last_burst_read = -1
          /\ q.read_gap_times = <<>>
          /\ q.op_start = IF q.last_send < ReadRetryTime THEN q.last_send ELSE ReadRetryTime
      BY <1>3 DEF Formed, Asks, NoGaps
    <3>7. Formed(m) /\ Asks(m)
      BY <1>3, <3>2, <3>4, <3>5, <3>6, StillAsks
    <3> QED BY <3>2, <3>7
  <2>2. CASE r.session = q.session
    <3>1. /\ r.req = "OpenFileRO"
          /\ r.ack => q.filename \in Files /\ r.len = Size[q.filename]
      BY <1>3, <1>4, <2>2 DEF Asking
    <3>2. m = __handle_open_ro_reply(q, r)
      BY <2>2, <3>1 DEF __mavlink_packet, Handled
    <3> HIDE DEF m, r
    <3>3. \/ Over(q, m)
          \/ /\ r.ack /\ GoesOn(m) /\ Kept(q, m) /\ m.last_send = 0
          \/ m.out = <<>> /\ Formed(m) /\ Asks(m) /\ Same(q, m, {"ret"})
      BY <1>3, <3>1, <3>2, OpenHandled
    <3> QED BY <1>3, <2>2, <3>3
  <2> QED BY <2>1, <2>2
<1> HIDE DEF m
<1>7. CASE Over(q, m)
  <2>1. m.pc = "terminating"
    BY <1>7 DEF Over
  <2>2. n = m
    BY <2>1
  <2> HIDE DEF n
  <2>3. Over(c, n) /\ n.session = c.session
    BY <1>3, <1>7, <2>2 DEF Over
  <2>4. PutWhole(n)
    BY <1>1, <2>3 DEF Over, PutTold, PutWhole
  <2>5. n.session + 2 <= Limit
    BY <1>1, <2>3
  <2> QED BY <1>1, <1>5, <2>3, <2>4, <2>5, ToEnding
<1>8. CASE r.session = c.session /\ r.ack /\ GoesOn(m) /\ Kept(q, m) /\ m.last_send = 0
  <2>1. /\ m.pc = "reply" /\ m.session = c.session /\ m.filename = c.filename
        /\ m.requested_offset = c.requested_offset
    BY <1>3, <1>8 DEF GoesOn, Downloads, Reading, Kept
  <2>2. n = Turn(m)
    BY <2>1
  <2>3. up = <<>> /\ Len(down) = 1 /\ server.open = [session |-> c.session, file |-> c.filename, size |-> 0]
    BY <1>4, <1>8 DEF Asking
  <2> HIDE DEF n
  <2>4. (Continues(m, n) /\ n.last_send < IdleTime) \/ LeftRead(m, n)
    BY <1>1, <1>8, <2>2, TurnDownload
  <2>5. CASE Continues(m, n) /\ n.last_send < IdleTime
    <3>1. GoesOn(n) /\ n.session = c.session /\ n.filename = c.filename
      BY <2>1, <2>5 DEF Continues, Kept
    <3>2. n.session + 2 <= Limit
      BY <1>1, <3>1
    <3>3. ToSet(up) = {} /\ ToSet(down') = {}
      <4>1. Len(down') = 0 /\ Sequential(down')
        BY <1>4, <1>5, <2>3
      <4>2. DOMAIN down' = 1 .. 0
        BY <4>1 DEF Sequential
      <4> QED BY <2>3, <4>2 DEF ToSet
    <3>4. server.open.session = n.session /\ server.open.file = n.filename
      BY <2>3, <3>1
    <3> QED BY <1>1, <1>5, <2>5, <3>1, <3>2, <3>3, <3>4, ToDownloading
  <2>6. CASE LeftRead(m, n)
    <3>1. LeftRead(c, n) /\ n.session + 1 <= Limit
      BY <1>1, <2>1, <2>6 DEF LeftRead
    <3> QED BY <1>1, <1>5, <3>1, ToLeft
  <2> QED BY <2>4, <2>5, <2>6
<1>9. CASE Formed(m) /\ Asks(m) /\ Same(q, m, {"ret"})
  <2>1. \A x \in Fields \ {"ret"} : m[x] = q[x]
    BY <1>9 DEF Same
  <2>2. m.pc = "reply" /\ n = Turn(m)
    BY <1>9 DEF Asks, Reading
  <2> HIDE DEF n
  <2>3. /\ m.session = c.session /\ m.open_retries = c.open_retries /\ m.filename = c.filename
        /\ m.call = c.call /\ m.requested_offset = c.requested_offset /\ m.last_op = c.last_op
        /\ m.out = <<>>
    BY <1>3, <2>1 DEF Fields
  <2> QED BY <1>1, <1>5, <1>9, <2>2, <2>3, AskingAdvances
<1> QED BY <1>6, <1>7, <1>8, <1>9

LEMMA AskingWaits ==
    ASSUME FtpAssumption, IInv, Asking, NoPacket
    PROVE  IInv'
<1>1. /\ World /\ Formed(c) /\ Asks(c) /\ c.out = <<>> /\ DOMAIN c = Fields
      /\ IdleTime \in Nat \ {0} /\ ReadRetryTime \in 1 .. IdleTime /\ c.last_send < IdleTime
      /\ c.last_send \in Nat /\ c.quiet \in Nat /\ c.ret # "RemoteReplyTimeout"
      /\ c.last_burst_read = -1 /\ c.read_gap_times = <<>>
      /\ c.op_start = IF c.last_send < ReadRetryTime THEN c.last_send ELSE ReadRetryTime
  BY DEF IInv, Asking, FtpAssumption, Formed, Asks, Reading, NoGaps
<1>2. PICK late \in BOOLEAN :
        /\ budget' = [budget EXCEPT !.late = IF late /\
             ~(up = <<>> /\ down = <<>>) THEN @ - 1 ELSE @]
        /\ late /\ ~(up = <<>> /\ down = <<>>) => c.last_send + 1 < IdleTime /\ budget.late > 0
        /\ Becomes(Turn(IF late THEN Later(c) ELSE [c EXCEPT !.too_fast = FALSE]))
  BY DEF NoPacket
<1> DEFINE m == IF late THEN Later(c) ELSE [c EXCEPT !.too_fast = FALSE]
<1>3. /\ Same(c, m, AskMarks) /\ m.ret # "RemoteReplyTimeout" /\ m.quiet \in Nat /\ m.last_send \in Nat
      /\ m.op_start = (IF m.last_send < ReadRetryTime THEN m.last_send ELSE ReadRetryTime)
      /\ m.last_burst_read = -1 /\ m.read_gap_times = <<>>
  <2>1. CASE late
    <3>1. m = Later(c)
      BY <2>1
    <3> HIDE DEF m
    <3>2. /\ Same(c, m, Marks \ {"ret", "burst_size", "backlog"})
          /\ m.last_send = Aged(c.last_send, IdleTime) /\ m.op_start = Aged(c.op_start, ReadRetryTime)
          /\ m.last_burst_read = Aged(c.last_burst_read, RetryTime)
          /\ m.quiet = Aged(c.quiet, IdleTime + 1)
          /\ m.read_gap_times = [g \in DOMAIN c.read_gap_times |->
                 IF c.read_gap_times[g] = 0 THEN 0 ELSE Aged(c.read_gap_times[g], RetryTime + 1)]
      BY <1>1, <3>1, LaterIs
    <3>3. \A x \in Fields \ Marks : m[x] = c[x]
      BY <3>2 DEF Same
    <3>4. m.ret = c.ret /\ m.burst_size = c.burst_size /\ m.backlog = c.backlog
      BY <3>2 DEF Same, Fields, Marks
    <3>5. Same(c, m, AskMarks)
      BY <3>2, <3>3, <3>4 DEF Same, Marks, AskMarks, Fields
    <3>6. m.last_send = c.last_send + 1 /\ m.quiet \in Nat /\ m.last_burst_read = -1
      BY <1>1, <3>2 DEF Aged
    <3>7. m.op_start = (IF m.last_send < ReadRetryTime THEN m.last_send ELSE ReadRetryTime)
      BY <1>1, <3>2, <3>6 DEF Aged
    <3>8. m.read_gap_times = <<>>
      <4>1. DOMAIN m.read_gap_times = {}
        BY <1>1, <3>2
      <4>2. m.read_gap_times = [g \in {} |->
                 IF c.read_gap_times[g] = 0 THEN 0 ELSE Aged(c.read_gap_times[g], RetryTime + 1)]
        BY <1>1, <3>2
      <4> QED BY <4>1, <4>2
    <3> QED BY <1>1, <3>4, <3>5, <3>6, <3>7, <3>8
  <2>2. CASE ~late
    <3>1. m = [c EXCEPT !.too_fast = FALSE]
      BY <2>2
    <3>2. Same(c, m, {"too_fast"})
      BY <1>1, <3>1 DEF Same, Fields
    <3> HIDE DEF m
    <3>3. \A x \in Fields \ {"too_fast"} : m[x] = c[x]
      BY <3>2 DEF Same
    <3>4. /\ m.last_send = c.last_send /\ m.op_start = c.op_start /\ m.last_burst_read = c.last_burst_read
          /\ m.ret = c.ret /\ m.read_gap_times = c.read_gap_times /\ m.quiet = c.quiet
      BY <3>3 DEF Fields
    <3>5. Same(c, m, AskMarks)
      BY <3>2 DEF Same, AskMarks
    <3> QED BY <1>1, <3>4, <3>5
  <2> QED BY <2>1, <2>2
<1>4. Advances(Turn(m)) /\ down' = down
  <2>1. Becomes(Turn(m)) /\ down' = down /\ server' = server
    BY <1>2 DEF NoPacket
  <2>2. /\ DOMAIN budget' = {"loss", "late", "calls"} /\ budget'.calls = budget.calls
        /\ budget'.loss \in Nat /\ budget'.late \in Nat
    <3>1. CASE late /\ ~(up = <<>> /\ down = <<>>)
      BY <1>1, <1>2, <3>1 DEF World
    <3>2. CASE ~(late /\ ~(up = <<>> /\ down = <<>>))
      BY <1>1, <1>2, <3>2 DEF World
    <3> QED BY <3>1, <3>2
  <2> HIDE DEF m
  <2> QED BY <1>1, <2>1, <2>2 DEF Becomes, Advances, World
<1> HIDE DEF m
<1>5. /\ Formed(m) /\ Asks(m) /\ m.out = <<>>
      /\ m.session = c.session /\ m.open_retries = c.open_retries /\ m.filename = c.filename
      /\ m.call = c.call /\ m.requested_offset = c.requested_offset /\ m.last_op = c.last_op
  BY <1>1, <1>3, StillAsks
<1> QED BY <1>4, <1>5, AskingAdvances

(* -------------------------------- putting a file ---------------------------- *)
PutSends == {"out", "last_op", "last_send", "write_idx", "write_pending", "write_last_send"}
OnlyWrites(m) == \A op \in ToSet(m.out) : WriteOp(op, m) /\ op.opcode = "WriteFile"

\* The settings, as numbers.
LEMMA Settings ==
    ASSUME FtpAssumption
    PROVE  /\ write_size \in Nat \ {0} /\ write_qsize \in Nat \ {0} /\ IdleTime \in Nat \ {0}
           /\ RetryTime = 1 /\ ReadRetryTime \in 1 .. IdleTime
BY DEF FtpAssumption

\* The blocks of a file, and where they begin.
LEMMA BlocksOf ==
    ASSUME FtpAssumption, NEW size \in Nat
    PROVE  /\ Blocks(size) \in Nat /\ (Blocks(size) = 0 => size = 0)
           /\ \A b \in 0 .. Blocks(size) - 1 : b * write_size \in Nat /\ b * write_size < size
<1> DEFINE q == Blocks(size)
           n == size + write_size - 1
<1>1. write_size \in Nat \ {0} /\ n \in Nat
  BY Settings
<1>2. q \in Nat /\ q * write_size <= n /\ n < q * write_size + write_size
  <2>1. q = n \div write_size
    BY DEF Blocks
  <2> HIDE DEF q, n
  <2> QED BY <1>1, <2>1, Quotient
<1>3. n = size + write_size - 1
  OBVIOUS
<1> HIDE DEF q, n
<1>4. q = 0 => size = 0
  <2>1. q = 0 => q * write_size = 0
    BY <1>1
  <2> QED BY <1>1, <1>2, <1>3, <2>1
<1>5. ASSUME NEW b \in 0 .. q - 1 PROVE b * write_size \in Nat /\ b * write_size < size
  <2>1. b \in Nat /\ b < q
    BY <1>2
  <2>2. b * write_size \in Nat /\ q * write_size \in Nat /\ b * write_size + write_size <= q * write_size
    BY <1>1, <1>2, <2>1, Products
  <2> QED BY <1>1, <1>2, <1>3, <2>2
<1> QED BY <1>2, <1>4, <1>5 DEF q

\* There is a block to write next.
LEMMA Next_ ==
    ASSUME NEW m, m.write_total \in Nat, m.write_idx \in Nat,
           m.write_list \subseteq 0 .. m.write_total - 1, m.write_list # {}
    PROVE  NextBlock(m) \in m.write_list
<1> DEFINE f(i) == (i - m.write_idx + m.write_total) % m.write_total
           S == {f(i) : i \in m.write_list}
<1>1. m.write_total \in Nat \ {0}
  OBVIOUS
<1>2. \A i \in m.write_list : f(i) \in Nat
  <2> TAKE i \in m.write_list
  <2>1. i - m.write_idx + m.write_total \in Int
    OBVIOUS
  <2> QED BY <1>1, <2>1
<1> HIDE DEF f
<1>3. S \in SUBSET Nat /\ S # {}
  BY <1>2
<1>4. PICK x \in S : \A y \in S : x <= y
  BY <1>3, Least
<1>5. PICK i \in m.write_list : x = f(i)
  BY <1>4
<1>6. \A j \in m.write_list : f(i) <= f(j)
  BY <1>4, <1>5
<1>7. \E k \in m.write_list : \A j \in m.write_list : f(k) <= f(j)
  BY <1>6
<1>8. NextBlock(m) = CHOOSE k \in m.write_list : \A j \in m.write_list : f(k) <= f(j)
  BY DEF NextBlock, f
<1> QED BY <1>7, <1>8

\* A block is sent.
LEMMA BlockSent ==
    ASSUME FtpAssumption, NEW m, Formed(m), Puts(m), OnlyWrites(m), m.write_list # {},
           m.write_pending < write_qsize, NEW i
    PROVE  LET n == SendBlock(m, i) IN
           /\ Formed(n) /\ Puts(n) /\ OnlyWrites(n) /\ Same(m, n, PutSends)
           /\ n.write_pending = m.write_pending + 1 /\ n.last_send = 0
<1> DEFINE b == NextBlock(m)
           ofs == b * write_size
           len == IF m.write_file_size - ofs < write_size THEN m.write_file_size - ofs ELSE write_size
           op == Op("WriteFile", m.session, ofs, len, None)
           s == __send(m, op)
           n == SendBlock(m, i)
<1>1. /\ m.write_file_size \in Nat /\ m.write_total = Blocks(m.write_file_size)
      /\ m.write_list \subseteq 0 .. m.write_total - 1 /\ m.write_idx \in Nat
      /\ m.write_pending \in 0 .. write_qsize /\ m.session \in Nat
  BY DEF Puts, Formed
<1>2. /\ m.write_total \in Nat /\ write_size \in Nat \ {0} /\ write_qsize \in Nat
      /\ \A k \in 0 .. m.write_total - 1 : k * write_size \in Nat /\ k * write_size < m.write_file_size
  BY <1>1, BlocksOf, Settings
<1>3. b \in m.write_list /\ b \in 0 .. m.write_total - 1 /\ m.write_total # 0
  <2>1. b \in m.write_list
    BY <1>1, <1>2, Next_
  <2> HIDE DEF b
  <2> QED BY <1>1, <1>2, <2>1
<1>4. n = [s EXCEPT !.write_idx = (b + 1) % m.write_total, !.write_pending = @ + 1, !.write_last_send = 0]
  BY DEF SendBlock
<1> HIDE DEF b, n
<1>5. /\ ofs \in Nat /\ len \in Nat /\ ofs \in Offsets(m)
  <2>1. ofs \in Nat /\ ofs < m.write_file_size
    BY <1>2, <1>3
  <2>2. ofs \in Offsets(m)
    BY <1>3 DEF Offsets
  <2> HIDE DEF ofs
  <2> QED BY <1>1, <1>2, <2>1, <2>2
<1> HIDE DEF ofs, len
<1>6. WriteOp(op, m) /\ op.opcode = "WriteFile"
  BY <1>1, <1>5 DEF WriteOp, IsOp, Op
<1> HIDE DEF op
<1>7. /\ Same(m, s, {"out", "last_op", "last_send"}) /\ s.last_op = op /\ s.last_send = 0
      /\ Sequential(s.out) /\ ToSet(s.out) = ToSet(m.out) \union {op} /\ Formed(s)
  BY Sent
<1> HIDE DEF s
<1>8. /\ Same(m, n, PutSends) /\ n.write_idx = (b + 1) % m.write_total
      /\ n.write_pending = m.write_pending + 1 /\ n.write_last_send = 0 /\ n.last_send = 0
      /\ n.out = s.out /\ n.last_op = op
  BY <1>4, <1>7 DEF Same, Fields, PutSends
<1>9. \A x \in Fields \ PutSends : n[x] = m[x]
  BY <1>8 DEF Same
<1>10. Formed(n)
  BY <1>7, <1>8, <1>9 DEF Formed, Same, Fields, PutSends
<1>11. n.write_idx \in Nat /\ n.write_pending \in 0 .. write_qsize
  BY <1>1, <1>2, <1>3, <1>8
<1>12. n.session = m.session /\ n.write_total = m.write_total /\ Offsets(n) = Offsets(m)
  BY <1>9 DEF Fields, PutSends, Offsets
<1>13. \A o : WriteOp(o, m) => WriteOp(o, n)
  BY <1>12 DEF WriteOp
<1>14. OnlyWrites(n) /\ WriteOp(n.last_op, n)
  BY <1>6, <1>7, <1>8, <1>13 DEF OnlyWrites
<1>15. Puts(n)
  <2>1. /\ n.pc = "reply" /\ n.call = "put" /\ n.told = <<>>
        /\ n.callback = FALSE /\ n.put_callback = TRUE
        /\ n.fh = [tell |-> 0, data |-> <<>>] /\ NoGaps(n)
        /\ n.read_total = 0 /\ n.last_burst_read = -1 /\ n.reached_eof = FALSE
        /\ n.write_file_size \in Nat /\ n.write_total = Blocks(n.write_file_size)
        /\ n.write_list \subseteq 0 .. n.write_total - 1
        /\ n.write_recv_idx \in Int
    BY <1>9, SMTT(60) DEF Puts, NoGaps, Fields, PutSends
  <2>2. \A o \in ToSet(n.out) : WriteOp(o, n)
    BY <1>14 DEF OnlyWrites
  <2> QED BY <1>8, <1>11, <1>14, <2>1, <2>2 DEF Puts
<1> QED BY <1>8, <1>10, <1>14, <1>15 DEF n

\* The blocks that there is room for are sent.
LEMMA BlocksSent ==
    ASSUME FtpAssumption, NEW m, Formed(m), Puts(m), OnlyWrites(m), m.write_list # {},
           NEW N \in Nat, m.write_pending + N <= write_qsize, N <= Cardinality(m.write_list)
    PROVE  LET n == FoldLeft(SendBlock, m, [i \in 1 .. N |-> i]) IN
           /\ Formed(n) /\ Puts(n) /\ OnlyWrites(n) /\ Same(m, n, PutSends)
           /\ n.last_send = IF N = 0 THEN m.last_send ELSE 0
<1> DEFINE xs == [i \in 1 .. N |-> i]
<1>1. DOMAIN xs = 1 .. N /\ m.write_pending \in 0 .. write_qsize /\ write_qsize \in Nat
  BY Settings DEF Puts
<1> HIDE DEF xs
<1>2. PICK h : Loops(h, N, "blocks", m, xs) /\ FoldLeft(SendBlock, m, xs) = h[1 .. N]
  BY <1>1, BlockFold
<1>3. h[1 .. 0] = m /\ \A k \in 1 .. N : h[1 .. k] = SendBlock(h[1 .. k - 1], xs[k])
  <2>1. /\ h[1 .. 0] = m
        /\ \A k \in 1 .. N : h[1 .. k] = Again("blocks", h[1 .. k - 1], xs[k])
    BY <1>1, <1>2, Turns
  <2> QED BY <2>1 DEF Again
<1> DEFINE P(n, k) == /\ Formed(n) /\ Puts(n) /\ OnlyWrites(n) /\ Same(m, n, PutSends)
                      /\ n.write_pending = m.write_pending + k
                      /\ n.last_send = IF k = 0 THEN m.last_send ELSE 0
           S == {k \in 0 .. N : P(h[1 .. k], k)}
<1>4. 0 \in S
  <2>1. P(m, 0)
    BY <1>1 DEF Same, Formed
  <2>2. 0 \in 0 .. N
    OBVIOUS
  <2> HIDE DEF P
  <2> QED BY <1>3, <2>1, <2>2
<1>5. ASSUME NEW k \in 1 .. N, k - 1 \in S PROVE k \in S
  <2> DEFINE v == h[1 .. k - 1]
             w == SendBlock(v, xs[k])
  <2>1. P(v, k - 1) /\ h[1 .. k] = w /\ k \in 0 .. N
    BY <1>3, <1>5
  <2> HIDE DEF v
  <2>2. v.write_pending < write_qsize
    BY <1>1, <2>1
  <2>3. v.write_list # {}
    BY <2>1 DEF Same, PutSends, Fields
  <2>4. /\ Formed(w) /\ Puts(w) /\ OnlyWrites(w) /\ Same(v, w, PutSends)
        /\ w.write_pending = v.write_pending + 1 /\ w.last_send = 0
    BY <2>1, <2>2, <2>3, BlockSent
  <2> HIDE DEF w
  <2>5. Same(m, w, PutSends)
    BY <2>1, <2>4 DEF Same
  <2>6. w.write_pending = m.write_pending + k
    BY <1>1, <2>1, <2>4
  <2>7. P(w, k)
    BY <2>4, <2>5, <2>6
  <2> HIDE DEF P
  <2> QED BY <2>1, <2>7
<1> HIDE DEF P
<1>6. N \in S
  <2>1. 0 .. N \subseteq S
    <3> HIDE DEF S
    <3> QED BY <1>1, <1>4, <1>5, UpTo
  <2> HIDE DEF S
  <2> QED BY <1>1, <2>1
<1>7. P(h[1 .. N], N)
  BY <1>6
<1> QED BY <1>2, <1>7 DEF P, xs

\* Blocks are left: what there is room for is sent, something if a block was sent a while ago.
LEMMA MoreSent ==
    ASSUME FtpAssumption, NEW m, Formed(m), Puts(m), OnlyWrites(m), m.write_list # {}
    PROVE  LET n == __send_more_writes(m) IN
           /\ Formed(n) /\ Puts(n) /\ OnlyWrites(n) /\ Same(m, n, PutSends)
           /\ n.last_send \in {0, m.last_send}
           /\ m.write_last_send # 0 => n.last_send = 0
<1> DEFINE late == m.write_last_send >= 1
           k == [m EXCEPT !.write_pending = IF late /\ @ > 0 THEN @ - 1 ELSE @]
           room == write_qsize - k.write_pending
           left == Cardinality(k.write_list)
           N == IF room < left THEN room ELSE left
           n == __send_more_writes(m)
<1>1. /\ m.write_total = Blocks(m.write_file_size) /\ m.write_file_size \in Nat
      /\ m.write_list \subseteq 0 .. m.write_total - 1
      /\ m.write_pending \in 0 .. write_qsize /\ write_qsize \in Nat \ {0}
      /\ m.write_last_send \in {-1, 0, 1} /\ (m.write_last_send = -1 => m.write_pending = 0)
      /\ DOMAIN m = Fields
  BY Settings DEF Puts, Formed
<1>2. Cardinality(m.write_list) \in Nat \ {0}
  <2>1. m.write_total \in Nat
    BY <1>1, BlocksOf
  <2>2. IsFiniteSet(0 .. m.write_total - 1)
    BY <2>1, FS_Interval
  <2>3. IsFiniteSet(m.write_list)
    BY <1>1, <2>2, FS_Subset
  <2>4. Cardinality(m.write_list) \in Nat /\ Cardinality(m.write_list) # 0
    BY <2>3, FS_EmptySet, FS_CardinalityType
  <2> QED BY <2>4
<1>3. /\ Same(m, k, {"write_pending"})
      /\ k.write_pending = IF late /\ m.write_pending > 0 THEN m.write_pending - 1 ELSE m.write_pending
  BY <1>1 DEF Same, Fields
<1>4. n = FoldLeft(SendBlock, k, [i \in 1 .. N |-> i])
  BY DEF __send_more_writes
<1> HIDE DEF k, n
<1>5. \A x \in Fields \ {"write_pending"} : k[x] = m[x]
  BY <1>3 DEF Same
<1>6. /\ k.write_list = m.write_list /\ k.last_send = m.last_send /\ k.out = m.out
      /\ k.session = m.session /\ k.write_total = m.write_total /\ Offsets(k) = Offsets(m)
  BY <1>5 DEF Fields, Offsets
<1>7. Formed(k)
  BY <1>3, <1>5 DEF Formed, Same, Fields
<1>8. k.write_pending \in 0 .. write_qsize /\ (m.write_last_send # 0 => k.write_pending < write_qsize)
      /\ (m.write_last_send = -1 => k.write_pending = 0)
  BY <1>1, <1>3
<1>9. Puts(k) /\ OnlyWrites(k)
  <2>1. /\ k.pc = "reply" /\ k.call = "put" /\ k.told = <<>>
        /\ k.callback = FALSE /\ k.put_callback = TRUE
        /\ k.fh = [tell |-> 0, data |-> <<>>] /\ NoGaps(k)
        /\ k.read_total = 0 /\ k.last_burst_read = -1 /\ k.reached_eof = FALSE
        /\ k.write_file_size \in Nat /\ k.write_total = Blocks(k.write_file_size)
        /\ k.write_list \subseteq 0 .. k.write_total - 1
        /\ k.write_recv_idx \in Int /\ k.write_idx \in Nat
        /\ k.write_last_send \in {-1, 0, 1} /\ k.write_last_send = m.write_last_send
        /\ k.last_op = m.last_op
    BY <1>5 DEF Puts, NoGaps, Fields
  <2>2. \A o : WriteOp(o, m) => WriteOp(o, k)
    BY <1>6 DEF WriteOp
  <2>3. WriteOp(k.last_op, k) /\ OnlyWrites(k)
    BY <1>6, <2>1, <2>2 DEF OnlyWrites, Puts
  <2>4. \A o \in ToSet(k.out) : WriteOp(o, k)
    BY <2>3 DEF OnlyWrites
  <2> QED BY <1>8, <2>1, <2>3, <2>4 DEF Puts
<1>10. N \in Nat /\ k.write_pending + N <= write_qsize /\ N <= left /\ (m.write_last_send # 0 => N # 0)
  BY <1>1, <1>2, <1>6, <1>8
<1>11. /\ Formed(n) /\ Puts(n) /\ OnlyWrites(n) /\ Same(k, n, PutSends)
       /\ n.last_send = IF N = 0 THEN k.last_send ELSE 0
  <2> HIDE DEF N, left
  <2>1. N <= Cardinality(k.write_list)
    BY <1>10 DEF left
  <2>2. k.write_list # {}
    BY <1>6
  <2> QED BY <1>4, <1>7, <1>9, <1>10, <2>1, <2>2, BlocksSent
<1>12. Same(m, n, PutSends)
  BY <1>3, <1>11 DEF Same, PutSends
<1> HIDE DEF N
<1> QED BY <1>6, <1>10, <1>11, <1>12 DEF n

\* A file that is put is open, and nothing is read.
LEMMA PutsOpen ==
    ASSUME NEW m, Puts(m)
    PROVE  /\ Open(m) /\ m.write_list # NoWrites /\ m.last_op.opcode # "OpenFileRO"
           /\ m.read_gaps = <<>> /\ m.last_burst_read = -1
<1>1. Open(m)
  <2>1. m.fh.tell = 0
    BY DEF Puts
  <2> QED BY <2>1 DEF Open, NotOpen
<1>2. m.write_list # NoWrites
  <2>1. -1 \notin m.write_list
    BY DEF Puts
  <2> QED BY <2>1 DEF NoWrites
<1> QED BY <1>1, <1>2 DEF Puts, WriteOp, NoGaps

\* Writes carry the session.
LEMMA WritesKnown ==
    ASSUME NEW m, Formed(m), OnlyWrites(m)
    PROVE  Known(m)
BY DEF Known, OnlyWrites, WriteOp, Formed

\* All blocks are acknowledged: the caller is told so.
LEMMA PutEnds ==
    ASSUME NEW m, Formed(m), Puts(m), OnlyWrites(m), m.write_list = {}
    PROVE  LET n == __send_more_writes(m) IN
           /\ Over(m, n) /\ n.told = <<"put", "put", m.filename, m.write_file_size>>
           /\ ToSet(n.out) = ToSet(m.out) \union {Op("TerminateSession", m.session, 0, 0, None)}
<1> DEFINE t == Tell(m, "put", m.write_file_size)
           p == __put_finished(m)
           n == __send_more_writes(m)
           op == Op("TerminateSession", m.session, 0, 0, None)
<1>1. n = __terminate_session(p)
  BY DEF __send_more_writes
<1>2. p = [t EXCEPT !.put_callback = FALSE]
  BY DEF __put_finished
<1> HIDE DEF p, n
<1>3. /\ Same(m, t, {"told"}) /\ t.told = <<"put", m.call, m.filename, m.write_file_size>>
  BY Tells
<1> HIDE DEF t
<1>4. Same(m, p, {"told", "put_callback"}) /\ p.put_callback = FALSE
      /\ p.told = <<"put", "put", m.filename, m.write_file_size>>
  BY <1>2, <1>3 DEF Same, Fields, Puts
<1>5. \A x \in Fields \ {"told", "put_callback"} : p[x] = m[x]
  BY <1>4 DEF Same
<1>6. Formed(p)
  BY <1>4, <1>5 DEF Formed, Same, Fields
<1>7. /\ p.pc = "reply" /\ p.call = "put" /\ p.callback = FALSE /\ p.out = m.out
      /\ p.session = m.session /\ p.requested_offset = m.requested_offset
  BY <1>5 DEF Puts, Fields
<1>8. Known(p) /\ GotWhole(p)
  <2>1. Known(m)
    BY WritesKnown
  <2> QED BY <1>4, <1>7, <2>1 DEF Known, GotWhole
<1>9. Over(p, n)
  <2>1. /\ p.callback \in BOOLEAN /\ p.put_callback \in BOOLEAN
        /\ p.call \in {"get", "read", "put"} /\ p.call # "read"
    BY <1>4, <1>7
  <2>2. p.told # <<>>
    BY <1>4
  <2> QED BY <1>1, <1>6, <1>7, <1>8, <2>1, <2>2, OverBy
<1>10. p.ret # "RemoteReplyTimeout"
  BY <1>6, <1>7 DEF Formed
<1>11. /\ n.told = p.told /\ n.out = Append(p.out, n.last_op) /\ n.last_op = Op("TerminateSession", p.session, 0, 0, None)
  <2>1. /\ n.told = IF p.callback \/ p.put_callback THEN <<"failed", p.call, p.filename, <<>> >> ELSE p.told
        /\ n.out = Append(p.out, n.last_op) /\ n.last_op = Op("TerminateSession", p.session, 0, 0, None)
    BY <1>1, <1>6, <1>10, Cleaned
  <2> QED BY <1>4, <1>7, <2>1
<1>12. ToSet(n.out) = ToSet(m.out) \union {op}
  <2>1. Sequential(m.out) /\ n.out = Append(m.out, op)
    BY <1>7, <1>11 DEF Formed
  <2> HIDE DEF op
  <2>2. ToSet(Append(m.out, op)) = ToSet(m.out) \union {op}
    BY <2>1, Appended
  <2> QED BY <2>1, <2>2
<1>13. Over(m, n)
  BY <1>7, <1>9 DEF Over, Puts
<1> QED BY <1>4, <1>11, <1>12, <1>13 DEF n

\* A transfer that fails.
LEMMA PutFails ==
    ASSUME NEW m, Formed(m), Puts(m), OnlyWrites(m)
    PROVE  LET n == __terminate_session(m) IN Over(m, n) /\ PutWhole(n)
<1> DEFINE n == __terminate_session(m)
<1>1. /\ m.pc = "reply" /\ m.call = "put" /\ m.callback = FALSE /\ m.put_callback = TRUE
      /\ m.told = <<>>
  BY DEF Puts
<1>2. Known(m) /\ GotWhole(m)
  BY <1>1, WritesKnown DEF GotWhole
<1>3. Over(m, n)
  BY <1>1, <1>2, OverBy
<1>4. m.ret # "RemoteReplyTimeout"
  BY <1>1 DEF Formed
<1>5. n.told = <<"failed", m.call, m.filename, <<>> >>
  <2>1. n.told = IF m.callback \/ m.put_callback THEN <<"failed", m.call, m.filename, <<>> >> ELSE m.told
    BY <1>4, Cleaned
  <2> HIDE DEF n
  <2> QED BY <1>1, <2>1
<1> HIDE DEF n
<1>6. PutWhole(n)
  BY <1>5 DEF PutWhole
<1> QED BY <1>3, <1>6 DEF n

\* All that __idle_task does for a put is to send more blocks.
LEMMA IdlePutting ==
    ASSUME FtpAssumption, NEW m, Puts(m)
    PROVE  __idle_task(m) = __send_more_writes(m)
<1>1. /\ Open(m) /\ m.write_list # NoWrites /\ m.last_op.opcode # "OpenFileRO"
      /\ m.read_gaps = <<>> /\ m.last_burst_read = -1 /\ RetryTime = 1
  BY PutsOpen, Settings
<1>2. RetryBurst(m) = m
  BY <1>1 DEF RetryBurst
<1>3. __check_read_send(m) = m
  BY <1>1 DEF __check_read_send
<1>4. ~NothingPending(m)
  BY <1>1 DEF NothingPending
<1> QED BY <1>1, <1>2, <1>3, <1>4 DEF __idle_task

\* A turn of the loop while blocks are left, and when none is.
LEMMA TurnPutting ==
    ASSUME FtpAssumption, NEW m, Formed(m), Puts(m), OnlyWrites(m), m.write_list # {},
           m.last_send < IdleTime \/ m.write_last_send # 0
    PROVE  LET n == Turn(m) IN
           /\ Formed(n) /\ Puts(n) /\ OnlyWrites(n) /\ Same(m, n, PutSends) /\ n.last_send < IdleTime
<1> DEFINE w == __send_more_writes(m)
           n == Turn(m)
<1>1. /\ Formed(w) /\ Puts(w) /\ OnlyWrites(w) /\ Same(m, w, PutSends)
      /\ w.last_send \in {0, m.last_send}
      /\ m.write_last_send # 0 => w.last_send = 0
  BY MoreSent
<1>2. n = IF w.pc = "reply" /\ LoopEnds(w) THEN [w EXCEPT !.pc = "ready"] ELSE w
  BY IdlePutting DEF Turn
<1> HIDE DEF n, w
<1>3. w.last_send < IdleTime /\ w.last_send \in Nat /\ IdleTime \in Nat
  BY <1>1, Settings DEF Formed
<1>4. w.call = "put"
  BY <1>1 DEF Puts
<1>5. ~LoopEnds(w)
  BY <1>3, <1>4 DEF LoopEnds, IsIdle
<1>6. n = w
  BY <1>2, <1>5
<1> QED BY <1>1, <1>3, <1>6 DEF n

LEMMA TurnPutEnds ==
    ASSUME FtpAssumption, NEW m, Formed(m), Puts(m), OnlyWrites(m), m.write_list = {}
    PROVE  Turn(m) = __send_more_writes(m)
<1> DEFINE w == __send_more_writes(m)
           n == Turn(m)
<1>1. Over(m, w)
  BY PutEnds
<1>2. n = IF w.pc = "reply" /\ LoopEnds(w) THEN [w EXCEPT !.pc = "ready"] ELSE w
  BY IdlePutting DEF Turn
<1> HIDE DEF n, w
<1>3. w.pc = "terminating"
  BY <1>1 DEF Over
<1>4. n = w
  BY <1>2, <1>3
<1> QED BY <1>4 DEF n, w

\* What the server holds of the file that is put.
Holds(m) ==
    /\ server.open.session # c.session => m.write_list = 0 .. m.write_total - 1
    /\ server.open.session = c.session =>
          /\ server.written \subseteq Offsets(m)
          /\ \A b \in 0 .. m.write_total - 1 :
                b \notin m.write_list => b * write_size \in server.written

\* The next state is one of a put.
LEMMA ToPutting ==
    ASSUME FtpAssumption, IInv, Putting, NEW n, Formed(n), Puts(n), OnlyWrites(n),
           n.session = c.session, n.write_total = c.write_total, n.last_send < IdleTime, Holds(n),
           Advances(n)
    PROVE  IInv'
<1>1. /\ World /\ c.session \in Nat /\ c.session + 2 <= Limit
  BY DEF IInv, Putting, Formed
<1>2. /\ Formed(c)' /\ c'.out = <<>> /\ World' /\ Same(n, c', {"out"}) /\ Limit' = Limit
      /\ server' = server /\ ToSet(up') = ToSet(up) \union ToSet(n.out)
      /\ ToSet(down') \subseteq ToSet(down)
  <2>1. Known(n)
    BY WritesKnown
  <2>2. /\ Formed(c)' /\ c'.out = <<>> /\ World' /\ Same(n, c', {"out"})
        /\ ToSet(up') = ToSet(up) \union ToSet(n.out) /\ Limit' = Limit
    BY <1>1, <2>1, Advanced
  <2> QED BY <2>2 DEF Advances
<1>3. \A x \in Fields \ {"out"} : c'[x] = n[x]
  BY <1>2 DEF Same
<1>4. /\ c'.session = n.session /\ c'.last_send = n.last_send /\ c'.write_total = n.write_total
      /\ c'.write_list = n.write_list /\ c'.last_op = n.last_op
      /\ c'.told = n.told /\ c'.list_result = n.list_result
      /\ Offsets(c') = Offsets(n) /\ Offsets(c) = Offsets(n)
  BY <1>3 DEF Fields, Offsets
<1>5. \A o : /\ WriteOp(o, n) <=> WriteOp(o, c')
             /\ WriteOp(o, n) <=> WriteOp(o, c)
  BY <1>4 DEF WriteOp
<1>6. Puts(c')
  <2>1. /\ c'.pc = "reply" /\ c'.call = "put" /\ c'.told = <<>>
        /\ c'.callback = FALSE /\ c'.put_callback = TRUE
        /\ c'.fh = [tell |-> 0, data |-> <<>>] /\ NoGaps(c')
        /\ c'.read_total = 0 /\ c'.last_burst_read = -1 /\ c'.reached_eof = FALSE
        /\ c'.write_file_size \in Nat /\ c'.write_total = Blocks(c'.write_file_size)
        /\ c'.write_list \subseteq 0 .. c'.write_total - 1
        /\ c'.write_idx \in Nat /\ c'.write_recv_idx \in Int /\ c'.write_pending \in 0 .. write_qsize
        /\ c'.write_last_send \in {-1, 0, 1} /\ (c'.write_last_send = -1 => c'.write_pending = 0)
    BY <1>3, ZenonT(60) DEF Puts, NoGaps, Fields
  <2>2. WriteOp(c'.last_op, c')
    BY <1>4, <1>5 DEF Puts
  <2>3. \A op \in ToSet(c'.out) : WriteOp(op, c')
    BY <1>2, OneElement
  <2> QED BY <2>1, <2>2, <2>3 DEF Puts
<1>7. TransfersWhole'
  BY <1>2, <1>4, <1>6 DEF TransfersWhole, Told, Formed, Puts
<1>8. Putting'
  <2>1. \A op \in ToSet(up') : WriteOp(op, c')
    BY <1>2, <1>5 DEF Putting, OnlyWrites
  <2>2. \A i \in DOMAIN up' : up'[i].opcode = "CreateFile" =>
          i = 1 /\ down' = <<>> /\ server.open.session # c.session
    <3> SUFFICES ASSUME NEW i \in DOMAIN up', up'[i].opcode = "CreateFile"
                 PROVE  i = 1 /\ down' = <<>> /\ server.open.session # c.session
      OBVIOUS
    <3>1. Sequential(up) /\ Sequential(n.out) /\ up' = up \o n.out /\ Sequential(down')
      BY <1>1 DEF World, Advances, Formed
    <3>2. up'[i] \in ToSet(n.out) \/ (i \in DOMAIN up /\ up'[i] = up[i])
      BY <3>1, FromEither
    <3>3. i \in DOMAIN up /\ up'[i] = up[i]
      BY <3>2 DEF OnlyWrites
    <3>4. i = 1 /\ down = <<>> /\ server.open.session # c.session
      BY <3>3 DEF Putting
    <3>5. down' = <<>>
      <4>1. ToSet(down') = {}
        BY <1>2, <3>4, OneElement
      <4> QED BY <3>1, <4>1, NoElement
    <3> QED BY <3>4, <3>5
  <2>3. \A r \in ToSet(down') :
            /\ r.session = c'.session /\ r.req \in {"CreateFile", "WriteFile"}
            /\ r.req = "WriteFile" => r.offset \in Offsets(c')
    BY <1>2, <1>4 DEF Putting
  <2>4. server.open.session # c.session =>
          /\ c'.write_list = 0 .. c'.write_total - 1 /\ \A r \in ToSet(down') : ~r.ack
    BY <1>2, <1>4 DEF Putting, Holds
  <2>5. server.open.session = c.session =>
          /\ server.written \subseteq Offsets(c')
          /\ \A b \in 0 .. c'.write_total - 1 :
                b \notin c'.write_list => b * write_size \in server.written
          /\ \A r \in ToSet(down') : r.req = "WriteFile" /\ r.ack => r.offset \in server.written
    BY <1>2, <1>4 DEF Putting, Holds
  <2>6. c'.session + 2 <= Limit' /\ c'.last_send < IdleTime
    BY <1>1, <1>2, <1>4
  <2> QED BY <1>2, <1>4, <1>6, <2>1, <2>2, <2>3, <2>4, <2>5, <2>6 DEF Putting
<1> QED BY <1>2, <1>7, <1>8 DEF IInv, Phase

\* All blocks are acknowledged: then the server holds the file.
LEMMA PuttingEnds ==
    ASSUME FtpAssumption, IInv, Putting, NEW m, Formed(m), Puts(m), m.out = <<>>, m.write_list = {},
           m.session = c.session, m.write_total = c.write_total, Holds(m),
           m.requested_offset = c.requested_offset, Advances(__send_more_writes(m))
    PROVE  IInv'
<1> DEFINE n == __send_more_writes(m)
<1>1. /\ World /\ c.session \in Nat /\ c.session + 2 <= Limit /\ c.call = "put"
  BY DEF IInv, Putting, Formed, Puts
<1>2. OnlyWrites(m)
  BY OneElement DEF OnlyWrites
<1>3. /\ Over(m, n) /\ n.told = <<"put", "put", m.filename, m.write_file_size>>
      /\ ToSet(n.out) = ToSet(m.out) \union {Op("TerminateSession", m.session, 0, 0, None)}
  BY <1>2, PutEnds
<1> HIDE DEF n
<1>4. Over(c, n) /\ n.session = c.session
  BY <1>1, <1>3 DEF Over
<1>5. PutWhole(n)
  <2> SUFFICES ASSUME n.told[4] # 0
               PROVE  /\ server.written = {b * write_size : b \in 0 .. (Blocks(n.told[4]) - 1)}
                      /\ \A op \in ToSet(up) \union ToSet(n.out) :
                            /\ op.opcode # "CreateFile"
                            /\ op.opcode = "WriteFile" => op.offset \in server.written
    BY DEF PutWhole
  <2>1. n.told[4] = m.write_file_size /\ m.write_total = Blocks(m.write_file_size)
        /\ m.write_file_size \in Nat
    BY <1>3 DEF Puts
  <2>2. m.write_total \in Nat /\ m.write_total # 0
    BY <2>1, BlocksOf
  <2>3. server.open.session = c.session
    <3>1. 0 \in 0 .. m.write_total - 1
      BY <2>2
    <3> QED BY <3>1 DEF Holds
  <2>4. server.written = Offsets(m) /\ Offsets(m) = Offsets(c)
    BY <2>3 DEF Holds, Offsets
  <2>5. \A op \in ToSet(up) : op.opcode # "CreateFile" /\ op.offset \in Offsets(c)
    <3>1. \A op \in ToSet(up) : WriteOp(op, c)
      BY DEF Putting
    <3>2. \A op \in ToSet(up) : op.opcode # "CreateFile"
      BY <2>3 DEF Putting, ToSet
    <3> QED BY <3>1, <3>2 DEF WriteOp
  <2>6. \A op \in ToSet(n.out) : op.opcode = "TerminateSession"
    BY <1>3, OneElement DEF Op
  <2>7. server.written = {b * write_size : b \in 0 .. (Blocks(n.told[4]) - 1)}
    BY <2>1, <2>4 DEF Offsets
  <2> QED BY <2>4, <2>5, <2>6, <2>7
<1> QED BY <1>1, <1>4, <1>5, ToEnding DEF n

PutMarks == {"ret", "quiet", "too_fast", "last_send", "op_start", "last_burst_read", "write_last_send",
             "read_gap_times", "write_pending", "write_recv_idx", "write_list"}
\* A put is still one after changes that do not concern it.
LEMMA StillPuts ==
    ASSUME NEW m, Formed(m), Puts(m), m.out = <<>>, NEW n, Same(m, n, PutMarks),
           n.ret # "RemoteReplyTimeout", n.quiet \in Nat, n.last_send \in Nat,
           n.last_burst_read = -1, n.read_gap_times = <<>>, n.write_recv_idx \in Int,
           n.write_list \subseteq m.write_list, n.write_pending \in 0 .. write_qsize,
           n.write_last_send \in {-1, 0, 1}, n.write_last_send = -1 => n.write_pending = 0
    PROVE  /\ Formed(n) /\ Puts(n) /\ n.out = <<>> /\ OnlyWrites(n)
           /\ n.session = m.session /\ n.write_total = m.write_total
           /\ n.requested_offset = m.requested_offset /\ Offsets(n) = Offsets(m)
<1>1. \A x \in Fields \ PutMarks : n[x] = m[x]
  BY DEF Same
<1>2. Formed(n)
  BY <1>1 DEF Formed, Same, Fields, PutMarks
<1>3. /\ n.out = <<>> /\ n.session = m.session /\ n.write_total = m.write_total
      /\ n.requested_offset = m.requested_offset /\ n.last_op = m.last_op
  BY <1>1 DEF Fields, PutMarks
<1>4. Offsets(n) = Offsets(m) /\ \A o : WriteOp(o, m) <=> WriteOp(o, n)
  BY <1>3 DEF WriteOp, Offsets
<1>5. Puts(n)
  <2>1. /\ n.pc = "reply" /\ n.call = "put" /\ n.told = <<>>
        /\ n.callback = FALSE /\ n.put_callback = TRUE
        /\ n.fh = [tell |-> 0, data |-> <<>>]
        /\ n.read_total = 0 /\ n.reached_eof = FALSE
        /\ n.write_file_size \in Nat /\ n.write_total = Blocks(n.write_file_size)
        /\ n.write_idx \in Nat
    <3>1. /\ n.pc = m.pc /\ n.call = m.call /\ n.told = m.told /\ n.callback = m.callback
          /\ n.put_callback = m.put_callback /\ n.fh = m.fh /\ n.read_total = m.read_total
          /\ n.reached_eof = m.reached_eof /\ n.write_file_size = m.write_file_size
          /\ n.write_total = m.write_total /\ n.write_idx = m.write_idx
      BY <1>1 DEF Fields, PutMarks
    <3> QED BY <3>1 DEF Puts
  <2>4. NoGaps(n)
    BY <1>1 DEF Puts, NoGaps, Fields, PutMarks
  <2>2. n.write_list \subseteq 0 .. n.write_total - 1
    BY <1>3 DEF Puts
  <2>3. WriteOp(n.last_op, n) /\ \A op \in ToSet(n.out) : WriteOp(op, n)
    BY <1>3, <1>4, OneElement DEF Puts
  <2> QED BY <2>1, <2>2, <2>3, <2>4 DEF Puts
<1>6. OnlyWrites(n)
  BY <1>3, OneElement DEF OnlyWrites
<1> QED BY <1>2, <1>3, <1>4, <1>5, <1>6

\* After a reply more blocks are sent, or the put is over.
LEMMA PuttingHandled ==
    ASSUME FtpAssumption, IInv, Putting, NEW k, Formed(k), Puts(k), k.out = <<>>, OnlyWrites(k),
           k.session = c.session, k.write_total = c.write_total, Holds(k),
           k.requested_offset = c.requested_offset, k.last_send < IdleTime,
           NEW m, m = __send_more_writes(k),
           NEW n, n = IF m.pc = "reply" THEN Turn(m) ELSE m, Advances(n)
    PROVE  IInv'
<1>1. CASE k.write_list = {}
  <2>1. Over(k, m)
    BY <1>1, PutEnds
  <2>2. n = __send_more_writes(k)
    BY <2>1 DEF Over
  <2> QED BY <1>1, <2>2, PuttingEnds
<1>2. CASE k.write_list # {}
  <2>1. /\ Formed(m) /\ Puts(m) /\ OnlyWrites(m) /\ Same(k, m, PutSends)
        /\ m.last_send \in {0, k.last_send}
    BY <1>2, MoreSent
  <2>2. /\ m.session = k.session /\ m.write_total = k.write_total /\ m.write_list = k.write_list
    BY <2>1 DEF Same, Fields, PutSends
  <2>3. n = Turn(m) /\ m.last_send < IdleTime
    BY <2>1, Settings DEF Puts
  <2>4. /\ Formed(n) /\ Puts(n) /\ OnlyWrites(n) /\ Same(m, n, PutSends) /\ n.last_send < IdleTime
    BY <1>2, <2>1, <2>2, <2>3, TurnPutting
  <2>5. /\ n.session = k.session /\ n.write_total = k.write_total /\ n.write_list = k.write_list
    BY <2>2, <2>4 DEF Same, Fields, PutSends
  <2>6. Holds(n)
    BY <2>5 DEF Holds, Offsets
  <2> QED BY <2>4, <2>5, <2>6, ToPutting
<1> QED BY <1>1, <1>2

\* Putting keeps the invariant when a packet is taken, and when none is there.
LEMMA PuttingReceives ==
    ASSUME FtpAssumption, IInv, Putting, Receive
    PROVE  IInv'
<1> DEFINE q == [c EXCEPT !.quiet = 0]
           r == Head(down)
           m == __mavlink_packet(q, r)
           n == IF m.pc = "reply" THEN Turn(m) ELSE m
<1>1. /\ World /\ Formed(c) /\ Puts(c) /\ c.out = <<>> /\ c.session \in Nat /\ down # <<>>
      /\ c.session + 2 <= Limit /\ c.last_send < IdleTime /\ DOMAIN c = Fields
  BY DEF IInv, Putting, Formed, Receive
<1>2. Same(c, q, {"quiet"}) /\ q.quiet = 0
  BY <1>1 DEF Same, Fields
<1>3. Sequential(down) /\ r \in ToSet(down) /\ Sequential(Tail(down)) /\ ToSet(Tail(down)) \subseteq ToSet(down)
  BY <1>1, Taken DEF World
<1>4. Advances(n)
  <2>1. Becomes(n) /\ down' = Tail(down) /\ UNCHANGED <<server, budget>>
    BY DEF Receive
  <2>2. /\ DOMAIN budget = {"loss", "late", "calls"}
        /\ budget.loss \in Nat /\ budget.late \in Nat
    BY <1>1 DEF World
  <2> HIDE DEF n, r
  <2> QED BY <1>3, <2>1, <2>2 DEF Becomes, Advances
<1>5. /\ r.session = c.session /\ r.req \in {"CreateFile", "WriteFile"}
      /\ r.req = "WriteFile" => r.offset \in Offsets(c)
      /\ server.open.session # c.session => c.write_list = 0 .. c.write_total - 1 /\ ~r.ack
      /\ server.open.session = c.session =>
          /\ server.written \subseteq Offsets(c)
          /\ \A b \in 0 .. c.write_total - 1 :
                b \notin c.write_list => b * write_size \in server.written
          /\ r.req = "WriteFile" /\ r.ack => r.offset \in server.written
  BY <1>3 DEF Putting
<1> HIDE DEF q, r
<1>6. \A x \in Fields \ {"quiet"} : q[x] = c[x]
  BY <1>2 DEF Same
<1>7. /\ q.ret = c.ret /\ q.last_send = c.last_send /\ q.last_burst_read = c.last_burst_read
      /\ q.read_gap_times = c.read_gap_times /\ q.write_recv_idx = c.write_recv_idx
      /\ q.write_list = c.write_list /\ q.write_pending = c.write_pending
      /\ q.write_last_send = c.write_last_send /\ q.write_total = c.write_total /\ q.session = c.session
      /\ q.requested_offset = c.requested_offset
  BY <1>6 DEF Fields
<1>8. /\ c.ret # "RemoteReplyTimeout" /\ c.last_send \in Nat /\ c.last_burst_read = -1
      /\ c.read_gap_times = <<>> /\ c.write_recv_idx \in Int /\ c.write_pending \in 0 .. write_qsize
      /\ c.write_last_send \in {-1, 0, 1} /\ (c.write_last_send = -1 => c.write_pending = 0)
  BY <1>1 DEF Formed, Puts, NoGaps
<1>9. /\ Formed(q) /\ Puts(q) /\ q.out = <<>> /\ OnlyWrites(q) /\ Offsets(q) = Offsets(c)
  <2>1. Same(c, q, PutMarks)
    BY <1>2 DEF Same, PutMarks
  <2>2. /\ q.ret # "RemoteReplyTimeout" /\ q.quiet \in Nat /\ q.last_send \in Nat
        /\ q.last_burst_read = -1 /\ q.read_gap_times = <<>> /\ q.write_recv_idx \in Int
        /\ q.write_list \subseteq c.write_list /\ q.write_pending \in 0 .. write_qsize
        /\ q.write_last_send \in {-1, 0, 1} /\ (q.write_last_send = -1 => q.write_pending = 0)
    BY <1>2, <1>7, <1>8
  <2> QED BY <1>1, <2>1, <2>2, StillPuts
<1>10. Open(q)
  BY <1>9, PutsOpen
<1>11. ASSUME NEW ret, ret # "RemoteReplyTimeout", m = __terminate_session([q EXCEPT !.ret = ret])
       PROVE  IInv'
  <2> DEFINE k == [q EXCEPT !.ret = ret]
  <2>1. Same(q, k, {"ret"}) /\ k.ret = ret
    BY <1>1, <1>2 DEF Same, Fields
  <2> HIDE DEF k
  <2>2. \A x \in Fields \ {"ret"} : k[x] = q[x]
    BY <2>1 DEF Same
  <2>3. /\ k.quiet = q.quiet /\ k.last_send = q.last_send /\ k.last_burst_read = q.last_burst_read
        /\ k.read_gap_times = q.read_gap_times /\ k.write_recv_idx = q.write_recv_idx
        /\ k.write_list = q.write_list /\ k.write_pending = q.write_pending
        /\ k.write_last_send = q.write_last_send
    BY <2>2 DEF Fields
  <2>4. Same(q, k, PutMarks)
    BY <2>1 DEF Same, PutMarks
  <2>5. /\ Formed(k) /\ Puts(k) /\ OnlyWrites(k) /\ k.session = q.session
        /\ k.requested_offset = q.requested_offset
    BY <1>2, <1>7, <1>8, <1>9, <1>11, <2>1, <2>3, <2>4, StillPuts
  <2>6. Over(k, m) /\ PutWhole(m)
    BY <1>11, <2>5, PutFails DEF k
  <2> HIDE DEF m
  <2>7. n = m
    BY <2>6 DEF Over
  <2>8. Over(c, m) /\ m.session = c.session
    BY <1>1, <1>7, <2>5, <2>6 DEF Over, Puts
  <2>9. Advances(m)
    BY <1>4, <2>7
  <2> QED BY <1>1, <2>6, <2>8, <2>9, ToEnding
<1>12. CASE r.req = "CreateFile"
  <2>1. m = __handle_create_file_reply(q, r)
    BY <1>5, <1>7, <1>12 DEF __mavlink_packet, Handled
  <2>2. CASE r.ack
    <3> DEFINE k == [q EXCEPT !.ret = "Success"]
    <3>1. m = __send_more_writes(k)
      BY <1>10, <2>1, <2>2 DEF __handle_create_file_reply
    <3>2. Same(q, k, {"ret"}) /\ k.ret = "Success"
      BY <1>1, <1>2 DEF Same, Fields
    <3> HIDE DEF k, m
    <3>3. \A x \in Fields \ {"ret"} : k[x] = q[x]
      BY <3>2 DEF Same
    <3>4. /\ k.quiet = q.quiet /\ k.last_send = q.last_send /\ k.last_burst_read = q.last_burst_read
          /\ k.read_gap_times = q.read_gap_times /\ k.write_recv_idx = q.write_recv_idx
          /\ k.write_list = q.write_list /\ k.write_pending = q.write_pending
          /\ k.write_last_send = q.write_last_send
      BY <3>3 DEF Fields
    <3>5. Same(q, k, PutMarks)
      BY <3>2 DEF Same, PutMarks
    <3>6. /\ Formed(k) /\ Puts(k) /\ k.out = <<>> /\ OnlyWrites(k) /\ k.session = q.session
          /\ k.requested_offset = q.requested_offset /\ k.write_total = q.write_total
          /\ Offsets(k) = Offsets(q)
      BY <1>2, <1>7, <1>8, <1>9, <3>2, <3>4, <3>5, StillPuts
    <3>7. Holds(k) /\ k.last_send < IdleTime
      BY <1>1, <1>5, <1>7, <1>9, <3>4, <3>6 DEF Holds
    <3> QED BY <1>4, <1>7, <3>1, <3>6, <3>7, PuttingHandled
  <2>3. CASE ~r.ack
    <3> DEFINE ret == __decode_ftp_ack_and_nack(r)
    <3>1. m = __terminate_session([q EXCEPT !.ret = ret])
      BY <1>10, <2>1, <2>3 DEF __handle_create_file_reply
    <3>2. ret # "RemoteReplyTimeout"
      BY DecodedNot DEF __decode_ftp_ack_and_nack
    <3> HIDE DEF ret
    <3> QED BY <1>11, <3>1, <3>2
  <2> QED BY <2>2, <2>3
<1>13. CASE r.req = "WriteFile"
  <2>1. m = __handle_write_reply(q, r)
    BY <1>5, <1>7, <1>13 DEF __mavlink_packet, Handled
  <2>2. CASE r.ack
    <3> DEFINE idx == r.offset \div write_size
               count == (idx - q.write_recv_idx) % q.write_total
               k == [q EXCEPT !.write_pending = IF @ > count THEN @ - count ELSE 0,
                              !.write_recv_idx = idx, !.write_list = @ \ {idx}, !.ret = "Success"]
    <3>1. m = __send_more_writes(k)
      BY <1>10, <2>1, <2>2 DEF __handle_write_reply
    <3>2. PICK b \in 0 .. c.write_total - 1 : r.offset = b * write_size
      BY <1>5, <1>13 DEF Offsets
    <3>3. c.write_total \in Nat /\ c.write_total # 0 /\ b \in Nat /\ write_size \in Nat \ {0}
          /\ write_qsize \in Nat
      <4>1. c.write_total \in Nat
        BY <1>1, BlocksOf DEF Puts
      <4> QED BY <3>2, <4>1, Settings
    <3>4. idx = b
      BY <3>2, <3>3, Divided
    <3>5. count \in Nat
      <4>1. idx - q.write_recv_idx \in Int /\ q.write_total \in Nat \ {0}
        BY <1>7, <1>8, <3>3, <3>4
      <4> HIDE DEF idx
      <4> QED BY <4>1
    <3> HIDE DEF idx, count
    <3>6. /\ Same(q, k, {"ret", "write_pending", "write_recv_idx", "write_list"}) /\ k.ret = "Success"
          /\ k.write_pending = (IF q.write_pending > count THEN q.write_pending - count ELSE 0)
          /\ k.write_recv_idx = idx /\ k.write_list = q.write_list \ {idx}
      BY <1>1, <1>2 DEF Same, Fields
    <3> HIDE DEF k, m
    <3>7. \A x \in Fields \ {"ret", "write_pending", "write_recv_idx", "write_list"} : k[x] = q[x]
      BY <3>6 DEF Same
    <3>8. /\ k.quiet = q.quiet /\ k.last_send = q.last_send /\ k.last_burst_read = q.last_burst_read
          /\ k.read_gap_times = q.read_gap_times /\ k.write_last_send = q.write_last_send
      BY <3>7 DEF Fields
    <3>9. Same(q, k, PutMarks)
      BY <3>6 DEF Same, PutMarks
    <3>10. k.write_pending \in 0 .. write_qsize /\ (k.write_last_send = -1 => k.write_pending = 0)
           /\ k.write_recv_idx \in Int
      BY <1>7, <1>8, <3>3, <3>4, <3>5, <3>6, <3>8
    <3>11. /\ Formed(k) /\ Puts(k) /\ k.out = <<>> /\ OnlyWrites(k) /\ k.session = q.session
           /\ k.requested_offset = q.requested_offset /\ k.write_total = q.write_total
           /\ Offsets(k) = Offsets(q)
      BY <1>2, <1>7, <1>8, <1>9, <3>6, <3>8, <3>9, <3>10, StillPuts
    <3>12. server.open.session = c.session /\ r.offset \in server.written
      BY <1>5, <1>13, <2>2
    <3>13. Holds(k)
      BY <1>5, <1>7, <1>9, <3>2, <3>4, <3>6, <3>11, <3>12 DEF Holds
    <3>14. k.last_send < IdleTime
      BY <1>1, <1>7, <3>8
    <3> QED BY <1>4, <1>7, <3>1, <3>11, <3>13, <3>14, PuttingHandled
  <2>3. CASE ~r.ack
    <3>1. m = __terminate_session([q EXCEPT !.ret = "FileProtected"])
      BY <1>10, <2>1, <2>3 DEF __handle_write_reply
    <3> HIDE DEF m
    <3> QED BY <1>11, <3>1
  <2> QED BY <2>2, <2>3
<1> QED BY <1>5, <1>12, <1>13

LEMMA PuttingWaits ==
    ASSUME FtpAssumption, IInv, Putting, NoPacket
    PROVE  IInv'
<1>1. /\ World /\ Formed(c) /\ Puts(c) /\ c.out = <<>> /\ DOMAIN c = Fields
      /\ IdleTime \in Nat \ {0} /\ c.last_send < IdleTime
      /\ c.last_send \in Nat /\ c.quiet \in Nat /\ c.ret # "RemoteReplyTimeout"
      /\ c.last_burst_read = -1 /\ c.read_gap_times = <<>>
      /\ c.write_recv_idx \in Int /\ c.write_pending \in 0 .. write_qsize
      /\ c.write_last_send \in {-1, 0, 1} /\ (c.write_last_send = -1 => c.write_pending = 0)
  BY Settings DEF IInv, Putting, Formed, Puts, NoGaps
<1>2. PICK late \in BOOLEAN :
        /\ budget' = [budget EXCEPT !.late = IF late /\
             ~(up = <<>> /\ down = <<>>) THEN @ - 1 ELSE @]
        /\ late /\ ~(up = <<>> /\ down = <<>>) => c.last_send + 1 < IdleTime /\ budget.late > 0
        /\ Becomes(Turn(IF late THEN Later(c) ELSE [c EXCEPT !.too_fast = FALSE]))
  BY DEF NoPacket
<1> DEFINE m == IF late THEN Later(c) ELSE [c EXCEPT !.too_fast = FALSE]
           n == Turn(m)
<1>3. /\ Same(c, m, PutMarks) /\ m.ret # "RemoteReplyTimeout" /\ m.quiet \in Nat /\ m.last_send \in Nat
      /\ m.last_burst_read = -1 /\ m.read_gap_times = <<>>
      /\ m.write_recv_idx = c.write_recv_idx /\ m.write_list = c.write_list
      /\ m.write_pending = c.write_pending /\ m.write_last_send \in {-1, 0, 1}
      /\ (m.write_last_send = -1 => c.write_last_send = -1)
      /\ m.last_send < IdleTime \/ m.write_last_send # 0
  <2>1. CASE late
    <3>1. m = Later(c)
      BY <2>1
    <3> HIDE DEF m
    <3>2. /\ Same(c, m, Marks \ {"ret", "burst_size", "backlog"})
          /\ m.last_send = Aged(c.last_send, IdleTime)
          /\ m.last_burst_read = Aged(c.last_burst_read, RetryTime)
          /\ m.quiet = Aged(c.quiet, IdleTime + 1)
          /\ m.write_last_send = Aged(c.write_last_send, 1)
          /\ m.read_gap_times = [g \in DOMAIN c.read_gap_times |->
                 IF c.read_gap_times[g] = 0 THEN 0 ELSE Aged(c.read_gap_times[g], RetryTime + 1)]
      BY <1>1, <3>1, LaterIs
    <3>3. \A x \in Fields \ Marks : m[x] = c[x]
      BY <3>2 DEF Same
    <3>4. m.ret = c.ret /\ m.burst_size = c.burst_size /\ m.backlog = c.backlog
      BY <3>2 DEF Same, Fields, Marks
    <3>5. Same(c, m, PutMarks)
      BY <3>2, <3>3, <3>4 DEF Same, Marks, PutMarks, Fields
    <3>6. m.last_send = c.last_send + 1 /\ m.quiet \in Nat /\ m.last_burst_read = -1
          /\ m.write_last_send = (IF c.write_last_send = -1 THEN -1 ELSE 1)
      BY <1>1, <3>2 DEF Aged
    <3>7. m.read_gap_times = <<>>
      <4>1. DOMAIN m.read_gap_times = {}
        BY <1>1, <3>2
      <4>2. m.read_gap_times = [g \in {} |->
                 IF c.read_gap_times[g] = 0 THEN 0 ELSE Aged(c.read_gap_times[g], RetryTime + 1)]
        BY <1>1, <3>2
      <4> QED BY <4>1, <4>2
    <3>8. m.write_recv_idx = c.write_recv_idx /\ m.write_list = c.write_list
          /\ m.write_pending = c.write_pending
      BY <3>3 DEF Fields, Marks
    <3> QED BY <1>1, <3>4, <3>5, <3>6, <3>7, <3>8
  <2>2. CASE ~late
    <3>1. m = [c EXCEPT !.too_fast = FALSE]
      BY <2>2
    <3>2. Same(c, m, {"too_fast"})
      BY <1>1, <3>1 DEF Same, Fields
    <3> HIDE DEF m
    <3>3. \A x \in Fields \ {"too_fast"} : m[x] = c[x]
      BY <3>2 DEF Same
    <3>4. /\ m.last_send = c.last_send /\ m.last_burst_read = c.last_burst_read
          /\ m.ret = c.ret /\ m.read_gap_times = c.read_gap_times /\ m.quiet = c.quiet
          /\ m.write_recv_idx = c.write_recv_idx /\ m.write_list = c.write_list
          /\ m.write_pending = c.write_pending /\ m.write_last_send = c.write_last_send
      BY <3>3 DEF Fields
    <3>5. Same(c, m, PutMarks)
      BY <3>2 DEF Same, PutMarks
    <3> QED BY <1>1, <3>4, <3>5
  <2> QED BY <2>1, <2>2
<1>4. Advances(n)
  <2>1. Becomes(n) /\ down' = down /\ server' = server
    BY <1>2 DEF NoPacket
  <2>2. /\ DOMAIN budget' = {"loss", "late", "calls"} /\ budget'.calls = budget.calls
        /\ budget'.loss \in Nat /\ budget'.late \in Nat
    <3>1. CASE late /\ ~(up = <<>> /\ down = <<>>)
      BY <1>1, <1>2, <3>1 DEF World
    <3>2. CASE ~(late /\ ~(up = <<>> /\ down = <<>>))
      BY <1>1, <1>2, <3>2 DEF World
    <3> QED BY <3>1, <3>2
  <2> HIDE DEF n
  <2> QED BY <1>1, <2>1, <2>2 DEF Becomes, Advances, World
<1> HIDE DEF m
<1>5. /\ Formed(m) /\ Puts(m) /\ m.out = <<>> /\ OnlyWrites(m)
      /\ m.session = c.session /\ m.write_total = c.write_total
      /\ m.requested_offset = c.requested_offset /\ Offsets(m) = Offsets(c)
  BY <1>1, <1>3, StillPuts
<1>6. Holds(m)
  BY <1>3, <1>5 DEF Holds, Putting
<1>7. CASE m.write_list = {}
  <2>1. n = __send_more_writes(m)
    BY <1>5, <1>7, TurnPutEnds
  <2> HIDE DEF n
  <2> QED BY <1>4, <1>5, <1>6, <1>7, <2>1, PuttingEnds
<1>8. CASE m.write_list # {}
  <2>1. /\ Formed(n) /\ Puts(n) /\ OnlyWrites(n) /\ Same(m, n, PutSends) /\ n.last_send < IdleTime
    BY <1>3, <1>5, <1>8, TurnPutting
  <2> HIDE DEF n
  <2>2. /\ n.session = m.session /\ n.write_total = m.write_total /\ n.write_list = m.write_list
    BY <2>1 DEF Same, Fields, PutSends
  <2>3. Holds(n)
    BY <1>6, <2>2 DEF Holds, Offsets
  <2> QED BY <1>4, <1>5, <2>1, <2>2, <2>3, ToPutting
<1> QED BY <1>7, <1>8

(* --------------------------- listings and requests -------------------------- *)
\* When nothing is transferred a turn only ends the loop.
LEMMA TurnCleared ==
    ASSUME FtpAssumption, NEW m, Cleared(m), m.last_op.opcode # "OpenFileRO"
    PROVE  Turn(m) = IF m.pc = "reply" /\ LoopEnds(m) THEN [m EXCEPT !.pc = "ready"] ELSE m
<1>1. NothingPending(m)
  BY DEF NothingPending, Cleared, NoGaps
<1>2. __idle_task(m) = m
  BY <1>1 DEF __idle_task
<1> QED BY <1>2 DEF Turn

\* One of these stays as it is, or its loop ends.
LEMMA ReadyOr ==
    ASSUME FtpAssumption, NEW m, Formed(m), Cleared(m), m.last_op.opcode # "OpenFileRO", m.pc = "reply",
           NEW n, n = Turn(m)
    PROVE  \/ n = m /\ ~LoopEnds(m)
           \/ /\ LoopEnds(m) /\ Same(m, n, {"pc"}) /\ n.pc = "ready" /\ Formed(n) /\ Cleared(n)
              /\ n.ret # "RemoteReplyTimeout" /\ n.session = m.session /\ n.out = m.out /\ n.call = m.call
              /\ n.told = m.told /\ n.done = m.done
<1>1. n = IF m.pc = "reply" /\ LoopEnds(m) THEN [m EXCEPT !.pc = "ready"] ELSE m
  BY TurnCleared
<1>2. CASE LoopEnds(m)
  <2>1. n = [m EXCEPT !.pc = "ready"]
    BY <1>1, <1>2
  <2>2. Same(m, n, {"pc"}) /\ n.pc = "ready"
    BY <2>1 DEF Same, Fields, Formed
  <2>3. \A x \in Fields \ {"pc"} : n[x] = m[x]
    BY <2>2 DEF Same
  <2>4. Formed(n)
    BY <2>2, <2>3 DEF Formed, Same, Fields
  <2>5. Cleared(n)
    BY <2>3 DEF Cleared, NoGaps, Fields
  <2>6. /\ n.ret = m.ret /\ n.session = m.session /\ n.out = m.out /\ n.call = m.call
        /\ n.told = m.told /\ n.done = m.done
    BY <2>3 DEF Fields
  <2>7. m.ret # "RemoteReplyTimeout"
    BY DEF Formed
  <2> QED BY <1>2, <2>2, <2>4, <2>5, <2>6, <2>7
<1>3. CASE ~LoopEnds(m)
  BY <1>1, <1>3
<1> QED BY <1>2, <1>3

\* The next state is one in which a call is over.
LEMMA ToReady ==
    ASSUME FtpAssumption, World, c.session \in Nat, NEW n, Formed(n), n.out = <<>>, n.session = c.session,
           Advances(n), n.pc = "ready", Cleared(n), n.ret # "RemoteReplyTimeout", n.told = <<>> \/ NothingTold(n),
           n.call # "put", n.session + 1 <= Limit,
           (n.call = "read" /\ ~n.done) \/ (up = <<>> /\ down' = <<>> /\ server.open.session < c.session)
    PROVE  IInv'
<1>1. /\ Formed(c)' /\ c'.out = <<>> /\ World' /\ Same(n, c', {"out"}) /\ Limit' = Limit
      /\ ToSet(up') = ToSet(up) \union ToSet(n.out)
  <2>1. Known(n)
    BY OneElement DEF Known
  <2> QED BY <2>1, Advanced
<1>2. \A x \in Fields \ {"out"} : c'[x] = n[x]
  BY <1>1 DEF Same
<1>3. /\ c'.session = n.session /\ c'.pc = n.pc /\ c'.ret = n.ret /\ c'.told = n.told
      /\ c'.call = n.call /\ c'.done = n.done /\ c'.list_result = n.list_result
  BY <1>2 DEF Fields
<1>4. Cleared(c')
  BY <1>2 DEF Cleared, NoGaps, Fields
<1>5. TransfersWhole'
  BY <1>3 DEF TransfersWhole, Told, Formed, NothingTold
<1>6. Ready'
  <2>1. c'.session + 1 <= Limit' /\ c'.session \in Nat /\ Limit' \in Int
    <3>1. Limit \in 0 .. 253
      BY LimitIs
    <3> QED BY <1>1, <1>3, <3>1
  <2>2. LeftOpen' => NothingTold(c')
    BY <1>3 DEF NothingTold
  <2>3. LeftOpen' <=> (n.call = "read" /\ ~n.done)
    BY <1>3 DEF LeftOpen
  <2>4. ~LeftOpen' => NoLink' /\ server'.open.session < c'.session
    <3> SUFFICES ASSUME ~LeftOpen' PROVE NoLink' /\ server'.open.session < c'.session
      OBVIOUS
    <3>1. up = <<>> /\ down' = <<>> /\ server.open.session < c.session
      BY <2>3
    <3>2. up' = <<>>
      <4>1. Sequential(up') /\ ToSet(up') = {}
        BY <1>1, <3>1, OneElement DEF World
      <4> QED BY <4>1, NoElement
    <3> QED BY <1>3, <3>1, <3>2 DEF NoLink, Advances
  <2> QED BY <1>3, <1>4, <2>1, <2>2, <2>4 DEF Ready
<1> QED BY <1>1, <1>5, <1>6 DEF IInv, Phase

\* The next state is one of a listing.
LEMMA ToListing ==
    ASSUME FtpAssumption, World, c.session \in Nat, server.open.session < c.session,
           NEW n, Formed(n), Known(n), Lists(n), n.session = c.session,
           n.session + 1 <= Limit, Advances(n),
           (up' = <<>> /\ down' = <<>>) \/ n.last_send < IdleTime,
           \/ up' = <<n.last_op>> /\ down' = <<>>
           \/ /\ up' = <<>> /\ down' # <<>> /\ Len(down') = 1
              /\ down'[1].req = "ListDirectory" /\ down'[1].session = n.session
              /\ IF down'[1].ack THEN /\ n.dir_offset < Len(Directory)
                                      /\ down'[1].names = <<Directory[n.dir_offset + 1]>>
                 ELSE down'[1].payload = EndOfFile /\ n.dir_offset = Len(Directory)
           \/ up' = <<>> /\ down' = <<>>
    PROVE  IInv'
<1>1. /\ Formed(c)' /\ c'.out = <<>> /\ World' /\ Same(n, c', {"out"}) /\ Limit' = Limit
      /\ server' = server
  <2>1. Formed(c)' /\ c'.out = <<>> /\ World' /\ Same(n, c', {"out"}) /\ Limit' = Limit
    BY Advanced
  <2> QED BY <2>1 DEF Advances
<1>2. \A x \in Fields \ {"out"} : c'[x] = n[x]
  BY <1>1 DEF Same
<1>3. /\ c'.session = n.session /\ c'.last_send = n.last_send /\ c'.dir_offset = n.dir_offset
      /\ c'.last_op = n.last_op /\ c'.told = n.told /\ c'.list_result = n.list_result
      /\ c'.pc = n.pc /\ c'.call = n.call /\ c'.list_temp_result = n.list_temp_result
  BY <1>2 DEF Fields
<1>4. Cleared(c')
  <2>1. Cleared(n)
    BY DEF Lists
  <2> QED BY <1>2, <2>1 DEF Cleared, NoGaps, Fields
<1>5. Lists(c')
  BY <1>3, <1>4 DEF Lists
<1>6. TransfersWhole'
  BY <1>3 DEF TransfersWhole, Told, Formed, Lists
<1>7. Listing_'
  BY <1>1, <1>3, <1>5 DEF Listing_, LinkAge, NoLink
<1> QED BY <1>1, <1>6, <1>7 DEF IInv, Phase

\* The next state is one of a single request.
LEMMA ToRequesting ==
    ASSUME FtpAssumption, World, c.session \in Nat, server.open.session < c.session,
           NEW n, Formed(n), n.out = <<>>, Requests(n), n.session = c.session,
           n.session + 1 <= Limit, Advances(n),
           (up' = <<>> /\ down' = <<>>) \/ n.last_send < IdleTime,
           \A op \in ToSet(up) : op.opcode \in Simple,
           \A r \in ToSet(down') : r.req \in Simple
    PROVE  IInv'
<1>1. /\ Formed(c)' /\ c'.out = <<>> /\ World' /\ Same(n, c', {"out"}) /\ Limit' = Limit
      /\ server' = server /\ ToSet(up') = ToSet(up) \union ToSet(n.out)
  <2>1. Known(n)
    BY OneElement DEF Known
  <2>2. /\ Formed(c)' /\ c'.out = <<>> /\ World' /\ Same(n, c', {"out"})
        /\ ToSet(up') = ToSet(up) \union ToSet(n.out) /\ Limit' = Limit
    BY <2>1, Advanced
  <2> QED BY <2>2 DEF Advances
<1>2. \A x \in Fields \ {"out"} : c'[x] = n[x]
  BY <1>1 DEF Same
<1>3. /\ c'.session = n.session /\ c'.last_send = n.last_send
      /\ c'.last_op = n.last_op /\ c'.told = n.told /\ c'.list_result = n.list_result
      /\ c'.pc = n.pc /\ c'.call = n.call
  BY <1>2 DEF Fields
<1>4. Cleared(c')
  <2>1. Cleared(n)
    BY DEF Requests
  <2> QED BY <1>2, <2>1 DEF Cleared, NoGaps, Fields
<1>5. Requests(c')
  BY <1>3, <1>4 DEF Requests
<1>6. TransfersWhole'
  BY <1>3 DEF TransfersWhole, Told, Formed, Requests
<1>7. \A op \in ToSet(up') : op.opcode \in Simple
  BY <1>1, OneElement
<1>8. Requesting'
  BY <1>1, <1>3, <1>5, <1>7 DEF Requesting, LinkAge, NoLink
<1> QED BY <1>1, <1>6, <1>8 DEF IInv, Phase

\* What has been listed grows by a name.
LEMMA OneMore ==
    ASSUME FtpAssumption, NEW k \in 0 .. Len(Directory) - 1
    PROVE  SubSeq(Directory, 1, k) \o <<Directory[k + 1]>> = SubSeq(Directory, 1, k + 1)
<1>1. Directory \in Seq(ToSet(Directory)) /\ Len(Directory) \in Nat
  BY DEF FtpAssumption
<1> DEFINE S == ToSet(Directory)
           a == SubSeq(Directory, 1, k)
           b == SubSeq(Directory, 1, k + 1)
           e == Directory[k + 1]
<1>2. /\ a \in Seq(S) /\ Len(a) = k /\ \A i \in 1 .. k : a[i] = Directory[i]
      /\ b \in Seq(S) /\ Len(b) = k + 1 /\ \A i \in 1 .. k + 1 : b[i] = Directory[i]
      /\ e \in S
  <2> HIDE DEF S
  <2> QED BY <1>1 DEF S
<1> HIDE DEF S
<1> DEFINE one == <<e>>
           u == a \o one
<1>3. one \in Seq(S) /\ Len(one) = 1 /\ one[1] = e
  BY <1>2
<1> HIDE DEF a, b, one
<1>4. u \in Seq(S) /\ Len(u) = Len(a) + Len(one)
      /\ \A i \in 1 .. Len(a) + Len(one) : u[i] = IF i <= Len(a) THEN a[i] ELSE one[i - Len(a)]
  BY <1>2, <1>3, ConcatProperties
<1> HIDE DEF u
<1>5. \A i \in 1 .. k + 1 : u[i] = b[i]
  <2> TAKE i \in 1 .. k + 1
  <2>1. CASE i <= k
    BY <1>2, <1>3, <1>4, <2>1, SMTT(60)
  <2>2. CASE i = k + 1
    <3>1. ~(k + 1 <= k) /\ k + 1 - k = 1 /\ k + 1 \in 1 .. k + 1
      OBVIOUS
    <3> QED BY <1>2, <1>3, <1>4, <2>2, <3>1
  <2> QED BY <2>1, <2>2
<1>6. u = b
  BY <1>2, <1>3, <1>4, <1>5, SeqEqual
<1> QED BY <1>6 DEF u, a, b, one

\* Only marks of time and of the last result differ.
LEMMA StillCleared ==
    ASSUME NEW m, Formed(m), m.out = <<>>, NEW n, Same(m, n, AskMarks), n.ret # "RemoteReplyTimeout",
           n.quiet \in Nat, n.last_send \in Nat, n.last_burst_read = -1, n.read_gap_times = <<>>
    PROVE  /\ Formed(n) /\ n.out = <<>> /\ n.session = m.session /\ n.call = m.call
           /\ n.last_op = m.last_op /\ n.told = m.told /\ n.done = m.done /\ n.dir_offset = m.dir_offset
           /\ n.list_temp_result = m.list_temp_result /\ n.pc = m.pc
           /\ Cleared(m) => Cleared(n)
           /\ Lists(m) => Lists(n)
           /\ Requests(m) => Requests(n)
           /\ Failed(m) => Failed(n)
<1>1. \A x \in Fields \ AskMarks : n[x] = m[x]
  BY DEF Same
<1>2. Formed(n)
  BY <1>1 DEF Formed, Same, Fields, AskMarks
<1>3. /\ n.out = m.out /\ n.session = m.session /\ n.call = m.call
      /\ n.last_op = m.last_op /\ n.told = m.told /\ n.done = m.done /\ n.dir_offset = m.dir_offset
      /\ n.list_temp_result = m.list_temp_result /\ n.pc = m.pc
      /\ n.fh = m.fh /\ n.write_list = m.write_list /\ n.callback = m.callback
      /\ n.put_callback = m.put_callback /\ n.read_gaps = m.read_gaps
      /\ n.read_total = m.read_total /\ n.reached_eof = m.reached_eof
  BY <1>1 DEF Fields, AskMarks
<1>4. Cleared(m) => Cleared(n)
  BY <1>3 DEF Cleared, NoGaps
<1>5. Lists(m) => Lists(n)
  BY <1>3, <1>4 DEF Lists
<1>6. Requests(m) => Requests(n)
  BY <1>3, <1>4 DEF Requests
<1>7. Failed(m) => Failed(n)
  BY <1>3, <1>4 DEF Failed, NothingTold
<1> QED BY <1>2, <1>3, <1>4, <1>5, <1>6, <1>7

\* What a client is when nothing has come.
LEMMA NothingHeard ==
    ASSUME FtpAssumption, IInv, Cleared(c), c.ret # "RemoteReplyTimeout", LinkAge, NoPacket
    PROVE  \E m : /\ Advances(Turn(m)) /\ down' = down /\ Same(c, m, AskMarks) /\ m.ret = c.ret
                  /\ m.quiet \in Nat /\ m.last_send \in Nat /\ m.last_burst_read = -1
                  /\ m.read_gap_times = <<>> /\ (NoLink \/ m.last_send < IdleTime)
<1>1. /\ World /\ Formed(c) /\ DOMAIN c = Fields /\ IdleTime \in Nat \ {0} /\ c.last_send \in Nat
      /\ c.quiet \in Nat /\ c.last_burst_read = -1 /\ c.read_gap_times = <<>>
  BY Settings DEF IInv, Formed, Cleared, NoGaps
<1>2. PICK late \in BOOLEAN :
        /\ budget' = [budget EXCEPT !.late = IF late /\
             ~(up = <<>> /\ down = <<>>) THEN @ - 1 ELSE @]
        /\ late /\ ~(up = <<>> /\ down = <<>>) => c.last_send + 1 < IdleTime /\ budget.late > 0
        /\ Becomes(Turn(IF late THEN Later(c) ELSE [c EXCEPT !.too_fast = FALSE]))
  BY DEF NoPacket
<1> DEFINE m == IF late THEN Later(c) ELSE [c EXCEPT !.too_fast = FALSE]
           n == Turn(m)
<1>3. /\ Same(c, m, AskMarks) /\ m.ret = c.ret /\ m.quiet \in Nat /\ m.last_send \in Nat
      /\ m.last_burst_read = -1 /\ m.read_gap_times = <<>> /\ (NoLink \/ m.last_send < IdleTime)
  <2>1. CASE late
    <3>1. m = Later(c)
      BY <2>1
    <3> HIDE DEF m
    <3>2. /\ Same(c, m, Marks \ {"ret", "burst_size", "backlog"})
          /\ m.last_send = Aged(c.last_send, IdleTime)
          /\ m.last_burst_read = Aged(c.last_burst_read, RetryTime)
          /\ m.quiet = Aged(c.quiet, IdleTime + 1)
          /\ m.read_gap_times = [g \in DOMAIN c.read_gap_times |->
                 IF c.read_gap_times[g] = 0 THEN 0 ELSE Aged(c.read_gap_times[g], RetryTime + 1)]
      BY <1>1, <3>1, LaterIs
    <3>3. \A x \in Fields \ Marks : m[x] = c[x]
      BY <3>2 DEF Same
    <3>4. m.ret = c.ret /\ m.burst_size = c.burst_size /\ m.backlog = c.backlog
      BY <3>2 DEF Same, Fields, Marks
    <3>5. Same(c, m, AskMarks)
      BY <3>2, <3>3, <3>4 DEF Same, Marks, AskMarks, Fields
    <3>6. m.last_send \in Nat /\ m.last_send <= c.last_send + 1 /\ m.quiet \in Nat /\ m.last_burst_read = -1
      BY <1>1, <3>2 DEF Aged
    <3>7. m.read_gap_times = <<>>
      <4>1. DOMAIN m.read_gap_times = {}
        BY <1>1, <3>2
      <4>2. m.read_gap_times = [g \in {} |->
                 IF c.read_gap_times[g] = 0 THEN 0 ELSE Aged(c.read_gap_times[g], RetryTime + 1)]
        BY <1>1, <3>2
      <4> QED BY <4>1, <4>2
    <3>8. NoLink \/ m.last_send < IdleTime
      BY <1>1, <1>2, <2>1, <3>6 DEF NoLink
    <3> QED BY <3>4, <3>5, <3>6, <3>7, <3>8
  <2>2. CASE ~late
    <3>1. m = [c EXCEPT !.too_fast = FALSE]
      BY <2>2
    <3>2. Same(c, m, {"too_fast"})
      BY <1>1, <3>1 DEF Same, Fields
    <3> HIDE DEF m
    <3>3. \A x \in Fields \ {"too_fast"} : m[x] = c[x]
      BY <3>2 DEF Same
    <3>4. /\ m.last_send = c.last_send /\ m.last_burst_read = c.last_burst_read
          /\ m.ret = c.ret /\ m.read_gap_times = c.read_gap_times /\ m.quiet = c.quiet
      BY <3>3 DEF Fields
    <3>5. Same(c, m, AskMarks)
      BY <3>2 DEF Same, AskMarks
    <3> QED BY <1>1, <3>4, <3>5 DEF LinkAge
  <2> QED BY <2>1, <2>2
<1>4. Advances(n) /\ down' = down
  <2>1. Becomes(n) /\ down' = down /\ server' = server
    BY <1>2 DEF NoPacket
  <2>2. /\ DOMAIN budget' = {"loss", "late", "calls"} /\ budget'.calls = budget.calls
        /\ budget'.loss \in Nat /\ budget'.late \in Nat
    <3>1. CASE late /\ ~(up = <<>> /\ down = <<>>)
      BY <1>1, <1>2, <3>1 DEF World
    <3>2. CASE ~(late /\ ~(up = <<>> /\ down = <<>>))
      BY <1>1, <1>2, <3>2 DEF World
    <3> QED BY <3>1, <3>2
  <2> HIDE DEF n
  <2> QED BY <1>1, <2>1, <2>2 DEF Becomes, Advances, World
<1> HIDE DEF m
<1> QED BY <1>3, <1>4

\* The link after a step of a client that sends nothing.
LEMMA NothingSent ==
    ASSUME World, NEW n, Advances(n), n.out = <<>>
    PROVE  up' = up
<1>1. up' = up \o <<>> /\ Sequential(up)
  BY DEF Advances, World
<1> QED BY <1>1 DEF Sequential

\* Listings, single requests and failed reads keep the invariant when no packet is there.
LEMMA ListingWaits ==
    ASSUME FtpAssumption, IInv, Listing_, NoPacket
    PROVE  IInv'
<1>1. /\ World /\ Formed(c) /\ Lists(c) /\ Cleared(c) /\ c.session \in Nat /\ c.out = <<>>
      /\ c.ret # "RemoteReplyTimeout" /\ LinkAge /\ c.call = "list" /\ c.told = <<>> /\ c.pc = "reply"
      /\ c.last_op.opcode = "ListDirectory"
  BY DEF IInv, Listing_, Lists, Formed, Op
<1>2. PICK m : /\ Advances(Turn(m)) /\ down' = down /\ Same(c, m, AskMarks) /\ m.ret = c.ret
               /\ m.quiet \in Nat /\ m.last_send \in Nat /\ m.last_burst_read = -1
               /\ m.read_gap_times = <<>> /\ (NoLink \/ m.last_send < IdleTime)
  BY <1>1, NothingHeard
<1>3. /\ Formed(m) /\ m.out = <<>> /\ m.session = c.session /\ m.call = c.call
      /\ m.last_op = c.last_op /\ m.told = c.told /\ m.dir_offset = c.dir_offset
      /\ m.pc = c.pc /\ Cleared(m) /\ Lists(m)
  BY <1>1, <1>2, StillCleared
<1> DEFINE n == Turn(m)
<1>4. \/ n = m /\ ~LoopEnds(m)
      \/ /\ LoopEnds(m) /\ n.pc = "ready" /\ Formed(n) /\ Cleared(n)
         /\ n.ret # "RemoteReplyTimeout" /\ n.session = m.session /\ n.out = m.out /\ n.call = m.call
         /\ n.told = m.told
  BY <1>1, <1>3, ReadyOr
<1>5. Advances(n)
  BY <1>2
<1> HIDE DEF n
<1>6. n.out = <<>>
  BY <1>3, <1>4
<1>7. up' = up
  BY <1>1, <1>5, <1>6, NothingSent
<1>8. CASE n = m
  <2>1. Known(n)
    BY <1>6, OneElement DEF Known
  <2>2. (up' = <<>> /\ down' = <<>>) \/ n.last_send < IdleTime
    BY <1>2, <1>7, <1>8 DEF NoLink
  <2>3. n.session + 1 <= Limit /\ server.open.session < c.session
    BY <1>3, <1>8 DEF Listing_
  <2>4. \/ up' = <<n.last_op>> /\ down' = <<>>
        \/ /\ up' = <<>> /\ down' # <<>> /\ Len(down') = 1
           /\ down'[1].req = "ListDirectory" /\ down'[1].session = n.session
           /\ IF down'[1].ack THEN /\ n.dir_offset < Len(Directory)
                                   /\ down'[1].names = <<Directory[n.dir_offset + 1]>>
              ELSE down'[1].payload = EndOfFile /\ n.dir_offset = Len(Directory)
        \/ up' = <<>> /\ down' = <<>>
    BY <1>2, <1>3, <1>7, <1>8 DEF Listing_, NoLink
  <2> QED BY <1>1, <1>3, <1>5, <1>8, <2>1, <2>2, <2>3, <2>4, ToListing
<1>9. CASE n # m
  <2>1. /\ LoopEnds(m) /\ n.pc = "ready" /\ Formed(n) /\ Cleared(n)
        /\ n.ret # "RemoteReplyTimeout" /\ n.session = c.session /\ n.call = "list" /\ n.told = <<>>
    BY <1>1, <1>3, <1>4, <1>9
  <2>2. up = <<>> /\ down' = <<>>
    <3>1. m.last_send >= IdleTime
      BY <1>1, <1>3, <2>1 DEF LoopEnds, IsIdle
    <3> QED BY <1>2, <3>1, Settings DEF NoLink
  <2>3. n.session + 1 <= Limit /\ server.open.session < c.session
    BY <2>1 DEF Listing_
  <2> QED BY <1>1, <1>5, <1>6, <2>1, <2>2, <2>3, ToReady
<1> QED BY <1>8, <1>9

LEMMA RequestingWaits ==
    ASSUME FtpAssumption, IInv, Requesting, NoPacket
    PROVE  IInv'
<1>1. /\ World /\ Formed(c) /\ Requests(c) /\ Cleared(c) /\ c.session \in Nat /\ c.out = <<>>
      /\ c.ret # "RemoteReplyTimeout" /\ LinkAge /\ c.call \in Simple /\ c.told = <<>> /\ c.pc = "reply"
      /\ c.last_op.opcode \in Simple
  BY DEF IInv, Requesting, Requests, Formed, Op
<1>2. PICK m : /\ Advances(Turn(m)) /\ down' = down /\ Same(c, m, AskMarks) /\ m.ret = c.ret
               /\ m.quiet \in Nat /\ m.last_send \in Nat /\ m.last_burst_read = -1
               /\ m.read_gap_times = <<>> /\ (NoLink \/ m.last_send < IdleTime)
  BY <1>1, NothingHeard
<1>3. /\ Formed(m) /\ m.out = <<>> /\ m.session = c.session /\ m.call = c.call
      /\ m.last_op = c.last_op /\ m.told = c.told
      /\ m.pc = c.pc /\ Cleared(m) /\ Requests(m)
  BY <1>1, <1>2, StillCleared
<1>4. m.last_op.opcode # "OpenFileRO" /\ c.call # "read" /\ c.call # "put"
  BY <1>1, <1>3 DEF Simple
<1> DEFINE n == Turn(m)
<1>5. \/ n = m /\ ~LoopEnds(m)
      \/ /\ LoopEnds(m) /\ n.pc = "ready" /\ Formed(n) /\ Cleared(n)
         /\ n.ret # "RemoteReplyTimeout" /\ n.session = m.session /\ n.out = m.out /\ n.call = m.call
         /\ n.told = m.told
  BY <1>1, <1>3, <1>4, ReadyOr
<1>6. Advances(n)
  BY <1>2
<1> HIDE DEF n
<1>7. n.out = <<>>
  BY <1>3, <1>5
<1>8. up' = up
  BY <1>1, <1>6, <1>7, NothingSent
<1>9. n.session = c.session /\ n.session + 1 <= Limit /\ server.open.session < c.session
  BY <1>3, <1>5 DEF Requesting
<1>10. CASE n = m
  <2>1. (up' = <<>> /\ down' = <<>>) \/ n.last_send < IdleTime
    BY <1>2, <1>8, <1>10 DEF NoLink
  <2>2. /\ \A op \in ToSet(up) : op.opcode \in Simple
        /\ \A r \in ToSet(down') : r.req \in Simple
    BY <1>2 DEF Requesting
  <2> QED BY <1>1, <1>3, <1>6, <1>7, <1>9, <1>10, <2>1, <2>2, ToRequesting
<1>11. CASE n # m
  <2>1. /\ LoopEnds(m) /\ n.pc = "ready" /\ Formed(n) /\ Cleared(n)
        /\ n.ret # "RemoteReplyTimeout" /\ n.call # "put" /\ n.told = <<>>
    BY <1>1, <1>3, <1>4, <1>5, <1>11
  <2>2. up = <<>> /\ down' = <<>>
    <3>1. m.last_send >= IdleTime
      BY <1>3, <1>4, <2>1 DEF LoopEnds, IsIdle
    <3> QED BY <1>2, <3>1, Settings DEF NoLink
  <2> QED BY <1>1, <1>6, <1>7, <1>9, <2>1, <2>2, ToReady
<1> QED BY <1>10, <1>11

LEMMA FailingWaits ==
    ASSUME FtpAssumption, IInv, Failing, NoPacket
    PROVE  IInv'
<1>1. /\ World /\ Formed(c) /\ Failed(c) /\ Cleared(c) /\ c.session \in Nat /\ c.out = <<>>
      /\ c.ret # "RemoteReplyTimeout" /\ LinkAge /\ c.call = "read" /\ NothingTold(c) /\ c.pc = "reply"
      /\ c.last_op.opcode = "TerminateSession" /\ c.done = FALSE /\ NoLink
  BY DEF IInv, Failing, Failed, Formed, LinkAge
<1>2. PICK m : /\ Advances(Turn(m)) /\ down' = down /\ Same(c, m, AskMarks) /\ m.ret = c.ret
               /\ m.quiet \in Nat /\ m.last_send \in Nat /\ m.last_burst_read = -1
               /\ m.read_gap_times = <<>> /\ (NoLink \/ m.last_send < IdleTime)
  BY <1>1, NothingHeard
<1>3. /\ Formed(m) /\ m.out = <<>> /\ m.session = c.session /\ m.call = c.call
      /\ m.last_op = c.last_op /\ m.told = c.told /\ m.done = c.done
      /\ m.pc = c.pc /\ Cleared(m) /\ Failed(m)
  BY <1>1, <1>2, StillCleared
<1> DEFINE n == Turn(m)
<1>4. \/ n = m /\ ~LoopEnds(m)
      \/ /\ LoopEnds(m) /\ n.pc = "ready" /\ Formed(n) /\ Cleared(n)
         /\ n.ret # "RemoteReplyTimeout" /\ n.session = m.session /\ n.out = m.out /\ n.call = m.call
         /\ n.told = m.told /\ n.done = m.done
  BY <1>1, <1>3, ReadyOr
<1>5. Advances(n)
  BY <1>2
<1> HIDE DEF n
<1>6. n.out = <<>>
  BY <1>3, <1>4
<1>7. up' = up
  BY <1>1, <1>5, <1>6, NothingSent
<1>8. n.session = c.session /\ n.session + 1 <= Limit /\ server.open.session < c.session
  BY <1>3, <1>4 DEF Failing
<1>9. CASE n = m
  <2>1. Known(n)
    BY <1>6, OneElement DEF Known
  <2>2. /\ Formed(c)' /\ c'.out = <<>> /\ World' /\ Same(n, c', {"out"}) /\ Limit' = Limit
    BY <1>1, <1>3, <1>5, <1>8, <1>9, <2>1, Advanced
  <2>3. /\ c'.pc = m.pc /\ c'.call = m.call /\ c'.done = m.done /\ c'.told = m.told
        /\ c'.last_op = m.last_op /\ c'.session = m.session /\ c'.list_result = m.list_result
        /\ c'.fh = m.fh /\ c'.write_list = m.write_list /\ c'.callback = m.callback
        /\ c'.put_callback = m.put_callback /\ c'.read_gaps = m.read_gaps
        /\ c'.read_gap_times = m.read_gap_times /\ c'.read_total = m.read_total
        /\ c'.last_burst_read = m.last_burst_read /\ c'.reached_eof = m.reached_eof
    BY <1>9, <2>2 DEF Same, Fields
  <2>4. Failed(c')
    BY <1>3, <2>3 DEF Failed, Cleared, NoGaps, NothingTold
  <2>5. TransfersWhole'
    BY <1>1, <1>3, <2>2, <2>3 DEF TransfersWhole, Told, NothingTold, Formed
  <2>6. Failing'
    BY <1>1, <1>2, <1>3, <1>5, <1>7, <1>8, <1>9, <2>2, <2>3, <2>4 DEF Failing, NoLink, Advances
  <2> QED BY <2>2, <2>5, <2>6 DEF IInv, Phase
<1>10. CASE n # m
  <2>1. /\ LoopEnds(m) /\ n.pc = "ready" /\ Formed(n) /\ Cleared(n)
        /\ n.ret # "RemoteReplyTimeout" /\ n.call = "read" /\ n.done = FALSE /\ n.told = c.told
    BY <1>1, <1>3, <1>4, <1>10
  <2>2. NothingTold(n)
    BY <1>1, <2>1 DEF NothingTold
  <2> QED BY <1>1, <1>5, <1>6, <1>8, <2>1, <2>2, ToReady
<1> QED BY <1>9, <1>10

\* A packet is taken from the link.
LEMMA Heard ==
    ASSUME World, Receive
    PROVE  LET r == Head(down)
               m == __mavlink_packet([c EXCEPT !.quiet = 0], r)
               n == IF m.pc = "reply" THEN Turn(m) ELSE m IN
           /\ Advances(n) /\ down # <<>> /\ r \in ToSet(down) /\ r = down[1] /\ down' = Tail(down)
           /\ Len(down) \in Nat /\ Len(down') = Len(down) - 1
<1> DEFINE r == Head(down)
           m == __mavlink_packet([c EXCEPT !.quiet = 0], r)
           n == IF m.pc = "reply" THEN Turn(m) ELSE m
<1>1. Becomes(n) /\ down' = Tail(down) /\ UNCHANGED <<server, budget>> /\ down # <<>>
  BY DEF Receive
<1>2. /\ DOMAIN budget = {"loss", "late", "calls"} /\ budget.loss \in Nat /\ budget.late \in Nat
      /\ Sequential(down)
  BY DEF World
<1> HIDE DEF n
<1>3. /\ Sequential(Tail(down)) /\ ToSet(Tail(down)) \subseteq ToSet(down)
      /\ r \in ToSet(down) /\ r = down[1] /\ Len(down) \in Nat /\ Len(Tail(down)) = Len(down) - 1
  BY <1>1, <1>2, Taken
<1>4. Advances(n)
  BY <1>1, <1>2, <1>3 DEF Becomes, Advances
<1> QED BY <1>1, <1>3, <1>4 DEF n

\* A packet breaks the silence of a listing or a request.
LEMMA Quiet ==
    ASSUME Formed(c), Cleared(c), c.out = <<>>, c.pc = "reply"
    PROVE  LET q == [c EXCEPT !.quiet = 0] IN
           /\ Same(c, q, {"quiet"}) /\ Formed(q) /\ Cleared(q) /\ q.out = <<>>
           /\ Lists(c) => Lists(q)
           /\ Requests(c) => Requests(q)
           /\ \A x \in Fields \ {"quiet"} : q[x] = c[x]
<1> DEFINE q == [c EXCEPT !.quiet = 0]
<1>1. DOMAIN c = Fields
  BY DEF Formed
<1>2. Same(c, q, {"quiet"}) /\ q.quiet = 0
  BY <1>1 DEF Same, Fields
<1> HIDE DEF q
<1>3. \A x \in Fields \ {"quiet"} : q[x] = c[x]
  BY <1>2 DEF Same
<1>4. /\ q.ret # "RemoteReplyTimeout" /\ q.quiet \in Nat /\ q.last_send \in Nat
      /\ q.last_burst_read = -1 /\ q.read_gap_times = <<>>
  <2>1. /\ c.ret # "RemoteReplyTimeout" /\ c.last_send \in Nat
        /\ c.last_burst_read = -1 /\ c.read_gap_times = <<>>
    BY DEF Formed, Cleared, NoGaps
  <2>2. /\ q.ret = c.ret /\ q.last_send = c.last_send
        /\ q.last_burst_read = c.last_burst_read /\ q.read_gap_times = c.read_gap_times
    BY <1>3 DEF Fields
  <2> QED BY <1>2, <2>1, <2>2
<1>5. Same(c, q, AskMarks)
  BY <1>2 DEF Same, AskMarks
<1>6. /\ Formed(q) /\ q.out = <<>> /\ Cleared(q)
      /\ Lists(c) => Lists(q)
      /\ Requests(c) => Requests(q)
  BY <1>4, <1>5, StillCleared
<1> QED BY <1>2, <1>3, <1>6 DEF q

\* A single request keeps the invariant when its reply is taken.
LEMMA RequestingReceives ==
    ASSUME FtpAssumption, IInv, Requesting, Receive
    PROVE  IInv'
<1> DEFINE r == Head(down)
           q == [c EXCEPT !.quiet = 0]
           m == __mavlink_packet(q, r)
           k == IF m.pc = "reply" THEN Turn(m) ELSE m
<1>1. /\ World /\ Formed(c) /\ Requests(c) /\ Cleared(c) /\ c.session \in Nat /\ c.out = <<>>
      /\ LinkAge /\ c.call \in Simple /\ c.told = <<>> /\ c.pc = "reply"
      /\ c.last_op.opcode \in Simple
  BY DEF IInv, Requesting, Requests, Formed, Op
<1>2. /\ Advances(k) /\ down # <<>> /\ r \in ToSet(down) /\ down' = Tail(down)
      /\ Len(down) \in Nat /\ Len(down') = Len(down) - 1
  BY <1>1, Heard
<1>3. /\ Formed(q) /\ Cleared(q) /\ q.out = <<>> /\ Requests(q) /\ Same(c, q, {"quiet"})
      /\ \A x \in Fields \ {"quiet"} : q[x] = c[x]
  BY <1>1, Quiet
<1>4. r.req \in Simple
  BY <1>2 DEF Requesting
<1> DEFINE Is(ret) == m = [q EXCEPT !.ret = ret] /\ ret # "RemoteReplyTimeout"
<1>5. \E ret : Is(ret)
  <2>1. CASE r.session # q.session
    <3>1. Is("InvalidSession")
      BY <2>1 DEF __mavlink_packet
    <3> HIDE DEF Is
    <3> QED BY <3>1
  <2>2. CASE r.session = q.session
    <3>1. __decode_ftp_ack_and_nack(r) # "RemoteReplyTimeout"
      BY DecodedNot DEF __decode_ftp_ack_and_nack
    <3>2. m = [q EXCEPT !.ret = __decode_ftp_ack_and_nack(r)]
      BY <1>4, <2>2 DEF __mavlink_packet, Handled, Simple
    <3>3. Is(__decode_ftp_ack_and_nack(r))
      BY <3>1, <3>2
    <3> HIDE DEF Is
    <3> QED BY <3>3
  <2> QED BY <2>1, <2>2
<1>6. PICK ret : m = [q EXCEPT !.ret = ret] /\ ret # "RemoteReplyTimeout"
  BY <1>5
<1> HIDE DEF q, r, m
<1>7. Same(q, m, {"ret"}) /\ m.ret = ret
  BY <1>3, <1>6 DEF Same, Formed, Fields
<1>8. \A x \in Fields \ {"ret"} : m[x] = q[x]
  BY <1>7 DEF Same
<1>9. /\ m.ret # "RemoteReplyTimeout" /\ m.quiet \in Nat /\ m.last_send \in Nat
      /\ m.last_burst_read = -1 /\ m.read_gap_times = <<>> /\ m.last_send = c.last_send
      /\ Same(q, m, AskMarks)
  <2>1. /\ m.quiet = q.quiet /\ m.last_send = q.last_send
        /\ m.last_burst_read = q.last_burst_read /\ m.read_gap_times = q.read_gap_times
        /\ q.last_send = c.last_send
    BY <1>3, <1>8 DEF Fields
  <2>2. /\ q.quiet \in Nat /\ q.last_send \in Nat
        /\ q.last_burst_read = -1 /\ q.read_gap_times = <<>>
    BY <1>3 DEF Formed, Cleared, NoGaps
  <2>3. Same(q, m, AskMarks)
    BY <1>7 DEF Same, AskMarks
  <2> QED BY <1>6, <1>7, <2>1, <2>2, <2>3
<1>10. /\ Formed(m) /\ m.out = <<>> /\ m.session = c.session /\ m.call = c.call
       /\ m.last_op = c.last_op /\ m.told = c.told
       /\ m.pc = c.pc /\ Cleared(m) /\ Requests(m)
  <2>1. /\ Formed(m) /\ m.out = <<>> /\ m.session = q.session /\ m.call = q.call
        /\ m.last_op = q.last_op /\ m.told = q.told
        /\ m.pc = q.pc /\ Cleared(m) /\ Requests(m)
    BY <1>3, <1>9, StillCleared
  <2>2. /\ q.session = c.session /\ q.call = c.call /\ q.last_op = c.last_op /\ q.told = c.told
        /\ q.pc = c.pc
    BY <1>3 DEF Fields
  <2> QED BY <2>1, <2>2
<1> DEFINE n == Turn(m)
<1>11. m.last_op.opcode # "OpenFileRO" /\ c.call # "read" /\ c.call # "put"
  BY <1>1, <1>10 DEF Simple
<1>12. \/ n = m /\ ~LoopEnds(m)
       \/ /\ LoopEnds(m) /\ n.pc = "ready" /\ Formed(n) /\ Cleared(n)
          /\ n.ret # "RemoteReplyTimeout" /\ n.session = m.session /\ n.out = m.out /\ n.call = m.call
          /\ n.told = m.told
  BY <1>1, <1>10, <1>11, ReadyOr
<1>13. Advances(n)
  BY <1>1, <1>2, <1>10
<1> HIDE DEF n
<1>14. n.out = <<>>
  BY <1>10, <1>12
<1>15. up' = up
  BY <1>1, <1>13, <1>14, NothingSent
<1>16. n.session = c.session /\ n.session + 1 <= Limit /\ server.open.session < c.session
  BY <1>10, <1>12 DEF Requesting
<1>17. m.last_send < IdleTime
  BY <1>1, <1>2, <1>9 DEF LinkAge, NoLink
<1>18. n = m
  <2>1. ~LoopEnds(m)
    BY <1>9, <1>10, <1>11, <1>17, Settings DEF LoopEnds, IsIdle
  <2> QED BY <1>12, <2>1
<1>19. /\ \A op \in ToSet(up) : op.opcode \in Simple
       /\ \A s \in ToSet(down') : s.req \in Simple
  BY <1>13 DEF Requesting, Advances
<1> QED BY <1>1, <1>10, <1>13, <1>14, <1>16, <1>17, <1>18, <1>19, ToRequesting

\* All names are the whole directory.
LEMMA WholeListing ==
    ASSUME FtpAssumption
    PROVE  SubSeq(Directory, 1, Len(Directory)) = Directory
<1>1. Directory \in Seq(ToSet(Directory)) /\ Len(Directory) \in Nat
  BY DEF FtpAssumption
<1> DEFINE S == ToSet(Directory)
           k == Len(Directory)
           a == SubSeq(Directory, 1, k)
<1>2. /\ a \in Seq(S) /\ Len(a) = k /\ \A i \in 1 .. k : a[i] = Directory[i]
      /\ Directory \in Seq(S)
  <2> HIDE DEF S
  <2> QED BY <1>1 DEF S
<1> HIDE DEF S, a
<1>3. a = Directory
  BY <1>2, SeqEqual
<1> QED BY <1>3 DEF a

\* The next name of a listing is noted, and the one after it is asked for.
LEMMA ListedOne ==
    ASSUME FtpAssumption, NEW m, Formed(m), Lists(m), m.out = <<>>, m.dir_offset < Len(Directory),
           NEW r, r.ack, r.names = <<Directory[m.dir_offset + 1]>>
    PROVE  LET n == __handle_list_reply(m, r) IN
           /\ Formed(n) /\ Lists(n) /\ Known(n) /\ n.last_send = 0 /\ n.out = Append(<<>>, n.last_op)
           /\ n.session = m.session
<1> DEFINE op == [m.last_op EXCEPT !.offset = m.dir_offset + Len(r.names)]
           s == __send(m, op)
           n == __handle_list_reply(m, r)
<1>1. /\ Len(Directory) \in Nat /\ m.dir_offset \in 0 .. Len(Directory) - 1 /\ Len(r.names) = 1
      /\ m.session \in Nat
  <2>1. Len(Directory) \in Nat /\ m.dir_offset \in 0 .. Len(Directory)
    BY DEF FtpAssumption, Lists
  <2>2. Len(r.names) = 1
    OBVIOUS
  <2> QED BY <2>1, <2>2 DEF Formed
<1>2. op = Op("ListDirectory", m.session, m.dir_offset + 1, 0, None)
  BY <1>1 DEF Lists, Op
<1>3. /\ Same(m, s, {"out", "last_op", "last_send"}) /\ Formed(s)
      /\ s.last_op = op /\ s.last_send = 0 /\ s.out = Append(m.out, op)
      /\ ToSet(s.out) = ToSet(m.out) \union {op}
  BY Sent, SMTT(60)
<1>4. n = [s EXCEPT !.dir_offset = @ + Len(r.names), !.list_temp_result = @ \o r.names,
                    !.ret = "Success"]
  BY DEF __handle_list_reply
<1> HIDE DEF s, op, n
<1>5. DOMAIN s = Fields /\ \A x \in Fields \ {"out", "last_op", "last_send"} : s[x] = m[x]
  BY <1>3 DEF Same
<1>6. /\ DOMAIN n = Fields /\ n.ret = "Success"
      /\ n.dir_offset = s.dir_offset + Len(r.names)
      /\ n.list_temp_result = s.list_temp_result \o r.names
      /\ \A x \in Fields \ {"dir_offset", "list_temp_result", "ret"} : n[x] = s[x]
  BY <1>4, <1>5 DEF Fields
<1>7. \A x \in Fields \ {"out", "last_op", "last_send", "dir_offset", "list_temp_result", "ret"} :
         n[x] = m[x]
  BY <1>5, <1>6
<1>8. n.last_op = op /\ n.last_send = 0 /\ n.out = Append(<<>>, op) /\ ToSet(n.out) = {op}
  <2>1. n.last_op = s.last_op /\ n.last_send = s.last_send /\ n.out = s.out
    BY <1>6 DEF Fields
  <2> QED BY <1>3, <2>1, OneElement
<1>9. n.dir_offset = m.dir_offset + 1 /\ n.list_temp_result = SubSeq(Directory, 1, m.dir_offset + 1)
  <2>1. s.dir_offset = m.dir_offset /\ s.list_temp_result = m.list_temp_result
    BY <1>5 DEF Fields
  <2>2. m.list_temp_result = SubSeq(Directory, 1, m.dir_offset)
    BY DEF Lists
  <2>3. m.list_temp_result \o <<Directory[m.dir_offset + 1]>> = SubSeq(Directory, 1, m.dir_offset + 1)
    BY <1>1, <2>2, OneMore
  <2> QED BY <1>1, <1>6, <2>1, <2>3
<1>10. Cleared(n)
  <2>1. Cleared(m)
    BY DEF Lists
  <2> QED BY <1>7, <2>1 DEF Cleared, NoGaps, Fields
<1>11. n.session = m.session /\ n.pc = m.pc /\ n.call = m.call /\ n.told = m.told
  BY <1>7 DEF Fields
<1>12. Lists(n)
  <2>1. n.dir_offset \in 0 .. Len(Directory)
    BY <1>1, <1>9
  <2> QED BY <1>2, <1>8, <1>9, <1>10, <1>11, <2>1 DEF Lists
<1>13. Formed(n)
  <2>1. Sequential(n.out)
    BY <1>3, <1>6 DEF Formed, Fields
  <2>2. n.session \in Nat /\ n.quiet \in Nat /\ n.requested_offset \in Nat
        /\ n.done \in BOOLEAN /\ n.list_result \in {<<>>, Directory}
    BY <1>7 DEF Formed, Fields
  <2> QED BY <1>6, <1>8, <2>1, <2>2, SMTT(60) DEF Formed
<1>14. Known(n)
  <2>1. IsOp(op) /\ op.session <= n.session
    BY <1>1, <1>2, <1>11 DEF IsOp, Op
  <2> QED BY <1>8, <2>1 DEF Known
<1> QED BY <1>8, <1>11, <1>12, <1>13, <1>14 DEF n

\* A listing is over.
LEMMA ListedAll ==
    ASSUME FtpAssumption, NEW m, Formed(m), Lists(m), m.out = <<>>, m.dir_offset = Len(Directory),
           NEW r, ~r.ack, r.payload = EndOfFile
    PROVE  LET n == __handle_list_reply(m, r) IN
           /\ Formed(n) /\ Lists(n) /\ n.last_send = m.last_send /\ n.out = <<>>
           /\ n.session = m.session
<1> DEFINE n == __handle_list_reply(m, r)
<1>1. n = [m EXCEPT !.list_result = m.list_temp_result, !.ret = "Success"]
  BY DEF __handle_list_reply
<1>2. m.list_temp_result = Directory
  BY WholeListing DEF Lists
<1> HIDE DEF n
<1>3. /\ DOMAIN n = Fields /\ n.ret = "Success" /\ n.list_result = Directory
      /\ \A x \in Fields \ {"list_result", "ret"} : n[x] = m[x]
  BY <1>1, <1>2 DEF Formed, Fields
<1>4. Formed(n)
  BY <1>3 DEF Formed, Fields
<1>5. Cleared(n)
  <2>1. Cleared(m)
    BY DEF Lists
  <2> QED BY <1>3, <2>1 DEF Cleared, NoGaps, Fields
<1>6. /\ n.last_send = m.last_send /\ n.out = <<>> /\ n.session = m.session /\ n.pc = m.pc
      /\ n.call = m.call /\ n.told = m.told /\ n.last_op = m.last_op /\ n.dir_offset = m.dir_offset
      /\ n.list_temp_result = m.list_temp_result
  BY <1>3 DEF Fields
<1>7. Lists(n)
  BY <1>5, <1>6 DEF Lists
<1> QED BY <1>4, <1>6, <1>7 DEF n

\* A listing keeps the invariant when a reply is taken.
LEMMA ListingReceives ==
    ASSUME FtpAssumption, IInv, Listing_, Receive
    PROVE  IInv'
<1> DEFINE r == Head(down)
           q == [c EXCEPT !.quiet = 0]
           m == __mavlink_packet(q, r)
           k == IF m.pc = "reply" THEN Turn(m) ELSE m
<1>1. /\ World /\ Formed(c) /\ Lists(c) /\ Cleared(c) /\ c.session \in Nat /\ c.out = <<>>
      /\ LinkAge /\ c.call = "list" /\ c.told = <<>> /\ c.pc = "reply"
      /\ c.session + 1 <= Limit /\ server.open.session < c.session
  BY DEF IInv, Listing_, Lists, Formed
<1>2. /\ Advances(k) /\ down # <<>> /\ r = down[1] /\ down' = Tail(down)
      /\ Len(down) \in Nat /\ Len(down') = Len(down) - 1
  BY <1>1, Heard
<1>3. /\ Formed(q) /\ q.out = <<>> /\ Lists(q)
      /\ \A x \in Fields \ {"quiet"} : q[x] = c[x]
  BY <1>1, Quiet
<1>4. /\ up = <<>> /\ Len(down) = 1 /\ r.req = "ListDirectory" /\ r.session = c.session
      /\ IF r.ack THEN /\ c.dir_offset < Len(Directory)
                       /\ r.names = <<Directory[c.dir_offset + 1]>>
         ELSE r.payload = EndOfFile /\ c.dir_offset = Len(Directory)
  BY <1>2 DEF Listing_, NoLink
<1>5. q.session = c.session /\ q.dir_offset = c.dir_offset /\ q.last_send = c.last_send
  BY <1>3 DEF Fields
<1> HIDE DEF q, r
<1>6. m = __handle_list_reply(q, r)
  BY <1>4, <1>5 DEF __mavlink_packet, Handled
<1>7. down' = <<>>
  <2>1. Sequential(down') /\ Len(down') = 0
    BY <1>2, <1>4 DEF Advances
  <2> QED BY <2>1 DEF Sequential
<1>8. c.last_send < IdleTime
  BY <1>1, <1>2 DEF LinkAge, NoLink
<1> HIDE DEF m
<1>9. /\ Formed(m) /\ Lists(m) /\ m.session = c.session /\ m.last_send < IdleTime
      /\ \/ Known(m) /\ m.out = Append(<<>>, m.last_op)
         \/ m.out = <<>>
  <2>1. CASE r.ack
    <3>1. /\ Formed(m) /\ Lists(m) /\ Known(m) /\ m.last_send = 0 /\ m.out = Append(<<>>, m.last_op)
          /\ m.session = q.session
      BY <1>3, <1>4, <1>5, <1>6, <2>1, ListedOne
    <3>2. 0 < IdleTime
      BY Settings
    <3> QED BY <1>5, <3>1, <3>2
  <2>2. CASE ~r.ack
    <3>1. /\ Formed(m) /\ Lists(m) /\ m.last_send = q.last_send /\ m.out = <<>>
          /\ m.session = q.session
      BY <1>3, <1>4, <1>5, <1>6, <2>2, ListedAll
    <3> QED BY <1>5, <1>8, <3>1
  <2> QED BY <2>1, <2>2
<1>10. /\ m.pc = "reply" /\ Cleared(m) /\ m.last_op.opcode # "OpenFileRO" /\ m.call = "list"
  BY <1>9 DEF Lists, Op
<1> DEFINE n == Turn(m)
<1>11. n = m
  <2>1. ~LoopEnds(m)
    BY <1>9, <1>10, Settings DEF LoopEnds, IsIdle, Formed
  <2>2. n = m \/ LoopEnds(m)
    <3> HIDE DEF n
    <3>1. \/ n = m /\ ~LoopEnds(m)
          \/ LoopEnds(m) /\ n.pc = "ready"
      BY <1>9, <1>10, ReadyOr DEF n
    <3> QED BY <3>1
  <2> QED BY <2>1, <2>2
<1>12. Advances(m)
  BY <1>2, <1>10, <1>11
<1> HIDE DEF n
<1>13. Known(m)
  BY <1>9, OneElement DEF Known
<1>14. up' = <<m.last_op>> \/ up' = <<>>
  <2>1. up' = <<>> \o m.out
    BY <1>4, <1>12 DEF Advances
  <2>2. Append(<<>>, m.last_op) = <<m.last_op>>
    OBVIOUS
  <2>3. <<>> \o <<m.last_op>> = <<m.last_op>> /\ <<>> \o <<>> = <<>>
    OBVIOUS
  <2> QED BY <1>9, <2>1, <2>2, <2>3
<1> QED BY <1>1, <1>7, <1>9, <1>12, <1>13, <1>14, ToListing

(* ---------------------------- the end of a transfer ------------------------- *)
\* The phase follows from where the client waits.
LEMMA Phases ==
    ASSUME IInv
    PROVE  /\ c.pc = "reply" => Asking \/ Downloading \/ Putting \/ Listing_ \/ Requesting \/ Failing
           /\ Waiting => Ending
           /\ c.pc = "ready" => Ready
<1>1. Asking => c.pc = "reply"
  BY DEF Asking, Asks, Reading
<1>2. Downloading => c.pc = "reply"
  BY DEF Downloading, GoesOn, Downloads, Reading
<1>3. Putting => c.pc = "reply"
  BY DEF Putting, Puts
<1>4. Listing_ => c.pc = "reply"
  BY DEF Listing_, Lists
<1>5. Requesting => c.pc = "reply"
  BY DEF Requesting, Requests
<1>6. Failing => c.pc = "reply"
  BY DEF Failing, Failed
<1>7. Ending => c.pc \in {"terminating", "cancelling"}
  BY DEF Ending, Ends
<1>8. Ready => c.pc = "ready"
  BY DEF Ready
<1>9. Phase
  BY DEF IInv
<1>10. c.pc = "reply" => Asking \/ Downloading \/ Putting \/ Listing_ \/ Requesting \/ Failing
  BY <1>7, <1>8, <1>9 DEF Phase
<1>11. Waiting => Ending
  BY <1>1, <1>2, <1>3, <1>4, <1>5, <1>6, <1>8, <1>9 DEF Phase, Waiting
<1>12. c.pc = "ready" => Ready
  BY <1>1, <1>2, <1>3, <1>4, <1>5, <1>6, <1>7, <1>9 DEF Phase
<1> QED BY <1>10, <1>11, <1>12

\* Packets are taken away, nothing else changes.
Lessens ==
    /\ UNCHANGED <<c, server>>
    /\ DOMAIN budget' = {"loss", "late", "calls"} /\ budget'.calls = budget.calls
    /\ budget'.loss \in Nat /\ budget'.late \in Nat
    /\ Sequential(up') /\ ToSet(up') \subseteq ToSet(up)
    /\ Sequential(down') /\ ToSet(down') \subseteq ToSet(down)

\* What does not concern the link stays.
LEMMA Lessened ==
    ASSUME IInv, Lessens
    PROVE  /\ Formed(c)' /\ c'.out = <<>> /\ World' /\ TransfersWhole' /\ Limit' = Limit
<1>1. Formed(c)' /\ c'.out = <<>>
  BY DEF IInv, Lessens, Formed
<1>2. World'
  BY DEF IInv, Lessens, World
<1>3. TransfersWhole'
  BY DEF IInv, Lessens, TransfersWhole, Told
<1>4. Limit' = Limit
  BY DEF Lessens, Limit
<1> QED BY <1>1, <1>2, <1>3, <1>4

\* Packets that are discarded are taken away, and a transfer that is over does not need them.
LEMMA DiscardLessens ==
    ASSUME IInv, Discard
    PROVE  Lessens
<1>1. Sequential(down) /\ Sequential(up) /\ down # <<>> /\ down' = Tail(down)
  BY DEF IInv, World, Discard
<1>2. Sequential(down') /\ ToSet(down') \subseteq ToSet(down)
  BY <1>1, Taken
<1>3. /\ DOMAIN budget = {"loss", "late", "calls"} /\ budget.loss \in Nat /\ budget.late \in Nat
  BY DEF IInv, World
<1> QED BY <1>1, <1>2, <1>3 DEF Lessens, Discard

LEMMA EndingLessens ==
    ASSUME IInv, Ending, Lessens
    PROVE  IInv'
<1>1. /\ Formed(c)' /\ c'.out = <<>> /\ World' /\ TransfersWhole' /\ Limit' = Limit
  BY Lessened
<1>2. Ending'
  BY <1>1 DEF Ending, Lessens, Told, Ends, Cleared, NoGaps, NothingTold
<1> QED BY <1>1, <1>2 DEF IInv, Phase

\* Nothing has been heard for a while: the session is over.
LEMMA TerminatedEnds ==
    ASSUME FtpAssumption, IInv, Ending, Terminated
    PROVE  IInv'
<1>1. /\ World /\ Formed(c) /\ Ends(c) /\ c.session \in Nat /\ c.out = <<>> /\ DOMAIN c = Fields
      /\ Cleared(c) /\ c.ret # "RemoteReplyTimeout" /\ TransfersWhole
  BY DEF IInv, Ending, Ends, Formed
<1>2. IdleTime \in Nat
  BY Settings
<1>3. Limit \in 0 .. 253
  BY <1>1, LimitIs
<1>4. c.session + 1 <= Limit /\ (c.pc = "terminating" => c.session + 2 <= Limit)
  BY <1>1, <1>3 DEF Ending
<1>5. (c.session + 1) % 256 = c.session + 1
  BY <1>1, <1>3, <1>4
<1> DEFINE over == c.pc = "cancelling" \/ LoopEnds([c EXCEPT !.last_send = IdleTime])
<1>6. /\ up = <<>> /\ down = <<>> /\ UNCHANGED <<server, up, down, budget>>
      /\ c' = [c EXCEPT !.session = c.session + 1, !.last_send = IdleTime, !.quiet = IdleTime,
                        !.pc = IF over THEN "ready" ELSE "reply"]
  BY <1>5 DEF Terminated
<1>7. ~over => c.pc = "terminating" /\ c.call = "read" /\ ~c.done
  <2>1. [c EXCEPT !.last_send = IdleTime].last_send = IdleTime
        /\ [c EXCEPT !.last_send = IdleTime].call = c.call /\ [c EXCEPT !.last_send = IdleTime].done = c.done
    BY <1>1 DEF Fields
  <2> QED BY <1>1, <1>2, <2>1 DEF LoopEnds, IsIdle, Ends
<1> HIDE DEF over
<1>8. /\ DOMAIN c' = Fields /\ c'.session = c.session + 1 /\ c'.last_send = IdleTime
      /\ c'.quiet = IdleTime /\ c'.pc = (IF over THEN "ready" ELSE "reply")
      /\ \A x \in Fields \ {"session", "last_send", "quiet", "pc"} : c'[x] = c[x]
  BY <1>1, <1>6 DEF Fields
<1>9. Formed(c') /\ c'.out = <<>>
  <2>1. /\ c'.requested_offset = c.requested_offset /\ c'.done = c.done
        /\ c'.list_result = c.list_result /\ c'.ret = c.ret /\ c'.out = c.out
    BY <1>8 DEF Fields
  <2> QED BY <1>1, <1>2, <1>8, <2>1 DEF Formed
<1>10. Cleared(c')
  BY <1>1, <1>8 DEF Cleared, NoGaps, Fields
<1>11. /\ c'.told = c.told /\ c'.call = c.call /\ c'.done = c.done /\ c'.ret = c.ret
       /\ c'.last_op = c.last_op /\ c'.requested_offset = c.requested_offset
       /\ c'.list_result = c.list_result
  BY <1>8 DEF Fields
<1>12. TransfersWhole'
  BY <1>1, <1>6, <1>11 DEF TransfersWhole, Told
<1>13. Limit' = Limit
  BY <1>6 DEF Limit
<1>14. server.open.session \in Int /\ server.open.session < c.session + 1
  BY <1>1 DEF World
<1>15. World'
  BY <1>1, <1>6, <1>8, <1>14, OneElement DEF World
<1>16. NoLink' /\ server'.open.session < c'.session
  BY <1>6, <1>8, <1>14 DEF NoLink
<1>17. CASE over
  <2>1. c'.pc = "ready"
    BY <1>8, <1>17
  <2>2. LeftOpen' <=> (c.call = "read" /\ ~c.done)
    BY <1>1, <1>11 DEF LeftOpen
  <2>3. LeftOpen' => NothingTold(c') /\ c.pc = "terminating"
    BY <1>1, <1>11, <2>2 DEF Ends, NothingTold
  <2>4. c'.session + (IF LeftOpen' THEN 1 ELSE 0) <= Limit'
    BY <1>1, <1>3, <1>4, <1>8, <1>13, <2>3
  <2>5. c'.call = "put" => c'.told # <<>>
    BY <1>1, <1>11 DEF Ends
  <2>6. Ready'
    BY <1>10, <1>16, <2>1, <2>3, <2>4, <2>5 DEF Ready
  <2> QED BY <1>9, <1>12, <1>15, <2>6 DEF IInv, Phase
<1>18. CASE ~over
  <2>1. c'.pc = "reply" /\ c'.session + 1 <= Limit'
    BY <1>1, <1>3, <1>4, <1>7, <1>8, <1>13, <1>18
  <2>2. c.done = FALSE /\ NothingTold(c) /\ c.last_op.opcode = "TerminateSession" /\ c.call = "read"
    BY <1>1, <1>7, <1>18 DEF Ends, Formed
  <2>3. Failed(c')
    BY <1>10, <1>11, <2>1, <2>2 DEF Failed, NothingTold
  <2>4. Failing'
    BY <1>16, <2>1, <2>3 DEF Failing
  <2> QED BY <1>9, <1>12, <1>15, <2>4 DEF IInv, Phase
<1> QED BY <1>17, <1>18

\* A call gives up; the transfer stays open.
LEMMA GivesUpLeaves ==
    ASSUME FtpAssumption, IInv, GivesUp
    PROVE  IInv'
<1>1. /\ World /\ Formed(c) /\ c.session \in Nat /\ c.out = <<>> /\ DOMAIN c = Fields
      /\ TransfersWhole /\ c.pc = "reply" /\ c.call # "read"
  BY DEF IInv, GivesUp, Formed
<1>2. Limit \in 0 .. 253
  BY <1>1, LimitIs
<1>3. c.session + 1 <= Limit /\ NothingTold(c)
  <2>1. Asking => c.session + 1 <= Limit /\ NothingTold(c)
    BY <1>1, <1>2 DEF Asking, Asks, Reading, NothingTold
  <2>2. Downloading => c.session + 1 <= Limit /\ NothingTold(c)
    <3> SUFFICES ASSUME Downloading PROVE c.session + 1 <= Limit /\ NothingTold(c)
      OBVIOUS
    <3>1. c.session + 2 <= Limit /\ Reading(c)
      BY DEF Downloading, GoesOn, Downloads
    <3> QED BY <1>1, <1>2, <3>1 DEF Reading, NothingTold
  <2>3. Putting => c.session + 1 <= Limit /\ NothingTold(c)
    BY <1>1, <1>2 DEF Putting, Puts, NothingTold
  <2>4. Listing_ => c.session + 1 <= Limit /\ NothingTold(c)
    BY DEF Listing_, Lists, NothingTold
  <2>5. Requesting => c.session + 1 <= Limit /\ NothingTold(c)
    BY DEF Requesting, Requests, NothingTold
  <2>6. Failing => c.session + 1 <= Limit /\ NothingTold(c)
    BY DEF Failing, Failed
  <2> QED BY <1>1, <2>1, <2>2, <2>3, <2>4, <2>5, <2>6, Phases
<1>4. c' = [c EXCEPT !.pc = "ready", !.ret = "RemoteReplyTimeout"] /\ UNCHANGED <<server, up, down, budget>>
  BY DEF GivesUp
<1>5. /\ DOMAIN c' = Fields /\ c'.pc = "ready" /\ c'.ret = "RemoteReplyTimeout"
      /\ \A x \in Fields \ {"pc", "ret"} : c'[x] = c[x]
  BY <1>1, <1>4 DEF Fields
<1>6. /\ c'.told = c.told /\ c'.session = c.session /\ c'.out = c.out
      /\ c'.requested_offset = c.requested_offset /\ c'.list_result = c.list_result
  BY <1>5 DEF Fields
<1>7. Formed(c')
  BY <1>1, <1>5 DEF Formed, Fields
<1>8. TransfersWhole'
  BY <1>1, <1>4, <1>6 DEF TransfersWhole, Told
<1>9. World' /\ Limit' = Limit
  BY <1>1, <1>4, <1>6 DEF World, Limit
<1>10. Ready'
  BY <1>3, <1>5, <1>6, <1>9 DEF Ready, LeftOpen, NothingTold
<1> QED BY <1>1, <1>6, <1>7, <1>8, <1>9, <1>10 DEF IInv, Phase

(* ------------------------------- the server --------------------------------- *)
LEMMA PacketIs ==
    ASSUME NEW op, NEW i
    PROVE  LET p == BurstPacket(op, i)
               o == op.offset + (i - 1) * op.size
               n == Left(o, op.size) IN
           /\ p.req = op.opcode /\ p.session = op.session /\ p.offset = o /\ p.ack = (n > 0)
           /\ p.len = (IF n > 0 THEN n ELSE 0) /\ p.payload = (IF n > 0 THEN <<>> ELSE EndOfFile)
           /\ p.complete = (n < op.size \/ i = ServerBurst) /\ p.file = server.open.file
<1> DEFINE o == op.offset + (i - 1) * op.size
           n == Left(o, op.size)
           full == n < op.size \/ i = ServerBurst
           base == Reply(op, n > 0, IF n > 0 THEN n ELSE 0, IF n > 0 THEN <<>> ELSE EndOfFile)
<1>1. BurstPacket(op, i) = [[base EXCEPT !.offset = o] EXCEPT !.complete = full, !.file = server.open.file]
  BY DEF BurstPacket
<1> HIDE DEF o, n, full
<1>2. base = [req |-> op.opcode, ack |-> n > 0, session |-> op.session, offset |-> op.offset,
              len |-> IF n > 0 THEN n ELSE 0, complete |-> FALSE, file |-> None, names |-> <<>>,
              payload |-> IF n > 0 THEN <<>> ELSE EndOfFile]
  BY DEF Reply
<1> QED BY <1>1, <1>2 DEF o, n, full

\* A burst ends with its first complete packet.
LEMMA BurstIs ==
    ASSUME FtpAssumption, NEW op
    PROVE  \E last \in 1 .. ServerBurst :
              /\ Burst(op) = [i \in 1 .. last |-> BurstPacket(op, i)]
              /\ BurstPacket(op, last).complete
              /\ \A j \in 1 .. last - 1 : ~BurstPacket(op, j).complete
<1> DEFINE Full(i) == BurstPacket(op, i).complete
           S == {i \in 1 .. ServerBurst : Full(i)}
           First(i) == Full(i) /\ \A j \in 1 .. i - 1 : ~Full(j)
           last == CHOOSE i \in 1 .. ServerBurst : First(i)
<1>1. ServerBurst \in Nat \ {0}
  BY DEF FtpAssumption
<1>2. Full(ServerBurst)
  BY PacketIs
<1>3. Burst(op) = [i \in 1 .. last |-> BurstPacket(op, i)]
  BY DEF Burst
<1> HIDE DEF Full
<1>4. S \in SUBSET Nat /\ S # {}
  BY <1>1, <1>2
<1>5. PICK k \in S : \A x \in S : k <= x
  <2> HIDE DEF S
  <2> QED BY <1>4, Least
<1>6. \E i \in 1 .. ServerBurst : First(i)
  <2>1. k \in 1 .. ServerBurst /\ First(k)
    BY <1>1, <1>5
  <2> QED BY <2>1
<1>7. last \in 1 .. ServerBurst /\ First(last)
  <2> HIDE DEF First
  <2> QED BY <1>6
<1> HIDE DEF last
<1> QED BY <1>3, <1>7 DEF Full

\* The fields of a reply.
LEMMA OnlyReply ==
    ASSUME NEW op, NEW ack, NEW len, NEW payload
    PROVE  LET r == Reply(op, ack, len, payload) IN
           /\ r.req = op.opcode /\ r.session = op.session /\ r.ack = ack /\ r.len = len
           /\ r.offset = op.offset /\ r.payload = payload /\ r.names = <<>>
BY DEF Reply

\* A sequence of one.
LEMMA One ==
    ASSUME NEW e
    PROVE  Sequential(<<e>>) /\ ToSet(<<e>>) = {e} /\ Len(<<e>>) = 1 /\ <<e>>[1] = e
BY OneElement DEF Sequential

\* The replies of one packet.
LEMMA NackIs ==
    ASSUME NEW op, NEW code
    PROVE  LET s == Nack(op, code) IN
           /\ Sequential(s) /\ Len(s) = 1 /\ ToSet(s) = {s[1]}
           /\ s[1].req = op.opcode /\ s[1].session = op.session /\ ~s[1].ack /\ s[1].len = 0
           /\ s[1].offset = op.offset /\ s[1].payload = <<code>>
<1> DEFINE r == Reply(op, FALSE, 0, <<code>>)
<1>1. r.req = op.opcode /\ r.session = op.session /\ ~r.ack /\ r.len = 0
      /\ r.offset = op.offset /\ r.payload = <<code>>
  BY DEF Reply
<1>2. Nack(op, code) = <<r>>
  BY DEF Nack
<1> HIDE DEF r
<1>3. Sequential(<<r>>) /\ ToSet(<<r>>) = {r} /\ Len(<<r>>) = 1 /\ <<r>>[1] = r
  BY One
<1> QED BY <1>1, <1>2, <1>3

LEMMA AckIs ==
    ASSUME NEW op
    PROVE  LET s == Ack(op) IN
           /\ Sequential(s) /\ Len(s) = 1 /\ ToSet(s) = {s[1]}
           /\ s[1].req = op.opcode /\ s[1].session = op.session /\ s[1].ack /\ s[1].offset = op.offset
<1> DEFINE r == Reply(op, TRUE, 0, <<>>)
<1>1. r.req = op.opcode /\ r.session = op.session /\ r.ack /\ r.offset = op.offset
  BY DEF Reply
<1>2. Ack(op) = <<r>>
  BY DEF Ack
<1> HIDE DEF r
<1>3. Sequential(<<r>>) /\ ToSet(<<r>>) = {r} /\ Len(<<r>>) = 1 /\ <<r>>[1] = r
  BY One
<1> QED BY <1>1, <1>2, <1>3

\* A listing is answered with the next name, or with the end.
LEMMA ListingIs ==
    ASSUME FtpAssumption, NEW op, op.offset \in Nat
    PROVE  LET s == Listing(op) IN
           /\ Sequential(s) /\ Len(s) = 1 /\ ToSet(s) = {s[1]}
           /\ s[1].req = op.opcode /\ s[1].session = op.session
           /\ IF s[1].ack THEN op.offset < Len(Directory) /\ s[1].names = <<Directory[op.offset + 1]>>
              ELSE s[1].payload = EndOfFile /\ op.offset >= Len(Directory)
<1>1. Len(Directory) \in Nat
  BY DEF FtpAssumption
<1>2. CASE op.offset >= Len(Directory)
  <2>1. Listing(op) = Nack(op, 6)
    BY <1>2 DEF Listing
  <2> QED BY <1>2, <2>1, NackIs DEF EndOfFile
<1>3. CASE ~(op.offset >= Len(Directory))
  <2> DEFINE r == [Reply(op, TRUE, 0, <<>>) EXCEPT !.names = <<Directory[op.offset + 1]>>]
  <2>1. Listing(op) = <<r>>
    BY <1>3 DEF Listing, Ack
  <2>2. r.req = op.opcode /\ r.session = op.session /\ r.ack /\ r.names = <<Directory[op.offset + 1]>>
    BY DEF Reply
  <2> HIDE DEF r
  <2>3. Sequential(<<r>>) /\ ToSet(<<r>>) = {r} /\ Len(<<r>>) = 1 /\ <<r>>[1] = r
    BY One
  <2>4. op.offset < Len(Directory)
    BY <1>1, <1>3
  <2> QED BY <2>1, <2>2, <2>3, <2>4
<1> QED BY <1>2, <1>3

\* What the server does with each request.
LEMMA ServedIs ==
    ASSUME NEW op
    PROVE  /\ op.opcode \in {"OpenFileRO", "CreateFile"} => Served(op) = Opens(op)
           /\ op.opcode \in {"TerminateSession", "ResetSessions"} =>
                 Served(op) = <<[server EXCEPT !.open = NoSession], Ack(op)>>
           /\ op.opcode = "ListDirectory" => Served(op) = <<server, Listing(op)>>
           /\ op.opcode \in {"BurstReadFile", "ReadFile", "WriteFile"} /\ ~InSession(op) =>
                 Served(op) = <<server, Nack(op, 4)>>
           /\ op.opcode \in {"BurstReadFile", "ReadFile"} /\ InSession(op) =>
                 Served(op) = <<server, Reads(op)>>
           /\ op.opcode = "WriteFile" /\ InSession(op) =>
                 Served(op) = <<[server EXCEPT !.written = @ \union {op.offset}], Ack(op)>>
           /\ op.opcode \notin {"OpenFileRO", "CreateFile", "TerminateSession", "ResetSessions",
                                "ListDirectory", "BurstReadFile", "ReadFile", "WriteFile"} =>
                 Served(op) = <<server, Ack(op)>>
<1>1. op.opcode \in {"OpenFileRO", "CreateFile"} => Served(op) = Opens(op)
  BY DEF Served
<1>2. op.opcode \in {"TerminateSession", "ResetSessions"} =>
                 Served(op) = <<[server EXCEPT !.open = NoSession], Ack(op)>>
  BY DEF Served
<1>3. op.opcode = "ListDirectory" => Served(op) = <<server, Listing(op)>>
  BY DEF Served
<1>4. op.opcode \in {"BurstReadFile", "ReadFile", "WriteFile"} /\ ~InSession(op) =>
                 Served(op) = <<server, Nack(op, 4)>>
  BY DEF Served
<1>5. op.opcode \in {"BurstReadFile", "ReadFile"} /\ InSession(op) =>
                 Served(op) = <<server, Reads(op)>>
  BY DEF Served
<1>6. op.opcode = "WriteFile" /\ InSession(op) =>
                 Served(op) = <<[server EXCEPT !.written = @ \union {op.offset}], Ack(op)>>
  BY DEF Served
<1>7. op.opcode \notin {"OpenFileRO", "CreateFile", "TerminateSession", "ResetSessions",
                                "ListDirectory", "BurstReadFile", "ReadFile", "WriteFile"} =>
                 Served(op) = <<server, Ack(op)>>
  <2> SUFFICES ASSUME op.opcode \notin {"OpenFileRO", "CreateFile", "TerminateSession", "ResetSessions",
                                "ListDirectory", "BurstReadFile", "ReadFile", "WriteFile"}
               PROVE  Served(op) = <<server, Ack(op)>>
    OBVIOUS
  <2> DEFINE code == op.opcode
             others == <<server, Ack(op)>>
  <2>1. /\ ~(op.opcode \in {"OpenFileRO", "CreateFile"})
        /\ ~(op.opcode \in {"TerminateSession", "ResetSessions"})
        /\ ~(op.opcode = "ListDirectory")
        /\ ~(op.opcode \in {"BurstReadFile", "ReadFile", "WriteFile"} /\ ~InSession(op))
        /\ ~(op.opcode \in {"BurstReadFile", "ReadFile"})
        /\ ~(op.opcode = "WriteFile")
    OBVIOUS
  <2> QED BY <2>1, Zenon DEF Served
<1> QED BY <1>1, <1>2, <1>3, <1>4, <1>5, <1>6, <1>7

\* What a server's replies have in common.
Replies(s, op) == Sequential(s) /\ \A r \in ToSet(s) : r.session = op.session /\ r.req = op.opcode

\* What a read is answered with.
LEMMA ReadsReply ==
    ASSUME FtpAssumption, NEW op, IsOp(op)
    PROVE  Replies(Reads(op), op)
<1>1. CASE op.opcode = "BurstReadFile"
  <2>1. Reads(op) = Burst(op)
    BY <1>1 DEF Reads
  <2>2. PICK last \in 1 .. ServerBurst : Burst(op) = [i \in 1 .. last |-> BurstPacket(op, i)]
    BY BurstIs
  <2>3. last \in Nat
    BY DEF FtpAssumption
  <2> DEFINE b == [i \in 1 .. last |-> BurstPacket(op, i)]
             S == {BurstPacket(op, i) : i \in 1 .. last}
  <2>4. \A i \in 1 .. last : BurstPacket(op, i) \in S
    OBVIOUS
  <2>5. b \in Seq(S)
    BY <2>3, <2>4, IsASeq, SMTT(60)
  <2>6. Sequential(b) /\ ToSet(b) \subseteq S
    BY <2>5, IntoSeq
  <2>7. \A r \in S : r.session = op.session /\ r.req = op.opcode
    BY PacketIs
  <2> QED BY <2>1, <2>2, <2>6, <2>7 DEF Replies
<1>2. CASE op.opcode # "BurstReadFile" /\ Left(op.offset, op.size) <= 0
  <2>1. Reads(op) = Nack(op, 6)
    BY <1>2 DEF Reads
  <2> QED BY <2>1, NackIs DEF Replies
<1>3. CASE op.opcode # "BurstReadFile" /\ ~(Left(op.offset, op.size) <= 0)
  <2> DEFINE r == [Reply(op, TRUE, Left(op.offset, op.size), <<>>) EXCEPT !.file = server.open.file]
  <2>1. Reads(op) = <<r>>
    BY <1>3 DEF Reads
  <2>2. r.req = op.opcode /\ r.session = op.session
    BY DEF Reply
  <2> HIDE DEF r
  <2> QED BY <2>1, <2>2, One DEF Replies
<1> QED BY <1>1, <1>2, <1>3

\* The server answers in the session it was asked in, and writes what it is asked to write.
LEMMA Replied ==
    ASSUME FtpAssumption, World, c.session \in Nat, NEW op, IsOp(op), op.session <= c.session,
           NEW s, s = Served(op)
    PROVE  /\ Replies(s[2], op)
           /\ DOMAIN s[1] = {"open", "written"} /\ DOMAIN s[1].open = {"session", "file", "size"}
           /\ s[1].open.session \in Int /\ s[1].open.session <= c.session
           /\ s[1].open = NoSession \/ s[1].open.session \in Nat
           /\ op.opcode # "CreateFile" /\ (op.opcode = "WriteFile" => op.offset \in server.written)
                 => s[1].written = server.written
<1>1. /\ DOMAIN server = {"open", "written"} /\ DOMAIN server.open = {"session", "file", "size"}
      /\ server.open.session \in Int /\ server.open.session <= c.session
      /\ server.open = NoSession \/ server.open.session \in Nat
      /\ op.session \in Nat /\ op.offset \in Nat
  BY DEF World, IsOp
<1>2. CASE s[1] = server /\ Replies(s[2], op)
  BY <1>1, <1>2
<1>3. Replies(Ack(op), op) /\ Replies(Nack(op, 4), op) /\ Replies(Nack(op, 5), op) /\ Replies(Nack(op, 10), op)
  <2>1. Replies(Ack(op), op)
    BY AckIs DEF Replies
  <2>2. ASSUME NEW code PROVE Replies(Nack(op, code), op)
    BY NackIs DEF Replies
  <2> QED BY <2>1, <2>2
<1>4. CASE op.opcode \in {"OpenFileRO", "CreateFile"}
  <2>1. s = Opens(op)
    BY <1>4, ServedIs
  <2>2. CASE server.open # NoSession
    <3>1. s = <<server, Nack(op, 5)>>
      BY <2>1, <2>2 DEF Opens
    <3> QED BY <1>2, <1>3, <3>1
  <2>3. CASE server.open = NoSession /\ op.opcode = "OpenFileRO" /\ op.file \notin Files
    <3>1. s = <<server, Nack(op, 10)>>
      BY <2>1, <2>3 DEF Opens
    <3> QED BY <1>2, <1>3, <3>1
  <2>4. CASE server.open = NoSession /\ ~(op.opcode = "OpenFileRO" /\ op.file \notin Files)
    <3> DEFINE r == Reply(op, TRUE, IF op.opcode = "OpenFileRO" THEN Size[op.file] ELSE 0, <<>>)
               t == [server EXCEPT !.open = [session |-> op.session, file |-> op.file, size |-> 0],
                                   !.written = IF op.opcode = "CreateFile" THEN {} ELSE @]
    <3>1. s = <<t, <<r>> >>
      BY <2>1, <2>4 DEF Opens
    <3>2. r.req = op.opcode /\ r.session = op.session
      BY DEF Reply
    <3>3. /\ DOMAIN t = {"open", "written"}
          /\ t.open = [session |-> op.session, file |-> op.file, size |-> 0]
          /\ t.written = IF op.opcode = "CreateFile" THEN {} ELSE server.written
      BY <1>1
    <3> HIDE DEF r, t
    <3>4. Replies(<<r>>, op)
      BY <3>2, One DEF Replies
    <3>5. s[1] = t /\ s[2] = <<r>>
      BY <3>1
    <3> QED BY <1>1, <3>3, <3>4, <3>5
  <2> QED BY <2>2, <2>3, <2>4
<1>5. CASE op.opcode \in {"TerminateSession", "ResetSessions"}
  <2> DEFINE t == [server EXCEPT !.open = NoSession]
  <2>1. s = <<t, Ack(op)>>
    BY <1>5, ServedIs
  <2>2. DOMAIN t = {"open", "written"} /\ t.open = NoSession /\ t.written = server.written
    BY <1>1
  <2> HIDE DEF t
  <2>3. s[1] = t /\ s[2] = Ack(op)
    BY <2>1
  <2>4. NoSession.session = -1 /\ DOMAIN NoSession = {"session", "file", "size"}
    BY DEF NoSession
  <2> QED BY <1>1, <1>3, <2>2, <2>3, <2>4
<1>6. CASE op.opcode = "ListDirectory"
  <2>1. s = <<server, Listing(op)>>
    BY <1>6, ServedIs
  <2>2. Replies(Listing(op), op)
    BY <1>1, ListingIs DEF Replies
  <2> QED BY <1>2, <2>1, <2>2
<1>7. CASE op.opcode \in {"BurstReadFile", "ReadFile", "WriteFile"} /\ ~InSession(op)
  <2>1. s = <<server, Nack(op, 4)>>
    BY <1>7, ServedIs
  <2> QED BY <1>2, <1>3, <2>1
<1>8. CASE op.opcode \in {"BurstReadFile", "ReadFile"} /\ InSession(op)
  <2>1. s = <<server, Reads(op)>>
    BY <1>8, ServedIs
  <2> QED BY <1>2, <2>1, ReadsReply
<1>9. CASE op.opcode = "WriteFile" /\ InSession(op)
  <2> DEFINE t == [server EXCEPT !.written = @ \union {op.offset}]
  <2>1. s = <<t, Ack(op)>>
    BY <1>9, ServedIs
  <2>2. DOMAIN t = {"open", "written"} /\ t.open = server.open
        /\ t.written = server.written \union {op.offset}
    BY <1>1
  <2> HIDE DEF t
  <2>3. s[1] = t /\ s[2] = Ack(op)
    BY <2>1
  <2>4. op.offset \in server.written => server.written \union {op.offset} = server.written
    OBVIOUS
  <2> QED BY <1>1, <1>3, <1>9, <2>2, <2>3, <2>4
<1>10. CASE op.opcode \notin {"OpenFileRO", "CreateFile", "TerminateSession", "ResetSessions",
                                "ListDirectory", "BurstReadFile", "ReadFile", "WriteFile"}
  <2>1. s = <<server, Ack(op)>>
    BY <1>10, ServedIs
  <2> QED BY <1>2, <1>3, <2>1
<1> QED BY <1>4, <1>5, <1>6, <1>7, <1>8, <1>9, <1>10

\* The server has taken a request.
LEMMA ServerTakes ==
    ASSUME FtpAssumption, World, c.session \in Nat, ServerStep
    PROVE  LET op == Head(up)
               s == Served(op) IN
           /\ IsOp(op) /\ op.session <= c.session /\ op \in ToSet(up) /\ op = up[1] /\ 1 \in DOMAIN up
           /\ World' /\ Limit' = Limit /\ UNCHANGED <<c, budget>>
           /\ server' = s[1] /\ down' = down \o s[2] /\ Replies(s[2], op)
           /\ ToSet(down') = ToSet(down) \union ToSet(s[2])
           /\ up' = Tail(up) /\ up # <<>> /\ ToSet(up') \subseteq ToSet(up) /\ Len(up) \in Nat
           /\ DOMAIN up = 1 .. Len(up) /\ Len(up') = Len(up) - 1 /\ DOMAIN up' = 1 .. Len(up) - 1
           /\ \A i \in DOMAIN up' : i + 1 \in DOMAIN up /\ i + 1 # 1 /\ up'[i] = up[i + 1]
<1> DEFINE op == Head(up)
           s == Served(op)
<1>1. /\ up # <<>> /\ server' = s[1] /\ down' = down \o s[2] /\ up' = Tail(up)
      /\ UNCHANGED <<c, budget>>
  BY DEF ServerStep
<1>2. Sequential(up) /\ Sequential(down)
  BY DEF World
<1>3. /\ op \in ToSet(up) /\ op = up[1] /\ Sequential(up') /\ ToSet(up') \subseteq ToSet(up)
      /\ 1 \in DOMAIN up /\ Len(up) \in Nat
      /\ DOMAIN up = 1 .. Len(up) /\ Len(up') = Len(up) - 1 /\ DOMAIN up' = 1 .. Len(up) - 1
      /\ \A i \in DOMAIN up' : i + 1 \in DOMAIN up /\ i + 1 # 1 /\ up'[i] = up[i + 1]
  BY <1>1, <1>2, Taken
<1>4. IsOp(op) /\ op.session <= c.session
  BY <1>3 DEF World
<1> HIDE DEF op
<1>5. /\ Replies(s[2], op)
      /\ DOMAIN s[1] = {"open", "written"} /\ DOMAIN s[1].open = {"session", "file", "size"}
      /\ s[1].open.session \in Int /\ s[1].open.session <= c.session
      /\ s[1].open = NoSession \/ s[1].open.session \in Nat
  BY <1>4, Replied
<1> HIDE DEF s
<1>6. Sequential(down') /\ ToSet(down') = ToSet(down) \union ToSet(s[2])
  BY <1>1, <1>2, <1>5, Concatenated DEF Replies
<1>7. \A r \in ToSet(down') : r.session \in Nat /\ r.session <= c.session
  BY <1>4, <1>5, <1>6 DEF World, Replies, IsOp
<1>8. World'
  BY <1>1, <1>3, <1>5, <1>6, <1>7 DEF World
<1>9. Limit' = Limit
  BY <1>1 DEF Limit
<1> QED BY <1>1, <1>3, <1>4, <1>5, <1>6, <1>8, <1>9 DEF op, s

\* One element at the end.
LEMMA AtEnd ==
    ASSUME NEW s, Sequential(s), NEW e
    PROVE  /\ DOMAIN (s \o <<e>>) = 1 .. Len(s) + 1 /\ DOMAIN s = 1 .. Len(s) /\ Len(s) \in Nat
           /\ Len(s \o <<e>>) = Len(s) + 1
           /\ \A i \in DOMAIN s : (s \o <<e>>)[i] = s[i]
           /\ (s \o <<e>>)[Len(s) + 1] = e
<1> DEFINE S == ToSet(s) \union {e}
<1>1. s \in Seq(S) /\ e \in S
  BY Wider
<1> HIDE DEF S
<1>2. Append(s, e) = s \o <<e>>
  BY <1>1, AppendIsConcat
<1>3. /\ DOMAIN Append(s, e) = 1 .. Len(s) + 1
      /\ DOMAIN s = 1 .. Len(s) /\ Len(s) \in Nat
      /\ \A i \in DOMAIN s : Append(s, e)[i] = s[i]
      /\ Append(s, e)[Len(s) + 1] = e
  BY Appended
<1>4. Len(Append(s, e)) = Len(s) + 1
  BY <1>1
<1> QED BY <1>2, <1>3, <1>4

\* What asking for a file is answered with.
LEMMA OpenReply ==
    ASSUME NEW op, op.opcode = "OpenFileRO", DOMAIN server = {"open", "written"},
           NEW s, s = Served(op)
    PROVE  /\ s[2] = <<s[2][1]>> /\ s[2][1].req = "OpenFileRO" /\ s[2][1].session = op.session
           /\ s[2][1].ack => /\ op.file \in Files /\ s[2][1].len = Size[op.file]
                             /\ s[1].open = [session |-> op.session, file |-> op.file, size |-> 0]
<1>1. s = Opens(op)
  BY ServedIs
<1>2. CASE server.open # NoSession
  <2> DEFINE r == Reply(op, FALSE, 0, <<5>>)
  <2>1. s = <<server, <<r>> >>
    BY <1>1, <1>2 DEF Opens, Nack
  <2>2. r.req = op.opcode /\ r.session = op.session /\ ~r.ack
    BY DEF Reply
  <2> HIDE DEF r
  <2>3. s[2] = <<r>> /\ <<r>>[1] = r
    BY <2>1
  <2> QED BY <2>2, <2>3
<1>3. CASE server.open = NoSession /\ op.file \notin Files
  <2> DEFINE r == Reply(op, FALSE, 0, <<10>>)
  <2>1. s = <<server, <<r>> >>
    BY <1>1, <1>3 DEF Opens, Nack
  <2>2. r.req = op.opcode /\ r.session = op.session /\ ~r.ack
    BY DEF Reply
  <2> HIDE DEF r
  <2>3. s[2] = <<r>> /\ <<r>>[1] = r
    BY <2>1
  <2> QED BY <2>2, <2>3
<1>4. CASE server.open = NoSession /\ op.file \in Files
  <2> DEFINE r == Reply(op, TRUE, Size[op.file], <<>>)
             t == [server EXCEPT !.open = [session |-> op.session, file |-> op.file, size |-> 0],
                                 !.written = @]
  <2>1. s = <<t, <<r>> >>
    BY <1>1, <1>4 DEF Opens
  <2>2. r.req = op.opcode /\ r.session = op.session /\ r.len = Size[op.file]
    BY DEF Reply
  <2>3. t.open = [session |-> op.session, file |-> op.file, size |-> 0]
    OBVIOUS
  <2> HIDE DEF r, t
  <2>4. s[2] = <<r>> /\ <<r>>[1] = r /\ s[1] = t
    BY <2>1
  <2> QED BY <1>4, <2>2, <2>3, <2>4
<1> QED BY <1>2, <1>3, <1>4

\* The server keeps the invariant in every phase.
LEMMA AskingServed ==
    ASSUME FtpAssumption, IInv, Asking, ServerStep
    PROVE  IInv'
<1> DEFINE op == Head(up)
           s == Served(op)
<1>1. /\ World /\ Formed(c) /\ c.session \in Nat /\ Asks(c) /\ c.told = <<>> /\ Sequential(down)
      /\ c.out = <<>> /\ TransfersWhole
  BY DEF IInv, Asking, Asks, Reading, Formed, World
<1>2. /\ IsOp(op) /\ op.session <= c.session /\ op \in ToSet(up) /\ op = up[1] /\ 1 \in DOMAIN up
      /\ World' /\ Limit' = Limit /\ UNCHANGED <<c, budget>>
      /\ server' = s[1] /\ down' = down \o s[2] /\ Replies(s[2], op)
      /\ ToSet(down') = ToSet(down) \union ToSet(s[2])
      /\ up' = Tail(up) /\ up # <<>> /\ Len(up) \in Nat
      /\ DOMAIN up = 1 .. Len(up) /\ Len(up') = Len(up) - 1 /\ DOMAIN up' = 1 .. Len(up) - 1
      /\ \A i \in DOMAIN up' : i + 1 \in DOMAIN up /\ i + 1 # 1 /\ up'[i] = up[i + 1]
  BY <1>1, ServerTakes
<1>3. c.last_op = Op("OpenFileRO", c.session, 0, 0, c.filename)
  BY <1>1 DEF Asks
<1>4. \A i \in DOMAIN up :
          IF up[i].session = c.session THEN i = Len(up) /\ up[i] = c.last_op
          ELSE up[i].opcode \in {"OpenFileRO", "TerminateSession"}
  BY DEF Asking
<1>5. \A r \in ToSet(down) : r.session # c.session
  BY <1>2 DEF Asking, ToSet
<1>6. DOMAIN server = {"open", "written"}
  BY <1>1 DEF World
<1> HIDE DEF op, s
<1>7. TransfersWhole'
  BY <1>1, <1>2 DEF TransfersWhole, Told, Formed
<1>8. \A i \in DOMAIN up' :
          IF up'[i].session = c'.session THEN i = Len(up') /\ up'[i] = c'.last_op
          ELSE up'[i].opcode \in {"OpenFileRO", "TerminateSession"}
  <2> TAKE i \in DOMAIN up'
  <2>1. i + 1 \in DOMAIN up /\ up'[i] = up[i + 1] /\ i \in Nat
    BY <1>2
  <2>2. i + 1 = Len(up) => i = Len(up')
    BY <1>2, <2>1
  <2> QED BY <1>2, <1>4, <2>1, <2>2
<1>9. \A i \in DOMAIN down' : down'[i].session = c'.session =>
          /\ up' = <<>> /\ i = Len(down') /\ down'[i].req = "OpenFileRO"
          /\ down'[i].ack => /\ c'.filename \in Files /\ down'[i].len = Size[c'.filename]
                             /\ server'.open = [session |-> c'.session, file |-> c'.filename, size |-> 0]
  <2>1. CASE op.session # c.session
    <3>1. \A r \in ToSet(down') : r.session # c.session
      BY <1>2, <1>5, <2>1 DEF Replies
    <3> QED BY <1>2, <3>1 DEF ToSet
  <2>2. CASE op.session = c.session
    <3>1. Len(up) = 1 /\ op = c.last_op
      BY <1>2, <1>4, <2>2
    <3>2. op.opcode = "OpenFileRO" /\ op.file = c.filename
      BY <1>3, <3>1 DEF Op
    <3> DEFINE x == s[2][1]
    <3>3. /\ s[2] = <<x>> /\ x.req = "OpenFileRO" /\ x.session = op.session
          /\ x.ack => /\ op.file \in Files /\ x.len = Size[op.file]
                      /\ s[1].open = [session |-> op.session, file |-> op.file, size |-> 0]
      BY <1>6, <3>2, OpenReply DEF s
    <3> HIDE DEF x
    <3>4. /\ down' = down \o <<x>> /\ DOMAIN (down \o <<x>>) = 1 .. Len(down) + 1
          /\ DOMAIN down = 1 .. Len(down) /\ Len(down) \in Nat /\ Len(down \o <<x>>) = Len(down) + 1
          /\ \A i \in DOMAIN down : (down \o <<x>>)[i] = down[i]
          /\ (down \o <<x>>)[Len(down) + 1] = x
      BY <1>1, <1>2, <3>3, AtEnd
    <3>5. up' = <<>>
      <4>1. Sequential(up') /\ Len(up') = 0
        BY <1>2, <3>1 DEF World
      <4> QED BY <4>1 DEF Sequential
    <3> TAKE i \in DOMAIN down'
    <3> SUFFICES ASSUME down'[i].session = c'.session
                 PROVE  /\ i = Len(down') /\ down'[i].req = "OpenFileRO"
                        /\ down'[i].ack =>
                             /\ c'.filename \in Files /\ down'[i].len = Size[c'.filename]
                             /\ server'.open = [session |-> c'.session, file |-> c'.filename, size |-> 0]
      BY <3>5
    <3>6. i \notin DOMAIN down
      <4> SUFFICES ASSUME i \in DOMAIN down PROVE FALSE
        OBVIOUS
      <4>1. down'[i] = down[i] /\ down[i] \in ToSet(down)
        BY <3>4 DEF ToSet
      <4> QED BY <1>2, <1>5, <4>1
    <3>7. i = Len(down) + 1
      BY <3>4, <3>6
    <3>8. down'[i] = x /\ i = Len(down')
      BY <3>4, <3>7
    <3> QED BY <1>2, <2>2, <3>2, <3>3, <3>8
  <2> QED BY <2>1, <2>2
<1>10. Asks(c') /\ c'.last_send < IdleTime /\ c'.session + 4 - c'.open_retries <= Limit'
  BY <1>2 DEF Asking
<1>11. Asking'
  BY <1>8, <1>9, <1>10 DEF Asking
<1> QED BY <1>1, <1>2, <1>7, <1>11 DEF IInv, Phase

\* The server reads what it is asked to read.
LEMMA RightReplies ==
    ASSUME FtpAssumption, Target(c), server.open.file = c.filename, NEW op, ReadOp(op, c.session)
    PROVE  \A r \in ToSet(Reads(op)) : Right(r, c)
<1> DEFINE F == Size[c.filename]
           b == burst_read_size
<1>1. F \in Nat /\ b \in Nat \ {0} /\ op.offset \in Nat /\ op.session = c.session
  BY DEF FtpAssumption, Target, Files, ReadOp, IsOp
<1>2. \A o, size : Left(o, size) = IF F - o < size THEN F - o ELSE size
  BY DEF Left
<1>3. op.size \in 1 .. b /\ op.opcode \in {"BurstReadFile", "ReadFile"}
      /\ (op.opcode = "BurstReadFile" => op.size = b)
  BY <1>1 DEF ReadOp
<1>4. ASSUME NEW o \in Nat
      PROVE  LET n == Left(o, op.size) IN
             /\ n \in Int
             /\ n > 0 => n \in 1 .. b /\ o + n <= F /\ (n < op.size => o + n = F)
             /\ ~(n > 0) => o >= F
  <2> DEFINE n == Left(o, op.size)
  <2>1. n = IF F - o < op.size THEN F - o ELSE op.size
    BY <1>2
  <2> HIDE DEF n, F
  <2> QED BY <1>1, <1>3, <2>1 DEF n
<1> HIDE DEF F
<1>5. CASE op.opcode = "BurstReadFile"
  <2>1. Reads(op) = Burst(op)
    BY <1>5 DEF Reads
  <2>2. PICK last \in 1 .. ServerBurst : Burst(op) = [i \in 1 .. last |-> BurstPacket(op, i)]
    BY BurstIs
  <2>3. ServerBurst \in Nat
    BY DEF FtpAssumption
  <2> SUFFICES ASSUME NEW r \in ToSet(Reads(op)) PROVE Right(r, c)
    OBVIOUS
  <2>4. PICK i \in 1 .. last : r = BurstPacket(op, i)
    BY <2>1, <2>2 DEF ToSet
  <2> DEFINE o == op.offset + (i - 1) * op.size
             n == Left(o, op.size)
  <2>5. o \in Nat
    <3>1. i - 1 \in Nat /\ op.size \in Nat
      BY <1>1, <1>3, <2>3
    <3>2. (i - 1) * op.size \in Nat
      BY <3>1, Products
    <3> QED BY <1>1, <3>2
  <2>6. /\ r.req = op.opcode /\ r.session = op.session /\ r.offset = o /\ r.ack = (n > 0)
        /\ r.len = (IF n > 0 THEN n ELSE 0) /\ r.payload = (IF n > 0 THEN <<>> ELSE EndOfFile)
        /\ r.file = server.open.file
    BY <2>4, PacketIs
  <2>7. /\ n \in Int
        /\ n > 0 => n \in 1 .. b /\ o + n <= F /\ (n < op.size => o + n = F)
        /\ ~(n > 0) => o >= F
    BY <1>4, <2>5
  <2> HIDE DEF o, n
  <2>8. r.ack => /\ r.file = c.filename /\ r.len \in 1 .. b /\ r.offset + r.len <= F
                 /\ r.req = "BurstReadFile" /\ r.len < b => r.offset + r.len = F
    BY <1>3, <1>5, <2>6, <2>7
  <2>9. ~r.ack => r.payload = EndOfFile /\ r.len = 0 /\ r.offset >= F
    BY <2>6, <2>7
  <2> QED BY <1>1, <1>3, <2>5, <2>6, <2>8, <2>9 DEF Right, F
<1>6. CASE op.opcode = "ReadFile" /\ Left(op.offset, op.size) <= 0
  <2>1. Reads(op) = Nack(op, 6)
    BY <1>6 DEF Reads
  <2> DEFINE r == Nack(op, 6)[1]
  <2>2. /\ ToSet(Reads(op)) = {r} /\ r.req = op.opcode /\ r.session = op.session /\ ~r.ack
        /\ r.len = 0 /\ r.offset = op.offset /\ r.payload = EndOfFile
    BY <2>1, NackIs DEF EndOfFile
  <2>3. op.offset >= F
    <3>1. Left(op.offset, op.size) \in Int
          /\ (~(Left(op.offset, op.size) > 0) => op.offset >= F)
      BY <1>1, <1>4
    <3> QED BY <1>6, <3>1
  <2> HIDE DEF r
  <2>4. Right(r, c)
    BY <1>1, <1>6, <2>2, <2>3 DEF Right, F
  <2> QED BY <2>2, <2>4
<1>7. CASE op.opcode = "ReadFile" /\ ~(Left(op.offset, op.size) <= 0)
  <2> DEFINE n == Left(op.offset, op.size)
             r == [Reply(op, TRUE, n, <<>>) EXCEPT !.file = server.open.file]
  <2>1. Reads(op) = <<r>>
    BY <1>7 DEF Reads
  <2>2. /\ r.req = op.opcode /\ r.session = op.session /\ r.ack /\ r.len = n
        /\ r.offset = op.offset /\ r.file = server.open.file
    BY DEF Reply
  <2>3. /\ n \in Int
        /\ n > 0 => n \in 1 .. b /\ op.offset + n <= F
    BY <1>1, <1>4
  <2> HIDE DEF r, n
  <2>4. n \in 1 .. b /\ op.offset + n <= F
    BY <1>7, <2>3 DEF n
  <2>5. Right(r, c)
    BY <1>1, <1>7, <2>2, <2>4 DEF Right, F
  <2> QED BY <2>1, <2>5, One
<1> QED BY <1>3, <1>5, <1>6, <1>7

LEMMA DownloadingServed ==
    ASSUME FtpAssumption, IInv, Downloading, ServerStep
    PROVE  IInv'
<1> DEFINE op == Head(up)
           s == Served(op)
<1>1. /\ World /\ Formed(c) /\ c.session \in Nat /\ c.told = <<>> /\ Target(c) /\ GoesOn(c)
      /\ c.out = <<>> /\ TransfersWhole
  <2>1. GoesOn(c) /\ Reading(c) /\ Target(c)
    BY DEF Downloading, GoesOn, Downloads
  <2> QED BY <2>1 DEF IInv, Reading, Formed
<1>2. /\ IsOp(op) /\ op \in ToSet(up)
      /\ World' /\ Limit' = Limit /\ UNCHANGED <<c, budget>>
      /\ server' = s[1] /\ ToSet(down') = ToSet(down) \union ToSet(s[2])
      /\ ToSet(up') \subseteq ToSet(up)
  BY <1>1, ServerTakes
<1>3. /\ ReadOp(op, c.session) /\ server.open.session = c.session /\ server.open.file = c.filename
      /\ \A o \in ToSet(up) : ReadOp(o, c.session)
      /\ \A r \in ToSet(down) : Right(r, c)
  BY <1>2 DEF Downloading
<1> HIDE DEF op
<1>4. s = <<server, Reads(op)>>
  BY <1>3, ServedIs DEF ReadOp, InSession
<1> HIDE DEF s
<1>5. s[1] = server /\ s[2] = Reads(op)
  BY <1>4
<1>6. \A r \in ToSet(down') : Right(r, c)
  BY <1>1, <1>2, <1>3, <1>5, RightReplies
<1>7. TransfersWhole'
  BY <1>1, <1>2 DEF TransfersWhole, Told, Formed
<1>8. GoesOn(c') /\ c'.last_send < IdleTime /\ c'.session + 2 <= Limit'
  BY <1>1, <1>2 DEF Downloading
<1>9. Downloading'
  BY <1>2, <1>3, <1>5, <1>6, <1>8 DEF Downloading
<1> QED BY <1>1, <1>2, <1>7, <1>9 DEF IInv, Phase

\* The file is made only where none is open.
LEMMA CreateReply ==
    ASSUME NEW op, op.opcode = "CreateFile", DOMAIN server = {"open", "written"},
           NEW s, s = Served(op)
    PROVE  \/ s[1] = server /\ \A r \in ToSet(s[2]) : ~r.ack
           \/ s[1].open.session = op.session /\ s[1].written = {}
<1>1. s = Opens(op)
  BY ServedIs
<1>2. CASE server.open # NoSession
  <2>1. s = <<server, Nack(op, 5)>>
    BY <1>1, <1>2 DEF Opens
  <2>2. \A r \in ToSet(Nack(op, 5)) : ~r.ack
    BY NackIs
  <2> QED BY <2>1, <2>2
<1>3. CASE server.open = NoSession
  <2> DEFINE t == [server EXCEPT !.open = [session |-> op.session, file |-> op.file, size |-> 0],
                                 !.written = {}]
             r == Reply(op, TRUE, 0, <<>>)
  <2>1. s = <<t, <<r>> >>
    BY <1>1, <1>3 DEF Opens
  <2>2. t.open.session = op.session /\ t.written = {}
    OBVIOUS
  <2> HIDE DEF t
  <2> QED BY <2>1, <2>2
<1> QED BY <1>2, <1>3

LEMMA PuttingServed ==
    ASSUME FtpAssumption, IInv, Putting, ServerStep
    PROVE  IInv'
<1> DEFINE op == Head(up)
           s == Served(op)
<1>1. /\ World /\ Formed(c) /\ c.session \in Nat /\ c.told = <<>> /\ Puts(c)
      /\ c.out = <<>> /\ TransfersWhole /\ Sequential(down)
  BY DEF IInv, Putting, Puts, Formed, World
<1>2. /\ IsOp(op) /\ op \in ToSet(up) /\ op = up[1] /\ 1 \in DOMAIN up
      /\ World' /\ Limit' = Limit /\ UNCHANGED <<c, budget>>
      /\ server' = s[1] /\ ToSet(down') = ToSet(down) \union ToSet(s[2]) /\ Replies(s[2], op)
      /\ ToSet(up') \subseteq ToSet(up) /\ Len(up) \in Nat /\ DOMAIN up' = 1 .. Len(up) - 1
      /\ \A i \in DOMAIN up' : i + 1 \in DOMAIN up /\ i + 1 # 1 /\ up'[i] = up[i + 1]
  BY <1>1, ServerTakes
<1>3. /\ WriteOp(op, c) /\ op.session = c.session
      /\ \A o \in ToSet(up) : WriteOp(o, c)
  BY <1>2 DEF Putting, WriteOp
<1>4. DOMAIN server = {"open", "written"}
  BY <1>1 DEF World
<1> HIDE DEF op, s
<1>5. \A i \in DOMAIN up' : up'[i].opcode # "CreateFile"
  BY <1>2 DEF Putting
<1>6. TransfersWhole'
  BY <1>1, <1>2 DEF TransfersWhole, Told, Formed
<1>7. \A r \in ToSet(down') : /\ r.session = c.session /\ r.req \in {"CreateFile", "WriteFile"}
  BY <1>2, <1>3 DEF Putting, Replies, WriteOp
<1> DEFINE Out == {r \in ToSet(down') : r.req = "WriteFile"}
           Held(sv) == /\ \A r \in Out : r.offset \in Offsets(c)
                       /\ sv.open.session # c.session =>
                             /\ c.write_list = 0 .. c.write_total - 1 /\ \A r \in ToSet(down') : ~r.ack
                       /\ sv.open.session = c.session =>
                             /\ sv.written \subseteq Offsets(c)
                             /\ \A b \in 0 .. c.write_total - 1 :
                                   b \notin c.write_list => b * write_size \in sv.written
                             /\ \A r \in Out : r.ack => r.offset \in sv.written
<1>8. /\ \A r \in ToSet(down) : r.req = "WriteFile" => r.offset \in Offsets(c)
      /\ server.open.session # c.session =>
           c.write_list = 0 .. c.write_total - 1 /\ \A r \in ToSet(down) : ~r.ack
      /\ server.open.session = c.session =>
           /\ server.written \subseteq Offsets(c)
           /\ \A b \in 0 .. c.write_total - 1 :
                 b \notin c.write_list => b * write_size \in server.written
           /\ \A r \in ToSet(down) : r.req = "WriteFile" /\ r.ack => r.offset \in server.written
  BY DEF Putting
<1>9. Held(server')
  <2>1. CASE op.opcode = "CreateFile"
    <3>1. down = <<>> /\ server.open.session # c.session
      BY <1>2, <2>1 DEF Putting
    <3>2. ToSet(down') = ToSet(s[2])
      BY <1>2, <3>1, OneElement
    <3>3. Out = {}
      BY <1>2, <2>1, <3>2 DEF Replies
    <3>4. \/ s[1] = server /\ \A r \in ToSet(s[2]) : ~r.ack
          \/ s[1].open.session = op.session /\ s[1].written = {}
      BY <1>4, <2>1, CreateReply DEF s
    <3> HIDE DEF Out
    <3>5. CASE s[1] = server /\ \A r \in ToSet(s[2]) : ~r.ack
      BY <1>2, <1>8, <3>1, <3>2, <3>3, <3>5
    <3>6. CASE s[1].open.session = op.session /\ s[1].written = {}
      BY <1>2, <1>3, <1>8, <3>1, <3>3, <3>6
    <3> QED BY <3>4, <3>5, <3>6
  <2>2. CASE op.opcode = "WriteFile" /\ server.open.session # c.session
    <3>1. s = <<server, Nack(op, 4)>>
      BY <1>3, <2>2, ServedIs DEF s, InSession
    <3>2. \A r \in ToSet(Nack(op, 4)) : ~r.ack /\ r.offset = op.offset
      BY NackIs
    <3>3. server' = server /\ ToSet(down') = ToSet(down) \union ToSet(Nack(op, 4))
      BY <1>2, <3>1
    <3>4. op.offset \in Offsets(c)
      BY <1>3, <2>2 DEF WriteOp
    <3> QED BY <1>8, <2>2, <3>2, <3>3, <3>4
  <2>3. CASE op.opcode = "WriteFile" /\ server.open.session = c.session
    <3> DEFINE t == [server EXCEPT !.written = @ \union {op.offset}]
    <3>1. s = <<t, Ack(op)>>
      BY <1>3, <2>3, ServedIs DEF s, InSession
    <3>2. t.open = server.open /\ t.written = server.written \union {op.offset}
      BY <1>4
    <3>3. \A r \in ToSet(Ack(op)) : r.offset = op.offset
      BY AckIs
    <3> HIDE DEF t
    <3>4. server' = t /\ ToSet(down') = ToSet(down) \union ToSet(Ack(op))
      BY <1>2, <3>1
    <3>5. op.offset \in Offsets(c)
      BY <1>3, <2>3 DEF WriteOp
    <3> QED BY <1>8, <2>3, <3>2, <3>3, <3>4, <3>5
  <2> QED BY <1>3, <2>1, <2>2, <2>3 DEF WriteOp
<1>10. Puts(c') /\ c'.last_send < IdleTime /\ c'.session + 2 <= Limit'
  BY <1>1, <1>2 DEF Putting
<1>11. \A o \in ToSet(up') : WriteOp(o, c')
  BY <1>2, <1>3
<1>12. Putting'
  <2>1. c' = c
    BY <1>2
  <2> QED BY <1>5, <1>7, <1>9, <1>10, <1>11, <2>1 DEF Putting
<1> QED BY <1>1, <1>2, <1>6, <1>12 DEF IInv, Phase

\* A sequence of length one.
LEMMA Single ==
    ASSUME NEW s, Sequential(s), Len(s) = 1
    PROVE  s = <<s[1]>>
<1> DEFINE S == ToSet(s)
<1>1. s \in Seq(S)
  BY DEF Sequential
<1> HIDE DEF S
<1> QED BY <1>1

\* Nothing is put before a sequence.
LEMMA FromNothing ==
    ASSUME NEW s, Sequential(s)
    PROVE  <<>> \o s = s
BY DEF Sequential

LEMMA ListingServed ==
    ASSUME FtpAssumption, IInv, Listing_, ServerStep
    PROVE  IInv'
<1> DEFINE op == Head(up)
           s == Served(op)
<1>1. /\ World /\ Formed(c) /\ c.session \in Nat /\ c.told = <<>> /\ Lists(c)
      /\ c.out = <<>> /\ TransfersWhole
  BY DEF IInv, Listing_, Lists, Formed
<1>2. /\ IsOp(op) /\ op = up[1] /\ Len(up) \in Nat /\ up # <<>>
      /\ World' /\ Limit' = Limit /\ UNCHANGED <<c, budget>>
      /\ server' = s[1] /\ down' = down \o s[2] /\ Len(up') = Len(up) - 1
  BY <1>1, ServerTakes
<1>3. up = <<c.last_op>> /\ down = <<>> /\ Len(up) = 1 /\ op = c.last_op
  BY <1>2 DEF Listing_, NoLink
<1>4. op = Op("ListDirectory", c.session, c.dir_offset, 0, None)
  BY <1>1, <1>3 DEF Lists
<1>5. op.opcode = "ListDirectory" /\ op.session = c.session /\ op.offset = c.dir_offset
  BY <1>4 DEF Op
<1>6. c.dir_offset \in 0 .. Len(Directory) /\ Len(Directory) \in Nat
  BY <1>1 DEF Lists, FtpAssumption
<1> HIDE DEF op, s
<1>7. s = <<server, Listing(op)>>
  BY <1>5, ServedIs DEF s
<1> DEFINE l == Listing(op)
<1>8. /\ Sequential(l) /\ Len(l) = 1
      /\ l[1].req = op.opcode /\ l[1].session = op.session
      /\ IF l[1].ack THEN op.offset < Len(Directory) /\ l[1].names = <<Directory[op.offset + 1]>>
         ELSE l[1].payload = EndOfFile /\ op.offset >= Len(Directory)
  BY <1>5, <1>6, ListingIs
<1> HIDE DEF l
<1>9. down' = l /\ server' = server
  <2>1. s[1] = server /\ s[2] = l
    BY <1>7 DEF l
  <2> QED BY <1>2, <1>3, <1>8, <2>1, FromNothing
<1>10. up' = <<>>
  <2>1. Sequential(up') /\ Len(up') = 0
    BY <1>2, <1>3 DEF World
  <2> QED BY <2>1 DEF Sequential
<1>11. down' # <<>> /\ Len(down') = 1
  <2>1. Len(down') = 1
    BY <1>8, <1>9
  <2>2. ASSUME down' = <<>> PROVE FALSE
    <3>1. Len(down') = 0
      BY <2>2
    <3> QED BY <2>1, <3>1
  <2> QED BY <2>1, <2>2
<1>12. /\ down'[1].req = "ListDirectory" /\ down'[1].session = c.session
       /\ IF down'[1].ack THEN /\ c.dir_offset < Len(Directory)
                               /\ down'[1].names = <<Directory[c.dir_offset + 1]>>
          ELSE down'[1].payload = EndOfFile /\ c.dir_offset = Len(Directory)
  BY <1>5, <1>6, <1>8, <1>9
<1>13. TransfersWhole'
  BY <1>1, <1>2 DEF TransfersWhole, Told, Formed
<1>14. c.last_send < IdleTime /\ c.session + 1 <= Limit /\ server.open.session < c.session
  BY <1>2 DEF Listing_, LinkAge, NoLink
<1>15. Listing_'
  <2>1. c' = c
    BY <1>2
  <2> QED BY <1>1, <1>2, <1>9, <1>10, <1>11, <1>12, <1>14, <2>1 DEF Listing_, LinkAge
<1> QED BY <1>1, <1>2, <1>13, <1>15 DEF IInv, Phase

LEMMA RequestingServed ==
    ASSUME FtpAssumption, IInv, Requesting, ServerStep
    PROVE  IInv'
<1> DEFINE op == Head(up)
           s == Served(op)
<1>1. /\ World /\ Formed(c) /\ c.session \in Nat /\ c.told = <<>> /\ Requests(c)
      /\ c.out = <<>> /\ TransfersWhole
  BY DEF IInv, Requesting, Requests, Formed
<1>2. /\ IsOp(op) /\ op \in ToSet(up) /\ up # <<>>
      /\ World' /\ Limit' = Limit /\ UNCHANGED <<c, budget>>
      /\ server' = s[1] /\ ToSet(down') = ToSet(down) \union ToSet(s[2])
      /\ ToSet(up') \subseteq ToSet(up) /\ Replies(s[2], op)
  BY <1>1, ServerTakes
<1>3. op.opcode \in Simple
  BY <1>2 DEF Requesting
<1>4. DOMAIN server = {"open", "written"} /\ server.open.session < c.session
  BY <1>1 DEF World, Requesting
<1> HIDE DEF op, s
<1>5. s[1].open.session < c.session
  <2>1. CASE op.opcode = "ResetSessions"
    <3> DEFINE t == [server EXCEPT !.open = NoSession]
    <3>1. s = <<t, Ack(op)>>
      BY <2>1, ServedIs DEF s
    <3>2. t.open.session = -1
      BY <1>4 DEF NoSession
    <3> HIDE DEF t
    <3> QED BY <1>1, <3>1, <3>2
  <2>2. CASE op.opcode # "ResetSessions"
    <3>1. op.opcode \notin {"OpenFileRO", "CreateFile", "TerminateSession", "ResetSessions",
                            "ListDirectory", "BurstReadFile", "ReadFile", "WriteFile"}
      BY <1>3, <2>2 DEF Simple
    <3>2. s = <<server, Ack(op)>>
      BY <3>1, ServedIs DEF s
    <3> QED BY <1>4, <3>2
  <2> QED BY <2>1, <2>2
<1>6. \A r \in ToSet(down') : r.req \in Simple
  BY <1>2, <1>3 DEF Requesting, Replies
<1>7. \A o \in ToSet(up') : o.opcode \in Simple
  BY <1>2 DEF Requesting
<1>8. TransfersWhole'
  BY <1>1, <1>2 DEF TransfersWhole, Told, Formed
<1>9. c.last_send < IdleTime /\ c.session + 1 <= Limit
  BY <1>2 DEF Requesting, LinkAge, NoLink
<1>10. Requesting'
  <2>1. c' = c
    BY <1>2
  <2> QED BY <1>1, <1>2, <1>5, <1>6, <1>7, <1>9, <2>1 DEF Requesting, LinkAge
<1> QED BY <1>1, <1>2, <1>8, <1>10 DEF IInv, Phase

LEMMA EndingServed ==
    ASSUME FtpAssumption, IInv, Ending, ServerStep
    PROVE  IInv'
<1> DEFINE op == Head(up)
           s == Served(op)
<1>1. World /\ Formed(c) /\ c.session \in Nat /\ c.out = <<>> /\ TransfersWhole
  BY DEF IInv, Formed
<1>2. /\ IsOp(op) /\ op.session <= c.session /\ op \in ToSet(up)
      /\ World' /\ Limit' = Limit /\ UNCHANGED <<c, budget>>
      /\ server' = s[1] /\ ToSet(up') \subseteq ToSet(up)
  BY <1>1, ServerTakes
<1> HIDE DEF op
<1>3. op.opcode # "CreateFile" /\ (op.opcode = "WriteFile" => op.offset \in server.written)
         => s[1].written = server.written
  BY <1>1, <1>2, Replied
<1> HIDE DEF s
<1>4. Told("put") /\ c.told[4] # 0 => server'.written = server.written
  BY <1>2, <1>3 DEF Ending
<1>5. TransfersWhole'
  BY <1>1, <1>2, <1>4 DEF TransfersWhole, Told
<1>6. Ending'
  <2>1. c' = c
    BY <1>2
  <2>2. Told("put")' = Told("put")
    BY <2>1 DEF Told
  <2> QED BY <1>2, <1>4, <2>1, <2>2 DEF Ending
<1> QED BY <1>1, <1>2, <1>5, <1>6 DEF IInv, Phase

LEMMA ReadyServed ==
    ASSUME FtpAssumption, IInv, Ready, ServerStep
    PROVE  IInv'
<1>1. World /\ Formed(c) /\ c.session \in Nat /\ c.out = <<>> /\ TransfersWhole
  BY DEF IInv, Formed
<1>2. up # <<>> /\ World' /\ Limit' = Limit /\ UNCHANGED <<c, budget>>
  BY <1>1, ServerTakes
<1>3. LeftOpen /\ NothingTold(c)
  BY <1>2 DEF Ready, NoLink
<1>4. TransfersWhole'
  BY <1>1, <1>2, <1>3 DEF TransfersWhole, Told, NothingTold
<1>5. Ready'
  <2>1. c' = c
    BY <1>2
  <2>2. LeftOpen' = LeftOpen
    BY <2>1 DEF LeftOpen
  <2> QED BY <1>2, <1>3, <2>1, <2>2 DEF Ready
<1> QED BY <1>1, <1>2, <1>4, <1>5 DEF IInv, Phase

\* Whatever the phase, the server's step keeps the invariant.
LEMMA ServerKeeps ==
    ASSUME FtpAssumption, IInv, ServerStep
    PROVE  IInv'
<1>1. ~Failing
  BY DEF Failing, NoLink, ServerStep
<1> QED BY <1>1, AskingServed, DownloadingServed, PuttingServed, ListingServed, RequestingServed,
           EndingServed, ReadyServed DEF IInv, Phase

(* ---------------------------- a packet is lost ------------------------------ *)
\* One end of the link is shorter by its first packet, the other one is as it was.
Shorter ==
    \/ up # <<>> /\ up' = Tail(up) /\ down' = down
    \/ down # <<>> /\ down' = Tail(down) /\ up' = up

\* A packet that is lost is taken away, and every phase bears it.
LEMMA LosePacketLessens ==
    ASSUME IInv, LosePacket
    PROVE  Lessens /\ Shorter
<1>1. Sequential(down) /\ Sequential(up)
  BY DEF IInv, World
<1>2. Shorter /\ UNCHANGED <<c, server>>
  BY DEF LosePacket, Shorter
<1>3. /\ DOMAIN budget' = {"loss", "late", "calls"} /\ budget'.calls = budget.calls
      /\ budget'.loss \in Nat /\ budget'.late \in Nat
  <2>1. /\ DOMAIN budget = {"loss", "late", "calls"} /\ budget.loss \in Nat /\ budget.late \in Nat
    BY DEF IInv, World
  <2> QED BY <2>1 DEF LosePacket
<1>4. /\ Sequential(up') /\ ToSet(up') \subseteq ToSet(up)
      /\ Sequential(down') /\ ToSet(down') \subseteq ToSet(down)
  BY <1>1, <1>2, Taken DEF Shorter
<1> QED BY <1>2, <1>3, <1>4 DEF Lessens

LEMMA AskingLessens ==
    ASSUME IInv, Asking, Lessens, Shorter
    PROVE  IInv'
<1>1. /\ Formed(c)' /\ c'.out = <<>> /\ World' /\ TransfersWhole' /\ Limit' = Limit
      /\ c' = c /\ server' = server
  BY Lessened DEF Lessens
<1>2. Sequential(up) /\ Sequential(down)
  BY DEF IInv, World
<1>3. \A i \in DOMAIN up :
          IF up[i].session = c.session THEN i = Len(up) /\ up[i] = c.last_op
          ELSE up[i].opcode \in {"OpenFileRO", "TerminateSession"}
  BY DEF Asking
<1>4. \A i \in DOMAIN down : down[i].session = c.session =>
          /\ up = <<>> /\ i = Len(down) /\ down[i].req = "OpenFileRO"
          /\ down[i].ack => /\ c.filename \in Files /\ down[i].len = Size[c.filename]
                            /\ server.open = [session |-> c.session, file |-> c.filename, size |-> 0]
  BY DEF Asking
<1>5. Asks(c') /\ c'.last_send < IdleTime /\ c'.session + 4 - c'.open_retries <= Limit'
  BY <1>1 DEF Asking
<1>6. CASE up # <<>> /\ up' = Tail(up) /\ down' = down
  <2>1. /\ Len(up) \in Nat /\ Len(up') = Len(up) - 1 /\ DOMAIN up' = 1 .. Len(up) - 1
        /\ \A i \in DOMAIN up' : i + 1 \in DOMAIN up /\ i + 1 # 1 /\ up'[i] = up[i + 1]
    BY <1>2, <1>6, Taken
  <2>2. \A i \in DOMAIN up' :
          IF up'[i].session = c.session THEN i = Len(up') /\ up'[i] = c.last_op
          ELSE up'[i].opcode \in {"OpenFileRO", "TerminateSession"}
    <3> TAKE i \in DOMAIN up'
    <3>1. i + 1 \in DOMAIN up /\ up'[i] = up[i + 1] /\ i \in Nat
      BY <2>1
    <3>2. i + 1 = Len(up) => i = Len(up')
      BY <2>1, <3>1
    <3> QED BY <1>3, <3>1, <3>2
  <2>3. \A i \in DOMAIN down' : down'[i].session # c.session
    BY <1>4, <1>6
  <2>4. Asking'
    BY <1>1, <1>5, <2>2, <2>3 DEF Asking
  <2> QED BY <1>1, <2>4 DEF IInv, Phase
<1>7. CASE down # <<>> /\ down' = Tail(down) /\ up' = up
  <2>1. /\ Len(down) \in Nat /\ Len(down') = Len(down) - 1 /\ DOMAIN down' = 1 .. Len(down) - 1
        /\ \A i \in DOMAIN down' : i + 1 \in DOMAIN down /\ i + 1 # 1 /\ down'[i] = down[i + 1]
    BY <1>2, <1>7, Taken
  <2>2. \A i \in DOMAIN down' : down'[i].session = c.session =>
          /\ up = <<>> /\ i = Len(down') /\ down'[i].req = "OpenFileRO"
          /\ down'[i].ack => /\ c.filename \in Files /\ down'[i].len = Size[c.filename]
                             /\ server.open = [session |-> c.session, file |-> c.filename, size |-> 0]
    <3> TAKE i \in DOMAIN down'
    <3>1. i + 1 \in DOMAIN down /\ down'[i] = down[i + 1] /\ i \in Nat
      BY <2>1
    <3>2. i + 1 = Len(down) => i = Len(down')
      BY <2>1, <3>1
    <3> QED BY <1>4, <3>1, <3>2
  <2>3. Asking'
    BY <1>1, <1>3, <1>5, <1>7, <2>2 DEF Asking
  <2> QED BY <1>1, <2>3 DEF IInv, Phase
<1> QED BY <1>6, <1>7 DEF Shorter

LEMMA DownloadingLessens ==
    ASSUME IInv, Downloading, Lessens
    PROVE  IInv'
<1>1. /\ Formed(c)' /\ c'.out = <<>> /\ World' /\ TransfersWhole' /\ Limit' = Limit
      /\ c' = c /\ server' = server
      /\ ToSet(up') \subseteq ToSet(up) /\ ToSet(down') \subseteq ToSet(down)
  BY Lessened DEF Lessens
<1>2. GoesOn(c') /\ c'.last_send < IdleTime /\ c'.session + 2 <= Limit'
  BY <1>1 DEF Downloading
<1>3. Downloading'
  BY <1>1, <1>2 DEF Downloading
<1> QED BY <1>1, <1>3 DEF IInv, Phase

LEMMA PuttingLessens ==
    ASSUME IInv, Putting, Lessens, Shorter
    PROVE  IInv'
<1>1. /\ Formed(c)' /\ c'.out = <<>> /\ World' /\ TransfersWhole' /\ Limit' = Limit
      /\ c' = c /\ server' = server
      /\ ToSet(up') \subseteq ToSet(up) /\ ToSet(down') \subseteq ToSet(down)
  BY Lessened DEF Lessens
<1>2. Sequential(up) /\ Sequential(down)
  BY DEF IInv, World
<1>3. \A i \in DOMAIN up : up[i].opcode = "CreateFile" =>
          i = 1 /\ down = <<>> /\ server.open.session # c.session
  BY DEF Putting
<1>4. \A i \in DOMAIN up' : up'[i].opcode # "CreateFile"
  <2>1. CASE up # <<>> /\ up' = Tail(up) /\ down' = down
    <3>1. \A i \in DOMAIN up' : i + 1 \in DOMAIN up /\ i + 1 # 1 /\ up'[i] = up[i + 1]
      BY <1>2, <2>1, Taken
    <3> QED BY <1>3, <3>1
  <2>2. CASE down # <<>> /\ down' = Tail(down) /\ up' = up
    BY <1>3, <2>2
  <2> QED BY <2>1, <2>2 DEF Shorter
<1>5. Puts(c') /\ c'.last_send < IdleTime /\ c'.session + 2 <= Limit'
  BY <1>1 DEF Putting
<1>6. Putting'
  BY <1>1, <1>4, <1>5 DEF Putting
<1> QED BY <1>1, <1>6 DEF IInv, Phase

LEMMA ListingLessens ==
    ASSUME IInv, Listing_, Lessens, Shorter
    PROVE  IInv'
<1>1. /\ Formed(c)' /\ c'.out = <<>> /\ World' /\ TransfersWhole' /\ Limit' = Limit
      /\ c' = c /\ server' = server
      /\ Sequential(up') /\ Sequential(down')
  BY Lessened DEF Lessens
<1>2. Sequential(up) /\ Sequential(down)
  BY DEF IInv, World
<1>3. up' = <<>> /\ down' = <<>>
  <2>1. CASE up # <<>> /\ up' = Tail(up) /\ down' = down
    <3>1. Len(up) = 1 /\ down = <<>>
      BY <2>1 DEF Listing_, NoLink
    <3>2. Len(up') = 0
      BY <1>2, <2>1, <3>1, Taken
    <3> QED BY <1>1, <2>1, <3>1, <3>2 DEF Sequential
  <2>2. CASE down # <<>> /\ down' = Tail(down) /\ up' = up
    <3>1. Len(down) = 1 /\ up = <<>>
      BY <2>2 DEF Listing_, NoLink
    <3>2. Len(down') = 0
      BY <1>2, <2>2, <3>1, Taken
    <3> QED BY <1>1, <2>2, <3>1, <3>2 DEF Sequential
  <2> QED BY <2>1, <2>2 DEF Shorter
<1>4. Listing_'
  BY <1>1, <1>3 DEF Listing_, LinkAge, NoLink
<1> QED BY <1>1, <1>4 DEF IInv, Phase

LEMMA RequestingLessens ==
    ASSUME IInv, Requesting, Lessens, Shorter
    PROVE  IInv'
<1>1. /\ Formed(c)' /\ c'.out = <<>> /\ World' /\ TransfersWhole' /\ Limit' = Limit
      /\ c' = c /\ server' = server
      /\ ToSet(up') \subseteq ToSet(up) /\ ToSet(down') \subseteq ToSet(down)
  BY Lessened DEF Lessens
<1>2. ~NoLink
  BY DEF Shorter, NoLink
<1>3. Requesting'
  BY <1>1, <1>2 DEF Requesting, LinkAge
<1> QED BY <1>1, <1>3 DEF IInv, Phase

LEMMA ReadyLessens ==
    ASSUME IInv, Ready, Lessens, Shorter
    PROVE  IInv'
<1>1. /\ Formed(c)' /\ c'.out = <<>> /\ World' /\ TransfersWhole' /\ Limit' = Limit /\ c' = c
  BY Lessened DEF Lessens
<1>2. LeftOpen
  BY DEF Shorter, NoLink, Ready
<1>3. LeftOpen' = LeftOpen
  BY <1>1 DEF LeftOpen
<1>4. Ready'
  BY <1>1, <1>2, <1>3 DEF Ready
<1> QED BY <1>1, <1>4 DEF IInv, Phase

\* The loss of a packet keeps the invariant.
LEMMA LosePacketKeeps ==
    ASSUME IInv, LosePacket
    PROVE  IInv'
<1>1. Lessens /\ Shorter
  BY LosePacketLessens
<1>2. ~Failing
  BY <1>1 DEF Failing, NoLink, Shorter
<1> QED BY <1>1, <1>2, AskingLessens, DownloadingLessens, PuttingLessens, ListingLessens,
           RequestingLessens, EndingLessens, ReadyLessens DEF IInv, Phase

(* -------------------------------- the calls --------------------------------- *)
\* A caller makes the client n, and uses up one of its calls, if one is left.
Calls(n, left) ==
    /\ c' = [n EXCEPT !.out = <<>>] /\ up' = up \o n.out /\ server' = server /\ down' = down
    /\ budget' = [budget EXCEPT !.calls = left]

\* What holds of a client whose call has begun.
LEMMA Called ==
    ASSUME FtpAssumption, World, c.session \in Nat, NEW n, Formed(n), Known(n),
           n.session = c.session, NEW left \in 0 .. budget.calls, Calls(n, left)
    PROVE  /\ Formed(c)' /\ c'.out = <<>> /\ World' /\ Same(n, c', {"out"})
           /\ ToSet(up') = ToSet(up) \union ToSet(n.out)
           /\ Limit' = Limit + 4 * (budget.calls - left)
<1>1. Same(n, c', {"out"}) /\ c'.out = <<>>
  BY DEF Calls, Same, Formed, Fields
<1>2. Formed(c')
  <2>1. \A x \in Fields \ {"out"} : c'[x] = n[x]
    BY <1>1 DEF Same
  <2>2. Sequential(<<>>)
    BY DEF Sequential
  <2> QED BY <1>1, <2>1, <2>2 DEF Formed, Same, Fields
<1>3. Sequential(up') /\ ToSet(up') = ToSet(up) \union ToSet(n.out)
  BY Concatenated DEF Calls, World, Formed
<1>4. c'.session = c.session
  BY <1>1 DEF Same, Fields
<1>5. /\ MaxCalls \in Nat /\ budget.calls \in 0 .. MaxCalls
      /\ DOMAIN budget = {"loss", "late", "calls"} /\ budget.loss \in Nat /\ budget.late \in Nat
  BY DEF World, FtpAssumption
<1>6. /\ DOMAIN budget' = {"loss", "late", "calls"} /\ budget'.calls = left
      /\ budget'.loss = budget.loss /\ budget'.late = budget.late
  BY <1>5 DEF Calls
<1>7. World'
  <2>1. \A op \in ToSet(up') : IsOp(op) /\ op.session <= c'.session
    BY <1>3, <1>4 DEF World, Known
  <2> QED BY <1>3, <1>4, <1>5, <1>6, <2>1 DEF World, Calls
<1>8. Limit' = Limit + 4 * (budget.calls - left)
  BY <1>5, <1>6 DEF Limit
<1> QED BY <1>1, <1>2, <1>3, <1>7, <1>8

\* A call starts with a request.
LEMMA StartsWith ==
    ASSUME NEW m, Formed(m), m.out = <<>>, NEW op, IsOp(op), op.session = m.session
    PROVE  LET n == __send(m, op) IN
           /\ Same(m, n, {"out", "last_op", "last_send"}) /\ Formed(n) /\ Known(n)
           /\ n.last_op = op /\ n.last_send = 0 /\ n.out = <<op>> /\ n.session = m.session
           /\ \A x \in Fields \ {"out", "last_op", "last_send"} : n[x] = m[x]
<1> DEFINE n == __send(m, op)
<1>1. /\ Same(m, n, {"out", "last_op", "last_send"})
      /\ n.last_op = op /\ n.last_send = 0 /\ n.out = Append(m.out, op)
      /\ ToSet(n.out) = ToSet(m.out) \union {op} /\ Formed(n)
  BY Sent
<1> HIDE DEF n
<1>2. \A x \in Fields \ {"out", "last_op", "last_send"} : n[x] = m[x]
  BY <1>1 DEF Same
<1>3. n.session = m.session
  BY <1>2 DEF Fields
<1>4. n.out = <<op>>
  <2>1. Append(<<>>, op) = <<op>>
    OBVIOUS
  <2> QED BY <1>1, <2>1
<1>5. Known(n)
  <2>1. ToSet(n.out) = {op}
    BY <1>1, OneElement
  <2>2. op.session <= m.session
    BY DEF IsOp
  <2> QED BY <1>3, <2>1, <2>2 DEF Known
<1> QED BY <1>1, <1>2, <1>3, <1>4, <1>5 DEF n

\* The state in which a careful caller calls.
Free ==
    /\ World /\ Formed(c) /\ Cleared(c) /\ c.out = <<>> /\ NoLink /\ c.session \in Nat
    /\ server.open.session < c.session /\ c.session <= Limit /\ TransfersWhole
    /\ budget.calls > 0

\* What the beginning of a call touches.
LEMMA StartedIs ==
    ASSUME NEW m, DOMAIN m = Fields, NEW call
    PROVE  LET n == Started(m, call) IN
           /\ DOMAIN n = Fields /\ n.call = call /\ n.pc = "reply" /\ n.ret = "Fail" /\ n.told = <<>>
           /\ n.quiet = 0
           /\ \A x \in Fields \ {"call", "pc", "ret", "told", "quiet"} : n[x] = m[x]
BY DEF Started, Fields

Flag(b) == b \in BOOLEAN
Off(b) == b = FALSE

\* A file is asked for.
LEMMA FileAsked ==
    ASSUME FtpAssumption, NEW m, Formed(m), Cleared(m), m.out = <<>>, NEW call \in {"get", "read"},
           NEW file, NEW offset \in Nat, NEW size, NEW cb, Flag(cb),
           call = "read" => Off(cb) /\ Off(m.done),
           NEW n, n = AskOpen(m, call, file, offset, size, cb)
    PROVE  /\ Formed(n) /\ Asks(n) /\ Known(n) /\ n.session = m.session /\ n.last_send = 0
           /\ n.open_retries = 0 /\ n.out = <<n.last_op>>
<1> DEFINE s == Started(m, call)
           t == [s EXCEPT !.filename = file, !.op_start = 0,
                     !.callback = cb, !.reached_eof = FALSE, !.burst_size = burst_read_size,
                     !.open_retries = 0, !.requested_offset = offset, !.requested_size = size]
           op == Op("OpenFileRO", m.session, 0, 0, file)
<1>1. n = __send(t, op)
  BY DEF AskOpen
<1>2. /\ DOMAIN s = Fields /\ s.call = call /\ s.pc = "reply" /\ s.ret = "Fail" /\ s.told = <<>>
      /\ s.quiet = 0
      /\ \A x \in Fields \ {"call", "pc", "ret", "told", "quiet"} : s[x] = m[x]
  BY StartedIs DEF Formed
<1> HIDE DEF s
<1>3. /\ DOMAIN t = Fields /\ t.filename = file /\ t.op_start = 0 /\ t.callback = cb
      /\ t.reached_eof = FALSE /\ t.burst_size = burst_read_size /\ t.open_retries = 0
      /\ t.requested_offset = offset
      /\ \A x \in Fields \ {"filename", "op_start", "callback", "reached_eof", "burst_size",
                            "open_retries", "requested_offset", "requested_size"} : t[x] = s[x]
  BY <1>2 DEF Fields
<1> HIDE DEF t
<1>4. /\ t.call = call /\ t.pc = "reply" /\ t.ret = "Fail" /\ t.told = <<>> /\ t.quiet = 0
      /\ t.session = m.session /\ t.out = <<>> /\ t.last_send = m.last_send /\ t.done = m.done
      /\ t.list_result = m.list_result /\ t.fh = NotOpen /\ t.write_list = NoWrites
      /\ t.put_callback = FALSE /\ t.read_gaps = <<>> /\ t.read_gap_times = <<>>
      /\ t.read_total = 0 /\ t.last_burst_read = -1
  <2>1. /\ t.call = s.call /\ t.pc = s.pc /\ t.ret = s.ret /\ t.told = s.told /\ t.quiet = s.quiet
        /\ t.session = s.session /\ t.out = s.out /\ t.last_send = s.last_send /\ t.done = s.done
        /\ t.list_result = s.list_result /\ t.fh = s.fh /\ t.write_list = s.write_list
        /\ t.put_callback = s.put_callback /\ t.read_gaps = s.read_gaps
        /\ t.read_gap_times = s.read_gap_times
        /\ t.read_total = s.read_total /\ t.last_burst_read = s.last_burst_read
    BY <1>3 DEF Fields
  <2>2. /\ s.session = m.session /\ s.out = m.out /\ s.last_send = m.last_send /\ s.done = m.done
        /\ s.list_result = m.list_result /\ s.fh = m.fh /\ s.write_list = m.write_list
        /\ s.put_callback = m.put_callback /\ s.read_gaps = m.read_gaps
        /\ s.read_gap_times = m.read_gap_times
        /\ s.read_total = m.read_total /\ s.last_burst_read = m.last_burst_read
    BY <1>2 DEF Fields
  <2> QED BY <1>2, <2>1, <2>2 DEF Cleared, NoGaps
<1>5. Formed(t)
  <2>1. Sequential(<<>>)
    BY DEF Sequential
  <2> QED BY <1>3, <1>4, <2>1 DEF Formed
<1>6. IsOp(op) /\ op.session = t.session
  BY <1>4 DEF IsOp, Op, Formed
<1> HIDE DEF op
<1>7. /\ Formed(n) /\ Known(n) /\ DOMAIN n = Fields
      /\ n.last_op = op /\ n.last_send = 0 /\ n.out = <<op>> /\ n.session = t.session
      /\ \A x \in Fields \ {"out", "last_op", "last_send"} : n[x] = t[x]
  BY <1>1, <1>4, <1>5, <1>6, StartsWith DEF Same
<1>8. /\ n.call = call /\ n.pc = "reply" /\ n.told = <<>> /\ n.done = m.done /\ n.fh = NotOpen
      /\ n.write_list = NoWrites /\ n.put_callback = FALSE /\ n.read_gaps = <<>>
      /\ n.read_gap_times = <<>> /\ n.read_total = 0 /\ n.last_burst_read = -1
      /\ n.filename = file /\ n.op_start = 0 /\ n.callback = cb
      /\ n.reached_eof = FALSE /\ n.burst_size = burst_read_size /\ n.open_retries = 0
  BY <1>3, <1>4, <1>7 DEF Fields
<1>9. ReadRetryTime \in Nat /\ 0 < ReadRetryTime
  BY Settings
<1>10. Asks(n)
  <2>1. cb \in BOOLEAN /\ (call = "read" => cb = FALSE /\ m.done = FALSE)
    BY DEF Flag, Off
  <2> QED BY <1>4, <1>7, <1>8, <1>9, <2>1 DEF Asks, Reading, NoGaps, op
<1> QED BY <1>4, <1>7, <1>8, <1>10

\* What follows from the request being the only packet of the link.
LEMMA Alone ==
    ASSUME NoLink, NEW n, n.out = <<n.last_op>>, NEW left, Calls(n, left)
    PROVE  /\ up' = <<n.last_op>> /\ Len(up') = 1 /\ DOMAIN up' = 1 .. 1 /\ up'[1] = n.last_op
           /\ ToSet(up') = {n.last_op} /\ down' = <<>> /\ ToSet(down') = {} /\ DOMAIN down' = {}
           /\ server' = server
<1>1. up' = <<>> \o <<n.last_op>> /\ down' = <<>> /\ server' = server
  BY DEF Calls, NoLink
<1>2. <<>> \o <<n.last_op>> = <<n.last_op>> /\ Len(<<n.last_op>>) = 1 /\ DOMAIN <<n.last_op>> = 1 .. 1
  OBVIOUS
<1>3. DOMAIN <<>> = {}
  OBVIOUS
<1> QED BY <1>1, <1>2, <1>3, OneElement

\* The next state is one in which a file is asked for.
LEMMA AskCalled ==
    ASSUME FtpAssumption, Free, NEW n, Formed(n), Asks(n), Known(n), n.session = c.session,
           n.last_send = 0, n.open_retries = 0, n.out = <<n.last_op>>, Calls(n, budget.calls - 1)
    PROVE  IInv'
<1>1. budget.calls - 1 \in 0 .. budget.calls /\ c.session \in Nat /\ Limit \in Nat /\ World /\ NoLink
      /\ budget.calls \in Nat /\ c.session <= Limit
  <2>1. World /\ Limit \in Nat
    <3>1. World
      BY DEF Free
    <3>2. Limit \in 0 .. 253
      BY <3>1, LimitIs
    <3> QED BY <3>1, <3>2
  <2> QED BY <2>1, SMTT(60) DEF Free, World, FtpAssumption
<1>2. /\ Formed(c)' /\ c'.out = <<>> /\ World' /\ Same(n, c', {"out"})
      /\ Limit' = Limit + 4 * (budget.calls - (budget.calls - 1))
  BY <1>1, Called
<1>3. \A x \in Fields \ {"out"} : c'[x] = n[x]
  BY <1>2 DEF Same
<1>4. /\ c'.session = n.session /\ c'.last_send = n.last_send /\ c'.last_op = n.last_op
      /\ c'.open_retries = n.open_retries /\ c'.told = n.told /\ c'.list_result = n.list_result
  BY <1>3 DEF Fields
<1>5. Asks(c')
  BY <1>3 DEF Asks, Reading, NoGaps, Fields
<1>6. /\ up' = <<n.last_op>> /\ Len(up') = 1 /\ DOMAIN up' = 1 .. 1 /\ up'[1] = n.last_op
      /\ DOMAIN down' = {}
  BY <1>1, Alone
<1>7. n.last_op.session = n.session
  BY DEF Asks, Op
<1>8. c'.last_send < IdleTime /\ c'.session + 4 - c'.open_retries <= Limit'
  <2>1. 0 < IdleTime
    BY Settings
  <2>2. budget.calls - (budget.calls - 1) = 1
    BY <1>1
  <2>3. Limit' = Limit + 4
    BY <1>1, <1>2, <2>2
  <2>4. c'.last_send = 0 /\ c'.session = c.session /\ c'.open_retries = 0
    BY <1>4
  <2> QED BY <1>1, <2>1, <2>3, <2>4
<1>9. Asking'
  BY <1>4, <1>5, <1>6, <1>7, <1>8 DEF Asking
<1>10. TransfersWhole'
  BY <1>2, <1>4 DEF TransfersWhole, Told, Asks, Reading, Formed
<1> QED BY <1>2, <1>9, <1>10 DEF IInv, Phase

\* A file is put.
LEMMA PutAsked ==
    ASSUME FtpAssumption, NEW m, Formed(m), Cleared(m), m.out = <<>>, NEW file, NEW size \in Nat
    PROVE  LET n == cmd_put(m, file, size) IN
           /\ Formed(n) /\ Puts(n) /\ Known(n) /\ n.session = m.session /\ n.last_send = 0
           /\ n.out = <<n.last_op>> /\ n.last_op.opcode = "CreateFile"
           /\ n.write_list = 0 .. n.write_total - 1
<1> DEFINE s == Started(m, "put")
           t == [s EXCEPT !.fh = [tell |-> 0, data |-> <<>>], !.filename = file,
                    !.write_file_size = size, !.write_list = 0..(Blocks(size) - 1),
                    !.write_total = Blocks(size), !.write_idx = 0, !.write_recv_idx = -1,
                    !.write_pending = 0,
                        !.write_last_send = -1, !.put_callback = TRUE, !.op_start = 0]
           op == Op("CreateFile", m.session, 0, 0, file)
           n == cmd_put(m, file, size)
<1>1. n = __send(t, op)
  <2>1. m.write_list = NoWrites
    BY DEF Cleared
  <2> QED BY <2>1 DEF cmd_put
<1>2. /\ DOMAIN s = Fields /\ s.call = "put" /\ s.pc = "reply" /\ s.ret = "Fail" /\ s.told = <<>>
      /\ s.quiet = 0
      /\ \A x \in Fields \ {"call", "pc", "ret", "told", "quiet"} : s[x] = m[x]
  BY StartedIs DEF Formed
<1> HIDE DEF s
<1>3. /\ DOMAIN t = Fields /\ t.fh = [tell |-> 0, data |-> <<>>] /\ t.write_file_size = size
      /\ t.write_list = 0 .. (Blocks(size) - 1) /\ t.write_total = Blocks(size) /\ t.write_idx = 0
      /\ t.write_recv_idx = -1 /\ t.write_pending = 0 /\ t.write_last_send = -1
      /\ t.put_callback = TRUE
      /\ \A x \in Fields \ {"fh", "filename", "write_file_size", "write_list", "write_total",
                            "write_idx", "write_recv_idx", "write_pending", "write_last_send",
                            "put_callback", "op_start"} : t[x] = s[x]
  BY <1>2 DEF Fields
<1> HIDE DEF t
<1>4. /\ t.call = "put" /\ t.pc = "reply" /\ t.ret = "Fail" /\ t.told = <<>> /\ t.quiet = 0
      /\ t.session = m.session /\ t.out = <<>> /\ t.last_send = m.last_send /\ t.done = m.done
      /\ t.list_result = m.list_result /\ t.requested_offset = m.requested_offset
      /\ t.callback = FALSE /\ t.read_gaps = <<>> /\ t.read_gap_times = <<>>
      /\ t.read_total = 0 /\ t.last_burst_read = -1 /\ t.reached_eof = FALSE
  <2>1. /\ t.call = s.call /\ t.pc = s.pc /\ t.ret = s.ret /\ t.told = s.told /\ t.quiet = s.quiet
        /\ t.session = s.session /\ t.out = s.out /\ t.last_send = s.last_send /\ t.done = s.done
        /\ t.list_result = s.list_result /\ t.requested_offset = s.requested_offset
        /\ t.callback = s.callback /\ t.read_gaps = s.read_gaps
        /\ t.read_gap_times = s.read_gap_times /\ t.reached_eof = s.reached_eof
        /\ t.read_total = s.read_total /\ t.last_burst_read = s.last_burst_read
    BY <1>3 DEF Fields
  <2>2. /\ s.session = m.session /\ s.out = m.out /\ s.last_send = m.last_send /\ s.done = m.done
        /\ s.list_result = m.list_result /\ s.requested_offset = m.requested_offset
        /\ s.callback = m.callback /\ s.read_gaps = m.read_gaps
        /\ s.read_gap_times = m.read_gap_times /\ s.reached_eof = m.reached_eof
        /\ s.read_total = m.read_total /\ s.last_burst_read = m.last_burst_read
    BY <1>2 DEF Fields
  <2> QED BY <1>2, <2>1, <2>2 DEF Cleared, NoGaps
<1>5. Formed(t)
  <2>1. Sequential(<<>>)
    BY DEF Sequential
  <2> QED BY <1>3, <1>4, <2>1 DEF Formed
<1>6. IsOp(op) /\ op.session = t.session /\ op.opcode = "CreateFile"
  BY <1>4 DEF IsOp, Op, Formed
<1> HIDE DEF op
<1>7. /\ Formed(n) /\ Known(n) /\ DOMAIN n = Fields
      /\ n.last_op = op /\ n.last_send = 0 /\ n.out = <<op>> /\ n.session = t.session
      /\ \A x \in Fields \ {"out", "last_op", "last_send"} : n[x] = t[x]
  BY <1>1, <1>4, <1>5, <1>6, StartsWith DEF Same
<1> HIDE DEF n
<1>8. /\ n.call = "put" /\ n.pc = "reply" /\ n.told = <<>> /\ n.callback = FALSE
      /\ n.put_callback = TRUE /\ n.fh = [tell |-> 0, data |-> <<>>]
      /\ n.read_gaps = <<>> /\ n.read_gap_times = <<>>
      /\ n.read_total = 0 /\ n.last_burst_read = -1 /\ n.reached_eof = FALSE
      /\ n.write_file_size = size /\ n.write_total = Blocks(size)
      /\ n.write_list = 0 .. (Blocks(size) - 1) /\ n.write_idx = 0
      /\ n.write_recv_idx = -1 /\ n.write_pending = 0 /\ n.write_last_send = -1
  BY <1>3, <1>4, <1>7 DEF Fields
<1>9. WriteOp(op, n) /\ \A o \in ToSet(n.out) : WriteOp(o, n)
  <2>1. WriteOp(op, n)
    BY <1>6, <1>7 DEF WriteOp
  <2> QED BY <1>7, <2>1, OneElement
<1>10. write_qsize \in Nat
  BY Settings
<1>11. Puts(n)
  BY <1>7, <1>8, <1>9, <1>10 DEF Puts, NoGaps
<1> QED BY <1>4, <1>6, <1>7, <1>8, <1>11 DEF n

\* What a call adds to the room there is for sessions.
LEMMA Room ==
    ASSUME FtpAssumption, Free, NEW n, Formed(n), Known(n), n.session = c.session,
           Calls(n, budget.calls - 1)
    PROVE  /\ Formed(c)' /\ c'.out = <<>> /\ World' /\ Same(n, c', {"out"})
           /\ Limit' = Limit + 4 /\ c.session + 4 <= Limit' /\ Limit \in Nat /\ c.session \in Nat
<1>1. World /\ c.session \in Nat /\ c.session <= Limit /\ budget.calls > 0
  BY DEF Free
<1>2. Limit \in 0 .. 253
  BY <1>1, LimitIs
<1>3. budget.calls \in Nat
  BY <1>1 DEF World, FtpAssumption
<1>4. budget.calls - 1 \in 0 .. budget.calls /\ budget.calls - (budget.calls - 1) = 1
  BY <1>1, <1>3
<1>5. /\ Formed(c)' /\ c'.out = <<>> /\ World' /\ Same(n, c', {"out"})
      /\ Limit' = Limit + 4 * (budget.calls - (budget.calls - 1))
  BY <1>1, <1>4, Called
<1>6. Limit' = Limit + 4
  BY <1>2, <1>4, <1>5
<1> QED BY <1>1, <1>2, <1>5, <1>6

\* The next state is one in which a file is put.
LEMMA PutCalled ==
    ASSUME FtpAssumption, Free, NEW n, Formed(n), Puts(n), Known(n), n.session = c.session,
           n.last_send = 0, n.out = <<n.last_op>>, n.last_op.opcode = "CreateFile",
           n.write_list = 0 .. n.write_total - 1, Calls(n, budget.calls - 1)
    PROVE  IInv'
<1>1. /\ Formed(c)' /\ c'.out = <<>> /\ World' /\ Same(n, c', {"out"})
      /\ c.session + 4 <= Limit' /\ Limit' = Limit + 4 /\ Limit \in Nat /\ c.session \in Nat
  BY Room
<1>2. \A x \in Fields \ {"out"} : c'[x] = n[x]
  BY <1>1 DEF Same
<1>3. /\ c'.session = n.session /\ c'.last_send = n.last_send /\ c'.last_op = n.last_op
      /\ c'.write_total = n.write_total /\ c'.write_list = n.write_list
      /\ c'.told = n.told /\ c'.list_result = n.list_result /\ Offsets(c') = Offsets(n)
  BY <1>2 DEF Fields, Offsets
<1>4. \A o : WriteOp(o, n) <=> WriteOp(o, c')
  BY <1>3 DEF WriteOp
<1>5. Puts(c')
  <2>1. /\ c'.pc = "reply" /\ c'.call = "put" /\ c'.told = <<>>
        /\ c'.callback = FALSE /\ c'.put_callback = TRUE
        /\ c'.fh = [tell |-> 0, data |-> <<>>] /\ NoGaps(c')
        /\ c'.read_total = 0 /\ c'.last_burst_read = -1 /\ c'.reached_eof = FALSE
        /\ c'.write_file_size \in Nat /\ c'.write_total = Blocks(c'.write_file_size)
        /\ c'.write_list \subseteq 0 .. c'.write_total - 1
        /\ c'.write_idx \in Nat /\ c'.write_recv_idx \in Int /\ c'.write_pending \in 0 .. write_qsize
        /\ c'.write_last_send \in {-1, 0, 1} /\ (c'.write_last_send = -1 => c'.write_pending = 0)
    BY <1>2, ZenonT(60) DEF Puts, NoGaps, Fields
  <2>2. WriteOp(c'.last_op, c')
    BY <1>3, <1>4 DEF Puts
  <2>3. \A op \in ToSet(c'.out) : WriteOp(op, c')
    BY <1>1, OneElement
  <2> QED BY <2>1, <2>2, <2>3 DEF Puts
<1>6. /\ up' = <<n.last_op>> /\ DOMAIN up' = 1 .. 1 /\ up'[1] = n.last_op
      /\ ToSet(up') = {n.last_op} /\ down' = <<>> /\ ToSet(down') = {} /\ server' = server
  <2>1. NoLink
    BY DEF Free
  <2> QED BY <2>1, Alone
<1>7. server'.open.session # c'.session
  <2>1. server.open.session < c.session /\ server.open.session \in Int
    BY DEF Free, World
  <2> QED BY <1>1, <1>3, <1>6, <2>1
<1>8. c'.last_send < IdleTime /\ c'.session + 2 <= Limit'
  <2>1. 0 < IdleTime
    BY Settings
  <2>2. c'.last_send = 0 /\ c'.session = c.session
    BY <1>3
  <2> QED BY <1>1, <2>1, <2>2
<1>9. \A op \in ToSet(up') : WriteOp(op, c')
  BY <1>3, <1>5, <1>6 DEF Puts
<1>10. \A i \in DOMAIN up' : i = 1
  BY <1>6
<1>11. Putting'
  BY <1>3, <1>5, <1>6, <1>7, <1>8, <1>9, <1>10 DEF Putting
<1>12. TransfersWhole'
  BY <1>1, <1>3 DEF TransfersWhole, Told, Puts, Formed
<1> QED BY <1>1, <1>11, <1>12 DEF IInv, Phase

\* No names are an empty listing.
LEMMA NothingListed ==
    ASSUME FtpAssumption
    PROVE  SubSeq(Directory, 1, 0) = <<>> /\ Len(Directory) \in Nat
<1> DEFINE S == ToSet(Directory)
<1>1. Directory \in Seq(S) /\ Len(Directory) \in Nat
  BY DEF FtpAssumption
<1> HIDE DEF S
<1>2. SubSeq(Directory, 1, 0) \in Seq(S) /\ Len(SubSeq(Directory, 1, 0)) = 0
  BY <1>1
<1> QED BY <1>1, <1>2

\* The request of a listing, or a single one.
LEMMA Requested ==
    ASSUME FtpAssumption, NEW m, Formed(m), Cleared(m), m.out = <<>>, NEW call,
           NEW t, DOMAIN t = Fields, NEW op, IsOp(op), op.session = m.session,
           t.list_result \in {<<>>, Directory},
           \A x \in Fields \ {"list_result", "list_temp_result", "dir_offset"} : t[x] = Started(m, call)[x]
    PROVE  LET n == __send(t, op) IN
           /\ Formed(n) /\ Cleared(n) /\ Known(n) /\ n.session = m.session /\ n.last_send = 0
           /\ n.out = <<n.last_op>> /\ n.last_op = op /\ n.pc = "reply" /\ n.call = call
           /\ n.told = <<>> /\ n.dir_offset = t.dir_offset
           /\ n.list_temp_result = t.list_temp_result
<1> DEFINE s == Started(m, call)
           n == __send(t, op)
<1>1. /\ DOMAIN s = Fields /\ s.call = call /\ s.pc = "reply" /\ s.ret = "Fail" /\ s.told = <<>>
      /\ s.quiet = 0
      /\ \A x \in Fields \ {"call", "pc", "ret", "told", "quiet"} : s[x] = m[x]
  BY StartedIs DEF Formed
<1>2. \A x \in Fields \ {"list_result", "list_temp_result", "dir_offset"} : t[x] = s[x]
  OBVIOUS
<1> HIDE DEF s
<1>3. /\ t.call = call /\ t.pc = "reply" /\ t.ret = "Fail" /\ t.told = <<>> /\ t.quiet = 0
      /\ t.session = m.session /\ t.out = <<>> /\ t.last_send = m.last_send /\ t.done = m.done
      /\ t.requested_offset = m.requested_offset
  BY <1>1, <1>2 DEF Fields
<1>4. Formed(t)
  <2>1. Sequential(<<>>)
    BY DEF Sequential
  <2> QED BY <1>3, <2>1 DEF Formed
<1>5. /\ Formed(n) /\ Known(n) /\ DOMAIN n = Fields
      /\ n.last_op = op /\ n.last_send = 0 /\ n.out = <<op>> /\ n.session = t.session
      /\ \A x \in Fields \ {"out", "last_op", "last_send"} : n[x] = t[x]
  BY <1>3, <1>4, StartsWith DEF Same
<1> HIDE DEF n
<1>6. \A x \in Fields \ {"out", "last_op", "last_send", "list_result", "list_temp_result",
                         "dir_offset", "call", "pc", "ret", "told", "quiet"} : n[x] = m[x]
  BY <1>1, <1>2, <1>5
<1>7. Cleared(n)
  BY <1>6 DEF Cleared, NoGaps, Fields
<1>8. /\ n.pc = "reply" /\ n.call = call /\ n.told = <<>> /\ n.dir_offset = t.dir_offset
      /\ n.list_temp_result = t.list_temp_result
  BY <1>3, <1>5 DEF Fields
<1> QED BY <1>3, <1>5, <1>7, <1>8 DEF n

\* A listing and a single request begin.
LEMMA ListCalled ==
    ASSUME FtpAssumption, Free, NEW n, n = cmd_list(c), Calls(n, budget.calls - 1)
    PROVE  IInv'
<1> DEFINE t == [Started(c, "list") EXCEPT !.list_result = <<>>, !.list_temp_result = <<>>,
                                           !.dir_offset = 0]
           op == Op("ListDirectory", c.session, 0, 0, None)
<1>1. Formed(c) /\ Cleared(c) /\ c.out = <<>> /\ NoLink /\ c.session \in Nat
      /\ server.open.session < c.session /\ DOMAIN c = Fields
  BY DEF Free, Formed
<1>2. n = __send(t, op)
  BY DEF cmd_list
<1>3. /\ DOMAIN t = Fields /\ t.list_result \in {<<>>, Directory} /\ t.list_temp_result = <<>> /\ t.dir_offset = 0
      /\ \A x \in Fields \ {"list_result", "list_temp_result", "dir_offset"} :
            t[x] = Started(c, "list")[x]
  <2>1. DOMAIN Started(c, "list") = Fields
    BY <1>1, StartedIs
  <2> QED BY <2>1 DEF Fields
<1>4. IsOp(op) /\ op.session = c.session
  BY <1>1 DEF IsOp, Op
<1> HIDE DEF t
<1>5. /\ Formed(n) /\ Cleared(n) /\ Known(n) /\ n.session = c.session /\ n.last_send = 0
      /\ n.out = <<n.last_op>> /\ n.last_op = op /\ n.pc = "reply" /\ n.call = "list"
      /\ n.told = <<>> /\ n.dir_offset = 0 /\ n.list_temp_result = <<>>
  <2> HIDE DEF op
  <2> QED BY <1>1, <1>2, <1>3, <1>4, Requested
<1>6. /\ Formed(c)' /\ c'.out = <<>> /\ World' /\ Same(n, c', {"out"})
      /\ c.session + 4 <= Limit' /\ Limit' = Limit + 4 /\ Limit \in Nat
  BY <1>5, Room
<1>7. \A x \in Fields \ {"out"} : c'[x] = n[x]
  BY <1>6 DEF Same
<1>8. /\ c'.session = c.session /\ c'.last_op = op /\ c'.pc = "reply" /\ c'.call = "list"
      /\ c'.told = <<>> /\ c'.dir_offset = 0 /\ c'.list_temp_result = <<>>
      /\ c'.list_result = n.list_result /\ c'.last_send = 0
  BY <1>5, <1>7 DEF Fields
<1>9. Cleared(c')
  BY <1>5, <1>7 DEF Cleared, NoGaps, Fields
<1>10. Lists(c')
  BY <1>8, <1>9, NothingListed DEF Lists
<1>11. up' = <<c'.last_op>> /\ down' = <<>> /\ server' = server
  BY <1>1, <1>5, <1>8, Alone
<1>12. 0 < IdleTime
  BY Settings
<1>13. c'.session + 1 <= Limit'
  BY <1>1, <1>6, <1>8
<1>14. Listing_'
  BY <1>1, <1>8, <1>10, <1>11, <1>12, <1>13 DEF Listing_, LinkAge
<1>15. TransfersWhole'
  BY <1>6, <1>8 DEF TransfersWhole, Told, Formed
<1> QED BY <1>6, <1>14, <1>15 DEF IInv, Phase

LEMMA SimpleCalled ==
    ASSUME FtpAssumption, Free, NEW code \in Simple, NEW n, n = cmd_simple(c, code),
           Calls(n, budget.calls - 1)
    PROVE  IInv'
<1> DEFINE t == Started(c, code)
           op == Op(code, c.session, 0, 0, None)
<1>1. Formed(c) /\ Cleared(c) /\ c.out = <<>> /\ NoLink /\ c.session \in Nat
      /\ server.open.session < c.session /\ DOMAIN c = Fields
  BY DEF Free, Formed
<1>2. n = __send(t, op)
  BY DEF cmd_simple
<1>3. /\ DOMAIN t = Fields /\ t.list_result \in {<<>>, Directory}
      /\ \A x \in Fields \ {"list_result", "list_temp_result", "dir_offset"} :
            t[x] = Started(c, code)[x]
  <2>1. DOMAIN t = Fields /\ t.list_result = c.list_result
    BY <1>1, StartedIs DEF Fields
  <2> QED BY <1>1, <2>1 DEF Formed
<1>4. IsOp(op) /\ op.session = c.session /\ op.opcode = code
  BY <1>1 DEF IsOp, Op
<1> HIDE DEF t
<1>5. /\ Formed(n) /\ Cleared(n) /\ Known(n) /\ n.session = c.session /\ n.last_send = 0
      /\ n.out = <<n.last_op>> /\ n.last_op = op /\ n.pc = "reply" /\ n.call = code
      /\ n.told = <<>>
  <2> HIDE DEF op
  <2> QED BY <1>1, <1>2, <1>3, <1>4, Requested
<1>6. /\ Formed(c)' /\ c'.out = <<>> /\ World' /\ Same(n, c', {"out"})
      /\ c.session + 4 <= Limit' /\ Limit' = Limit + 4 /\ Limit \in Nat
  BY <1>5, Room
<1>7. \A x \in Fields \ {"out"} : c'[x] = n[x]
  BY <1>6 DEF Same
<1>8. /\ c'.session = c.session /\ c'.last_op = op /\ c'.pc = "reply" /\ c'.call = code
      /\ c'.told = <<>> /\ c'.list_result = n.list_result /\ c'.last_send = 0
  BY <1>5, <1>7 DEF Fields
<1>9. Cleared(c')
  BY <1>5, <1>7 DEF Cleared, NoGaps, Fields
<1>10. Requests(c')
  BY <1>8, <1>9 DEF Requests
<1>11. ToSet(up') = {op} /\ ToSet(down') = {} /\ server' = server
  BY <1>1, <1>5, Alone
<1>12. 0 < IdleTime
  BY Settings
<1>13. c'.session + 1 <= Limit'
  BY <1>1, <1>6, <1>8
<1>14. Requesting'
  BY <1>1, <1>4, <1>8, <1>10, <1>11, <1>12, <1>13 DEF Requesting, LinkAge
<1>15. TransfersWhole'
  BY <1>6, <1>8 DEF TransfersWhole, Told, Formed
<1> QED BY <1>6, <1>14, <1>15 DEF IInv, Phase

\* A get asks for its file.
LEMMA GetAsked ==
    ASSUME FtpAssumption, Formed(c), Cleared(c), c.out = <<>>, NEW f, NEW cb, Flag(cb),
           NEW o \in Nat, NEW size, NEW n, n = AskOpen(c, "get", f, o, size, cb)
    PROVE  /\ Formed(n) /\ Asks(n) /\ Known(n) /\ n.session = c.session /\ n.last_send = 0
           /\ n.open_retries = 0 /\ n.out = <<n.last_op>>
<1>1. "get" \in {"get", "read"} /\ ("get" = "read" => Off(cb) /\ Off(c.done))
  OBVIOUS
<1> QED BY <1>1, FileAsked

\* A careful caller calls when nothing is left open.
LEMMA CallKeeps ==
    ASSUME FtpAssumption, Careful, IInv, Call
    PROVE  IInv'
<1>1. /\ c.pc = "ready" /\ budget.calls > 0 /\ ~LeftOpen
      /\ budget' = [budget EXCEPT !.calls = @ - 1] /\ UNCHANGED <<server, down>>
  BY DEF Call
<1>2. Ready
  BY <1>1, Phases
<1>3. World /\ Formed(c) /\ c.out = <<>> /\ TransfersWhole /\ c.session \in Nat
  BY DEF IInv, Formed
<1>4. Limit \in 0 .. 253
  BY <1>3, LimitIs
<1>5. Cleared(c) /\ NoLink /\ server.open.session < c.session /\ c.session <= Limit
  BY <1>1, <1>2, <1>3, <1>4 DEF Ready
<1>6. Free
  BY <1>1, <1>3, <1>5 DEF Free
<1>7. \A n : Becomes(n) => Calls(n, budget.calls - 1)
  BY <1>1 DEF Becomes, Calls
<1>8. ASSUME NEW f, NEW cb, Flag(cb), Becomes(cmd_get(c, f, cb))
      PROVE  IInv'
  <2> DEFINE n == cmd_get(c, f, cb)
  <2>1. n = AskOpen(c, "get", f, c.requested_offset, c.requested_size, cb)
    BY DEF cmd_get
  <2>2. c.requested_offset \in Nat
    BY <1>3 DEF Formed
  <2> HIDE DEF n
  <2>3. /\ Formed(n) /\ Asks(n) /\ Known(n) /\ n.session = c.session /\ n.last_send = 0
        /\ n.open_retries = 0 /\ n.out = <<n.last_op>>
    BY <1>3, <1>5, <1>8, <2>1, <2>2, GetAsked
  <2>4. Calls(n, budget.calls - 1)
    BY <1>7, <1>8 DEF n
  <2> QED BY <1>6, <2>3, <2>4, AskCalled
<1>9. ASSUME NEW f, NEW o \in ReadOffsets, Becomes(read(c, f, o, 1))
      PROVE  IInv'
  <2> DEFINE m == [c EXCEPT !.read_total = 0, !.done = FALSE]
             n == read(c, f, o, 1)
  <2>1. n = AskOpen(m, "read", f, o, 1, c.callback)
    BY DEF read
  <2>2. /\ DOMAIN m = Fields /\ m.read_total = 0 /\ m.done = FALSE
        /\ \A x \in Fields \ {"read_total", "done"} : m[x] = c[x]
    BY <1>3 DEF Formed, Fields
  <2>3. o \in Nat /\ c.callback = FALSE
    BY <1>5 DEF FtpAssumption, Cleared
  <2> HIDE DEF m
  <2>4. Formed(m)
    <3>1. /\ m.session = c.session /\ m.last_send = c.last_send /\ m.quiet = c.quiet
          /\ m.requested_offset = c.requested_offset /\ m.list_result = c.list_result
          /\ m.pc = c.pc /\ m.ret = c.ret /\ m.out = c.out
      BY <2>2 DEF Fields
    <3> QED BY <1>3, <2>2, <3>1 DEF Formed
  <2>5. Cleared(m)
    BY <1>5, <2>2 DEF Cleared, NoGaps, Fields
  <2>6. m.out = <<>> /\ m.session = c.session
    BY <1>3, <2>2 DEF Fields
  <2> HIDE DEF n
  <2>7. /\ Formed(n) /\ Asks(n) /\ Known(n) /\ n.session = m.session /\ n.last_send = 0
        /\ n.open_retries = 0 /\ n.out = <<n.last_op>>
    <3>1. "read" \in {"get", "read"} /\ Flag(c.callback) /\ Off(c.callback) /\ Off(m.done)
      BY <2>2, <2>3 DEF Flag, Off
    <3> QED BY <2>1, <2>2, <2>3, <2>4, <2>5, <2>6, <3>1, FileAsked
  <2>8. Calls(n, budget.calls - 1)
    BY <1>7, <1>9 DEF n
  <2> QED BY <1>6, <2>6, <2>7, <2>8, AskCalled
<1>10. ASSUME NEW size \in Local, Becomes(cmd_put(c, "copy", size))
       PROVE  IInv'
  <2> DEFINE n == cmd_put(c, "copy", size)
  <2>1. size \in Nat
    BY DEF FtpAssumption
  <2>2. /\ Formed(n) /\ Puts(n) /\ Known(n) /\ n.session = c.session /\ n.last_send = 0
        /\ n.out = <<n.last_op>> /\ n.last_op.opcode = "CreateFile"
        /\ n.write_list = 0 .. n.write_total - 1
    BY <1>3, <1>5, <2>1, PutAsked
  <2>3. Calls(n, budget.calls - 1)
    BY <1>7, <1>10
  <2> HIDE DEF n
  <2> QED BY <1>6, <2>2, <2>3, PutCalled
<1>11. ASSUME Becomes(cmd_list(c)) PROVE IInv'
  BY <1>6, <1>7, <1>11, ListCalled
<1>12. ASSUME NEW code \in Simple, Becomes(cmd_simple(c, code)) PROVE IInv'
  BY <1>6, <1>7, <1>12, SimpleCalled
<1>13. \A cb \in BOOLEAN : Flag(cb)
  BY DEF Flag
<1> QED BY <1>8, <1>9, <1>10, <1>11, <1>12, <1>13 DEF Call

\* Cancelling ends whatever a call left open.
LEMMA CancelKeeps ==
    ASSUME FtpAssumption, IInv, Cancel
    PROVE  IInv'
<1> DEFINE k == [c EXCEPT !.call = "cancel", !.ret = "Success"]
           n == __terminate_session(k)
           left == IF budget.calls > 0 THEN budget.calls - 1 ELSE budget.calls
<1>1. /\ c.pc = "ready" /\ (budget.calls > 0 \/ LeftOpen)
      /\ budget' = [budget EXCEPT !.calls = left] /\ UNCHANGED <<server, down>>
      /\ c' = [n EXCEPT !.out = <<>>] /\ up' = up \o n.out
  BY DEF Cancel, Becomes
<1>2. Ready
  BY <1>1, Phases
<1>3. World /\ Formed(c) /\ c.out = <<>> /\ TransfersWhole /\ c.session \in Nat /\ DOMAIN c = Fields
  BY DEF IInv, Formed
<1>4. Limit \in 0 .. 253
  BY <1>3, LimitIs
<1>5. budget.calls \in Nat
  BY <1>3 DEF World, FtpAssumption
<1>6. left \in 0 .. budget.calls /\ (budget.calls > 0 => budget.calls - left = 1)
      /\ (~(budget.calls > 0) => budget.calls - left = 0)
  BY <1>5
<1>7. /\ DOMAIN k = Fields /\ k.call = "cancel" /\ k.ret = "Success"
      /\ \A x \in Fields \ {"call", "ret"} : k[x] = c[x]
  BY <1>3 DEF Fields
<1>8. /\ k.session = c.session /\ k.pc = "ready" /\ k.out = <<>> /\ k.told = c.told
      /\ k.callback = c.callback /\ k.put_callback = c.put_callback
      /\ k.requested_offset = c.requested_offset /\ k.list_result = c.list_result
      /\ k.last_send = c.last_send /\ k.quiet = c.quiet /\ k.done = c.done
  BY <1>1, <1>3, <1>7 DEF Fields
<1> HIDE DEF k, left
<1>9. Formed(k) /\ k.ret # "RemoteReplyTimeout"
  BY <1>3, <1>7, <1>8 DEF Formed
<1> DEFINE op == Op("TerminateSession", k.session, 0, 0, None)
<1>10. /\ Formed(n) /\ Cleared(n) /\ n.pc = "cancelling"
       /\ n.last_op = op /\ n.last_send = 0 /\ n.out = Append(k.out, n.last_op)
       /\ \A x \in {"session", "call", "ret", "done", "list_result", "requested_offset", "quiet"} :
             n[x] = k[x]
       /\ n.told = IF k.callback \/ k.put_callback
                   THEN <<"failed", k.call, k.filename, <<>> >> ELSE k.told
  BY <1>8, <1>9, Cleaned
<1> HIDE DEF n
<1>11. /\ n.session = c.session /\ n.call = "cancel" /\ n.ret = "Success" /\ n.done = c.done
       /\ n.list_result = c.list_result /\ n.requested_offset = c.requested_offset
  BY <1>7, <1>8, <1>10
<1>12. IsOp(op) /\ op.session = c.session /\ op.opcode = "TerminateSession"
  BY <1>3, <1>8 DEF IsOp, Op
<1> HIDE DEF op
<1>13. n.out = <<op>> /\ ToSet(n.out) = {op}
  <2>1. Append(<<>>, op) = <<op>>
    OBVIOUS
  <2> QED BY <1>8, <1>10, <2>1, OneElement
<1>14. Known(n)
  BY <1>3, <1>11, <1>12, <1>13 DEF Known
<1>15. Calls(n, left)
  BY <1>1 DEF Calls
<1>16. /\ Formed(c)' /\ c'.out = <<>> /\ World' /\ Same(n, c', {"out"})
       /\ ToSet(up') = ToSet(up) \union {op} /\ Limit' = Limit + 4 * (budget.calls - left)
  BY <1>3, <1>6, <1>10, <1>11, <1>13, <1>14, <1>15, Called
<1>17. \A x \in Fields \ {"out"} : c'[x] = n[x]
  BY <1>16 DEF Same
<1>18. /\ c'.session = c.session /\ c'.call = "cancel" /\ c'.ret = "Success" /\ c'.pc = "cancelling"
       /\ c'.list_result = c.list_result /\ c'.requested_offset = c.requested_offset
       /\ c'.told = n.told /\ c'.last_op = op
  BY <1>10, <1>11, <1>17 DEF Fields
<1>19. Cleared(c')
  BY <1>10, <1>17 DEF Cleared, NoGaps, Fields
<1>20. c'.told = c.told \/ (c'.told # <<>> /\ c'.told[1] = "failed")
  BY <1>8, <1>10, <1>18
<1>21. TransfersWhole'
  BY <1>1, <1>3, <1>18, <1>20 DEF TransfersWhole, Told
<1>22. Ends(c')
  BY <1>12, <1>18, <1>19 DEF Ends
<1>23. c'.session + 1 <= Limit'
  <2>1. CASE budget.calls > 0
    <3>1. Limit' = Limit + 4 /\ c.session <= Limit
      BY <1>2, <1>3, <1>4, <1>6, <1>16, <2>1 DEF Ready
    <3> QED BY <1>3, <1>4, <1>18, <3>1
  <2>2. CASE ~(budget.calls > 0)
    <3>1. Limit' = Limit + 4 * 0
      BY <1>6, <1>16, <2>2
    <3>2. LeftOpen
      BY <1>1, <2>2
    <3>3. Limit' = Limit /\ c.session + 1 <= Limit
      BY <1>2, <1>4, <3>1, <3>2 DEF Ready
    <3> QED BY <1>18, <3>3
  <2> QED BY <2>1, <2>2
<1>24. c'.told # <<>> /\ c'.told[1] = "put" =>
          \A o \in ToSet(up') : o.opcode = "TerminateSession"
  <2>1. CASE LeftOpen
    BY <1>2, <1>20, <2>1 DEF Ready, NothingTold
  <2>2. CASE ~LeftOpen
    <3>1. up = <<>>
      BY <1>2, <2>2 DEF Ready, NoLink
    <3>2. ToSet(up) = {}
      BY <3>1, OneElement
    <3> QED BY <1>12, <1>16, <3>2
  <2> QED BY <2>1, <2>2
<1>25. Ending'
  BY <1>18, <1>22, <1>23, <1>24 DEF Ending, Told
<1> QED BY <1>16, <1>21, <1>25 DEF IInv, Phase

\* The state in which a client is made: the server forgets what it knew.
LEMMA Begins ==
    ASSUME FtpAssumption, FtpInit
    PROVE  IInv
<1> DEFINE t == Started(Fresh, "ResetSessions")
           op == Op("ResetSessions", 0, 0, 0, None)
           n == __send(t, op)
<1>1. c = [n EXCEPT !.out = <<>>] /\ up = <<c.last_op>> /\ down = <<>>
      /\ server = [open |-> NoSession, written |-> {-1}]
      /\ budget = [loss |-> MaxLoss, late |-> MaxLate, calls |-> MaxCalls]
  BY DEF FtpInit, cmd_simple, Fresh
<1>2. DOMAIN Fresh = Fields /\ Fresh.session = 0 /\ Fresh.out = <<>> /\ Fresh.done = FALSE
      /\ Fresh.list_result = <<>> /\ Fresh.last_send = 0 /\ Fresh.quiet = 0
      /\ Fresh.requested_offset = 0 /\ Fresh.pc = "ready" /\ Fresh.ret = "Fail"
      /\ Fresh.told = <<>>
  BY DEF Fresh, Fields
<1>3. Formed(Fresh) /\ Cleared(Fresh)
  <2>1. Sequential(<<>>)
    BY DEF Sequential
  <2>2. Formed(Fresh)
    <3>1. Sequential(Fresh.out) /\ Fresh.list_result \in {<<>>, Directory} /\ Fresh.done \in BOOLEAN
      BY <1>2, <2>1
    <3>2. /\ Fresh.session \in Nat /\ Fresh.last_send \in Nat /\ Fresh.quiet \in Nat
          /\ Fresh.requested_offset \in Nat
      BY <1>2
    <3>3. Fresh.ret # "RemoteReplyTimeout"
      BY <1>2
    <3> QED BY <1>2, <3>1, <3>2, <3>3 DEF Formed
  <2>3. Cleared(Fresh)
    BY DEF Fresh, Cleared, NoGaps, NotOpen, NoWrites
  <2> QED BY <2>2, <2>3
<1>4. /\ DOMAIN t = Fields /\ t.list_result \in {<<>>, Directory} /\ t.list_result = <<>>
      /\ \A x \in Fields \ {"list_result", "list_temp_result", "dir_offset"} :
            t[x] = Started(Fresh, "ResetSessions")[x]
  <2>1. DOMAIN t = Fields /\ t.list_result = Fresh.list_result
    BY <1>2, StartedIs DEF Fields
  <2> QED BY <1>2, <2>1
<1>5. IsOp(op) /\ op.session = 0 /\ op.opcode = "ResetSessions" /\ op.session = Fresh.session
  BY <1>2 DEF IsOp, Op
<1> HIDE DEF t
<1>6. /\ Formed(n) /\ Cleared(n) /\ Known(n) /\ n.session = Fresh.session /\ n.last_send = 0
      /\ n.out = <<n.last_op>> /\ n.last_op = op /\ n.pc = "reply" /\ n.call = "ResetSessions"
      /\ n.told = <<>>
  <2> HIDE DEF op
  <2> QED BY <1>2, <1>3, <1>4, <1>5, Requested
<1>7. n.list_result = <<>>
  BY <1>4 DEF __send, Fields
<1> HIDE DEF n
<1>8. DOMAIN c = Fields /\ c.out = <<>> /\ \A x \in Fields \ {"out"} : c[x] = n[x]
  BY <1>1, <1>6 DEF Formed, Fields
<1>9. /\ c.session = 0 /\ c.last_send = 0 /\ c.last_op = op /\ c.pc = "reply"
      /\ c.call = "ResetSessions" /\ c.told = <<>> /\ c.list_result = <<>>
  BY <1>2, <1>6, <1>7, <1>8 DEF Fields
<1>10. Cleared(c)
  BY <1>6, <1>8 DEF Cleared, NoGaps, Fields
<1>11. Formed(c)
  <2>1. Sequential(<<>>)
    BY DEF Sequential
  <2>2. c.quiet = n.quiet /\ c.requested_offset = n.requested_offset /\ c.done = n.done /\ c.ret = n.ret
    BY <1>8 DEF Fields
  <2> QED BY <1>6, <1>8, <1>9, <2>1, <2>2 DEF Formed
<1>12. up = <<op>> /\ ToSet(up) = {op} /\ ToSet(down) = {} /\ Sequential(up) /\ Sequential(down)
  <2>1. up = <<op>>
    BY <1>1, <1>9
  <2>2. Sequential(<<op>>) /\ Sequential(<<>>)
    <3>1. Sequential(<<>>)
      BY DEF Sequential
    <3>2. Append(<<>>, op) = <<op>>
      OBVIOUS
    <3>3. Sequential(Append(<<>>, op))
      BY <3>1, Appended
    <3> QED BY <3>1, <3>2, <3>3
  <2> QED BY <1>1, <2>1, <2>2, OneElement
<1>13. MaxCalls \in 0 .. 63 /\ MaxLoss \in Nat /\ MaxLate \in Nat
  BY DEF FtpAssumption
<1>14. World
  <2>1. /\ DOMAIN server = {"open", "written"} /\ DOMAIN server.open = {"session", "file", "size"}
        /\ server.open = NoSession /\ server.open.session = -1
    BY <1>1 DEF NoSession
  <2>2. DOMAIN budget = {"loss", "late", "calls"} /\ budget.calls = MaxCalls
        /\ budget.loss = MaxLoss /\ budget.late = MaxLate
    BY <1>1
  <2>3. MaxCalls \in 0 .. MaxCalls
    BY <1>13
  <2>4. \A o \in ToSet(up) : IsOp(o) /\ o.session <= c.session
    BY <1>5, <1>9, <1>12
  <2>5. \A r \in ToSet(down) : r.session \in Nat /\ r.session <= c.session
    BY <1>12
  <2> QED BY <1>9, <1>12, <1>13, <2>1, <2>2, <2>3, <2>4, <2>5 DEF World
<1>15. Limit = 1
  <2>1. budget.calls = MaxCalls
    BY <1>1
  <2>2. MaxCalls - MaxCalls = 0
    BY <1>13
  <2> QED BY <2>1, <2>2 DEF Limit
<1>16. Requests(c)
  BY <1>9, <1>10 DEF Requests, Simple
<1>17. 0 < IdleTime
  BY Settings
<1>18. Requesting
  BY <1>1, <1>5, <1>9, <1>12, <1>15, <1>16, <1>17 DEF Requesting, LinkAge, Simple, NoSession
<1>19. TransfersWhole
  BY <1>9 DEF TransfersWhole, Told
<1> QED BY <1>8, <1>11, <1>14, <1>18, <1>19 DEF IInv, Phase

\* A step that changes nothing keeps the invariant.
LEMMA Stays ==
    ASSUME IInv, UNCHANGED ftpvars
    PROVE  IInv'
<1>1. c' = c /\ server' = server /\ up' = up /\ down' = down /\ budget' = budget
  BY DEF ftpvars
<1>2. (Limit = Limit') /\ (NoLink <=> NoLink') /\ (World <=> World')
  BY <1>1 DEF Limit, NoLink, World
<1>3. (TransfersWhole <=> TransfersWhole') /\ (LinkAge <=> LinkAge')
  BY <1>1, <1>2 DEF TransfersWhole, Told, LinkAge
<1>4. (Asking <=> Asking') /\ (Downloading <=> Downloading')
  BY <1>1, <1>2 DEF Asking, Downloading, Right
<1>5. Putting <=> Putting'
  BY <1>1, <1>2 DEF Putting
<1>6. (Listing_ <=> Listing_') /\ (Requesting <=> Requesting')
  BY <1>1, <1>2, <1>3 DEF Listing_, Requesting
<1>7. Failing <=> Failing'
  BY <1>1, <1>2 DEF Failing
<1>8. (Ending <=> Ending') /\ (Ready <=> Ready')
  <2>1. Ending <=> Ending'
    BY <1>1, <1>2 DEF Ending, Told
  <2>2. Ready <=> Ready'
    BY <1>1, <1>2 DEF Ready, LeftOpen
  <2> QED BY <2>1, <2>2
<1>9. Phase <=> Phase'
  BY <1>4, <1>5, <1>6, <1>7, <1>8 DEF Phase
<1> QED BY <1>1, <1>2, <1>3, <1>9 DEF IInv

(* --------------------------------- the theorem ------------------------------ *)
LEMMA ReceiveKeeps ==
    ASSUME FtpAssumption, IInv, Receive
    PROVE  IInv'
<1>1. c.pc = "reply" /\ ~NoLink
  BY DEF Receive, NoLink
<1>2. Asking \/ Downloading \/ Putting \/ Listing_ \/ Requesting
  BY <1>1, Phases DEF Failing
<1> QED BY <1>2, AskingReceives, DownloadReceives, PuttingReceives, ListingReceives,
           RequestingReceives

\* A turn without a packet keeps the invariant in every phase.
LEMMA NoPacketKeeps ==
    ASSUME FtpAssumption, IInv, NoPacket
    PROVE  IInv'
<1>1. c.pc = "reply"
  BY DEF NoPacket
<1>2. Asking \/ Downloading \/ Putting \/ Listing_ \/ Requesting \/ Failing
  BY <1>1, Phases
<1> QED BY <1>2, AskingWaits, DownloadWaits, PuttingWaits, ListingWaits, RequestingWaits,
           FailingWaits

\* Every step keeps the invariant, if callers cancel what they left open.
LEMMA StepKeeps ==
    ASSUME FtpAssumption, Careful, IInv, [FtpNext]_ftpvars
    PROVE  IInv'
<1>1. CASE Receive
  BY <1>1, ReceiveKeeps
<1>2. CASE NoPacket
  BY <1>2, NoPacketKeeps
<1>3. CASE Discard
  <2>1. Ending
    BY <1>3, Phases DEF Discard
  <2> QED BY <1>3, <2>1, DiscardLessens, EndingLessens
<1>4. CASE Terminated
  <2>1. Ending
    BY <1>4, Phases DEF Terminated
  <2> QED BY <1>4, <2>1, TerminatedEnds
<1>5. CASE GivesUp
  BY <1>5, GivesUpLeaves
<1>6. CASE Call
  BY <1>6, CallKeeps
<1>7. CASE Cancel
  BY <1>7, CancelKeeps
<1>8. CASE ServerStep
  BY <1>8, ServerKeeps
<1>9. CASE LosePacket
  BY <1>9, LosePacketKeeps
<1>10. CASE UNCHANGED ftpvars
  BY <1>10, Stays
<1> QED BY <1>1, <1>2, <1>3, <1>4, <1>5, <1>6, <1>7, <1>8, <1>9, <1>10 DEF FtpNext

\* What the invariant says of a state that a caller sees.
LEMMA NothingIsForgotten ==
    ASSUME FtpAssumption, IInv
    PROVE  NothingForgotten
<1> SUFFICES ASSUME c.call \in {"get", "read"}, c.pc = "reply",
                    NEW o \in c.requested_offset .. c.fh.tell - 1
             PROVE  o \in DOMAIN c.fh.data \/ InGap(o)
  BY DEF NothingForgotten
<1>1. c.requested_offset \in Nat
  BY DEF IInv, Formed
<1>2. c.fh # NotOpen
  <2> SUFFICES ASSUME c.fh = NotOpen PROVE FALSE
    OBVIOUS
  <2>1. c.fh.tell = -1
    BY DEF NotOpen
  <2> QED BY <1>1, <2>1
<1>3. Downloading
  <2>1. ~Asking /\ ~Failing /\ ~Listing_ /\ ~Requesting
    BY <1>2 DEF Asking, Asks, Failing, Failed, Listing_, Lists, Requesting, Requests, Cleared
  <2>2. ~Putting
    BY DEF Putting, Puts
  <2> QED BY <2>1, <2>2, Phases
<1>4. Had(c)
  BY <1>3 DEF Downloading, GoesOn, Downloads
<1>5. Begin(c) \in Nat /\ Begin(c) <= c.requested_offset /\ c.fh.tell \in Nat
  BY <1>1, <1>4 DEF Begin, Had
<1>6. o \in Begin(c) .. c.fh.tell - 1
  BY <1>1, <1>5
<1>7. o \in DOMAIN c.fh.data \/ \E g \in GapSet(c) : In(o, g)
  BY <1>4, <1>6 DEF Had
<1>8. ASSUME NEW g \in GapSet(c), In(o, g) PROVE InGap(o)
  BY <1>8 DEF GapSet, ToSet, In, InGap
<1> QED BY <1>7, <1>8

\* A call that is over has called its callbacks.
LEMMA CallbacksAreCalled ==
    ASSUME IInv
    PROVE  CallbacksCalled
BY Phases DEF Ready, Cleared, CallbacksCalled

\* What callers are told of their transfers holds, whatever the link loses or delays: nothing is
\* forgotten while a file comes, what is told to be there is whole, every callback is called.
THEOREM TransfersSoundAlways ==
    ASSUME FtpAssumption, Careful
    PROVE  FtpSpec => []TransfersSound
<1>1. FtpInit => IInv
  BY Begins
<1>2. IInv /\ [FtpNext]_ftpvars => IInv'
  BY StepKeeps
<1>3. IInv => TransfersSound
  BY NothingIsForgotten, CallbacksAreCalled DEF TransfersSound, IInv
<1> QED BY <1>1, <1>2, <1>3, PTL DEF FtpSpec
=============================================================================
