------------------------ MODULE SeriesScheduler_proofs ------------------------
(***************************************************************************)
(* Proofs about SeriesScheduler: the types of its state, with the limit on *)
(* the jobs in flight, and that no series once found is lost.              *)
(*                                                                         *)
(* The lemmas on selections are those of QuoteScheduler_proofs.            *)
(***************************************************************************)
EXTENDS SeriesScheduler, FiniteSetTheorems, NaturalsInduction, WellFoundedInduction, TLAPS

-----------------------------------------------------------------------------
(* Selections from a sequence.                                             *)

\* A set of natural numbers that is not empty has a least element.
LEMMA LeastNumber ==
    ASSUME NEW T \in SUBSET Nat, T # {}
    PROVE  \E x \in T : \A y \in T : x <= y
<1>1. PICK x \in T : \A y \in T : <<y, x>> \notin OpToRel(<, Nat)
  BY NatLessThanWellFounded, WFMin
<1>2. \A y \in T : ~(y < x)
  BY <1>1 DEF OpToRel
<1> QED
  BY <1>2

\* Min is what its name says.
LEMMA MinProperties ==
    ASSUME NEW T \in SUBSET Nat, T # {}
    PROVE  Min(T) \in T /\ \A y \in T : Min(T) <= y
  BY LeastNumber DEF Min

\* How many positions of I there are up to i.
LEMMA CountProperties ==
    ASSUME NEW n \in Nat, NEW I \in SUBSET (1..n)
    PROVE  /\ IsFiniteSet(I)
           /\ Cardinality(I) \in Nat
           /\ \A i \in Nat : /\ IsFiniteSet(I \cap 1..i)
                             /\ Cardinality(I \cap 1..i) \in Nat
                             /\ Cardinality(I \cap 1..i) <= Cardinality(I)
<1>1. IsFiniteSet(1..n)
  BY FS_Interval
<1>2. IsFiniteSet(I)
  BY <1>1, FS_Subset
<1>3. Cardinality(I) \in Nat
  BY <1>2, FS_CardinalityType
<1>4. ASSUME NEW i \in Nat
      PROVE  /\ IsFiniteSet(I \cap 1..i)
             /\ Cardinality(I \cap 1..i) \in Nat
             /\ Cardinality(I \cap 1..i) <= Cardinality(I)
  <2>1. I \cap 1..i \subseteq I
    OBVIOUS
  <2> QED
    BY <1>2, <2>1, FS_Subset, FS_CardinalityType
<1> QED
  BY <1>2, <1>3, <1>4

\* A count that a prefix reaches, some position of I reaches exactly.
LEMMA CountIsReached ==
    ASSUME NEW n \in Nat, NEW I \in SUBSET (1..n),
           NEW k \in Nat, k # 0, k <= Cardinality(I)
    PROVE  \E i \in I : Cardinality(I \cap 1..i) = k
<1> DEFINE C(i) == Cardinality(I \cap 1..i)
           T == {i \in Nat : k <= C(i)}
<1>1. \A i \in Nat : IsFiniteSet(I \cap 1..i) /\ C(i) \in Nat
  BY CountProperties
<1>2. n \in T
  <2>1. I \cap 1..n = I
    OBVIOUS
  <2> QED
    BY <2>1
<1>3. PICK i \in T : \A j \in T : i <= j
  BY <1>2, LeastNumber
<1>4. i # 0
  <2>1. I \cap 1..0 = {}
    OBVIOUS
  <2>2. C(0) = 0
    BY <2>1, FS_EmptySet
  <2> QED
    BY <2>2
<1>5. i - 1 \in Nat /\ i \in Nat /\ C(i) >= k /\ C(i - 1) < k
  <2>1. i \in Nat /\ i - 1 \in Nat
    BY <1>4
  <2>2. i - 1 \notin T
    BY <1>3, <2>1
  <2>3. C(i - 1) \in Nat /\ C(i) \in Nat
    BY <1>1, <2>1
  <2> QED
    BY <2>1, <2>2, <2>3
<1>6. i \in I
  <2>1. SUFFICES ASSUME i \notin I PROVE FALSE
    OBVIOUS
  <2>2. I \cap 1..i = I \cap 1..(i - 1)
    BY <1>5, <2>1
  <2>3. C(i) = C(i - 1)
    BY <2>2
  <2> QED
    BY <1>1, <1>5, <2>3
<1>7. C(i) = C(i - 1) + 1
  <2>1. I \cap 1..i = (I \cap 1..(i - 1)) \cup {i} /\ i \notin I \cap 1..(i - 1)
    BY <1>5, <1>6
  <2>2. IsFiniteSet(I \cap 1..(i - 1))
    BY <1>1, <1>5
  <2> DEFINE P == I \cap 1..(i - 1)
  <2>3. Cardinality(P \cup {i}) = Cardinality(P) + 1
    <3> HIDE DEF P
    <3> QED
      BY <2>1, <2>2, FS_AddElement DEF P
  <2> QED
    BY <2>1, <2>3
<1>8. C(i) = k
  <2>1. C(i) \in Nat /\ C(i - 1) \in Nat
    BY <1>1, <1>5
  <2> HIDE DEF C
  <2> QED
    BY <1>5, <1>7, <2>1
<1> QED
  BY <1>6, <1>8

\* The k-th position of I is in I, different k have different ones, and each has its k.
LEMMA NthProperties ==
    ASSUME NEW n \in Nat, NEW I \in SUBSET (1..n)
    PROVE  /\ \A k \in 1..Cardinality(I) : Nth(I, k) \in I
           /\ \A k, m \in 1..Cardinality(I) : Nth(I, k) = Nth(I, m) => k = m
           /\ \A i \in I : \E k \in 1..Cardinality(I) : Nth(I, k) = i
<1> DEFINE C(i) == Cardinality(I \cap 1..i)
<1>1. Cardinality(I) \in Nat
  BY CountProperties
<1>2. ASSUME NEW k \in 1..Cardinality(I)
      PROVE  Nth(I, k) \in I /\ C(Nth(I, k)) = k
  <2>1. k \in Nat /\ k # 0 /\ k <= Cardinality(I)
    BY <1>1
  <2>2. \E i \in I : Cardinality(I \cap 1..i) = k
    BY <2>1, CountIsReached
  <2> QED
    BY <2>2 DEF Nth
<1>3. ASSUME NEW i \in I, NEW j \in I, i < j
      PROVE  C(i) # C(j)
  <2>1. I \cap 1..i \subseteq I \cap 1..j
    BY <1>3
  <2>2. j \in I \cap 1..j /\ j \notin I \cap 1..i
    BY <1>3
  <2>3. IsFiniteSet(I \cap 1..j)
    BY CountProperties
  <2> QED
    BY <2>1, <2>2, <2>3, FS_Subset
<1>4. ASSUME NEW i \in I
      PROVE  \E k \in 1..Cardinality(I) : Nth(I, k) = i
  <2>0. i \in Nat
    OBVIOUS
  <2>1. C(i) \in Nat /\ C(i) <= Cardinality(I) /\ IsFiniteSet(I \cap 1..i)
    <3>1. \A j \in Nat : C(j) \in Nat /\ C(j) <= Cardinality(I) /\ IsFiniteSet(I \cap 1..j)
      BY CountProperties
    <3> QED
      BY <2>0, <3>1
  <2>2. C(i) # 0
    <3>1. i \in I \cap 1..i
      OBVIOUS
    <3> QED
      BY <2>1, <3>1, FS_EmptySet
  <2>3. C(i) \in 1..Cardinality(I)
    <3> HIDE DEF C
    <3> QED
      BY <1>1, <2>1, <2>2
  <2>4. Nth(I, C(i)) \in I /\ C(Nth(I, C(i))) = C(i)
    BY <1>2, <2>3
  <2>5. Nth(I, C(i)) = i
    <3> DEFINE j == Nth(I, C(i))
    <3>1. j \in I /\ C(j) = C(i)
      BY <2>4
    <3> HIDE DEF j
    <3>2. ~(j < i) /\ ~(i < j)
      BY <1>3, <3>1
    <3>3. j = i
      BY <3>1, <3>2
    <3> QED
      BY <3>3 DEF j
  <2> QED
    BY <2>3, <2>5
<1> QED
  BY <1>2, <1>4

\* What is picked is a sequence of the elements at the positions, each as often as in q.
LEMMA PickProperties ==
    ASSUME NEW T, NEW q \in Seq(T), NEW I \in SUBSET (1..Len(q))
    PROVE  /\ Pick(q, I) \in Seq(T)
           /\ Len(Pick(q, I)) = Cardinality(I)
           /\ ToSet(Pick(q, I)) = {q[i] : i \in I}
           /\ IsInjective(q) => IsInjective(Pick(q, I))
<1>1. Len(q) \in Nat /\ DOMAIN q = 1..Len(q) /\ \A i \in 1..Len(q) : q[i] \in T
  OBVIOUS
<1>2. Cardinality(I) \in Nat
  BY <1>1, CountProperties
<1>3. /\ \A k \in 1..Cardinality(I) : Nth(I, k) \in I
      /\ \A k, m \in 1..Cardinality(I) : Nth(I, k) = Nth(I, m) => k = m
      /\ \A i \in I : \E k \in 1..Cardinality(I) : Nth(I, k) = i
  BY <1>1, NthProperties
<1> DEFINE N == Cardinality(I)
           P == [k \in 1..N |-> q[Nth(I, k)]]
<1>4. Pick(q, I) = P
  BY DEF Pick
<1> HIDE DEF N
<1>5. N \in Nat
  BY <1>2 DEF N
<1>6. \A k \in 1..N : Nth(I, k) \in I /\ q[Nth(I, k)] \in T
  BY <1>1, <1>3 DEF N
<1>7. P \in Seq(T) /\ Len(P) = N /\ DOMAIN P = 1..N
  BY <1>5, <1>6
<1>8. ToSet(P) = {q[i] : i \in I}
  <2>1. \A i \in I : \E k \in 1..N : q[i] = P[k]
    BY <1>3 DEF N
  <2>2. \A k \in 1..N : P[k] \in {q[i] : i \in I}
    BY <1>6
  <2> HIDE DEF P
  <2> QED
    BY <1>7, <2>1, <2>2 DEF ToSet
<1>9. IsInjective(q) => IsInjective(P)
  <2>1. ASSUME IsInjective(q), NEW k \in 1..N, NEW m \in 1..N, P[k] = P[m]
        PROVE  k = m
    <3>1. q[Nth(I, k)] = q[Nth(I, m)]
      BY <2>1
    <3>2. Nth(I, k) = Nth(I, m)
      BY <2>1, <3>1, <1>6, <1>1 DEF IsInjective
    <3> QED
      BY <3>2, <1>3 DEF N
  <2> QED
    BY <2>1, <1>7 DEF IsInjective
<1> QED
  BY <1>4, <1>7, <1>8, <1>9 DEF N

\* What a sequence gains at its end.
LEMMA Concatenated ==
    ASSUME NEW T, NEW q \in Seq(T), NEW r \in Seq(T)
    PROVE  /\ q \o r \in Seq(T)
           /\ ToSet(q \o r) = ToSet(q) \cup ToSet(r)
           /\ IsInjective(q) /\ IsInjective(r) /\ ToSet(q) \cap ToSet(r) = {}
                => IsInjective(q \o r)
<1> DEFINE m == Len(q)
           n == Len(r)
           w == q \o r
<1>1. /\ m \in Nat /\ n \in Nat
      /\ DOMAIN q = 1..m /\ DOMAIN r = 1..n
      /\ w \in Seq(T) /\ DOMAIN w = 1..(m + n)
      /\ \A i \in 1..m : w[i] = q[i]
      /\ \A i \in (m + 1)..(m + n) : w[i] = r[i - m]
  OBVIOUS
<1> HIDE DEF m, n, w
<1>2. \A j \in 1..n : m + j \in (m + 1)..(m + n) /\ (m + j) - m = j
  BY <1>1
<1>3. \A i \in 1..(m + n) : i \in 1..m \/ (i \in (m + 1)..(m + n) /\ i - m \in 1..n)
  BY <1>1
<1>4. \A i \in 1..m : i \in 1..(m + n)
  BY <1>1
<1>5. \A j \in 1..n : m + j \in 1..(m + n) /\ w[m + j] = r[j]
  BY <1>1, <1>2
<1>6. ToSet(w) = ToSet(q) \cup ToSet(r)
  <2>1. \A x \in ToSet(w) : x \in ToSet(q) \cup ToSet(r)
    BY <1>1, <1>3 DEF ToSet
  <2>2. \A x \in ToSet(q) : x \in ToSet(w)
    BY <1>1, <1>4 DEF ToSet
  <2>3. ASSUME NEW j \in 1..n PROVE r[j] \in ToSet(w)
    BY <1>1, <1>5 DEF ToSet
  <2>4. ToSet(r) = {r[j] : j \in 1..n}
    BY <1>1 DEF ToSet
  <2> QED
    BY <2>1, <2>2, <2>3, <2>4
<1>7. ASSUME IsInjective(q), IsInjective(r), ToSet(q) \cap ToSet(r) = {},
             NEW i \in 1..(m + n), NEW j \in 1..(m + n), w[i] = w[j]
      PROVE  i = j
  <2>1. CASE i \in 1..m /\ j \in 1..m
    BY <2>1, <1>1, <1>7 DEF IsInjective
  <2>2. CASE i - m \in 1..n /\ j - m \in 1..n /\ i \in (m + 1)..(m + n)
             /\ j \in (m + 1)..(m + n)
    <3>1. r[i - m] = r[j - m]
      BY <1>1, <1>7, <2>2
    <3>2. i - m = j - m
      BY <1>1, <1>7, <2>2, <3>1 DEF IsInjective
    <3> QED
      BY <1>1, <3>2
  <2>3. ASSUME NEW a \in 1..m, NEW b \in (m + 1)..(m + n), b - m \in 1..n
        PROVE  w[a] # w[b]
    <3>1. w[a] \in ToSet(q) /\ w[b] \in ToSet(r)
      BY <1>1, <2>3 DEF ToSet
    <3> QED
      BY <1>7, <3>1
  <2> QED
    BY <1>3, <1>7, <2>1, <2>2, <2>3
<1>8. IsInjective(q) /\ IsInjective(r) /\ ToSet(q) \cap ToSet(r) = {} => IsInjective(w)
  BY <1>1, <1>7 DEF IsInjective
<1>9. w \in Seq(T)
  BY <1>1
<1>10. w = q \o r
  BY DEF w
<1> QED
  BY <1>6, <1>8, <1>9, <1>10

\* The same for one element.
LEMMA Appended ==
    ASSUME NEW T, NEW q \in Seq(T), NEW x \in T
    PROVE  /\ Append(q, x) \in Seq(T)
           /\ ToSet(Append(q, x)) = ToSet(q) \cup {x}
           /\ IsInjective(q) /\ x \notin ToSet(q) => IsInjective(Append(q, x))
<1>1. Append(q, x) = q \o <<x>>
  OBVIOUS
<1>2. <<x>> \in Seq(T) /\ ToSet(<<x>>) = {x} /\ IsInjective(<<x>>)
  BY DEF ToSet, IsInjective
<1> DEFINE r == <<x>>
<1>3. r \in Seq(T) /\ ToSet(r) = {x} /\ IsInjective(r)
  BY <1>2
<1> HIDE DEF r
<1>4. /\ q \o r \in Seq(T)
      /\ ToSet(q \o r) = ToSet(q) \cup ToSet(r)
      /\ IsInjective(q) /\ IsInjective(r) /\ ToSet(q) \cap ToSet(r) = {}
           => IsInjective(q \o r)
  BY <1>3, Concatenated
<1>5. Append(q, x) = q \o r
  BY <1>1 DEF r
<1>6. ToSet(q) \cap ToSet(r) = {} <=> x \notin ToSet(q)
  BY <1>3
<1>7. Append(q, x) \in Seq(T)
  OBVIOUS
<1>8. ToSet(Append(q, x)) = ToSet(q) \cup {x}
  BY <1>3, <1>4, <1>5
<1>9. IsInjective(q) /\ x \notin ToSet(q) => IsInjective(Append(q, x))
  BY <1>3, <1>4, <1>5, <1>6, Zenon
<1> QED
  BY <1>7, <1>8, <1>9
\* What a sequence keeps when it loses its first element.
LEMMA Shortened ==
    ASSUME NEW T, NEW q \in Seq(T), q # <<>>
    PROVE  /\ Head(q) \in T
           /\ Tail(q) \in Seq(T)
           /\ ToSet(q) = ToSet(Tail(q)) \cup {Head(q)}
           /\ IsInjective(q) => IsInjective(Tail(q))
<1> DEFINE n == Len(q)
           w == Tail(q)
<1>1. /\ n \in Nat /\ n # 0 /\ DOMAIN q = 1..n
      /\ Head(q) = q[1] /\ q[1] \in T
      /\ w \in Seq(T) /\ DOMAIN w = 1..(n - 1)
      /\ \A i \in 1..(n - 1) : w[i] = q[i + 1]
  OBVIOUS
<1> HIDE DEF n, w
<1>2. ToSet(q) = ToSet(w) \cup {Head(q)}
  <2>1. ASSUME NEW i \in 1..n PROVE q[i] \in ToSet(w) \cup {Head(q)}
    <3>1. CASE i = 1
      BY <1>1, <3>1
    <3>2. CASE i # 1
      <4>1. i - 1 \in 1..(n - 1) /\ (i - 1) + 1 = i
        BY <1>1, <3>2
      <4>2. w[i - 1] = q[i]
        BY <1>1, <4>1
      <4> QED
        BY <1>1, <4>1, <4>2 DEF ToSet
    <3> QED
      BY <3>1, <3>2
  <2>2. ASSUME NEW i \in 1..(n - 1) PROVE w[i] \in ToSet(q)
    <3>1. i + 1 \in 1..n /\ w[i] = q[i + 1]
      BY <1>1
    <3> QED
      BY <1>1, <3>1 DEF ToSet
  <2>3. Head(q) \in ToSet(q)
    BY <1>1 DEF ToSet
  <2>4. ToSet(q) = {q[i] : i \in 1..n} /\ ToSet(w) = {w[i] : i \in 1..(n - 1)}
    BY <1>1 DEF ToSet
  <2> QED
    BY <2>1, <2>2, <2>3, <2>4
<1>3. IsInjective(q) => IsInjective(w)
  <2>1. ASSUME IsInjective(q), NEW i \in 1..(n - 1), NEW j \in 1..(n - 1), w[i] = w[j]
        PROVE  i = j
    <3>1. i + 1 \in 1..n /\ j + 1 \in 1..n /\ q[i + 1] = q[j + 1]
      BY <1>1, <2>1
    <3>2. i + 1 = j + 1
      BY <1>1, <2>1, <3>1 DEF IsInjective
    <3> QED
      BY <1>1, <3>2
  <2> QED
    BY <1>1, <2>1 DEF IsInjective
<1> QED
  BY <1>1, <1>2, <1>3 DEF w

\* A series is pending once, whether it was added before or is now.
LEMMA AddProperties ==
    ASSUME NEW q \in Seq(Series), IsInjective(q), NEW s \in Series
    PROVE  /\ Add(q, s) \in Seq(Series) /\ IsInjective(Add(q, s))
           /\ ToSet(Add(q, s)) = ToSet(q) \cup {s}
<1>1. CASE s \in ToSet(q)
  BY <1>1 DEF Add
<1>2. CASE s \notin ToSet(q)
  <2>1. Add(q, s) = Append(q, s)
    BY <1>2 DEF Add
  <2>2. /\ Append(q, s) \in Seq(Series)
        /\ ToSet(Append(q, s)) = ToSet(q) \cup {s}
        /\ IsInjective(q) /\ s \notin ToSet(q) => IsInjective(Append(q, s))
    BY Appended
  <2> QED
    BY <1>2, <2>1, <2>2
<1> QED
  BY <1>1, <1>2

-----------------------------------------------------------------------------
(* The invariant.                                                          *)

\* The series that are pending with c or in flight for it.
Pending(c) == ToSet(headQueue[c]) \cup ToSet(tailQueue[c])
Carries(c, s) == s \in Pending(c) \/ (job[c] # NoJob /\ job[c].of = s)

\* A scan is of a capability, and the jobs in flight are finitely many.
ScansAreOfCaps ==
    /\ tick = "scanning" => scanning \in Cap
    /\ IsFiniteSet(Busy)

IInv == TypeOK /\ ScansAreOfCaps /\ NoSeriesIsLost

\* A queue is well formed when it is a sequence of different series.
Queue(q) == q \in Seq(Series) /\ IsInjective(q)

\* The queues of all capabilities are well formed.
QueuesAreWell ==
    /\ DOMAIN headQueue = Cap /\ DOMAIN tailQueue = Cap
    /\ \A c \in Cap : Queue(headQueue[c]) /\ Queue(tailQueue[c])

\* The jobs are typed, finitely many and no more than allowed.
JobsAreWell ==
    /\ job \in [Cap -> Jobs \cup {NoJob}]
    /\ IsFiniteSet(Busy)
    /\ Inflight <= MaxInflight

\* The rest of the types.
RestIsWell ==
    /\ capabilities = Lists[refreshes] /\ refreshes \in DOMAIN Lists
    /\ scanned \subseteq Cap /\ resting \subseteq Cap /\ recent \subseteq Series
    /\ scanIndex \in Nat /\ capRunIndex \in Nat
    /\ capOf \in [Series -> Cap \cup {NoCap}]
    /\ tick \in {"waiting", "scanning", "running"}
    /\ scanning \in Cap \cup {NoCap}
    /\ tick = "scanning" => scanning \in Cap

\* Every series that was found is carried by a capability.
FoundAreCarried ==
    \A s \in Series : capOf[s] # NoCap => \E c \in Cap : Carries(c, s)

Parts == QueuesAreWell /\ JobsAreWell /\ RestIsWell /\ FoundAreCarried

\* The invariant, in the parts that the steps are proved to keep.
LEMMA InvariantByParts == IInv <=> Parts
  BY DEF IInv, TypeOK, ScansAreOfCaps, NoSeriesIsLost, Queue, Carries, Pending,
         QueuesAreWell, JobsAreWell, RestIsWell, FoundAreCarried, Parts

\* The capability at an index of a list that is not empty.
LEMMA AtIsACap ==
    ASSUME RestIsWell, capabilities # <<>>, NEW i \in Nat
    PROVE  At(i) \in Cap
<1>1. capabilities \in Seq(Cap)
  BY ListAssumption DEF RestIsWell
<1> DEFINE n == Len(capabilities)
           j == i % n
<1>2. n \in Nat /\ n # 0 /\ DOMAIN capabilities = 1..n
  BY <1>1
<1> HIDE DEF n
<1>3. j \in 0..(n - 1)
  BY <1>2
<1> HIDE DEF j
<1>4. j + 1 \in 1..n
  BY <1>2, <1>3
<1>5. capabilities[j + 1] \in Cap
  BY <1>1, <1>2, <1>4
<1> QED
  BY <1>5 DEF At, n, j

-----------------------------------------------------------------------------
(* The steps.                                                              *)

\* Initially nothing is found, pending or in flight.
LEMMA InitInvariant == Init => Parts
<1> SUFFICES ASSUME Init PROVE Parts
  OBVIOUS
<1> USE DEF Init
<1>1. Busy = {}
  BY DEF Busy
<1>2. IsFiniteSet(Busy) /\ Inflight = 0
  BY <1>1, FS_EmptySet DEF Inflight
<1>3. JobsAreWell
  BY <1>2, LimitAssumption DEF JobsAreWell
<1>4. Queue(<<>>)
  BY DEF Queue, IsInjective
<1>5. QueuesAreWell
  BY <1>4 DEF QueuesAreWell
<1>6. RestIsWell
  BY ListAssumption DEF RestIsWell
<1>7. FoundAreCarried
  BY DEF FoundAreCarried
<1> QED
  BY <1>3, <1>5, <1>6, <1>7 DEF Parts

\* Whatever is scheduled, the queues stay well formed and lose nothing, and a series
\* that is known is pending.
LEMMA ScheduledProperties ==
    ASSUME QueuesAreWell, RestIsWell, NEW s \in Series, NEW needHead \in BOOLEAN,
           Scheduled(s, needHead)
    PROVE  /\ QueuesAreWell'
           /\ \A c \in Cap : Pending(c) \subseteq Pending(c)'
           /\ \A d \in Cap : capOf[s] = d => s \in Pending(d)'
<1> DEFINE c == capOf[s]
<1>1. c \in Cap \cup {NoCap} /\ NoCap \notin Cap
  BY SeriesAssumption DEF RestIsWell
<1>2. \A d \in Cap : /\ Queue(Add(headQueue[d], s))
                     /\ ToSet(Add(headQueue[d], s)) = ToSet(headQueue[d]) \cup {s}
                     /\ Queue(Add(tailQueue[d], s))
                     /\ ToSet(Add(tailQueue[d], s)) = ToSet(tailQueue[d]) \cup {s}
  BY AddProperties DEF QueuesAreWell, Queue
<1>3. CASE needHead
  <2>1. headQueue' = [headQueue EXCEPT ![c] = Add(@, s)] /\ tailQueue' = tailQueue
    BY <1>3 DEF Scheduled
  <2> HIDE DEF c
  <2>2. /\ DOMAIN headQueue' = Cap
        /\ \A d \in Cap : headQueue'[d] = IF d = c THEN Add(headQueue[d], s) ELSE headQueue[d]
    BY <2>1 DEF QueuesAreWell
  <2>3. QueuesAreWell'
    BY <1>2, <2>1, <2>2 DEF QueuesAreWell
  <2>4. \A d \in Cap : Pending(d) \subseteq Pending(d)'
    BY <1>2, <2>1, <2>2 DEF Pending
  <2>5. \A d \in Cap : c = d => s \in Pending(d)'
    BY <1>2, <2>2 DEF Pending
  <2> QED
    BY <2>3, <2>4, <2>5 DEF c
<1>4. CASE ~needHead
  <2>1. tailQueue' = [tailQueue EXCEPT ![c] = Add(@, s)] /\ headQueue' = headQueue
    BY <1>4 DEF Scheduled
  <2> HIDE DEF c
  <2>2. /\ DOMAIN tailQueue' = Cap
        /\ \A d \in Cap : tailQueue'[d] = IF d = c THEN Add(tailQueue[d], s) ELSE tailQueue[d]
    BY <2>1 DEF QueuesAreWell
  <2>3. QueuesAreWell'
    BY <1>2, <2>1, <2>2 DEF QueuesAreWell
  <2>4. \A d \in Cap : Pending(d) \subseteq Pending(d)'
    BY <1>2, <2>1, <2>2 DEF Pending
  <2>5. \A d \in Cap : c = d => s \in Pending(d)'
    BY <1>2, <2>2 DEF Pending
  <2> QED
    BY <2>3, <2>4, <2>5 DEF c
<1> QED
  BY <1>3, <1>4

\* When a job ends, however it ends, its series is pending again.
LEMMA JobEndsKeepsParts ==
    ASSUME Parts, NEW c \in Cap, job[c] # NoJob,
           NEW needHead \in BOOLEAN, Scheduled(job[c].of, needHead),
           job' = [job EXCEPT ![c] = NoJob], capOf' = capOf
    PROVE  QueuesAreWell' /\ JobsAreWell' /\ FoundAreCarried'
<1> DEFINE s == job[c].of
<1>1. QueuesAreWell /\ JobsAreWell /\ RestIsWell /\ FoundAreCarried
  BY DEF Parts
<1>2. s \in Series
  BY <1>1 DEF JobsAreWell, Jobs
<1>3. /\ QueuesAreWell'
      /\ \A d \in Cap : Pending(d) \subseteq Pending(d)'
      /\ \A d \in Cap : capOf[s] = d => s \in Pending(d)'
  <2> HIDE DEF s
  <2>1. Scheduled(s, needHead)
    BY DEF s
  <2> QED
    BY <1>1, <1>2, <2>1, ScheduledProperties
<1>4. /\ job' \in [Cap -> Jobs \cup {NoJob}]
      /\ \A d \in Cap : job'[d] = IF d = c THEN NoJob ELSE job[d]
  BY <1>1 DEF JobsAreWell
<1>5. JobsAreWell'
  <2>1. Busy' \subseteq Busy
    BY <1>4 DEF Busy
  <2>2. /\ IsFiniteSet(Busy') /\ Cardinality(Busy') <= Cardinality(Busy)
        /\ Cardinality(Busy') \in Nat /\ Cardinality(Busy) \in Nat
    BY <1>1, <2>1, FS_Subset, FS_CardinalityType DEF JobsAreWell
  <2>3. Inflight' <= MaxInflight
    BY <1>1, <2>2, LimitAssumption DEF JobsAreWell, Inflight
  <2> QED
    BY <1>4, <2>2, <2>3 DEF JobsAreWell
<1>6. FoundAreCarried'
  <2> SUFFICES ASSUME NEW t \in Series, capOf'[t] # NoCap
               PROVE  \E d \in Cap : Carries(d, t)'
    BY DEF FoundAreCarried
  <2>1. CASE t = s
    <3>1. PICK d \in Cap : capOf[s] = d
      BY <1>1, <1>2, <2>1 DEF RestIsWell
    <3>2. s \in Pending(d)'
      BY <1>3, <3>1
    <3> QED
      BY <2>1, <3>2 DEF Carries
  <2>2. CASE t # s
    <3>1. PICK d \in Cap : Carries(d, t)
      BY <1>1 DEF FoundAreCarried
    <3>2. CASE t \in Pending(d)
      BY <1>3, <3>2 DEF Carries
    <3>3. CASE job[d] # NoJob /\ job[d].of = t
      <4>1. d # c
        BY <2>2, <3>3
      <4> QED
        BY <1>4, <3>3, <4>1 DEF Carries
    <3> QED
      BY <3>1, <3>2, <3>3 DEF Carries
  <2> QED
    BY <2>1, <2>2
<1> QED
  BY <1>3, <1>5, <1>6

\* A job that ends with an answer, or with none.
LEMMA JobStepsKeepParts ==
    ASSUME Parts, NEW c \in Cap, JobSucceeds(c) \/ JobFails(c)
    PROVE  Parts'
<1>1. RestIsWell /\ JobsAreWell
  BY DEF Parts
<1>2. CASE JobSucceeds(c)
  <2>1. job[c] # NoJob /\ job' = [job EXCEPT ![c] = NoJob] /\ capOf' = capOf
    BY <1>2 DEF JobSucceeds
  <2>2. /\ recent' \in {recent \cup {job[c].of}, recent \ {job[c].of}}
        /\ Scheduled(job[c].of, job[c].of \notin recent')
        /\ UNCHANGED <<found, resting, capOf, tick, scanning, refreshes>>
    BY <1>2 DEF JobSucceeds
  <2>3. QueuesAreWell' /\ JobsAreWell' /\ FoundAreCarried'
    <3> DEFINE needHead == job[c].of \notin recent'
    <3>1. needHead \in BOOLEAN /\ Scheduled(job[c].of, needHead)
      BY <2>2
    <3> HIDE DEF needHead
    <3> QED
      BY <2>1, <3>1, JobEndsKeepsParts
  <2>4. job[c].of \in Series
    BY <1>1, <2>1 DEF JobsAreWell, Jobs
  <2>5. recent' \subseteq Series
    BY <1>1, <2>2, <2>4 DEF RestIsWell
  <2>6. RestIsWell'
    BY <1>1, <2>2, <2>5 DEF RestIsWell, found
  <2> QED
    BY <2>3, <2>6 DEF Parts
<1>3. CASE JobFails(c)
  <2>1. job[c] # NoJob /\ job' = [job EXCEPT ![c] = NoJob] /\ capOf' = capOf
    BY <1>3 DEF JobFails, series
  <2>2. /\ resting' = resting \cup {c}
        /\ Scheduled(job[c].of, job[c].of \notin recent)
        /\ UNCHANGED <<found, series, tick, scanning, refreshes>>
    BY <1>3 DEF JobFails
  <2>3. QueuesAreWell' /\ JobsAreWell' /\ FoundAreCarried'
    <3> DEFINE needHead == job[c].of \notin recent
    <3>1. needHead \in BOOLEAN /\ Scheduled(job[c].of, needHead)
      BY <2>2
    <3> HIDE DEF needHead
    <3> QED
      BY <2>1, <3>1, JobEndsKeepsParts
  <2>4. RestIsWell'
    BY <1>1, <2>2 DEF RestIsWell, found, series
  <2> QED
    BY <2>3, <2>4 DEF Parts
<1> QED
  BY <1>2, <1>3

\* The positions that a scan selects give a queue that a queue can be extended by.
LEMMA PickedExtends ==
    ASSUME NEW q, Queue(q), NEW c \in Cap, NEW S, S \cap ToSet(q) = {}
    PROVE  /\ Queue(q \o Pick(SeriesOf[c], Among(c, S)))
           /\ ToSet(q \o Pick(SeriesOf[c], Among(c, S)))
                = ToSet(q) \cup (S \cap ToSet(SeriesOf[c]))
<1> DEFINE w == SeriesOf[c]
           I == Among(c, S)
<1>1. w \in Seq(Series) /\ IsInjective(w)
  BY SeriesAssumption
<1>2. I \in SUBSET (1..Len(w)) /\ I = {i \in DOMAIN w : w[i] \in S}
  BY <1>1 DEF Among
<1> HIDE DEF w, I
<1> DEFINE r == Pick(w, I)
<1>3. r \in Seq(Series) /\ ToSet(r) = {w[i] : i \in I} /\ IsInjective(r)
  BY <1>1, <1>2, PickProperties
<1>4. {w[i] : i \in I} = S \cap ToSet(w)
  BY <1>2 DEF ToSet
<1> HIDE DEF r
<1>5. ToSet(q) \cap ToSet(r) = {}
  BY <1>3, <1>4
<1>6. q \in Seq(Series) /\ IsInjective(q)
  BY DEF Queue
<1>7. /\ q \o r \in Seq(Series)
      /\ ToSet(q \o r) = ToSet(q) \cup ToSet(r)
      /\ IsInjective(q \o r)
  BY <1>3, <1>5, <1>6, Concatenated
<1> QED
  BY <1>3, <1>4, <1>7 DEF Queue, r, w, I

\* A scan makes every series that it finds pending, and takes nothing from any queue.
LEMMA ScanAnsweredKeepsParts ==
    ASSUME Parts, ScanAnswered
    PROVE  Parts'
<1> DEFINE c == scanning
           H == Series \ (recent \cup ToSet(headQueue[c]))
           T == recent \ ToSet(tailQueue[c])
           longHead == headQueue[c] \o Pick(SeriesOf[c], Among(c, H))
           longTail == tailQueue[c] \o Pick(SeriesOf[c], Among(c, T))
<1>1. QueuesAreWell /\ JobsAreWell /\ RestIsWell /\ FoundAreCarried
  BY DEF Parts
<1>2. c \in Cap
  BY <1>1 DEF RestIsWell, ScanAnswered
<1>3. /\ headQueue' = [headQueue EXCEPT ![c] = longHead]
      /\ tailQueue' = [tailQueue EXCEPT ![c] = longTail]
      /\ capOf' = [s \in Series |-> IF s \in ToSet(SeriesOf[c]) THEN c ELSE capOf[s]]
      /\ scanned' = scanned \cup ({c} \cap ToSet(capabilities))
      /\ scanning' = NoCap /\ tick' = "running"
      /\ UNCHANGED <<capabilities, scanIndex, capRunIndex, job, resting, recent, refreshes>>
  BY DEF ScanAnswered
<1>4. /\ Queue(longHead)
      /\ ToSet(longHead) = ToSet(headQueue[c]) \cup (H \cap ToSet(SeriesOf[c]))
  <2> DEFINE q == headQueue[c]
  <2>1. Queue(q)
    BY <1>1, <1>2 DEF QueuesAreWell
  <2>2. H \cap ToSet(q) = {}
    OBVIOUS
  <2> HIDE DEF q, H, c
  <2>3. /\ Queue(q \o Pick(SeriesOf[c], Among(c, H)))
        /\ ToSet(q \o Pick(SeriesOf[c], Among(c, H)))
             = ToSet(q) \cup (H \cap ToSet(SeriesOf[c]))
    BY <1>2, <2>1, <2>2, PickedExtends
  <2> QED
    BY <2>3 DEF q
<1>5. /\ Queue(longTail)
      /\ ToSet(longTail) = ToSet(tailQueue[c]) \cup (T \cap ToSet(SeriesOf[c]))
  <2> DEFINE q == tailQueue[c]
  <2>1. Queue(q)
    BY <1>1, <1>2 DEF QueuesAreWell
  <2>2. T \cap ToSet(q) = {}
    OBVIOUS
  <2> HIDE DEF q, T, c
  <2>3. /\ Queue(q \o Pick(SeriesOf[c], Among(c, T)))
        /\ ToSet(q \o Pick(SeriesOf[c], Among(c, T)))
             = ToSet(q) \cup (T \cap ToSet(SeriesOf[c]))
    BY <1>2, <2>1, <2>2, PickedExtends
  <2> QED
    BY <2>3 DEF q
<1> HIDE DEF longHead, longTail
<1>6. /\ DOMAIN headQueue' = Cap /\ DOMAIN tailQueue' = Cap
      /\ \A d \in Cap : d # c => headQueue'[d] = headQueue[d] /\ tailQueue'[d] = tailQueue[d]
      /\ headQueue'[c] = longHead /\ tailQueue'[c] = longTail
  BY <1>1, <1>2, <1>3 DEF QueuesAreWell
<1>7. QueuesAreWell'
  <2>1. ASSUME NEW d \in Cap PROVE Queue(headQueue'[d]) /\ Queue(tailQueue'[d])
    BY <1>1, <1>4, <1>5, <1>6 DEF QueuesAreWell
  <2> QED
    BY <1>6, <2>1 DEF QueuesAreWell, Queue
<1>8. JobsAreWell'
  BY <1>1, <1>3 DEF JobsAreWell, Inflight, Busy
<1>9. RestIsWell'
  <2>1. capOf' \in [Series -> Cap \cup {NoCap}]
    BY <1>1, <1>2, <1>3 DEF RestIsWell
  <2> QED
    BY <1>1, <1>2, <1>3, <2>1 DEF RestIsWell
<1>10. \A d \in Cap : Pending(d) \subseteq ToSet(headQueue'[d]) \cup ToSet(tailQueue'[d])
  <2>1. ASSUME NEW d \in Cap, d # c
        PROVE  Pending(d) \subseteq ToSet(headQueue'[d]) \cup ToSet(tailQueue'[d])
    BY <1>6, <2>1 DEF Pending
  <2>2. Pending(c) \subseteq ToSet(headQueue'[c]) \cup ToSet(tailQueue'[c])
    BY <1>4, <1>5, <1>6 DEF Pending
  <2> QED
    BY <2>1, <2>2
<1>11. \A s \in Series : s \in ToSet(SeriesOf[c]) =>
          s \in ToSet(headQueue'[c]) \cup ToSet(tailQueue'[c])
  BY <1>4, <1>5, <1>6
<1>12. FoundAreCarried'
  <2> SUFFICES ASSUME NEW s \in Series, capOf'[s] # NoCap
               PROVE  \E d \in Cap : Carries(d, s)'
    BY DEF FoundAreCarried
  <2>1. CASE s \in ToSet(SeriesOf[c])
    <3>1. PICK d \in Cap : d = c
      BY <1>2
    <3>2. s \in ToSet(headQueue'[d]) \cup ToSet(tailQueue'[d])
      BY <1>11, <2>1, <3>1
    <3> QED
      BY <3>2 DEF Carries, Pending
  <2>2. CASE s \notin ToSet(SeriesOf[c])
    <3>1. capOf[s] # NoCap
      BY <1>3, <2>2
    <3>2. PICK d \in Cap : Carries(d, s)
      BY <1>1, <3>1 DEF FoundAreCarried
    <3> QED
      BY <1>3, <1>10, <3>2 DEF Carries, Pending
  <2> QED
    BY <2>1, <2>2
<1> QED
  BY <1>7, <1>8, <1>9, <1>12 DEF Parts

\* A start picks a capability of the list that may run, the nearest one.
LEMMA StartIsOfACap ==
    ASSUME Parts, Start
    PROVE  LET i == Min(RunnableSteps) IN
           /\ i \in RunnableSteps /\ \A k \in RunnableSteps : i <= k
           /\ i \in 0..Len(capabilities) - 1 /\ capabilities # <<>>
           /\ At(capRunIndex + i) \in Cap /\ Runnable(At(capRunIndex + i))
<1> DEFINE S == RunnableSteps
           i == Min(S)
<1>1. RestIsWell /\ capabilities \in Seq(Cap) /\ Len(capabilities) \in Nat
  BY ListAssumption DEF Parts, RestIsWell
<1>2. S \in SUBSET Nat /\ S # {}
  BY <1>1 DEF RunnableSteps, Start
<1>3. i \in S /\ \A k \in S : i <= k
  <2> HIDE DEF S
  <2> QED
    BY <1>2, MinProperties
<1>4. i \in 0..Len(capabilities) - 1 /\ Runnable(At(capRunIndex + i))
  BY <1>3 DEF RunnableSteps
<1> HIDE DEF i
<1>5. capabilities # <<>> /\ capRunIndex + i \in Nat
  BY <1>1, <1>4 DEF RestIsWell
<1>6. At(capRunIndex + i) \in Cap
  BY <1>1, <1>5, AtIsACap
<1> QED
  BY <1>3, <1>4, <1>5, <1>6 DEF i

\* A start takes the first series of a queue into a job of the same capability, when
\* there is room for one.
LEMMA StartKeepsParts ==
    ASSUME Parts, Start
    PROVE  Parts'
<1> DEFINE i == Min(RunnableSteps)
           c == At(capRunIndex + i)
<1>1. QueuesAreWell /\ JobsAreWell /\ RestIsWell /\ FoundAreCarried
  BY DEF Parts
<1>2. /\ tick = "running" /\ HasRoom /\ RunnableSteps # {}
      /\ capRunIndex' = NextRunIndex(i)
      /\ UNCHANGED <<capabilities, scanned, scanIndex, resting, series, scanning, refreshes>>
  BY DEF Start
<1>3. capabilities \in Seq(Cap) /\ Len(capabilities) \in Nat
  BY <1>1, ListAssumption DEF RestIsWell
<1>4. i \in RunnableSteps /\ i \in 0..Len(capabilities) - 1
  BY StartIsOfACap
<1> HIDE DEF i
<1>5. Len(capabilities) # 0 /\ i \in Nat /\ capRunIndex + i \in Nat /\ capabilities # <<>>
  BY <1>1, <1>3, <1>4 DEF RestIsWell
<1>6. c \in Cap
  BY <1>1, <1>5, AtIsACap
<1>7. Runnable(c)
  BY <1>4 DEF RunnableSteps
<1> HIDE DEF c
<1>8. RestIsWell' \/ tick' \notin {"running", "waiting"}
  <2>1. capRunIndex' \in Nat
    <3> DEFINE n == Len(capabilities)
    <3>1. n \in Nat /\ n # 0 /\ capRunIndex \in Nat
      BY <1>1, <1>3, <1>5 DEF RestIsWell
    <3> HIDE DEF n
    <3>2. (capRunIndex + i + 1) % n \in Nat
      BY <1>5, <3>1
    <3> QED
      BY <1>2, <3>2 DEF NextRunIndex, n
  <2> QED
    BY <1>1, <1>2, <2>1 DEF RestIsWell, series
<1>9. ASSUME NEW q, Queue(q), q # <<>>,
             NEW kind \in {"head", "tail"},
             job' = [job EXCEPT ![c] = [kind |-> kind, of |-> Head(q)]]
      PROVE  /\ JobsAreWell'
             /\ Queue(Tail(q)) /\ ToSet(q) = ToSet(Tail(q)) \cup {Head(q)}
             /\ job'[c] # NoJob /\ job'[c].of = Head(q)
             /\ \A d \in Cap : d # c => job'[d] = job[d]
  <2>1. /\ Head(q) \in Series /\ Queue(Tail(q))
        /\ ToSet(q) = ToSet(Tail(q)) \cup {Head(q)}
    BY <1>9, Shortened DEF Queue
  <2> DEFINE j == [kind |-> kind, of |-> Head(q)]
  <2>2. j \in Jobs /\ j.of = Head(q) /\ j # NoJob
    BY <2>1, SeriesAssumption DEF Jobs
  <2> HIDE DEF j
  <2>3. job' = [job EXCEPT ![c] = j]
    BY <1>9 DEF j
  <2>4. /\ job' \in [Cap -> Jobs \cup {NoJob}] /\ job'[c] = j
        /\ \A d \in Cap : d # c => job'[d] = job[d]
    BY <1>1, <1>6, <2>2, <2>3 DEF JobsAreWell
  <2>5. Busy' = Busy \cup {c} /\ c \notin Busy
    BY <1>6, <1>7, <2>2, <2>4 DEF Busy, Runnable
  <2>6. /\ IsFiniteSet(Busy') /\ Cardinality(Busy') = Cardinality(Busy) + 1
        /\ Cardinality(Busy) \in Nat
    <3> DEFINE B == Busy
    <3>1. IsFiniteSet(B) /\ c \notin B
      BY <1>1, <2>5 DEF JobsAreWell
    <3> HIDE DEF B
    <3>2. /\ IsFiniteSet(B \cup {c}) /\ Cardinality(B \cup {c}) = Cardinality(B) + 1
          /\ Cardinality(B) \in Nat
      BY <3>1, FS_AddElement, FS_CardinalityType
    <3> QED
      BY <2>5, <3>2 DEF B
  <2>7. Inflight' <= MaxInflight
    BY <1>2, <2>6, LimitAssumption DEF HasRoom, Inflight
  <2>8. JobsAreWell'
    BY <2>4, <2>6, <2>7 DEF JobsAreWell
  <2> QED
    BY <2>1, <2>2, <2>4, <2>8
<1>10. ASSUME \A d \in Cap : Pending(d) \subseteq
                  ToSet(headQueue'[d]) \cup ToSet(tailQueue'[d])
                      \cup (IF d = c THEN {job'[c].of} ELSE {}),
              job'[c] # NoJob,
              \A d \in Cap : d # c => job'[d] = job[d]
       PROVE  FoundAreCarried'
  <2> SUFFICES ASSUME NEW s \in Series, capOf'[s] # NoCap
               PROVE  \E d \in Cap : Carries(d, s)'
    BY DEF FoundAreCarried
  <2>1. capOf[s] # NoCap
    BY <1>2 DEF series
  <2>2. PICK d \in Cap : Carries(d, s)
    BY <1>1, <2>1 DEF FoundAreCarried
  <2>3. \/ s \in ToSet(headQueue'[d]) \cup ToSet(tailQueue'[d])
        \/ job'[d] # NoJob /\ job'[d].of = s
    <3>1. CASE s \in Pending(d)
      BY <1>10, <3>1
    <3>2. CASE job[d] # NoJob /\ job[d].of = s
      <4>1. d # c
        BY <1>7, <3>2 DEF Runnable
      <4> QED
        BY <1>10, <3>2, <4>1
    <3> QED
      BY <2>2, <3>1, <3>2 DEF Carries
  <2> QED
    BY <2>3 DEF Carries, Pending
<1>11. Queue(headQueue[c]) /\ Queue(tailQueue[c])
  BY <1>1, <1>6 DEF QueuesAreWell
<1>12. CASE /\ headQueue[c] # <<>>
            /\ job' = [job EXCEPT ![c] = [kind |-> "head", of |-> Head(headQueue[c])]]
            /\ headQueue' = [headQueue EXCEPT ![c] = Tail(@)]
            /\ UNCHANGED <<tailQueue, tick>>
  <2> DEFINE q == headQueue[c]
  <2>1. /\ JobsAreWell'
        /\ Queue(Tail(q)) /\ ToSet(q) = ToSet(Tail(q)) \cup {Head(q)}
        /\ job'[c] # NoJob /\ job'[c].of = Head(q)
        /\ \A d \in Cap : d # c => job'[d] = job[d]
    BY <1>9, <1>11, <1>12
  <2>2. /\ DOMAIN headQueue' = Cap /\ headQueue'[c] = Tail(q) /\ tailQueue' = tailQueue
        /\ \A d \in Cap : d # c => headQueue'[d] = headQueue[d]
    BY <1>1, <1>6, <1>12 DEF QueuesAreWell
  <2> HIDE DEF q
  <2>3. \A d \in Cap : Queue(headQueue'[d]) /\ Queue(tailQueue'[d])
    BY <1>1, <2>1, <2>2 DEF QueuesAreWell
  <2>4. QueuesAreWell'
    BY <1>1, <2>2, <2>3 DEF QueuesAreWell, Queue
  <2>5. \A d \in Cap : Pending(d) \subseteq
           ToSet(headQueue'[d]) \cup ToSet(tailQueue'[d])
               \cup (IF d = c THEN {job'[c].of} ELSE {})
    <3>1. Pending(c) \subseteq ToSet(headQueue'[c]) \cup ToSet(tailQueue'[c]) \cup {job'[c].of}
      BY <2>1, <2>2 DEF Pending, q
    <3> QED
      BY <2>2, <3>1 DEF Pending
  <2>6. FoundAreCarried'
    BY <1>10, <2>1, <2>5
  <2>7. RestIsWell'
    BY <1>2, <1>8, <1>12
  <2> QED
    BY <2>1, <2>4, <2>6, <2>7 DEF Parts
<1>13. CASE /\ headQueue[c] = <<>>
            /\ job' = [job EXCEPT ![c] = [kind |-> "tail", of |-> Head(tailQueue[c])]]
            /\ tailQueue' = [tailQueue EXCEPT ![c] = Tail(@)]
            /\ UNCHANGED <<headQueue, tick>>
  <2> DEFINE q == tailQueue[c]
  <2>0. q # <<>>
    BY <1>7, <1>13 DEF Runnable
  <2>1. /\ JobsAreWell'
        /\ Queue(Tail(q)) /\ ToSet(q) = ToSet(Tail(q)) \cup {Head(q)}
        /\ job'[c] # NoJob /\ job'[c].of = Head(q)
        /\ \A d \in Cap : d # c => job'[d] = job[d]
    BY <1>9, <1>11, <1>13, <2>0
  <2>2. /\ DOMAIN tailQueue' = Cap /\ tailQueue'[c] = Tail(q) /\ headQueue' = headQueue
        /\ \A d \in Cap : d # c => tailQueue'[d] = tailQueue[d]
    BY <1>1, <1>6, <1>13 DEF QueuesAreWell
  <2> HIDE DEF q
  <2>3. \A d \in Cap : Queue(headQueue'[d]) /\ Queue(tailQueue'[d])
    BY <1>1, <2>1, <2>2 DEF QueuesAreWell
  <2>4. QueuesAreWell'
    BY <1>1, <2>2, <2>3 DEF QueuesAreWell, Queue
  <2>5. \A d \in Cap : Pending(d) \subseteq
           ToSet(headQueue'[d]) \cup ToSet(tailQueue'[d])
               \cup (IF d = c THEN {job'[c].of} ELSE {})
    <3>1. Pending(c) \subseteq ToSet(headQueue'[c]) \cup ToSet(tailQueue'[c]) \cup {job'[c].of}
      BY <2>1, <2>2 DEF Pending, q
    <3> QED
      BY <2>2, <3>1 DEF Pending
  <2>6. FoundAreCarried'
    BY <1>10, <2>1, <2>5
  <2>7. RestIsWell'
    BY <1>2, <1>8, <1>13
  <2> QED
    BY <2>1, <2>4, <2>6, <2>7 DEF Parts
<1>14. CASE tick' = "waiting" /\ UNCHANGED <<job, queues>>
  <2>1. RestIsWell'
    BY <1>8, <1>14
  <2>2. QueuesAreWell' /\ JobsAreWell' /\ FoundAreCarried'
    BY <1>1, <1>2, <1>14 DEF QueuesAreWell, Queue, JobsAreWell, Inflight, Busy,
       FoundAreCarried, Carries, Pending, queues, series
  <2> QED
    BY <2>1, <2>2 DEF Parts
<1>15. \/ /\ headQueue[c] # <<>>
          /\ job' = [job EXCEPT ![c] = [kind |-> "head", of |-> Head(headQueue[c])]]
          /\ headQueue' = [headQueue EXCEPT ![c] = Tail(@)]
          /\ UNCHANGED <<tailQueue, tick>>
       \/ /\ headQueue[c] = <<>>
          /\ job' = [job EXCEPT ![c] = [kind |-> "tail", of |-> Head(tailQueue[c])]]
          /\ tailQueue' = [tailQueue EXCEPT ![c] = Tail(@)]
          /\ UNCHANGED <<headQueue, tick>>
       \/ tick' = "waiting" /\ UNCHANGED <<job, queues>>
  BY DEF Start, i, c
<1> QED
  BY <1>12, <1>13, <1>14, <1>15

\* The steps that leave the queues and the jobs alone.
LEMMA OtherStepsKeepParts ==
    ASSUME Parts,
           \/ Tick \/ ScanFails \/ Stop \/ Refresh
           \/ \E c \in Cap : BackoffEnds(c) \/ ScanIsDue(c)
           \/ \E s \in Series : DataAges(s)
           \/ UNCHANGED vars
    PROVE  Parts'
<1>1. QueuesAreWell /\ JobsAreWell /\ RestIsWell /\ FoundAreCarried
  BY DEF Parts
<1>2. UNCHANGED <<queues, job, capOf>>
  BY DEF Tick, ScanFails, Stop, Refresh, BackoffEnds, ScanIsDue, DataAges, vars, series
<1>3. QueuesAreWell' /\ JobsAreWell' /\ FoundAreCarried'
  BY <1>1, <1>2 DEF QueuesAreWell, Queue, JobsAreWell, Inflight, Busy,
     FoundAreCarried, Carries, Pending, queues
<1>4. CASE Tick
  <2>1. /\ UNCHANGED <<capabilities, scanned, capRunIndex, resting, series, refreshes>>
        /\ \/ tick' = "running" /\ scanning' = scanning
           \/ capabilities # <<>> /\ tick' = "scanning" /\ scanning' = At(scanIndex)
    BY <1>4 DEF Tick
  <2>2. capabilities # <<>> => At(scanIndex) \in Cap
    BY <1>1, AtIsACap DEF RestIsWell
  <2>3. scanIndex' \in Nat
    <3> DEFINE n == Len(capabilities)
    <3>1. n \in Nat /\ scanIndex \in Nat /\ (capabilities # <<>> => n # 0)
      BY <1>1, ListAssumption DEF RestIsWell
    <3>2. scanIndex' = IF capabilities = <<>> THEN 0 ELSE (scanIndex + 1) % n
      BY <1>4 DEF Tick
    <3> HIDE DEF n
    <3> QED
      BY <3>1, <3>2
  <2>4. RestIsWell'
    BY <1>1, <2>1, <2>2, <2>3 DEF RestIsWell, series
  <2> QED
    BY <1>3, <2>4 DEF Parts
<1>5. CASE Refresh
  <2>1. refreshes' \in DOMAIN Lists /\ capabilities' = Lists[refreshes']
    BY <1>1, <1>5, ListAssumption DEF Refresh, RestIsWell
  <2>2. scanIndex' \in Nat /\ capRunIndex' \in Nat
    BY <1>5 DEF Refresh
  <2>3. scanned' \subseteq Cap /\ UNCHANGED <<resting, series, tick, scanning>>
    BY <1>1, <1>5 DEF Refresh, RestIsWell
  <2>4. RestIsWell'
    BY <1>1, <2>1, <2>2, <2>3 DEF RestIsWell, series
  <2> QED
    BY <1>3, <2>4 DEF Parts
<1>6. CASE ScanFails \/ Stop \/ UNCHANGED vars
  <2>1. RestIsWell'
    BY <1>1, <1>6 DEF RestIsWell, ScanFails, Stop, vars, found, series
  <2> QED
    BY <1>3, <2>1 DEF Parts
<1>7. CASE \/ \E c \in Cap : BackoffEnds(c) \/ ScanIsDue(c)
           \/ \E s \in Series : DataAges(s)
  <2>1. RestIsWell'
    BY <1>1, <1>7 DEF RestIsWell, BackoffEnds, ScanIsDue, DataAges, found, series
  <2> QED
    BY <1>3, <2>1 DEF Parts
<1> QED
  BY <1>4, <1>5, <1>6, <1>7

-----------------------------------------------------------------------------
(* The theorems.                                                           *)

\* The conjunction that the steps keep (series-data/scheduler.ts:233-254, 433-594).
THEOREM Invariant == Spec => []IInv
<1>1. Init => Parts
  BY InitInvariant
<1>2. Parts /\ [Next]_vars => Parts'
  <2> SUFFICES ASSUME Parts, [Next]_vars PROVE Parts'
    OBVIOUS
  <2>1. CASE ScanAnswered
    BY <2>1, ScanAnsweredKeepsParts
  <2>2. CASE Start
    BY <2>2, StartKeepsParts
  <2>3. ASSUME NEW c \in Cap, JobSucceeds(c) \/ JobFails(c) PROVE Parts'
    BY <2>3, JobStepsKeepParts
  <2>4. CASE \/ Tick \/ ScanFails \/ Stop \/ Refresh
             \/ \E c \in Cap : BackoffEnds(c) \/ ScanIsDue(c)
             \/ \E s \in Series : DataAges(s)
             \/ UNCHANGED vars
    BY <2>4, OtherStepsKeepParts
  <2> QED
    BY <2>1, <2>2, <2>3, <2>4 DEF Next
<1> QED
  BY <1>1, <1>2, InvariantByParts, PTL DEF Spec

\* The state keeps its types, a series is pending once in a queue, and no more jobs are
\* in flight than CONFIG.maxInflight (series-data/scheduler.ts:233-240, 579).
THEOREM TypeCorrect == Spec => []TypeOK
<1>1. IInv => TypeOK
  BY DEF IInv
<1> QED
  BY <1>1, Invariant, PTL

\* A series that was found once is pending or in flight for ever after
\* (series-data/scheduler.ts:433-483).
THEOREM SeriesAreKept == Spec => []NoSeriesIsLost
<1>1. IInv => NoSeriesIsLost
  BY DEF IInv
<1> QED
  BY <1>1, Invariant, PTL

-----------------------------------------------------------------------------
(* First in, first out, and the capabilities in turn: what it takes for     *)
(* every head to be served, whose liveness is checked.                      *)

\* r is q, and perhaps more at its end.
Extends(r, q) == DOMAIN q \subseteq DOMAIN r /\ \A i \in DOMAIN q : r[i] = q[i]

\* A job of c takes the first series of its queue.
HeadStarts(c) ==
    /\ headQueue[c] # <<>>
    /\ job'[c] = [kind |-> "head", of |-> Head(headQueue[c])]
    /\ headQueue'[c] = Tail(headQueue[c])
TailStarts(c) ==
    /\ tailQueue[c] # <<>>
    /\ job'[c] = [kind |-> "tail", of |-> Head(tailQueue[c])]
    /\ tailQueue'[c] = Tail(tailQueue[c])

PlacesAreKept ==
    \A c \in Cap :
        /\ Extends(headQueue'[c], headQueue[c]) \/ HeadStarts(c)
        /\ Extends(tailQueue'[c], tailQueue[c]) \/ TailStarts(c)

\* The heads of c are held up by nothing but the turn of others.
MayRunHead(c) == job[c] = NoJob /\ c \notin resting /\ headQueue[c] # <<>>

\* The capability that is asked k steps after capRunIndex.
Away(c, k) == k \in 0..Len(capabilities) - 1 /\ At(capRunIndex + k) = c

\* Whatever a start picks, c is the one, or is k steps away and nearer from now on.
NearerWith(c, k) == HeadStarts(c) \/ \E m \in 0..k - 1 : Away(c, m)'

\* What is added at the end of a sequence moves nothing.
LEMMA EndsExtend ==
    ASSUME NEW T, NEW q \in Seq(T), NEW r \in Seq(T)
    PROVE  Extends(q, q) /\ Extends(q \o r, q)
  BY DEF Extends

LEMMA AddExtends ==
    ASSUME NEW q \in Seq(Series), NEW s \in Series
    PROVE  Extends(q, q) /\ Extends(Add(q, s), q)
<1>1. Extends(Append(q, s), q)
  BY DEF Extends
<1> QED
  BY <1>1, EndsExtend DEF Add

\* A start is of the capability it picks, and of its tail only if it has no head.
LEMMA StartTakesTheFirst ==
    ASSUME Parts, Start
    PROVE  LET c == At(capRunIndex + Min(RunnableSteps)) IN
           /\ \A d \in Cap \ {c} : headQueue'[d] = headQueue[d] /\ tailQueue'[d] = tailQueue[d]
           /\ \/ headQueue[c] # <<>> /\ HeadStarts(c) /\ tailQueue' = tailQueue
              \/ headQueue[c] = <<>> /\ TailStarts(c) /\ headQueue' = headQueue
              \/ headQueue[c] = <<>> /\ headQueue' = headQueue /\ tailQueue' = tailQueue
<1> DEFINE i == Min(RunnableSteps)
           c == At(capRunIndex + i)
<1>1. /\ DOMAIN headQueue = Cap /\ DOMAIN tailQueue = Cap /\ DOMAIN job = Cap
  BY DEF Parts, QueuesAreWell, JobsAreWell
<1>2. c \in Cap /\ Runnable(c)
  BY StartIsOfACap
<1>3. \/ /\ headQueue[c] # <<>>
         /\ job' = [job EXCEPT ![c] = [kind |-> "head", of |-> Head(headQueue[c])]]
         /\ headQueue' = [headQueue EXCEPT ![c] = Tail(@)]
         /\ tailQueue' = tailQueue
      \/ /\ headQueue[c] = <<>>
         /\ job' = [job EXCEPT ![c] = [kind |-> "tail", of |-> Head(tailQueue[c])]]
         /\ tailQueue' = [tailQueue EXCEPT ![c] = Tail(@)]
         /\ headQueue' = headQueue
      \/ headQueue[c] = <<>> /\ headQueue' = headQueue /\ tailQueue' = tailQueue
  BY DEF Start, queues
<1> HIDE DEF c
<1>4. headQueue[c] # <<>> \/ tailQueue[c] # <<>>
  BY <1>2 DEF Runnable
<1>5. /\ \A d \in Cap \ {c} : headQueue'[d] = headQueue[d] /\ tailQueue'[d] = tailQueue[d]
      /\ \/ headQueue[c] # <<>> /\ HeadStarts(c) /\ tailQueue' = tailQueue
         \/ headQueue[c] = <<>> /\ TailStarts(c) /\ headQueue' = headQueue
         \/ headQueue[c] = <<>> /\ headQueue' = headQueue /\ tailQueue' = tailQueue
  BY <1>1, <1>2, <1>3, <1>4 DEF HeadStarts, TailStarts
<1> QED
  BY <1>5 DEF c

LEMMA PlacesStep ==
    ASSUME Parts, [Next]_vars
    PROVE  PlacesAreKept
<1> SUFFICES ASSUME NEW c \in Cap
             PROVE  /\ Extends(headQueue'[c], headQueue[c]) \/ HeadStarts(c)
                    /\ Extends(tailQueue'[c], tailQueue[c]) \/ TailStarts(c)
  BY DEF PlacesAreKept
<1>1. /\ \A d \in Cap : headQueue[d] \in Seq(Series) /\ tailQueue[d] \in Seq(Series)
      /\ DOMAIN headQueue = Cap /\ DOMAIN tailQueue = Cap
  BY DEF Parts, QueuesAreWell, Queue
<1>2. CASE headQueue'[c] = headQueue[c] /\ tailQueue'[c] = tailQueue[c]
  BY <1>1, <1>2, EndsExtend
<1>3. CASE ScanAnswered
  <2> DEFINE w == SeriesOf[scanning]
             I == Among(scanning, Series \ (recent \cup ToSet(headQueue[scanning])))
             J == Among(scanning, recent \ ToSet(tailQueue[scanning]))
  <2>1. /\ headQueue' = [headQueue EXCEPT ![scanning] = @ \o Pick(w, I)]
        /\ tailQueue' = [tailQueue EXCEPT ![scanning] = @ \o Pick(w, J)]
    BY <1>3 DEF ScanAnswered
  <2>2. CASE c # scanning
    BY <1>1, <1>2, <2>1, <2>2
  <2>3. CASE c = scanning
    <3>1. /\ w \in Seq(Series)
          /\ I \in SUBSET (1..Len(w)) /\ J \in SUBSET (1..Len(w))
      BY <2>3, SeriesAssumption DEF Among
    <3> HIDE DEF w, I, J
    <3>2. Pick(w, I) \in Seq(Series) /\ Pick(w, J) \in Seq(Series)
      BY <3>1, PickProperties
    <3>3. /\ headQueue'[c] = headQueue[c] \o Pick(w, I)
          /\ tailQueue'[c] = tailQueue[c] \o Pick(w, J)
      BY <1>1, <2>1, <2>3
    <3> QED
      BY <1>1, <3>2, <3>3, EndsExtend
  <2> QED
    BY <2>2, <2>3
<1>4. CASE Start
  <2> DEFINE e == At(capRunIndex + Min(RunnableSteps))
  <2>1. /\ \A d \in Cap \ {e} : headQueue'[d] = headQueue[d] /\ tailQueue'[d] = tailQueue[d]
        /\ \/ HeadStarts(e) /\ tailQueue' = tailQueue
           \/ TailStarts(e) /\ headQueue' = headQueue
           \/ headQueue' = headQueue /\ tailQueue' = tailQueue
    BY <1>4, StartTakesTheFirst
  <2> HIDE DEF e
  <2>2. Extends(headQueue[c], headQueue[c]) /\ Extends(tailQueue[c], tailQueue[c])
    BY <1>1, EndsExtend
  <2> QED
    BY <2>1, <2>2
<1>5. ASSUME NEW d \in Cap, JobSucceeds(d) \/ JobFails(d)
      PROVE  /\ Extends(headQueue'[c], headQueue[c])
             /\ Extends(tailQueue'[c], tailQueue[c])
  <2> DEFINE s == job[d].of
             e == capOf[s]
  <2>1. s \in Series
    BY <1>5 DEF JobSucceeds, JobFails, Parts, JobsAreWell, Jobs
  <2>2. \/ headQueue' = [headQueue EXCEPT ![e] = Add(@, s)] /\ tailQueue' = tailQueue
        \/ tailQueue' = [tailQueue EXCEPT ![e] = Add(@, s)] /\ headQueue' = headQueue
    BY <1>5 DEF JobSucceeds, JobFails, Scheduled
  <2> HIDE DEF s, e
  <2>3. /\ Extends(Add(headQueue[c], s), headQueue[c])
        /\ Extends(Add(tailQueue[c], s), tailQueue[c])
        /\ Extends(headQueue[c], headQueue[c]) /\ Extends(tailQueue[c], tailQueue[c])
    BY <1>1, <2>1, AddExtends
  <2>4. /\ headQueue'[c] \in {headQueue[c], Add(headQueue[c], s)}
        /\ tailQueue'[c] \in {tailQueue[c], Add(tailQueue[c], s)}
    BY <1>1, <2>2
  <2> QED
    BY <2>3, <2>4
<1>6. \/ UNCHANGED queues \/ ScanAnswered \/ Start
      \/ \E d \in Cap : JobSucceeds(d) \/ JobFails(d)
  BY DEF Next, vars, Tick, ScanFails, Stop, Refresh, BackoffEnds, ScanIsDue, DataAges
<1>7. UNCHANGED queues => headQueue'[c] = headQueue[c] /\ tailQueue'[c] = tailQueue[c]
  BY DEF queues
<1> QED
  BY <1>2, <1>3, <1>4, <1>5, <1>6, <1>7

\* No series is overtaken: whatever fails, is found or vanishes, a queue only gains
\* at its end and only loses its first series, to a job of the same capability
\* (series-data/fifo-queue.ts, series-data/scheduler.ts:433-537).
THEOREM QueuesAreServedInOrder == Spec => [][PlacesAreKept]_vars
<1>1. IInv /\ [Next]_vars => [PlacesAreKept]_vars
  BY PlacesStep, InvariantByParts
<1> QED
  BY <1>1, Invariant, PTL DEF Spec

\* Counting on from a remainder.
LEMMA RemainderOfSum ==
    ASSUME NEW n \in Nat, n # 0, NEW x \in Nat, NEW y \in Nat
    PROVE  ((x % n) + y) % n = (x + y) % n
<1> DEFINE q == x \div n
           r == x % n
           p == (r + y) \div n
           s == (r + y) % n
<1>1. x = n * q + r /\ r \in 0..(n - 1) /\ q \in Nat
  OBVIOUS
<1>2. r + y \in Nat
  BY <1>1
<1>3. r + y = n * p + s /\ s \in 0..(n - 1) /\ p \in Nat
  <2> DEFINE z == r + y
  <2>1. z \in Nat
    BY <1>2
  <2> HIDE DEF z, r
  <2>2. z = n * (z \div n) + (z % n) /\ z % n \in 0..(n - 1) /\ z \div n \in Nat
    BY <2>1
  <2> QED
    BY <2>2 DEF z
<1> HIDE DEF q, r, p, s
<1>4. x + y = n * (q + p) + s
  BY <1>1, <1>3
<1> DEFINE k == q + p
           u == x + y
<1>5. k \in Int /\ u \in Nat /\ u = n * k + s
  BY <1>1, <1>3, <1>4
<1> HIDE DEF k, u
<1>6. u % n = s
  BY <1>3, <1>5
<1> QED
  BY <1>6 DEF u, s, r

\* The pick is the nearest capability that may run; the others come nearer by as many
\* steps as it took, and one.
LEMMA TurnStep ==
    ASSUME Parts, Start, NEW c \in Cap, NEW k, MayRunHead(c), Away(c, k)
    PROVE  NearerWith(c, k)
<1> DEFINE n == Len(capabilities)
           S == RunnableSteps
           i == Min(S)
           a == capRunIndex
<1>1. n \in Nat /\ a \in Nat
  BY ListAssumption DEF Parts, RestIsWell
<1>2. k \in 0..(n - 1) /\ k \in S
  BY DEF Away, MayRunHead, RunnableSteps, Runnable
<1>3. i \in 0..(n - 1) /\ \A y \in S : i <= y
  BY StartIsOfACap
<1>4. i <= k /\ i \in Nat
  BY <1>1, <1>2, <1>3
<1>5. a' = (a + i + 1) % n /\ capabilities' = capabilities
  BY DEF Start, NextRunIndex
<1>6. CASE i = k
  <2> DEFINE e == At(a + i)
  <2>1. e = c
    BY <1>6 DEF Away
  <2>2. headQueue[e] = <<>> \/ HeadStarts(e)
    BY StartTakesTheFirst
  <2> HIDE DEF e
  <2> QED
    BY <2>1, <2>2 DEF MayRunHead, NearerWith
<1>7. CASE i < k
  <2> DEFINE x == a + i + 1
  <2>1. PICK m \in 0..(k - 1) : m = k - i - 1
    BY <1>1, <1>2, <1>4, <1>7
  <2>2. m \in Nat /\ m \in 0..(n - 1) /\ x \in Nat /\ n # 0 /\ x + m = a + k
    BY <1>1, <1>2, <1>4, <2>1
  <2> HIDE DEF i, n, S
  <2>3. (a' + m) % n = (a + k) % n
    <3>1. ((x % n) + m) % n = (x + m) % n
      <4> HIDE DEF x
      <4> QED
        BY <1>1, <2>2, RemainderOfSum
    <3> QED
      BY <1>5, <2>2, <3>1
  <2>4. c = capabilities[((a + k) % n) + 1]
    BY DEF Away, At, n
  <2>5. Away(c, m)'
    BY <1>5, <2>2, <2>3, <2>4 DEF Away, At, n
  <2> QED
    BY <2>5 DEF NearerWith
<1> QED
  BY <1>1, <1>2, <1>4, <1>6, <1>7

\* Every start whatever either serves a head that may be served or brings its turn
\* nearer, so that no capability starves another (series-data/scheduler.ts:493-505).
TurnsComeRound ==
    [][Start => \A c \in Cap : \A k \in 0..Len(capabilities) - 1 :
                    MayRunHead(c) /\ Away(c, k) => NearerWith(c, k)]_vars

THEOREM NoCapabilityStarves == Spec => TurnsComeRound
<1>1. IInv => [Start => \A c \in Cap : \A k \in 0..Len(capabilities) - 1 :
                          MayRunHead(c) /\ Away(c, k) => NearerWith(c, k)]_vars
  BY TurnStep, InvariantByParts
<1> QED
  BY <1>1, Invariant, PTL DEF Spec, TurnsComeRound

=============================================================================
