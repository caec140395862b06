------------------------ MODULE QuoteScheduler_proofs ------------------------
(***************************************************************************)
(* Proofs about QuoteScheduler: the types of its state, that a request     *)
(* clears its own marks and no others, and that no dirty cell is           *)
(* forgotten.                                                              *)
(***************************************************************************)
EXTENDS QuoteScheduler, FiniteSetTheorems, NaturalsInduction, WellFoundedInduction, TLAPS

-----------------------------------------------------------------------------
(* Selections from a sequence.                                             *)

\* A set of natural numbers that is not empty has a least element.
LEMMA LeastNumber ==
    ASSUME NEW T \in SUBSET Nat, T # {}
    PROVE  \E x \in T : \A y \in T : x <= y
<1>1. PICK x \in T : \A y \in T : <<y, x>> \notin OpToRel(<, Nat)
  BY NatLessThanWellFounded, WFMin
<1>2. \A y \in T : ~(y < x)
  BY <1>1 DEF OpToRel
<1> QED
  BY <1>2

\* Min is what its name says.
LEMMA MinProperties ==
    ASSUME NEW T \in SUBSET Nat, T # {}
    PROVE  Min(T) \in T /\ \A y \in T : Min(T) <= y
  BY LeastNumber DEF Min

\* How many positions of I there are up to i.
LEMMA CountProperties ==
    ASSUME NEW n \in Nat, NEW I \in SUBSET (1..n)
    PROVE  /\ IsFiniteSet(I)
           /\ Cardinality(I) \in Nat
           /\ \A i \in Nat : /\ IsFiniteSet(I \cap 1..i)
                             /\ Cardinality(I \cap 1..i) \in Nat
                             /\ Cardinality(I \cap 1..i) <= Cardinality(I)
<1>1. IsFiniteSet(1..n)
  BY FS_Interval
<1>2. IsFiniteSet(I)
  BY <1>1, FS_Subset
<1>3. Cardinality(I) \in Nat
  BY <1>2, FS_CardinalityType
<1>4. ASSUME NEW i \in Nat
      PROVE  /\ IsFiniteSet(I \cap 1..i)
             /\ Cardinality(I \cap 1..i) \in Nat
             /\ Cardinality(I \cap 1..i) <= Cardinality(I)
  <2>1. I \cap 1..i \subseteq I
    OBVIOUS
  <2> QED
    BY <1>2, <2>1, FS_Subset, FS_CardinalityType
<1> QED
  BY <1>2, <1>3, <1>4

\* A count that a prefix reaches, some position of I reaches exactly.
LEMMA CountIsReached ==
    ASSUME NEW n \in Nat, NEW I \in SUBSET (1..n),
           NEW k \in Nat, k # 0, k <= Cardinality(I)
    PROVE  \E i \in I : Cardinality(I \cap 1..i) = k
<1> DEFINE C(i) == Cardinality(I \cap 1..i)
           T == {i \in Nat : k <= C(i)}
<1>1. \A i \in Nat : IsFiniteSet(I \cap 1..i) /\ C(i) \in Nat
  BY CountProperties
<1>2. n \in T
  <2>1. I \cap 1..n = I
    OBVIOUS
  <2> QED
    BY <2>1
<1>3. PICK i \in T : \A j \in T : i <= j
  BY <1>2, LeastNumber
<1>4. i # 0
  <2>1. I \cap 1..0 = {}
    OBVIOUS
  <2>2. C(0) = 0
    BY <2>1, FS_EmptySet
  <2> QED
    BY <2>2
<1>5. i - 1 \in Nat /\ i \in Nat /\ C(i) >= k /\ C(i - 1) < k
  <2>1. i \in Nat /\ i - 1 \in Nat
    BY <1>4
  <2>2. i - 1 \notin T
    BY <1>3, <2>1
  <2>3. C(i - 1) \in Nat /\ C(i) \in Nat
    BY <1>1, <2>1
  <2> QED
    BY <2>1, <2>2, <2>3
<1>6. i \in I
  <2>1. SUFFICES ASSUME i \notin I PROVE FALSE
    OBVIOUS
  <2>2. I \cap 1..i = I \cap 1..(i - 1)
    BY <1>5, <2>1
  <2>3. C(i) = C(i - 1)
    BY <2>2
  <2> QED
    BY <1>1, <1>5, <2>3
<1>7. C(i) = C(i - 1) + 1
  <2>1. I \cap 1..i = (I \cap 1..(i - 1)) \cup {i} /\ i \notin I \cap 1..(i - 1)
    BY <1>5, <1>6
  <2>2. IsFiniteSet(I \cap 1..(i - 1))
    BY <1>1, <1>5
  <2> DEFINE P == I \cap 1..(i - 1)
  <2>3. Cardinality(P \cup {i}) = Cardinality(P) + 1
    <3> HIDE DEF P
    <3> QED
      BY <2>1, <2>2, FS_AddElement DEF P
  <2> QED
    BY <2>1, <2>3
<1>8. C(i) = k
  <2>1. C(i) \in Nat /\ C(i - 1) \in Nat
    BY <1>1, <1>5
  <2> HIDE DEF C
  <2> QED
    BY <1>5, <1>7, <2>1
<1> QED
  BY <1>6, <1>8

\* The k-th position of I is in I, different k have different ones, and each has its k.
LEMMA NthProperties ==
    ASSUME NEW n \in Nat, NEW I \in SUBSET (1..n)
    PROVE  /\ \A k \in 1..Cardinality(I) : Nth(I, k) \in I
           /\ \A k, m \in 1..Cardinality(I) : Nth(I, k) = Nth(I, m) => k = m
           /\ \A i \in I : \E k \in 1..Cardinality(I) : Nth(I, k) = i
<1> DEFINE C(i) == Cardinality(I \cap 1..i)
<1>1. Cardinality(I) \in Nat
  BY CountProperties
<1>2. ASSUME NEW k \in 1..Cardinality(I)
      PROVE  Nth(I, k) \in I /\ C(Nth(I, k)) = k
  <2>1. k \in Nat /\ k # 0 /\ k <= Cardinality(I)
    BY <1>1
  <2>2. \E i \in I : Cardinality(I \cap 1..i) = k
    BY <2>1, CountIsReached
  <2> QED
    BY <2>2 DEF Nth
<1>3. ASSUME NEW i \in I, NEW j \in I, i < j
      PROVE  C(i) # C(j)
  <2>1. I \cap 1..i \subseteq I \cap 1..j
    BY <1>3
  <2>2. j \in I \cap 1..j /\ j \notin I \cap 1..i
    BY <1>3
  <2>3. IsFiniteSet(I \cap 1..j)
    BY CountProperties
  <2> QED
    BY <2>1, <2>2, <2>3, FS_Subset
<1>4. ASSUME NEW i \in I
      PROVE  \E k \in 1..Cardinality(I) : Nth(I, k) = i
  <2>0. i \in Nat
    OBVIOUS
  <2>1. C(i) \in Nat /\ C(i) <= Cardinality(I) /\ IsFiniteSet(I \cap 1..i)
    <3>1. \A j \in Nat : C(j) \in Nat /\ C(j) <= Cardinality(I) /\ IsFiniteSet(I \cap 1..j)
      BY CountProperties
    <3> QED
      BY <2>0, <3>1
  <2>2. C(i) # 0
    <3>1. i \in I \cap 1..i
      OBVIOUS
    <3> QED
      BY <2>1, <3>1, FS_EmptySet
  <2>3. C(i) \in 1..Cardinality(I)
    <3> HIDE DEF C
    <3> QED
      BY <1>1, <2>1, <2>2
  <2>4. Nth(I, C(i)) \in I /\ C(Nth(I, C(i))) = C(i)
    BY <1>2, <2>3
  <2>5. Nth(I, C(i)) = i
    <3> DEFINE j == Nth(I, C(i))
    <3>1. j \in I /\ C(j) = C(i)
      BY <2>4
    <3> HIDE DEF j
    <3>2. ~(j < i) /\ ~(i < j)
      BY <1>3, <3>1
    <3>3. j = i
      BY <3>1, <3>2
    <3> QED
      BY <3>3 DEF j
  <2> QED
    BY <2>3, <2>5
<1> QED
  BY <1>2, <1>4

\* What is picked is a sequence of the elements at the positions, each as often as in q.
LEMMA PickProperties ==
    ASSUME NEW T, NEW q \in Seq(T), NEW I \in SUBSET (1..Len(q))
    PROVE  /\ Pick(q, I) \in Seq(T)
           /\ Len(Pick(q, I)) = Cardinality(I)
           /\ ToSet(Pick(q, I)) = {q[i] : i \in I}
           /\ IsInjective(q) => IsInjective(Pick(q, I))
<1>1. Len(q) \in Nat /\ DOMAIN q = 1..Len(q) /\ \A i \in 1..Len(q) : q[i] \in T
  OBVIOUS
<1>2. Cardinality(I) \in Nat
  BY <1>1, CountProperties
<1>3. /\ \A k \in 1..Cardinality(I) : Nth(I, k) \in I
      /\ \A k, m \in 1..Cardinality(I) : Nth(I, k) = Nth(I, m) => k = m
      /\ \A i \in I : \E k \in 1..Cardinality(I) : Nth(I, k) = i
  BY <1>1, NthProperties
<1> DEFINE N == Cardinality(I)
           P == [k \in 1..N |-> q[Nth(I, k)]]
<1>4. Pick(q, I) = P
  BY DEF Pick
<1> HIDE DEF N
<1>5. N \in Nat
  BY <1>2 DEF N
<1>6. \A k \in 1..N : Nth(I, k) \in I /\ q[Nth(I, k)] \in T
  BY <1>1, <1>3 DEF N
<1>7. P \in Seq(T) /\ Len(P) = N /\ DOMAIN P = 1..N
  BY <1>5, <1>6
<1>8. ToSet(P) = {q[i] : i \in I}
  <2>1. \A i \in I : \E k \in 1..N : q[i] = P[k]
    BY <1>3 DEF N
  <2>2. \A k \in 1..N : P[k] \in {q[i] : i \in I}
    BY <1>6
  <2> HIDE DEF P
  <2> QED
    BY <1>7, <2>1, <2>2 DEF ToSet
<1>9. IsInjective(q) => IsInjective(P)
  <2>1. ASSUME IsInjective(q), NEW k \in 1..N, NEW m \in 1..N, P[k] = P[m]
        PROVE  k = m
    <3>1. q[Nth(I, k)] = q[Nth(I, m)]
      BY <2>1
    <3>2. Nth(I, k) = Nth(I, m)
      BY <2>1, <3>1, <1>6, <1>1 DEF IsInjective
    <3> QED
      BY <3>2, <1>3 DEF N
  <2> QED
    BY <2>1, <1>7 DEF IsInjective
<1> QED
  BY <1>4, <1>7, <1>8, <1>9 DEF N

\* What a sequence gains at its end.
LEMMA Concatenated ==
    ASSUME NEW T, NEW q \in Seq(T), NEW r \in Seq(T)
    PROVE  /\ q \o r \in Seq(T)
           /\ ToSet(q \o r) = ToSet(q) \cup ToSet(r)
           /\ IsInjective(q) /\ IsInjective(r) /\ ToSet(q) \cap ToSet(r) = {}
                => IsInjective(q \o r)
<1> DEFINE m == Len(q)
           n == Len(r)
           w == q \o r
<1>1. /\ m \in Nat /\ n \in Nat
      /\ DOMAIN q = 1..m /\ DOMAIN r = 1..n
      /\ w \in Seq(T) /\ DOMAIN w = 1..(m + n)
      /\ \A i \in 1..m : w[i] = q[i]
      /\ \A i \in (m + 1)..(m + n) : w[i] = r[i - m]
  OBVIOUS
<1> HIDE DEF m, n, w
<1>2. \A j \in 1..n : m + j \in (m + 1)..(m + n) /\ (m + j) - m = j
  BY <1>1
<1>3. \A i \in 1..(m + n) : i \in 1..m \/ (i \in (m + 1)..(m + n) /\ i - m \in 1..n)
  BY <1>1
<1>4. \A i \in 1..m : i \in 1..(m + n)
  BY <1>1
<1>5. \A j \in 1..n : m + j \in 1..(m + n) /\ w[m + j] = r[j]
  BY <1>1, <1>2
<1>6. ToSet(w) = ToSet(q) \cup ToSet(r)
  <2>1. \A x \in ToSet(w) : x \in ToSet(q) \cup ToSet(r)
    BY <1>1, <1>3 DEF ToSet
  <2>2. \A x \in ToSet(q) : x \in ToSet(w)
    BY <1>1, <1>4 DEF ToSet
  <2>3. ASSUME NEW j \in 1..n PROVE r[j] \in ToSet(w)
    BY <1>1, <1>5 DEF ToSet
  <2>4. ToSet(r) = {r[j] : j \in 1..n}
    BY <1>1 DEF ToSet
  <2> QED
    BY <2>1, <2>2, <2>3, <2>4
<1>7. ASSUME IsInjective(q), IsInjective(r), ToSet(q) \cap ToSet(r) = {},
             NEW i \in 1..(m + n), NEW j \in 1..(m + n), w[i] = w[j]
      PROVE  i = j
  <2>1. CASE i \in 1..m /\ j \in 1..m
    BY <2>1, <1>1, <1>7 DEF IsInjective
  <2>2. CASE i - m \in 1..n /\ j - m \in 1..n /\ i \in (m + 1)..(m + n)
             /\ j \in (m + 1)..(m + n)
    <3>1. r[i - m] = r[j - m]
      BY <1>1, <1>7, <2>2
    <3>2. i - m = j - m
      BY <1>1, <1>7, <2>2, <3>1 DEF IsInjective
    <3> QED
      BY <1>1, <3>2
  <2>3. ASSUME NEW a \in 1..m, NEW b \in (m + 1)..(m + n), b - m \in 1..n
        PROVE  w[a] # w[b]
    <3>1. w[a] \in ToSet(q) /\ w[b] \in ToSet(r)
      BY <1>1, <2>3 DEF ToSet
    <3> QED
      BY <1>7, <3>1
  <2> QED
    BY <1>3, <1>7, <2>1, <2>2, <2>3
<1>8. IsInjective(q) /\ IsInjective(r) /\ ToSet(q) \cap ToSet(r) = {} => IsInjective(w)
  BY <1>1, <1>7 DEF IsInjective
<1>9. w \in Seq(T)
  BY <1>1
<1>10. w = q \o r
  BY DEF w
<1> QED
  BY <1>6, <1>8, <1>9, <1>10

\* The same for one element.
LEMMA Appended ==
    ASSUME NEW T, NEW q \in Seq(T), NEW x \in T
    PROVE  /\ Append(q, x) \in Seq(T)
           /\ ToSet(Append(q, x)) = ToSet(q) \cup {x}
           /\ IsInjective(q) /\ x \notin ToSet(q) => IsInjective(Append(q, x))
<1>1. Append(q, x) = q \o <<x>>
  OBVIOUS
<1>2. <<x>> \in Seq(T) /\ ToSet(<<x>>) = {x} /\ IsInjective(<<x>>)
  BY DEF ToSet, IsInjective
<1> DEFINE r == <<x>>
<1>3. r \in Seq(T) /\ ToSet(r) = {x} /\ IsInjective(r)
  BY <1>2
<1> HIDE DEF r
<1>4. /\ q \o r \in Seq(T)
      /\ ToSet(q \o r) = ToSet(q) \cup ToSet(r)
      /\ IsInjective(q) /\ IsInjective(r) /\ ToSet(q) \cap ToSet(r) = {}
           => IsInjective(q \o r)
  BY <1>3, Concatenated
<1>5. Append(q, x) = q \o r
  BY <1>1 DEF r
<1>6. ToSet(q) \cap ToSet(r) = {} <=> x \notin ToSet(q)
  BY <1>3
<1>7. Append(q, x) \in Seq(T)
  OBVIOUS
<1>8. ToSet(Append(q, x)) = ToSet(q) \cup {x}
  BY <1>3, <1>4, <1>5
<1>9. IsInjective(q) /\ x \notin ToSet(q) => IsInjective(Append(q, x))
  BY <1>3, <1>4, <1>5, <1>6, Zenon
<1> QED
  BY <1>7, <1>8, <1>9

\* What a sequence keeps when it loses its first d elements.
LEMMA SuffixProperties ==
    ASSUME NEW T, NEW q \in Seq(T), NEW d \in 0..Len(q)
    PROVE  /\ SubSeq(q, d + 1, Len(q)) \in Seq(T)
           /\ \A i \in 1..Len(q) : i > d => q[i] \in ToSet(SubSeq(q, d + 1, Len(q)))
           /\ IsInjective(q) => IsInjective(SubSeq(q, d + 1, Len(q)))
<1> DEFINE n == Len(q)
           w == SubSeq(q, d + 1, Len(q))
<1>1. /\ n \in Nat /\ d \in 0..n /\ DOMAIN q = 1..n
      /\ w \in Seq(T) /\ DOMAIN w = 1..(n - d)
      /\ \A i \in 1..(n - d) : w[i] = q[i + d]
  OBVIOUS
<1> HIDE DEF n, w
<1>2. ASSUME NEW i \in 1..n, i > d PROVE q[i] \in ToSet(w)
  <2>1. i - d \in 1..(n - d) /\ (i - d) + d = i
    BY <1>1, <1>2
  <2>2. w[i - d] = q[i]
    BY <1>1, <2>1
  <2> QED
    BY <1>1, <2>1, <2>2 DEF ToSet
<1>3. IsInjective(q) => IsInjective(w)
  <2>1. ASSUME IsInjective(q), NEW i \in 1..(n - d), NEW j \in 1..(n - d), w[i] = w[j]
        PROVE  i = j
    <3>1. i + d \in 1..n /\ j + d \in 1..n /\ q[i + d] = q[j + d]
      BY <1>1, <2>1
    <3>2. i + d = j + d
      BY <1>1, <2>1, <3>1 DEF IsInjective
    <3> QED
      BY <1>1, <3>2
  <2> QED
    BY <1>1, <2>1 DEF IsInjective
<1> QED
  BY <1>1, <1>2, <1>3 DEF n, w

-----------------------------------------------------------------------------
(* The invariant.                                                          *)

\* What is left to mark is a sequence of cells; a handler asks for a product once, and
\* for none unless it is fetching.
HandlersKeepOrder ==
    /\ todo \in Seq(Cell)
    /\ \A s \in Service : /\ IsInjective(asked[s])
                          /\ handler[s] # "fetching" => asked[s] = <<>>

\* A group has only such fields marked as it has.
FieldsAreOffered == \A g \in Group : \A c \in dirtyFields[g] : c[2] \in Fields[g]

IInv ==
    TypeOK /\ HandlersKeepOrder /\ FieldsAreOffered /\ MarkedOnce /\ NothingForgotten

-----------------------------------------------------------------------------
(* The next request.                                                       *)

\* The positions that are taken from a queue are as many as fit the request.
LEMMA TakenFitsTheRequest ==
    ASSUME NEW g \in Group, queue[g] \in Seq(Product)
    PROVE  /\ Dequeued(g) \in 0..Len(queue[g])
           /\ queue[g] # <<>> => Dequeued(g) # 0
           /\ Fetchable(g) \cap 1..Dequeued(g) \subseteq 1..Len(queue[g])
           /\ Cardinality(Fetchable(g) \cap 1..Dequeued(g)) <= MaxProducts[g]
<1> DEFINE n == Len(queue[g])
           F == Fetchable(g)
           full == {i \in F : Cardinality(F \cap 1..i) = MaxProducts[g]}
<1>1. n \in Nat /\ DOMAIN queue[g] = 1..n
  OBVIOUS
<1>2. F \in SUBSET (1..n)
  BY <1>1 DEF Fetchable
<1>3. MaxProducts[g] \in Nat /\ MaxProducts[g] # 0
  BY GroupAssumption
<1>4. Dequeued(g) = IF full = {} THEN n ELSE Min(full)
  BY DEF Dequeued
<1>5. queue[g] # <<>> => n # 0
  OBVIOUS
<1> HIDE DEF n, F
<1>6. CASE full = {}
  <2>1. Dequeued(g) = n
    BY <1>4, <1>6
  <2>2. F \cap 1..n = F
    BY <1>2
  <2>3. Cardinality(F) \in Nat
    BY <1>1, <1>2, CountProperties
  <2>4. ~(MaxProducts[g] <= Cardinality(F))
    <3>1. SUFFICES ASSUME MaxProducts[g] <= Cardinality(F) PROVE FALSE
      OBVIOUS
    <3> DEFINE k == MaxProducts[g]
    <3>2. k \in Nat /\ k # 0 /\ k <= Cardinality(F)
      BY <1>3, <3>1
    <3> HIDE DEF k
    <3>3. \E i \in F : Cardinality(F \cap 1..i) = k
      BY <1>1, <1>2, <3>2, CountIsReached
    <3> QED
      BY <1>6, <3>3 DEF k
  <2>5. Cardinality(F) <= MaxProducts[g]
    BY <1>3, <2>3, <2>4
  <2>6. n \in 0..n /\ F \cap 1..n \subseteq 1..n
    BY <1>1
  <2> QED
    BY <1>5, <2>1, <2>2, <2>5, <2>6 DEF n, F
<1>7. CASE full # {}
  <2>1. full \in SUBSET Nat
    <3>1. F \subseteq Nat
      BY <1>1, <1>2
    <3> QED
      BY <3>1
  <2>2. Min(full) \in full
    <3> HIDE DEF full
    <3> QED
      BY <1>7, <2>1, MinProperties
  <2> DEFINE d == Dequeued(g)
  <2>3. d = Min(full)
    BY <1>4, <1>7
  <2>4. d \in F /\ Cardinality(F \cap 1..d) = MaxProducts[g]
    BY <2>2, <2>3
  <2> HIDE DEF d
  <2>5. d \in 0..n /\ d # 0 /\ F \cap 1..d \subseteq 1..n
    <3>1. d \in 1..n
      BY <1>2, <2>4
    <3>2. F \cap 1..d \subseteq 1..n
      BY <1>2
    <3> QED
      BY <1>1, <3>1, <3>2
  <2>6. Cardinality(F \cap 1..d) <= MaxProducts[g]
    BY <1>3, <2>4
  <2> QED
    BY <2>5, <2>6 DEF n, F, d
<1> QED
  BY <1>6, <1>7

\* The next request is for products of the queue, each once, and no more than allowed.
LEMMA RequestProperties ==
    ASSUME NEW g \in Group, queue[g] \in Seq(Product), IsInjective(queue[g])
    PROVE  /\ NextRequest(g) \in Seq(Product)
           /\ IsInjective(NextRequest(g))
           /\ Len(NextRequest(g)) <= MaxProducts[g]
           /\ ToSet(NextRequest(g)) =
                {queue[g][i] : i \in Fetchable(g) \cap 1..Dequeued(g)}
<1> DEFINE I == Fetchable(g) \cap 1..Dequeued(g)
<1>1. I \in SUBSET (1..Len(queue[g])) /\ Cardinality(I) <= MaxProducts[g]
  BY TakenFitsTheRequest
<1>2. NextRequest(g) = Pick(queue[g], I)
  BY DEF NextRequest
<1> HIDE DEF I
<1>3. /\ Pick(queue[g], I) \in Seq(Product)
      /\ Len(Pick(queue[g], I)) = Cardinality(I)
      /\ ToSet(Pick(queue[g], I)) = {queue[g][i] : i \in I}
      /\ IsInjective(queue[g]) => IsInjective(Pick(queue[g], I))
  BY <1>1, PickProperties
<1> QED
  BY <1>1, <1>2, <1>3 DEF I

\* What of a request is queued again: products of the request with a field left that
\* are not in the queue.
LEMMA UnfinishedProperties ==
    ASSUME NEW s \in Service, NEW left,
           asked[s] \in Seq(Product), IsInjective(asked[s])
    PROVE  /\ Unfinished(s, left) \in Seq(Product)
           /\ IsInjective(Unfinished(s, left))
           /\ \A p : p \in ToSet(Unfinished(s, left)) <=>
                       /\ p \in ToSet(asked[s])
                       /\ \E c \in left : c[1] = p
                       /\ p \notin ToSet(queue[GroupOf[s]])
<1> DEFINE I == {i \in DOMAIN asked[s] :
                   /\ \E c \in left : c[1] = asked[s][i]
                   /\ asked[s][i] \notin ToSet(queue[GroupOf[s]])}
<1>1. I \in SUBSET (1..Len(asked[s]))
  OBVIOUS
<1>2. Unfinished(s, left) = Pick(asked[s], I)
  BY DEF Unfinished
<1>3. \A p : p \in {asked[s][i] : i \in I} <=>
               /\ p \in ToSet(asked[s])
               /\ \E c \in left : c[1] = p
               /\ p \notin ToSet(queue[GroupOf[s]])
  <2> DEFINE Q == ToSet(queue[GroupOf[s]])
  <2> HIDE DEF Q
  <2>1. \A p : p \in {asked[s][i] : i \in {i \in DOMAIN asked[s] :
                   (\E c \in left : c[1] = asked[s][i]) /\ asked[s][i] \notin Q}} <=>
               /\ p \in {asked[s][i] : i \in DOMAIN asked[s]}
               /\ \E c \in left : c[1] = p
               /\ p \notin Q
    OBVIOUS
  <2> QED
    BY <2>1 DEF Q, ToSet
<1> HIDE DEF I
<1>4. /\ Pick(asked[s], I) \in Seq(Product)
      /\ ToSet(Pick(asked[s], I)) = {asked[s][i] : i \in I}
      /\ IsInjective(asked[s]) => IsInjective(Pick(asked[s], I))
  BY <1>1, PickProperties
<1> QED
  BY <1>2, <1>3, <1>4

-----------------------------------------------------------------------------
(* The steps.                                                              *)

\* Initially nothing is marked, asked for or fetched.
LEMMA InitInvariant == Init => IInv
<1> SUFFICES ASSUME Init PROVE IInv
  OBVIOUS
<1> USE DEF Init
<1>1. \A s \in Service : asked[s] = <<>> /\ batch[s] = {} /\ handler[s] = "idle"
  OBVIOUS
<1>2. \A g \in Group : queue[g] = <<>> /\ fetchingProducts[g] = {} /\ dirtyFields[g] = {}
  OBVIOUS
<1>3. ToSet(<<>>) = {} /\ IsInjective(<<>>) /\ <<>> \in Seq(Product) /\ Len(<<>>) = 0
  BY DEF ToSet, IsInjective
<1>4. TypeOK
  <2>1. \A s \in Service : MaxProducts[GroupOf[s]] \in Nat
    BY GroupAssumption
  <2>2. \A s \in Service :
           asked[s] \in Seq(Product) /\ Len(asked[s]) <= MaxProducts[GroupOf[s]]
    BY <1>1, <1>3, <2>1
  <2>3. \A g \in Group : queue[g] \in Seq(Product) /\ IsInjective(queue[g])
    BY <1>2, <1>3
  <2> QED
    BY <1>1, <2>2, <2>3, InputAssumption DEF TypeOK
<1>5. HandlersKeepOrder
  BY <1>1, <1>3 DEF HandlersKeepOrder
<1>6. MarkedOnce /\ FieldsAreOffered
  BY <1>1, <1>2, <1>3, GroupAssumption DEF MarkedOnce, FieldsAreOffered, Fetches
<1>7. NothingForgotten
  BY DEF NothingForgotten
<1> QED
  BY <1>4, <1>5, <1>6, <1>7 DEF IInv

\* The marks of the requests are what they were when no request and no mark changes.
LEMMA MarksStay ==
    ASSUME MarkedOnce, UNCHANGED <<fetching, fetchingProducts, asked, batch>>
    PROVE  MarkedOnce'
<1>1. \A s \in Service : Fetches(s)' = Fetches(s)
  BY DEF Fetches
<1> QED
  BY <1>1 DEF MarkedOnce

\* The steps that only begin or end something keep the invariant: a query, a start of
\* a service, the end of a handler and a new list of services.
LEMMA SmallStepsKeepInvariant ==
    ASSUME IInv,
           \/ Query \/ ScheduleService \/ Refresh \/ \E s \in Service : Ended(s)
           \/ UNCHANGED vars
    PROVE  IInv'
<1> USE DEF IInv, cells, groups, handlers
<1>1. CASE Query
  <2>1. todo' \in Seq(Cell)
    BY <1>1, InputAssumption DEF Query
  <2> QED
    BY <1>1, <2>1, MarksStay DEF Query, TypeOK, HandlersKeepOrder, FieldsAreOffered, NothingForgotten, Cell
<1>2. CASE ScheduleService
  <2>1. UNCHANGED <<services, cells, groups, asked, batch, todo, refreshes>>
    BY <1>2 DEF ScheduleService
  <2>2. \A s \in Service :
           handler'[s] = handler[s] \/ (handler[s] = "idle" /\ handler'[s] = "ready")
    BY <1>2 DEF ScheduleService, TypeOK
  <2>3. handler' \in [Service -> {"idle", "ready", "fetching", "ending"}]
    BY <1>2 DEF ScheduleService, TypeOK
  <2>4. TypeOK'
    BY <2>1, <2>2, <2>3 DEF TypeOK
  <2>5. HandlersKeepOrder'
    BY <2>1, <2>2 DEF HandlersKeepOrder
  <2>6. FieldsAreOffered' /\ MarkedOnce' /\ NothingForgotten'
    BY <2>1, MarksStay DEF FieldsAreOffered, NothingForgotten
  <2> QED
    BY <2>4, <2>5, <2>6
<1>3. CASE Refresh
  <2>1. UNCHANGED <<cells, groups, handlers, todo, starting>>
    BY <1>3 DEF Refresh
  <2>2. services' \in Lists /\ refreshes' \in 0..MaxRefreshes
    BY <1>3, InputAssumption DEF Refresh, TypeOK
  <2>3. TypeOK'
    BY <2>1, <2>2 DEF TypeOK
  <2> QED
    BY <2>1, <2>3, MarksStay DEF HandlersKeepOrder, FieldsAreOffered, NothingForgotten
<1>4. ASSUME NEW s \in Service, Ended(s)
      PROVE  IInv'
  <2>1. UNCHANGED <<services, cells, groups, asked, batch, todo, starting, refreshes>>
    BY <1>4 DEF Ended
  <2>2. handler[s] = "ending" /\ handler' = [handler EXCEPT ![s] = "idle"]
    BY <1>4 DEF Ended
  <2>3. handler' \in [Service -> {"idle", "ready", "fetching", "ending"}]
    BY <2>2 DEF TypeOK
  <2>4. \A t \in Service : handler'[t] = IF t = s THEN "idle" ELSE handler[t]
    BY <2>2 DEF TypeOK
  <2>5. TypeOK'
    BY <2>1, <2>2, <2>3, <2>4 DEF TypeOK
  <2>6. HandlersKeepOrder'
    BY <2>1, <2>2, <2>4 DEF HandlersKeepOrder
  <2>7. FieldsAreOffered' /\ MarkedOnce' /\ NothingForgotten'
    BY <2>1, MarksStay DEF FieldsAreOffered, NothingForgotten
  <2> QED
    BY <2>5, <2>6, <2>7
<1>5. CASE UNCHANGED vars
  BY <1>5, MarksStay DEF vars, TypeOK, HandlersKeepOrder, FieldsAreOffered, NothingForgotten
<1> QED
  BY <1>1, <1>2, <1>3, <1>4, <1>5

\* A cell is routed to a group of some service, if at all.
LEMMA RouteProperties ==
    ASSUME TypeOK, NEW c \in Cell
    PROVE  /\ Route(c) \in Group \cup {NoGroup}
           /\ Route(c) # NoGroup => c[2] \in Fields[Route(c)]
<1> DEFINE able == {i \in DOMAIN services : Offers(services[i], c)}
<1>1. services \in Seq(Service)
  BY InputAssumption DEF TypeOK
<1>2. Route(c) = IF able = {} THEN NoGroup ELSE GroupOf[services[Min(able)]]
  BY DEF Route
<1>3. /\ able \subseteq DOMAIN services /\ DOMAIN services \subseteq Nat
      /\ \A i \in able : c[2] \in Fields[GroupOf[services[i]]]
  BY <1>1 DEF Offers
<1> HIDE DEF able
<1>4. CASE able # {}
  <2>1. Min(able) \in able /\ Min(able) \in DOMAIN services
    BY <1>3, <1>4, MinProperties
  <2>2. services[Min(able)] \in Service
    BY <1>1, <2>1
  <2>3. c[2] \in Fields[GroupOf[services[Min(able)]]]
    BY <1>3, <2>1
  <2> QED
    BY <1>2, <1>4, <2>2, <2>3, GroupAssumption
<1> QED
  BY <1>2, <1>4

\* A mark leaves the requests alone, and its cell is known to its group, if it has one.
LEMMA MarkDirtyKeepsInvariant ==
    ASSUME IInv, MarkDirty
    PROVE  IInv'
<1> DEFINE c == Head(todo)
           g == Route(c)
<1>1. /\ TypeOK /\ HandlersKeepOrder /\ FieldsAreOffered /\ MarkedOnce /\ NothingForgotten
      /\ UNCHANGED <<services, fetching, fetchingProducts, handler, asked, batch, refreshes>>
  BY DEF IInv, MarkDirty, handlers
<1>2. c \in Cell /\ todo' \in Seq(Cell)
  BY <1>1 DEF HandlersKeepOrder, MarkDirty
<1>3. g \in Group \cup {NoGroup} /\ (g # NoGroup => c[2] \in Fields[g])
  BY <1>1, <1>2, RouteProperties
<1>4. /\ group' = [group EXCEPT ![c] = g]
      /\ dirty' = dirty \cup {c}
      /\ \/ g = NoGroup /\ UNCHANGED <<queue, dirtyFields>>
         \/ /\ g # NoGroup
            /\ dirtyFields' = [dirtyFields EXCEPT ![g] = @ \cup {c}]
            /\ queue' = Enqueue(g, c[1])
  BY DEF MarkDirty
<1> HIDE DEF c, g
<1>5. c[1] \in Product
  BY <1>2 DEF Cell
<1>6. /\ group' \in [Cell -> Group \cup {NoGroup}]
      /\ \A d \in Cell : group'[d] = IF d = c THEN g ELSE group[d]
  BY <1>1, <1>2, <1>3, <1>4 DEF TypeOK
<1>7. /\ DOMAIN queue' = Group
      /\ \A h \in Group : /\ queue'[h] \in Seq(Product) /\ IsInjective(queue'[h])
                          /\ ToSet(queue[h]) \subseteq ToSet(queue'[h])
      /\ g # NoGroup => c[1] \in ToSet(queue'[g]) \cup fetchingProducts[g]
  <2>1. CASE g = NoGroup
    BY <1>1, <1>4, <2>1 DEF TypeOK
  <2>2. CASE g # NoGroup
    <3>1. g \in Group /\ queue' = Enqueue(g, c[1])
      BY <1>3, <1>4, <2>2
    <3>2. CASE c[1] \in fetchingProducts[g] \cup ToSet(queue[g])
      BY <1>1, <3>1, <3>2 DEF TypeOK, Enqueue
    <3>3. CASE c[1] \notin fetchingProducts[g] \cup ToSet(queue[g])
      <4> DEFINE longer == Append(queue[g], c[1])
      <4>1. /\ longer \in Seq(Product)
            /\ ToSet(longer) = ToSet(queue[g]) \cup {c[1]}
            /\ IsInjective(queue[g]) /\ c[1] \notin ToSet(queue[g]) => IsInjective(longer)
        BY <1>1, <1>5, <3>1, Appended DEF TypeOK
      <4>2. queue' = [queue EXCEPT ![g] = longer]
        BY <3>1, <3>3 DEF Enqueue
      <4> HIDE DEF longer
      <4>3. /\ DOMAIN queue' = Group
            /\ \A h \in Group : queue'[h] = IF h = g THEN longer ELSE queue[h]
        BY <1>1, <3>1, <4>2 DEF TypeOK
      <4> QED
        BY <1>1, <3>1, <3>3, <4>1, <4>3 DEF TypeOK
    <3> QED
      BY <3>2, <3>3
  <2> QED
    BY <2>1, <2>2
<1>8. /\ dirtyFields' \in [Group -> SUBSET Cell]
      /\ \A h \in Group :
            /\ dirtyFields[h] \subseteq dirtyFields'[h]
            /\ \A d \in dirtyFields'[h] \ dirtyFields[h] : d = c /\ h = g /\ g # NoGroup
      /\ g # NoGroup => c \in dirtyFields'[g]
  <2>1. dirtyFields \in [Group -> SUBSET Cell]
    BY <1>1 DEF TypeOK
  <2>2. CASE g = NoGroup
    BY <1>4, <2>1, <2>2
  <2>3. CASE g # NoGroup
    <3>1. g \in Group /\ dirtyFields' = [dirtyFields EXCEPT ![g] = @ \cup {c}]
      BY <1>3, <1>4, <2>3
    <3>2. dirtyFields[g] \cup {c} \in SUBSET Cell
      BY <1>2, <2>1, <3>1
    <3>3. /\ dirtyFields' \in [Group -> SUBSET Cell]
          /\ \A h \in Group :
                dirtyFields'[h] = IF h = g THEN dirtyFields[g] \cup {c} ELSE dirtyFields[h]
      BY <2>1, <3>1, <3>2
    <3> QED
      BY <2>3, <3>1, <3>3
  <2> QED
    BY <2>2, <2>3
<1>9. TypeOK'
  <2>1. dirty' \subseteq Cell
    BY <1>1, <1>2, <1>4 DEF TypeOK
  <2> QED
    BY <1>1, <1>6, <1>7, <1>8, <2>1 DEF TypeOK
<1>10. HandlersKeepOrder'
  BY <1>1, <1>2 DEF HandlersKeepOrder
<1>11. MarkedOnce'
  BY <1>1, MarksStay
<1>13. FieldsAreOffered'
  BY <1>1, <1>3, <1>8 DEF FieldsAreOffered
<1>12. NothingForgotten'
  <2> SUFFICES ASSUME NEW d \in dirty' \ fetching', group'[d] # NoGroup
               PROVE  /\ d \in dirtyFields'[group'[d]]
                      /\ d[1] \in ToSet(queue'[group'[d]]) \cup fetchingProducts'[group'[d]]
    BY DEF NothingForgotten
  <2>1. CASE d = c
    BY <1>1, <1>2, <1>6, <1>7, <1>8, <2>1
  <2>2. CASE d # c
    <3>1. d \in dirty \ fetching /\ d \in Cell /\ group'[d] = group[d] /\ group[d] \in Group
      BY <1>1, <1>4, <1>6, <2>2 DEF TypeOK
    <3> QED
      BY <1>1, <1>7, <1>8, <3>1 DEF NothingForgotten
  <2> QED
    BY <2>1, <2>2
<1> QED
  BY <1>9, <1>10, <1>11, <1>12, <1>13 DEF IInv

\* A request takes cells that nobody fetches and products that nobody of the group
\* fetches; what leaves the queue without being asked for has no cell to fetch.
LEMMA TakeKeepsInvariant ==
    ASSUME IInv, NEW s \in Service, Take(s)
    PROVE  IInv'
<1> DEFINE g == GroupOf[s]
           request == NextRequest(g)
           taken == UNION {Matched(g, p) : p \in ToSet(request)}
           n == Dequeued(g)
           rest == SubSeq(queue[g], n + 1, Len(queue[g]))
<1>1. /\ TypeOK /\ HandlersKeepOrder /\ FieldsAreOffered /\ MarkedOnce /\ NothingForgotten
      /\ UNCHANGED <<services, group, dirty, dirtyFields, todo, starting, refreshes>>
  BY DEF IInv, Take
<1>2. /\ handler[s] = "ready"
      /\ queue' = [queue EXCEPT ![g] = rest]
      /\ fetchingProducts' = [fetchingProducts EXCEPT ![g] = @ \cup ToSet(request)]
      /\ fetching' = fetching \cup taken
      /\ asked' = [asked EXCEPT ![s] = request]
      /\ batch' = [batch EXCEPT ![s] = taken]
      /\ handler' = [handler EXCEPT ![s] = IF request = <<>> THEN "ending" ELSE "fetching"]
  BY <1>1 DEF Take, TypeOK
<1>3. g \in Group /\ queue[g] \in Seq(Product) /\ IsInjective(queue[g])
  BY <1>1, GroupAssumption DEF TypeOK
<1>4. n \in 0..Len(queue[g])
  BY <1>3, TakenFitsTheRequest
<1>5. /\ request \in Seq(Product) /\ IsInjective(request)
      /\ Len(request) <= MaxProducts[g]
      /\ ToSet(request) = {queue[g][i] : i \in Fetchable(g) \cap 1..n}
  BY <1>3, RequestProperties
<1>6. /\ rest \in Seq(Product) /\ IsInjective(rest)
      /\ \A i \in 1..Len(queue[g]) : i > n => queue[g][i] \in ToSet(rest)
  BY <1>3, <1>4, SuffixProperties
<1>7. \A p \in ToSet(request) :
         p \in Product /\ p \notin fetchingProducts[g] /\ Matched(g, p) # {}
  <2>1. \A i \in Fetchable(g) : /\ queue[g][i] \in Product
                                /\ queue[g][i] \notin fetchingProducts[g]
                                /\ Matched(g, queue[g][i]) # {}
    BY <1>3 DEF Fetchable
  <2> QED
    BY <1>5, <2>1
<1>8. taken \subseteq Cell /\ taken \cap fetching = {}
  BY <1>1, <1>3 DEF Matched, TypeOK
<1>9. request = <<>> <=> taken = {}
  <2>1. request = <<>> <=> ToSet(request) = {}
    BY <1>5 DEF ToSet
  <2> QED
    BY <1>7, <2>1
<1>20. /\ \A c \in taken : c[1] \in ToSet(request) /\ c[2] \in Fields[g]
       /\ \A p \in ToSet(request) : \E c \in taken : c[1] = p
  <2>1. \A p \in ToSet(request) : \A c \in Matched(g, p) : c[1] = p /\ c[2] \in Fields[g]
    BY DEF Matched
  <2> QED
    BY <1>7, <2>1
<1>10. batch[s] = {} /\ asked[s] = <<>>
  BY <1>1, <1>2 DEF TypeOK, HandlersKeepOrder
<1> HIDE DEF request, taken, n, rest, g
<1>11. /\ DOMAIN queue' = Group
       /\ \A h \in Group : queue'[h] = IF h = g THEN rest ELSE queue[h]
  BY <1>1, <1>2, <1>3 DEF TypeOK
<1>12. /\ fetchingProducts' \in [Group -> SUBSET Product]
       /\ \A h \in Group : fetchingProducts'[h] =
             IF h = g THEN fetchingProducts[h] \cup ToSet(request) ELSE fetchingProducts[h]
  BY <1>1, <1>2, <1>3, <1>7 DEF TypeOK
<1>13. /\ DOMAIN asked' = Service
       /\ \A t \in Service : asked'[t] = IF t = s THEN request ELSE asked[t]
  BY <1>1, <1>2 DEF TypeOK
<1>14. /\ batch' \in [Service -> SUBSET Cell]
       /\ \A t \in Service : batch'[t] = IF t = s THEN taken ELSE batch[t]
  BY <1>1, <1>2, <1>8 DEF TypeOK
<1>15. /\ handler' \in [Service -> {"idle", "ready", "fetching", "ending"}]
       /\ \A t \in Service : t # s => handler'[t] = handler[t]
       /\ handler'[s] = IF request = <<>> THEN "ending" ELSE "fetching"
  BY <1>1, <1>2 DEF TypeOK
<1>16. TypeOK'
  <2>1. \A h \in Group : queue'[h] \in Seq(Product) /\ IsInjective(queue'[h])
    BY <1>1, <1>6, <1>11 DEF TypeOK
  <2>2. \A t \in Service :
           asked'[t] \in Seq(Product) /\ Len(asked'[t]) <= MaxProducts[GroupOf[t]]
    BY <1>1, <1>5, <1>13 DEF TypeOK, g
  <2>3. \A t \in Service : handler'[t] = "fetching" <=> batch'[t] # {}
    BY <1>1, <1>9, <1>14, <1>15 DEF TypeOK
  <2>4. fetching' \subseteq Cell
    BY <1>1, <1>2, <1>8 DEF TypeOK
  <2> QED
    BY <1>1, <1>11, <1>12, <1>13, <1>14, <1>15, <2>1, <2>2, <2>3, <2>4 DEF TypeOK
<1>17. HandlersKeepOrder'
  BY <1>1, <1>5, <1>13, <1>15 DEF HandlersKeepOrder
<1>18. MarkedOnce'
  <2>1. fetching' = UNION {batch'[t] : t \in Service}
    <3>1. \A d : d \in fetching <=> \E t \in Service : d \in batch[t]
      BY <1>1 DEF MarkedOnce
    <3>2. \A d : d \in fetching' <=> d \in fetching \/ d \in taken
      BY <1>2
    <3>3. \A d : d \in fetching' <=> \E t \in Service : d \in batch'[t]
      BY <3>1, <3>2, <1>10, <1>14
    <3> QED
      BY <3>3
  <2>2. \A d \in taken, t \in Service : d \notin batch[t]
    BY <1>1, <1>8 DEF MarkedOnce
  <2>3. \A t, u \in Service : t # u => batch'[t] \cap batch'[u] = {}
    BY <1>1, <1>14, <2>2 DEF MarkedOnce
  <2>4. \A t \in Service : GroupOf[t] = g => ToSet(request) \cap ToSet(asked[t]) = {}
    BY <1>1, <1>3, <1>7 DEF MarkedOnce
  <2>5. \A t, u \in Service : t # u /\ GroupOf[t] = GroupOf[u] =>
           ToSet(asked'[t]) \cap ToSet(asked'[u]) = {}
    BY <1>1, <1>13, <2>4 DEF MarkedOnce, g
  <2>6. ASSUME NEW h \in Group
        PROVE  fetchingProducts'[h] = UNION {ToSet(asked'[t]) : t \in {u \in Service : GroupOf[u] = h}}
    <3>1. \A p : p \in fetchingProducts[h] <=>
             \E t \in Service : GroupOf[t] = h /\ p \in ToSet(asked[t])
      BY <1>1 DEF MarkedOnce
    <3>2. ToSet(asked[s]) = {}
      BY <1>10 DEF ToSet
    <3>3. \A p : p \in fetchingProducts'[h] <=>
             \E t \in Service : GroupOf[t] = h /\ p \in ToSet(asked'[t])
      BY <1>12, <1>13, <3>1, <3>2 DEF g
    <3> QED
      BY <3>3
  <2>7. ASSUME NEW t \in Service
        PROVE  /\ batch'[t] \subseteq ToSet(asked'[t]) \X Fields[GroupOf[t]]
               /\ ToSet(asked'[t]) = {c[1] : c \in batch'[t]}
    <3>1. CASE t = s
      <4>1. batch'[t] = taken /\ asked'[t] = request /\ GroupOf[t] = g
        BY <1>13, <1>14, <3>1 DEF g
      <4>2. \A c \in taken : c = <<c[1], c[2]>>
        BY <1>8 DEF Cell
      <4> QED
        BY <1>20, <4>1, <4>2
    <3>2. CASE t # s
      BY <1>1, <1>13, <1>14, <3>2 DEF MarkedOnce, Fetches
    <3> QED
      BY <3>1, <3>2
  <2> QED
    BY <2>1, <2>3, <2>5, <2>6, <2>7 DEF MarkedOnce, Fetches
<1>19. NothingForgotten'
  <2> SUFFICES ASSUME NEW d \in dirty' \ fetching', group'[d] # NoGroup
               PROVE  /\ d \in dirtyFields'[group'[d]]
                      /\ d[1] \in ToSet(queue'[group'[d]]) \cup fetchingProducts'[group'[d]]
    BY DEF NothingForgotten
  <2>1. /\ d \in dirty \ fetching /\ d \in Cell /\ d \notin taken
        /\ group'[d] = group[d] /\ group[d] \in Group
        /\ d \in dirtyFields[group[d]]
        /\ d[1] \in ToSet(queue[group[d]]) \cup fetchingProducts[group[d]]
    BY <1>1, <1>2 DEF TypeOK, NothingForgotten
  <2>2. d \in dirtyFields'[group'[d]]
    BY <1>1, <2>1
  <2>3. CASE group[d] # g
    BY <1>11, <1>12, <2>1, <2>2, <2>3
  <2>4. CASE d[1] \in fetchingProducts[group[d]]
    BY <1>12, <2>1, <2>2, <2>4
  <2>5. CASE group[d] = g /\ d[1] \in ToSet(queue[g]) /\ d[1] \notin fetchingProducts[g]
    <3>1. PICK i \in 1..Len(queue[g]) : d[1] = queue[g][i]
      BY <1>3, <2>5 DEF ToSet
    <3>2. CASE i > n
      BY <1>6, <1>11, <2>1, <2>2, <2>5, <3>1, <3>2
    <3>3. CASE ~(i > n)
      <4>1. d \in Matched(g, queue[g][i])
        BY <1>1, <1>3, <2>1, <2>5, <3>1 DEF Matched, FieldsAreOffered
      <4>2. i \in Fetchable(g)
        BY <1>3, <2>5, <3>1, <4>1 DEF Fetchable
      <4>3. i \in 1..n
        BY <1>3, <1>4, <3>1, <3>3
      <4>4. d[1] \in ToSet(request)
        BY <1>5, <3>1, <4>2, <4>3
      <4> QED
        BY <1>12, <2>1, <2>2, <2>5, <4>4
    <3> QED
      BY <3>2, <3>3
  <2> QED
    BY <2>1, <2>3, <2>4, <2>5
<1> QED
  BY <1>1, <1>16, <1>17, <1>18, <1>19 DEF IInv, FieldsAreOffered

\* An answer gives back the cells and the products of its request, and queues again the
\* products that were marked meanwhile.
LEMMA AnswerKeepsInvariant ==
    ASSUME IInv, NEW s \in Service, Answer(s)
    PROVE  IInv'
<1> DEFINE g == GroupOf[s]
           left == dirtyFields[g] \ batch[s]
           again == Unfinished(s, left)
           longer == queue[g] \o again
<1>1. /\ TypeOK /\ HandlersKeepOrder /\ FieldsAreOffered /\ MarkedOnce /\ NothingForgotten
      /\ UNCHANGED <<services, group, todo, starting, refreshes>>
  BY DEF IInv, Answer
<1>2. /\ handler[s] = "fetching"
      /\ queue' = Requeue(g, again)
      /\ fetchingProducts' = [fetchingProducts EXCEPT ![g] = @ \ ToSet(asked[s])]
      /\ dirtyFields' = [dirtyFields EXCEPT ![g] = left]
      /\ dirty' = dirty \ batch[s]
      /\ fetching' = fetching \ batch[s]
      /\ asked' = [asked EXCEPT ![s] = <<>>]
      /\ batch' = [batch EXCEPT ![s] = {}]
      /\ handler' = [handler EXCEPT ![s] = "ready"]
  BY DEF Answer
<1>3. g \in Group /\ queue[g] \in Seq(Product) /\ IsInjective(queue[g])
  BY <1>1, GroupAssumption DEF TypeOK
<1>4. /\ again \in Seq(Product) /\ IsInjective(again)
      /\ \A p : p \in ToSet(again) <=>
                  /\ p \in ToSet(asked[s])
                  /\ \E c \in left : c[1] = p
                  /\ p \notin ToSet(queue[g])
  <2>1. asked[s] \in Seq(Product) /\ IsInjective(asked[s])
    BY <1>1 DEF TypeOK, HandlersKeepOrder
  <2> HIDE DEF left
  <2> QED
    BY <2>1, UnfinishedProperties
<1>5. queue' = [queue EXCEPT ![g] = longer]
  BY <1>2 DEF Requeue
<1> HIDE DEF g, left, again
<1>6. /\ longer \in Seq(Product) /\ IsInjective(longer)
      /\ ToSet(longer) = ToSet(queue[g]) \cup ToSet(again)
  <2>1. ToSet(queue[g]) \cap ToSet(again) = {}
    BY <1>4
  <2> QED
    BY <1>3, <1>4, <2>1, Concatenated
<1> HIDE DEF longer
<1>7. /\ DOMAIN queue' = Group
      /\ \A h \in Group : queue'[h] = IF h = g THEN longer ELSE queue[h]
  BY <1>1, <1>3, <1>5 DEF TypeOK
<1>8. /\ fetchingProducts' \in [Group -> SUBSET Product]
      /\ \A h \in Group : fetchingProducts'[h] =
            IF h = g THEN fetchingProducts[h] \ ToSet(asked[s]) ELSE fetchingProducts[h]
  BY <1>1, <1>2, <1>3 DEF TypeOK
<1>9. /\ dirtyFields' \in [Group -> SUBSET Cell]
      /\ \A h \in Group : dirtyFields'[h] = IF h = g THEN left ELSE dirtyFields[h]
  BY <1>1, <1>2, <1>3 DEF TypeOK, left
<1>10. /\ DOMAIN asked' = Service
       /\ \A t \in Service : asked'[t] = IF t = s THEN <<>> ELSE asked[t]
  BY <1>1, <1>2 DEF TypeOK
<1>11. /\ batch' \in [Service -> SUBSET Cell]
       /\ \A t \in Service : batch'[t] = IF t = s THEN {} ELSE batch[t]
  BY <1>1, <1>2 DEF TypeOK
<1>12. /\ handler' \in [Service -> {"idle", "ready", "fetching", "ending"}]
       /\ \A t \in Service : handler'[t] = IF t = s THEN "ready" ELSE handler[t]
  BY <1>1, <1>2 DEF TypeOK
<1>13. ToSet(<<>>) = {} /\ IsInjective(<<>>) /\ <<>> \in Seq(Product) /\ Len(<<>>) = 0
  BY DEF ToSet, IsInjective
<1>14. TypeOK'
  <2>1. \A h \in Group : queue'[h] \in Seq(Product) /\ IsInjective(queue'[h])
    BY <1>1, <1>6, <1>7 DEF TypeOK
  <2>2. \A t \in Service : MaxProducts[GroupOf[t]] \in Nat
    BY GroupAssumption
  <2>3. \A t \in Service :
           asked'[t] \in Seq(Product) /\ Len(asked'[t]) <= MaxProducts[GroupOf[t]]
    <3>1. ASSUME NEW t \in Service, t # s
          PROVE  asked'[t] \in Seq(Product) /\ Len(asked'[t]) <= MaxProducts[GroupOf[t]]
      <4>1. asked'[t] = asked[t]
        BY <1>10, <3>1
      <4> QED
        BY <1>1, <4>1 DEF TypeOK
    <3>2. asked'[s] \in Seq(Product) /\ Len(asked'[s]) <= MaxProducts[GroupOf[s]]
      <4>1. asked'[s] = <<>> /\ MaxProducts[GroupOf[s]] \in Nat
        BY <1>10, <2>2
      <4> QED
        BY <1>13, <4>1
    <3> QED
      BY <3>1, <3>2
  <2>4. \A t \in Service : handler'[t] = "fetching" <=> batch'[t] # {}
    BY <1>1, <1>11, <1>12 DEF TypeOK
  <2>5. dirty' \subseteq Cell /\ fetching' \subseteq Cell
    BY <1>1, <1>2 DEF TypeOK
  <2> QED
    BY <1>1, <1>7, <1>8, <1>9, <1>10, <1>11, <1>12, <2>1, <2>3, <2>4, <2>5 DEF TypeOK
<1>15. HandlersKeepOrder'
  BY <1>1, <1>10, <1>12, <1>13 DEF HandlersKeepOrder
<1>16. MarkedOnce'
  <2>1. fetching' = UNION {batch'[t] : t \in Service}
    <3>1. \A d : d \in fetching <=> \E t \in Service : d \in batch[t]
      BY <1>1 DEF MarkedOnce
    <3>2. \A d \in batch[s] : \A t \in Service : t # s => d \notin batch[t]
      BY <1>1 DEF MarkedOnce
    <3>3. \A d : d \in fetching' <=> \E t \in Service : d \in batch'[t]
      BY <1>2, <1>11, <3>1, <3>2
    <3> QED
      BY <3>3
  <2>2. \A t, u \in Service : t # u => batch'[t] \cap batch'[u] = {}
    BY <1>1, <1>11 DEF MarkedOnce
  <2>3. \A t, u \in Service : t # u /\ GroupOf[t] = GroupOf[u] =>
           ToSet(asked'[t]) \cap ToSet(asked'[u]) = {}
    BY <1>1, <1>10, <1>13 DEF MarkedOnce
  <2>4. ASSUME NEW h \in Group
        PROVE  fetchingProducts'[h] = UNION {ToSet(asked'[t]) : t \in {u \in Service : GroupOf[u] = h}}
    <3>1. \A p : p \in fetchingProducts[h] <=>
             \E t \in Service : GroupOf[t] = h /\ p \in ToSet(asked[t])
      BY <1>1 DEF MarkedOnce
    <3>2. \A p \in ToSet(asked[s]) : \A t \in Service :
             t # s /\ GroupOf[t] = g => p \notin ToSet(asked[t])
      BY <1>1 DEF MarkedOnce, g
    <3>3. \A p : p \in fetchingProducts'[h] <=>
             \E t \in Service : GroupOf[t] = h /\ p \in ToSet(asked'[t])
      BY <1>8, <1>10, <1>13, <3>1, <3>2 DEF g
    <3> QED
      BY <3>3
  <2>5. ASSUME NEW t \in Service
        PROVE  /\ batch'[t] \subseteq ToSet(asked'[t]) \X Fields[GroupOf[t]]
               /\ ToSet(asked'[t]) = {c[1] : c \in batch'[t]}
    <3>1. CASE t = s
      BY <1>10, <1>11, <1>13, <3>1
    <3>2. CASE t # s
      BY <1>1, <1>10, <1>11, <3>2 DEF MarkedOnce, Fetches
    <3> QED
      BY <3>1, <3>2
  <2> QED
    BY <2>1, <2>2, <2>3, <2>4, <2>5 DEF MarkedOnce, Fetches
<1>17. NothingForgotten'
  <2> SUFFICES ASSUME NEW d \in dirty' \ fetching', group'[d] # NoGroup
               PROVE  /\ d \in dirtyFields'[group'[d]]
                      /\ d[1] \in ToSet(queue'[group'[d]]) \cup fetchingProducts'[group'[d]]
    BY DEF NothingForgotten
  <2>1. /\ d \in dirty \ fetching /\ d \in Cell /\ d \notin batch[s]
        /\ group'[d] = group[d] /\ group[d] \in Group
        /\ d \in dirtyFields[group[d]]
        /\ d[1] \in ToSet(queue[group[d]]) \cup fetchingProducts[group[d]]
    BY <1>1, <1>2 DEF TypeOK, NothingForgotten
  <2>2. CASE group[d] # g
    BY <1>7, <1>8, <1>9, <2>1, <2>2
  <2>3. CASE group[d] = g
    <3>1. d \in left
      BY <2>1, <2>3 DEF left
    <3>2. CASE d[1] \in ToSet(queue[g])
      BY <1>6, <1>7, <1>9, <2>1, <2>3, <3>1, <3>2
    <3>3. CASE d[1] \in ToSet(asked[s]) /\ d[1] \notin ToSet(queue[g])
      <4>1. d[1] \in ToSet(again)
        BY <1>4, <3>1, <3>3
      <4> QED
        BY <1>6, <1>7, <1>9, <2>1, <2>3, <3>1, <4>1
    <3>4. CASE d[1] \in fetchingProducts[g] \ ToSet(asked[s])
      BY <1>3, <1>8, <1>9, <2>1, <2>3, <3>1, <3>4
    <3> QED
      BY <2>1, <2>3, <3>2, <3>3, <3>4
  <2> QED
    BY <2>2, <2>3
<1>18. FieldsAreOffered'
  <2>1. \A h \in Group : dirtyFields'[h] \subseteq dirtyFields[h]
    BY <1>9 DEF left
  <2> QED
    BY <1>1, <2>1 DEF FieldsAreOffered
<1> QED
  BY <1>14, <1>15, <1>16, <1>17, <1>18 DEF IInv

-----------------------------------------------------------------------------
(* The theorems.                                                           *)

\* The conjunction that the steps keep (scheduler.ts:113-243).
THEOREM Invariant == Spec => []IInv
<1>1. Init => IInv
  BY InitInvariant
<1>2. IInv /\ [Next]_vars => IInv'
  <2> SUFFICES ASSUME IInv, [Next]_vars PROVE IInv'
    OBVIOUS
  <2>1. CASE MarkDirty
    BY <2>1, MarkDirtyKeepsInvariant
  <2>2. ASSUME NEW s \in Service, Take(s) PROVE IInv'
    BY <2>2, TakeKeepsInvariant
  <2>3. ASSUME NEW s \in Service, Answer(s) PROVE IInv'
    BY <2>3, AnswerKeepsInvariant
  <2>4. CASE \/ Query \/ ScheduleService \/ Refresh \/ \E s \in Service : Ended(s)
             \/ UNCHANGED vars
    BY <2>4, SmallStepsKeepInvariant
  <2> QED
    BY <2>1, <2>2, <2>3, <2>4 DEF Next
<1> QED
  BY <1>1, <1>2, PTL DEF Spec

\* The state keeps its types; no product is queued twice and no request exceeds its
\* limit (scheduler.ts:126-129, 183-208).
THEOREM TypeCorrect == Spec => []TypeOK
<1>1. IInv => TypeOK
  BY DEF IInv
<1> QED
  BY <1>1, Invariant, PTL

\* A mark of a cell or a product belongs to one request, which fetches what it marks
\* and, when it ends, clears no mark of another (scheduler.ts:188-206, 217-226, 247-251).
THEOREM MarksHaveOneOwner == Spec => []MarkedOnce
<1>1. IInv => MarkedOnce
  BY DEF IInv
<1> QED
  BY <1>1, Invariant, PTL

\* A dirty cell that nobody fetches waits in the queue of its group, or will be put back
\* there (scheduler.ts:126-129, 225-241).
THEOREM DirtyCellsAreKept == Spec => []NothingForgotten
<1>1. IInv => NothingForgotten
  BY DEF IInv
<1> QED
  BY <1>1, Invariant, PTL

-----------------------------------------------------------------------------
(* First in, first out: what it takes for every product to be fetched, whose  *)
(* liveness is checked.                                                       *)

\* r is q, and perhaps more at its end.
Extends(r, q) == DOMAIN q \subseteq DOMAIN r /\ \A i \in DOMAIN q : r[i] = q[i]

\* A service takes the products at the head of its queue, at least one, and drops none
\* of which it could have fetched a cell.
TakesTheFirst(s) ==
    LET g == GroupOf[s] IN
    \E n \in 0..Len(queue[g]) :
        /\ queue[g] # <<>> => n # 0
        /\ queue'[g] = SubSeq(queue[g], n + 1, Len(queue[g]))
        /\ \A i \in 1..n : \/ queue[g][i] \in ToSet(asked'[s])
                           \/ queue[g][i] \in fetchingProducts[g]
                           \/ Matched(g, queue[g][i]) = {}

PlacesAreKept ==
    /\ \A s \in Service : Take(s) => TakesTheFirst(s)
    /\ \A g \in Group :
          \/ Extends(queue'[g], queue[g])
          \/ \E s \in Service : GroupOf[s] = g /\ handler[s] = "ready" /\ TakesTheFirst(s)

\* What is added at the end of a sequence moves nothing.
LEMMA EndsExtend ==
    ASSUME NEW T, NEW q \in Seq(T), NEW r \in Seq(T)
    PROVE  Extends(q, q) /\ Extends(q \o r, q)
  BY DEF Extends

LEMMA EnqueueExtends ==
    ASSUME TypeOK, NEW g \in Group, NEW p \in Product, NEW h \in Group
    PROVE  Extends(Enqueue(g, p)[h], queue[h])
<1>1. queue[h] \in Seq(Product) /\ DOMAIN queue = Group
  BY DEF TypeOK
<1>2. Enqueue(g, p)[h] \in {queue[h], Append(queue[h], p)}
  BY <1>1 DEF Enqueue
<1>3. Extends(Append(queue[h], p), queue[h])
  BY <1>1 DEF Extends
<1> QED
  BY <1>1, <1>2, <1>3, EndsExtend

LEMMA TakesStep ==
    ASSUME IInv, NEW s \in Service, Take(s)
    PROVE  TakesTheFirst(s) /\ \A h \in Group : h # GroupOf[s] => queue'[h] = queue[h]
<1> DEFINE g == GroupOf[s]
           q == queue[g]
           n == Dequeued(g)
           F == Fetchable(g)
           request == NextRequest(g)
<1>1. /\ g \in Group /\ q \in Seq(Product) /\ IsInjective(q)
      /\ DOMAIN queue = Group /\ DOMAIN asked = Service
  BY GroupAssumption DEF IInv, TypeOK
<1>2. /\ queue' = [queue EXCEPT ![g] = SubSeq(@, n + 1, Len(@))]
      /\ asked' = [asked EXCEPT ![s] = request]
  BY DEF Take
<1>3. n \in 0..Len(q) /\ (q # <<>> => n # 0)
  BY <1>1, TakenFitsTheRequest
<1>4. ToSet(request) = {q[i] : i \in F \cap 1..n}
  BY <1>1, RequestProperties
<1>5. \A i \in 1..n : \/ i \in F
                      \/ q[i] \in fetchingProducts[g]
                      \/ Matched(g, q[i]) = {}
  BY <1>1, <1>3 DEF Fetchable
<1> HIDE DEF n, F, request
<1>6. queue'[g] = SubSeq(q, n + 1, Len(q)) /\ asked'[s] = request
  BY <1>1, <1>2
<1>7. \A i \in 1..n : \/ q[i] \in ToSet(asked'[s])
                      \/ q[i] \in fetchingProducts[g]
                      \/ Matched(g, q[i]) = {}
  BY <1>4, <1>5, <1>6
<1> QED
  BY <1>1, <1>2, <1>3, <1>6, <1>7 DEF TakesTheFirst

LEMMA PlacesStep ==
    ASSUME IInv, [Next]_vars
    PROVE  PlacesAreKept
<1>1. \A g \in Group : queue[g] \in Seq(Product) /\ Extends(queue[g], queue[g])
  BY EndsExtend DEF IInv, TypeOK
<1>2. ASSUME NEW g \in Group
      PROVE  \/ Extends(queue'[g], queue[g])
             \/ \E s \in Service : GroupOf[s] = g /\ handler[s] = "ready" /\ TakesTheFirst(s)
  <2>1. CASE queue' = queue
    BY <1>1, <2>1
  <2>2. CASE MarkDirty
    <3>1. Head(todo) \in Cell
      BY <2>2 DEF MarkDirty, IInv, HandlersKeepOrder
    <3>2. Head(todo)[1] \in Product
      BY <3>1 DEF Cell
    <3>3. queue' = queue \/ \E h \in Group : queue' = Enqueue(h, Head(todo)[1])
      BY <2>2, <3>1, RouteProperties DEF MarkDirty, IInv
    <3> QED
      BY <1>1, <3>2, <3>3, EnqueueExtends DEF IInv
  <2>3. ASSUME NEW s \in Service, Take(s)
        PROVE  \/ Extends(queue'[g], queue[g])
               \/ \E t \in Service : GroupOf[t] = g /\ handler[t] = "ready" /\ TakesTheFirst(t)
    BY <1>1, <2>3, TakesStep DEF Take
  <2>4. ASSUME NEW s \in Service, Answer(s) PROVE Extends(queue'[g], queue[g])
    <3> DEFINE u == Unfinished(s, dirtyFields[GroupOf[s]] \ batch[s])
    <3>1. u \in Seq(Product)
      BY UnfinishedProperties DEF IInv, TypeOK, HandlersKeepOrder
    <3>2. queue' = [queue EXCEPT ![GroupOf[s]] = @ \o u]
      BY <2>4 DEF Answer, Requeue
    <3> HIDE DEF u
    <3>3. queue'[g] = queue[g] \/ queue'[g] = queue[g] \o u
      BY <3>2 DEF IInv, TypeOK
    <3> QED
      BY <1>1, <3>1, <3>3, EndsExtend
  <2> QED
    BY <2>1, <2>2, <2>3, <2>4 DEF Next, Query, ScheduleService, Refresh, Ended, vars, groups
<1> QED
  BY <1>2, TakesStep DEF PlacesAreKept

\* No product is overtaken or skipped: a queue only gains at its end, what was marked
\* while it was fetched included, and a service that asks takes what is at the head
\* (scheduler.ts:126-129, 183-208, 225-241).
THEOREM ProductsAreServedInOrder == Spec => [][PlacesAreKept]_vars
<1>1. IInv /\ [Next]_vars => [PlacesAreKept]_vars
  BY PlacesStep
<1> QED
  BY <1>1, Invariant, PTL DEF Spec

=============================================================================
