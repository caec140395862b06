-------------------------- MODULE TokenBucket_proofs --------------------------
(***************************************************************************)
(* Proofs about TokenBucket.  What the line owes and what was granted are  *)
(* sums, one over a sequence and one over a set, and both are defined by   *)
(* recursion.  A fact about a sum is proved by its least counterexample:   *)
(* the shortest piece of the line, or a subset that contains no other.     *)
(***************************************************************************)
EXTENDS TokenBucket, FiniteSetTheorems, SequenceTheorems, WellFoundedInduction, TLAPS

\* A nonempty set of numbers has a least element.
LEMMA LeastNumber ==
    ASSUME NEW T \in SUBSET Nat, T # {}
    PROVE  \E x \in T : \A y \in T : x <= y
<1>1. PICK x \in T : \A y \in T : <<y, x>> \notin OpToRel(<, Nat)
    BY NatLessThanWellFounded, WFMin DEF OpToRel
<1>2. \A y \in T : ~(y < x)
    BY <1>1 DEF OpToRel
<1> QED
    BY <1>2

\* Among subsets of a finite set there is one that contains no other.
LEMMA SmallestSubset ==
    ASSUME NEW S, IsFiniteSet(S), NEW T \in SUBSET SUBSET S, T # {}
    PROVE  \E t \in T : IsFiniteSet(t) /\ \A u \in T : u \subseteq t => u = t
<1> DEFINE Sizes == {Cardinality(t) : t \in T}
<1>1. \A t \in T : IsFiniteSet(t) /\ Cardinality(t) \in Nat
    BY FS_Subset, FS_CardinalityType
<1>2. PICK t \in T : \A u \in T : Cardinality(t) <= Cardinality(u)
    <2>1. Sizes \in SUBSET Nat /\ Sizes # {}
        BY <1>1
    <2>2. PICK n \in Sizes : \A m \in Sizes : n <= m
        <3> HIDE DEF Sizes
        <3> QED
            BY <2>1, LeastNumber
    <2> QED
        BY <2>2
<1>3. ASSUME NEW u \in T, u \subseteq t PROVE u = t
    <2>1. Cardinality(u) <= Cardinality(t) /\ (Cardinality(t) = Cardinality(u) => t = u)
        BY <1>1, <1>3, FS_Subset
    <2>2. Cardinality(t) <= Cardinality(u)
        BY <1>2
    <2> QED
        BY <1>1, <2>1, <2>2
<1> QED
    BY <1>1, <1>3

-----------------------------------------------------------------------------
(* What a set of callers asks for together.                                *)

SumOf(S) == MapThenSumSet(LAMBDA c : Tokens[c], S)

Some(s) == CHOOSE x \in s : TRUE

\* g gives the sum of every subset of S: some element's share and the rest's.
IsSum(g, S) ==
    g = [s \in SUBSET S |->
            IF s = {} THEN 0 ELSE Tokens[Some(s)] + g[s \ {Some(s)}]]

TheSum(S) == CHOOSE g : IsSum(g, S)

LEMMA SumDefinition ==
    ASSUME NEW S
    PROVE  SumOf(S) = TheSum(S)[S]
    BY DEF SumOf, TheSum, IsSum, Some, MapThenSumSet, MapThenFoldSet

LEMMA SomeElement ==
    ASSUME NEW s, s # {}
    PROVE  Some(s) \in s
    BY DEF Some

\* Two sums agree on the finite sets they share.
LEMMA SumsAgree ==
    ASSUME NEW S, NEW R, NEW g, NEW h, IsSum(g, S), IsSum(h, R),
           NEW s \in (SUBSET S) \cap (SUBSET R), IsFiniteSet(s)
    PROVE  g[s] = h[s]
<1> DEFINE Bad == {t \in SUBSET s : g[t] # h[t]}
<1> SUFFICES ASSUME Bad # {} PROVE FALSE
    OBVIOUS
<1>1. PICK t \in Bad : \A u \in Bad : u \subseteq t => u = t
    <2> HIDE DEF Bad
    <2>1. Bad \in SUBSET SUBSET s
        BY DEF Bad
    <2> QED
        BY <2>1, SmallestSubset
<1>2. t \in SUBSET S /\ t \in SUBSET R
    OBVIOUS
<1>3. t # {} /\ Some(t) \in t
    BY <1>2, SomeElement DEF IsSum
<1>4. /\ g[t] = Tokens[Some(t)] + g[t \ {Some(t)}]
      /\ h[t] = Tokens[Some(t)] + h[t \ {Some(t)}]
    BY <1>2, <1>3 DEF IsSum
<1>5. t \ {Some(t)} \notin Bad
    BY <1>1, <1>3
<1> QED
    BY <1>4, <1>5

\* A finite set has a sum.
LEMMA SumExists ==
    ASSUME NEW S, IsFiniteSet(S)
    PROVE  IsSum(TheSum(S), S)
<1> DEFINE Bad == {t \in SUBSET S : ~IsSum(TheSum(t), t)}
<1> SUFFICES ASSUME Bad # {} PROVE FALSE
    OBVIOUS
<1>1. PICK t \in Bad : IsFiniteSet(t) /\ \A u \in Bad : u \subseteq t => u = t
    <2> HIDE DEF Bad
    <2>1. Bad \in SUBSET SUBSET S
        BY DEF Bad
    <2> QED
        BY <2>1, SmallestSubset
<1>2. ASSUME NEW s \in SUBSET t, s # t PROVE IsSum(TheSum(s), s)
    BY <1>1, <1>2
<1> DEFINE rest(s) == s \ {Some(s)}
           g == [s \in SUBSET t |->
                    IF s = {} THEN 0 ELSE Tokens[Some(s)] + TheSum(rest(s))[rest(s)]]
<1>3. ASSUME NEW s \in SUBSET t, s # t PROVE g[s] = TheSum(s)[s]
    <2>1. CASE s = {}
        BY <1>2, <1>3, <2>1 DEF IsSum
    <2>2. CASE s # {}
        <3>1. Some(s) \in s
            BY <2>2, SomeElement
        <3>2. IsSum(TheSum(s), s)
            BY <1>2, <1>3
        <3>3. IsSum(TheSum(rest(s)), rest(s))
            BY <1>2, <3>1
        <3>4. IsFiniteSet(rest(s))
            BY <1>1, FS_Subset
        <3>5. TheSum(s)[rest(s)] = TheSum(rest(s))[rest(s)]
            BY <3>2, <3>3, <3>4, SumsAgree
        <3>6. TheSum(s)[s] = Tokens[Some(s)] + TheSum(s)[rest(s)]
            BY <2>2, <3>2 DEF IsSum
        <3> QED
            BY <2>2, <3>5, <3>6
    <2> QED
        BY <2>1, <2>2
<1>4. ASSUME NEW s \in SUBSET t, s # {}
      PROVE  TheSum(rest(s))[rest(s)] = g[rest(s)]
    <2>1. rest(s) # t /\ rest(s) \in SUBSET t
        BY <1>4, SomeElement
    <2> HIDE DEF g, rest
    <2> QED
        BY <1>3, <2>1
<1>5. g = [s \in SUBSET t |-> IF s = {} THEN 0 ELSE Tokens[Some(s)] + g[rest(s)]]
    <2> DEFINE h == [s \in SUBSET t |->
                        IF s = {} THEN 0 ELSE Tokens[Some(s)] + g[rest(s)]]
    <2>1. ASSUME NEW s \in SUBSET t PROVE g[s] = h[s]
        <3>1. CASE s = {}
            BY <3>1
        <3>2. CASE s # {}
            BY <1>4, <3>2
        <3> QED
            BY <3>1, <3>2
    <2> QED
        BY <2>1
<1>6. IsSum(g, t)
    <2> HIDE DEF g
    <2> QED
        BY <1>5 DEF IsSum
<1>7. IsSum(TheSum(t), t)
    <2> HIDE DEF g
    <2> QED
        BY <1>6 DEF TheSum
<1> QED
    BY <1>7

\* Nobody asks for nothing.
LEMMA SumOfNone == SumOf({}) = 0
    BY SumDefinition, SumExists, FS_EmptySet DEF IsSum

LEMMA SumOfSome ==
    ASSUME NEW S, IsFiniteSet(S), S # {}
    PROVE  SumOf(S) = Tokens[Some(S)] + SumOf(S \ {Some(S)})
<1> DEFINE R == S \ {Some(S)}
<1>1. IsFiniteSet(R) /\ R \in SUBSET S
    BY FS_Subset
<1>2. IsSum(TheSum(S), S) /\ IsSum(TheSum(R), R)
    BY <1>1, SumExists
<1>3. TheSum(S)[R] = TheSum(R)[R]
    BY <1>1, <1>2, SumsAgree
<1>4. TheSum(S)[S] = Tokens[Some(S)] + TheSum(S)[R]
    BY <1>2 DEF IsSum
<1> QED
    BY <1>3, <1>4, SumDefinition

\* A finite set of callers asks for a number of tokens.
LEMMA SumIsANumber ==
    ASSUME NEW S \in SUBSET Callers, IsFiniteSet(S)
    PROVE  SumOf(S) \in Nat
<1> DEFINE Bad == {t \in SUBSET S : SumOf(t) \notin Nat}
<1> SUFFICES ASSUME Bad # {} PROVE FALSE
    OBVIOUS
<1>1. PICK t \in Bad : IsFiniteSet(t) /\ \A u \in Bad : u \subseteq t => u = t
    <2> HIDE DEF Bad
    <2>1. Bad \in SUBSET SUBSET S
        BY DEF Bad
    <2> QED
        BY <2>1, SmallestSubset
<1>2. t # {}
    BY SumOfNone
<1>3. Some(t) \in t
    BY <1>2, SomeElement
<1>4. SumOf(t \ {Some(t)}) \in Nat
    BY <1>1, <1>3
<1>5. Tokens[Some(t)] \in Nat
    BY <1>3, TokensAssumption
<1>6. SumOf(t) = Tokens[Some(t)] + SumOf(t \ {Some(t)})
    BY <1>1, <1>2, SumOfSome
<1> QED
    BY <1>4, <1>5, <1>6

\* Whichever caller is taken out first, the sum is what it asks for and the rest's.
LEMMA SumWithout ==
    ASSUME NEW S \in SUBSET Callers, IsFiniteSet(S), NEW c \in S
    PROVE  SumOf(S) = Tokens[c] + SumOf(S \ {c})
<1> DEFINE Bad == {t \in SUBSET S : \E d \in t : SumOf(t) # Tokens[d] + SumOf(t \ {d})}
<1> SUFFICES ASSUME Bad # {} PROVE FALSE
    OBVIOUS
<1>1. PICK t \in Bad : IsFiniteSet(t) /\ \A u \in Bad : u \subseteq t => u = t
    <2> HIDE DEF Bad
    <2>1. Bad \in SUBSET SUBSET S
        BY DEF Bad
    <2> QED
        BY <2>1, SmallestSubset
<1>2. PICK d \in t : SumOf(t) # Tokens[d] + SumOf(t \ {d})
    OBVIOUS
<1>3. PICK e \in t : SumOf(t) = Tokens[e] + SumOf(t \ {e})
    BY <1>1, <1>2, SomeElement, SumOfSome
<1>4. d # e
    BY <1>2, <1>3
<1>5. t \ {d} \notin Bad /\ t \ {e} \notin Bad
    BY <1>1
<1>6. SumOf(t \ {e}) = Tokens[d] + SumOf((t \ {e}) \ {d})
    BY <1>4, <1>5
<1>7. SumOf(t \ {d}) = Tokens[e] + SumOf((t \ {d}) \ {e})
    BY <1>4, <1>5
<1>8. (t \ {e}) \ {d} = t \ {d, e} /\ (t \ {d}) \ {e} = t \ {d, e}
    OBVIOUS
<1>9. IsFiniteSet(t \ {d, e}) /\ t \ {d, e} \in SUBSET Callers
    BY <1>1, FS_Subset
<1>10. SumOf(t \ {d, e}) \in Nat /\ Tokens[d] \in Nat /\ Tokens[e] \in Nat
    BY <1>9, SumIsANumber, TokensAssumption
<1>11. SumOf(t) = Tokens[e] + (Tokens[d] + SumOf(t \ {d, e}))
    BY <1>3, <1>6, <1>8
<1>12. SumOf(t \ {d}) = Tokens[e] + SumOf(t \ {d, e})
    BY <1>7, <1>8
<1> QED
    BY <1>2, <1>10, <1>11, <1>12

\* One more caller adds what it asks for.
LEMMA SumWith ==
    ASSUME NEW S \in SUBSET Callers, IsFiniteSet(S), NEW c \in Callers, c \notin S
    PROVE  /\ IsFiniteSet(S \cup {c})
           /\ SumOf(S \cup {c}) = SumOf(S) + Tokens[c]
<1> DEFINE U == S \cup {c}
<1>1. IsFiniteSet(U) /\ U \in SUBSET Callers /\ c \in U
    BY FS_AddElement
<1>2. U \ {c} = S
    OBVIOUS
<1>3. SumOf(S) \in Nat /\ Tokens[c] \in Nat
    BY SumIsANumber, TokensAssumption
<1> HIDE DEF U
<1>4. SumOf(U) = Tokens[c] + SumOf(S)
    BY <1>1, <1>2, SumWithout
<1> QED
    BY <1>1, <1>3, <1>4 DEF U

-----------------------------------------------------------------------------
(* What the callers in line need, and how many of them are served.         *)

\* Looking at a caller's signal is the difference between its cost and its request.
LEMMA CostIsANumber ==
    ASSUME NEW c \in Callers
    PROVE  Cost(c) \in Nat
    BY TokensAssumption DEF Cost

\* The first in line owe nothing to those behind them: what i need is what i - 1 need
\* and the cost of the i-th.
LEMMA OwedDefinition ==
    ASSUME queue \in Seq(Callers)
    PROVE  /\ Owed[0] = 0
           /\ \A i \in 1..Len(queue) : Owed[i] = Owed[i - 1] + Cost(queue[i])
<1> DEFINE IsOwed(g, n) ==
                g = [i \in 0..n |-> IF i = 0 THEN 0 ELSE g[i - 1] + Cost(queue[i])]
           Bad == {n \in Nat : ~ \E g : IsOwed(g, n)}
<1>1. Bad = {}
    <2>1. SUFFICES ASSUME Bad # {} PROVE FALSE
        OBVIOUS
    <2>2. PICK n \in Bad : \A m \in Bad : n <= m
        <3> HIDE DEF Bad
        <3>1. Bad \in SUBSET Nat
            BY DEF Bad
        <3> QED
            BY <2>1, <3>1, LeastNumber
    <2>3. n # 0
        <3>1. IsOwed([i \in 0..0 |-> 0], 0)
            OBVIOUS
        <3> QED
            BY <3>1
    <2>4. n - 1 \in Nat /\ n - 1 \notin Bad
        <3>1. n \in Nat /\ n - 1 \in Nat /\ ~(n <= n - 1)
            BY <2>3
        <3> HIDE DEF Bad
        <3> QED
            BY <2>2, <3>1
    <2>5. PICK h : IsOwed(h, n - 1)
        BY <2>4
    <2> DEFINE g == [i \in 0..n |-> IF i = n THEN h[n - 1] + Cost(queue[n]) ELSE h[i]]
    <2>6. ASSUME NEW i \in 0..n
          PROVE  g[i] = IF i = 0 THEN 0 ELSE g[i - 1] + Cost(queue[i])
        <3>1. CASE i = n
            BY <2>3, <2>4, <3>1
        <3>2. CASE i # n
            <4>1. i \in 0..(n - 1)
                BY <3>2
            <4>2. h[i] = IF i = 0 THEN 0 ELSE h[i - 1] + Cost(queue[i])
                BY <2>5, <4>1
            <4>3. i # 0 => i - 1 \in 0..n /\ i - 1 # n
                BY <4>1
            <4> QED
                BY <3>2, <4>2, <4>3
        <3> QED
            BY <3>1, <3>2
    <2>7. IsOwed(g, n)
        BY <2>6
    <2> QED
        BY <2>7
<1>2. Len(queue) \in Nat
    OBVIOUS
<1>3. \E g : IsOwed(g, Len(queue))
    BY <1>1, <1>2
<1>4. IsOwed(Owed, Len(queue))
    BY <1>3 DEF Owed
<1> QED
    BY <1>2, <1>4

LEMMA OwedIsANumber ==
    ASSUME queue \in Seq(Callers), NEW i \in 0..Len(queue)
    PROVE  Owed[i] \in Nat
<1> DEFINE Bad == {n \in 0..Len(queue) : Owed[n] \notin Nat}
<1> SUFFICES ASSUME Bad # {} PROVE FALSE
    OBVIOUS
<1>1. PICK n \in Bad : \A m \in Bad : n <= m
    <2> HIDE DEF Bad
    <2>1. Bad \in SUBSET Nat
        BY DEF Bad
    <2> QED
        BY <2>1, LeastNumber
<1>2. n # 0
    BY OwedDefinition
<1>3. n \in 1..Len(queue) /\ n - 1 \in 0..Len(queue)
    BY <1>2
<1>4. Owed[n - 1] \in Nat
    BY <1>1, <1>3
<1>5. Cost(queue[n]) \in Nat
    BY <1>3, CostIsANumber
<1>6. Owed[n] = Owed[n - 1] + Cost(queue[n])
    BY <1>3, OwedDefinition
<1> QED
    BY <1>4, <1>5, <1>6

\* A nonempty set of numbers up to n has a greatest element.
LEMMA MaxOfBounded ==
    ASSUME NEW n \in Nat, NEW S \in SUBSET (0..n), S # {}
    PROVE  Max(S) \in S /\ \A y \in S : y <= Max(S)
<1> DEFINE T == {n - i : i \in S}
<1>1. T \in SUBSET Nat /\ T # {}
    <2>1. \A i \in S : i \in Int /\ n - i \in Nat
        OBVIOUS
    <2> QED
        BY <2>1
<1>2. PICK x \in T : \A y \in T : x <= y
    <2> HIDE DEF T
    <2> QED
        BY <1>1, LeastNumber
<1>3. PICK i \in S : x = n - i
    OBVIOUS
<1>4. \A y \in S : i >= y
    <2>1. ASSUME NEW y \in S PROVE i >= y
        <3>1. n - y \in T
            OBVIOUS
        <3>2. n - i <= n - y
            BY <1>2, <1>3, <3>1
        <3> QED
            BY <3>2
    <2> QED
        BY <2>1
<1>5. Max(S) \in S /\ \A y \in S : Max(S) >= y
    <2> HIDE DEF T
    <2> QED
        BY <1>4 DEF Max
<1> QED
    BY <1>5

\* The smaller of two numbers is one of them and at most the other.
LEMMA MinOfTwo ==
    ASSUME NEW a \in Int, NEW b \in Int
    PROVE  Min({a, b}) \in {a, b} /\ Min({a, b}) <= a /\ Min({a, b}) <= b
<1>1. \E x \in {a, b} : \A y \in {a, b} : x <= y
    <2>1. CASE a <= b
        BY <2>1
    <2>2. CASE b <= a
        BY <2>2
    <2> QED
        BY <2>1, <2>2
<1>2. Min({a, b}) \in {a, b} /\ \A y \in {a, b} : Min({a, b}) <= y
    BY <1>1 DEF Min
<1> QED
    BY <1>2

\* The loop of release stops at the first in line whom the tokens do not suffice for.
LEMMA ServedProperties ==
    ASSUME queue \in Seq(Callers), NEW total \in Nat
    PROVE  /\ Served(total) \in 0..Len(queue)
           /\ Owed[Served(total)] <= total
           /\ \A i \in 0..Len(queue) : i > Served(total) => Owed[i] > total
<1> DEFINE S == {i \in 0..Len(queue) : Owed[i] <= total}
<1>1. Len(queue) \in Nat
    OBVIOUS
<1>2. 0 \in S
    BY <1>1, OwedDefinition
<1>3. S \in SUBSET (0..Len(queue))
    OBVIOUS
<1>4. PICK m \in 0..Len(queue) : m = Max(S) /\ m \in S /\ \A y \in S : y <= m
    <2> HIDE DEF S
    <2>1. Max(S) \in S /\ \A y \in S : y <= Max(S)
        BY <1>1, <1>2, <1>3, MaxOfBounded
    <2> QED
        BY <1>3, <2>1
<1>5. Served(total) = m
    BY <1>4 DEF Served
<1>6. ASSUME NEW i \in 0..Len(queue), i > m PROVE Owed[i] > total
    <2>1. Owed[i] \in Nat
        BY OwedIsANumber
    <2>2. i \notin S
        <3> HIDE DEF S
        <3> QED
            BY <1>1, <1>4, <1>6
    <2> QED
        BY <2>1, <2>2
<1> QED
    BY <1>4, <1>5, <1>6
-----------------------------------------------------------------------------
(* The inductive invariant.                                                *)

Granted == {c \in Callers : call[c] = "granted"}

\* Nobody stands in line twice.
LineIsDistinct ==
    \A i, j \in 1..Len(queue) : queue[i] = queue[j] => i = j

\* Whoever is in line waits, unless its signal was aborted; it costs nothing then.
LineWaitsOrGaveUp ==
    \A i \in 1..Len(queue) :
        \/ call[queue[i]] = "waiting" /\ Signal[queue[i]] \notin fired
        \/ call[queue[i]] = "aborted" /\ Signal[queue[i]] \in fired

\* Whoever waits is in line.
WaitersAreInLine ==
    \A c \in Callers : call[c] = "waiting" => \E i \in 1..Len(queue) : queue[i] = c

\* Nobody stands in line for more than a bucket holds, and while somebody does the
\* semaphore is not full.
LineFits == \A i \in 1..Len(queue) : Tokens[queue[i]] <= Capacity
LineLeavesRoom == queue # <<>> => available < Capacity

\* A bucket that ticks was made.
TickingWasMade == ticking # {} => lives > 0

Inv ==
    /\ TypeOK
    /\ LineIsDistinct
    /\ LineWaitsOrGaveUp
    /\ WaitersAreInLine
    /\ LineFits
    /\ LineLeavesRoom
    /\ TickingWasMade
    /\ IsFiniteSet(Granted)
    /\ TokensAreConserved
    /\ FirstInLineMustWait

\* The callers that were granted their tokens, and the first i of the line without those
\* that gave up.
GrantedWith(i) ==
    Granted \cup {queue[j] : j \in {k \in 1..i : call[queue[k]] = "waiting"}}

LEMMA Conserved ==
    TokensAreConserved <=> issued = available + SumOf(Granted)
    BY DEF TokensAreConserved, SumOf, Granted

\* What the first i of the line owe is what those of them ask for who still wait: the
\* callers that gave up leave the line without a token.
LEMMA OwedIsWhatIsGranted ==
    ASSUME Inv, NEW i \in 0..Len(queue)
    PROVE  /\ IsFiniteSet(GrantedWith(i))
           /\ SumOf(GrantedWith(i)) = SumOf(Granted) + Owed[i]
<1> DEFINE OK(n) == /\ IsFiniteSet(GrantedWith(n))
                    /\ SumOf(GrantedWith(n)) = SumOf(Granted) + Owed[n]
           Bad == {n \in 0..Len(queue) : ~OK(n)}
<1> SUFFICES ASSUME Bad # {} PROVE FALSE
    OBVIOUS
<1>1. queue \in Seq(Callers) /\ Len(queue) \in Nat
    BY DEF Inv, TypeOK
<1>2. PICK n \in Bad : \A m \in Bad : n <= m
    <2> HIDE DEF Bad
    <2>1. Bad \in SUBSET Nat
        BY <1>1 DEF Bad
    <2> QED
        BY <2>1, LeastNumber
<1>3. SumOf(Granted) \in Nat /\ IsFiniteSet(Granted)
    BY SumIsANumber DEF Granted, Inv
<1>4. n # 0
    <2>1. GrantedWith(0) = Granted
        BY DEF GrantedWith
    <2>2. OK(0)
        BY <2>1, <1>1, <1>3, OwedDefinition
    <2> QED
        BY <2>2
<1>5. n \in 1..Len(queue) /\ n - 1 \in 0..Len(queue) /\ ~(n <= n - 1)
    BY <1>1, <1>4
<1>6. OK(n - 1)
    <2> HIDE DEF OK
    <2> QED
        BY <1>2, <1>5
<1>7. /\ queue[n] \in Callers
      /\ Owed[n - 1] \in Nat
      /\ Owed[n] = Owed[n - 1] + Cost(queue[n])
    BY <1>1, <1>5, OwedDefinition, OwedIsANumber
<1>8. CASE call[queue[n]] = "waiting"
    <2>1. GrantedWith(n) = GrantedWith(n - 1) \cup {queue[n]}
        BY <1>5, <1>8 DEF GrantedWith
    <2>2. queue[n] \notin GrantedWith(n - 1)
        BY <1>1, <1>5, <1>8 DEF GrantedWith, Granted, Inv, LineIsDistinct
    <2>3. GrantedWith(n - 1) \in SUBSET Callers
        BY <1>1, <1>5 DEF GrantedWith, Granted
    <2>4. Cost(queue[n]) = Tokens[queue[n]]
        BY <1>5, <1>8 DEF Cost, Inv, LineWaitsOrGaveUp
    <2>5. /\ IsFiniteSet(GrantedWith(n))
          /\ SumOf(GrantedWith(n)) = SumOf(GrantedWith(n - 1)) + Cost(queue[n])
        BY <1>6, <1>7, <2>1, <2>2, <2>3, <2>4, SumWith
    <2>6. Cost(queue[n]) \in Nat
        BY <1>7, CostIsANumber
    <2>7. SumOf(GrantedWith(n)) = SumOf(Granted) + Owed[n]
        BY <1>3, <1>6, <1>7, <2>5, <2>6
    <2> QED
        BY <2>5, <2>7
<1>9. CASE call[queue[n]] = "aborted"
    <2>1. GrantedWith(n) = GrantedWith(n - 1)
        BY <1>5, <1>9 DEF GrantedWith
    <2>2. Cost(queue[n]) = 0
        BY <1>5, <1>9 DEF Cost, Inv, LineWaitsOrGaveUp
    <2> QED
        BY <1>6, <1>7, <2>1, <2>2
<1> QED
    BY <1>5, <1>8, <1>9 DEF Inv, LineWaitsOrGaveUp

LEMMA InitInv == Init => Inv
<1> SUFFICES ASSUME Init PROVE Inv
    OBVIOUS
<1>1. Capacity * lives = 0
    BY CapacityAssumption DEF Init
<1>2. TypeOK
    <2>1. available \in 0..(Capacity * lives)
        BY <1>1 DEF Init
    <2>2. queue \in Seq(Callers)
        BY DEF Init
    <2>3. call \in [Callers -> {"idle", "waiting", "granted", "aborted", "refused"}]
        BY DEF Init
    <2>4. fired \in SUBSET Signals /\ issued \in Nat
        BY DEF Init
    <2>5. mapped \in BOOLEAN /\ ticking \in SUBSET (1..lives)
        BY DEF Init
    <2>6. lives \in 0..MaxLives
        BY MaxLivesAssumption DEF Init
    <2> QED
        BY <2>1, <2>2, <2>3, <2>4, <2>5, <2>6 DEF TypeOK
<1>3. Granted = {}
    BY DEF Init, Granted
<1>4. IsFiniteSet(Granted) /\ SumOf(Granted) = 0
    BY <1>3, FS_EmptySet, SumOfNone
<1>5. TokensAreConserved
    BY <1>4, Conserved DEF Init
<1> QED
    BY <1>2, <1>4, <1>5 DEF Init, Inv, LineIsDistinct, LineWaitsOrGaveUp,
                            WaitersAreInLine, LineFits, LineLeavesRoom,
                            TickingWasMade, FirstInLineMustWait

\* The bound of TypeOK grows by one capacity with every bucket.
LEMMA OneMoreCapacity ==
    ASSUME NEW n \in Nat
    PROVE  /\ Capacity * n \in Nat
           /\ Capacity * (n + 1) = Capacity * n + Capacity
           /\ n > 0 => Capacity <= Capacity * n
<1>1. Capacity \in Nat /\ Capacity > 0
    BY CapacityAssumption
<1>2. Capacity * n \in Nat /\ Capacity * (n + 1) = Capacity * n + Capacity
    BY <1>1
<1>3. ASSUME n > 0 PROVE Capacity <= Capacity * n
    <2>1. PICK m \in Nat : n = m + 1
        <3>1. n - 1 \in Nat /\ n = (n - 1) + 1
            BY <1>3
        <3> QED
            BY <3>1
    <2>2. Capacity * m \in Nat /\ Capacity * (m + 1) = Capacity * m + Capacity
        BY <1>1
    <2> QED
        BY <1>1, <2>1, <2>2
<1> QED
    BY <1>2, <1>3

\* A release keeps everything but the bound on the tokens.  Those that leave the line
\* get what they owe and nobody twice; the first that stays needs more than is left.
LEMMA ReleaseSteps ==
    ASSUME Inv, NEW tokens \in Nat, Release(tokens), UNCHANGED fired
    PROVE  /\ available' \in 0..(available + tokens)
           /\ queue' \in Seq(Callers)
           /\ call' \in [Callers -> {"idle", "waiting", "granted", "aborted", "refused"}]
           /\ issued' \in Nat
           /\ LineIsDistinct'
           /\ LineWaitsOrGaveUp'
           /\ WaitersAreInLine'
           /\ LineFits'
           /\ LineLeavesRoom'
           /\ IsFiniteSet(Granted)'
           /\ TokensAreConserved'
           /\ FirstInLineMustWait'
           /\ \/ Len(queue') < Len(queue)
              \/ queue' = queue /\ available' = available + tokens
<1> DEFINE total == available + tokens
           n == Served(total)
           served == {queue[i] : i \in 1..n}
<1>1. /\ queue \in Seq(Callers)
      /\ Len(queue) \in Nat
      /\ call \in [Callers -> {"idle", "waiting", "granted", "aborted", "refused"}]
      /\ available \in Nat
      /\ issued \in Nat
      /\ total \in Nat
    <2>1. Capacity * lives \in Nat
        BY OneMoreCapacity DEF Inv, TypeOK
    <2> QED
        BY <2>1 DEF Inv, TypeOK
<1>2. /\ n \in 0..Len(queue)
      /\ Owed[n] \in Nat
      /\ Owed[n] <= total
      /\ \A i \in 0..Len(queue) : i > n => Owed[i] > total
    <2> HIDE DEF total
    <2>1. n \in 0..Len(queue)
        BY <1>1, ServedProperties
    <2> QED
        BY <1>1, <2>1, ServedProperties, OwedIsANumber
<1>3. /\ issued' = issued + tokens
      /\ available' = total - Owed[n]
      /\ queue' = SubSeq(queue, n + 1, Len(queue))
      /\ call' = [c \in Callers |->
                    IF c \in served /\ call[c] = "waiting" THEN "granted" ELSE call[c]]
    BY DEF Release
<1> HIDE DEF n, total
<1>4. available' \in Nat /\ available' <= total /\ issued' \in Nat
    BY <1>1, <1>2, <1>3
<1>5. /\ queue' \in Seq(Callers)
      /\ Len(queue') = Len(queue) - n
      /\ \A i \in 1..Len(queue') : queue'[i] = queue[n + i] /\ n + i \in 1..Len(queue)
    BY <1>1, <1>2, <1>3, SubSeqProperties
<1>6. call' \in [Callers -> {"idle", "waiting", "granted", "aborted", "refused"}]
    BY <1>1, <1>3
<1>7. LineIsDistinct'
    <2>1. ASSUME NEW i \in 1..Len(queue'), NEW j \in 1..Len(queue'),
                 queue'[i] = queue'[j]
          PROVE  i = j
        <3>1. n + i = n + j
            BY <1>5, <2>1 DEF Inv, LineIsDistinct
        <3> QED
            BY <1>2, <3>1
    <2> QED
        BY <2>1 DEF LineIsDistinct
<1>8. ASSUME NEW i \in 1..Len(queue') PROVE call'[queue'[i]] = call[queue'[i]]
    <2>1. queue'[i] \in Callers
        BY <1>1, <1>5
    <2>2. queue'[i] \notin served
        <3>1. SUFFICES ASSUME NEW k \in 1..n, queue[k] = queue'[i]
                       PROVE  FALSE
            OBVIOUS
        <3>2. k \in 1..Len(queue) /\ n + i \in 1..Len(queue) /\ k # n + i
            BY <1>1, <1>2, <1>5
        <3> QED
            BY <1>5, <3>1, <3>2 DEF Inv, LineIsDistinct
    <2> QED
        BY <1>3, <2>1, <2>2
<1>9. LineWaitsOrGaveUp'
    BY <1>5, <1>8 DEF Inv, LineWaitsOrGaveUp
<1>10. WaitersAreInLine'
    <2>1. ASSUME NEW c \in Callers, call'[c] = "waiting"
          PROVE  \E i \in 1..Len(queue') : queue'[i] = c
        <3>1. call[c] = "waiting" /\ c \notin served
            BY <1>3, <2>1
        <3>2. PICK j \in 1..Len(queue) : queue[j] = c
            BY <3>1 DEF Inv, WaitersAreInLine
        <3>3. j > n
            BY <3>1, <3>2, <1>2
        <3>4. j - n \in 1..Len(queue') /\ n + (j - n) = j
            BY <1>1, <1>2, <1>5, <3>3
        <3> QED
            BY <1>5, <3>2, <3>4
    <2> QED
        BY <2>1 DEF WaitersAreInLine
<1>11. Granted' = GrantedWith(n)
    BY <1>1, <1>2, <1>3 DEF Granted, GrantedWith
<1>12. IsFiniteSet(Granted') /\ SumOf(Granted') = SumOf(Granted) + Owed[n]
    BY <1>2, <1>11, OwedIsWhatIsGranted
<1>13. TokensAreConserved'
    <2>1. SumOf(Granted) \in Nat
        BY SumIsANumber DEF Inv, Granted
    <2>2. issued = available + SumOf(Granted)
        BY Conserved DEF Inv
    <2>3. (issued = available + SumOf(Granted))'
        <3> DEFINE x == SumOf(Granted)
                   y == Owed[n]
                   z == SumOf(Granted')
        <3>1. issued' = issued + tokens /\ available' = total - y
            BY <1>3
        <3>2. z = x + y
            BY <1>12
        <3>3. x \in Nat /\ y \in Nat /\ issued = available + x
            BY <1>2, <2>1, <2>2
        <3> HIDE DEF x, y, z
        <3>4. issued' = available' + z
            BY <1>1, <3>1, <3>2, <3>3 DEF total
        <3> QED
            BY <3>4 DEF z
    <2> QED
        BY <2>3, Conserved, PTL
<1>14. ASSUME queue' # <<>>
      PROVE  /\ Head(queue') \in Callers
             /\ available' < Cost(Head(queue'))
             /\ Tokens[Head(queue')] \in Nat /\ Tokens[Head(queue')] <= Capacity
             /\ call'[Head(queue')] = "waiting" =>
                    Cost(Head(queue')) = Tokens[Head(queue')]
    <2> DEFINE c == queue[n + 1]
    <2>1. Head(queue') = c /\ 1 \in 1..Len(queue') /\ n + 1 \in 1..Len(queue)
        BY <1>1, <1>2, <1>5, <1>14
    <2>2. c \in Callers /\ Tokens[c] \in Nat /\ Cost(c) \in Nat
        BY <1>1, <2>1, TokensAssumption, CostIsANumber
    <2>3. Tokens[c] <= Capacity
        BY <2>1 DEF Inv, LineFits
    <2>4. call'[c] = "waiting" => Cost(c) = Tokens[c]
        BY <1>5, <1>8, <2>1 DEF Cost, Inv, LineWaitsOrGaveUp
    <2>5. Owed[n + 1] = Owed[n] + Cost(c) /\ Owed[n + 1] > total
        BY <1>1, <1>2, <2>1, OwedDefinition
    <2>6. available' < Cost(c)
        BY <1>1, <1>2, <1>3, <2>2, <2>5
    <2> QED
        BY <2>1, <2>2, <2>3, <2>4, <2>6
<1>15. FirstInLineMustWait'
    <2>1. SUFFICES ASSUME queue' # <<>>, call'[Head(queue')] = "waiting"
                   PROVE  ~(available' >= Tokens[Head(queue')])
        BY DEF FirstInLineMustWait, Enough
    <2> QED
        BY <1>4, <1>14, <2>1
<1>16. LineLeavesRoom'
    <2>1. ASSUME queue' # <<>> PROVE available' < Capacity
        <3>1. Cost(Head(queue')) <= Tokens[Head(queue')]
            BY <1>14, <2>1 DEF Cost
        <3>2. Capacity \in Int /\ Cost(Head(queue')) \in Int
            BY <1>14, <2>1, CapacityAssumption, CostIsANumber
        <3> QED
            BY <1>4, <1>14, <2>1, <3>1, <3>2
    <2> QED
        BY <2>1 DEF LineLeavesRoom
<1>17. LineFits'
    BY <1>5 DEF Inv, LineFits
<1>18. Len(queue') < Len(queue) \/ (queue' = queue /\ available' = total)
    <2>1. CASE n = 0
        <3>1. queue' = queue
            BY <1>1, <1>3, <2>1, SubSeqFull
        <3>2. available' = total
            BY <1>1, <1>2, <1>3, <2>1, OwedDefinition
        <3> QED
            BY <3>1, <3>2
    <2>2. CASE n # 0
        BY <1>1, <1>2, <1>5, <2>2
    <2> QED
        BY <2>1, <2>2
<1> QED
    BY <1>1, <1>4, <1>5, <1>6, <1>7, <1>9, <1>10, <1>12, <1>13, <1>15, <1>16, <1>17, <1>18
    DEF total

-----------------------------------------------------------------------------
(* Every step keeps the invariant.                                         *)

\* What a caller settles before it stands in line, or when it comes again, changes
\* nothing for the line.
LEMMA OutsideTheLine ==
    ASSUME Inv, NEW c \in Callers, call[c] \in {"idle", "granted", "refused"},
           NEW outcome \in {"idle", "granted", "aborted", "refused"},
           call' = [call EXCEPT ![c] = outcome],
           UNCHANGED <<queue, fired>>
    PROVE  /\ call' \in [Callers -> {"idle", "waiting", "granted", "aborted", "refused"}]
           /\ LineIsDistinct'
           /\ LineWaitsOrGaveUp'
           /\ WaitersAreInLine'
           /\ queue # <<>> => call'[Head(queue)] = call[Head(queue)]
<1>1. /\ queue \in Seq(Callers)
      /\ call \in [Callers -> {"idle", "waiting", "granted", "aborted", "refused"}]
    BY DEF Inv, TypeOK
<1>2. call' \in [Callers -> {"idle", "waiting", "granted", "aborted", "refused"}]
    BY <1>1
<1>3. ASSUME NEW i \in 1..Len(queue)
      PROVE  queue[i] \in Callers /\ call'[queue[i]] = call[queue[i]]
    BY <1>1 DEF Inv, LineWaitsOrGaveUp
<1>4. LineIsDistinct'
    BY DEF Inv, LineIsDistinct
<1>5. LineWaitsOrGaveUp'
    BY <1>3 DEF Inv, LineWaitsOrGaveUp
<1>6. WaitersAreInLine'
    <2>1. ASSUME NEW d \in Callers, call'[d] = "waiting" PROVE call[d] = "waiting"
        BY <1>1, <2>1
    <2> QED
        BY <2>1 DEF Inv, WaitersAreInLine
<1>7. ASSUME queue # <<>> PROVE call'[Head(queue)] = call[Head(queue)]
    <2>1. 1 \in 1..Len(queue) /\ Head(queue) = queue[1]
        BY <1>1, <1>7
    <2> QED
        BY <1>3, <2>1
<1> QED
    BY <1>2, <1>4, <1>5, <1>6, <1>7

\* A caller that takes what is there: the tokens it asked for leave the bucket with it.
LEMMA TakeSteps ==
    ASSUME Inv, NEW c \in Callers, call[c] = "idle", Enough(Tokens[c]), Take(c),
           UNCHANGED <<fired, mapped, ticking, lives, issued>>
    PROVE  Inv'
<1>1. /\ queue' = queue
      /\ call' = [call EXCEPT ![c] = "granted"]
      /\ available' = available - Tokens[c]
    BY DEF Take
<1>2. /\ call' \in [Callers -> {"idle", "waiting", "granted", "aborted", "refused"}]
      /\ LineIsDistinct'
      /\ LineWaitsOrGaveUp'
      /\ WaitersAreInLine'
      /\ queue # <<>> => call'[Head(queue)] = call[Head(queue)]
    BY <1>1, OutsideTheLine
<1>3. /\ Capacity * lives \in Nat
      /\ available \in Nat /\ available <= Capacity * lives
      /\ Tokens[c] \in Nat /\ Tokens[c] <= available
      /\ issued \in Nat
    BY OneMoreCapacity, TokensAssumption DEF Inv, TypeOK, Enough
<1>4. TypeOK'
    <2>1. available' \in 0..(Capacity * lives')
        BY <1>1, <1>3
    <2> QED
        BY <1>1, <1>2, <2>1 DEF Inv, TypeOK
<1>5. Granted' = Granted \cup {c} /\ c \notin Granted /\ Granted \in SUBSET Callers
    BY <1>1 DEF Inv, TypeOK, Granted
<1>6. IsFiniteSet(Granted') /\ SumOf(Granted') = SumOf(Granted) + Tokens[c]
    BY <1>5, SumWith DEF Inv
<1>7. TokensAreConserved'
    <2>1. issued = available + SumOf(Granted) /\ SumOf(Granted) \in Nat
        BY <1>5, Conserved, SumIsANumber DEF Inv
    <2>2. (issued = available + SumOf(Granted))'
        BY <1>1, <1>3, <1>6, <2>1
    <2> QED
        BY <2>2, Conserved, PTL
<1>8. FirstInLineMustWait'
    <2>1. ASSUME queue # <<>>, call[Head(queue)] = "waiting"
          PROVE  ~(available' >= Tokens[Head(queue)])
        <3>1. Head(queue) \in Callers
            BY <2>1 DEF Inv, TypeOK
        <3>2. ~(available >= Tokens[Head(queue)]) /\ Tokens[Head(queue)] \in Nat
            BY <2>1, <3>1, TokensAssumption DEF Inv, FirstInLineMustWait, Enough
        <3> QED
            BY <1>1, <1>3, <3>2
    <2> QED
        BY <1>1, <1>2, <2>1 DEF FirstInLineMustWait, Enough
<1>9. LineFits' /\ LineLeavesRoom'
    BY <1>1, <1>3, CapacityAssumption DEF Inv, LineFits, LineLeavesRoom
<1> QED
    BY <1>2, <1>4, <1>6, <1>7, <1>8, <1>9 DEF Inv, TickingWasMade

\* A caller that is told at once: without tokens, unless it asked for none.
LEMMA SettleSteps ==
    ASSUME Inv, NEW c \in Callers, call[c] = "idle",
           NEW outcome \in {"granted", "aborted", "refused"},
           outcome = "granted" => Tokens[c] = 0,
           Settle(c, outcome), UNCHANGED <<fired, mapped, ticking, lives, issued>>
    PROVE  Inv'
<1>1. UNCHANGED <<queue, available>> /\ call' = [call EXCEPT ![c] = outcome]
    BY DEF Settle
<1>2. /\ call' \in [Callers -> {"idle", "waiting", "granted", "aborted", "refused"}]
      /\ LineIsDistinct'
      /\ LineWaitsOrGaveUp'
      /\ WaitersAreInLine'
      /\ queue # <<>> => call'[Head(queue)] = call[Head(queue)]
    BY <1>1, OutsideTheLine
<1>3. TypeOK'
    BY <1>1, <1>2 DEF Inv, TypeOK
<1>4. SumOf(Granted) \in Nat /\ Granted \in SUBSET Callers
    BY SumIsANumber DEF Inv, Granted
<1>5. IsFiniteSet(Granted') /\ SumOf(Granted') = SumOf(Granted)
    <2>1. CASE outcome = "granted"
        <3>1. Granted' = Granted \cup {c} /\ c \notin Granted
            BY <1>1, <2>1 DEF Inv, TypeOK, Granted
        <3>2. IsFiniteSet(Granted') /\ SumOf(Granted') = SumOf(Granted) + Tokens[c]
            BY <1>4, <3>1, SumWith DEF Inv
        <3> QED
            BY <1>4, <2>1, <3>2
    <2>2. CASE outcome # "granted"
        <3>1. Granted' = Granted
            BY <1>1, <2>2 DEF Inv, TypeOK, Granted
        <3> QED
            BY <3>1 DEF Inv
    <2> QED
        BY <2>1, <2>2
<1>6. TokensAreConserved'
    <2>1. issued = available + SumOf(Granted)
        BY Conserved DEF Inv
    <2>2. (issued = available + SumOf(Granted))'
        BY <1>1, <1>5, <2>1
    <2> QED
        BY <2>2, Conserved, PTL
<1>7. FirstInLineMustWait'
    BY <1>1, <1>2 DEF Inv, FirstInLineMustWait, Enough
<1> QED
    BY <1>1, <1>2, <1>3, <1>5, <1>6, <1>7
    DEF Inv, LineFits, LineLeavesRoom, TickingWasMade

\* A caller that comes again takes what it was granted out of the account.
LEMMA ComeAgainSteps ==
    ASSUME Inv, NEW c \in Callers, ComeAgain(c)
    PROVE  Inv'
<1>1. /\ call[c] \in {"granted", "refused"}
      /\ call' = [call EXCEPT ![c] = "idle"]
      /\ issued' = IF call[c] = "granted" THEN issued - Tokens[c] ELSE issued
      /\ UNCHANGED <<available, queue, fired, mapped, ticking, lives>>
    BY DEF ComeAgain
<1>2. /\ call' \in [Callers -> {"idle", "waiting", "granted", "aborted", "refused"}]
      /\ LineIsDistinct'
      /\ LineWaitsOrGaveUp'
      /\ WaitersAreInLine'
      /\ queue # <<>> => call'[Head(queue)] = call[Head(queue)]
    BY <1>1, OutsideTheLine
<1>3. /\ available \in Nat /\ issued \in Nat /\ Tokens[c] \in Nat
      /\ Granted \in SUBSET Callers /\ IsFiniteSet(Granted)
      /\ issued = available + SumOf(Granted)
    BY OneMoreCapacity, TokensAssumption, Conserved DEF Inv, TypeOK, Granted
<1>4. /\ IsFiniteSet(Granted') /\ SumOf(Granted') \in Nat
      /\ issued' = available + SumOf(Granted')
    <2>1. CASE call[c] = "granted"
        <3>1. Granted' = Granted \ {c} /\ c \in Granted
            BY <1>1, <2>1 DEF Inv, TypeOK, Granted
        <3>2. SumOf(Granted) = Tokens[c] + SumOf(Granted')
            BY <1>3, <3>1, SumWithout
        <3>3. IsFiniteSet(Granted') /\ Granted' \in SUBSET Callers
            BY <1>3, <3>1, FS_RemoveElement
        <3>4. SumOf(Granted') \in Nat
            BY <3>3, SumIsANumber
        <3> QED
            BY <1>1, <1>3, <2>1, <3>2, <3>3, <3>4
    <2>2. CASE call[c] # "granted"
        <3>1. Granted' = Granted
            BY <1>1, <2>2 DEF Inv, TypeOK, Granted
        <3> QED
            BY <1>1, <1>3, <2>2, <3>1, SumIsANumber
    <2> QED
        BY <2>1, <2>2
<1>5. issued' \in Nat
    BY <1>3, <1>4
<1>6. TypeOK'
    BY <1>1, <1>2, <1>5 DEF Inv, TypeOK
<1>7. TokensAreConserved'
    <2>1. (issued = available + SumOf(Granted))'
        BY <1>1, <1>4
    <2> QED
        BY <2>1, Conserved, PTL
<1>8. FirstInLineMustWait'
    BY <1>1, <1>2 DEF Inv, FirstInLineMustWait, Enough
<1> QED
    BY <1>1, <1>2, <1>4, <1>6, <1>7, <1>8
    DEF Inv, LineFits, LineLeavesRoom, TickingWasMade

\* A caller for whom there is not enough goes to the end of the line.
LEMMA StandInLineSteps ==
    ASSUME Inv, NEW c \in Callers, call[c] = "idle",
           Signal[c] \notin fired, ~TooMany(c), ~Enough(Tokens[c]),
           queue' = Append(queue, c), call' = [call EXCEPT ![c] = "waiting"],
           UNCHANGED <<available, fired, mapped, ticking, lives, issued>>
    PROVE  Inv'
<1>1. /\ queue \in Seq(Callers)
      /\ Len(queue) \in Nat
      /\ call \in [Callers -> {"idle", "waiting", "granted", "aborted", "refused"}]
    BY DEF Inv, TypeOK
<1>2. /\ queue' \in Seq(Callers)
      /\ Len(queue') = Len(queue) + 1
      /\ \A i \in 1..Len(queue) : queue'[i] = queue[i]
      /\ queue'[Len(queue) + 1] = c
    BY <1>1, AppendProperties
<1>3. TypeOK'
    BY <1>1, <1>2 DEF Inv, TypeOK
<1>4. ASSUME NEW i \in 1..Len(queue)
      PROVE  queue[i] \in Callers /\ queue[i] # c /\ call'[queue[i]] = call[queue[i]]
    BY <1>1 DEF Inv, LineWaitsOrGaveUp
<1>5. \A i \in 1..Len(queue') : i \in 1..Len(queue) \/ i = Len(queue) + 1
    BY <1>1, <1>2
<1>6. LineIsDistinct'
    BY <1>2, <1>4, <1>5 DEF Inv, LineIsDistinct
<1>7. LineWaitsOrGaveUp'
    BY <1>1, <1>2, <1>4, <1>5 DEF Inv, LineWaitsOrGaveUp
<1>8. WaitersAreInLine'
    <2>1. ASSUME NEW d \in Callers, call'[d] = "waiting"
          PROVE  \E i \in 1..Len(queue') : queue'[i] = d
        <3>1. CASE d = c
            BY <1>1, <1>2, <3>1
        <3>2. CASE d # c
            <4>1. PICK i \in 1..Len(queue) : queue[i] = d
                BY <1>1, <2>1, <3>2 DEF Inv, WaitersAreInLine
            <4>2. i \in 1..Len(queue')
                BY <1>1, <1>2
            <4> QED
                BY <1>2, <4>1, <4>2
        <3> QED
            BY <3>1, <3>2
    <2> QED
        BY <2>1 DEF WaitersAreInLine
<1>9. Granted' = Granted
    BY <1>1 DEF Granted
<1>10. TokensAreConserved'
    <2>1. (issued = available + SumOf(Granted))'
        BY <1>9, Conserved DEF Inv
    <2> QED
        BY <2>1, Conserved, PTL
<1>11. FirstInLineMustWait'
    <2>1. CASE queue = <<>>
        <3>1. Head(queue') = c
            BY <1>1, <1>2, <2>1
        <3> QED
            BY <3>1 DEF FirstInLineMustWait, Enough
    <2>2. CASE queue # <<>>
        <3>1. Head(queue') = Head(queue) /\ 1 \in 1..Len(queue) /\ Head(queue) = queue[1]
            BY <1>1, <1>2, <2>2
        <3>2. call'[Head(queue)] = call[Head(queue)]
            BY <1>4, <3>1
        <3> QED
            BY <2>2, <3>1, <3>2 DEF Inv, FirstInLineMustWait, Enough
    <2> QED
        BY <2>1, <2>2
<1>12. Tokens[c] \in Nat /\ Tokens[c] <= Capacity /\ available \in Nat /\ Capacity \in Nat
    <2>1. available \in Nat
        BY OneMoreCapacity DEF Inv, TypeOK
    <2> QED
        BY <2>1, TokensAssumption, CapacityAssumption DEF TooMany
<1>13. LineFits'
    BY <1>2, <1>5, <1>12 DEF Inv, LineFits
<1>14. LineLeavesRoom'
    BY <1>12 DEF LineLeavesRoom, Enough
<1> QED
    BY <1>3, <1>6, <1>7, <1>8, <1>9, <1>10, <1>11, <1>13, <1>14 DEF Inv, TickingWasMade

\* An abort turns the waiting callers of one signal into those that gave up, in place.
LEMMA AbortSteps ==
    ASSUME Inv, NEW s \in Signals, Abort(s)
    PROVE  Inv'
<1>1. /\ queue \in Seq(Callers)
      /\ call \in [Callers -> {"idle", "waiting", "granted", "aborted", "refused"}]
    BY DEF Inv, TypeOK
<1>2. /\ fired' = fired \cup {s}
      /\ call' = [c \in Callers |->
                    IF call[c] = "waiting" /\ Signal[c] = s THEN "aborted" ELSE call[c]]
      /\ UNCHANGED <<available, queue, mapped, ticking, lives, issued>>
    BY DEF Abort
<1>3. TypeOK'
    BY <1>1, <1>2 DEF Inv, TypeOK
<1>4. LineIsDistinct'
    BY <1>2 DEF Inv, LineIsDistinct
<1>5. LineWaitsOrGaveUp'
    <2>1. ASSUME NEW i \in 1..Len(queue)
          PROVE  \/ call'[queue[i]] = "waiting" /\ Signal[queue[i]] \notin fired'
                 \/ call'[queue[i]] = "aborted" /\ Signal[queue[i]] \in fired'
        <3>1. queue[i] \in Callers
            BY <1>1
        <3> QED
            BY <1>2, <3>1 DEF Inv, LineWaitsOrGaveUp
    <2> QED
        BY <1>2, <2>1 DEF LineWaitsOrGaveUp
<1>6. WaitersAreInLine'
    BY <1>2 DEF Inv, WaitersAreInLine
<1>7. Granted' = Granted
    BY <1>2 DEF Granted
<1>8. TokensAreConserved'
    <2>1. (issued = available + SumOf(Granted))'
        BY <1>2, <1>7, Conserved DEF Inv
    <2> QED
        BY <2>1, Conserved, PTL
<1>9. FirstInLineMustWait'
    <2>1. ASSUME queue # <<>>, call'[Head(queue)] = "waiting"
          PROVE  call[Head(queue)] = "waiting"
        <3>1. Head(queue) \in Callers
            BY <1>1, <2>1
        <3> QED
            BY <1>2, <2>1, <3>1
    <2> QED
        BY <1>2, <2>1 DEF Inv, FirstInLineMustWait, Enough
<1> QED
    BY <1>2, <1>3, <1>4, <1>5, <1>6, <1>7, <1>8, <1>9
    DEF Inv, LineFits, LineLeavesRoom, TickingWasMade

\* A bucket that is made fills the semaphore with one capacity more.
LEMMA CreateSteps ==
    ASSUME Inv, Create
    PROVE  Inv'
<1>1. /\ mapped' = TRUE /\ ticking' = ticking \cup {lives + 1}
      /\ lives < MaxLives
      /\ lives' = lives + 1
      /\ Release(Capacity)
      /\ fired' = fired
    BY DEF Create
<1>2. lives \in Nat /\ Capacity \in Nat /\ lives' \in 0..MaxLives
    BY <1>1, CapacityAssumption, MaxLivesAssumption DEF Inv, TypeOK
<1>3. /\ available' \in 0..(available + Capacity)
      /\ queue' \in Seq(Callers)
      /\ call' \in [Callers -> {"idle", "waiting", "granted", "aborted", "refused"}]
      /\ issued' \in Nat
      /\ LineIsDistinct'
      /\ LineWaitsOrGaveUp'
      /\ WaitersAreInLine'
      /\ LineFits'
      /\ LineLeavesRoom'
      /\ IsFiniteSet(Granted)'
      /\ TokensAreConserved'
      /\ FirstInLineMustWait'
    BY <1>1, <1>2, ReleaseSteps
<1>4. available' \in 0..(Capacity * lives')
    <2>1. /\ Capacity * lives \in Nat
          /\ Capacity * (lives + 1) = Capacity * lives + Capacity
        BY <1>2, OneMoreCapacity
    <2>2. available \in 0..(Capacity * lives)
        BY DEF Inv, TypeOK
    <2>3. Capacity * lives' = Capacity * lives + Capacity
        BY <1>1, <2>1
    <2>4. available' \in Nat /\ available' <= Capacity * lives + Capacity
        BY <1>2, <1>3, <2>1, <2>2
    <2>5. Capacity * lives' \in Nat
        <3>1. lives' \in Nat
            BY <1>1, <1>2
        <3> QED
            BY <3>1, OneMoreCapacity
    <2>6. available' <= Capacity * lives'
        BY <2>3, <2>4
    <2> QED
        BY <2>4, <2>5, <2>6
<1>5. TypeOK'
    BY <1>1, <1>2, <1>3, <1>4 DEF Inv, TypeOK
<1>6. TickingWasMade'
    BY <1>1, <1>2 DEF TickingWasMade
<1> QED
    BY <1>3, <1>5, <1>6 DEF Inv

\* A tick fills up to the capacity at most, and a bucket that ticks was made.  It leaves
\* a shorter line, or the same with more to take.
LEMMA TickSteps ==
    ASSUME Inv, Tick
    PROVE  /\ Inv'
           /\ \/ Len(queue') < Len(queue)
              \/ queue' = queue /\ available' > available
<1>1. ticking # {} /\ Refill > 0 /\ Release(Refill) /\ UNCHANGED <<fired, mapped, ticking, lives>>
    BY DEF Tick
<1>2. /\ lives \in Nat /\ lives > 0
      /\ Capacity * lives \in Nat
      /\ Capacity <= Capacity * lives
      /\ Capacity \in Nat
      /\ available \in Nat
    <2>1. lives \in Nat /\ lives > 0
        BY <1>1, MaxLivesAssumption DEF Inv, TypeOK, TickingWasMade
    <2> QED
        BY <2>1, OneMoreCapacity, CapacityAssumption DEF Inv, TypeOK
<1>3. Refill \in Int /\ Refill <= Capacity - available
    <2>1. RefillAmount \in Int /\ Capacity - available \in Int
        BY <1>2, RefillAmountAssumption
    <2> QED
        BY <2>1, MinOfTwo DEF Refill
<1>4. Refill \in Nat /\ available + Refill <= Capacity * lives
    BY <1>1, <1>2, <1>3
<1>5. /\ available' \in 0..(available + Refill)
      /\ queue' \in Seq(Callers)
      /\ call' \in [Callers -> {"idle", "waiting", "granted", "aborted", "refused"}]
      /\ issued' \in Nat
      /\ LineIsDistinct'
      /\ LineWaitsOrGaveUp'
      /\ WaitersAreInLine'
      /\ LineFits'
      /\ LineLeavesRoom'
      /\ IsFiniteSet(Granted)'
      /\ TokensAreConserved'
      /\ FirstInLineMustWait'
      /\ \/ Len(queue') < Len(queue)
         \/ queue' = queue /\ available' = available + Refill
    BY <1>1, <1>4, ReleaseSteps
<1>6. available' \in 0..(Capacity * lives')
    BY <1>1, <1>2, <1>4, <1>5
<1>7. TypeOK'
    BY <1>1, <1>5, <1>6 DEF Inv, TypeOK
<1>8. queue' = queue /\ available' = available + Refill => available' > available
    BY <1>1, <1>2, <1>3
<1> QED
    BY <1>1, <1>5, <1>7, <1>8 DEF Inv, TickingWasMade

LEMMA NextInv == Inv /\ [Next]_vars => Inv'
<1> SUFFICES ASSUME Inv, [Next]_vars PROVE Inv'
    OBVIOUS
<1>1. ASSUME NEW c \in Callers, Acquire(c) PROVE Inv'
    <2>1. call[c] = "idle" /\ UNCHANGED <<fired, mapped, ticking, lives, issued>>
        BY <1>1 DEF Acquire
    <2>2. CASE Tokens[c] = 0 /\ Settle(c, "granted")
        BY <2>1, <2>2, SettleSteps
    <2>3. CASE Settle(c, "refused")
        BY <2>1, <2>3, SettleSteps
    <2>4. CASE Settle(c, "aborted")
        BY <2>1, <2>4, SettleSteps
    <2>5. CASE Enough(Tokens[c]) /\ Take(c)
        BY <2>1, <2>5, TakeSteps
    <2>6. CASE /\ ~TooMany(c) /\ Signal[c] \notin fired /\ ~Enough(Tokens[c])
               /\ queue' = Append(queue, c)
               /\ call' = [call EXCEPT ![c] = "waiting"]
               /\ UNCHANGED available
        BY <2>1, <2>6, StandInLineSteps
    <2> QED
        BY <1>1, <2>2, <2>3, <2>4, <2>5, <2>6 DEF Acquire
<1>2. ASSUME NEW c \in Callers, AcquireSync(c) PROVE Inv'
    <2>1. call[c] = "idle" /\ UNCHANGED <<fired, mapped, ticking, lives, issued>>
        BY <1>2 DEF AcquireSync
    <2>2. CASE Enough(Tokens[c]) /\ Take(c)
        BY <2>1, <2>2, TakeSteps
    <2>3. CASE Settle(c, "refused")
        BY <2>1, <2>3, SettleSteps
    <2> QED
        BY <1>2, <2>2, <2>3 DEF AcquireSync
<1>3. ASSUME NEW s \in Signals, Abort(s) PROVE Inv'
    BY <1>3, AbortSteps
<1>7. ASSUME NEW c \in Callers, ComeAgain(c) PROVE Inv'
    BY <1>7, ComeAgainSteps
<1>4. CASE Create
    BY <1>4, CreateSteps
<1>5. CASE Tick
    BY <1>5, TickSteps
<1>6. CASE (\E i \in 1..MaxLives : Dispose(i)) \/ UNCHANGED vars
    <2>1. UNCHANGED <<available, queue, call, fired, lives, issued>>
        BY <1>6 DEF Dispose, vars
    <2>2. mapped' \in BOOLEAN /\ ticking' \subseteq ticking
        <3>1. CASE \E i \in 1..MaxLives : Dispose(i)
            BY <3>1 DEF Dispose
        <3>2. CASE UNCHANGED vars
            BY <3>2 DEF vars, Inv, TypeOK
        <3> QED
            BY <1>6, <3>1, <3>2
    <2>3. TypeOK'
        BY <2>1, <2>2 DEF Inv, TypeOK
    <2>4. Granted' = Granted
        BY <2>1 DEF Granted
    <2>5. TokensAreConserved'
        <3>1. (issued = available + SumOf(Granted))'
            BY <2>1, <2>4, Conserved DEF Inv
        <3> QED
            BY <3>1, Conserved, PTL
    <2>6. /\ LineIsDistinct' /\ LineWaitsOrGaveUp' /\ WaitersAreInLine'
          /\ LineFits' /\ LineLeavesRoom'
        BY <2>1 DEF Inv, LineIsDistinct, LineWaitsOrGaveUp, WaitersAreInLine, LineFits,
                    LineLeavesRoom
    <2>7. FirstInLineMustWait' /\ TickingWasMade'
        BY <2>1, <2>2 DEF Inv, FirstInLineMustWait, Enough, TickingWasMade
    <2> QED
        BY <2>3, <2>4, <2>5, <2>6, <2>7 DEF Inv
<1> QED
    BY <1>1, <1>2, <1>3, <1>4, <1>5, <1>6, <1>7 DEF Next

\* What the semaphore and the bucket keep, with what it rests on: who is in line, that
\* nobody is in it twice, and that what the line owes is what it will be granted.
THEOREM InductiveInvariant == Spec => []Inv
    BY InitInv, NextInv, PTL DEF Spec

\* Every variable has its type in every reachable state: release never takes more than
\* there is, and the tokens stay below one capacity for every time the bucket was made.
THEOREM TypeCorrect == Spec => []TypeOK
<1>1. Inv => TypeOK
    BY DEF Inv
<1> QED
    BY <1>1, InductiveInvariant, PTL

\* No token is lost or made up, whoever gives up while it is in line and whichever calls
\* of acquire and acquireSync overtake it.
THEOREM NoTokenIsLost == Spec => []TokensAreConserved
<1>1. Inv => TokensAreConserved
    BY DEF Inv
<1> QED
    BY <1>1, InductiveInvariant, PTL

\* The loop of release wakes whom it can: the head of the line cannot be paid, unless its
\* signal was aborted.  Of the callers behind an aborted head this says nothing: they may
\* find enough tokens and still wait for the release that passes the head.
THEOREM FirstInLineLacksTokens == Spec => []FirstInLineMustWait
<1>1. Inv => FirstInLineMustWait
    BY DEF Inv
<1> QED
    BY <1>1, InductiveInvariant, PTL

-----------------------------------------------------------------------------
(* Why the line moves: what the argument for WaitersAreServed needs of     *)
(* single states and steps.                                                *)

\* While somebody is in line a tick has something to refill.
RefillGoesOn == queue # <<>> => Refill > 0

\* A tick makes the line shorter, or it leaves more to take for the same line.
TicksServeTheLine ==
    [][Tick => \/ Len(queue') < Len(queue)
               \/ queue' = queue /\ available' > available]_vars

\* The interval stops refilling only when nobody needs it (tokenBucket.ts): whoever is in
\* line asked for no more than the capacity and did not find it, and neither a caller
\* that overtakes the line nor one that gives up in it fills the semaphore.
THEOREM TheRefillGoesOn == Spec => []RefillGoesOn
<1>1. Inv => RefillGoesOn
    <2>1. SUFFICES ASSUME Inv, queue # <<>> PROVE Refill > 0
        BY DEF RefillGoesOn
    <2>2. /\ RefillAmount \in Int /\ RefillAmount > 0
          /\ Capacity - available \in Int /\ Capacity - available > 0
        <3>1. lives \in Nat
            BY <2>1 DEF Inv, TypeOK
        <3>2. available \in Nat
            BY <2>1, <3>1, OneMoreCapacity DEF Inv, TypeOK
        <3> QED
            BY <2>1, <3>2, CapacityAssumption, RefillAmountAssumption
            DEF Inv, LineLeavesRoom
    <2>3. Min({RefillAmount, Capacity - available}) \in {RefillAmount, Capacity - available}
        BY <2>2, MinOfTwo
    <2> QED
        BY <2>2, <2>3 DEF Refill
<1> QED
    BY <1>1, InductiveInvariant, PTL

\* No tick is wasted on a line: either somebody leaves it, served or having given up, or
\* the tokens the first in line waits for are more than before.
THEOREM EveryTickServes == Spec => TicksServeTheLine
<1>1. Inv /\ [Next]_vars =>
        [Tick => \/ Len(queue') < Len(queue)
                 \/ queue' = queue /\ available' > available]_vars
    BY TickSteps
<1> QED
    BY <1>1, InductiveInvariant, PTL DEF Spec, TicksServeTheLine
===============================================================================
