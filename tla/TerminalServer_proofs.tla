----------------------- MODULE TerminalServer_proofs -----------------------
(***************************************************************************)
(* Proofs about TerminalServer for every set of requests and services and  *)
(* every choice of options.                                                *)
(***************************************************************************)
EXTENDS TerminalServer, FiniteSetTheorems, SequenceTheorems, TLAPS

-----------------------------------------------------------------------------
(* Lemmas on sequences and on the operators of the model.                  *)

\* The walk of removeService skips to every second request.
LEMMA SkippedProperties ==
    ASSUME NEW q \in Seq(Requests)
    PROVE  /\ Skipped(q) \in Seq(Requests)
           /\ Len(Skipped(q)) = Len(q) \div 2
           /\ \A i \in 1..Len(Skipped(q)) : 2 * i \in 1..Len(q) /\ Skipped(q)[i] = q[2 * i]
<1> DEFINE n == Len(q) \div 2
<1>1. n \in Nat /\ 2 * n <= Len(q)
    OBVIOUS
<1>2. \A i \in 1..n : 2 * i \in 1..Len(q)
    BY <1>1
<1>3. Skipped(q) = [i \in 1..n |-> q[2 * i]]
    BY DEF Skipped
<1>4. \A i \in 1..n : q[2 * i] \in Requests
    BY <1>2, ElementOfSeq
<1>5. Skipped(q) \in Seq(Requests)
    BY <1>1, <1>3, <1>4, IsASeq
<1>6. Len(Skipped(q)) = n
    BY <1>1, <1>3, <1>5, LenProperties
<1> QED
    BY <1>2, <1>3, <1>5, <1>6

\* splice(i, 1) removes one element and keeps the others.
LEMMA RemoveAtProperties ==
    ASSUME NEW q \in Seq(Requests), NEW i \in 1..Len(q)
    PROVE  /\ RemoveAt(q, i) \in Seq(Requests)
           /\ Len(RemoveAt(q, i)) = Len(q) - 1
           /\ \A j \in 1..(Len(q) - 1) :
                RemoveAt(q, i)[j] = IF j < i THEN q[j] ELSE q[j + 1]
<1> DEFINE front == SubSeq(q, 1, i - 1)
           back == SubSeq(q, i + 1, Len(q))
<1>1. Len(q) \in Nat /\ \A j \in 1..Len(q) : q[j] \in Requests
    BY ElementOfSeq
<1>2. /\ front \in Seq(Requests)
      /\ Len(front) = i - 1
      /\ \A j \in 1..(i - 1) : front[j] = q[j]
    BY <1>1, SubSeqProperties
<1>3. /\ back \in Seq(Requests)
      /\ Len(back) = Len(q) - i
      /\ \A j \in 1..(Len(q) - i) : back[j] = q[j + i]
    <2>1. \A j \in (i + 1)..Len(q) : q[j] \in Requests
        BY <1>1
    <2>2. /\ back \in Seq(Requests)
          /\ Len(back) = IF i + 1 <= Len(q) THEN Len(q) - (i + 1) + 1 ELSE 0
          /\ \A j \in 1..(Len(q) - (i + 1) + 1) : back[j] = q[(i + 1) + j - 1]
        BY <1>1, <2>1, SubSeqProperties, i + 1 \in Int, Len(q) \in Int
    <2> QED
        BY <1>1, <2>2
<1>4. RemoveAt(q, i) = front \o back
    BY DEF RemoveAt
<1> HIDE DEF front, back
<1>5. /\ front \o back \in Seq(Requests)
      /\ Len(front \o back) = Len(front) + Len(back)
      /\ \A j \in 1..(Len(front) + Len(back)) :
            (front \o back)[j] = IF j <= Len(front) THEN front[j] ELSE back[j - Len(front)]
    BY <1>2, <1>3, ConcatProperties
<1>6. ASSUME NEW j \in 1..(Len(q) - 1)
      PROVE  RemoveAt(q, i)[j] = IF j < i THEN q[j] ELSE q[j + 1]
    <2>1. CASE j < i
        <3>1. j <= Len(front) /\ j \in 1..(i - 1) /\ j \in 1..(Len(front) + Len(back))
            BY <1>1, <1>2, <1>3, <2>1
        <3> QED
            BY <1>2, <1>4, <1>5, <2>1, <3>1
    <2>2. CASE ~(j < i)
        <3>1. /\ ~(j <= Len(front))
              /\ j - Len(front) \in 1..(Len(q) - i)
              /\ (j - Len(front)) + i = j + 1
              /\ j \in 1..(Len(front) + Len(back))
            BY <1>1, <1>2, <1>3, <2>2
        <3>2. back[j - Len(front)] = q[j + 1]
            BY <1>3, <3>1
        <3> QED
            BY <1>4, <1>5, <2>2, <3>1, <3>2
    <2> QED
        BY <2>1, <2>2
<1>7. Len(RemoveAt(q, i)) = Len(q) - 1
    BY <1>1, <1>2, <1>3, <1>4, <1>5
<1> QED
    BY <1>4, <1>5, <1>6, <1>7

\* shift() and push() on a queue without duplicates.
LEMMA TailOfInjective ==
    ASSUME NEW q \in Seq(Requests), q # <<>>, IsInjective(q)
    PROVE  /\ Head(q) \in ToSet(q)
           /\ ToSet(Tail(q)) = ToSet(q) \ {Head(q)}
           /\ IsInjective(Tail(q))
<1>1. /\ Len(q) \in Nat /\ Len(q) > 0 /\ DOMAIN q = 1..Len(q)
      /\ Head(q) = q[1]
    OBVIOUS
<1>2. /\ DOMAIN Tail(q) = 1..(Len(q) - 1)
      /\ \A i \in 1..(Len(q) - 1) : Tail(q)[i] = q[i + 1]
    BY <1>1, HeadTailProperties
<1>3. Head(q) \in ToSet(q)
    BY <1>1 DEF ToSet
<1>4. ToSet(Tail(q)) = ToSet(q) \ {Head(q)}
    <2>1. ASSUME NEW x \in ToSet(Tail(q)) PROVE x \in ToSet(q) \ {Head(q)}
        <3>1. PICK i \in 1..(Len(q) - 1) : x = q[i + 1]
            BY <1>2, <2>1 DEF ToSet
        <3>2. i + 1 \in DOMAIN q /\ 1 \in DOMAIN q /\ i + 1 # 1
            BY <1>1
        <3> QED
            BY <1>1, <3>1, <3>2 DEF ToSet, IsInjective
    <2>2. ASSUME NEW x \in ToSet(q), x # Head(q) PROVE x \in ToSet(Tail(q))
        <3>1. PICK i \in 1..Len(q) : x = q[i]
            BY <1>1, <2>2 DEF ToSet
        <3>2. i - 1 \in 1..(Len(q) - 1) /\ (i - 1) + 1 = i
            BY <1>1, <2>2, <3>1
        <3>3. x = Tail(q)[i - 1]
            BY <1>2, <3>1, <3>2
        <3> QED
            BY <1>2, <3>2, <3>3 DEF ToSet
    <2> QED
        BY <2>1, <2>2
<1>5. IsInjective(Tail(q))
    <2> SUFFICES ASSUME NEW i \in 1..(Len(q) - 1), NEW j \in 1..(Len(q) - 1),
                        Tail(q)[i] = Tail(q)[j]
                 PROVE  i = j
        BY <1>2 DEF IsInjective
    <2>1. i + 1 \in DOMAIN q /\ j + 1 \in DOMAIN q /\ q[i + 1] = q[j + 1]
        BY <1>1, <1>2
    <2>2. i + 1 = j + 1
        BY <2>1 DEF IsInjective
    <2> QED
        BY <2>2
<1> QED
    BY <1>3, <1>4, <1>5

LEMMA AppendToInjective ==
    ASSUME NEW q \in Seq(Requests), NEW r \in Requests, IsInjective(q), r \notin ToSet(q)
    PROVE  /\ ToSet(Append(q, r)) = ToSet(q) \cup {r}
           /\ IsInjective(Append(q, r))
<1>1. /\ Len(q) \in Nat /\ DOMAIN q = 1..Len(q)
      /\ DOMAIN Append(q, r) = 1..(Len(q) + 1)
      /\ \A i \in 1..Len(q) : Append(q, r)[i] = q[i]
      /\ Append(q, r)[Len(q) + 1] = r
    BY AppendProperties
<1>2. \A i \in 1..(Len(q) + 1) : i \in 1..Len(q) \/ i = Len(q) + 1
    BY <1>1
<1>3. ToSet(Append(q, r)) = ToSet(q) \cup {r}
    BY <1>1, <1>2 DEF ToSet
<1>4. \A i \in 1..Len(q) : q[i] # r
    BY <1>1 DEF ToSet
<1>5. IsInjective(Append(q, r))
    BY <1>1, <1>2, <1>4 DEF IsInjective
<1> QED
    BY <1>3, <1>5

LEMMA RemoveAtOfInjective ==
    ASSUME NEW q \in Seq(Requests), NEW k \in 1..Len(q), IsInjective(q)
    PROVE  /\ ToSet(RemoveAt(q, k)) = ToSet(q) \ {q[k]}
           /\ IsInjective(RemoveAt(q, k))
<1> DEFINE n == Len(q) - 1
           p == RemoveAt(q, k)
<1>1. /\ Len(q) \in Nat /\ DOMAIN q = 1..Len(q)
      /\ n \in Nat /\ DOMAIN p = 1..n
      /\ \A j \in 1..n : p[j] = IF j < k THEN q[j] ELSE q[j + 1]
    BY RemoveAtProperties
<1> DEFINE from(j) == IF j < k THEN j ELSE j + 1
<1>2. \A j \in 1..n : from(j) \in 1..Len(q) /\ from(j) # k /\ p[j] = q[from(j)]
    BY <1>1
<1>3. \A i \in 1..Len(q) : i # k => \E j \in 1..n : from(j) = i
    <2> TAKE i \in 1..Len(q)
    <2>1. CASE i < k
        <3>1. i \in 1..n /\ from(i) = i
            BY <1>1, <2>1
        <3> QED
            BY <3>1
    <2>2. CASE i > k
        <3>1. i - 1 \in 1..n /\ from(i - 1) = i
            BY <1>1, <2>2
        <3> QED
            BY <3>1
    <2> QED
        BY <2>1, <2>2
<1>4. \A i, j \in 1..n : from(i) = from(j) => i = j
    BY <1>1
<1> HIDE DEF from, p, n
<1>5. ToSet(p) = ToSet(q) \ {q[k]}
    <2>1. ASSUME NEW x \in ToSet(p) PROVE x \in ToSet(q) \ {q[k]}
        <3>1. PICK j \in 1..n : x = p[j]
            BY <1>1, <2>1 DEF ToSet
        <3> QED
            BY <1>1, <1>2, <3>1 DEF ToSet, IsInjective
    <2>2. ASSUME NEW x \in ToSet(q), x # q[k] PROVE x \in ToSet(p)
        <3>1. PICK i \in 1..Len(q) : x = q[i] /\ i # k
            BY <1>1, <2>2 DEF ToSet
        <3>2. PICK j \in 1..n : from(j) = i
            BY <1>3, <3>1
        <3> QED
            BY <1>1, <1>2, <3>1, <3>2 DEF ToSet
    <2> QED
        BY <2>1, <2>2
<1>6. IsInjective(p)
    BY <1>1, <1>2, <1>4 DEF IsInjective
<1> QED
    BY <1>5, <1>6 DEF p

LEMMA SkippedOfInjective ==
    ASSUME NEW q \in Seq(Requests), IsInjective(q)
    PROVE  /\ ToSet(Skipped(q)) \subseteq ToSet(q)
           /\ IsInjective(Skipped(q))
<1>1. /\ DOMAIN q = 1..Len(q)
      /\ DOMAIN Skipped(q) = 1..Len(Skipped(q))
      /\ \A i \in 1..Len(Skipped(q)) : 2 * i \in 1..Len(q) /\ Skipped(q)[i] = q[2 * i]
    BY SkippedProperties
<1>2. ToSet(Skipped(q)) \subseteq ToSet(q)
    BY <1>1 DEF ToSet
<1>3. ASSUME NEW i \in 1..Len(Skipped(q)), NEW j \in 1..Len(Skipped(q)),
             Skipped(q)[i] = Skipped(q)[j]
      PROVE  i = j
    <2>1. 2 * i = 2 * j
        BY <1>1, <1>3 DEF IsInjective
    <2> QED
        BY <2>1
<1> QED
    BY <1>1, <1>2, <1>3 DEF IsInjective

LEMMA SuffixOfInjective ==
    ASSUME NEW q \in Seq(Requests), IsInjective(q), NEW n \in 0..Len(q)
    PROVE  LET suffix == SubSeq(q, n + 1, Len(q))
           IN  /\ suffix \in Seq(Requests)
               /\ Len(suffix) = Len(q) - n
               /\ ToSet(suffix) = ToSet(q) \ {q[i] : i \in 1..n}
               /\ IsInjective(suffix)
<1> DEFINE suffix == SubSeq(q, n + 1, Len(q))
           m == Len(q) - n
<1>1. /\ Len(q) \in Nat /\ n \in Nat /\ m \in Nat /\ DOMAIN q = 1..Len(q)
      /\ \A i \in 1..Len(q) : q[i] \in Requests
    BY ElementOfSeq
<1>2. /\ suffix \in Seq(Requests)
      /\ Len(suffix) = m
      /\ \A i \in 1..m : suffix[i] = q[i + n]
    <2>1. n + 1 \in Int /\ Len(q) \in Int /\ \A i \in (n + 1)..Len(q) : q[i] \in Requests
        BY <1>1
    <2>2. /\ suffix \in Seq(Requests)
          /\ Len(suffix) = IF n + 1 <= Len(q) THEN Len(q) - (n + 1) + 1 ELSE 0
          /\ \A i \in 1..(Len(q) - (n + 1) + 1) : suffix[i] = q[(n + 1) + i - 1]
        BY <2>1, SubSeqProperties
    <2>3. /\ Len(q) - (n + 1) + 1 = m
          /\ (~(n + 1 <= Len(q))) => m = 0
          /\ \A i \in 1..m : (n + 1) + i - 1 = i + n
        <3>1. \A k, l \in Nat : k <= l => /\ l - (k + 1) + 1 = l - k
                                          /\ (~(k + 1 <= l)) => l - k = 0
            OBVIOUS
        <3>2. Len(q) \in Nat /\ n \in Nat /\ n <= Len(q)
            OBVIOUS
        <3>3. Len(q) - (n + 1) + 1 = m /\ ((~(n + 1 <= Len(q))) => m = 0)
            BY <3>1, <3>2
        <3>4. \A i \in 1..m : (n + 1) + i - 1 = i + n
            BY <3>2
        <3> QED
            BY <3>3, <3>4
    <2> HIDE DEF suffix, m
    <2>4. Len(suffix) = m
        BY <2>2, <2>3
    <2> QED
        BY <2>2, <2>3, <2>4
<1>3. DOMAIN suffix = 1..m
    BY <1>2
<1> HIDE DEF suffix
<1>4. ASSUME NEW x \in ToSet(suffix) PROVE x \in ToSet(q) \ {q[i] : i \in 1..n}
    <2>1. PICK i \in 1..m : x = q[i + n]
        BY <1>2, <1>3, <1>4 DEF ToSet
    <2>2. i + n \in 1..Len(q) /\ \A j \in 1..n : j \in 1..Len(q) /\ j # i + n
        BY <1>1
    <2> QED
        BY <1>1, <2>1, <2>2 DEF ToSet, IsInjective
<1>5. ASSUME NEW x \in ToSet(q), x \notin {q[i] : i \in 1..n} PROVE x \in ToSet(suffix)
    <2>1. PICK j \in 1..Len(q) : x = q[j]
        BY <1>1, <1>5 DEF ToSet
    <2>2. j \notin 1..n
        BY <1>5, <2>1
    <2>3. j - n \in 1..m /\ (j - n) + n = j
        BY <1>1, <2>2
    <2> QED
        BY <1>2, <1>3, <2>1, <2>3 DEF ToSet
<1>6. ASSUME NEW i \in 1..m, NEW j \in 1..m, suffix[i] = suffix[j] PROVE i = j
    <2>1. i + n \in 1..Len(q) /\ j + n \in 1..Len(q) /\ q[i + n] = q[j + n]
        BY <1>1, <1>2, <1>6
    <2>2. i + n = j + n
        BY <1>1, <2>1 DEF IsInjective
    <2> QED
        BY <1>1, <2>2
<1>7. IsInjective(suffix)
    BY <1>3, <1>6 DEF IsInjective
<1> QED
    BY <1>2, <1>4, <1>5, <1>7 DEF suffix

\* An option is a natural number.
LEMMA OptionTypes ==
    ASSUME NEW s \in Services, NEW option \in OptionNames
    PROVE  Options[s][option] \in Nat
BY OptionsAssumption

\* Every use of _checkQueue leaves well-typed queues, sets, tokens and output.
LEMMA CheckQueueTypes ==
    ASSUME TypeOK,
           NEW s \in Services, NEW queue \in Seq(Requests),
           NEW running \in SUBSET Requests, NEW tokens \in Nat,
           NEW stages \in [Requests -> Stages],
           NEW written \in [Requests -> Seq(Kinds)],
           CheckQueue(s, queue, running, tokens, stages, written)
    PROVE  /\ pending' \in [Services -> Seq(Requests)]
           /\ processing' \in [Services -> SUBSET Requests]
           /\ egress' \in [Services -> Nat]
           /\ stage' \in [Requests -> Stages]
           /\ out' \in [Requests -> Seq(Kinds)]
<1> DEFINE ready == queue # <<>> /\ HasToken(s, "egress", tokens) /\ HasSlot(s, running)
<1>1. CASE ready
    <2>1. Head(queue) \in Requests /\ Tail(queue) \in Seq(Requests)
        BY <1>1, HeadTailProperties
    <2>2. Spend(s, "egress", tokens) \in Nat
        BY <1>1, OptionTypes DEF HasToken, Spend, OptionNames
    <2>3. "in_processing" \in Kinds /\ "processing" \in Stages
        BY DEF Kinds, Stages
    <2>4. Append(written[Head(queue)], "in_processing") \in Seq(Kinds)
        BY <2>1, <2>3, AppendProperties
    <2>5. /\ pending' = [pending EXCEPT ![s] = Tail(queue)]
          /\ processing' = [processing EXCEPT ![s] = running \cup {Head(queue)}]
          /\ egress' = [egress EXCEPT ![s] = Spend(s, "egress", tokens)]
          /\ stage' = [stages EXCEPT ![Head(queue)] = "processing"]
          /\ out' = [written EXCEPT ![Head(queue)] =
                        Append(written[Head(queue)], "in_processing")]
        BY <1>1 DEF CheckQueue
    <2>6. /\ pending' \in [Services -> Seq(Requests)]
          /\ processing' \in [Services -> SUBSET Requests]
          /\ egress' \in [Services -> Nat]
        BY <2>1, <2>2, <2>5 DEF TypeOK
    <2>7. stage' \in [Requests -> Stages] /\ out' \in [Requests -> Seq(Kinds)]
        BY <2>1, <2>3, <2>4, <2>5
    <2> QED
        BY <2>6, <2>7
<1>2. CASE ~ready
    <2>1. /\ pending' = [pending EXCEPT ![s] = queue]
          /\ processing' = [processing EXCEPT ![s] = running]
          /\ egress' = [egress EXCEPT ![s] = tokens]
          /\ stage' = stages /\ out' = written
        BY <1>2 DEF CheckQueue
    <2> QED
        BY <2>1 DEF TypeOK
<1> QED
    BY <1>1, <1>2

\* The limits of one service, on what a callback makes of its state.
Bounded(s, queue, running, tokens) ==
    /\ IsFiniteSet(running)
    /\ Options[s]["concurrent"] # 0 => Cardinality(running) <= Options[s]["concurrent"]
    /\ Options[s]["pending"] # 0 => Len(queue) <= Options[s]["pending"]
    /\ tokens <= Options[s]["egress"]

\* _checkQueue starts a request only into a free slot and with a token, and it
\* touches one service.
LEMMA CheckQueueBounds ==
    ASSUME TypeOK,
           NEW s \in Services, NEW queue \in Seq(Requests),
           NEW running \in SUBSET Requests, NEW tokens \in Nat,
           NEW stages, NEW written,
           Bounded(s, queue, running, tokens),
           CheckQueue(s, queue, running, tokens, stages, written)
    PROVE  /\ Bounded(s, pending'[s], processing'[s], egress'[s])
           /\ \A t \in Services \ {s} : /\ pending'[t] = pending[t]
                                        /\ processing'[t] = processing[t]
                                        /\ egress'[t] = egress[t]
<1> DEFINE ready == queue # <<>> /\ HasToken(s, "egress", tokens) /\ HasSlot(s, running)
<1>1. CASE ready
    <2>1. /\ pending' = [pending EXCEPT ![s] = Tail(queue)]
          /\ processing' = [processing EXCEPT ![s] = running \cup {Head(queue)}]
          /\ egress' = [egress EXCEPT ![s] = Spend(s, "egress", tokens)]
        BY <1>1 DEF CheckQueue
    <2>2. /\ pending'[s] = Tail(queue)
          /\ processing'[s] = running \cup {Head(queue)}
          /\ egress'[s] = Spend(s, "egress", tokens)
          /\ \A t \in Services \ {s} : /\ pending'[t] = pending[t]
                                       /\ processing'[t] = processing[t]
                                       /\ egress'[t] = egress[t]
        BY <2>1 DEF TypeOK
    <2>3. /\ IsFiniteSet(running \cup {Head(queue)})
          /\ Cardinality(running) \in Nat
          /\ Cardinality(running \cup {Head(queue)}) <= Cardinality(running) + 1
        <3>1. IsFiniteSet(running)
            BY DEF Bounded
        <3>2. Cardinality(running) \in Nat
            BY <3>1, FS_CardinalityType
        <3>3. /\ IsFiniteSet(running \cup {Head(queue)})
              /\ Cardinality(running \cup {Head(queue)}) =
                    IF Head(queue) \in running THEN Cardinality(running)
                    ELSE Cardinality(running) + 1
            BY <3>1, FS_AddElement
        <3> QED
            BY <3>2, <3>3
    <2>4. Options[s]["concurrent"] # 0 =>
            Cardinality(running \cup {Head(queue)}) <= Options[s]["concurrent"]
        <3>1. Cardinality(running \cup {Head(queue)}) \in Nat
            BY <2>3, FS_CardinalityType
        <3> QED
            BY <1>1, <2>3, <3>1, OptionTypes DEF HasSlot, OptionNames
    <2>5. Len(Tail(queue)) <= Len(queue) /\ Len(Tail(queue)) \in Nat /\ Len(queue) \in Nat
        BY <1>1, HeadTailProperties
    <2>6. Spend(s, "egress", tokens) <= tokens
        BY DEF Spend
    <2>7. Spend(s, "egress", tokens) <= Options[s]["egress"]
        BY <2>6, OptionTypes DEF Bounded, Spend, OptionNames
    <2>8. Options[s]["pending"] # 0 => Len(Tail(queue)) <= Options[s]["pending"]
        BY <2>5, OptionTypes DEF Bounded, OptionNames
    <2> QED
        BY <2>2, <2>3, <2>4, <2>7, <2>8 DEF Bounded
<1>2. CASE ~ready
    BY <1>2 DEF CheckQueue, TypeOK
<1> QED
    BY <1>1, <1>2

\* InOnePlace on what a callback makes of the state, before _checkQueue.
Placed(stages, contexts, flags, queues, sets, traces) ==
    \A r \in Requests :
        /\ \A s \in Services :
            /\ r \in ToSet(queues[s]) <=>
                  stages[r] = "pending" /\ ~flags[r] /\ contexts[r] = s
            /\ r \in sets[s] <=> stages[r] = "processing" /\ contexts[r] = s
            /\ IsInjective(queues[s])
        /\ stages[r] = "new" => ~flags[r]
        /\ stages[r] \in {"pending", "processing"} => contexts[r] # NoService
        /\ r \in traces <=> stages[r] \in {"pending", "processing"}

\* Moving the head of a queue to the processing set keeps everybody in one place.
LEMMA CheckQueuePlaces ==
    ASSUME TypeOK,
           NEW s \in Services, NEW queue \in Seq(Requests),
           NEW running \in SUBSET Requests, NEW tokens,
           NEW stages \in [Requests -> Stages], NEW written,
           NEW contexts, NEW flags, NEW traces,
           CheckQueue(s, queue, running, tokens, stages, written),
           Placed(stages, contexts, flags, [pending EXCEPT ![s] = queue],
                  [processing EXCEPT ![s] = running], traces)
    PROVE  Placed(stage', contexts, flags, pending', processing', traces)
<1> DEFINE ready == queue # <<>> /\ HasToken(s, "egress", tokens) /\ HasSlot(s, running)
           queues == [pending EXCEPT ![s] = queue]
           sets == [processing EXCEPT ![s] = running]
<1>1. CASE ready
    <2> DEFINE h == Head(queue)
    <2>1. /\ pending' = [pending EXCEPT ![s] = Tail(queue)]
          /\ processing' = [processing EXCEPT ![s] = running \cup {h}]
          /\ stage' = [stages EXCEPT ![h] = "processing"]
        BY <1>1 DEF CheckQueue
    <2>2. h \in Requests
        BY <1>1, HeadTailProperties
    <2>3. /\ queues[s] = queue /\ sets[s] = running
          /\ \A t \in Services \ {s} : queues[t] = pending[t] /\ sets[t] = processing[t]
        BY DEF TypeOK
    <2>4. /\ pending'[s] = Tail(queue) /\ processing'[s] = running \cup {h}
          /\ \A t \in Services \ {s} : /\ pending'[t] = queues[t]
                                       /\ processing'[t] = sets[t]
        BY <2>1, <2>3 DEF TypeOK
    <2>5. stage'[h] = "processing" /\ \A r \in Requests \ {h} : stage'[r] = stages[r]
        BY <2>1, <2>2
    <2>6. IsInjective(queue)
        BY <2>2, <2>3 DEF Placed
    <2>7. /\ h \in ToSet(queue)
          /\ ToSet(Tail(queue)) = ToSet(queue) \ {h}
          /\ IsInjective(Tail(queue))
        BY <1>1, <2>6, TailOfInjective
    <2>8. stages[h] = "pending" /\ ~flags[h] /\ contexts[h] = s /\ h \in traces
        BY <2>2, <2>3, <2>7 DEF Placed
    <2> HIDE DEF h, queues, sets
    <2>9. ASSUME NEW r \in Requests, NEW t \in Services
          PROVE  /\ r \in ToSet(pending'[t]) <=>
                        stage'[r] = "pending" /\ ~flags[r] /\ contexts[r] = t
                 /\ r \in processing'[t] <=> stage'[r] = "processing" /\ contexts[r] = t
                 /\ IsInjective(pending'[t])
        <3>1. /\ r \in ToSet(queues[t]) <=>
                    stages[r] = "pending" /\ ~flags[r] /\ contexts[r] = t
              /\ r \in sets[t] <=> stages[r] = "processing" /\ contexts[r] = t
              /\ IsInjective(queues[t])
            BY DEF Placed, queues, sets
        <3>2. CASE r = h /\ t = s
            BY <2>3, <2>4, <2>5, <2>7, <2>8, <3>1, <3>2
        <3>3. CASE r # h /\ t = s
            BY <2>3, <2>4, <2>5, <2>7, <2>8, <3>1, <3>3
        <3>4. CASE r = h /\ t # s
            BY <2>3, <2>4, <2>5, <2>7, <2>8, <3>1, <3>4
        <3>5. CASE r # h /\ t # s
            BY <2>3, <2>4, <2>5, <2>7, <2>8, <3>1, <3>5
        <3> QED
            BY <3>2, <3>3, <3>4, <3>5
    <2>10. ASSUME NEW r \in Requests
           PROVE  /\ stage'[r] = "new" => ~flags[r]
                  /\ stage'[r] \in {"pending", "processing"} => contexts[r] # NoService
                  /\ r \in traces <=> stage'[r] \in {"pending", "processing"}
        BY <2>5, <2>8, NoServiceAssumption DEF Placed
    <2> QED
        BY <2>9, <2>10 DEF Placed
<1>2. CASE ~ready
    BY <1>2 DEF CheckQueue
<1> QED
    BY <1>1, <1>2

-----------------------------------------------------------------------------
(* The inductive invariant.                                                *)

AllBounded ==
    \A s \in Services :
        /\ Bounded(s, pending[s], processing[s], egress[s])
        /\ ingress[s] <= Options[s]["ingress"]

Inv == TypeOK /\ InOnePlace /\ AllBounded

\* InOnePlace is Placed of the current state.
LEMMA PlacedNow ==
    InOnePlace <=> Placed(stage, context, aborted, pending, processing, tracked)
BY DEF InOnePlace, Placed

\* Any callback that ends in _checkQueue keeps the invariant if what it hands to
\* _checkQueue is well typed, within limits and in one place.
LEMMA CheckQueuePreserves ==
    ASSUME Inv,
           NEW s \in Services, NEW queue \in Seq(Requests),
           NEW running \in SUBSET Requests, NEW tokens \in Nat,
           NEW stages \in [Requests -> Stages],
           NEW written \in [Requests -> Seq(Kinds)],
           CheckQueue(s, queue, running, tokens, stages, written),
           Bounded(s, queue, running, tokens),
           Placed(stages, context', aborted', [pending EXCEPT ![s] = queue],
                  [processing EXCEPT ![s] = running], tracked'),
           status' \in [Services -> {"absent", "provided", "removed"}],
           context' \in [Requests -> Services \cup {NoService}],
           aborted' \in [Requests -> BOOLEAN],
           tracked' \in SUBSET Requests,
           ingress' \in [Services -> Nat],
           \A t \in Services : ingress'[t] <= Options[t]["ingress"]
    PROVE  Inv'
<1>1. TypeOK'
    BY CheckQueueTypes DEF TypeOK, Inv
<1>2. InOnePlace'
    <2>1. Placed(stage', context', aborted', pending', processing', tracked')
        BY CheckQueuePlaces DEF Inv
    <2> QED
        BY <2>1 DEF InOnePlace, Placed
<1>3. AllBounded'
    <2>1. /\ Bounded(s, pending'[s], processing'[s], egress'[s])
          /\ \A t \in Services \ {s} : /\ pending'[t] = pending[t]
                                       /\ processing'[t] = processing[t]
                                       /\ egress'[t] = egress[t]
        BY CheckQueueBounds DEF Inv
    <2>2. \A t \in Services : Bounded(t, pending'[t], processing'[t], egress'[t])
        BY <2>1 DEF Inv, AllBounded
    <2> QED
        BY <2>2 DEF AllBounded, Bounded
<1> QED
    BY <1>1, <1>2, <1>3 DEF Inv

\* A callback that moves nobody and starts nobody keeps the invariant.
LEMMA QuietPreserves ==
    ASSUME Inv,
           UNCHANGED <<stage, context, aborted, pending, processing, egress, tracked>>,
           status' \in [Services -> {"absent", "provided", "removed"}],
           out' \in [Requests -> Seq(Kinds)],
           ingress' \in [Services -> Nat],
           \A t \in Services : ingress'[t] <= Options[t]["ingress"]
    PROVE  Inv'
<1>1. TypeOK'
    BY DEF Inv, TypeOK
<1>2. InOnePlace'
    BY DEF Inv, InOnePlace
<1>3. AllBounded'
    BY DEF Inv, AllBounded, Bounded
<1> QED
    BY <1>1, <1>2, <1>3 DEF Inv

\* What a callback writes is well typed.
LEMMA OutputTypes ==
    /\ Silence \in [Requests -> Seq(Kinds)]
    /\ \A r \in Requests, m \in Seq(Kinds) : Writes(r, m) \in [Requests -> Seq(Kinds)]
<1>1. <<>> \in Seq(Kinds)
    OBVIOUS
<1>2. Silence \in [Requests -> Seq(Kinds)]
    BY <1>1 DEF Silence
<1> QED
    BY <1>2 DEF Writes

-----------------------------------------------------------------------------
(* One lemma per callback.                                                 *)

\* A refused request was in no queue and is in none.
LEMMA RefusePreserves ==
    ASSUME Inv, NEW r \in Requests, NEW code \in Kinds,
           stage[r] = "new", Refuse(r, code),
           context' \in [Requests -> Services \cup {NoService}],
           \A q \in Requests \ {r} : context'[q] = context[q]
    PROVE  Inv'
<1> USE DEF Inv, Refuse
<1>1. <<code, "done">> \in Seq(Kinds)
    BY DEF Kinds
<1>2. out' \in [Requests -> Seq(Kinds)]
    BY <1>1, OutputTypes
<1>3. /\ stage' \in [Requests -> Stages]
      /\ stage'[r] = "finalizing"
      /\ \A q \in Requests \ {r} : stage'[q] = stage[q]
    BY DEF TypeOK, Stages
<1>4. TypeOK'
    BY <1>2, <1>3 DEF TypeOK
<1>5. InOnePlace'
    <2>1. ASSUME NEW q \in Requests, NEW s \in Services
          PROVE  /\ q \in ToSet(pending[s]) <=>
                       stage'[q] = "pending" /\ ~aborted[q] /\ context'[q] = s
                 /\ q \in processing[s] <=> stage'[q] = "processing" /\ context'[q] = s
                 /\ IsInjective(pending[s])
        BY <1>3 DEF InOnePlace
    <2>2. ASSUME NEW q \in Requests
          PROVE  /\ stage'[q] = "new" => ~aborted[q]
                 /\ stage'[q] \in {"pending", "processing"} => context'[q] # NoService
                 /\ q \in tracked <=> stage'[q] \in {"pending", "processing"}
        BY <1>3 DEF InOnePlace
    <2> QED
        BY <2>1, <2>2 DEF InOnePlace
<1>6. AllBounded'
    BY DEF AllBounded, Bounded
<1> QED
    BY <1>4, <1>5, <1>6

\* An admitted request joins the end of one queue.
LEMMA ReceivePreserves ==
    ASSUME Inv, NEW r \in Requests, Receive(r)
    PROVE  Inv'
<1> USE DEF Inv
<1>1. CASE ReceiveUnroutable(r)
    <2>1. "400" \in Kinds
        BY DEF Kinds, Responses
    <2> QED
        BY <1>1, <2>1, RefusePreserves DEF ReceiveUnroutable, TypeOK
<1>2. ASSUME NEW s \in Services, ReceiveOverCapacity(r, s) PROVE Inv'
    <2>1. "503" \in Kinds
        BY DEF Kinds, Responses
    <2>2. /\ context' \in [Requests -> Services \cup {NoService}]
          /\ \A q \in Requests \ {r} : context'[q] = context[q]
        BY <1>2 DEF ReceiveOverCapacity, TypeOK
    <2> QED
        BY <1>2, <2>1, <2>2, RefusePreserves DEF ReceiveOverCapacity
<1>3. ASSUME NEW s \in Services, ReceiveOverRate(r, s) PROVE Inv'
    <2>1. "429" \in Kinds
        BY DEF Kinds, Responses
    <2>2. /\ context' \in [Requests -> Services \cup {NoService}]
          /\ \A q \in Requests \ {r} : context'[q] = context[q]
        BY <1>3 DEF ReceiveOverRate, TypeOK
    <2> QED
        BY <1>3, <2>1, <2>2, RefusePreserves DEF ReceiveOverRate
<1>4. ASSUME NEW s \in Services, ReceiveAdmitted(r, s) PROVE Inv'
    <2> DEFINE queue == Append(pending[s], r)
               stages == [stage EXCEPT ![r] = "pending"]
    <2> USE DEF ReceiveAdmitted
    <2>1. /\ pending[s] \in Seq(Requests) /\ queue \in Seq(Requests)
          /\ Len(queue) = Len(pending[s]) + 1 /\ Len(pending[s]) \in Nat
        BY AppendProperties DEF TypeOK
    <2>2. stages \in [Requests -> Stages]
        BY DEF TypeOK, Stages
    <2>3. /\ stage[r] = "new" /\ aborted' = aborted /\ tracked' = tracked \cup {r}
          /\ context' = [context EXCEPT ![r] = s]
          /\ CheckQueue(s, queue, processing[s], egress[s], stages, Silence)
        BY <1>4
    <2>4. /\ r \notin ToSet(pending[s]) /\ IsInjective(pending[s])
        BY <2>3 DEF InOnePlace
    <2>5. ToSet(queue) = ToSet(pending[s]) \cup {r} /\ IsInjective(queue)
        BY <2>1, <2>4, AppendToInjective
    <2>6. Bounded(s, queue, processing[s], egress[s])
        <3>1. ~QueueFull(s) /\ Options[s]["pending"] \in Nat
            BY <1>4, OptionTypes DEF OptionNames
        <3>2. Options[s]["pending"] # 0 => Len(queue) <= Options[s]["pending"]
            BY <2>1, <3>1 DEF QueueFull
        <3> QED
            BY <3>2 DEF AllBounded, Bounded
    <2>7. Placed(stages, context', aborted', [pending EXCEPT ![s] = queue],
                 [processing EXCEPT ![s] = processing[s]], tracked')
        <3> DEFINE queues == [pending EXCEPT ![s] = queue]
                   sets == [processing EXCEPT ![s] = processing[s]]
        <3>1. /\ queues[s] = queue
              /\ \A t \in Services \ {s} : queues[t] = pending[t]
              /\ sets = processing
            BY DEF TypeOK
        <3>2. /\ stages[r] = "pending" /\ context'[r] = s /\ ~aborted'[r]
              /\ \A q \in Requests \ {r} : /\ stages[q] = stage[q]
                                          /\ context'[q] = context[q]
                                          /\ aborted'[q] = aborted[q]
            BY <2>3 DEF TypeOK, InOnePlace
        <3> HIDE DEF queues, sets, queue, stages
        <3>3. ASSUME NEW q \in Requests, NEW t \in Services
              PROVE  /\ q \in ToSet(queues[t]) <=>
                            stages[q] = "pending" /\ ~aborted'[q] /\ context'[q] = t
                     /\ q \in sets[t] <=> stages[q] = "processing" /\ context'[q] = t
                     /\ IsInjective(queues[t])
            <4>1. /\ q \in ToSet(pending[t]) <=>
                        stage[q] = "pending" /\ ~aborted[q] /\ context[q] = t
                  /\ q \in processing[t] <=> stage[q] = "processing" /\ context[q] = t
                  /\ IsInjective(pending[t])
                BY DEF InOnePlace
            <4>2. CASE q = r
                BY <2>3, <2>5, <3>1, <3>2, <4>1, <4>2
            <4>3. CASE q # r
                BY <2>5, <3>1, <3>2, <4>1, <4>3
            <4> QED
                BY <4>2, <4>3
        <3>4. ASSUME NEW q \in Requests
              PROVE  /\ stages[q] = "new" => ~aborted'[q]
                     /\ stages[q] \in {"pending", "processing"} => context'[q] # NoService
                     /\ q \in tracked' <=> stages[q] \in {"pending", "processing"}
            BY <2>3, <3>2, NoServiceAssumption DEF InOnePlace
        <3> QED
            BY <3>3, <3>4 DEF Placed, queues, sets
    <2>8. /\ ingress' \in [Services -> Nat]
          /\ \A t \in Services : ingress'[t] <= Options[t]["ingress"]
        <3>1. /\ ingress' = [ingress EXCEPT ![s] = Spend(s, "ingress", ingress[s])]
              /\ HasToken(s, "ingress", ingress[s])
            BY <1>4
        <3>2. Spend(s, "ingress", ingress[s]) \in Nat
              /\ Spend(s, "ingress", ingress[s]) <= ingress[s]
            BY <3>1, OptionTypes DEF HasToken, Spend, OptionNames, TypeOK
        <3>3. Options[s]["ingress"] \in Nat /\ ingress[s] \in Nat
              /\ ingress[s] <= Options[s]["ingress"]
            BY OptionTypes DEF OptionNames, TypeOK, AllBounded
        <3>4. ingress'[s] <= Options[s]["ingress"]
            BY <3>1, <3>2, <3>3 DEF TypeOK
        <3>5. \A t \in Services \ {s} : ingress'[t] = ingress[t]
            BY <3>1 DEF TypeOK
        <3> QED
            BY <3>1, <3>2, <3>4, <3>5 DEF TypeOK, AllBounded
    <2>9. /\ status' \in [Services -> {"absent", "provided", "removed"}]
          /\ context' \in [Requests -> Services \cup {NoService}]
          /\ aborted' \in [Requests -> BOOLEAN]
          /\ tracked' \in SUBSET Requests
          /\ processing[s] \in SUBSET Requests /\ egress[s] \in Nat
          /\ Silence \in [Requests -> Seq(Kinds)]
        <3>1. status' = status
            BY <1>4
        <3>2. context' \in [Requests -> Services \cup {NoService}]
            BY <2>3 DEF TypeOK
        <3> QED
            BY <2>3, <3>1, <3>2, OutputTypes DEF TypeOK
    <2> HIDE DEF queue, stages
    <2> QED
        BY <2>1, <2>2, <2>3, <2>6, <2>7, <2>8, <2>9, CheckQueuePreserves
<1> QED
    BY <1>1, <1>2, <1>3, <1>4 DEF Receive

\* Closing a processing request and offering its slot to the queue.
LEMMA ProcessedPreserves ==
    ASSUME Inv, NEW r \in Requests, NEW last \in Seq(Kinds),
           stage[r] = "processing", Processed(r, last),
           aborted' \in [Requests -> BOOLEAN],
           \A q \in Requests \ {r} : aborted'[q] = aborted[q]
    PROVE  Inv'
<1> DEFINE s == context[r]
           running == processing[s] \ {r}
           stages == [stage EXCEPT ![r] = "finalizing"]
           written == Writes(r, last \o <<"done">>)
<1> USE DEF Inv
<1>1. s \in Services /\ r \in processing[s]
    <2>1. s # NoService /\ s \in Services \cup {NoService}
        BY DEF InOnePlace, TypeOK
    <2> QED
        BY <2>1 DEF InOnePlace
<1>2. /\ pending[s] \in Seq(Requests) /\ running \in SUBSET Requests
      /\ egress[s] \in Nat
      /\ stages \in [Requests -> Stages]
    BY <1>1 DEF TypeOK, Stages
<1>3. written \in [Requests -> Seq(Kinds)]
    <2>1. <<"done">> \in Seq(Kinds)
        BY DEF Kinds
    <2>2. last \o <<"done">> \in Seq(Kinds)
        BY <2>1, ConcatProperties
    <2> QED
        BY <2>2, OutputTypes
<1>4. /\ CheckQueue(s, pending[s], running, egress[s], stages, written)
      /\ tracked' = tracked \ {r}
      /\ status' = status /\ context' = context /\ ingress' = ingress
    BY DEF Processed
<1>5. Bounded(s, pending[s], running, egress[s])
    <2>1. Bounded(s, pending[s], processing[s], egress[s])
        BY <1>1 DEF AllBounded
    <2>2. IsFiniteSet(processing[s]) /\ Cardinality(processing[s]) \in Nat
        BY <2>1, FS_CardinalityType DEF Bounded
    <2>3. IsFiniteSet(running) /\ Cardinality(running) = Cardinality(processing[s]) - 1
        BY <1>1, <2>2, FS_RemoveElement
    <2>4. Options[s]["concurrent"] \in Nat
        BY <1>1, OptionTypes DEF OptionNames
    <2> QED
        BY <2>1, <2>2, <2>3, <2>4 DEF Bounded
<1>6. Placed(stages, context', aborted', [pending EXCEPT ![s] = pending[s]],
             [processing EXCEPT ![s] = running], tracked')
    <2> DEFINE sets == [processing EXCEPT ![s] = running]
    <2>1. /\ [pending EXCEPT ![s] = pending[s]] = pending
          /\ sets[s] = running
          /\ \A t \in Services \ {s} : sets[t] = processing[t]
        BY <1>1 DEF TypeOK
    <2>2. /\ stages[r] = "finalizing"
          /\ \A q \in Requests \ {r} : stages[q] = stage[q]
        BY DEF TypeOK
    <2> HIDE DEF sets, stages
    <2>3. ASSUME NEW q \in Requests, NEW t \in Services
          PROVE  /\ q \in ToSet(pending[t]) <=>
                        stages[q] = "pending" /\ ~aborted'[q] /\ context[q] = t
                 /\ q \in sets[t] <=> stages[q] = "processing" /\ context[q] = t
                 /\ IsInjective(pending[t])
        <3>1. /\ q \in ToSet(pending[t]) <=>
                    stage[q] = "pending" /\ ~aborted[q] /\ context[q] = t
              /\ q \in processing[t] <=> stage[q] = "processing" /\ context[q] = t
              /\ IsInjective(pending[t])
            BY DEF InOnePlace
        <3>2. CASE q = r
            BY <1>1, <2>1, <2>2, <3>1, <3>2
        <3>3. CASE q # r
            BY <1>1, <2>1, <2>2, <3>1, <3>3
        <3> QED
            BY <3>2, <3>3
    <2>4. ASSUME NEW q \in Requests
          PROVE  /\ stages[q] = "new" => ~aborted'[q]
                 /\ stages[q] \in {"pending", "processing"} => context[q] # NoService
                 /\ q \in tracked' <=> stages[q] \in {"pending", "processing"}
        BY <1>4, <2>2 DEF InOnePlace
    <2> QED
        BY <1>4, <2>1, <2>3, <2>4 DEF Placed, sets
<1>7. /\ status' \in [Services -> {"absent", "provided", "removed"}]
      /\ context' \in [Requests -> Services \cup {NoService}]
      /\ tracked' \in SUBSET Requests
      /\ ingress' \in [Services -> Nat]
      /\ \A t \in Services : ingress'[t] <= Options[t]["ingress"]
    BY <1>4 DEF TypeOK, AllBounded
<1> HIDE DEF s, running, stages, written
<1> QED
    BY <1>1, <1>2, <1>3, <1>4, <1>5, <1>6, <1>7, CheckQueuePreserves

LEMMA HandlePreserves ==
    ASSUME Inv, NEW r \in Requests, Handle(r)
    PROVE  Inv'
<1>1. /\ <<>> \in Seq(Kinds) /\ <<"500">> \in Seq(Kinds) /\ <<"504">> \in Seq(Kinds)
      /\ <<"frame">> \in Seq(Kinds) /\ <<"res">> \in Seq(Kinds)
    BY DEF Kinds, Responses
<1>2. ASSUME NEW kind \in {"frame", "res"}, HandlerEmit(r, kind) PROVE Inv'
    <2>1. out' \in [Requests -> Seq(Kinds)]
        BY <1>1, <1>2, OutputTypes DEF HandlerEmit
    <2> QED
        BY <1>2, <2>1, QuietPreserves DEF HandlerEmit, Inv, TypeOK, AllBounded
<1>3. CASE HandlerComplete(r)
    BY <1>1, <1>3, ProcessedPreserves DEF HandlerComplete, Inv, TypeOK
<1>4. CASE HandlerError(r)
    BY <1>1, <1>4, ProcessedPreserves DEF HandlerError, Inv, TypeOK
<1>5. CASE HandlerTimeout(r)
    BY <1>1, <1>5, ProcessedPreserves DEF HandlerTimeout, Inv, TypeOK
<1> QED
    BY <1>2, <1>3, <1>4, <1>5 DEF Handle

\* Cancelling takes one request out of its queue, or closes it.
LEMMA AbortPreserves ==
    ASSUME Inv, NEW r \in Requests, Abort(r)
    PROVE  Inv'
<1> USE DEF Inv
<1>1. CASE AbortProcessing(r)
    <2>1. <<>> \in Seq(Kinds)
        OBVIOUS
    <2> QED
        BY <1>1, <2>1, ProcessedPreserves DEF AbortProcessing, TypeOK
<1>2. CASE AbortPending(r)
    <2> DEFINE s == context[r]
               q == pending[s]
    <2>1. s \in Services
        BY <1>2 DEF AbortPending, InOnePlace, TypeOK
    <2>2. /\ q \in Seq(Requests) /\ IsInjective(q) /\ DOMAIN q = 1..Len(q)
          /\ stage[r] = "pending"
          /\ aborted' = [aborted EXCEPT ![r] = TRUE]
          /\ out' = Silence
          /\ UNCHANGED <<status, stage, context, processing, ingress, egress, tracked>>
        BY <1>2, <2>1 DEF AbortPending, InOnePlace, TypeOK
    <2>3. PICK rest \in Seq(Requests) :
            /\ pending' = [pending EXCEPT ![s] = rest]
            /\ Len(rest) <= Len(q)
            /\ ToSet(rest) = ToSet(q) \ {r}
            /\ IsInjective(rest)
        <3>1. CASE \E i \in DOMAIN q : q[i] = r
            <4> DEFINE k == CHOOSE i \in DOMAIN q : q[i] = r
            <4>1. k \in 1..Len(q) /\ q[k] = r
                BY <2>2, <3>1
            <4>2. pending' = [pending EXCEPT ![s] = RemoveAt(q, k)]
                BY <1>2, <3>1 DEF AbortPending
            <4> HIDE DEF k
            <4>3. /\ RemoveAt(q, k) \in Seq(Requests)
                  /\ Len(RemoveAt(q, k)) <= Len(q)
                BY <2>2, <4>1, RemoveAtProperties
            <4>4. /\ ToSet(RemoveAt(q, k)) = ToSet(q) \ {r}
                  /\ IsInjective(RemoveAt(q, k))
                BY <2>2, <4>1, RemoveAtOfInjective
            <4> DEFINE rest == RemoveAt(q, k)
            <4>5. rest \in Seq(Requests)
                BY <4>3
            <4> HIDE DEF rest
            <4> WITNESS rest \in Seq(Requests)
            <4> QED
                BY <4>2, <4>3, <4>4 DEF rest
        <3>2. CASE ~ \E i \in DOMAIN q : q[i] = r
            <4>1. pending' = [pending EXCEPT ![s] = q]
                BY <1>2, <3>2 DEF AbortPending
            <4>2. r \notin ToSet(q)
                BY <3>2 DEF ToSet
            <4>3. Len(q) <= Len(q) /\ ToSet(q) = ToSet(q) \ {r}
                BY <2>2, <4>2
            <4>4. q \in Seq(Requests)
                BY <2>2
            <4> WITNESS q \in Seq(Requests)
            <4> QED
                BY <2>2, <4>1, <4>3
        <3> QED
            BY <3>1, <3>2
    <2> HIDE DEF q, s
    <2>4. /\ pending'[s] = rest
          /\ \A t \in Services \ {s} : pending'[t] = pending[t]
          /\ aborted'[r] /\ \A p \in Requests \ {r} : aborted'[p] = aborted[p]
        BY <2>1, <2>2, <2>3 DEF TypeOK
    <2>5. TypeOK'
        BY <2>1, <2>2, <2>3, OutputTypes DEF TypeOK
    <2>6. InOnePlace'
        <3>1. ASSUME NEW p \in Requests, NEW t \in Services
              PROVE  /\ p \in ToSet(pending'[t]) <=>
                            stage[p] = "pending" /\ ~aborted'[p] /\ context[p] = t
                     /\ p \in processing[t] <=> stage[p] = "processing" /\ context[p] = t
                     /\ IsInjective(pending'[t])
            <4>1. /\ p \in ToSet(pending[t]) <=>
                        stage[p] = "pending" /\ ~aborted[p] /\ context[p] = t
                  /\ p \in processing[t] <=> stage[p] = "processing" /\ context[p] = t
                  /\ IsInjective(pending[t])
                BY DEF InOnePlace
            <4>2. CASE t = s
                BY <2>3, <2>4, <4>1, <4>2 DEF q
            <4>3. CASE t # s
                BY <2>4, <4>1, <4>3 DEF s
            <4> QED
                BY <4>2, <4>3
        <3>2. ASSUME NEW p \in Requests
              PROVE  /\ stage[p] = "new" => ~aborted'[p]
                     /\ stage[p] \in {"pending", "processing"} => context[p] # NoService
                     /\ p \in tracked <=> stage[p] \in {"pending", "processing"}
            BY <2>2, <2>4 DEF InOnePlace
        <3> QED
            BY <2>2, <3>1, <3>2 DEF InOnePlace
    <2>7. AllBounded'
        <3>1. ASSUME NEW t \in Services
              PROVE  Options[t]["pending"] # 0 => Len(pending'[t]) <= Options[t]["pending"]
            <4>1. Options[t]["pending"] # 0 => Len(pending[t]) <= Options[t]["pending"]
                BY DEF AllBounded, Bounded
            <4>2. Options[t]["pending"] \in Nat
                BY OptionTypes DEF OptionNames
            <4>3. CASE t = s
                BY <2>2, <2>3, <2>4, <4>1, <4>2, <4>3 DEF q
            <4>4. CASE t # s
                BY <2>4, <4>1, <4>4
            <4> QED
                BY <4>3, <4>4
        <3> QED
            BY <2>2, <3>1 DEF AllBounded, Bounded
    <2> QED
        BY <2>5, <2>6, <2>7
<1> QED
    BY <1>1, <1>2 DEF Abort

\* The walk of removeService over the queue: whom it skips, and how many of them are
\* started.
LEMMA RemoveWalk ==
    ASSUME Inv, NEW s \in Services
    PROVE  /\ pending[s] \in Seq(Requests) /\ IsInjective(pending[s])
           /\ Skipped(pending[s]) \in Seq(Requests)
           /\ Len(Skipped(pending[s])) \in Nat /\ Len(pending[s]) \in Nat
           /\ Len(Skipped(pending[s])) <= Len(pending[s])
           /\ ToSet(Skipped(pending[s])) \subseteq ToSet(pending[s])
           /\ IsInjective(Skipped(pending[s]))
           /\ DOMAIN Skipped(pending[s]) = 1..Len(Skipped(pending[s]))
           /\ Restarted(s) \in 0..Len(Skipped(pending[s]))
           /\ Options[s]["egress"] # 0 => Restarted(s) <= egress[s]
<1> USE DEF Inv
<1> DEFINE q == pending[s]
           v == Skipped(q)
           n == Restarted(s)
<1>1. q \in Seq(Requests) /\ IsInjective(q)
    <2>1. q \in Seq(Requests)
        BY DEF TypeOK
    <2>2. CASE Requests = {}
        <3>1. DOMAIN q = 1..Len(q) /\ \A i \in 1..Len(q) : q[i] \in Requests
            BY <2>1, ElementOfSeq
        <3> QED
            BY <2>1, <2>2, <3>1 DEF IsInjective
    <2>3. CASE Requests # {}
        BY <2>1, <2>3 DEF InOnePlace
    <2> QED
        BY <2>2, <2>3
<1>2. /\ v \in Seq(Requests) /\ Len(v) \in Nat /\ Len(v) <= Len(q) /\ Len(q) \in Nat
      /\ ToSet(v) \subseteq ToSet(q) /\ IsInjective(v)
      /\ DOMAIN v = 1..Len(v)
    <2>1. Len(q) \in Nat
        BY <1>1
    <2>2. v \in Seq(Requests) /\ Len(v) = Len(q) \div 2
        BY <1>1, SkippedProperties
    <2>3. ToSet(v) \subseteq ToSet(q) /\ IsInjective(v)
        BY <1>1, SkippedOfInjective
    <2> HIDE DEF q, v
    <2> QED
        BY <2>1, <2>2, <2>3
<1>3. n \in 0..Len(v) /\ (Options[s]["egress"] # 0 => n <= egress[s])
    <2>1. egress[s] \in Nat /\ Options[s]["egress"] \in Nat
        BY OptionTypes DEF TypeOK, OptionNames
    <2>2. n = IF processing[s] = {} THEN 0
              ELSE IF Options[s]["egress"] = 0 \/ egress[s] >= Len(v) THEN Len(v)
              ELSE egress[s]
        BY DEF Restarted
    <2>3. Len(v) \in Nat
        BY <1>2
    <2> HIDE DEF q, v, n
    <2>4. CASE processing[s] = {}
        BY <2>1, <2>2, <2>3, <2>4
    <2>5. CASE processing[s] # {} /\ (Options[s]["egress"] = 0 \/ egress[s] >= Len(v))
        BY <2>1, <2>2, <2>3, <2>5
    <2>6. CASE processing[s] # {} /\ ~(Options[s]["egress"] = 0 \/ egress[s] >= Len(v))
        BY <2>1, <2>2, <2>3, <2>6
    <2> QED
        BY <2>4, <2>5, <2>6
<1> QED
    BY <1>1, <1>2, <1>3

\* What a restarted request may hear: that it starts, what its handler says at once, and the end.
Outcome(answer, end) == <<"in_processing">> \o answer \o end
Outcomes == {Outcome(answer, end) : answer \in Answers, end \in {<<"done">>, <<"500", "done">>}}

\* Every outcome is a sequence of messages, the start among them.
LEMMA OutcomeProperties ==
    ASSUME NEW m \in Outcomes
    PROVE  m \in Seq(Kinds) /\ "in_processing" \in ToSet(m)
<1>1. PICK answer \in Answers, end \in {<<"done">>, <<"500", "done">>} :
        m = Outcome(answer, end)
    BY DEF Outcomes
<1>2. answer \in Seq(Kinds)
    <2>1. /\ <<>> \in Seq(Kinds) /\ <<"frame">> \in Seq(Kinds) /\ <<"res">> \in Seq(Kinds)
          /\ <<"frame", "res">> \in Seq(Kinds)
        BY DEF Kinds, Responses
    <2> QED
        BY <2>1 DEF Answers
<1>3. end \in Seq(Kinds) /\ <<"in_processing">> \in Seq(Kinds)
    <2>1. <<"done">> \in Seq(Kinds) /\ <<"500", "done">> \in Seq(Kinds)
        BY DEF Kinds, Responses
    <2>2. <<"in_processing">> \in Seq(Kinds)
        BY DEF Kinds
    <2> QED
        BY <2>1, <2>2
<1> HIDE DEF Outcomes
<1>4. m \in Seq(Kinds) /\ Len(m) >= 1 /\ m[1] = "in_processing"
    BY <1>1, <1>2, <1>3 DEF Outcome
<1>5. 1 \in DOMAIN m
    BY <1>4
<1> QED
    BY <1>4, <1>5 DEF ToSet

\* What the removal writes and aborts, request by request.
LEMMA RemoveWrites ==
    ASSUME NEW s \in Services, RemoveService(s)
    PROVE  LET v == Skipped(pending[s])
               started == {v[i] : i \in 1..Restarted(s)}
               dropped == ToSet(pending[s]) \ ToSet(v)
               closed == processing[s] \cup started
           IN  \E instant \in SUBSET started :
                /\ aborted' = [r \in Requests |->
                                aborted[r] \/ r \in dropped \/ r \in closed \ instant]
                /\ out' = [r \in Requests |-> out'[r]]
                /\ \A r \in Requests :
                    /\ r \in started => out'[r] \in Outcomes
                    /\ r \notin started /\ r \in processing[s] => out'[r] = <<"done">>
                    /\ r \notin started /\ r \notin processing[s] => out'[r] = <<>>
<1> DEFINE v == Skipped(pending[s])
           n == Restarted(s)
           started == {v[i] : i \in 1..n}
           dropped == ToSet(pending[s]) \ ToSet(v)
           closed == processing[s] \cup started
<1>0. PICK instant \in SUBSET started, answer \in [started -> Answers] :
        /\ aborted' = [r \in Requests |->
                        aborted[r] \/ r \in dropped \/ r \in closed \ instant]
        /\ \E failed \in SUBSET instant :
            out' = [r \in Requests |->
                    IF r \in failed THEN <<"in_processing">> \o answer[r] \o <<"500", "done">>
                    ELSE IF r \in started THEN <<"in_processing">> \o answer[r] \o <<"done">>
                    ELSE IF r \in processing[s] THEN <<"done">>
                    ELSE <<>>]
    BY DEF RemoveService
<1>1. PICK failed \in SUBSET instant :
        out' = [r \in Requests |->
                    IF r \in failed THEN <<"in_processing">> \o answer[r] \o <<"500", "done">>
                    ELSE IF r \in started THEN <<"in_processing">> \o answer[r] \o <<"done">>
                    ELSE IF r \in processing[s] THEN <<"done">>
                    ELSE <<>>]
    BY <1>0
<1> HIDE DEF started, dropped, closed
<1>2. ASSUME NEW r \in Requests
      PROVE  /\ r \in started => out'[r] \in Outcomes
             /\ r \notin started /\ r \in processing[s] => out'[r] = <<"done">>
             /\ r \notin started /\ r \notin processing[s] => out'[r] = <<>>
    <2>1. ASSUME r \in started PROVE out'[r] \in Outcomes
        <3>1. answer[r] \in Answers
            BY <2>1
        <3>2. \/ out'[r] = Outcome(answer[r], <<"500", "done">>)
              \/ out'[r] = Outcome(answer[r], <<"done">>)
            BY <1>1, <2>1 DEF Outcome
        <3> QED
            BY <3>1, <3>2 DEF Outcomes
    <2>2. failed \subseteq started
        BY <1>1
    <2> QED
        BY <1>1, <2>1, <2>2
<1>3. out' = [r \in Requests |-> out'[r]]
    BY <1>1
<1> QED
    BY <1>0, <1>2, <1>3 DEF started, dropped, closed

\* Removing a service closes what runs, drops every second waiting request and
\* starts and closes as many of the others as there are tokens.
LEMMA RemovePreserves ==
    ASSUME Inv, NEW s \in Services, RemoveService(s)
    PROVE  Inv'
<1> USE DEF Inv
<1> DEFINE q == pending[s]
           v == Skipped(q)
           n == Restarted(s)
           started == {v[i] : i \in 1..n}
           dropped == ToSet(q) \ ToSet(v)
           closed == processing[s] \cup started
           rest == SubSeq(v, n + 1, Len(v))
<1>1. q \in Seq(Requests) /\ IsInjective(q)
    BY RemoveWalk
<1>2. /\ v \in Seq(Requests) /\ Len(v) \in Nat /\ Len(v) <= Len(q) /\ Len(q) \in Nat
      /\ ToSet(v) \subseteq ToSet(q) /\ IsInjective(v)
      /\ DOMAIN v = 1..Len(v)
    BY RemoveWalk
<1>3. n \in 0..Len(v) /\ (Options[s]["egress"] # 0 => n <= egress[s])
    BY RemoveWalk
<1> HIDE DEF q, v, n
<1>4. /\ rest \in Seq(Requests) /\ Len(rest) = Len(v) - n
      /\ ToSet(rest) = ToSet(v) \ started /\ IsInjective(rest)
    BY <1>2, <1>3, SuffixOfInjective
<1>5. started \subseteq ToSet(v)
    BY <1>2, <1>3 DEF ToSet
<1>6. PICK instant \in SUBSET started :
        /\ aborted' = [r \in Requests |->
                        aborted[r] \/ r \in dropped \/ r \in closed \ instant]
        /\ out' = [r \in Requests |-> out'[r]]
        /\ \A r \in Requests :
            /\ r \in started => out'[r] \in Outcomes
            /\ r \notin started /\ r \in processing[s] => out'[r] = <<"done">>
            /\ r \notin started /\ r \notin processing[s] => out'[r] = <<>>
    BY RemoveWrites DEF q, v, n
<1>7. /\ status' = [status EXCEPT ![s] = "removed"]
      /\ pending' = [pending EXCEPT ![s] = rest]
      /\ processing' = [processing EXCEPT ![s] = {}]
      /\ egress' = [egress EXCEPT ![s] =
                        IF Options[s]["egress"] = 0 THEN egress[s] ELSE egress[s] - n]
      /\ stage' = [r \in Requests |-> IF r \in closed THEN "finalizing" ELSE stage[r]]
      /\ tracked' = tracked \ closed
      /\ context' = context /\ ingress' = ingress
    BY DEF RemoveService, q, v, n
<1> HIDE DEF rest, started, dropped, closed
<1>8. /\ egress'[s] \in Nat /\ egress'[s] <= egress[s] /\ egress[s] \in Nat
      /\ egress' \in [Services -> Nat]
    <2>1. egress[s] \in Nat /\ n \in Nat
        BY <1>2, <1>3 DEF TypeOK
    <2>2. egress'[s] = IF Options[s]["egress"] = 0 THEN egress[s] ELSE egress[s] - n
        BY <1>7 DEF TypeOK
    <2>3. egress'[s] \in Nat /\ egress'[s] <= egress[s]
        BY <1>3, <2>1, <2>2
    <2>4. \A t \in Services \ {s} : egress'[t] = egress[t]
        BY <1>7 DEF TypeOK
    <2> QED
        BY <1>7, <2>1, <2>3, <2>4 DEF TypeOK
<1>9. /\ pending'[s] = rest /\ processing'[s] = {}
      /\ \A t \in Services \ {s} : /\ pending'[t] = pending[t]
                                   /\ processing'[t] = processing[t]
                                   /\ egress'[t] = egress[t]
    BY <1>7 DEF TypeOK
<1>10. TypeOK'
    <2>1. <<"done">> \in Seq(Kinds) /\ <<>> \in Seq(Kinds)
        BY DEF Kinds, Responses
    <2>2. out' \in [Requests -> Seq(Kinds)]
        BY <1>6, <2>1, OutcomeProperties
    <2>3. aborted' \in [Requests -> BOOLEAN]
        BY <1>6 DEF TypeOK
    <2>4. /\ stage' \in [Requests -> Stages]
          /\ tracked' \in SUBSET Requests
        BY <1>7 DEF TypeOK, Stages
    <2>5. /\ status' \in [Services -> {"absent", "provided", "removed"}]
          /\ pending' \in [Services -> Seq(Requests)]
          /\ processing' \in [Services -> SUBSET Requests]
        BY <1>4, <1>7 DEF TypeOK
    <2> QED
        BY <1>7, <1>8, <2>2, <2>3, <2>4, <2>5 DEF TypeOK
<1>11. AllBounded'
    <2>1. ASSUME NEW t \in Services
          PROVE  /\ Bounded(t, pending'[t], processing'[t], egress'[t])
                 /\ ingress'[t] <= Options[t]["ingress"]
        <3>1. /\ Bounded(t, pending[t], processing[t], egress[t])
              /\ ingress'[t] <= Options[t]["ingress"]
            BY <1>7 DEF AllBounded
        <3>2. /\ Options[t]["pending"] \in Nat /\ Options[t]["concurrent"] \in Nat
              /\ Options[t]["egress"] \in Nat
            BY OptionTypes DEF OptionNames
        <3>3. CASE t # s
            BY <1>9, <3>1, <3>3
        <3>4. CASE t = s
            <4>1. IsFiniteSet({}) /\ Cardinality({}) = 0
                BY FS_EmptySet
            <4>2. egress'[s] <= Options[s]["egress"]
                BY <1>8, <3>1, <3>2, <3>4 DEF Bounded
            <4>3. Options[s]["pending"] # 0 => Len(q) <= Options[s]["pending"]
                BY <3>1, <3>4 DEF Bounded, q
            <4>4. Len(rest) <= Len(q)
                BY <1>2, <1>3, <1>4
            <4>5. Len(rest) \in Nat
                BY <1>4
            <4>6. Options[s]["pending"] # 0 => Len(rest) <= Options[s]["pending"]
                BY <1>2, <3>2, <3>4, <4>3, <4>4, <4>5
            <4>7. Bounded(s, rest, {}, egress'[s])
                BY <3>2, <3>4, <4>1, <4>2, <4>6 DEF Bounded
            <4> QED
                BY <1>9, <3>1, <3>4, <4>7
        <3> QED
            BY <3>3, <3>4
    <2> QED
        BY <2>1 DEF AllBounded, Bounded
<1>12. InOnePlace'
    <2>1. ASSUME NEW r \in Requests
          PROVE  /\ r \in closed => stage[r] \in {"pending", "processing"} /\ context[r] = s
                 /\ r \in started <=> r \in closed /\ r \notin processing[s]
                 /\ r \in dropped => r \in ToSet(q) /\ r \notin closed
        <3>1. /\ r \in ToSet(q) <=> stage[r] = "pending" /\ ~aborted[r] /\ context[r] = s
              /\ r \in processing[s] <=> stage[r] = "processing" /\ context[r] = s
            BY DEF InOnePlace, q
        <3> QED
            BY <1>2, <1>5, <3>1 DEF closed, dropped
    <2>2. ASSUME NEW r \in Requests
          PROVE  /\ stage'[r] = IF r \in closed THEN "finalizing" ELSE stage[r]
                 /\ r \notin closed => (aborted'[r] <=> aborted[r] \/ r \in dropped)
                 /\ r \in tracked' <=> r \in tracked /\ r \notin closed
        BY <1>6, <1>7
    <2>3. ASSUME NEW r \in Requests, NEW t \in Services
          PROVE  /\ r \in ToSet(pending'[t]) <=>
                        stage'[r] = "pending" /\ ~aborted'[r] /\ context'[r] = t
                 /\ r \in processing'[t] <=> stage'[r] = "processing" /\ context'[r] = t
                 /\ IsInjective(pending'[t])
        <3>1. /\ r \in ToSet(pending[t]) <=>
                    stage[r] = "pending" /\ ~aborted[r] /\ context[r] = t
              /\ r \in processing[t] <=> stage[r] = "processing" /\ context[r] = t
              /\ IsInjective(pending[t])
            BY DEF InOnePlace
        <3>2. CASE t = s
            <4>1. r \in ToSet(rest) <=> r \in ToSet(q) /\ r \notin dropped /\ r \notin started
                BY <1>2, <1>4 DEF dropped
            <4>2. r \in ToSet(q) <=> stage[r] = "pending" /\ ~aborted[r] /\ context[r] = s
                BY <3>1, <3>2 DEF q
            <4>3. r \in processing[s] => r \in closed
                BY DEF closed
            <4>4. stage[r] = "pending" /\ context[r] = s /\ r \notin closed => r \notin started
                BY <2>1
            <4>5. r \in started => r \in closed
                BY DEF closed
            <4>6. r \in processing'[t] <=> stage'[r] = "processing" /\ context'[r] = t
                BY <1>7, <1>9, <2>2, <3>1, <3>2, <4>3
            <4>7. r \in ToSet(pending'[t]) <=>
                        stage'[r] = "pending" /\ ~aborted'[r] /\ context'[r] = t
                <5>1. CASE r \in closed
                    <6>1. stage'[r] = "finalizing"
                        BY <2>2, <5>1
                    <6>2. r \notin ToSet(rest)
                        <7>1. r \in started \/ r \in processing[s]
                            BY <5>1 DEF closed
                        <7>2. r \in processing[s] => r \notin ToSet(q)
                            BY <3>1, <3>2, <4>2
                        <7> QED
                            BY <4>1, <7>1, <7>2
                    <6> QED
                        BY <1>9, <3>2, <6>1, <6>2
                <5>2. CASE r \notin closed
                    BY <1>7, <1>9, <2>1, <2>2, <3>2, <4>1, <4>2, <4>5, <5>2
                <5> QED
                    BY <5>1, <5>2
            <4> QED
                BY <1>4, <1>9, <3>2, <4>6, <4>7
        <3>3. CASE t # s
            <4>1. context[r] = t => r \notin closed /\ r \notin dropped
                <5>1. r \in ToSet(q) => context[r] = s
                    BY DEF InOnePlace, q
                <5> QED
                    BY <2>1, <3>3, <5>1
            <4>2. /\ stage'[r] = "pending" => r \notin closed
                  /\ stage'[r] = "processing" => r \notin closed
                BY <2>2
            <4> QED
                BY <1>7, <1>9, <2>2, <3>1, <3>3, <4>1, <4>2
        <3> QED
            BY <3>2, <3>3
    <2>4. ASSUME NEW r \in Requests
          PROVE  /\ stage'[r] = "new" => ~aborted'[r]
                 /\ stage'[r] \in {"pending", "processing"} => context'[r] # NoService
                 /\ r \in tracked' <=> stage'[r] \in {"pending", "processing"}
        <3>1. /\ stage[r] = "new" => ~aborted[r]
              /\ stage[r] \in {"pending", "processing"} => context[r] # NoService
              /\ r \in tracked <=> stage[r] \in {"pending", "processing"}
              /\ r \in ToSet(q) => stage[r] = "pending"
            BY DEF InOnePlace, q
        <3>2. CASE r \in closed
            BY <2>2, <3>2
        <3>3. CASE r \notin closed
            BY <1>7, <2>1, <2>2, <3>1, <3>3
        <3> QED
            BY <3>2, <3>3
    <2> QED
        BY <2>3, <2>4 DEF InOnePlace
<1> QED
    BY <1>10, <1>11, <1>12

LEMMA ServePreserves ==
    ASSUME Inv, NEW s \in Services, Serve(s)
    PROVE  Inv'
<1> USE DEF Inv
<1>1. CASE Provide(s)
    BY <1>1, OutputTypes, QuietPreserves DEF Provide, TypeOK, AllBounded
<1>2. CASE RefillIngress(s)
    <2>1. Options[s]["ingress"] \in Nat
        BY OptionTypes DEF OptionNames
    <2>2. ingress' \in [Services -> Nat] /\ \A t \in Services : ingress'[t] <= Options[t]["ingress"]
        BY <1>2, <2>1 DEF RefillIngress, TypeOK, AllBounded
    <2> QED
        BY <1>2, <2>2, OutputTypes, QuietPreserves DEF RefillIngress, TypeOK
<1>3. CASE RefillEgress(s)
    <2> DEFINE full == Options[s]["egress"]
    <2>1. full \in Nat /\ pending[s] \in Seq(Requests) /\ processing[s] \in SUBSET Requests
        BY OptionTypes DEF OptionNames, TypeOK
    <2>2. /\ CheckQueue(s, pending[s], processing[s], full, stage, Silence)
          /\ UNCHANGED <<status, context, aborted, ingress, tracked>>
        BY <1>3 DEF RefillEgress
    <2>3. Bounded(s, pending[s], processing[s], full)
        BY <2>1 DEF AllBounded, Bounded
    <2>4. /\ [pending EXCEPT ![s] = pending[s]] = pending
          /\ [processing EXCEPT ![s] = processing[s]] = processing
        BY DEF TypeOK
    <2>5. Placed(stage, context', aborted', [pending EXCEPT ![s] = pending[s]],
                 [processing EXCEPT ![s] = processing[s]], tracked')
        BY <2>2, <2>4, PlacedNow
    <2>6. /\ status' \in [Services -> {"absent", "provided", "removed"}]
          /\ context' \in [Requests -> Services \cup {NoService}]
          /\ aborted' \in [Requests -> BOOLEAN]
          /\ tracked' \in SUBSET Requests
          /\ ingress' \in [Services -> Nat]
          /\ \A t \in Services : ingress'[t] <= Options[t]["ingress"]
          /\ stage \in [Requests -> Stages]
        BY <2>2 DEF TypeOK, AllBounded
    <2> HIDE DEF full
    <2> QED
        BY <2>1, <2>2, <2>3, <2>5, <2>6, OutputTypes, CheckQueuePreserves
<1>4. CASE RemoveService(s)
    BY <1>4, RemovePreserves
<1> QED
    BY <1>1, <1>2, <1>3, <1>4 DEF Serve

LEMMA HeartbeatPreserves ==
    ASSUME Inv, Heartbeat
    PROVE  Inv'
<1>1. <<"heartbeat">> \in Seq(Kinds) /\ <<>> \in Seq(Kinds)
    BY DEF Kinds
<1>2. out' \in [Requests -> Seq(Kinds)]
    BY <1>1 DEF Heartbeat
<1> QED
    BY <1>2, QuietPreserves DEF Heartbeat, Inv, TypeOK, AllBounded

LEMMA InitInv ==
    Init => Inv
<1> SUFFICES ASSUME Init PROVE Inv
    OBVIOUS
<1>1. TypeOK
    <2>1. \A s \in Services : Options[s]["ingress"] \in Nat /\ Options[s]["egress"] \in Nat
        BY OptionTypes DEF OptionNames
    <2> QED
        BY <2>1, OutputTypes DEF Init, TypeOK, Stages
<1>2. InOnePlace
    BY DEF Init, InOnePlace, ToSet, IsInjective
<1>3. AllBounded
    <2>1. ASSUME NEW s \in Services
          PROVE  /\ Options[s]["ingress"] \in Nat /\ Options[s]["egress"] \in Nat
                 /\ Options[s]["concurrent"] \in Nat /\ Options[s]["pending"] \in Nat
        BY OptionTypes DEF OptionNames
    <2>2. IsFiniteSet({}) /\ Cardinality({}) = 0
        BY FS_EmptySet
    <2> QED
        BY <2>1, <2>2 DEF Init, AllBounded, Bounded
<1> QED
    BY <1>1, <1>2, <1>3 DEF Inv

LEMMA NextInv ==
    Inv /\ [Next]_vars => Inv'
<1> SUFFICES ASSUME Inv, [Next]_vars PROVE Inv'
    OBVIOUS
<1>1. ASSUME NEW r \in Requests, Receive(r) PROVE Inv'
    BY <1>1, ReceivePreserves
<1>2. ASSUME NEW r \in Requests, Handle(r) PROVE Inv'
    BY <1>2, HandlePreserves
<1>3. ASSUME NEW r \in Requests, Abort(r) PROVE Inv'
    BY <1>3, AbortPreserves
<1>4. ASSUME NEW s \in Services, Serve(s) PROVE Inv'
    BY <1>4, ServePreserves
<1>5. CASE Heartbeat
    BY <1>5, HeartbeatPreserves
<1>6. CASE UNCHANGED vars
    BY <1>6 DEF vars, Inv, TypeOK, InOnePlace, AllBounded, Bounded
<1> QED
    BY <1>1, <1>2, <1>3, <1>4, <1>5, <1>6 DEF Next

THEOREM InductiveInvariant == Spec => []Inv
<1>1. Init => Inv
    BY InitInv
<1>2. Inv /\ [Next]_vars => Inv'
    BY NextInv
<1> QED
    BY <1>1, <1>2, PTL DEF Spec

-----------------------------------------------------------------------------
(* The results.                                                            *)

\* Every variable of the server keeps its type, and no token count goes negative.
THEOREM TypeCorrect == Spec => []TypeOK
<1>1. Inv => TypeOK
    BY DEF Inv
<1> QED
    BY <1>1, InductiveInvariant, PTL

\* No service ever exceeds the limits its IServiceOptions set.
THEOREM LimitsRespected == Spec => []WithinLimits
<1>1. Inv => WithinLimits
    BY DEF Inv, AllBounded, Bounded, WithinLimits
<1> QED
    BY <1>1, InductiveInvariant, PTL

\* A request is in the queue, in the processing set or in neither, exactly as its
\* stage and its abort flag say, and is in the trace map while it is in flight.
THEOREM RequestsInOnePlace == Spec => []InOnePlace
<1>1. Inv => InOnePlace
    BY DEF Inv
<1> QED
    BY <1>1, InductiveInvariant, PTL

-----------------------------------------------------------------------------
(* Work conservation.                                                      *)

Conserves(s, queue, running) ==
    queue # <<>> /\ Options[s]["egress"] = 0 => ~HasSlot(s, running)

\* _checkQueue starts one request; that is enough when at most one slot is free
\* or at most one request waits.
LEMMA CheckQueueConserves ==
    ASSUME TypeOK,
           NEW s \in Services, NEW queue \in Seq(Requests),
           NEW running \in SUBSET Requests, NEW tokens, NEW stages, NEW written,
           IsFiniteSet(running),
           queue # <<>> => Head(queue) \notin running,
           CheckQueue(s, queue, running, tokens, stages, written),
           queue # <<>> /\ Options[s]["egress"] = 0 =>
              \/ Tail(queue) = <<>>
              \/ /\ Options[s]["concurrent"] # 0
                 /\ Cardinality(running) + 1 >= Options[s]["concurrent"]
    PROVE  /\ Conserves(s, pending'[s], processing'[s])
           /\ \A t \in Services \ {s} : pending'[t] = pending[t] /\ processing'[t] = processing[t]
<1> DEFINE ready == queue # <<>> /\ HasToken(s, "egress", tokens) /\ HasSlot(s, running)
<1>1. CASE ready
    <2>1. /\ pending' = [pending EXCEPT ![s] = Tail(queue)]
          /\ processing' = [processing EXCEPT ![s] = running \cup {Head(queue)}]
        BY <1>1 DEF CheckQueue
    <2>2. /\ pending'[s] = Tail(queue)
          /\ processing'[s] = running \cup {Head(queue)}
          /\ \A t \in Services \ {s} : pending'[t] = pending[t] /\ processing'[t] = processing[t]
        BY <2>1 DEF TypeOK
    <2>3. Cardinality(running) \in Nat /\ Options[s]["concurrent"] \in Nat
        BY FS_CardinalityType, OptionTypes DEF OptionNames
    <2>4. Cardinality(running \cup {Head(queue)}) = Cardinality(running) + 1
        BY <1>1, FS_AddElement
    <2>5. Conserves(s, Tail(queue), running \cup {Head(queue)})
        BY <1>1, <2>3, <2>4 DEF Conserves, HasSlot
    <2> QED
        BY <2>2, <2>5
<1>2. CASE ~ready
    <2>1. /\ pending' = [pending EXCEPT ![s] = queue]
          /\ processing' = [processing EXCEPT ![s] = running]
        BY <1>2 DEF CheckQueue
    <2>2. /\ pending'[s] = queue
          /\ processing'[s] = running
          /\ \A t \in Services \ {s} : pending'[t] = pending[t] /\ processing'[t] = processing[t]
        BY <2>1 DEF TypeOK
    <2>3. Conserves(s, queue, running)
        BY <1>2 DEF Conserves, HasToken
    <2> QED
        BY <2>2, <2>3
<1> QED
    BY <1>1, <1>2

\* An admission finds the queue empty or every slot taken.
LEMMA ReceiveConserves ==
    ASSUME Inv, WorkConserving, NEW r \in Requests, Receive(r)
    PROVE  WorkConserving'
<1> USE DEF Inv
<1>1. CASE UNCHANGED <<pending, processing>>
    BY <1>1 DEF WorkConserving, HasSlot
<1>2. ASSUME NEW s \in Services, ReceiveAdmitted(r, s) PROVE WorkConserving'
    <2> DEFINE queue == Append(pending[s], r)
    <2>1. /\ pending[s] \in Seq(Requests) /\ processing[s] \in SUBSET Requests
          /\ queue \in Seq(Requests)
        BY DEF TypeOK
    <2>2. IsFiniteSet(processing[s]) /\ Cardinality(processing[s]) \in Nat
        BY FS_CardinalityType DEF AllBounded, Bounded
    <2>3. /\ stage[r] = "new"
          /\ CheckQueue(s, queue, processing[s], egress[s],
                        [stage EXCEPT ![r] = "pending"], Silence)
        BY <1>2 DEF ReceiveAdmitted
    <2>4. /\ Head(queue) = IF pending[s] = <<>> THEN r ELSE Head(pending[s])
          /\ Tail(queue) = IF pending[s] = <<>> THEN <<>> ELSE Append(Tail(pending[s]), r)
        BY <2>1, HeadTailAppend
    <2>5. Head(queue) \notin processing[s]
        <3>1. CASE pending[s] = <<>>
            BY <2>3, <2>4, <3>1 DEF InOnePlace
        <3>2. CASE pending[s] # <<>>
            <4>1. IsInjective(pending[s])
                BY DEF InOnePlace
            <4>2. Head(pending[s]) \in ToSet(pending[s]) /\ Head(pending[s]) \in Requests
                BY <2>1, <3>2, <4>1, TailOfInjective, HeadTailProperties
            <4>3. stage[Head(pending[s])] = "pending"
                BY <4>2 DEF InOnePlace
            <4>4. Head(pending[s]) \notin processing[s]
                BY <4>2, <4>3 DEF InOnePlace
            <4> QED
                BY <2>4, <3>2, <4>4
        <3> QED
            BY <3>1, <3>2
    <2>6. Options[s]["egress"] = 0 =>
            \/ Tail(queue) = <<>>
            \/ /\ Options[s]["concurrent"] # 0
               /\ Cardinality(processing[s]) + 1 >= Options[s]["concurrent"]
        <3>1. pending[s] # <<>> /\ Options[s]["egress"] = 0 => ~HasSlot(s, processing[s])
            BY DEF WorkConserving
        <3>2. Options[s]["concurrent"] \in Nat
            BY OptionTypes DEF OptionNames
        <3> QED
            BY <2>2, <2>4, <3>1, <3>2 DEF HasSlot
    <2> HIDE DEF queue
    <2>7. /\ Conserves(s, pending'[s], processing'[s])
          /\ \A t \in Services \ {s} : pending'[t] = pending[t] /\ processing'[t] = processing[t]
        BY <2>1, <2>2, <2>3, <2>5, <2>6, CheckQueueConserves
    <2> QED
        BY <2>7 DEF Conserves, WorkConserving, HasSlot
<1> QED
    BY <1>1, <1>2 DEF Receive, ReceiveUnroutable, ReceiveOverCapacity, ReceiveOverRate, Refuse

\* A closed request frees one slot and _checkQueue fills it.
LEMMA ProcessedConserves ==
    ASSUME Inv, WorkConserving, NEW r \in Requests, NEW last,
           stage[r] = "processing", Processed(r, last)
    PROVE  WorkConserving'
<1> DEFINE s == context[r]
           running == processing[s] \ {r}
<1> USE DEF Inv
<1>1. s \in Services /\ r \in processing[s]
    <2>1. s # NoService /\ s \in Services \cup {NoService}
        BY DEF InOnePlace, TypeOK
    <2> QED
        BY <2>1 DEF InOnePlace
<1>2. pending[s] \in Seq(Requests) /\ running \in SUBSET Requests
    BY <1>1 DEF TypeOK
<1>3. /\ IsFiniteSet(running) /\ Cardinality(processing[s]) \in Nat
      /\ Cardinality(running) = Cardinality(processing[s]) - 1
    <2>1. IsFiniteSet(processing[s])
        BY <1>1 DEF AllBounded, Bounded
    <2> QED
        BY <1>1, <2>1, FS_CardinalityType, FS_RemoveElement
<1>4. pending[s] # <<>> => Head(pending[s]) \notin running
    <2> SUFFICES ASSUME pending[s] # <<>> PROVE Head(pending[s]) \notin running
        OBVIOUS
    <2>1. IsInjective(pending[s])
        BY <1>1 DEF InOnePlace
    <2>2. Head(pending[s]) \in ToSet(pending[s]) /\ Head(pending[s]) \in Requests
        BY <1>2, <2>1, TailOfInjective, HeadTailProperties
    <2>3. stage[Head(pending[s])] = "pending"
        BY <1>1, <2>2 DEF InOnePlace
    <2> QED
        BY <1>1, <2>2, <2>3 DEF InOnePlace
<1>5. CheckQueue(s, pending[s], running, egress[s], [stage EXCEPT ![r] = "finalizing"],
                 Writes(r, last \o <<"done">>))
    BY DEF Processed
<1>6. pending[s] # <<>> /\ Options[s]["egress"] = 0 =>
        /\ Options[s]["concurrent"] # 0
        /\ Cardinality(running) + 1 >= Options[s]["concurrent"]
    <2>1. pending[s] # <<>> /\ Options[s]["egress"] = 0 => ~HasSlot(s, processing[s])
        BY <1>1 DEF WorkConserving
    <2>2. Options[s]["concurrent"] \in Nat
        BY <1>1, OptionTypes DEF OptionNames
    <2> QED
        BY <1>3, <2>1, <2>2 DEF HasSlot
<1> HIDE DEF s, running
<1>7. /\ Conserves(s, pending'[s], processing'[s])
      /\ \A t \in Services \ {s} : pending'[t] = pending[t] /\ processing'[t] = processing[t]
    BY <1>1, <1>2, <1>3, <1>4, <1>5, <1>6, CheckQueueConserves
<1> QED
    BY <1>1, <1>7 DEF Conserves, WorkConserving, HasSlot

\* Cancelling a waiting request shortens a queue.
LEMMA AbortConserves ==
    ASSUME Inv, WorkConserving, NEW r \in Requests, Abort(r)
    PROVE  WorkConserving'
<1> USE DEF Inv
<1>1. CASE AbortProcessing(r)
    BY <1>1, ProcessedConserves DEF AbortProcessing
<1>2. CASE AbortPending(r)
    <2> DEFINE q == pending[context[r]]
    <2>1. processing' = processing
        BY <1>2 DEF AbortPending
    <2>2. ASSUME NEW t \in Services, pending'[t] # <<>> PROVE pending[t] # <<>>
        <3>1. CASE t # context[r]
            BY <1>2, <2>2, <3>1 DEF AbortPending, TypeOK
        <3>2. CASE t = context[r]
            <4>1. pending'[t] = IF \E i \in DOMAIN q : q[i] = r
                                THEN RemoveAt(q, CHOOSE i \in DOMAIN q : q[i] = r)
                                ELSE q
                BY <1>2, <3>2 DEF AbortPending, TypeOK
            <4>2. CASE \E i \in DOMAIN q : q[i] = r
                <5>1. q # <<>>
                    BY <4>2
                <5> QED
                    BY <3>2, <5>1
            <4>3. CASE ~ \E i \in DOMAIN q : q[i] = r
                BY <2>2, <3>2, <4>1, <4>3
            <4> QED
                BY <4>2, <4>3
        <3> QED
            BY <3>1, <3>2
    <2> QED
        BY <2>1, <2>2 DEF WorkConserving, HasSlot
<1> QED
    BY <1>1, <1>2 DEF Abort

\* A refill concerns only services with an egress bucket; a removal leaves waiting
\* only the requests of such services.
LEMMA ServeConserves ==
    ASSUME Inv, WorkConserving, NEW s \in Services, Serve(s)
    PROVE  WorkConserving'
<1> USE DEF Inv
<1>1. CASE Provide(s) \/ RefillIngress(s)
    BY <1>1 DEF Provide, RefillIngress, WorkConserving, HasSlot
<1>2. CASE RefillEgress(s)
    <2>1. /\ Options[s]["egress"] # 0
          /\ \A t \in Services \ {s} : pending'[t] = pending[t] /\ processing'[t] = processing[t]
        BY <1>2 DEF RefillEgress, CheckQueue, TypeOK
    <2> QED
        BY <2>1 DEF WorkConserving, HasSlot
<1>3. CASE RemoveService(s)
    <2> DEFINE v == Skipped(pending[s])
               n == Restarted(s)
    <2>1. /\ pending'[s] = SubSeq(v, n + 1, Len(v))
          /\ \A t \in Services \ {s} : pending'[t] = pending[t] /\ processing'[t] = processing[t]
        BY <1>3 DEF RemoveService, TypeOK
    <2>2. v \in Seq(Requests) /\ Len(v) = Len(pending[s]) \div 2 /\ pending[s] \in Seq(Requests)
        BY SkippedProperties DEF TypeOK
    <2>3. ASSUME Options[s]["egress"] = 0 PROVE pending'[s] = <<>>
        <3>1. CASE processing[s] # {}
            <4>1. n = Len(v)
                BY <2>3, <3>1 DEF Restarted
            <4>2. Len(v) \in Nat
                <5>1. v \in Seq(Requests)
                    BY <2>2
                <5> QED
                    BY <5>1, LenProperties
            <4> HIDE DEF v, n
            <4>3. Len(v) \in Int /\ n + 1 > Len(v) /\ n + 1 \in Int
                BY <4>1, <4>2
            <4> QED
                BY <2>1, <4>3, SubSeqEmpty
        <3>2. CASE processing[s] = {}
            <4>1. HasSlot(s, processing[s])
                <5>1. Cardinality({}) = 0
                    BY FS_EmptySet
                <5>2. Options[s]["concurrent"] \in Nat
                    BY OptionTypes DEF OptionNames
                <5> QED
                    BY <3>2, <5>1, <5>2 DEF HasSlot
            <4>2. pending[s] = <<>>
                BY <2>3, <4>1 DEF WorkConserving
            <4>3. Len(pending[s]) = 0
                BY <4>2
            <4>4. Len(v) = 0
                BY <2>2, <4>3
            <4>5. n = 0
                BY <3>2 DEF Restarted
            <4>6. n + 1 \in Int /\ Len(v) \in Int /\ n + 1 > Len(v)
                BY <4>4, <4>5
            <4> QED
                BY <2>1, <4>6, SubSeqEmpty
        <3> QED
            BY <3>1, <3>2
    <2> QED
        BY <2>1, <2>3 DEF WorkConserving, HasSlot
<1> QED
    BY <1>1, <1>2, <1>3 DEF Serve

\* Without an egress bucket nobody waits while a slot is free, for any number of
\* requests and slots.
THEOREM NeverIdleWhileWaiting == Spec => []WorkConserving
<1>1. Init => WorkConserving
    BY DEF Init, WorkConserving
<1>2. Inv /\ WorkConserving /\ [Next]_vars => WorkConserving'
    <2> SUFFICES ASSUME Inv, WorkConserving, [Next]_vars PROVE WorkConserving'
        OBVIOUS
    <2>1. ASSUME NEW r \in Requests, Receive(r) PROVE WorkConserving'
        BY <2>1, ReceiveConserves
    <2>2. ASSUME NEW r \in Requests, Handle(r) PROVE WorkConserving'
        <3>1. CASE UNCHANGED <<pending, processing>>
            BY <3>1 DEF WorkConserving, HasSlot
        <3>2. ASSUME NEW last, stage[r] = "processing", Processed(r, last)
              PROVE  WorkConserving'
            BY <3>2, ProcessedConserves
        <3> QED
            BY <2>2, <3>1, <3>2
            DEF Handle, HandlerEmit, HandlerComplete, HandlerError, HandlerTimeout
    <2>3. ASSUME NEW r \in Requests, Abort(r) PROVE WorkConserving'
        BY <2>3, AbortConserves
    <2>4. ASSUME NEW s \in Services, Serve(s) PROVE WorkConserving'
        BY <2>4, ServeConserves
    <2>5. CASE Heartbeat \/ UNCHANGED vars
        BY <2>5 DEF Heartbeat, vars, WorkConserving, HasSlot
    <2> QED
        BY <2>1, <2>2, <2>3, <2>4, <2>5 DEF Next
<1> QED
    BY <1>1, <1>2, InductiveInvariant, PTL DEF Spec

-----------------------------------------------------------------------------
(* The refinement of ReplyStream.                                          *)

\* What _checkQueue does: it leaves what the caller made of the state, or it starts
\* the head of the queue.
LeavesAll(s, running, stages, written) ==
    stage' = stages /\ out' = written /\ processing'[s] = running

StartsHead(s, queue, running, tokens, stages, written) ==
    /\ queue # <<>> /\ Head(queue) \in Requests /\ Head(queue) \in ToSet(queue)
    /\ stage'[Head(queue)] = "processing"
    /\ out'[Head(queue)] = Append(written[Head(queue)], "in_processing")
    /\ \A q \in Requests \ {Head(queue)} : stage'[q] = stages[q] /\ out'[q] = written[q]
    /\ processing'[s] = running \cup {Head(queue)}
    /\ pending'[s] = Tail(queue)
    /\ egress'[s] = Spend(s, "egress", tokens)

LEMMA CheckQueueStarts ==
    ASSUME TypeOK,
           NEW s \in Services, NEW queue \in Seq(Requests),
           NEW running \in SUBSET Requests, NEW tokens \in Nat,
           NEW stages \in [Requests -> Stages],
           NEW written \in [Requests -> Seq(Kinds)],
           CheckQueue(s, queue, running, tokens, stages, written)
    PROVE  \/ LeavesAll(s, running, stages, written)
           \/ StartsHead(s, queue, running, tokens, stages, written)
<1> DEFINE ready == queue # <<>> /\ HasToken(s, "egress", tokens) /\ HasSlot(s, running)
<1>1. CASE ready
    <2> DEFINE h == Head(queue)
    <2>1. /\ pending' = [pending EXCEPT ![s] = Tail(queue)]
          /\ processing' = [processing EXCEPT ![s] = running \cup {h}]
          /\ egress' = [egress EXCEPT ![s] = Spend(s, "egress", tokens)]
          /\ stage' = [stages EXCEPT ![h] = "processing"]
          /\ out' = [written EXCEPT ![h] = Append(written[h], "in_processing")]
        BY <1>1 DEF CheckQueue
    <2>2. queue # <<>> /\ h \in Requests /\ h \in ToSet(queue)
        <3>1. queue # <<>> /\ h = queue[1] /\ 1 \in DOMAIN queue
            BY <1>1
        <3> QED
            BY <1>1, <3>1, HeadTailProperties DEF ToSet
    <2> HIDE DEF h
    <2>3. /\ stage'[h] = "processing"
          /\ out'[h] = Append(written[h], "in_processing")
          /\ \A q \in Requests \ {h} : stage'[q] = stages[q] /\ out'[q] = written[q]
        BY <2>1, <2>2
    <2>4. /\ processing'[s] = running \cup {h}
          /\ pending'[s] = Tail(queue)
          /\ egress'[s] = Spend(s, "egress", tokens)
        BY <2>1 DEF TypeOK
    <2> QED
        BY <2>2, <2>3, <2>4 DEF h, StartsHead
<1>2. CASE ~ready
    BY <1>2 DEF CheckQueue, TypeOK, LeavesAll
<1> QED
    BY <1>1, <1>2

\* The same, told of one request: it is left as the caller made it, or it is started.
Left(q, stages, written) == stage'[q] = stages[q] /\ out'[q] = written[q]

Started(q, queue, written) ==
    /\ q \in ToSet(queue)
    /\ stage'[q] = "processing"
    /\ out'[q] = Append(written[q], "in_processing")

LEMMA CheckQueueTurns ==
    ASSUME TypeOK,
           NEW s \in Services, NEW queue \in Seq(Requests),
           NEW running \in SUBSET Requests, NEW tokens \in Nat,
           NEW stages \in [Requests -> Stages],
           NEW written \in [Requests -> Seq(Kinds)],
           CheckQueue(s, queue, running, tokens, stages, written),
           NEW q \in Requests
    PROVE  Left(q, stages, written) \/ Started(q, queue, written)
<1>1. CASE LeavesAll(s, running, stages, written)
    BY <1>1 DEF LeavesAll, Left
<1>2. CASE StartsHead(s, queue, running, tokens, stages, written)
    <2>1. CASE q = Head(queue)
        BY <1>2, <2>1 DEF StartsHead, Started
    <2>2. CASE q # Head(queue)
        BY <1>2, <2>2 DEF StartsHead, Left
    <2> QED
        BY <2>1, <2>2
<1> QED
    BY <1>1, <1>2, CheckQueueStarts

\* The phase of a request goes from one to another, and the messages are sent.
Turns(q, from, to, messages) ==
    Phase(q) = from /\ Phase(q)' = to /\ out'[q] = messages

\* The conversation about q makes a step of ReplyStream, or rests.
Moves(q) ==
    \/ Replies!Refused(q) \/ Replies!Admitted(q) \/ Replies!Waits(q)
    \/ Replies!Runs(q) \/ Replies!Rushes(q) \/ Replies!Rests(q)

\* Every turn that ReplyStream allows.
LEMMA TurnsAreMoves ==
    ASSUME NEW q \in Requests,
           \/ \E code \in {"400", "429", "503"} : Turns(q, "fresh", "closed", <<code, "done">>)
           \/ Turns(q, "fresh", "waiting", <<>>)
           \/ Turns(q, "fresh", "running", <<"in_processing">>)
           \/ Turns(q, "waiting", "waiting", <<"heartbeat">>)
           \/ Turns(q, "waiting", "running", <<"in_processing">>)
           \/ Turns(q, "waiting", "cancelled", <<>>)
           \/ \E kind \in {"frame", "res"} : Turns(q, "running", "running", <<kind>>)
           \/ Turns(q, "running", "closed", <<"done">>)
           \/ \E code \in {"500", "504"} : Turns(q, "running", "closed", <<code, "done">>)
           \/ \E messages \in Outcomes : Turns(q, "waiting", "closed", messages)
           \/ Phase(q)' = Phase(q) /\ out'[q] = <<>>
    PROVE  Moves(q)
<1>1. CASE \E messages \in Outcomes : Turns(q, "waiting", "closed", messages)
    <2>1. PICK messages \in Outcomes : Turns(q, "waiting", "closed", messages)
        BY <1>1
    <2>2. PICK answer \in Answers, end \in {<<"done">>, <<"500", "done">>} :
            messages = Outcome(answer, end)
        BY <2>1 DEF Outcomes
    <2>3. answer \in Replies!Answers
        BY DEF Answers, Replies!Answers
    <2>4. Replies!Rushes(q)
        BY <2>1, <2>2, <2>3 DEF Outcome, Turns, Replies!Rushes, Replies!Goes
    <2> QED
        BY <2>4 DEF Moves
<1>2. CASE ~\E messages \in Outcomes : Turns(q, "waiting", "closed", messages)
    BY <1>2 DEF Turns, Moves, Replies!Refused, Replies!Admitted, Replies!Waits, Replies!Runs,
       Replies!Rests, Replies!Goes
<1> QED
    BY <1>1, <1>2

\* What Phase says, now and in the next state.
LEMMA PhaseProperties ==
    ASSUME NEW q \in Requests
    PROVE  /\ stage[q] = "new" => Phase(q) = "fresh"
           /\ stage[q] = "pending" /\ ~aborted[q] => Phase(q) = "waiting"
           /\ stage[q] = "pending" /\ aborted[q] => Phase(q) = "cancelled"
           /\ stage[q] = "processing" => Phase(q) = "running"
           /\ stage[q] = "finalizing" => Phase(q) = "closed"
           /\ stage'[q] = "pending" /\ ~aborted'[q] => Phase(q)' = "waiting"
           /\ stage'[q] = "pending" /\ aborted'[q] => Phase(q)' = "cancelled"
           /\ stage'[q] = "processing" => Phase(q)' = "running"
           /\ stage'[q] = "finalizing" => Phase(q)' = "closed"
           /\ stage'[q] = stage[q] /\ aborted'[q] = aborted[q] => Phase(q)' = Phase(q)
BY DEF Phase

\* What is written about one request and about the others.
LEMMA WritesProperties ==
    ASSUME NEW r \in Requests, NEW messages
    PROVE  /\ Writes(r, messages)[r] = messages
           /\ \A q \in Requests \ {r} : Writes(r, messages)[q] = <<>>
           /\ \A q \in Requests : Silence[q] = <<>>
BY DEF Writes, Silence

\* A request that waits in the queue of a service is started by a step of ReplyStream.
LEMMA QueuedStarts ==
    ASSUME Inv, NEW s \in Services, NEW q \in ToSet(pending[s]), q \in Requests,
           stage'[q] = "processing", out'[q] = Append(<<>>, "in_processing")
    PROVE  Moves(q)
<1>1. stage[q] = "pending" /\ ~aborted[q]
    BY DEF Inv, InOnePlace
<1>2. out'[q] = <<"in_processing">>
    OBVIOUS
<1>3. Turns(q, "waiting", "running", <<"in_processing">>)
    BY <1>1, <1>2, PhaseProperties DEF Turns
<1> QED
    BY <1>3, TurnsAreMoves

\* A request that nothing happens to.
LEMMA UntouchedRests ==
    ASSUME NEW q \in Requests,
           stage'[q] = stage[q], aborted'[q] = aborted[q], out'[q] = <<>>
    PROVE  Moves(q)
<1>1. Phase(q)' = Phase(q)
    BY PhaseProperties
<1> QED
    BY <1>1, TurnsAreMoves

\* A callback that raises no flag, and hands the queue and the stages to _checkQueue as
\* they are, starts the head of the queue or lets everyone rest.
LEMMA RefillMoves ==
    ASSUME Inv, NEW s \in Services, RefillEgress(s), NEW q \in Requests
    PROVE  Moves(q)
<1>1. /\ pending[s] \in Seq(Requests)
      /\ stage \in [Requests -> Stages]
      /\ Silence \in [Requests -> Seq(Kinds)] /\ Silence[q] = <<>>
    BY DEF Inv, TypeOK, Silence
<1>2. /\ CheckQueue(s, pending[s], processing[s], Options[s]["egress"], stage, Silence)
      /\ aborted' = aborted
    BY DEF RefillEgress
<1>3. TypeOK /\ processing[s] \in SUBSET Requests /\ Options[s]["egress"] \in Nat
    BY OptionTypes DEF Inv, TypeOK, OptionNames
<1>4. Left(q, stage, Silence) \/ Started(q, pending[s], Silence)
    BY <1>1, <1>2, <1>3, CheckQueueTurns
<1>5. CASE stage'[q] = stage[q] /\ out'[q] = <<>>
    BY <1>2, <1>5, UntouchedRests
<1>6. CASE /\ q \in ToSet(pending[s])
           /\ stage'[q] = "processing"
           /\ out'[q] = Append(<<>>, "in_processing")
    BY <1>6, QueuedStarts
<1> QED
    BY <1>1, <1>4, <1>5, <1>6 DEF Left, Started

\* A refused request hears one error and is closed.
LEMMA RefuseMoves ==
    ASSUME Inv, NEW r \in Requests, NEW code \in {"400", "429", "503"},
           stage[r] = "new", Refuse(r, code), NEW q \in Requests
    PROVE  Moves(q)
<1>1. /\ stage' = [stage EXCEPT ![r] = "finalizing"]
      /\ out' = Writes(r, <<code, "done">>)
      /\ aborted' = aborted
    BY DEF Refuse
<1>2. CASE q = r
    <2>1. stage'[q] = "finalizing" /\ out'[q] = <<code, "done">> /\ stage[q] = "new"
        BY <1>1, <1>2, WritesProperties DEF Inv, TypeOK
    <2>2. Turns(q, "fresh", "closed", <<code, "done">>)
        BY <2>1, PhaseProperties DEF Turns
    <2> QED
        BY <2>2, TurnsAreMoves
<1>3. CASE q # r
    <2>1. stage'[q] = stage[q] /\ aborted'[q] = aborted[q] /\ out'[q] = <<>>
        BY <1>1, <1>3, WritesProperties DEF Inv, TypeOK
    <2> QED
        BY <2>1, UntouchedRests
<1> QED
    BY <1>2, <1>3

\* An admitted request waits or starts, and may let nobody else start.
LEMMA AdmitMoves ==
    ASSUME Inv, NEW r \in Requests, NEW s \in Services, ReceiveAdmitted(r, s),
           NEW q \in Requests
    PROVE  Moves(q)
<1> DEFINE queue == Append(pending[s], r)
           stages == [stage EXCEPT ![r] = "pending"]
<1>1. /\ stage[r] = "new" /\ aborted' = aborted
      /\ CheckQueue(s, queue, processing[s], egress[s], stages, Silence)
    BY DEF ReceiveAdmitted
<1>2. /\ pending[s] \in Seq(Requests) /\ queue \in Seq(Requests)
      /\ r \notin ToSet(pending[s]) /\ IsInjective(pending[s]) /\ ~aborted[r]
    <2>1. pending[s] \in Seq(Requests)
        BY DEF Inv, TypeOK
    <2>2. queue \in Seq(Requests)
        BY <2>1, AppendProperties
    <2> QED
        BY <1>1, <2>1, <2>2 DEF Inv, InOnePlace
<1>3. ToSet(queue) = ToSet(pending[s]) \cup {r}
    BY <1>2, AppendToInjective
<1>4. /\ stages \in [Requests -> Stages]
      /\ stages[r] = "pending"
      /\ \A p \in Requests \ {r} : stages[p] = stage[p]
    BY DEF Inv, TypeOK, Stages
<1>5. Silence \in [Requests -> Seq(Kinds)] /\ Silence[q] = <<>>
    BY DEF Silence
<1>6. TypeOK /\ processing[s] \in SUBSET Requests /\ egress[s] \in Nat
    BY DEF Inv, TypeOK
<1> HIDE DEF queue, stages
<1>7. Left(q, stages, Silence) \/ Started(q, queue, Silence)
    BY <1>1, <1>2, <1>4, <1>5, <1>6, CheckQueueTurns
<1>8. CASE q = r
    <2>1. CASE stage'[q] = "pending" /\ out'[q] = <<>>
        <3>1. Turns(q, "fresh", "waiting", <<>>)
            BY <1>1, <1>2, <1>8, <2>1, PhaseProperties DEF Turns
        <3> QED
            BY <3>1, TurnsAreMoves
    <2>2. CASE stage'[q] = "processing" /\ out'[q] = Append(<<>>, "in_processing")
        <3>1. out'[q] = <<"in_processing">>
            BY <2>2
        <3>2. Turns(q, "fresh", "running", <<"in_processing">>)
            BY <1>1, <1>8, <2>2, <3>1, PhaseProperties DEF Turns
        <3> QED
            BY <3>2, TurnsAreMoves
    <2> QED
        BY <1>4, <1>5, <1>7, <1>8, <2>1, <2>2 DEF Left, Started
<1>9. CASE q # r
    <2>1. CASE stage'[q] = stage[q] /\ out'[q] = <<>>
        BY <1>1, <2>1, UntouchedRests
    <2>2. CASE /\ q \in ToSet(pending[s])
               /\ stage'[q] = "processing"
               /\ out'[q] = Append(<<>>, "in_processing")
        BY <2>2, QueuedStarts
    <2> QED
        BY <1>3, <1>4, <1>5, <1>7, <1>9, <2>1, <2>2 DEF Left, Started
<1> QED
    BY <1>8, <1>9

\* Two messages in a row.
LEMMA TwoMessages ==
    ASSUME NEW x \in Kinds, NEW y \in Kinds
    PROVE  <<x>> \o <<y>> = <<x, y>>
<1> DEFINE p == <<x>>
           r == <<y>>
           t == <<x, y>>
<1>1. /\ p \in Seq(Kinds) /\ Len(p) = 1 /\ p[1] = x
      /\ r \in Seq(Kinds) /\ Len(r) = 1 /\ r[1] = y
    OBVIOUS
<1>2. t \in Seq(Kinds) /\ Len(t) = 2 /\ t[1] = x /\ t[2] = y
    OBVIOUS
<1> HIDE DEF p, r, t
<1>3. /\ p \o r \in Seq(Kinds)
      /\ Len(p \o r) = Len(p) + Len(r)
      /\ \A i \in 1..(Len(p) + Len(r)) :
            (p \o r)[i] = IF i <= Len(p) THEN p[i] ELSE r[i - Len(p)]
    BY <1>1, ConcatProperties
<1>4. Len(p \o r) = 2 /\ (p \o r)[1] = x /\ (p \o r)[2] = y
    <2>1. 1 \in 1..(Len(p) + Len(r)) /\ 2 \in 1..(Len(p) + Len(r))
        BY <1>1
    <2> QED
        BY <1>1, <1>3, <2>1
<1>5. \A i \in 1..Len(p \o r) : (p \o r)[i] = t[i]
    <2>1. \A i \in 1..2 : i = 1 \/ i = 2
        OBVIOUS
    <2> QED
        BY <1>2, <1>4, <2>1
<1>6. p \o r = t
    BY <1>2, <1>3, <1>4, <1>5, SeqEqual
<1> QED
    BY <1>6 DEF p, r, t

\* How a stream is closed.
LEMMA ClosingMessages ==
    ASSUME NEW last \in {<<>>, <<"500">>, <<"504">>}
    PROVE  /\ last \o <<"done">> \in {<<"done">>, <<"500", "done">>, <<"504", "done">>}
           /\ last \o <<"done">> \in Seq(Kinds)
<1>1. "done" \in Kinds /\ "500" \in Kinds /\ "504" \in Kinds
    BY DEF Kinds, Responses
<1>2. <<>> \o <<"done">> = <<"done">>
    OBVIOUS
<1>3. /\ <<"500">> \o <<"done">> = <<"500", "done">>
      /\ <<"504">> \o <<"done">> = <<"504", "done">>
    BY <1>1, TwoMessages
<1>4. last \o <<"done">> \in {<<"done">>, <<"500", "done">>, <<"504", "done">>}
    <2>1. CASE last = <<>>
        BY <1>2, <2>1
    <2>2. CASE last = <<"500">>
        BY <1>3, <2>2
    <2>3. CASE last = <<"504">>
        BY <1>3, <2>3
    <2> QED
        BY <2>1, <2>2, <2>3
<1>5. {<<"done">>, <<"500", "done">>, <<"504", "done">>} \subseteq Seq(Kinds)
    BY <1>1
<1> QED
    BY <1>4, <1>5

\* What ends a running request closes it, and may start one that waits.
LEMMA ProcessedMoves ==
    ASSUME Inv, NEW r \in Requests, NEW last \in {<<>>, <<"500">>, <<"504">>},
           stage[r] = "processing", Processed(r, last),
           \A p \in Requests \ {r} : aborted'[p] = aborted[p],
           NEW q \in Requests
    PROVE  Moves(q)
<1> DEFINE s == context[r]
           stages == [stage EXCEPT ![r] = "finalizing"]
           written == Writes(r, last \o <<"done">>)
<1>1. CheckQueue(s, pending[s], processing[s] \ {r}, egress[s], stages, written)
    BY DEF Processed
<1>2. s \in Services /\ r \notin ToSet(pending[s])
    <2>1. s # NoService /\ s \in Services \cup {NoService}
        BY DEF Inv, InOnePlace, TypeOK
    <2> QED
        BY <2>1 DEF Inv, InOnePlace
<1>3. /\ stages \in [Requests -> Stages]
      /\ stages[r] = "finalizing"
      /\ \A p \in Requests \ {r} : stages[p] = stage[p]
    BY DEF Inv, TypeOK, Stages
<1>4. /\ last \o <<"done">> \in {<<"done">>, <<"500", "done">>, <<"504", "done">>}
      /\ last \o <<"done">> \in Seq(Kinds)
    BY ClosingMessages
<1>5. /\ written \in [Requests -> Seq(Kinds)]
      /\ written[r] = last \o <<"done">>
      /\ \A p \in Requests \ {r} : written[p] = <<>>
    BY <1>4, OutputTypes, WritesProperties
<1>6. /\ TypeOK /\ pending[s] \in Seq(Requests)
      /\ processing[s] \ {r} \in SUBSET Requests /\ egress[s] \in Nat
    BY <1>2 DEF Inv, TypeOK
<1> HIDE DEF s, stages, written
<1>7. Left(q, stages, written) \/ Started(q, pending[s], written)
    BY <1>1, <1>2, <1>3, <1>5, <1>6, CheckQueueTurns
<1>8. CASE q = r
    <2>1. stage'[q] = "finalizing"
        BY <1>2, <1>3, <1>7, <1>8 DEF Left, Started
    <2>2. \/ out'[q] = <<"done">>
          \/ \E code \in {"500", "504"} : out'[q] = <<code, "done">>
        BY <1>2, <1>4, <1>5, <1>7, <1>8 DEF Left, Started
    <2>3. \/ Turns(q, "running", "closed", <<"done">>)
          \/ \E code \in {"500", "504"} : Turns(q, "running", "closed", <<code, "done">>)
        BY <1>8, <2>1, <2>2, PhaseProperties DEF Turns
    <2> QED
        BY <2>3, TurnsAreMoves
<1>9. CASE q # r
    <2>1. CASE stage'[q] = stage[q] /\ out'[q] = <<>>
        BY <1>9, <2>1, UntouchedRests
    <2>2. CASE /\ q \in ToSet(pending[s])
               /\ stage'[q] = "processing"
               /\ out'[q] = Append(<<>>, "in_processing")
        BY <1>2, <2>2, QueuedStarts
    <2> QED
        BY <1>3, <1>5, <1>7, <1>9, <2>1, <2>2 DEF Left, Started
<1> QED
    BY <1>8, <1>9

\* The handler of a running request emits.
LEMMA EmitMoves ==
    ASSUME Inv, NEW r \in Requests, NEW kind \in {"frame", "res"}, HandlerEmit(r, kind),
           NEW q \in Requests
    PROVE  Moves(q)
<1>1. /\ stage[r] = "processing" /\ stage' = stage /\ aborted' = aborted
      /\ out' = Writes(r, <<kind>>)
    BY DEF HandlerEmit
<1>2. CASE q = r
    <2>1. out'[q] = <<kind>>
        BY <1>1, <1>2, WritesProperties
    <2>2. Turns(q, "running", "running", <<kind>>)
        BY <1>1, <1>2, <2>1, PhaseProperties DEF Turns
    <2> QED
        BY <2>2, TurnsAreMoves
<1>3. CASE q # r
    BY <1>1, <1>3, WritesProperties, UntouchedRests
<1> QED
    BY <1>2, <1>3

\* A waiting request is cancelled; one cancelled before stays so.
LEMMA CancelMoves ==
    ASSUME Inv, NEW r \in Requests, AbortPending(r), NEW q \in Requests
    PROVE  Moves(q)
<1>1. /\ stage[r] = "pending" /\ stage' = stage /\ out'[q] = <<>>
      /\ aborted' = [aborted EXCEPT ![r] = TRUE]
    BY DEF AbortPending, Silence
<1>2. aborted'[r] = TRUE /\ \A p \in Requests \ {r} : aborted'[p] = aborted[p]
    BY <1>1 DEF Inv, TypeOK
<1>3. CASE q = r /\ ~aborted[r]
    <2>1. Turns(q, "waiting", "cancelled", <<>>)
        BY <1>1, <1>2, <1>3, PhaseProperties DEF Turns
    <2> QED
        BY <2>1, TurnsAreMoves
<1>4. CASE q = r /\ aborted[r]
    <2>1. Phase(q) = "cancelled" /\ Phase(q)' = "cancelled"
        BY <1>1, <1>2, <1>4, PhaseProperties
    <2> QED
        BY <1>1, <2>1, TurnsAreMoves
<1>5. CASE q # r
    BY <1>1, <1>2, <1>5, UntouchedRests
<1> QED
    BY <1>3, <1>4, <1>5

\* Whoever waits hears the heartbeat.
LEMMA HeartbeatMoves ==
    ASSUME Inv, Heartbeat, NEW q \in Requests
    PROVE  Moves(q)
<1>1. /\ stage' = stage /\ aborted' = aborted
      /\ out'[q] = IF q \in Queued THEN <<"heartbeat">> ELSE <<>>
    BY DEF Heartbeat
<1>2. CASE q \in Queued
    <2>1. stage[q] = "pending" /\ ~aborted[q]
        BY <1>2 DEF Queued, Inv, InOnePlace
    <2>2. Turns(q, "waiting", "waiting", <<"heartbeat">>)
        BY <1>1, <1>2, <2>1, PhaseProperties DEF Turns
    <2> QED
        BY <2>2, TurnsAreMoves
<1>3. CASE q \notin Queued
    BY <1>1, <1>3, UntouchedRests
<1> QED
    BY <1>2, <1>3

\* The removal of a service: who runs is closed, who is passed over starts and is closed
\* or stays, who is dropped is cancelled.
LEMMA RemoveMoves ==
    ASSUME Inv, NEW s \in Services, RemoveService(s), NEW q \in Requests
    PROVE  Moves(q)
<1> DEFINE v == Skipped(pending[s])
           n == Restarted(s)
           started == {v[i] : i \in 1..n}
           dropped == ToSet(pending[s]) \ ToSet(v)
           closed == processing[s] \cup started
<1>1. PICK instant \in SUBSET started :
        /\ aborted' = [r \in Requests |->
                        aborted[r] \/ r \in dropped \/ r \in closed \ instant]
        /\ \A r \in Requests :
            /\ r \in started => out'[r] \in Outcomes
            /\ r \notin started /\ r \in processing[s] => out'[r] = <<"done">>
            /\ r \notin started /\ r \notin processing[s] => out'[r] = <<>>
    BY RemoveWrites
<1>2. stage' = [r \in Requests |-> IF r \in closed THEN "finalizing" ELSE stage[r]]
    BY DEF RemoveService
<1>3. started \subseteq ToSet(pending[s])
    <2>1. /\ n \in 0..Len(v) /\ Len(v) \in Nat /\ DOMAIN v = 1..Len(v)
          /\ ToSet(v) \subseteq ToSet(pending[s])
        BY RemoveWalk
    <2> HIDE DEF v, n
    <2>2. ASSUME NEW i \in 1..n PROVE v[i] \in ToSet(v)
        <3>1. i \in DOMAIN v
            BY <2>1, <2>2
        <3> QED
            BY <3>1 DEF ToSet
    <2> QED
        BY <2>1, <2>2
<1>4. aborted[q] \in BOOLEAN
    BY DEF Inv, TypeOK
<1> HIDE DEF started, dropped, closed
<1>5. CASE q \in started
    <2>1. stage[q] = "pending" /\ ~aborted[q]
        BY <1>3, <1>5 DEF Inv, InOnePlace
    <2>2. stage'[q] = "finalizing"
        BY <1>2, <1>5 DEF closed
    <2>3. out'[q] \in Outcomes
        BY <1>1, <1>5
    <2>4. \E message \in Outcomes : Turns(q, "waiting", "closed", message)
        BY <2>1, <2>2, <2>3, PhaseProperties DEF Turns
    <2> QED
        BY <2>4, TurnsAreMoves
<1>6. CASE q \in processing[s] /\ q \notin started
    <2>1. stage[q] = "processing"
        BY <1>6 DEF Inv, InOnePlace
    <2>2. stage'[q] = "finalizing" /\ out'[q] = <<"done">>
        BY <1>1, <1>2, <1>6 DEF closed
    <2>3. Turns(q, "running", "closed", <<"done">>)
        BY <2>1, <2>2, PhaseProperties DEF Turns
    <2> QED
        BY <2>3, TurnsAreMoves
<1>7. CASE q \notin closed /\ q \in dropped
    <2>1. stage[q] = "pending" /\ ~aborted[q]
        BY <1>7 DEF Inv, InOnePlace, dropped
    <2>2. stage'[q] = "pending" /\ aborted'[q] /\ out'[q] = <<>>
        BY <1>1, <1>2, <1>7, <2>1 DEF closed
    <2>3. Turns(q, "waiting", "cancelled", <<>>)
        BY <2>1, <2>2, PhaseProperties DEF Turns
    <2> QED
        BY <2>3, TurnsAreMoves
<1>8. CASE q \notin closed /\ q \notin dropped
    <2>1. stage'[q] = stage[q] /\ out'[q] = <<>> /\ aborted'[q] = aborted[q]
        BY <1>1, <1>2, <1>4, <1>8 DEF closed
    <2> QED
        BY <2>1, UntouchedRests
<1> QED
    BY <1>5, <1>6, <1>7, <1>8 DEF closed

\* Every step moves the conversation about every request as ReplyStream allows.
LEMMA StepMoves ==
    ASSUME Inv, Next, NEW q \in Requests
    PROVE  Moves(q)
<1>1. ASSUME NEW r \in Requests, Receive(r) PROVE Moves(q)
    <2>1. CASE ReceiveUnroutable(r)
        <3>1. stage[r] = "new" /\ Refuse(r, "400")
            BY <2>1 DEF ReceiveUnroutable
        <3> QED
            BY <3>1, RefuseMoves
    <2>2. ASSUME NEW s \in Services, ReceiveOverCapacity(r, s) PROVE Moves(q)
        <3>1. stage[r] = "new" /\ Refuse(r, "503")
            BY <2>2 DEF ReceiveOverCapacity
        <3> QED
            BY <3>1, RefuseMoves
    <2>3. ASSUME NEW s \in Services, ReceiveOverRate(r, s) PROVE Moves(q)
        <3>1. stage[r] = "new" /\ Refuse(r, "429")
            BY <2>3 DEF ReceiveOverRate
        <3> QED
            BY <3>1, RefuseMoves
    <2>4. ASSUME NEW s \in Services, ReceiveAdmitted(r, s) PROVE Moves(q)
        BY <2>4, AdmitMoves
    <2> QED
        BY <1>1, <2>1, <2>2, <2>3, <2>4 DEF Receive
<1>2. ASSUME NEW r \in Requests, Handle(r) PROVE Moves(q)
    <2>1. ASSUME NEW kind \in {"frame", "res"}, HandlerEmit(r, kind) PROVE Moves(q)
        BY <2>1, EmitMoves
    <2>2. CASE HandlerComplete(r)
        <3>1. stage[r] = "processing" /\ Processed(r, <<>>) /\ aborted' = aborted
            BY <2>2 DEF HandlerComplete
        <3> QED
            BY <3>1, ProcessedMoves
    <2>3. CASE HandlerError(r)
        <3>1. stage[r] = "processing" /\ Processed(r, <<"500">>) /\ aborted' = aborted
            BY <2>3 DEF HandlerError
        <3> QED
            BY <3>1, ProcessedMoves
    <2>4. CASE HandlerTimeout(r)
        <3>1. /\ stage[r] = "processing" /\ Processed(r, <<"504">>)
              /\ \A p \in Requests \ {r} : aborted'[p] = aborted[p]
            BY <2>4 DEF HandlerTimeout, Inv, TypeOK
        <3> QED
            BY <3>1, ProcessedMoves
    <2> QED
        BY <1>2, <2>1, <2>2, <2>3, <2>4 DEF Handle
<1>3. ASSUME NEW r \in Requests, Abort(r) PROVE Moves(q)
    <2>1. CASE AbortPending(r)
        BY <2>1, CancelMoves
    <2>2. CASE AbortProcessing(r)
        <3>1. /\ stage[r] = "processing" /\ Processed(r, <<>>)
              /\ \A p \in Requests \ {r} : aborted'[p] = aborted[p]
            BY <2>2 DEF AbortProcessing, Inv, TypeOK
        <3> QED
            BY <3>1, ProcessedMoves
    <2> QED
        BY <1>3, <2>1, <2>2 DEF Abort
<1>4. ASSUME NEW s \in Services, Serve(s) PROVE Moves(q)
    <2>1. CASE Provide(s) \/ RefillIngress(s)
        <3>1. stage' = stage /\ aborted' = aborted /\ out'[q] = <<>>
            BY <2>1 DEF Provide, RefillIngress, Silence
        <3> QED
            BY <3>1, UntouchedRests
    <2>2. CASE RemoveService(s)
        BY <2>2, RemoveMoves
    <2>3. CASE RefillEgress(s)
        BY <2>3, RefillMoves
    <2> QED
        BY <1>4, <2>1, <2>2, <2>3 DEF Serve
<1>5. CASE Heartbeat
    BY <1>5, HeartbeatMoves
<1> QED
    BY <1>1, <1>2, <1>3, <1>4, <1>5 DEF Next

\* What the sender sees of every request, for any number of requests and services: one
\* refusal, or a wait, one start, answers and one close, and silence after it was
\* cancelled, also when its service is removed meanwhile (server.ts:26-32, 247-264, 391-565).
THEOREM RepliesAreStreams == Spec => ImplementsReplyStream
<1>1. Init => Replies!Init
    <2>1. ASSUME Init, NEW r \in Requests PROVE Phase(r) = "fresh"
        BY <2>1, PhaseProperties DEF Init
    <2> QED
        BY <2>1 DEF Init, Replies!Init, Silence
<1>2. Inv /\ [Next]_vars => [Replies!Next]_(Replies!vars)
    <2> SUFFICES ASSUME Inv, [Next]_vars PROVE [Replies!Next]_(Replies!vars)
        OBVIOUS
    <2>1. CASE Next
        <3>1. \A q \in Requests : Moves(q)
            BY <2>1, StepMoves
        <3> QED
            BY <3>1 DEF Moves, Replies!Next
    <2>2. CASE UNCHANGED vars
        <3>1. UNCHANGED <<stage, aborted, out>>
            BY <2>2 DEF vars
        <3> QED
            BY <3>1 DEF Replies!vars, Phase
    <2> QED
        BY <2>1, <2>2
<1> QED
    BY <1>1, <1>2, InductiveInvariant, PTL DEF Spec, ImplementsReplyStream, Replies!Spec

-----------------------------------------------------------------------------
(* Order and price of the starts.                                          *)

\* A request that starts while it waits in a queue is the first of it.
StartsFromTheHead(s) ==
    \A q \in processing'[s] :
        q \in processing[s] \/ q \notin ToSet(pending[s]) \/ q = pending[s][1]

\* A request that has a mark of _checkQueue in its output has just been started.
Announced(q) == "in_processing" \in ToSet(out'[q])

\* The callback starts nobody, or one request of s, and takes a token for it out of
\* those it found, if the service counts them.
PaysOnce(s, tokens) ==
    \/ \A q \in Requests : ~Announced(q)
    \/ \E h \in Requests :
        /\ context'[h] = s
        /\ \A q \in Requests \ {h} : ~Announced(q)
        /\ Options[s]["egress"] # 0 => egress'[s] = tokens - 1

\* Nothing that is written without _checkQueue announces a start.
LEMMA OtherMessages ==
    ASSUME NEW x, x # "in_processing"
    PROVE  /\ "in_processing" \notin ToSet(<<>>)
           /\ "in_processing" \notin ToSet(<<x>>)
           /\ "in_processing" \notin ToSet(<<x, "done">>)
<1>1. "in_processing" \notin ToSet(<<>>) /\ "in_processing" \notin ToSet(<<x>>)
    BY DEF ToSet
<1> DEFINE messages == <<x, "done">>
<1>2. DOMAIN messages = 1..2 /\ messages[1] = x /\ messages[2] = "done"
    OBVIOUS
<1>3. \A i \in 1..2 : i = 1 \/ i = 2
    OBVIOUS
<1> HIDE DEF messages
<1>4. "in_processing" \notin ToSet(messages)
    BY <1>2, <1>3 DEF ToSet
<1> QED
    BY <1>1, <1>4 DEF messages

LEMMA SilenceIsQuiet == \A q \in Requests : "in_processing" \notin ToSet(Silence[q])
BY DEF Silence, ToSet

\* What _checkQueue starts is the head of the queue, which is the head of the waiting
\* requests unless the caller has just queued the only one.
LEMMA CheckQueueHeads ==
    ASSUME Inv,
           NEW s \in Services, NEW queue \in Seq(Requests),
           NEW running \in SUBSET Requests, NEW tokens \in Nat,
           NEW stages \in [Requests -> Stages],
           NEW written \in [Requests -> Seq(Kinds)],
           CheckQueue(s, queue, running, tokens, stages, written),
           running \subseteq processing[s],
           queue # <<>> => \/ pending[s] # <<>> /\ Head(queue) = pending[s][1]
                           \/ Head(queue) \notin ToSet(pending[s])
    PROVE  \A t \in Services : StartsFromTheHead(t)
<1>1. TypeOK
    BY DEF Inv
<1>2. ASSUME NEW t \in Services \ {s} PROVE StartsFromTheHead(t)
    <2>1. processing'[t] = processing[t]
        BY <1>1 DEF CheckQueue, TypeOK
    <2> QED
        BY <2>1 DEF StartsFromTheHead
<1>3. CASE LeavesAll(s, running, stages, written)
    BY <1>2, <1>3 DEF LeavesAll, StartsFromTheHead
<1>4. CASE StartsHead(s, queue, running, tokens, stages, written)
    <2>1. queue # <<>> /\ processing'[s] = running \cup {Head(queue)}
        BY <1>4 DEF StartsHead
    <2>2. StartsFromTheHead(s)
        BY <2>1 DEF StartsFromTheHead
    <2> QED
        BY <1>2, <2>2
<1> QED
    BY <1>1, <1>3, <1>4, CheckQueueStarts

\* What _checkQueue starts is announced and paid for.
LEMMA CheckQueuePays ==
    ASSUME TypeOK,
           NEW s \in Services, NEW queue \in Seq(Requests),
           NEW running \in SUBSET Requests, NEW tokens \in Nat,
           NEW stages \in [Requests -> Stages],
           NEW written \in [Requests -> Seq(Kinds)],
           CheckQueue(s, queue, running, tokens, stages, written),
           \A q \in Requests : "in_processing" \notin ToSet(written[q]),
           queue # <<>> => context'[Head(queue)] = s
    PROVE  PaysOnce(s, tokens)
<1>1. CASE LeavesAll(s, running, stages, written)
    BY <1>1 DEF LeavesAll, PaysOnce, Announced
<1>2. CASE StartsHead(s, queue, running, tokens, stages, written)
    <2>1. /\ queue # <<>> /\ Head(queue) \in Requests
          /\ \A q \in Requests \ {Head(queue)} : out'[q] = written[q]
          /\ egress'[s] = Spend(s, "egress", tokens)
        BY <1>2 DEF StartsHead
    <2>2. \A q \in Requests \ {Head(queue)} : ~Announced(q)
        BY <2>1 DEF Announced
    <2>3. Options[s]["egress"] # 0 => egress'[s] = tokens - 1
        BY <2>1 DEF Spend
    <2> QED
        BY <2>1, <2>2, <2>3 DEF PaysOnce
<1> QED
    BY <1>1, <1>2, CheckQueueStarts

\* The three callbacks that end in _checkQueue.
LEMMA RefillStarts ==
    ASSUME Inv, NEW s \in Services, RefillEgress(s)
    PROVE  /\ \A t \in Services : StartsFromTheHead(t)
           /\ PaysOnce(s, Options[s]["egress"])
<1>1. /\ pending[s] \in Seq(Requests)
      /\ stage \in [Requests -> Stages]
      /\ Silence \in [Requests -> Seq(Kinds)]
      /\ TypeOK /\ processing[s] \in SUBSET Requests /\ Options[s]["egress"] \in Nat
    BY OptionTypes DEF Inv, TypeOK, Silence, OptionNames
<1>2. /\ CheckQueue(s, pending[s], processing[s], Options[s]["egress"], stage, Silence)
      /\ context' = context
    BY DEF RefillEgress
<1>3. ASSUME pending[s] # <<>>
      PROVE  Head(pending[s]) = pending[s][1] /\ context'[Head(pending[s])] = s
    <2>1. Head(pending[s]) \in ToSet(pending[s]) /\ Head(pending[s]) \in Requests
        BY <1>1, <1>3, ElementOfSeq DEF ToSet
    <2> QED
        BY <1>1, <1>2, <1>3, <2>1 DEF Inv, InOnePlace
<1>4. \A q \in Requests : "in_processing" \notin ToSet(Silence[q])
    BY SilenceIsQuiet
<1>5. \A t \in Services : StartsFromTheHead(t)
    BY <1>1, <1>2, <1>3, CheckQueueHeads
<1>6. PaysOnce(s, Options[s]["egress"])
    BY <1>1, <1>2, <1>3, <1>4, CheckQueuePays
<1> QED
    BY <1>5, <1>6

LEMMA AdmitStarts ==
    ASSUME Inv, NEW r \in Requests, NEW s \in Services, ReceiveAdmitted(r, s)
    PROVE  /\ \A t \in Services : StartsFromTheHead(t)
           /\ PaysOnce(s, egress[s])
<1> DEFINE queue == Append(pending[s], r)
           stages == [stage EXCEPT ![r] = "pending"]
<1>1. /\ pending[s] \in Seq(Requests) /\ queue \in Seq(Requests)
      /\ stages \in [Requests -> Stages]
      /\ Silence \in [Requests -> Seq(Kinds)]
      /\ TypeOK /\ processing[s] \in SUBSET Requests /\ egress[s] \in Nat
    BY AppendProperties DEF Inv, TypeOK, Silence, Stages
<1>2. /\ stage[r] = "new"
      /\ CheckQueue(s, queue, processing[s], egress[s], stages, Silence)
      /\ context' = [context EXCEPT ![r] = s]
    BY DEF ReceiveAdmitted
<1>3. r \notin ToSet(pending[s])
    BY <1>2 DEF Inv, InOnePlace
<1>4. CASE pending[s] = <<>>
    <2>1. Head(queue) = r
        BY <1>4
    <2>2. context'[r] = s
        BY <1>2 DEF Inv, TypeOK
    <2> QED
        <3>1. \A q \in Requests : "in_processing" \notin ToSet(Silence[q])
            BY SilenceIsQuiet
        <3> HIDE DEF queue, stages
        <3>2. \A t \in Services : StartsFromTheHead(t)
            BY <1>1, <1>2, <1>3, <2>1, CheckQueueHeads
        <3>3. PaysOnce(s, egress[s])
            BY <1>1, <1>2, <2>1, <2>2, <3>1, CheckQueuePays
        <3> QED
            BY <3>2, <3>3
<1>5. CASE pending[s] # <<>>
    <2>1. Head(queue) = pending[s][1] /\ pending[s][1] \in ToSet(pending[s])
        <3>1. /\ Len(pending[s]) \in Nat /\ 1 \in 1..Len(pending[s])
              /\ DOMAIN pending[s] = 1..Len(pending[s])
            BY <1>1, <1>5
        <3>2. queue[1] = pending[s][1] /\ queue # <<>>
            <4>1. /\ Len(queue) = Len(pending[s]) + 1
                  /\ \A i \in 1..Len(pending[s]) : queue[i] = pending[s][i]
                BY <1>1, AppendProperties
            <4> HIDE DEF queue
            <4>2. Len(queue) # 0
                BY <3>1, <4>1
            <4> QED
                BY <1>1, <3>1, <4>1, <4>2
        <3>3. Head(queue) = queue[1]
            BY <1>1, <3>2
        <3> QED
            BY <3>1, <3>2, <3>3 DEF ToSet
    <2>2. pending[s][1] \in Requests
        BY <1>1, <1>5, ElementOfSeq
    <2>3. context'[Head(queue)] = s
        BY <1>2, <2>1, <2>2 DEF Inv, TypeOK, InOnePlace
    <2> QED
        <3>1. \A q \in Requests : "in_processing" \notin ToSet(Silence[q])
            BY SilenceIsQuiet
        <3> HIDE DEF queue, stages
        <3>2. \A t \in Services : StartsFromTheHead(t)
            BY <1>1, <1>2, <1>5, <2>1, CheckQueueHeads
        <3>3. PaysOnce(s, egress[s])
            BY <1>1, <1>2, <2>3, <3>1, CheckQueuePays
        <3> QED
            BY <3>2, <3>3
<1> QED
    BY <1>4, <1>5

LEMMA ProcessedStarts ==
    ASSUME Inv, NEW r \in Requests, NEW last \in {<<>>, <<"500">>, <<"504">>},
           stage[r] = "processing", Processed(r, last)
    PROVE  /\ \A t \in Services : StartsFromTheHead(t)
           /\ \E s \in Services : PaysOnce(s, egress[s])
<1> DEFINE s == context[r]
           stages == [stage EXCEPT ![r] = "finalizing"]
           written == Writes(r, last \o <<"done">>)
<1>1. /\ CheckQueue(s, pending[s], processing[s] \ {r}, egress[s], stages, written)
      /\ context' = context
    BY DEF Processed
<1>2. s \in Services
    <2>1. s # NoService /\ s \in Services \cup {NoService}
        BY DEF Inv, InOnePlace, TypeOK
    <2> QED
        BY <2>1 DEF Inv, InOnePlace
<1>3. last \o <<"done">> \in {<<"done">>, <<"500", "done">>, <<"504", "done">>}
    BY ClosingMessages
<1>4. /\ stages \in [Requests -> Stages]
      /\ written \in [Requests -> Seq(Kinds)]
      /\ TypeOK /\ pending[s] \in Seq(Requests)
      /\ processing[s] \ {r} \in SUBSET Requests /\ egress[s] \in Nat
    BY <1>2, ClosingMessages, OutputTypes DEF Inv, TypeOK, Stages
<1>5. ASSUME NEW q \in Requests PROVE "in_processing" \notin ToSet(written[q])
    <2>1. CASE q = r
        <3>1. \/ written[q] = <<"done">>
              \/ written[q] = <<"500", "done">>
              \/ written[q] = <<"504", "done">>
            BY <1>3, <2>1, WritesProperties
        <3>2. "in_processing" \notin ToSet(<<"done">>)
            BY OtherMessages
        <3>3. "in_processing" \notin ToSet(<<"500", "done">>)
            BY OtherMessages
        <3>4. "in_processing" \notin ToSet(<<"504", "done">>)
            BY OtherMessages
        <3> HIDE DEF written
        <3> QED
            BY <3>1, <3>2, <3>3, <3>4
    <2>2. CASE q # r
        <3>1. written[q] = <<>>
            BY <2>2, WritesProperties
        <3> QED
            BY <3>1, OtherMessages
    <2> QED
        BY <2>1, <2>2
<1>6. ASSUME pending[s] # <<>>
      PROVE  Head(pending[s]) = pending[s][1] /\ context'[Head(pending[s])] = s
    <2>1. Head(pending[s]) \in ToSet(pending[s]) /\ Head(pending[s]) \in Requests
        BY <1>4, <1>6, ElementOfSeq DEF ToSet
    <2> QED
        BY <1>1, <1>2, <1>4, <1>6, <2>1 DEF Inv, InOnePlace
<1> HIDE DEF s, stages, written
<1>7. \A t \in Services : StartsFromTheHead(t)
    BY <1>1, <1>2, <1>4, <1>6, CheckQueueHeads
<1>8. PaysOnce(s, egress[s])
    BY <1>1, <1>2, <1>4, <1>5, <1>6, CheckQueuePays
<1> QED
    BY <1>2, <1>7, <1>8

\* A callback without _checkQueue starts nobody, and nobody is announced.
LEMMA QuietStarts ==
    ASSUME UNCHANGED processing, \A q \in Requests : ~Announced(q)
    PROVE  /\ \A t \in Services : StartsFromTheHead(t)
           /\ \A s \in Services : PaysOnce(s, egress[s])
BY DEF StartsFromTheHead, PaysOnce

\* What one callback other than a removal starts.
PaidStart ==
    \/ \A q \in Requests : ~Announced(q)
    \/ \E s \in Services : PaysOnce(s, egress[s]) \/ PaysOnce(s, Options[s]["egress"])

LEMMA RefuseStarts ==
    ASSUME Inv, NEW r \in Requests, NEW code \in {"400", "429", "503"}, Refuse(r, code)
    PROVE  (\A t \in Services : StartsFromTheHead(t)) /\ PaidStart
<1>1. processing' = processing /\ out' = Writes(r, <<code, "done">>)
    BY DEF Refuse
<1>2. code # "in_processing"
    OBVIOUS
<1>3. /\ "in_processing" \notin ToSet(<<code, "done">>)
      /\ "in_processing" \notin ToSet(<<>>)
    BY <1>2, OtherMessages
<1>4. \A q \in Requests : ~Announced(q)
    BY <1>1, <1>3, WritesProperties DEF Announced
<1> QED
    BY <1>1, <1>4, QuietStarts DEF PaidStart

\* The removal starts the first n requests that the walk passes over, and closes them.
LEMMA RemoveStarts ==
    ASSUME Inv, NEW s \in Services, RemoveService(s)
    PROVE  /\ \A t \in Services : StartsFromTheHead(t)
           /\ \A q \in Requests : Announced(q) => context'[q] = s
           /\ Options[s]["egress"] # 0 =>
                egress'[s] = egress[s] - Cardinality({q \in Requests : Announced(q)})
<1> DEFINE v == Skipped(pending[s])
           n == Restarted(s)
           started == {v[i] : i \in 1..n}
<1>1. \A r \in Requests :
        /\ r \in started => out'[r] \in Outcomes
        /\ r \notin started /\ r \in processing[s] => out'[r] = <<"done">>
        /\ r \notin started /\ r \notin processing[s] => out'[r] = <<>>
    BY RemoveWrites
<1>2. /\ processing' = [processing EXCEPT ![s] = {}]
      /\ egress' = [egress EXCEPT
                        ![s] = IF Options[s]["egress"] = 0 THEN egress[s] ELSE egress[s] - n]
      /\ context' = context
    BY DEF RemoveService
<1>3. /\ n \in 0..Len(v) /\ Len(v) \in Nat /\ DOMAIN v = 1..Len(v)
      /\ ToSet(v) \subseteq ToSet(pending[s]) /\ IsInjective(v) /\ v \in Seq(Requests)
    BY RemoveWalk
<1> HIDE DEF v, n
<1>4. started \subseteq ToSet(pending[s]) /\ started \subseteq Requests
    <2>1. ASSUME NEW i \in 1..n PROVE v[i] \in ToSet(v) /\ v[i] \in Requests
        <3>1. i \in DOMAIN v /\ i \in 1..Len(v)
            BY <1>3, <2>1
        <3>2. v[i] \in Requests
            BY <1>3, <3>1, ElementOfSeq
        <3> QED
            BY <3>1, <3>2 DEF ToSet
    <2> QED
        BY <1>3, <2>1
<1>5. Cardinality(started) = n
    <2> DEFINE f == [i \in 1..n |-> v[i]]
    <2>1. n \in Nat /\ \A i \in 1..n : i \in DOMAIN v
        BY <1>3
    <2>2. f \in Surjection(1..n, started)
        BY DEF Surjection
    <2>3. f \in Injection(1..n, started)
        BY <1>3, <2>1 DEF Injection, IsInjective
    <2>4. IsFiniteSet(1..n) /\ Cardinality(1..n) = n
        <3>1. 1 \in Int /\ n \in Int
            BY <2>1
        <3>2. /\ IsFiniteSet(1..n)
              /\ Cardinality(1..n) = IF 1 > n THEN 0 ELSE n - 1 + 1
            BY <3>1, FS_Interval
        <3> QED
            BY <2>1, <3>2
    <2> HIDE DEF f, started
    <2> QED
        BY <2>2, <2>3, <2>4, FS_Surjection
<1> HIDE DEF started
<1>6. ASSUME NEW q \in Requests PROVE Announced(q) <=> q \in started
    <2>1. "in_processing" \notin ToSet(<<>>) /\ "in_processing" \notin ToSet(<<"done">>)
        BY OtherMessages, "done" # "in_processing"
    <2>2. CASE q \in started
        BY <1>1, <2>2, OutcomeProperties DEF Announced
    <2>3. CASE q \notin started
        BY <1>1, <2>1, <2>3 DEF Announced
    <2> QED
        BY <2>2, <2>3
<1>7. \A q \in Requests : Announced(q) => context'[q] = s
    BY <1>2, <1>4, <1>6 DEF Inv, InOnePlace
<1>8. Options[s]["egress"] # 0 =>
        egress'[s] = egress[s] - Cardinality({q \in Requests : Announced(q)})
    <2>1. {q \in Requests : Announced(q)} = started
        BY <1>4, <1>6
    <2>2. Options[s]["egress"] # 0 => egress'[s] = egress[s] - n
        BY <1>2 DEF Inv, TypeOK
    <2> QED
        BY <1>5, <2>1, <2>2
<1>9. \A t \in Services : StartsFromTheHead(t)
    BY <1>2 DEF StartsFromTheHead, Inv, TypeOK
<1> QED
    BY <1>7, <1>8, <1>9

\* What any step starts: the removal of a service aside, nobody or one head of a queue.
LEMMA StepStarts ==
    ASSUME Inv, Next
    PROVE  /\ \A t \in Services : StartsFromTheHead(t)
           /\ PaidStart \/ \E s \in Services : RemoveService(s)
<1> DEFINE Fine == /\ \A t \in Services : StartsFromTheHead(t)
                   /\ PaidStart \/ \E s \in Services : RemoveService(s)
<1>1. ASSUME NEW r \in Requests, Receive(r) PROVE Fine
    <2>1. CASE ReceiveUnroutable(r) \/ \E s \in Services : ReceiveOverCapacity(r, s) \/ ReceiveOverRate(r, s)
        <3>1. \E code \in {"400", "429", "503"} : Refuse(r, code)
            BY <2>1 DEF ReceiveUnroutable, ReceiveOverCapacity, ReceiveOverRate
        <3> QED
            BY <3>1, RefuseStarts
    <2>2. ASSUME NEW s \in Services, ReceiveAdmitted(r, s) PROVE Fine
        BY <2>2, AdmitStarts DEF PaidStart
    <2> QED
        BY <1>1, <2>1, <2>2 DEF Receive
<1>2. ASSUME NEW r \in Requests, NEW last \in {<<>>, <<"500">>, <<"504">>},
             stage[r] = "processing", Processed(r, last)
      PROVE  Fine
    BY <1>2, ProcessedStarts DEF PaidStart
<1>3. ASSUME NEW r \in Requests, Handle(r) PROVE Fine
    <2>1. ASSUME NEW kind \in {"frame", "res"}, HandlerEmit(r, kind) PROVE Fine
        <3>1. processing' = processing /\ out' = Writes(r, <<kind>>)
            BY <2>1 DEF HandlerEmit
        <3>2. kind # "in_processing"
            BY <2>1
        <3>3. "in_processing" \notin ToSet(<<kind>>) /\ "in_processing" \notin ToSet(<<>>)
            BY <3>2, OtherMessages
        <3>4. \A q \in Requests : ~Announced(q)
            BY <3>1, <3>3, WritesProperties DEF Announced
        <3> QED
            BY <3>1, <3>4, QuietStarts DEF PaidStart
    <2>2. CASE HandlerComplete(r) \/ HandlerError(r) \/ HandlerTimeout(r)
        BY <1>2, <2>2 DEF HandlerComplete, HandlerError, HandlerTimeout
    <2> QED
        BY <1>3, <2>1, <2>2 DEF Handle
<1>4. ASSUME out' = Silence, processing' = processing PROVE Fine
    <2>1. \A q \in Requests : ~Announced(q)
        BY <1>4, SilenceIsQuiet DEF Announced
    <2> QED
        BY <1>4, <2>1, QuietStarts DEF PaidStart
<1>5. ASSUME NEW r \in Requests, Abort(r) PROVE Fine
    BY <1>2, <1>4, <1>5 DEF Abort, AbortPending, AbortProcessing
<1>6. ASSUME NEW s \in Services, Serve(s) PROVE Fine
    <2>1. CASE Provide(s) \/ RefillIngress(s)
        BY <1>4, <2>1 DEF Provide, RefillIngress
    <2>2. CASE RemoveService(s)
        BY <2>2, RemoveStarts
    <2>3. CASE RefillEgress(s)
        BY <2>3, RefillStarts DEF PaidStart
    <2> QED
        BY <1>6, <2>1, <2>2, <2>3 DEF Serve
<1>7. CASE Heartbeat
    <2>1. /\ processing' = processing
          /\ \A q \in Requests : out'[q] \in {<<"heartbeat">>, <<>>}
        BY <1>7 DEF Heartbeat
    <2>2. "in_processing" \notin ToSet(<<"heartbeat">>) /\ "in_processing" \notin ToSet(<<>>)
        BY OtherMessages, "heartbeat" # "in_processing"
    <2>3. \A q \in Requests : ~Announced(q)
        BY <2>1, <2>2 DEF Announced
    <2> QED
        BY <2>1, <2>3, QuietStarts DEF PaidStart
<1> QED
    BY <1>1, <1>3, <1>5, <1>6, <1>7 DEF Next

\* Requests of a service start in the order they were admitted, whichever callback starts
\* them, for any number of requests and slots (server.ts:278-285).
THEOREM FirstComeFirstServed == Spec => InArrivalOrder
<1> DEFINE Ordered ==
        \A s \in Services : \A i, j \in DOMAIN pending[s] :
            i < j /\ pending[s][j] \in processing'[s] => pending[s][i] \notin ToSet(pending'[s])
<1>1. ASSUME Inv, [Next]_vars PROVE [Ordered]_vars
    <2>1. CASE Next
        <3> SUFFICES ASSUME NEW s \in Services, NEW i \in DOMAIN pending[s],
                            NEW j \in DOMAIN pending[s], i < j,
                            pending[s][j] \in processing'[s]
                     PROVE  FALSE
            OBVIOUS
        <3>1. /\ DOMAIN pending[s] = 1..Len(pending[s]) /\ Len(pending[s]) \in Nat
              /\ pending[s] \in Seq(Requests)
            BY <1>1 DEF Inv, TypeOK
        <3>2. j \in 1..Len(pending[s]) /\ i \in Nat /\ i >= 1 /\ 1 \in DOMAIN pending[s] /\ j # 1
            BY <3>1
        <3>3. pending[s][j] \in ToSet(pending[s]) /\ pending[s][j] \in Requests
            BY <3>1, <3>2, ElementOfSeq DEF ToSet
        <3>4. pending[s][j] \notin processing[s] /\ IsInjective(pending[s])
            BY <1>1, <3>3 DEF Inv, InOnePlace
        <3>5. StartsFromTheHead(s)
            BY <1>1, <2>1, StepStarts
        <3>6. pending[s][j] = pending[s][1]
            BY <3>3, <3>4, <3>5 DEF StartsFromTheHead
        <3> QED
            BY <3>2, <3>4, <3>6 DEF IsInjective
    <2> QED
        BY <1>1, <2>1
<1> QED
    BY <1>1, InductiveInvariant, PTL DEF Spec, InArrivalOrder

\* A service starts no more requests than it takes tokens for, in the removal of the
\* service as well, where one callback starts several (server.ts:234-264, 278-285).
THEOREM StartsCostTokens == Spec => StartsArePaid
<1> DEFINE Began(s) == {r \in Requests : context'[r] = s /\ "in_processing" \in ToSet(out'[r])}
           Paid ==
               \A s \in Services :
                   LET started == {r \in Requests :
                                        context'[r] = s /\ "in_processing" \in ToSet(out'[r])}
                   IN  Options[s]["egress"] # 0 /\ started # {} =>
                         \/ egress'[s] = egress[s] - Cardinality(started)
                         \/ egress'[s] = Options[s]["egress"] - 1 /\ Cardinality(started) = 1
<1>1. ASSUME Inv, [Next]_vars PROVE [Paid]_vars
    <2>1. CASE Next
        <3> SUFFICES ASSUME NEW s \in Services, Options[s]["egress"] # 0, Began(s) # {}
                     PROVE  \/ egress'[s] = egress[s] - Cardinality(Began(s))
                            \/ /\ egress'[s] = Options[s]["egress"] - 1
                               /\ Cardinality(Began(s)) = 1
            OBVIOUS
        <3>1. Began(s) = {r \in Requests : context'[r] = s /\ Announced(r)}
            BY DEF Announced
        <3> HIDE DEF Began
        <3>2. ASSUME NEW t \in Services, NEW tokens, PaysOnce(t, tokens)
              PROVE  t = s /\ egress'[s] = tokens - 1 /\ Cardinality(Began(s)) = 1
            <4>1. PICK h \in Requests :
                    /\ context'[h] = t
                    /\ \A q \in Requests \ {h} : ~Announced(q)
                    /\ Options[t]["egress"] # 0 => egress'[t] = tokens - 1
                BY <3>1, <3>2 DEF PaysOnce
            <4>2. Began(s) = {h} /\ t = s
                BY <3>1, <4>1
            <4>3. Cardinality({h}) = 1
                BY FS_Singleton
            <4> QED
                BY <4>1, <4>2, <4>3
        <3>3. CASE PaidStart
            <4>1. PICK t \in Services :
                    PaysOnce(t, egress[t]) \/ PaysOnce(t, Options[t]["egress"])
                BY <3>1, <3>3 DEF PaidStart
            <4> QED
                BY <3>2, <4>1
        <3>4. ASSUME NEW t \in Services, RemoveService(t)
              PROVE  egress'[s] = egress[s] - Cardinality(Began(s))
            <4>1. /\ \A q \in Requests : Announced(q) => context'[q] = t
                  /\ Options[t]["egress"] # 0 =>
                        egress'[t] = egress[t] - Cardinality({q \in Requests : Announced(q)})
                BY <1>1, <3>4, RemoveStarts
            <4>2. t = s /\ Began(s) = {q \in Requests : Announced(q)}
                BY <3>1, <4>1
            <4> QED
                BY <4>1, <4>2
        <3> QED
            BY <1>1, <2>1, <3>3, <3>4, StepStarts
    <2> QED
        BY <1>1, <2>1
<1> QED
    BY <1>1, InductiveInvariant, PTL DEF Spec, StartsArePaid
=============================================================================
