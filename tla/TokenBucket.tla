----------------------------- MODULE TokenBucket -----------------------------
(***************************************************************************)
(* A token bucket and the semaphore it is made of:                         *)
(* libraries/utils/src/tokenBucket.ts and semaphore.ts.  The semaphore     *)
(* counts tokens and queues callers; the bucket fills it when it is made   *)
(* and at every tick.  Disposing a bucket stops its ticks; the semaphore   *)
(* lives on under its name and a bucket made again fills it again.         *)
(*                                                                         *)
(* Callers come again and again, with one call at a time; acquire runs to  *)
(* its first wait in one go.                                               *)
(***************************************************************************)
EXTENDS Integers, Sequences, FiniteSetsExt

CONSTANTS
    Callers,        \* the calls of acquire and acquireSync
    Tokens,         \* Tokens[c]: how many tokens c asks for
    Signals,        \* abort signals
    Signal,         \* Signal[c]: the signal c gave, or NoSignal
    NoSignal,
    Capacity,       \* options.capacity
    RefillAmount,   \* options.refillAmount
    MaxLives        \* bound: how often the bucket is made

ASSUME TokensAssumption == Tokens \in [Callers -> Nat]
ASSUME SignalAssumption == Signal \in [Callers -> Signals \cup {NoSignal}]
ASSUME NoSignalAssumption == NoSignal \notin Signals
ASSUME CapacityAssumption == Capacity \in Nat \ {0}
ASSUME RefillAmountAssumption == RefillAmount \in Nat \ {0}
ASSUME MaxLivesAssumption == MaxLives \in Nat

VARIABLES
    available,  \* state.available of the semaphore
    queue,      \* state.data from head on: the callers in line, aborted ones too
    call,       \* call[c]: "idle", "waiting", "granted", "aborted" or "refused"
    fired,      \* the signals that were aborted
    mapped,     \* mapTokenBucketIdToState has the bucket
    ticking,    \* the buckets made so far, by number, whose interval runs
    lives,      \* how often the bucket was made (auxiliary)
    issued      \* the tokens released and not yet used up (auxiliary)

vars == <<available, queue, call, fired, mapped, ticking, lives, issued>>

Init ==
    /\ available = 0
    /\ queue = <<>>
    /\ call = [c \in Callers |-> "idle"]
    /\ fired = {}
    /\ mapped = FALSE
    /\ ticking = {}
    /\ lives = 0
    /\ issued = 0

-----------------------------------------------------------------------------
(* The semaphore.                                                          *)

\* Mutant: off by one.
EnoughPlusOne(tokens) == available + 1 >= tokens

Enough(tokens) == available >= tokens

\* Mutant: nobody looks at the signal of the next in line.
CostOfAll(c) == Tokens[c]

\* A caller whose signal was aborted is passed over at no cost.
Cost(c) == IF Signal[c] \in fired THEN 0 ELSE Tokens[c]

\* What the first i in line need together.
Owed[i \in 0..Len(queue)] == IF i = 0 THEN 0 ELSE Owed[i - 1] + Cost(queue[i])

\* Mutant: one caller is woken per release.
ServedOne(total) == Max({i \in 0..Len(queue) : Owed[i] <= total /\ i <= 1})

\* The loop of release: how many leave the line when `total` tokens are there.
Served(total) == Max({i \in 0..Len(queue) : Owed[i] <= total})

Release(tokens) ==
    LET total == available + tokens
        n == Served(total)
        served == {queue[i] : i \in 1..n}
    IN
    /\ issued' = issued + tokens
    /\ available' = total - Owed[n]
    /\ queue' = SubSeq(queue, n + 1, Len(queue))
    /\ call' = [c \in Callers |->
                IF c \in served /\ call[c] = "waiting" THEN "granted" ELSE call[c]]

Take(c) ==
    /\ available' = available - Tokens[c]
    /\ call' = [call EXCEPT ![c] = "granted"]
    /\ UNCHANGED queue

Settle(c, outcome) ==
    /\ call' = [call EXCEPT ![c] = outcome]
    /\ UNCHANGED <<available, queue>>

\* Mutant: the request is not compared with the capacity.
TooManyNever(c) == FALSE

TooMany(c) == Tokens[c] > Capacity

\* A free token goes to whoever asks now, whoever is in line.
Acquire(c) ==
    /\ call[c] = "idle"
    /\ lives > 0
    /\ \/ Tokens[c] = 0 /\ Settle(c, "granted")
       \/ Tokens[c] > 0 /\ TooMany(c) /\ Settle(c, "refused")
       \/ /\ Tokens[c] > 0 /\ ~TooMany(c)
          /\ \/ Signal[c] \in fired /\ Settle(c, "aborted")
             \/ Signal[c] \notin fired /\ Enough(Tokens[c]) /\ Take(c)
             \/ /\ Signal[c] \notin fired /\ ~Enough(Tokens[c])
                /\ queue' = Append(queue, c)
                /\ call' = [call EXCEPT ![c] = "waiting"]
                /\ UNCHANGED available
    /\ UNCHANGED <<fired, mapped, ticking, lives, issued>>

AcquireSync(c) ==
    /\ call[c] = "idle"
    /\ lives > 0
    /\ \/ Enough(Tokens[c]) /\ Take(c)
       \/ ~Enough(Tokens[c]) /\ Settle(c, "refused")
    /\ UNCHANGED <<fired, mapped, ticking, lives, issued>>

\* The callers that gave the signal are rejected and stay in line.
Abort(s) ==
    /\ s \notin fired
    /\ fired' = fired \cup {s}
    /\ call' = [c \in Callers |->
                IF call[c] = "waiting" /\ Signal[c] = s THEN "aborted" ELSE call[c]]
    /\ UNCHANGED <<available, queue, mapped, ticking, lives, issued>>

\* Whoever has had its answer may ask once more; the tokens it was granted are
\* used up.
ComeAgain(c) ==
    /\ call[c] \in {"granted", "refused"}
    /\ call' = [call EXCEPT ![c] = "idle"]
    /\ issued' = IF call[c] = "granted" THEN issued - Tokens[c] ELSE issued
    /\ UNCHANGED <<available, queue, fired, mapped, ticking, lives>>

-----------------------------------------------------------------------------
(* The bucket.                                                             *)

Create ==
    /\ ~mapped
    /\ lives < MaxLives
    /\ mapped' = TRUE
    /\ lives' = lives + 1
    /\ ticking' = ticking \cup {lives + 1}
    /\ Release(Capacity)
    /\ UNCHANGED fired

Refill == Min({RefillAmount, Capacity - available})

\* The interval of one of the buckets.
Tick ==
    /\ ticking # {}
    /\ Refill > 0
    /\ Release(Refill)
    /\ UNCHANGED <<fired, mapped, ticking, lives>>

\* A handle of the i-th bucket is disposed, perhaps not for the first time.  The
\* map forgets the name, whichever bucket has it by now: the interval of a later
\* one goes on, and the next to ask for the bucket makes one more.
Dispose(i) ==
    /\ i <= lives
    /\ ticking' = ticking \ {i}
    /\ mapped' = FALSE
    /\ UNCHANGED <<available, queue, call, fired, lives, issued>>

-----------------------------------------------------------------------------
Next ==
    \/ \E c \in Callers : Acquire(c) \/ AcquireSync(c) \/ ComeAgain(c)
    \/ \E s \in Signals : Abort(s)
    \/ Create
    \/ Tick
    \/ \E i \in 1..MaxLives : Dispose(i)

Spec == Init /\ [][Next]_vars

\* The intervals of buckets that are not disposed tick.
FairSpec == Spec /\ WF_vars(Tick)
-----------------------------------------------------------------------------
(* Properties.                                                             *)

\* Every variable has its type; a bucket never goes below zero and never holds more than
\* its capacity, once for every time it was made.
TypeOK ==
    /\ available \in 0..(Capacity * lives)
    /\ queue \in Seq(Callers)
    /\ call \in [Callers -> {"idle", "waiting", "granted", "aborted", "refused"}]
    /\ fired \in SUBSET Signals
    /\ mapped \in BOOLEAN
    /\ ticking \in SUBSET (1..lives)
    /\ lives \in 0..MaxLives
    /\ issued \in Nat

\* No token is lost or made up: what was released and is not used up is there or
\* was granted, though callers give up while they are in line.
TokensAreConserved ==
    issued = available + MapThenSumSet(LAMBDA c : Tokens[c],
                                       {c \in Callers : call[c] = "granted"})

\* The first in line could not be served now, unless it gave up: release leaves
\* nobody waiting whom it could have woken.
FirstInLineMustWait ==
    queue # <<>> /\ call[Head(queue)] = "waiting" => ~Enough(Tokens[Head(queue)])

\* c gets its tokens at once although others are in line.
Overtakes(c) ==
    /\ queue # <<>>
    /\ Tokens[c] > 0
    /\ Acquire(c) \/ AcquireSync(c)
    /\ call'[c] = "granted"

\* Only one thing keeps a caller of a ticking bucket waiting for ever: newcomers
\* that overtake the line for ever.  No aborted caller blocks the line, and the
\* refill stops only when nobody needs it.
WaitersAreServed ==
    \A c \in Callers :
        <>[](call[c] = "waiting" /\ ticking # {}) => []<><<\E d \in Callers : Overtakes(d)>>_vars
=============================================================================
