--------------------------- MODULE SeriesScheduler ---------------------------
(***************************************************************************)
(* The series data scheduler of the virtual exchange:                      *)
(* apps/virtual-exchange/src/series-data/scheduler.ts and fifo-queue.ts.    *)
(*                                                                         *)
(* A capability is what some service offers: to ingest the series of the   *)
(* products with a certain prefix.  Each has a queue of head jobs (a       *)
(* series lacks recent data) and one of tail jobs (it may be extended      *)
(* into the past), one job at a time, and a backoff.  A tick reads the     *)
(* products of one capability, and then starts jobs round robin until it   *)
(* is told to stop.  A series of two capabilities belongs to the one that  *)
(* scanned it last.                                                        *)
(*                                                                         *)
(* The data of a series is abstracted to whether it is recent.  Counters    *)
(* that only grow are kept as the position they select; a new list of      *)
(* capabilities puts them anywhere.                                        *)
(***************************************************************************)
EXTENDS Integers, SequencesExt, FiniteSetsExt, Selection

CONSTANTS
    Cap, Series,
    SeriesOf,       \* SeriesOf[c]: the series of the products of c, in order
    NoCap, NoJob,
    MaxInflight,    \* CONFIG.maxInflight
    TailOnlyBelow,  \* CONFIG.tailOnlyWhenGlobalHeadBelow
    Lists           \* the lists of capabilities that are found, one after the other

Jobs == [kind : {"head", "tail"}, of : Series]

ASSUME SeriesAssumption ==
    /\ SeriesOf \in [Cap -> Seq(Series)]
    /\ \A c \in Cap : IsInjective(SeriesOf[c])
    /\ NoCap \notin Cap /\ NoJob \notin Jobs
ASSUME LimitAssumption ==
    MaxInflight \in Nat \ {0} /\ TailOnlyBelow \in Nat \ {0}
ASSUME ListAssumption ==
    /\ Lists \in Seq(Seq(Cap)) /\ Lists # <<>>
    /\ \A i \in DOMAIN Lists : IsInjective(Lists[i])

VARIABLES
    capabilities,       \* the capabilities, in the order in which they were found
    scanned,            \* those whose nextScanAt lies ahead
    scanIndex, capRunIndex,     \* positions in capabilities, from 0
    headQueue, tailQueue,       \* the queues of c; pendingHead, pendingTail are their elements
    job,                \* job[c]: the job of c in flight
    resting,            \* the capabilities whose nextEligibleAt lies ahead
    capOf,              \* capOf[s]: capKey of a series, NoCap if it is unknown
    recent,             \* the series whose union ends less than the head lag ago
    tick,               \* "waiting", "scanning" or "running"
    scanning,           \* the capability whose products are read
    refreshes           \* how many lists there were (auxiliary)

found == <<capabilities, scanned, scanIndex, capRunIndex>>
queues == <<headQueue, tailQueue>>
series == <<capOf, recent>>
vars == <<found, queues, job, resting, series, tick, scanning, refreshes>>

Init ==
    /\ capabilities = Lists[1]
    /\ scanned = {}
    /\ scanIndex = 0
    /\ capRunIndex = 0
    /\ headQueue = [c \in Cap |-> <<>>]
    /\ tailQueue = [c \in Cap |-> <<>>]
    /\ job = [c \in Cap |-> NoJob]
    /\ resting = {}
    /\ capOf = [s \in Series |-> NoCap]
    /\ recent = {}
    /\ tick = "waiting"
    /\ scanning = NoCap
    /\ refreshes = 1

Quiet == tick # "running"
Busy == {c \in Cap : job[c] # NoJob}
Inflight == Cardinality(Busy)
At(i) == capabilities[(i % Len(capabilities)) + 1]

-----------------------------------------------------------------------------
(* Scheduling a series.                                                    *)

\* Mutant: whether the series is pending is not looked at.
AddAgain(q, s) == Append(q, s)

Add(q, s) == IF s \in ToSet(q) THEN q ELSE Append(q, s)

\* Mutant: a series whose job brought nothing is not scheduled again.
NotScheduled(s, needHead) == UNCHANGED queues

\* scheduleSeries of s.
Scheduled(s, needHead) ==
    LET c == capOf[s] IN
    IF needHead
    THEN headQueue' = [headQueue EXCEPT ![c] = Add(@, s)] /\ UNCHANGED tailQueue
    ELSE tailQueue' = [tailQueue EXCEPT ![c] = Add(@, s)] /\ UNCHANGED headQueue

-----------------------------------------------------------------------------
(* The tick: scanProductsOnce, then the loop.                              *)

Tick ==
    /\ tick = "waiting"
    /\ IF capabilities = <<>> \/ At(scanIndex) \in scanned
       THEN tick' = "running" /\ UNCHANGED scanning
       ELSE tick' = "scanning" /\ scanning' = At(scanIndex)
    /\ scanIndex' = IF capabilities = <<>> THEN 0 ELSE (scanIndex + 1) % Len(capabilities)
    /\ UNCHANGED <<capabilities, scanned, capRunIndex, queues, job, resting, series, refreshes>>

\* Where in the scan of c the series S are.
Among(c, S) == {i \in DOMAIN SeriesOf[c] : SeriesOf[c][i] \in S}

\* The products are read; their series are made known to c and scheduled, by what is
\* known of each.  nextScanAt is lost if c is no longer the capability that was found.
ScanAnswered ==
    /\ tick = "scanning"
    /\ LET c == scanning
           heads == Among(c, Series \ (recent \cup ToSet(headQueue[c])))
           tails == Among(c, recent \ ToSet(tailQueue[c])) IN
       /\ headQueue' = [headQueue EXCEPT ![c] = @ \o Pick(SeriesOf[c], heads)]
       /\ tailQueue' = [tailQueue EXCEPT ![c] = @ \o Pick(SeriesOf[c], tails)]
       /\ capOf' = [s \in Series |-> IF s \in ToSet(SeriesOf[c]) THEN c ELSE capOf[s]]
       /\ scanned' = scanned \cup ({c} \cap ToSet(capabilities))
    /\ scanning' = NoCap
    /\ tick' = "running"
    /\ UNCHANGED <<capabilities, scanIndex, capRunIndex, job, resting, recent, refreshes>>

ScanFails ==
    /\ tick = "scanning"
    /\ scanning' = NoCap
    /\ tick' = "running"
    /\ UNCHANGED <<found, queues, job, resting, series, refreshes>>

Runnable(c) ==
    job[c] = NoJob /\ c \notin resting /\ (headQueue[c] # <<>> \/ tailQueue[c] # <<>>)

\* The steps from capRunIndex to the capabilities that may run.
RunnableSteps ==
    {i \in 0..Len(capabilities) - 1 : Runnable(At(capRunIndex + i))}

\* Mutant: every pick starts with the first capability.
FromTheFirst(i) == 0

\* Where a pick that took i steps leaves capRunIndex.
NextRunIndex(i) == (capRunIndex + i + 1) % Len(capabilities)

GlobalHeadBacklog == FoldSet(LAMBDA c, n : n + Len(headQueue[c]), 0, Cap)

HasRoom == Inflight < MaxInflight

\* The loop starts a job of the next capability.
Start ==
    /\ tick = "running" /\ HasRoom /\ RunnableSteps # {}
    /\ LET i == Min(RunnableSteps)
           c == At(capRunIndex + i) IN
       /\ capRunIndex' = NextRunIndex(i)
       /\ \/ /\ headQueue[c] # <<>>
             /\ job' = [job EXCEPT ![c] =
                           [kind |-> "head", of |-> Head(headQueue[c])]]
             /\ headQueue' = [headQueue EXCEPT ![c] = Tail(@)]
             /\ UNCHANGED <<tailQueue, tick>>
          \/ /\ headQueue[c] = <<>> /\ GlobalHeadBacklog < TailOnlyBelow
             /\ job' = [job EXCEPT ![c] =
                           [kind |-> "tail", of |-> Head(tailQueue[c])]]
             /\ tailQueue' = [tailQueue EXCEPT ![c] = Tail(@)]
             /\ UNCHANGED <<headQueue, tick>>
          \/ /\ headQueue[c] = <<>> /\ GlobalHeadBacklog >= TailOnlyBelow
             /\ tick' = "waiting"
             /\ UNCHANGED <<job, queues>>
    /\ UNCHANGED <<capabilities, scanned, scanIndex, resting, series, scanning, refreshes>>

\* The loop ends: there is no room, or nothing that may run.
Stop ==
    /\ tick = "running"
    /\ ~HasRoom \/ RunnableSteps = {}
    /\ tick' = "waiting"
    /\ UNCHANGED <<found, queues, job, resting, series, scanning, refreshes>>

-----------------------------------------------------------------------------
(* The rest of executeJob, and its finally.                                *)

\* The provider answers with a range and the ranges are merged: the data may be recent
\* now.  (That the backoff is reset says nothing: c does not rest.)
JobSucceeds(c) ==
    /\ Quiet /\ job[c] # NoJob
    /\ LET s == job[c].of IN
       /\ recent' \in {recent \cup {s}, recent \ {s}}
       /\ Scheduled(s, s \notin recent')
    /\ job' = [job EXCEPT ![c] = NoJob]
    /\ UNCHANGED <<found, resting, capOf, tick, scanning, refreshes>>

\* Nothing comes back, or the request or the merge fails.
JobFails(c) ==
    /\ Quiet /\ job[c] # NoJob
    /\ resting' = resting \cup {c}
    /\ Scheduled(job[c].of, job[c].of \notin recent)
    /\ job' = [job EXCEPT ![c] = NoJob]
    /\ UNCHANGED <<found, series, tick, scanning, refreshes>>

-----------------------------------------------------------------------------
(* Time and services.                                                      *)

BackoffEnds(c) ==
    /\ Quiet /\ c \in resting
    /\ resting' = resting \ {c}
    /\ UNCHANGED <<found, queues, job, series, tick, scanning, refreshes>>

DataAges(s) ==
    /\ Quiet /\ s \in recent
    /\ recent' = recent \ {s}
    /\ UNCHANGED <<found, queues, job, resting, capOf, tick, scanning, refreshes>>

ScanIsDue(c) ==
    /\ Quiet /\ c \in scanned
    /\ scanned' = scanned \ {c}
    /\ UNCHANGED <<capabilities, scanIndex, capRunIndex, queues, job, resting, series,
                   tick, scanning, refreshes>>

\* terminalInfos$: what is found again stays as it is; the queues stay in any case.
Refresh ==
    /\ Quiet
    /\ refreshes < Len(Lists)
    /\ refreshes' = refreshes + 1
    /\ capabilities' = Lists[refreshes']
    /\ scanned' = scanned \cap ToSet(capabilities')
    /\ scanIndex' \in 0..Max({0, Len(capabilities') - 1})
    /\ capRunIndex' \in 0..Max({0, Len(capabilities') - 1})
    /\ UNCHANGED <<queues, job, resting, series, tick, scanning>>

-----------------------------------------------------------------------------

Next ==
    \/ Tick \/ ScanAnswered \/ ScanFails \/ Start \/ Stop \/ Refresh
    \/ \E c \in Cap :
          JobSucceeds(c) \/ JobFails(c) \/ BackoffEnds(c) \/ ScanIsDue(c)
    \/ \E s \in Series : DataAges(s)

Spec == Init /\ [][Next]_vars

\* The tick repeats every second and runs to its end; requests are answered or given up
\* after 60 s; a backoff is at most five minutes.  That a service ever has data is not
\* assumed, and neither is that the products can be read.
Fairness ==
    /\ WF_vars(Tick)
    /\ WF_vars(ScanAnswered \/ ScanFails)
    /\ WF_vars(Start)
    /\ WF_vars(Stop)
    /\ \A c \in Cap :
          /\ SF_vars(JobSucceeds(c) \/ JobFails(c))
          /\ SF_vars(BackoffEnds(c))

FairSpec == Spec /\ Fairness

-----------------------------------------------------------------------------
(* Properties.                                                             *)

\* The types of the state; a series is pending once in a queue, and no more requests are in
\* flight than CONFIG.maxInflight.
TypeOK ==
    /\ capabilities = Lists[refreshes]
    /\ scanned \subseteq Cap
    /\ scanIndex \in Nat /\ capRunIndex \in Nat
    /\ DOMAIN headQueue = Cap /\ DOMAIN tailQueue = Cap
    /\ \A c \in Cap :
          /\ headQueue[c] \in Seq(Series) /\ IsInjective(headQueue[c])
          /\ tailQueue[c] \in Seq(Series) /\ IsInjective(tailQueue[c])
    /\ job \in [Cap -> Jobs \cup {NoJob}]
    /\ Inflight <= MaxInflight
    /\ resting \subseteq Cap
    /\ capOf \in [Series -> Cap \cup {NoCap}]
    /\ recent \subseteq Series
    /\ tick \in {"waiting", "scanning", "running"}
    /\ scanning \in Cap \cup {NoCap}
    /\ refreshes \in DOMAIN Lists

\* "Otherwise the queue may be consumed to empty and appear stuck": a series once found
\* is always in a queue or in flight, whatever fails and whichever capabilities it
\* moves between (scheduler.ts:433-483).
NoSeriesIsLost ==
    \A s \in Series : capOf[s] # NoCap =>
        \E c \in Cap :
            \/ s \in ToSet(headQueue[c]) \cup ToSet(tailQueue[c])
            \/ job[c] # NoJob /\ job[c].of = s

\* Every head job is started, unless its capability vanishes, however the others
\* fail, come and go, and however few jobs may run at once (scheduler.ts:493-505).
HeadsAreServed ==
    \A c \in Cap, s \in Series :
        s \in ToSet(headQueue[c])
            ~> s \notin ToSet(headQueue[c]) \/ c \notin ToSet(capabilities)
=============================================================================
