------------------------------ MODULE NodeUnits ------------------------------
(***************************************************************************)
(* Node units and the deployments they run: apps/node-unit/src/scheduler.ts *)
(* and the executor at the end of apps/node-unit/src/index.ts.              *)
(*                                                                         *)
(* A table in a database says which unit runs what.  Every unit runs two   *)
(* loops over it.  The scheduler reads the table, decides with the units   *)
(* it believes to be online whether it may claim a deployment, picks one   *)
(* and claims it by an UPDATE; each of these is a request, and everything  *)
(* else happens in between.  The executor reads which deployments are the  *)
(* unit's own and starts, restarts and stops them accordingly.             *)
(*                                                                         *)
(* The database is external: a statement is atomic, a trigger gives every  *)
(* updated row a new updated_at, and an UPDATE that its unit has given up  *)
(* waiting for may still be executed.  Of the host and the terminals there *)
(* is what HostDirectory and DirectoryReplica say in detail: who is listed,*)
(* and what each unit has heard of the list.                               *)
(***************************************************************************)
EXTENDS Integers, FiniteSets

CONSTANTS
    Unit,           \* the node units, by address
    NoUnit,         \* the address '' of a deployment nobody has
    Deployment,     \* the rows of the table, by id
    Trusted,        \* those whose package matches TRUSTED_PACKAGE_REGEXP
    Policy,         \* Policy[u]: NODE_UNIT_CLAIM_POLICY of u
    Usage,          \* the loads a unit may report
    NoDeployment,
    MaxFaults,      \* bound: crashes, lost connections and routes, UPDATEs given up
    MaxEdits        \* bound: edits of the table by hand

Policies == {"deployment_count", "resource_usage", "none"}

ASSUME NoUnitAssumption == NoUnit \notin Unit
ASSUME NoDeploymentAssumption == NoDeployment \notin Deployment
ASSUME DeploymentAssumption == IsFiniteSet(Deployment)
ASSUME TrustedAssumption == Trusted \subseteq Deployment
ASSUME PolicyAssumption == Policy \in [Unit -> Policies]
ASSUME UsageAssumption == Usage \subseteq Nat /\ Usage # {}
ASSUME BoundsAssumption == MaxFaults \in Nat /\ MaxEdits \in Nat

VARIABLES
    address,    \* address[d]: the unit d is assigned to, or NoUnit
    daemon,     \* the deployments of type 'daemon'; the others are of type 'deployment'
    enabled,    \* the deployments with enabled = true
    older,      \* the pairs <<d, e>> with the updated_at of d before that of e
    link,       \* link[u]: u is "down", "cut" off the host, or "up"
    listed,     \* the units in the host's list of terminals
    active,     \* active[u]: activeNodeUnits, what u has heard of that list
    cycle,      \* cycle[u]: the locals of runSchedulerCycle
    poll,       \* poll[u]: the query of the executor, and its answer
    run,        \* run[u]: the deployments u runs
    current,    \* current[u]: those among them whose row is the one they run by
    strays,     \* strays[u]: the cycles given up while their UPDATE was on its way
    orphans,    \* the pairs <<u, d>> of a child left by an earlier process of u
    faults, edits   \* how many so far (auxiliary)

table == <<address, daemon, enabled, older>>
units == <<link, listed, active>>
loops == <<cycle, poll, run, current>>
left == <<strays, orphans>>
vars == <<table, units, loops, left, faults, edits>>

IdleCycle == [at |-> "idle", active |-> {}, lost |-> {}, candidate |-> NoDeployment]
NoPoll == [open |-> FALSE, list |-> {}, same |-> {}, fresh |-> {}]

\* A strict total order of the deployments; rows of one updated_at go by created_at and id.
TotallyOrders(R) ==
    /\ \A d \in Deployment : <<d, d>> \notin R
    /\ \A d, e \in Deployment : d # e => <<d, e>> \in R \/ <<e, d>> \in R
    /\ \A d, e, f \in Deployment : <<d, e>> \in R /\ <<e, f>> \in R => <<d, f>> \in R

Orders == {R \in SUBSET (Deployment \X Deployment) : TotallyOrders(R)}

Init ==
    /\ address = [d \in Deployment |-> NoUnit]
    /\ daemon \in SUBSET Deployment
    /\ enabled = Deployment
    /\ older \in Orders
    /\ link = [u \in Unit |-> "down"]
    /\ listed = {}
    /\ active = [u \in Unit |-> {}]
    /\ cycle = [u \in Unit |-> IdleCycle]
    /\ poll = [u \in Unit |-> NoPoll]
    /\ run = [u \in Unit |-> {}]
    /\ current = [u \in Unit |-> {}]
    /\ strays = [u \in Unit |-> {}]
    /\ orphans = {}
    /\ faults = 0
    /\ edits = 0

-----------------------------------------------------------------------------
(* The table.                                                              *)

Schedulable == enabled \ daemon

\* The row of d is updated: d is the youngest, and what runs by the old row is
\* not up to date.
RowUpdated(d) ==
    /\ older' = {p \in older : p[1] # d} \cup {<<e, d>> : e \in Deployment \ {d}}
    /\ current' = [u \in Unit |-> current[u] \ {d}]

\* The answer a query of u has brought, if it reads the row of d, is out of date.
Outdated(q, d) == [q EXCEPT !.fresh = @ \ {d}]

\* The oldest of a set of rows: ORDER BY updated_at LIMIT 1.
Oldest(S) == CHOOSE d \in S : \A e \in S \ {d} : <<d, e>> \in older

\* Somebody enables, disables or otherwise changes a deployment.
Edit(d, on) ==
    /\ edits < MaxEdits
    /\ edits' = edits + 1
    /\ enabled' = IF on THEN enabled \cup {d} ELSE enabled \ {d}
    /\ RowUpdated(d)
    /\ poll' = [u \in Unit |-> Outdated(poll[u], d)]
    /\ UNCHANGED <<address, daemon, units, cycle, run, left, faults>>

-----------------------------------------------------------------------------
(* The scheduler of u.                                                     *)

Counts(nodeUnits) ==
    [n \in nodeUnits |-> Cardinality({d \in Schedulable : address[d] = n})]

\* What the policy of u may measure; the loads are whatever the units report.
Snapshots(u, nodeUnits) ==
    IF Policy[u] = "resource_usage" THEN [nodeUnits -> Usage] ELSE {Counts(nodeUnits)}

PickEligible(nodeUnits, value) ==
    {n \in nodeUnits : \A m \in nodeUnits : value[n] <= value[m]}

\* Mutant: the units that are online are not left out.
AddressesInUse(u) == {address[d] : d \in Schedulable} \ {NoUnit, u}

LostAddresses(u) == {address[d] : d \in Schedulable} \ ({NoUnit} \cup active[u])

\* The cycle begins: the table is read and u is found eligible, or nothing happens.
List(u) ==
    /\ link[u] = "up"
    /\ cycle[u].at = "idle"
    /\ Policy[u] # "none"
    /\ \E value \in Snapshots(u, active[u]) : u \in PickEligible(active[u], value)
    /\ LET lost == LostAddresses(u) IN
       cycle' = [cycle EXCEPT ![u] =
           [at |-> IF lost = {} THEN "free" ELSE "lost",
            active |-> active[u], lost |-> lost, candidate |-> NoDeployment]]
    /\ UNCHANGED <<table, units, poll, run, current, left, faults, edits>>

Candidates(S) == {d \in Schedulable : address[d] \in S}

\* The first query of pickCandidateDeployment: a deployment of a lost unit.
PickLost(u) ==
    /\ link[u] = "up"
    /\ cycle[u].at = "lost"
    /\ LET found == Candidates(cycle[u].lost) IN
       cycle' = IF found = {}
                THEN [cycle EXCEPT ![u].at = "free"]
                ELSE [cycle EXCEPT ![u].at = "claim", ![u].candidate = Oldest(found)]
    /\ UNCHANGED <<table, units, poll, run, current, left, faults, edits>>

\* Its second query: a deployment that nobody has.
PickFree(u) ==
    /\ link[u] = "up"
    /\ cycle[u].at = "free"
    /\ LET found == Candidates({NoUnit}) IN
       cycle' = IF found = {}
                THEN [cycle EXCEPT ![u] = IdleCycle]
                ELSE [cycle EXCEPT ![u].at = "claim", ![u].candidate = Oldest(found)]
    /\ UNCHANGED <<table, units, poll, run, current, left, faults, edits>>

\* Mutant: the UPDATE has the id only.
ClaimableAlways(d, lost) == TRUE

\* Mutant: it takes deployments that nobody has and no others.
ClaimableWhenFree(d, lost) == d \notin daemon /\ address[d] = NoUnit

\* The WHERE of the UPDATE.
Claimable(d, lost) == d \notin daemon /\ address[d] \in {NoUnit} \cup lost

\* The UPDATE of the cycle c.
Update(u, c) ==
    LET d == c.candidate IN
    \/ /\ Claimable(d, c.lost)
       /\ address' = [address EXCEPT ![d] = u]
       /\ RowUpdated(d)
       /\ poll' = [v \in Unit |-> Outdated(poll[v], d)]
    \/ ~Claimable(d, c.lost) /\ UNCHANGED <<address, older, current, poll>>

\* It may be on its way when u loses its connection.
ClaimDeployment(u) ==
    /\ cycle[u].at = "claim"
    /\ Update(u, cycle[u])
    /\ cycle' = [cycle EXCEPT ![u] = IdleCycle]
    /\ UNCHANGED <<daemon, enabled, units, run, left, faults, edits>>

\* A request of the cycle fails: it is refused, it times out, or the connection is
\* lost.  The next cycle starts over.
CycleFails(u) ==
    /\ cycle[u].at # "idle"
    /\ cycle' = [cycle EXCEPT ![u] = IdleCycle]
    /\ UNCHANGED <<table, units, poll, run, current, left, faults, edits>>

\* The same, while the UPDATE is on its way to the database.
GiveUp(u) ==
    /\ cycle[u].at = "claim"
    /\ faults < MaxFaults
    /\ faults' = faults + 1
    /\ strays' = [strays EXCEPT ![u] = @ \cup {cycle[u]}]
    /\ cycle' = [cycle EXCEPT ![u] = IdleCycle]
    /\ UNCHANGED <<table, units, poll, run, current, orphans, edits>>

\* There it is executed in the end, whatever u does by now.
ClaimLate(u) ==
    \E c \in strays[u] :
        /\ Update(u, c)
        /\ strays' = [strays EXCEPT ![u] = @ \ {c}]
        /\ UNCHANGED <<daemon, enabled, units, cycle, run, orphans, faults, edits>>

-----------------------------------------------------------------------------
(* The executor of u.                                                      *)

\* Mutant: the address of a deployment is not looked at.
AnyEnabled(u) == enabled \cap Trusted

\* The WHERE of the executor's query; what is not trusted is left out of the answer.
OwnDeployments(u) == {d \in enabled \cap Trusted : d \in daemon \/ address[d] = u}

Query(u) ==
    /\ link[u] = "up"
    /\ ~poll[u].open
    /\ LET list == OwnDeployments(u) IN
       poll' = [poll EXCEPT ![u] =
           [open |-> TRUE, list |-> list, same |-> list \cap current[u], fresh |-> list]]
    /\ UNCHANGED <<table, units, cycle, run, current, left, faults, edits>>

StillListed(u) == poll[u].list

\* listWatch: what is not listed any more is stopped, what is new is started,
\* and what has another updated_at is started again.
Apply(u) ==
    /\ link[u] = "up"
    /\ poll[u].open
    /\ run' = [run EXCEPT ![u] = StillListed(u)]
    /\ current' = [current EXCEPT ![u] =
                      (@ \cap poll[u].same) \cup (poll[u].fresh \ poll[u].same)]
    /\ poll' = [poll EXCEPT ![u] = NoPoll]
    /\ UNCHANGED <<table, units, cycle, left, faults, edits>>

\* The query fails, or its answer is late, and is repeated; what runs goes on.
QueryFails(u) ==
    /\ poll[u].open
    /\ poll' = [poll EXCEPT ![u] = NoPoll]
    /\ UNCHANGED <<table, units, cycle, run, current, left, faults, edits>>

-----------------------------------------------------------------------------
(* Units come and go; the host notices, and tells the others.              *)

Start(u) ==
    /\ link[u] = "down"
    /\ link' = [link EXCEPT ![u] = "up"]
    /\ listed' = listed \cup {u}
    /\ UNCHANGED <<table, active, loops, left, faults, edits>>

\* The terminal connects again a second later and reports itself to the host.
Reconnect(u) ==
    /\ link[u] = "cut"
    /\ link' = [link EXCEPT ![u] = "up"]
    /\ listed' = listed \cup {u}
    /\ UNCHANGED <<table, active, loops, left, faults, edits>>

Cut(u) ==
    /\ link[u] = "up"
    /\ faults < MaxFaults
    /\ faults' = faults + 1
    /\ link' = [link EXCEPT ![u] = "cut"]
    /\ UNCHANGED <<table, listed, active, loops, left, edits>>

\* The process ends, by a signal or otherwise.  It does not kill its children:
\* some of them, or all, go on.  Its UPDATE may be on its way.
Crash(u) ==
    /\ link[u] # "down"
    /\ faults < MaxFaults
    /\ faults' = faults + 1
    /\ link' = [link EXCEPT ![u] = "down"]
    /\ active' = [active EXCEPT ![u] = {}]
    /\ \E sent \in SUBSET {c \in {cycle[u]} : c.at = "claim"} :
            strays' = [strays EXCEPT ![u] = @ \cup sent]
    /\ cycle' = [cycle EXCEPT ![u] = IdleCycle]
    /\ poll' = [poll EXCEPT ![u] = NoPoll]
    /\ \E survivors \in SUBSET run[u] : orphans' = orphans \cup ({u} \X survivors)
    /\ run' = [run EXCEPT ![u] = {}]
    /\ current' = [current EXCEPT ![u] = {}]
    /\ UNCHANGED <<table, listed, edits>>

\* A child that nobody watches ends, of its own or by hand.
OrphanEnds(u, d) ==
    /\ <<u, d>> \in orphans
    /\ orphans' = orphans \ {<<u, d>>}
    /\ UNCHANGED <<table, units, loops, strays, faults, edits>>

\* The host sees the socket of u close, or misses the answers to its pings.
HostDrops(u) ==
    /\ u \in listed
    /\ link[u] # "up"
    /\ listed' = listed \ {u}
    /\ UNCHANGED <<table, link, active, loops, left, faults, edits>>

\* It drops u though u is connected: its pings were answered late, and the host
\* closes the socket; or the late close of an earlier socket has taken the
\* route away, and the socket stays open.
HostMisses(u) ==
    /\ u \in listed
    /\ link[u] = "up"
    /\ faults < MaxFaults
    /\ faults' = faults + 1
    /\ listed' = listed \ {u}
    /\ \E after \in {"cut", "up"} : link' = [link EXCEPT ![u] = after]
    /\ UNCHANGED <<table, active, loops, left, edits>>

\* Without a route nothing reaches u: after 60 s it closes its socket itself.
Silence(u) ==
    /\ link[u] = "up"
    /\ u \notin listed
    /\ link' = [link EXCEPT ![u] = "cut"]
    /\ UNCHANGED <<table, listed, active, loops, left, faults, edits>>

\* terminalInfos$ of u: what loadActiveNodeUnits finds in it.
Hear(u) ==
    /\ link[u] = "up"
    /\ active[u] # listed
    /\ active' = [active EXCEPT ![u] = listed]
    /\ UNCHANGED <<table, link, listed, loops, left, faults, edits>>

-----------------------------------------------------------------------------

Scheduler(u) ==
    \/ List(u) \/ PickLost(u) \/ PickFree(u) \/ ClaimDeployment(u)
    \/ CycleFails(u) \/ GiveUp(u) \/ ClaimLate(u)
Executor(u) == Query(u) \/ Apply(u) \/ QueryFails(u)
Environment(u) ==
    \/ Start(u) \/ Reconnect(u) \/ Cut(u) \/ Crash(u)
    \/ HostDrops(u) \/ HostMisses(u) \/ Silence(u) \/ Hear(u)
    \/ \E d \in Deployment : OrphanEnds(u, d)

Next ==
    \/ \E u \in Unit : Scheduler(u) \/ Executor(u) \/ Environment(u)
    \/ \E d \in Deployment, on \in BOOLEAN : Edit(d, on)

Spec == Init /\ [][Next]_vars

\* Of the requests that the schedulers make again and again some get through, and of
\* those of each executor; terminals reconnect, and the host finds out by its pings
\* who is gone.  Nothing is assumed of who is eligible, of what a unit hears of the
\* list, of an UPDATE that was given up, of orphans, and of units that are down.
Fairness ==
    /\ SF_vars(\E u \in Unit : PickLost(u) \/ PickFree(u))
    /\ SF_vars(\E u \in Unit : ClaimDeployment(u))
    /\ \A u \in Unit :
        /\ WF_vars(Query(u)) /\ SF_vars(Apply(u))
        /\ WF_vars(Reconnect(u)) /\ WF_vars(HostDrops(u)) /\ WF_vars(Silence(u))

FairSpec == Spec /\ Fairness

-----------------------------------------------------------------------------
(* Properties.                                                             *)

Cycles ==
    [at : {"idle", "lost", "free", "claim"}, active : SUBSET Unit, lost : SUBSET Unit,
     candidate : Deployment \cup {NoDeployment}]
Polls ==
    [open : BOOLEAN, list : SUBSET Deployment, same : SUBSET Deployment,
     fresh : SUBSET Deployment]

\* The types of the state; updated_at, created_at and id order the deployments,
\* and no unit is both online and lost to a cycle.
TypeOK ==
    /\ address \in [Deployment -> Unit \cup {NoUnit}]
    /\ daemon \subseteq Deployment
    /\ enabled \subseteq Deployment
    /\ older \in Orders
    /\ link \in [Unit -> {"down", "cut", "up"}]
    /\ listed \subseteq Unit
    /\ active \in [Unit -> SUBSET Unit]
    /\ cycle \in [Unit -> Cycles]
    /\ \A u \in Unit : cycle[u].lost \cap (cycle[u].active \cup {NoUnit}) = {}
    /\ poll \in [Unit -> Polls]
    /\ run \in [Unit -> SUBSET Deployment]
    /\ current \in [Unit -> SUBSET Deployment]
    /\ strays \in [Unit -> SUBSET Cycles]
    /\ \A u \in Unit : \A c \in strays[u] : c.lost \cap (c.active \cup {NoUnit}) = {}
    /\ orphans \subseteq Unit \X Deployment
    /\ faults \in 0..MaxFaults
    /\ edits \in 0..MaxEdits

\* Two units run the same deployment, each as its own child, only while one of them runs it by a row that
\* has changed since: who runs it by the present row is its owner, and it is enabled.
\* Claims, edits and answers of either loop may come in any order (scheduler.ts:334,
\* index.ts:512-562).
CurrentRunsAreOwned ==
    \A u \in Unit : \A d \in current[u] :
        d \in run[u] /\ d \in enabled /\ (d \in daemon \/ address[d] = u)

\* A claim takes a deployment from no unit that the claimer had in its list when the
\* cycle of the claim began, whatever has happened to the deployment since it was
\* picked, and however late the UPDATE is executed (scheduler.ts:321-337).
NoTheftFromTheKnown ==
    [][\A d \in Deployment :
          LET u == address[d]
              w == address'[d] IN
          u # w /\ u # NoUnit =>
              \E c \in strays[w] \cup {cycle[w]} : c.candidate = d /\ u \notin c.active]_vars

\* Where a deployment belongs in the end: at its owner and nowhere else; a daemon
\* everywhere; one that is disabled or not trusted nowhere.
InPlace(d) ==
    LET online == {u \in Unit : link[u] = "up"}
        running == {u \in Unit : d \in run[u] \/ <<u, d>> \in orphans} IN
    IF d \notin enabled \cap Trusted THEN running = {}
    ELSE IF d \in daemon THEN running = online
    ELSE online = {} \/ (address[d] \in online /\ running = {address[d]})

\* The units that are there have the host's list.
ListsAgree == \A u \in Unit : link[u] = "up" => active[u] = listed

\* Failover: when crashes and edits are over, every enabled, trusted deployment is run
\* by one unit that is there, and the units that were cut off have stopped theirs:
\* provided that no unit misses a change of the list for good, that again and again
\* some unit finds itself eligible, and that no process of the past has left a child.
FinallyInPlace ==
    <>[]ListsAgree /\ []<><<\E u \in Unit : List(u)>>_vars =>
        <>[](orphans = {} => \A d \in Deployment : InPlace(d))
=============================================================================
