-------------------------- MODULE NodeUnits_proofs --------------------------
(***************************************************************************)
(* Proofs about the node units: the types, that who runs a deployment by   *)
(* its present row is its owner, and that a claim takes nothing from a     *)
(* unit its claimer knew of.  An answer of the database may be as old as   *)
(* it likes; what the inductive invariant says of it is what is still true *)
(* of the rows that have not been updated since (fresh).                   *)
(***************************************************************************)
EXTENDS NodeUnits, FiniteSetTheorems, WellFoundedInduction, TLAPS

\* What is picked to be claimed is a row, and not a daemon's.
IsRow(c) == c.candidate \in Deployment \ daemon

CandidatesAreRows ==
    \A u \in Unit :
        /\ cycle[u].at = "claim" => IsRow(cycle[u])
        /\ \A c \in strays[u] : IsRow(c)

\* An answer on its way lists the rows that it would start or leave running; those
\* not updated since the query still belong to u and are still enabled.
AnswersAreOwned ==
    \A u \in Unit :
        /\ poll[u].same \subseteq poll[u].list
        /\ poll[u].fresh \subseteq poll[u].list
        /\ \A d \in poll[u].fresh : d \in enabled /\ (d \in daemon \/ address[d] = u)

TypeInv == TypeOK /\ CandidatesAreRows
IInv == TypeInv /\ AnswersAreOwned /\ CurrentRunsAreOwned

-----------------------------------------------------------------------------
(* The order of updated_at.                                                *)

\* A set of natural numbers that is not empty has a least element.
LEMMA LeastNumber ==
    ASSUME NEW T \in SUBSET Nat, T # {}
    PROVE  \E x \in T : \A y \in T : x <= y
<1>1. PICK x \in T : \A y \in T : <<y, x>> \notin OpToRel(<, Nat)
  BY NatLessThanWellFounded, WFMin
<1>2. \A y \in T : ~(y < x)
  BY <1>1 DEF OpToRel
<1> QED
  BY <1>2

\* ORDER BY updated_at LIMIT 1 finds a row if there is one: the finitely many rows
\* are totally ordered, and the row with the fewest rows before it is the oldest.
LEMMA OldestProperties ==
    ASSUME older \in Orders, NEW S \in SUBSET Deployment, S # {}
    PROVE  Oldest(S) \in S /\ \A d \in S \ {Oldest(S)} : <<Oldest(S), d>> \in older
<1> DEFINE Before(d) == {e \in S : <<e, d>> \in older}
           Ranks == {Cardinality(Before(d)) : d \in S}
<1>1. \A d \in S : IsFiniteSet(Before(d)) /\ Cardinality(Before(d)) \in Nat
  BY DeploymentAssumption, FS_Subset, FS_CardinalityType
<1>2. PICK d \in S : \A e \in S : Cardinality(Before(d)) <= Cardinality(Before(e))
  <2>1. Ranks \in SUBSET Nat /\ Ranks # {}
    BY <1>1
  <2>2. PICK n \in Ranks : \A m \in Ranks : n <= m
    BY <2>1, LeastNumber
  <2> QED
    BY <2>2
<1>3. ASSUME NEW e \in S \ {d} PROVE <<d, e>> \in older
  <2>1. SUFFICES ASSUME <<e, d>> \in older PROVE FALSE
    BY DEF Orders, TotallyOrders
  <2>2. Before(e) \subseteq Before(d)
    BY <2>1 DEF Orders, TotallyOrders
  <2>3. e \in Before(d) /\ e \notin Before(e)
    BY <2>1 DEF Orders, TotallyOrders
  <2>4. Cardinality(Before(e)) <= Cardinality(Before(d))
    BY <2>2, <1>1, FS_Subset
  <2>5. Cardinality(Before(e)) # Cardinality(Before(d))
    BY <2>2, <2>3, <1>1, FS_Subset
  <2> QED
    BY <1>1, <1>2, <2>4, <2>5
<1> QED
  BY <1>3 DEF Oldest

\* An updated row becomes the youngest, and the order is still one.
LEMMA RowUpdatedKeepsOrder ==
    ASSUME older \in Orders, NEW d \in Deployment, RowUpdated(d)
    PROVE  older' \in Orders
  BY DEF RowUpdated, Orders, TotallyOrders

\* An answer on its way loses the updated row from what is fresh, and nothing else.
LEMMA OutdatedProperties ==
    ASSUME NEW q \in Polls, NEW d \in Deployment
    PROVE  /\ Outdated(q, d) \in Polls
           /\ Outdated(q, d).list = q.list
           /\ Outdated(q, d).same = q.same
           /\ Outdated(q, d).fresh = q.fresh \ {d}
  BY DEF Outdated, Polls

\* The UPDATE of a cycle that has picked a row keeps the types; nothing else is written.
LEMMA UpdateKeepsTypes ==
    ASSUME TypeOK, NEW u \in Unit, NEW c \in Cycles, IsRow(c), Update(u, c)
    PROVE  /\ older' \in Orders
           /\ poll' \in [Unit -> Polls]
           /\ address' \in [Deployment -> Unit \cup {NoUnit}]
           /\ current' \in [Unit -> SUBSET Deployment]
<1> DEFINE d == c.candidate
<1>1. d \in Deployment
  BY DEF IsRow
<1>2. older' \in Orders
  BY <1>1, RowUpdatedKeepsOrder DEF Update, TypeOK
<1>3. poll' \in [Unit -> Polls]
  BY <1>1, OutdatedProperties DEF Update, TypeOK
<1>4. address' \in [Deployment -> Unit \cup {NoUnit}]
  BY <1>1 DEF Update, TypeOK
<1>5. current' \in [Unit -> SUBSET Deployment]
  BY DEF Update, RowUpdated, TypeOK
<1> QED
  BY <1>2, <1>3, <1>4, <1>5

-----------------------------------------------------------------------------
(* Types.                                                                  *)

THEOREM TypeInvariant == Spec => []TypeInv
<1>1. Init => TypeInv
  BY BoundsAssumption
     DEF Init, TypeInv, TypeOK, CandidatesAreRows, IsRow, IdleCycle, NoPoll, Cycles, Polls
<1>2. TypeInv /\ [Next]_vars => TypeInv'
  <2> SUFFICES ASSUME TypeInv, [Next]_vars PROVE TypeInv'
    OBVIOUS
  <2> USE BoundsAssumption, NoUnitAssumption
      DEF TypeInv, TypeOK, CandidatesAreRows
  <2> USE DEF table, units, loops, left, IsRow
  <2>1. ASSUME NEW u \in Unit, List(u) PROVE TypeInv'
    BY <2>1 DEF List, LostAddresses, Cycles, Schedulable
  <2>2. ASSUME NEW u \in Unit, PickLost(u) PROVE TypeInv'
    <3> DEFINE found == Candidates(cycle[u].lost)
    <3>1. found \subseteq Deployment \ daemon
      BY DEF Candidates, Schedulable
    <3>2. found # {} => Oldest(found) \in found
      BY <3>1, OldestProperties
    <3>3. CASE found = {}
      <4>1. cycle' = [cycle EXCEPT ![u].at = "free"]
        BY <2>2, <3>3 DEF PickLost
      <4>2. /\ cycle'[u] = [cycle[u] EXCEPT !.at = "free"]
            /\ \A v \in Unit \ {u} : cycle'[v] = cycle[v]
        BY <4>1
      <4>3. /\ cycle'[u] \in Cycles /\ cycle'[u].at = "free"
            /\ cycle'[u].lost = cycle[u].lost /\ cycle'[u].active = cycle[u].active
        BY <4>2 DEF Cycles
      <4>4. cycle' \in [Unit -> Cycles]
        BY <4>1, <4>2, <4>3
      <4> QED
        BY <2>2, <4>2, <4>3, <4>4 DEF PickLost
    <3>4. CASE found # {}
      <4> DEFINE c == Oldest(found)
      <4>1. c \in Deployment \ daemon
        BY <3>1, <3>2, <3>4
      <4>2. cycle' = [cycle EXCEPT ![u].at = "claim", ![u].candidate = c]
        BY <2>2, <3>4 DEF PickLost
      <4> HIDE DEF c
      <4>3. /\ cycle'[u] \in Cycles
            /\ cycle'[u].candidate = c
            /\ cycle'[u].active = cycle[u].active /\ cycle'[u].lost = cycle[u].lost
        <5>1. cycle[u] \in Cycles
          OBVIOUS
        <5>2. cycle'[u] = [cycle[u] EXCEPT !.at = "claim", !.candidate = c]
          BY <4>2
        <5> QED
          BY <4>1, <5>1, <5>2 DEF Cycles
      <4>4. \A v \in Unit \ {u} : cycle'[v] = cycle[v]
        BY <4>2
      <4>5. cycle' \in [Unit -> Cycles]
        BY <4>2, <4>3, <4>4
      <4>6. CandidatesAreRows'
        BY <2>2, <4>1, <4>3, <4>4 DEF PickLost
      <4>7. \A v \in Unit : (cycle[v].lost \cap (cycle[v].active \cup {NoUnit}) = {})'
        BY <4>3, <4>4
      <4> QED
        BY <2>2, <4>5, <4>6, <4>7 DEF PickLost
    <3> QED
      BY <3>3, <3>4
  <2>3. ASSUME NEW u \in Unit, PickFree(u) PROVE TypeInv'
    <3> DEFINE found == Candidates({NoUnit})
    <3>1. found \subseteq Deployment \ daemon
      BY DEF Candidates, Schedulable
    <3>2. found # {} => Oldest(found) \in found
      BY <3>1, OldestProperties
    <3>3. CASE found = {}
      BY <2>3, <3>3 DEF PickFree, Cycles, IdleCycle
    <3>4. CASE found # {}
      <4> DEFINE c == Oldest(found)
      <4>1. c \in Deployment \ daemon
        BY <3>1, <3>2, <3>4
      <4>2. cycle' = [cycle EXCEPT ![u].at = "claim", ![u].candidate = c]
        BY <2>3, <3>4 DEF PickFree
      <4> HIDE DEF c
      <4>3. /\ cycle'[u] \in Cycles
            /\ cycle'[u].candidate = c
            /\ cycle'[u].active = cycle[u].active /\ cycle'[u].lost = cycle[u].lost
        <5>1. cycle[u] \in Cycles
          OBVIOUS
        <5>2. cycle'[u] = [cycle[u] EXCEPT !.at = "claim", !.candidate = c]
          BY <4>2
        <5> QED
          BY <4>1, <5>1, <5>2 DEF Cycles
      <4>4. \A v \in Unit \ {u} : cycle'[v] = cycle[v]
        BY <4>2
      <4>5. cycle' \in [Unit -> Cycles]
        BY <4>2, <4>3, <4>4
      <4>6. CandidatesAreRows'
        BY <2>3, <4>1, <4>3, <4>4 DEF PickFree
      <4>7. \A v \in Unit : (cycle[v].lost \cap (cycle[v].active \cup {NoUnit}) = {})'
        BY <4>3, <4>4
      <4> QED
        BY <2>3, <4>5, <4>6, <4>7 DEF PickFree
    <3> QED
      BY <3>3, <3>4
  <2>4. ASSUME NEW u \in Unit, ClaimDeployment(u) PROVE TypeInv'
    <3>1. Update(u, cycle[u]) /\ IsRow(cycle[u])
      BY <2>4 DEF ClaimDeployment
    <3>2. /\ older' \in Orders
          /\ poll' \in [Unit -> Polls]
          /\ address' \in [Deployment -> Unit \cup {NoUnit}]
          /\ current' \in [Unit -> SUBSET Deployment]
      BY <3>1, UpdateKeepsTypes
    <3>3. cycle' \in [Unit -> Cycles]
      BY <2>4 DEF ClaimDeployment, Cycles, IdleCycle
    <3>4. \A v \in Unit : cycle'[v] = IF v = u THEN IdleCycle ELSE cycle[v]
      BY <2>4 DEF ClaimDeployment
    <3> QED
      BY <2>4, <3>2, <3>3, <3>4 DEF ClaimDeployment, IdleCycle
  <2>5. ASSUME NEW u \in Unit, CycleFails(u) PROVE TypeInv'
    BY <2>5 DEF CycleFails, Cycles, IdleCycle
  <2>12. ASSUME NEW u \in Unit, GiveUp(u) PROVE TypeInv'
    <3>1. cycle' \in [Unit -> Cycles] /\ strays' \in [Unit -> SUBSET Cycles]
      BY <2>12 DEF GiveUp, Cycles, IdleCycle
    <3>2. \A v \in Unit :
              /\ cycle'[v] = IF v = u THEN IdleCycle ELSE cycle[v]
              /\ strays'[v] = IF v = u THEN strays[u] \cup {cycle[u]} ELSE strays[v]
      BY <2>12 DEF GiveUp
    <3> QED
      BY <2>12, <3>1, <3>2 DEF GiveUp, IdleCycle
  <2>13. ASSUME NEW u \in Unit, ClaimLate(u) PROVE TypeInv'
    <3>1. PICK c \in strays[u] :
              /\ Update(u, c)
              /\ strays' = [strays EXCEPT ![u] = @ \ {c}]
              /\ UNCHANGED <<daemon, enabled, units, cycle, run, orphans, faults, edits>>
      BY <2>13 DEF ClaimLate
    <3>2. c \in Cycles /\ IsRow(c)
      OBVIOUS
    <3>3. /\ older' \in Orders
          /\ poll' \in [Unit -> Polls]
          /\ address' \in [Deployment -> Unit \cup {NoUnit}]
          /\ current' \in [Unit -> SUBSET Deployment]
      BY <3>1, <3>2, UpdateKeepsTypes
    <3>4. \A v \in Unit : strays'[v] \subseteq strays[v]
      BY <3>1
    <3> QED
      BY <3>1, <3>3, <3>4
  <2>6. ASSUME NEW u \in Unit, Query(u) PROVE TypeInv'
    BY <2>6 DEF Query, OwnDeployments, Polls
  <2>7. ASSUME NEW u \in Unit, Apply(u) PROVE TypeInv'
    BY <2>7 DEF Apply, StillListed, Polls, NoPoll
  <2>8. ASSUME NEW u \in Unit, QueryFails(u) PROVE TypeInv'
    BY <2>8 DEF QueryFails, Polls, NoPoll
  <2>9. ASSUME NEW u \in Unit, Environment(u) PROVE TypeInv'
    <3>1. CASE Start(u) \/ Reconnect(u) \/ HostDrops(u)
      BY <3>1 DEF Start, Reconnect, HostDrops
    <3>2. CASE Cut(u) \/ HostMisses(u) \/ Silence(u)
      BY <3>2 DEF Cut, HostMisses, Silence
    <3>3. CASE Crash(u)
      <4>1. cycle' \in [Unit -> Cycles] /\ poll' \in [Unit -> Polls]
        BY <3>3 DEF Crash, Cycles, IdleCycle, Polls, NoPoll
      <4>2. PICK sent \in SUBSET {c \in {cycle[u]} : c.at = "claim"} :
                strays' = [strays EXCEPT ![u] = @ \cup sent]
        BY <3>3 DEF Crash
      <4>3. \A v \in Unit :
                /\ cycle'[v] = IF v = u THEN IdleCycle ELSE cycle[v]
                /\ strays'[v] = IF v = u THEN strays[u] \cup sent ELSE strays[v]
        BY <3>3, <4>2 DEF Crash
      <4>4. \A v \in Unit :
                /\ cycle'[v].lost \cap (cycle'[v].active \cup {NoUnit}) = {}
                /\ cycle'[v].at = "claim" => cycle'[v].candidate \in Deployment \ daemon
        BY <4>3 DEF IdleCycle
      <4>5. strays' \in [Unit -> SUBSET Cycles]
        BY <4>2
      <4>6. \A v \in Unit : \A c \in strays'[v] :
                /\ c.lost \cap (c.active \cup {NoUnit}) = {}
                /\ c.candidate \in Deployment \ daemon
        BY <4>2, <4>3
      <4>7. orphans' \subseteq Unit \X Deployment
        BY <3>3 DEF Crash
      <4> QED
        BY <3>3, <4>1, <4>4, <4>5, <4>6, <4>7 DEF Crash
    <3>5. ASSUME NEW d \in Deployment, OrphanEnds(u, d) PROVE TypeInv'
      BY <3>5 DEF OrphanEnds
    <3>4. CASE Hear(u)
      BY <3>4 DEF Hear
    <3> QED
      BY <2>9, <3>1, <3>2, <3>3, <3>4, <3>5 DEF Environment
  <2>10. ASSUME NEW d \in Deployment, NEW on \in BOOLEAN, Edit(d, on) PROVE TypeInv'
    <3>1. older' \in Orders
      BY <2>10, RowUpdatedKeepsOrder DEF Edit
    <3>2. poll' \in [Unit -> Polls]
      BY <2>10, OutdatedProperties DEF Edit
    <3>3. current' \in [Unit -> SUBSET Deployment]
      BY <2>10 DEF Edit, RowUpdated
    <3> QED
      BY <2>10, <3>1, <3>2, <3>3 DEF Edit
  <2>11. CASE UNCHANGED vars
    BY <2>11 DEF vars
  <2> QED
    BY <2>1, <2>2, <2>3, <2>4, <2>5, <2>6, <2>7, <2>8, <2>9, <2>10, <2>11, <2>12, <2>13
       DEF Next, Scheduler, Executor
<1> QED
  BY <1>1, <1>2, PTL DEF Spec

\* The types of the state; the rows stay in one order by updated_at, and no unit is
\* both online and lost to a cycle, whatever the policies measure.
THEOREM TypeCorrect == Spec => []TypeOK
  BY TypeInvariant, PTL DEF TypeInv

-----------------------------------------------------------------------------
(* Ownership.                                                              *)

\* A step that updates no row leaves the ownership of the rows as it is.
LEMMA QuietTableKeepsOwners ==
    ASSUME TypeInv, AnswersAreOwned, CurrentRunsAreOwned,
           UNCHANGED <<address, daemon, enabled, poll, run, current>>
    PROVE  AnswersAreOwned' /\ CurrentRunsAreOwned'
  BY DEF AnswersAreOwned, CurrentRunsAreOwned

THEOREM InductiveInvariant == Spec => []IInv
<1>1. Init => AnswersAreOwned /\ CurrentRunsAreOwned
  BY DEF Init, AnswersAreOwned, CurrentRunsAreOwned, NoPoll
<1>2. ASSUME TypeInv, AnswersAreOwned, CurrentRunsAreOwned, [Next]_vars
      PROVE  AnswersAreOwned' /\ CurrentRunsAreOwned'
  <2> USE <1>2 DEF AnswersAreOwned, CurrentRunsAreOwned
  <2>1. poll \in [Unit -> Polls] /\ run \in [Unit -> SUBSET Deployment]
        /\ current \in [Unit -> SUBSET Deployment]
        /\ address \in [Deployment -> Unit \cup {NoUnit}]
    BY DEF TypeInv, TypeOK
  <2>2. ASSUME NEW u \in Unit, NEW c, IsRow(c), Update(u, c),
               UNCHANGED <<daemon, enabled, run>>
        PROVE  AnswersAreOwned' /\ CurrentRunsAreOwned'
    <3> DEFINE d == c.candidate
    <3>1. d \in Deployment
      BY <2>2 DEF IsRow
    <3>2. CASE Claimable(d, c.lost)
      <4>1. /\ address' = [address EXCEPT ![d] = u]
            /\ current' = [v \in Unit |-> current[v] \ {d}]
            /\ poll' = [v \in Unit |-> Outdated(poll[v], d)]
            /\ enabled' = enabled /\ run' = run /\ daemon' = daemon
        BY <2>2, <3>2 DEF Update, RowUpdated
      <4>2. \A v \in Unit : /\ poll'[v].list = poll[v].list
                            /\ poll'[v].same = poll[v].same
                            /\ poll'[v].fresh = poll[v].fresh \ {d}
        BY <2>1, <3>1, <4>1, OutdatedProperties
      <4>3. \A e \in Deployment \ {d} : address'[e] = address[e]
        BY <2>1, <4>1
      <4>4. AnswersAreOwned'
        BY <2>1, <4>1, <4>2, <4>3 DEF Polls
      <4>5. CurrentRunsAreOwned'
        BY <2>1, <4>1, <4>3
      <4> QED
        BY <4>4, <4>5
    <3>3. CASE ~Claimable(d, c.lost)
      BY <2>2, <3>3, QuietTableKeepsOwners DEF Update
    <3> QED
      BY <3>2, <3>3
  <2>9. ASSUME NEW u \in Unit, ClaimDeployment(u)
        PROVE  AnswersAreOwned' /\ CurrentRunsAreOwned'
    BY <2>2, <2>9 DEF ClaimDeployment, TypeInv, CandidatesAreRows
  <2>10. ASSUME NEW u \in Unit, ClaimLate(u)
         PROVE  AnswersAreOwned' /\ CurrentRunsAreOwned'
    BY <2>2, <2>10 DEF ClaimLate, TypeInv, CandidatesAreRows
  <2>3. ASSUME NEW d \in Deployment, NEW on \in BOOLEAN, Edit(d, on)
        PROVE  AnswersAreOwned' /\ CurrentRunsAreOwned'
    <3>1. /\ enabled' = IF on THEN enabled \cup {d} ELSE enabled \ {d}
          /\ current' = [v \in Unit |-> current[v] \ {d}]
          /\ poll' = [v \in Unit |-> Outdated(poll[v], d)]
          /\ address' = address /\ run' = run /\ daemon' = daemon
      BY <2>3 DEF Edit, RowUpdated
    <3>2. \A v \in Unit : /\ poll'[v].list = poll[v].list
                          /\ poll'[v].same = poll[v].same
                          /\ poll'[v].fresh = poll[v].fresh \ {d}
      BY <2>1, <3>1, OutdatedProperties
    <3>3. AnswersAreOwned'
      BY <2>1, <3>1, <3>2 DEF Polls
    <3>4. CurrentRunsAreOwned'
      BY <2>1, <3>1
    <3> QED
      BY <3>3, <3>4
  <2>4. ASSUME NEW u \in Unit, Query(u) PROVE AnswersAreOwned' /\ CurrentRunsAreOwned'
    <3> DEFINE list == OwnDeployments(u)
    <3>1. /\ poll' = [poll EXCEPT ![u] = [open |-> TRUE, list |-> list,
                                         same |-> list \cap current[u], fresh |-> list]]
          /\ UNCHANGED <<address, daemon, enabled, run, current>>
      BY <2>4 DEF Query, table
    <3>2. \A d \in list : d \in enabled /\ (d \in daemon \/ address[d] = u)
      BY DEF OwnDeployments
    <3> HIDE DEF list
    <3>3. poll'[u].same \subseteq list /\ poll'[u].fresh = list /\ poll'[u].list = list
      BY <2>1, <3>1
    <3>4. \A v \in Unit \ {u} : poll'[v] = poll[v]
      BY <2>1, <3>1
    <3> QED
      BY <3>1, <3>2, <3>3, <3>4
  <2>5. ASSUME NEW u \in Unit, Apply(u) PROVE AnswersAreOwned' /\ CurrentRunsAreOwned'
    <3>1. /\ run' = [run EXCEPT ![u] = poll[u].list]
          /\ current' = [current EXCEPT ![u] =
                 (current[u] \cap poll[u].same) \cup (poll[u].fresh \ poll[u].same)]
          /\ poll' = [poll EXCEPT ![u] = NoPoll]
          /\ UNCHANGED <<address, daemon, enabled>>
      BY <2>5 DEF Apply, StillListed, table
    <3>2. \A v \in Unit \ {u} : run'[v] = run[v] /\ current'[v] = current[v] /\ poll'[v] = poll[v]
      BY <2>1, <3>1
    <3>3. /\ run'[u] = poll[u].list
          /\ current'[u] = (current[u] \cap poll[u].same) \cup (poll[u].fresh \ poll[u].same)
          /\ poll'[u] = NoPoll
      BY <2>1, <3>1
    <3>4. AnswersAreOwned'
      BY <3>1, <3>2, <3>3 DEF NoPoll
    <3>5. CurrentRunsAreOwned'
      BY <3>1, <3>2, <3>3
    <3> QED
      BY <3>4, <3>5
  <2>6. ASSUME NEW u \in Unit, QueryFails(u) PROVE AnswersAreOwned' /\ CurrentRunsAreOwned'
    BY <2>1, <2>6 DEF QueryFails, NoPoll, table
  <2>7. ASSUME NEW u \in Unit, Crash(u) PROVE AnswersAreOwned' /\ CurrentRunsAreOwned'
    BY <2>1, <2>7 DEF Crash, NoPoll, table
  <2>8. ASSUME UNCHANGED <<address, daemon, enabled, poll, run, current>>
        PROVE  AnswersAreOwned' /\ CurrentRunsAreOwned'
    BY <2>8, QuietTableKeepsOwners
  <2> QED
    BY <2>3, <2>4, <2>5, <2>6, <2>7, <2>8, <2>9, <2>10
       DEF Next, Scheduler, Executor, Environment, List, PickLost, PickFree, CycleFails,
           GiveUp, Start, Reconnect, Cut, OrphanEnds, HostDrops, HostMisses, Silence, Hear,
           vars, table, loops
<1> QED
  BY <1>1, <1>2, TypeInvariant, PTL DEF Spec, IInv

\* Who runs a deployment by its present row is its owner, and it is enabled, however
\* late the answers of the database are applied and whoever claims or edits meanwhile
\* (scheduler.ts:334, index.ts:512-562).
THEOREM OwnersRunTheirOwn == Spec => []CurrentRunsAreOwned
  BY InductiveInvariant, PTL DEF IInv

-----------------------------------------------------------------------------
(* Claims.                                                                 *)

\* An UPDATE spares the units that were in the list of its cycle.
LEMMA UpdateSpares ==
    ASSUME TypeOK, NEW v \in Unit, NEW c, Update(v, c),
           c.lost \cap (c.active \cup {NoUnit}) = {},
           NEW d \in Deployment, address[d] # address'[d], address[d] # NoUnit
    PROVE  address'[d] = v /\ c.candidate = d /\ address[d] \notin c.active
<1>1. Claimable(c.candidate, c.lost) /\ address' = [address EXCEPT ![c.candidate] = v]
  BY DEF Update
<1>2. d = c.candidate /\ address'[d] = v
  BY <1>1 DEF TypeOK
<1>3. address[d] \in c.lost
  BY <1>1, <1>2 DEF Claimable
<1> QED
  BY <1>2, <1>3

\* A claim takes a deployment from no unit that the claimer had in its list when its
\* cycle began, however late its UPDATE is executed (scheduler.ts:321-337).
THEOREM ClaimsSpareTheKnown == Spec => NoTheftFromTheKnown
<1> DEFINE Spared ==
        \A d \in Deployment :
            LET u == address[d]
                w == address'[d] IN
            u # w /\ u # NoUnit =>
                \E c \in strays[w] \cup {cycle[w]} : c.candidate = d /\ u \notin c.active
<1>1. ASSUME TypeInv, [Next]_vars PROVE [Spared]_vars
  <2>1. ASSUME NEW v \in Unit, NEW c \in strays[v] \cup {cycle[v]}, Update(v, c)
        PROVE  Spared
    <3>1. c.lost \cap (c.active \cup {NoUnit}) = {}
      BY <1>1, <2>1 DEF TypeInv, TypeOK
    <3> QED
      BY <1>1, <2>1, <3>1, UpdateSpares DEF TypeInv
  <2>2. ASSUME NEW v \in Unit, ClaimDeployment(v) \/ ClaimLate(v) PROVE Spared
    BY <2>1, <2>2 DEF ClaimDeployment, ClaimLate
  <2>3. CASE UNCHANGED address
    BY <2>3
  <2> QED
    BY <1>1, <2>2, <2>3
       DEF Next, Scheduler, Executor, Environment, List, PickLost, PickFree, CycleFails,
           GiveUp, Query, Apply, QueryFails, Start, Reconnect, Cut, Crash, OrphanEnds,
           HostDrops, HostMisses, Silence, Hear, Edit, vars, table
<1> QED
  BY <1>1, TypeInvariant, PTL DEF Spec, NoTheftFromTheKnown
=============================================================================
