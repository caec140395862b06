---------------------- MODULE TransferController_proofs ----------------------
(***************************************************************************)
(* Proofs about the transfer controller.  An order exists in many copies   *)
(* at once: the row, the copy a dispatch works on, and those in requests   *)
(* nobody waits for any more, any of which may be written over the row.    *)
(* What holds of the order is therefore said of every copy, relative to    *)
(* what only grows: the ledger, the confirmed hops, the orders misled.     *)
(***************************************************************************)
EXTENDS TransferController, SequenceTheorems, FiniteSetTheorems, WellFoundedInduction, TLAPS

Entries == [order : Order, hop : Nat \ {0}, path : Routes, amount : Nat]
Phases == {"none", "dispatch", "apply", "eval", "write"}

\* A copy r of the order o makes sense: its hop is one of its path, and each hop
\* before it, and that one too once it is received, has been confirmed.
Consistent(o, r, conf) ==
    /\ r.hop <= Len(r.path)
    /\ r.path = NoPath => r.hop = 0
    /\ r.hop = 0 => r.tx = "null" /\ r.rx = "null"
    /\ r.tx = "null" => r.hop = 0
    /\ r.tx # "COMPLETE" => r.rx # "COMPLETE"
    /\ r.tx = "COMPLETE" => r.txid # NoId
    /\ 1..(r.hop - 1) \subseteq conf[o]
    /\ r.rx = "COMPLETE" => r.hop \in conf[o]
    /\ r.status = "COMPLETE" => 1..Len(r.path) \subseteq conf[o]

CopiesConsistent ==
    /\ \A o \in Order : Consistent(o, row[o], confirmed)
    /\ \A o \in Order : Consistent(o, task[o].order, confirmed)
    /\ \A a \in adrift : Consistent(a.of, a.order, confirmed)

\* A copy is asked of a vendor only in the states DispatchTransfer asks in.
Fits(at, r) ==
    /\ at = "apply" => r.tx \notin {"null", "COMPLETE"}
    /\ at = "eval" => r.tx = "COMPLETE" /\ r.rx # "COMPLETE"

RequestsFit ==
    /\ \A o \in Order : Fits(task[o].at, task[o].order)
    /\ \A a \in adrift : a.at = "apply" => a.order.tx = "INIT" /\ Sendable(a.order)

LedgerConfirmed ==
    \A i \in DOMAIN ledger : 1..(ledger[i].hop - 1) \subseteq confirmed[ledger[i].order]

CInv == StateOK /\ CopiesConsistent /\ RequestsFit /\ LedgerConfirmed

-----------------------------------------------------------------------------
(* What a copy of an order says of the money.                              *)

\* i is the id of a transfer for the present hop of r, and of its amount as long as
\* that is what the hop has to send.
IsTransferOf(i, o, r, l) ==
    /\ i \in DOMAIN l /\ l[i].order = o /\ l[i].hop = r.hop /\ l[i].path = r.path
    /\ r.rx # "COMPLETE" => l[i].amount = Arrives(Network(r), r.amount)

\* The amount of a copy is one that the hop before has delivered, or its own hop once
\* that is received, and its ids are of its own transfers.
Honest(o, r, l) ==
    /\ r.hop # 0 =>
         r.amount \in Delivered(l, o, r.path, IF r.rx = "COMPLETE" THEN r.hop ELSE r.hop - 1)
    /\ r.tx = "COMPLETE" => IsTransferOf(r.txid, o, r, l)
    /\ r.tx = "AWAIT_TX_ID" => IsTransferOf(r.ctx, o, r, l)

CopiesHonest ==
    \A o \in Order \ misled :
        /\ Honest(o, row[o], ledger)
        /\ Honest(o, task[o].order, ledger)
        /\ \A a \in adrift : a.of = o => Honest(o, a.order, ledger)

-----------------------------------------------------------------------------
(* How often a hop may still be sent.                                      *)

CanSend(r, h) == r.hop < h \/ (r.hop = h /\ r.tx = "INIT")

\* The requests adrift that would send hop h of o once more, or make the row do so.
Threats(o, h) ==
    {a \in adrift : a.of = o /\ IF a.at = "apply" THEN a.order.hop = h ELSE CanSend(a.order, h)}

\* The copy the controller itself goes on with.
Live(o) == IF task[o].at = "none" THEN row[o] ELSE task[o].order

SendsAreBounded ==
    \A o \in Order, h \in Nat :
        /\ IsFiniteSet(Threats(o, h))
        /\ Cardinality(SentFor(o, h)) + Cardinality(Threats(o, h))
             + (IF CanSend(Live(o), h) THEN 1 ELSE 0) <= 1 + faults

-----------------------------------------------------------------------------
(* The ledger.                                                             *)

\* The ledger is unchanged or has one more transfer.
LedgerGrows == ledger' = ledger \/ \E e \in Entries : ledger' = Append(ledger, e)

LEMMA LedgerGrowth ==
    ASSUME ledger \in Seq(Entries), LedgerGrows
    PROVE  /\ ledger' \in Seq(Entries)
           /\ Len(ledger) \in Nat /\ Len(ledger') \in Nat /\ Len(ledger) <= Len(ledger')
           /\ DOMAIN ledger = 1..Len(ledger) /\ DOMAIN ledger' = 1..Len(ledger')
           /\ \A i \in DOMAIN ledger : i \in DOMAIN ledger' /\ ledger'[i] = ledger[i]
           /\ Rows \subseteq Rows'
<1>1. CASE ledger' = ledger
  BY <1>1 DEF Rows, Ids
<1>2. ASSUME NEW e \in Entries, ledger' = Append(ledger, e)
      PROVE  /\ ledger' \in Seq(Entries) /\ Len(ledger') = Len(ledger) + 1
             /\ \A i \in 1..Len(ledger) : ledger'[i] = ledger[i]
  BY <1>2, AppendProperties
<1>3. Len(ledger) \in Nat /\ DOMAIN ledger = 1..Len(ledger)
  OBVIOUS
<1>4. ASSUME NEW e \in Entries, ledger' = Append(ledger, e)
      PROVE  Ids \subseteq Ids'
  BY <1>2, <1>3, <1>4 DEF Ids
<1>5. ASSUME NEW e \in Entries, ledger' = Append(ledger, e)
      PROVE  Rows \subseteq Rows'
  BY <1>4, <1>5 DEF Rows
<1> QED
  BY <1>1, <1>2, <1>3, <1>5 DEF LedgerGrows

\* An order that is at a hop has a route, and its hop is on it.
LEMMA HopOfRoute ==
    ASSUME NEW o, NEW conf, NEW r \in Rows, Consistent(o, r, conf)
    PROVE  /\ r.hop \in Nat /\ r.amount \in Nat /\ Len(r.path) \in Nat
           /\ r.hop # 0 => /\ r.path \in Routes /\ r.path \in Seq(Networks)
                           /\ r.hop \in 1..Len(r.path) /\ Network(r) \in Networks
<1>1. r.hop \in Nat /\ r.amount \in Nat /\ r.path \in Routes \cup {NoPath}
  BY DEF Rows
<1>2. Len(NoPath) \in Nat
  BY DEF NoPath
<1>3. \A p \in Routes : p \in Seq(Networks) /\ Len(p) \in Nat
  BY RoutesAssumption
<1>4. Len(r.path) \in Nat
  BY <1>1, <1>2, <1>3
<1>5. ASSUME r.hop # 0
      PROVE  /\ r.path \in Routes /\ r.path \in Seq(Networks)
             /\ r.hop \in 1..Len(r.path) /\ Network(r) \in Networks
  <2>1. r.path \in Routes
    BY <1>1, <1>5 DEF Consistent
  <2>2. r.path \in Seq(Networks) /\ r.hop \in 1..Len(r.path)
    BY <1>1, <1>3, <1>4, <1>5, <2>1 DEF Consistent
  <2>3. Network(r) \in Networks
    BY <2>2, ElementOfSeq DEF Network
  <2> QED
    BY <2>1, <2>2, <2>3
<1> QED
  BY <1>1, <1>4, <1>5

\* What a handler in the state INIT adds to the ledger, for a copy it may be asked of.
LEMMA SentProperties ==
    ASSUME ledger \in Seq(Entries), NEW o \in Order, NEW r \in Rows,
           r.hop # 0, r.path \in Routes, Sendable(r)
    PROVE  LET e == [order |-> o, hop |-> r.hop, path |-> r.path,
                     amount |-> Arrives(Network(r), r.amount)]
           IN  e \in Entries /\ Sent(o, r) = Append(ledger, e)
<1>1. r.hop \in Nat \ {0} /\ r.amount \in Nat
  BY DEF Rows
<1>2. Whole(r.amount - Fee) \in Int
  <2>1. r.amount - Fee \in Int
    BY <1>1, FeeAssumption
  <2>2. \A x \in Int : x % Unit \in Int
    BY AmountAssumption
  <2> QED
    BY <2>1, <2>2 DEF Whole
<1>3. Arrives(Network(r), r.amount) \in Nat
  BY <1>1, <1>2 DEF Sendable, Arrives
<1> QED
  BY <1>1, <1>3 DEF Entries, Sent

\* A set of natural numbers that is not empty has a least element.
LEMMA LeastNumber ==
    ASSUME NEW T \in SUBSET Nat, T # {}
    PROVE  \E x \in T : \A y \in T : x <= y
<1>1. PICK x \in T : \A y \in T : <<y, x>> \notin OpToRel(<, Nat)
  BY NatLessThanWellFounded, WFMin
<1>2. \A y \in T : ~(y < x)
  BY <1>1 DEF OpToRel
<1> QED
  BY <1>2

\* The last withdrawal of all is a transfer of the ledger, if there is one.
LEMMA LastWithdrawalProperties ==
    ASSUME ledger \in Seq(Entries)
    PROVE  LastWithdrawal \in Ids
<1> DEFINE S == {NoId} \cup {i \in DOMAIN ledger : Network(ledger[i]) = "chain"}
           T == {Len(ledger) - i : i \in S}
<1>1. Len(ledger) \in Nat /\ S \subseteq 0..Len(ledger) /\ S # {}
  BY DEF NoId
<1> HIDE DEF S
<1>2. T \in SUBSET Nat /\ T # {}
  <2>1. \A i \in S : Len(ledger) - i \in Nat
    BY <1>1
  <2> QED
    BY <1>1, <2>1
<1>3. PICK x \in T : \A y \in T : x <= y
  BY <1>2, LeastNumber
<1>4. PICK m \in S : x = Len(ledger) - m
  OBVIOUS
<1>5. ASSUME NEW i \in S PROVE m >= i
  <2>1. x <= Len(ledger) - i
    BY <1>3
  <2>2. i \in Int /\ m \in Int
    BY <1>1
  <2> QED
    BY <1>1, <1>4, <2>1, <2>2
<1>6. Max(S) \in S
  BY <1>5 DEF Max
<1> QED
  BY <1>1, <1>6 DEF LastWithdrawal, Ids, S

-----------------------------------------------------------------------------
(* Types and copies.                                                       *)

\* What the auxiliary variables may do in a step.
HistoryGrows ==
    /\ confirmed' \in [Order -> SUBSET (Nat \ {0})]
    /\ \A o \in Order : confirmed[o] \subseteq confirmed'[o]
    /\ misled' \subseteq Order
    /\ faults' \in 0..MaxFaults

\* A copy that makes sense goes on making sense.
LEMMA ConsistentForGood ==
    ASSUME NEW o \in Order, HistoryGrows, NEW r, Consistent(o, r, confirmed)
    PROVE  Consistent(o, r, confirmed')
  BY DEF HistoryGrows, Consistent

LEMMA LedgerStaysConfirmed ==
    ASSUME CInv, LedgerGrows, HistoryGrows,
           ledger' # ledger =>
               \A e \in Entries : ledger' = Append(ledger, e) =>
                   1..(e.hop - 1) \subseteq confirmed[e.order]
    PROVE  LedgerConfirmed'
<1>1. ledger \in Seq(Entries)
  BY DEF CInv, StateOK, Entries
<1>2. \A i \in DOMAIN ledger : ledger[i].order \in Order
  <2>1. \A i \in DOMAIN ledger : ledger[i] \in Entries
    BY <1>1
  <2> QED
    BY <2>1 DEF Entries
<1>3. CASE ledger' = ledger
  BY <1>2, <1>3 DEF CInv, LedgerConfirmed, HistoryGrows
<1>4. ASSUME NEW e \in Entries, ledger' = Append(ledger, e) PROVE LedgerConfirmed'
  <2>1. /\ Len(ledger) \in Nat /\ Len(ledger') = Len(ledger) + 1
        /\ DOMAIN ledger' = 1..Len(ledger') /\ DOMAIN ledger = 1..Len(ledger)
        /\ \A i \in 1..Len(ledger) : ledger'[i] = ledger[i]
        /\ ledger'[Len(ledger) + 1] = e
    BY <1>1, <1>4, AppendProperties
  <2>2. e.order \in Order /\ ledger' # ledger
    BY <2>1 DEF Entries
  <2>3. 1..(e.hop - 1) \subseteq confirmed'[e.order]
    BY <1>4, <2>2 DEF HistoryGrows
  <2>4. ASSUME NEW i \in 1..Len(ledger)
        PROVE  1..(ledger'[i].hop - 1) \subseteq confirmed'[ledger'[i].order]
    BY <1>2, <2>1 DEF CInv, LedgerConfirmed, HistoryGrows
  <2>5. \A i \in DOMAIN ledger' : i \in 1..Len(ledger) \/ i = Len(ledger) + 1
    BY <2>1
  <2> QED
    BY <2>1, <2>3, <2>4, <2>5 DEF LedgerConfirmed
<1> QED
  BY <1>3, <1>4 DEF LedgerGrows

\* Every step of the controller or a vendor on one order leaves it with a copy r.
LEMMA GoesKeepsCInv ==
    ASSUME CInv, LedgerGrows, HistoryGrows, UNCHANGED <<row, adrift>>, LedgerConfirmed',
           NEW o \in Order, NEW at \in Phases, NEW r, r \in Rows',
           Consistent(o, r, confirmed'), Fits(at, r), Goes(o, at, r)
    PROVE  CInv'
<1>1. ledger \in Seq(Entries)
  BY DEF CInv, StateOK, Entries
<1>2. ledger' \in Seq(Entries) /\ Rows \subseteq Rows'
  BY <1>1, LedgerGrowth
<1>3. \A p \in Order : task[p] \in [at : Phases, order : Rows]
  BY DEF CInv, StateOK, Phases
<1>4. \A p \in Order : task'[p] = IF p = o THEN [at |-> at, order |-> r] ELSE task[p]
  BY DEF CInv, StateOK, Goes
<1>5. task' \in [Order -> [at : Phases, order : Rows']]
  BY <1>2, <1>3, <1>4 DEF CInv, StateOK, Goes
<1>6. StateOK'
  BY <1>2, <1>5 DEF CInv, StateOK, Entries, Phases, HistoryGrows
<1>7. CopiesConsistent'
  <2>1. \A p \in Order : Consistent(p, row[p], confirmed')
    BY ConsistentForGood DEF CInv, CopiesConsistent
  <2>2. \A p \in Order : Consistent(p, task[p].order, confirmed')
    BY ConsistentForGood DEF CInv, CopiesConsistent
  <2>3. \A a \in adrift : Consistent(a.of, a.order, confirmed')
    BY ConsistentForGood DEF CInv, CopiesConsistent, StateOK
  <2> QED
    BY <1>4, <2>1, <2>2, <2>3 DEF CopiesConsistent
<1>8. RequestsFit'
  BY <1>4 DEF CInv, RequestsFit
<1> QED
  BY <1>6, <1>7, <1>8 DEF CInv

\* What a step that sends nothing and confirms nothing leaves alone.
LEMMA QuietLedger ==
    ASSUME CInv, UNCHANGED <<ledger, confirmed, misled>>, faults' \in 0..MaxFaults
    PROVE  LedgerGrows /\ HistoryGrows /\ LedgerConfirmed'
  BY DEF CInv, StateOK, LedgerGrows, HistoryGrows, LedgerConfirmed

Answers == {"INIT", "AWAIT_TX_ID", "COMPLETE", "ERROR"}

\* What is written into a copy, field by field.
LEMMA AppliedProperties ==
    ASSUME NEW r \in Rows', NEW ctx \in Ids', NEW txid \in Ids', NEW state \in Answers
    PROVE  LET a == Applied(r, state, ctx, txid) IN
           /\ a \in Rows'
           /\ a.path = r.path /\ a.hop = r.hop /\ a.rx = r.rx /\ a.amount = r.amount
           /\ a.tx = state /\ a.ctx = ctx /\ a.txid = txid /\ a.status # "COMPLETE"
<1> DEFINE status == IF state = "ERROR" THEN "ERROR" ELSE "ONGOING"
           a == [r EXCEPT !.status = status, !.tx = state, !.ctx = ctx, !.txid = txid]
<1>1. status \in {"INIT", "ONGOING", "ERROR", "COMPLETE"} /\ status # "COMPLETE"
  OBVIOUS
<1>2. Applied(r, state, ctx, txid) = a
  BY DEF Applied
<1> HIDE DEF status
<1>3. a \in Rows'
  BY <1>1 DEF Rows, Answers
<1>4. /\ a.path = r.path /\ a.hop = r.hop /\ a.rx = r.rx /\ a.amount = r.amount
      /\ a.tx = state /\ a.ctx = ctx /\ a.txid = txid /\ a.status = status
  BY DEF Rows
<1> QED
  BY <1>1, <1>2, <1>3, <1>4

Verdicts == {"null", "INIT", "PENDING", "COMPLETE"}

LEMMA EvaluatedProperties ==
    ASSUME NEW r \in Rows', NEW amount \in Nat, NEW state \in Verdicts
    PROVE  LET a == Evaluated(r, state, amount) IN
           /\ a \in Rows'
           /\ a.path = r.path /\ a.hop = r.hop /\ a.tx = r.tx /\ a.ctx = r.ctx
           /\ a.txid = r.txid /\ a.rx = state /\ a.amount = amount /\ a.status = "ONGOING"
  BY DEF Evaluated, Rows, Verdicts

LEMMA IteratedProperties ==
    ASSUME NEW o \in Order, NEW r \in Rows'
    PROVE  LET a == IterateTransferOrder(o, r)
               over == r.hop > 0 /\ r.hop = Len(r.path) IN
           /\ a \in Rows'
           /\ a.path = r.path /\ a.ctx = r.ctx /\ a.txid = r.txid
           /\ over => /\ a.status = "COMPLETE" /\ a.hop = r.hop /\ a.amount = r.amount
                      /\ a.tx = r.tx /\ a.rx = r.rx
           /\ ~over => /\ a.status = r.status /\ a.hop = r.hop + 1
                       /\ a.tx = "INIT" /\ a.rx = "INIT"
                       /\ a.amount = IF r.hop = 0 THEN Amount[o] ELSE r.amount
<1>1. r.hop \in Nat /\ Amount[o] \in Nat
  BY AmountAssumption DEF Rows
<1>2. CASE r.hop > 0 /\ r.hop = Len(r.path)
  BY <1>1, <1>2 DEF IterateTransferOrder, Rows
<1>3. CASE ~(r.hop > 0 /\ r.hop = Len(r.path))
  <2> DEFINE amount == IF r.hop = 0 THEN Amount[o] ELSE r.amount
             hop == r.hop + 1
             a == [r EXCEPT !.hop = hop, !.tx = "INIT", !.rx = "INIT", !.amount = amount]
  <2>1. amount \in Nat /\ hop \in Nat
    BY <1>1 DEF Rows
  <2>2. IterateTransferOrder(o, r) = a
    BY <1>3 DEF IterateTransferOrder
  <2> HIDE DEF amount, hop
  <2>3. a \in Rows'
    BY <1>1, <2>1 DEF Rows
  <2>4. /\ a.path = r.path /\ a.ctx = r.ctx /\ a.txid = r.txid /\ a.status = r.status
        /\ a.hop = hop /\ a.tx = "INIT" /\ a.rx = "INIT" /\ a.amount = amount
    BY DEF Rows
  <2> QED
    BY <1>3, <2>2, <2>3, <2>4 DEF amount, hop
<1> QED
  BY <1>2, <1>3

\* What a dispatch works on.
LEMMA TaskCopy ==
    ASSUME CInv, NEW o \in Order
    PROVE  LET r == task[o].order IN
           /\ r \in Rows /\ Consistent(o, r, confirmed) /\ Fits(task[o].at, r)
           /\ r.hop \in Nat /\ r.amount \in Nat /\ r.txid \in Ids /\ r.ctx \in Ids
           /\ Len(r.path) \in Nat
           /\ r.hop # 0 => /\ r.path \in Routes /\ r.path \in Seq(Networks)
                           /\ r.hop \in 1..Len(r.path) /\ Network(r) \in Networks
           /\ r.tx \in {"null", "INIT", "AWAIT_TX_ID", "COMPLETE", "ERROR"}
           /\ ledger \in Seq(Entries) /\ NoId \in Ids
<1> DEFINE r == task[o].order
<1>1. task[o] \in [at : Phases, order : Rows]
  BY DEF CInv, StateOK, Phases
<1>2. r \in Rows /\ Consistent(o, r, confirmed) /\ Fits(task[o].at, r)
  BY <1>1 DEF CInv, CopiesConsistent, RequestsFit
<1>3. /\ r.hop \in Nat /\ r.amount \in Nat /\ r.txid \in Ids /\ r.ctx \in Ids
      /\ r.path \in Routes \cup {NoPath}
      /\ r.tx \in {"null", "INIT", "AWAIT_TX_ID", "COMPLETE", "ERROR"}
  BY <1>2 DEF Rows
<1>4. /\ Len(r.path) \in Nat
      /\ r.hop # 0 => /\ r.path \in Routes /\ r.path \in Seq(Networks)
                      /\ r.hop \in 1..Len(r.path) /\ Network(r) \in Networks
  BY <1>2, HopOfRoute
<1>5. ledger \in Seq(Entries) /\ NoId \in Ids
  BY DEF CInv, StateOK, Entries, Ids, NoId
<1> QED
  BY <1>2, <1>3, <1>4, <1>5

LEMMA NewRowProperties ==
    ASSUME CInv, NEW o \in Order
    PROVE  NewRow(o) \in Rows /\ Consistent(o, NewRow(o), confirmed) /\ Fits("none", NewRow(o))
<1>1. NoId \in Ids
  BY TaskCopy
<1> QED
  BY <1>1 DEF NewRow, Rows, Consistent, Fits, NoPath, NoId

Letters == [fault : 0..MaxFaults, of : Order, at : {"apply", "write"}, order : Rows]

\* What is left of a dispatch that ends before its request is answered.
LEMMA AbandonedProperties ==
    ASSUME CInv, Fault, NEW o \in Order, NEW a \in Abandoned(o)
    PROVE  /\ a \in Letters /\ a.fault = faults /\ a.of = o
           /\ a.at = task[o].at /\ a.order = task[o].order
           /\ Consistent(o, a.order, confirmed)
           /\ a.at = "apply" => a.order.tx = "INIT" /\ Sendable(a.order)
<1>1. task[o].order \in Rows /\ Consistent(o, task[o].order, confirmed)
  BY TaskCopy
<1>2. faults \in 0..MaxFaults
  BY DEF CInv, StateOK
<1>3. /\ task[o].at \in {"apply", "write"}
      /\ task[o].at = "apply" => task[o].order.tx = "INIT" /\ Sendable(task[o].order)
      /\ a = [fault |-> faults, of |-> o, at |-> task[o].at, order |-> task[o].order]
  BY DEF Abandoned
<1> QED
  BY <1>1, <1>2, <1>3 DEF Letters

\* A step that keeps the ledger and the history and moves copies about.
LEMMA MovesKeepCInv ==
    ASSUME CInv, UNCHANGED <<ledger, confirmed, misled>>, faults' \in 0..MaxFaults,
           row' \in [Order -> Rows], task' \in [Order -> [at : Phases, order : Rows]],
           adrift' \subseteq Letters,
           \A o \in Order : Consistent(o, row'[o], confirmed),
           \A o \in Order : /\ Consistent(o, task'[o].order, confirmed)
                            /\ Fits(task'[o].at, task'[o].order),
           \A a \in adrift' : /\ Consistent(a.of, a.order, confirmed)
                              /\ a.at = "apply" => a.order.tx = "INIT" /\ Sendable(a.order)
    PROVE  CInv'
<1>1. Rows' = Rows
  BY DEF Rows, Ids
<1>2. StateOK'
  BY <1>1 DEF CInv, StateOK, Letters, Phases
<1>3. CopiesConsistent'
  BY DEF CopiesConsistent
<1>4. RequestsFit'
  BY DEF RequestsFit
<1>5. LedgerConfirmed'
  BY DEF CInv, LedgerConfirmed
<1> QED
  BY <1>2, <1>3, <1>4, <1>5 DEF CInv

\* A handler asked of r sends: the hops before this one have been confirmed.
LEMMA SendingProperties ==
    ASSUME CInv, NEW o \in Order, NEW r \in Rows, Consistent(o, r, confirmed), r.tx = "INIT",
           Sendable(r), ledger' = Sent(o, r), HistoryGrows
    PROVE  /\ LedgerGrows /\ LedgerConfirmed'
           /\ Len(ledger') = Len(ledger) + 1
<1> DEFINE e == [order |-> o, hop |-> r.hop, path |-> r.path,
                 amount |-> Arrives(Network(r), r.amount)]
<1>1. ledger \in Seq(Entries)
  BY DEF CInv, StateOK, Entries
<1>2. r.hop # 0 /\ r.path \in Routes
  BY HopOfRoute DEF Consistent
<1>3. e \in Entries /\ ledger' = Append(ledger, e)
  BY <1>1, <1>2, SentProperties
<1>4. e.order = o /\ e.hop = r.hop
  OBVIOUS
<1>5. Len(ledger') = Len(ledger) + 1 /\ ledger'[Len(ledger) + 1] = e
  BY <1>1, <1>3, AppendProperties
<1> HIDE DEF e
<1>6. LedgerConfirmed'
  <2>1. ASSUME NEW f \in Entries, ledger' = Append(ledger, f) PROVE f = e
    BY <1>1, <1>5, <2>1, AppendProperties
  <2> QED
    BY <1>3, <1>4, <2>1, LedgerStaysConfirmed DEF LedgerGrows, Consistent
<1> QED
  BY <1>3, <1>5, <1>6 DEF LedgerGrows

\* The answer of a vendor to TransferApply is written into the copy.
LEMMA AnsweredKeepsCInv ==
    ASSUME CInv, LedgerGrows, HistoryGrows, LedgerConfirmed', UNCHANGED <<row, adrift>>,
           NEW o \in Order, task[o].at = "apply",
           NEW state \in Answers, NEW ctx \in Ids', NEW txid \in Ids', state = "COMPLETE" => txid # NoId,
           Goes(o, "write", Applied(task[o].order, state, ctx, txid))
    PROVE  CInv'
<1> DEFINE r == task[o].order
           s == Applied(r, state, ctx, txid)
<1>1. /\ r \in Rows /\ Consistent(o, r, confirmed) /\ ledger \in Seq(Entries)
      /\ r.tx \notin {"null", "COMPLETE"}
  BY TaskCopy DEF Fits
<1>2. r \in Rows'
  BY <1>1, LedgerGrowth
<1>3. /\ s \in Rows' /\ s.path = r.path /\ s.hop = r.hop /\ s.rx = r.rx
      /\ s.tx = state /\ s.txid = txid /\ s.status # "COMPLETE"
  BY <1>2, AppliedProperties
<1>4. Consistent(o, r, confirmed')
  BY <1>1, ConsistentForGood
<1> HIDE DEF s
<1>5. Consistent(o, s, confirmed') /\ Fits("write", s)
  BY <1>1, <1>3, <1>4 DEF Consistent, Fits, Answers
<1> QED
  BY <1>3, <1>5, GoesKeepsCInv DEF Phases, s

EvaluatedState(state, o, r, conf) ==
    state \in {"null", "INIT", "PENDING"} \/ (state = "COMPLETE" /\ r.hop \in conf[o])

\* The answer of a vendor to TransferEval is written into the copy.
LEMMA EvaluatedKeepsCInv ==
    ASSUME CInv, LedgerGrows, HistoryGrows, LedgerConfirmed', UNCHANGED <<row, adrift>>,
           NEW o \in Order, task[o].at = "eval", NEW amount \in Nat,
           NEW state, EvaluatedState(state, o, task[o].order, confirmed'),
           Goes(o, "write", Evaluated(task[o].order, state, amount))
    PROVE  CInv'
<1> DEFINE r == task[o].order
           s == Evaluated(r, state, amount)
<1>1. /\ r \in Rows /\ Consistent(o, r, confirmed) /\ ledger \in Seq(Entries)
      /\ r.tx = "COMPLETE"
  BY TaskCopy DEF Fits
<1>2. r \in Rows' /\ state \in Verdicts
  BY <1>1, LedgerGrowth DEF EvaluatedState, Verdicts
<1>3. /\ s \in Rows' /\ s.path = r.path /\ s.hop = r.hop /\ s.tx = r.tx
      /\ s.rx = state /\ s.txid = r.txid /\ s.status = "ONGOING"
  BY <1>2, EvaluatedProperties
<1>4. Consistent(o, r, confirmed')
  BY <1>1, ConsistentForGood
<1> HIDE DEF s
<1>5. Consistent(o, s, confirmed') /\ Fits("write", s)
  BY <1>1, <1>3, <1>4 DEF Consistent, Fits, EvaluatedState
<1> QED
  BY <1>3, <1>5, GoesKeepsCInv DEF Phases, s

THEOREM CopiesInvariant == Spec => []CInv
<1>1. Init => CInv
  <2> SUFFICES ASSUME Init PROVE CInv
    OBVIOUS
  <2>1. ledger = <<>> /\ Len(ledger) = 0 /\ DOMAIN ledger = {}
    BY DEF Init
  <2>2. \A o \in Order : NewRow(o) \in Rows
    BY <2>1 DEF NewRow, Rows, NoPath, NoId, Ids
  <2>3. StateOK
    BY <2>1, <2>2, MaxFaultsAssumption DEF Init, StateOK, NoTask
  <2>4. \A o \in Order : Consistent(o, NewRow(o), confirmed) /\ Fits("none", NewRow(o))
    BY DEF Consistent, Fits, NewRow, NoPath, NoId
  <2> QED
    BY <2>1, <2>3, <2>4
       DEF Init, CInv, CopiesConsistent, RequestsFit, LedgerConfirmed, NoTask
<1>2. CInv /\ [Next]_vars => CInv'
  <2> SUFFICES ASSUME CInv, [Next]_vars PROVE CInv'
    OBVIOUS
  <2>1. CASE Poll
    <3>1. ASSUME NEW o \in Order
          PROVE  /\ task'[o] \in [at : Phases, order : Rows]
                 /\ Consistent(o, task'[o].order, confirmed)
                 /\ Fits(task'[o].at, task'[o].order)
      <4>1. CASE Ended(row[o])
        <5>1. task'[o] = [at |-> "none", order |-> NewRow(o)]
          BY <2>1, <4>1 DEF Poll, NoTask
        <5> QED
          BY <5>1, NewRowProperties DEF Phases
      <4>2. CASE ~Ended(row[o])
        <5>1. task'[o] = [at |-> "dispatch", order |-> row[o]]
          BY <2>1, <4>2 DEF Poll
        <5> QED
          BY <5>1 DEF Phases, Fits, CInv, StateOK, CopiesConsistent
      <4> QED
        BY <4>1, <4>2
    <3>2. task' \in [Order -> [at : Phases, order : Rows]]
      BY <2>1, <3>1 DEF Poll
    <3> QED
      BY <2>1, <3>1, <3>2, MovesKeepCInv
         DEF Poll, CInv, StateOK, CopiesConsistent, RequestsFit, Letters
  <2>2. ASSUME NEW o \in Order, MakeRoutingPath(o) PROVE CInv'
    <3> DEFINE r == task[o].order
    <3>1. PICK p \in Routes \cup {NoPath} :
              Goes(o, "write", [r EXCEPT !.path = p,
                                         !.status = IF p = NoPath THEN "ERROR" ELSE "ONGOING"])
      BY <2>2 DEF MakeRoutingPath
    <3> DEFINE status == IF p = NoPath THEN "ERROR" ELSE "ONGOING"
               s == [r EXCEPT !.path = p, !.status = status]
    <3>2. r \in Rows /\ Consistent(o, r, confirmed) /\ r.hop \in Nat
      BY TaskCopy
    <3>3. r.path = NoPath /\ UNCHANGED <<row, adrift, ledger, confirmed, misled, faults>>
      BY <2>2 DEF MakeRoutingPath, UnchangedButTask
    <3>4. status \in {"ONGOING", "ERROR"}
      OBVIOUS
    <3> HIDE DEF status
    <3>5. /\ s \in Rows /\ s.path = p /\ s.status = status /\ s.hop = r.hop /\ s.tx = r.tx
          /\ s.rx = r.rx /\ s.txid = r.txid
      BY <3>2, <3>4 DEF Rows
    <3>6. Len(p) \in Nat /\ r.hop = 0
      <4>1. r.hop = 0
        BY <3>2, <3>3 DEF Consistent
      <4>2. Len(NoPath) \in Nat
        BY DEF NoPath
      <4>3. \A q \in Routes : Len(q) \in Nat
        BY RoutesAssumption
      <4> QED
        BY <4>1, <4>2, <4>3
    <3>7. Consistent(o, s, confirmed')
      BY <3>2, <3>3, <3>4, <3>5, <3>6 DEF Consistent
    <3>8. Goes(o, "write", s) /\ Fits("write", s)
      BY <3>1 DEF Fits, status
    <3>9. s \in Rows'
      BY <3>3, <3>5 DEF Rows, Ids
    <3> HIDE DEF s
    <3> QED
      BY <3>3, <3>7, <3>8, <3>9, QuietLedger, GoesKeepsCInv DEF Phases, CInv, StateOK
  <2>3. ASSUME NEW o \in Order, DispatchTransfer(o) PROVE CInv'
    <3> DEFINE r == task[o].order
    <3>1. /\ UNCHANGED <<row, adrift, ledger, confirmed, misled, faults>>
          /\ r.path \notin {NoPath, <<>>}
      BY <2>3 DEF DispatchTransfer, UnchangedButTask
    <3>2. Rows' = Rows /\ LedgerGrows /\ HistoryGrows /\ LedgerConfirmed'
      BY <3>1, QuietLedger DEF CInv, StateOK, Rows, Ids
    <3>3. /\ r \in Rows /\ Consistent(o, r, confirmed) /\ r.hop \in Nat
          /\ Len(r.path) \in Nat /\ Len(r.path) > 0
      <4>1. r.path \in Seq(Networks)
        BY <3>1, TaskCopy, RoutesAssumption DEF Rows
      <4> QED
        BY <3>1, <4>1, TaskCopy, EmptySeq
    <3>4. CASE Iterates(r) /\ Goes(o, "write", IterateTransferOrder(o, r))
      <4> DEFINE s == IterateTransferOrder(o, r)
      <4>1. s \in Rows'
        BY <3>2, <3>3, IteratedProperties
      <4>2. ASSUME r.hop > 0 /\ r.hop = Len(r.path) PROVE Consistent(o, s, confirmed')
        <5>1. /\ s.path = r.path /\ s.txid = r.txid /\ s.status = "COMPLETE" /\ s.hop = r.hop
              /\ s.tx = r.tx /\ s.rx = r.rx
          BY <3>2, <3>3, <4>2, IteratedProperties
        <5>2. r.rx = "COMPLETE"
          BY <3>3, <3>4, <4>2 DEF Iterates, Consistent
        <5>3. 1..Len(r.path) \subseteq confirmed[o]
          BY <3>3, <4>2, <5>2 DEF Consistent
        <5> HIDE DEF s
        <5> QED
          BY <3>1, <3>3, <5>1, <5>3 DEF Consistent
      <4>3. ASSUME ~(r.hop > 0 /\ r.hop = Len(r.path)) PROVE Consistent(o, s, confirmed')
        <5>1. /\ s.path = r.path /\ s.status = r.status /\ s.hop = r.hop + 1
              /\ s.tx = "INIT" /\ s.rx = "INIT"
          BY <3>2, <3>3, <4>3, IteratedProperties
        <5>2. r.hop + 1 <= Len(r.path)
          BY <3>3, <4>3 DEF Consistent
        <5>3. r.hop # 0 => r.hop \in confirmed[o]
          BY <3>3, <3>4 DEF Iterates, Consistent
        <5>4. 1..r.hop \subseteq confirmed[o]
          BY <3>3, <5>3 DEF Consistent
        <5> HIDE DEF s
        <5> QED
          BY <3>1, <3>3, <5>1, <5>2, <5>4 DEF Consistent
      <4>4. Consistent(o, s, confirmed') /\ Fits("write", s)
        BY <4>2, <4>3 DEF Fits
      <4> HIDE DEF s
      <4> QED
        BY <3>1, <3>2, <3>4, <4>1, <4>4, GoesKeepsCInv DEF Phases, s
    <3>5. CASE ~Iterates(r) /\ r.tx # "COMPLETE" /\ Goes(o, "apply", r)
      <4>1. Fits("apply", r)
        BY <3>3, <3>5 DEF Fits, Iterates, Consistent
      <4> QED
        BY <3>1, <3>2, <3>3, <3>5, <4>1, GoesKeepsCInv DEF Phases
    <3>6. CASE ~Iterates(r) /\ r.tx = "COMPLETE" /\ r.rx # "COMPLETE" /\ Goes(o, "eval", r)
      <4>1. Fits("eval", r)
        BY <3>6 DEF Fits
      <4> QED
        BY <3>1, <3>2, <3>3, <3>6, <4>1, GoesKeepsCInv DEF Phases
    <3> QED
      BY <2>3, <3>4, <3>5, <3>6 DEF DispatchTransfer
  <2>4. ASSUME NEW o \in Order, ApplyInit(o) PROVE CInv'
    <3> DEFINE r == task[o].order
               id == Len(ledger) + 1
    <3>1. /\ UNCHANGED <<row, adrift, confirmed, faults>>
          /\ task[o].at = "apply" /\ r.tx = "INIT"
      BY <2>4 DEF ApplyInit
    <3>2. /\ r \in Rows /\ Consistent(o, r, confirmed) /\ ledger \in Seq(Entries)
          /\ Len(ledger) \in Nat /\ NoId \in Ids
      BY TaskCopy
    <3>3. misled' \subseteq Order /\ HistoryGrows
      BY <2>4, <3>1 DEF ApplyInit, CInv, StateOK, HistoryGrows
    <3>4. CASE UNCHANGED ledger /\ \/ Goes(o, "write", Applied(r, "ERROR", NoId, NoId))
                                   \/ Goes(o, "write", Applied(r, "INIT", NoId, NoId))
      <4>1. NoId \in Ids'
        BY <3>2, <3>4 DEF Ids
      <4>2. LedgerGrows /\ LedgerConfirmed'
        BY <3>1, <3>4 DEF CInv, LedgerGrows, LedgerConfirmed
      <4> QED
        BY <3>1, <3>3, <3>4, <4>1, <4>2, AnsweredKeepsCInv DEF Answers
    <3>5. CASE /\ Sendable(r) /\ ledger' = Sent(o, r)
               /\ \/ Goes(o, "write", Applied(r, "AWAIT_TX_ID", id, NoId))
                  \/ Goes(o, "write", Applied(r, "AWAIT_TX_ID", NoId, NoId))
                  \/ Goes(o, "write", Applied(r, "COMPLETE", NoId, id))
      <4>1. LedgerGrows /\ LedgerConfirmed' /\ Len(ledger') = id
        BY <3>1, <3>2, <3>3, <3>5, SendingProperties
      <4>2. NoId \in Ids' /\ id \in Ids' /\ id # NoId
        BY <3>2, <4>1 DEF Ids, NoId
      <4> QED
        BY <3>1, <3>3, <3>5, <4>1, <4>2, AnsweredKeepsCInv DEF Answers
    <3> QED
      BY <2>4, <3>4, <3>5 DEF ApplyInit
  <2>5. ASSUME NEW o \in Order, ApplyAwait(o) PROVE CInv'
    <3> DEFINE r == task[o].order
               id == IF r.ctx = NoId THEN LastWithdrawal ELSE r.ctx
    <3>1. /\ UNCHANGED <<row, adrift, ledger, confirmed, misled, faults>>
          /\ task[o].at = "apply"
      BY <2>5 DEF ApplyAwait, UnchangedButTask
    <3>2. Ids' = Ids /\ NoId \in Ids /\ r.ctx \in Ids /\ id \in Ids
      BY <3>1, TaskCopy, LastWithdrawalProperties DEF Ids
    <3>3. \/ Goes(o, "write", Applied(r, "AWAIT_TX_ID", r.ctx, NoId))
          \/ id # NoId /\ Goes(o, "write", Applied(r, "COMPLETE", NoId, id))
      BY <2>5 DEF ApplyAwait
    <3> HIDE DEF id
    <3> QED
      BY <3>1, <3>2, <3>3, QuietLedger, AnsweredKeepsCInv DEF CInv, StateOK, Answers
  <2>6. ASSUME NEW o \in Order, Eval(o) PROVE CInv'
    <3> DEFINE r == task[o].order
    <3>1. UNCHANGED <<row, adrift, ledger, misled, faults>> /\ task[o].at = "eval"
      BY <2>6 DEF Eval
    <3>2. /\ r \in Rows /\ Consistent(o, r, confirmed) /\ ledger \in Seq(Entries)
          /\ r.tx = "COMPLETE" /\ r.txid \in Ids /\ r.amount \in Nat /\ r.hop \in Nat
      BY <3>1, TaskCopy DEF Fits
    <3>3. r.hop # 0
      BY <3>2 DEF Consistent
    <3>4. Rows' = Rows
      BY <3>1 DEF Rows, Ids
    <3>5. CASE /\ Goes(o, "write", Evaluated(r, "COMPLETE",
                      IF Network(r) = "chain" THEN ledger[r.txid].amount ELSE r.amount))
               /\ confirmed' = [confirmed EXCEPT ![o] = @ \cup {r.hop}]
      <4> DEFINE amount == IF Network(r) = "chain" THEN ledger[r.txid].amount ELSE r.amount
                 s == Evaluated(r, "COMPLETE", amount)
      <4>1. amount \in Nat
        <5>1. r.txid \in 1..Len(ledger)
          BY <3>2 DEF Consistent, Ids, NoId
        <5>2. ledger[r.txid] \in Entries
          BY <3>2, <5>1, ElementOfSeq
        <5> QED
          BY <3>2, <5>2 DEF Entries
      <4>2. HistoryGrows /\ r.hop \in confirmed'[o]
        BY <3>1, <3>2, <3>3, <3>5 DEF HistoryGrows, CInv, StateOK
      <4>3. LedgerGrows /\ LedgerConfirmed'
        BY <3>1, <4>2, LedgerStaysConfirmed DEF LedgerGrows
      <4> HIDE DEF amount
      <4>4. Consistent(o, r, confirmed')
        BY <3>2, <4>2, ConsistentForGood
      <4>5. Goes(o, "write", s)
        BY <3>5 DEF amount
      <4>6. r.hop \in confirmed'[o] => EvaluatedState("COMPLETE", o, r, confirmed')
        BY DEF EvaluatedState
      <4> QED
        BY <3>1, <3>2, <3>4, <4>1, <4>2, <4>3, <4>4, <4>5, <4>6, EvaluatedKeepsCInv
    <3>6. CASE /\ UNCHANGED confirmed
               /\ \E state \in {"null", "INIT", "PENDING"} :
                    Goes(o, "write", Evaluated(r, state, r.amount))
      <4>1. HistoryGrows /\ LedgerGrows /\ LedgerConfirmed'
        BY <3>1, <3>6, QuietLedger DEF CInv, StateOK
      <4> QED
        BY <3>1, <3>2, <3>4, <3>6, <4>1, EvaluatedKeepsCInv DEF EvaluatedState
    <3> QED
      BY <2>6, <3>5, <3>6 DEF Eval
  <2>7. ASSUME NEW o \in Order, UpdateTransferOrder(o) PROVE CInv'
    <3> DEFINE r == task[o].order
    <3>1. /\ row' = [row EXCEPT ![o] = r] \/ row' = row
          /\ task' = [task EXCEPT ![o] = [at |-> "none", order |-> NewRow(o)]]
          /\ UNCHANGED <<adrift, ledger, confirmed, misled, faults>>
      BY <2>7 DEF UpdateTransferOrder, Written, NoTask
    <3>2. r \in Rows /\ Consistent(o, r, confirmed)
      BY TaskCopy
    <3> HIDE DEF r
    <3> QED
      BY <3>1, <3>2, NewRowProperties, MovesKeepCInv
         DEF CInv, StateOK, CopiesConsistent, RequestsFit, Letters, Phases
  <2>8. ASSUME NEW o \in Order, TimesOut(o) PROVE CInv'
    <3> DEFINE r == task[o].order
               s == [r EXCEPT !.status = "ERROR"]
    <3>1. /\ Goes(o, "write", s)
          /\ UNCHANGED <<row, adrift, ledger, confirmed, misled, faults>>
      BY <2>8 DEF TimesOut, UnchangedButTask
    <3>2. r \in Rows /\ Consistent(o, r, confirmed)
      BY TaskCopy
    <3>3. /\ s \in Rows /\ s.path = r.path /\ s.hop = r.hop /\ s.tx = r.tx /\ s.rx = r.rx
          /\ s.txid = r.txid /\ s.status = "ERROR"
      BY <3>2 DEF Rows
    <3> HIDE DEF s
    <3>4. Consistent(o, s, confirmed') /\ Fits("write", s)
      BY <3>1, <3>2, <3>3 DEF Consistent, Fits
    <3>5. LedgerGrows /\ HistoryGrows /\ LedgerConfirmed' /\ Rows' = Rows
      BY <3>1, QuietLedger DEF CInv, StateOK, Rows, Ids
    <3> QED
      BY <3>1, <3>3, <3>4, <3>5, GoesKeepsCInv DEF Phases
  <2>9. ASSUME NEW o \in Order, HandlerThrows(o) PROVE CInv'
    <3> DEFINE r == task[o].order
    <3>1. UNCHANGED <<row, adrift, confirmed>> /\ faults' \in 0..MaxFaults
      BY <2>9, MaxFaultsAssumption DEF HandlerThrows, Fault, CInv, StateOK
    <3>2. /\ r \in Rows /\ Consistent(o, r, confirmed) /\ Fits(task[o].at, r)
          /\ ledger \in Seq(Entries) /\ Len(ledger) \in Nat /\ NoId \in Ids
          /\ r.tx \in {"null", "INIT", "AWAIT_TX_ID", "COMPLETE", "ERROR"} /\ r.amount \in Nat
      BY TaskCopy
    <3>3. misled' \subseteq Order /\ HistoryGrows
      BY <2>9, <3>1 DEF HandlerThrows, CInv, StateOK, HistoryGrows
    <3>4. /\ task[o].at = "apply"
          /\ Goes(o, "write", Applied(r, r.tx, NoId, NoId))
          /\ ledger' = ledger \/ (r.tx = "INIT" /\ Sendable(r) /\ ledger' = Sent(o, r))
      BY <2>9 DEF HandlerThrows
    <3>5. LedgerGrows /\ LedgerConfirmed' /\ NoId \in Ids'
      <4>1. CASE ledger' = ledger
        BY <3>1, <3>2, <4>1 DEF CInv, LedgerConfirmed, LedgerGrows, Ids
      <4>2. CASE r.tx = "INIT" /\ Sendable(r) /\ ledger' = Sent(o, r)
        <5>1. LedgerGrows /\ LedgerConfirmed' /\ Len(ledger') = Len(ledger) + 1
          BY <3>2, <3>3, <4>2, SendingProperties
        <5> QED
          BY <3>2, <5>1 DEF Ids, NoId
      <4> QED
        BY <3>4, <4>1, <4>2
    <3>6. r.tx \in Answers /\ r.tx # "COMPLETE"
      BY <3>2, <3>4 DEF Fits, Answers
    <3> QED
      BY <3>1, <3>3, <3>4, <3>5, <3>6, AnsweredKeepsCInv
  <2>10. ASSUME NEW o \in Order, RequestTimesOut(o) PROVE CInv'
    <3>1. /\ Fault /\ adrift' = adrift \cup Abandoned(o)
          /\ task' = [task EXCEPT ![o] = [at |-> "none", order |-> NewRow(o)]]
          /\ UNCHANGED <<row, ledger, confirmed, misled>>
      BY <2>10 DEF RequestTimesOut, NoTask
    <3>2. faults' \in 0..MaxFaults
      BY <3>1, MaxFaultsAssumption DEF Fault, CInv, StateOK
    <3>3. ASSUME NEW a \in Abandoned(o)
          PROVE  /\ a \in Letters /\ Consistent(a.of, a.order, confirmed)
                 /\ a.at = "apply" => a.order.tx = "INIT" /\ Sendable(a.order)
      BY <3>1, AbandonedProperties
    <3>4. /\ adrift \subseteq Letters
          /\ \A a \in adrift : /\ Consistent(a.of, a.order, confirmed)
                               /\ a.at = "apply" => a.order.tx = "INIT" /\ Sendable(a.order)
      BY DEF CInv, StateOK, CopiesConsistent, RequestsFit, Letters
    <3> QED
      BY <3>1, <3>2, <3>3, <3>4, NewRowProperties, MovesKeepCInv
         DEF CInv, StateOK, CopiesConsistent, RequestsFit, Phases
  <2>11. CASE Crash
    <3>1. /\ Fault /\ adrift' = adrift \cup UNION {Abandoned(o) : o \in Order}
          /\ task' = [o \in Order |-> [at |-> "none", order |-> NewRow(o)]]
          /\ UNCHANGED <<row, ledger, confirmed, misled>>
      BY <2>11 DEF Crash, NoTask
    <3>2. faults' \in 0..MaxFaults
      BY <3>1, MaxFaultsAssumption DEF Fault, CInv, StateOK
    <3>3. ASSUME NEW o \in Order, NEW a \in Abandoned(o)
          PROVE  /\ a \in Letters /\ Consistent(a.of, a.order, confirmed)
                 /\ a.at = "apply" => a.order.tx = "INIT" /\ Sendable(a.order)
      BY <3>1, AbandonedProperties
    <3>4. /\ adrift \subseteq Letters
          /\ \A a \in adrift : /\ Consistent(a.of, a.order, confirmed)
                               /\ a.at = "apply" => a.order.tx = "INIT" /\ Sendable(a.order)
      BY DEF CInv, StateOK, CopiesConsistent, RequestsFit, Letters
    <3>5. ASSUME NEW a \in adrift'
          PROVE  /\ a \in Letters /\ Consistent(a.of, a.order, confirmed)
                 /\ a.at = "apply" => a.order.tx = "INIT" /\ Sendable(a.order)
      <4>1. CASE a \in adrift
        BY <3>4, <4>1
      <4>2. ASSUME NEW o \in Order, a \in Abandoned(o)
            PROVE  /\ a \in Letters /\ Consistent(a.of, a.order, confirmed)
                   /\ a.at = "apply" => a.order.tx = "INIT" /\ Sendable(a.order)
        BY <3>3, <4>2
      <4>3. a \in adrift \/ \E o \in Order : a \in Abandoned(o)
        BY <3>1
      <4> QED
        BY <4>1, <4>2, <4>3
    <3>6. task' \in [Order -> [at : Phases, order : Rows]]
      BY <3>1, NewRowProperties DEF Phases
    <3>7. \A o \in Order : /\ Consistent(o, task'[o].order, confirmed)
                           /\ Fits(task'[o].at, task'[o].order)
      BY <3>1, NewRowProperties
    <3> QED
      BY <3>1, <3>2, <3>5, <3>6, <3>7, MovesKeepCInv DEF CInv, StateOK, CopiesConsistent
  <2>12. ASSUME NEW a \in adrift, ServedLate(a) PROVE CInv'
    <3>1. UNCHANGED <<task, confirmed, misled, faults>> /\ adrift' = adrift \ {a}
      BY <2>12 DEF ServedLate
    <3>2. a \in Letters
      BY DEF CInv, StateOK, Letters
    <3>3. a.of \in Order /\ a.order \in Rows /\ Consistent(a.of, a.order, confirmed)
      BY <3>2 DEF Letters, CInv, CopiesConsistent
    <3>4. CASE a.at = "apply" /\ ledger' = Sent(a.of, a.order) /\ UNCHANGED row
      <4>1. a.order.tx = "INIT" /\ Sendable(a.order)
        BY <3>4 DEF CInv, RequestsFit
      <4>2. LedgerGrows /\ LedgerConfirmed'
        <5>1. HistoryGrows
          BY <3>1 DEF CInv, StateOK, HistoryGrows
        <5> QED
          BY <3>3, <3>4, <4>1, <5>1, SendingProperties
      <4>3. ledger' \in Seq(Entries) /\ Rows \subseteq Rows'
        BY <4>2, LedgerGrowth DEF CInv, StateOK, Entries
      <4>4. StateOK'
        <5>1. /\ row' \in [Order -> Rows'] /\ task' \in [Order -> [at : Phases, order : Rows']]
              /\ adrift' \subseteq [fault : 0..MaxFaults, of : Order, at : {"apply", "write"},
                                   order : Rows']
          BY <3>1, <3>4, <4>3 DEF CInv, StateOK, Phases
        <5> QED
          BY <3>1, <4>3, <5>1 DEF CInv, StateOK, Entries, Phases
      <4> QED
        BY <3>1, <3>4, <4>2, <4>4 DEF CInv, CopiesConsistent, RequestsFit
    <3>5. CASE /\ a.at = "write" /\ UNCHANGED ledger
               /\ row' = [row EXCEPT ![a.of] = a.order] \/ row' = row
      BY <3>1, <3>3, <3>5, MovesKeepCInv
         DEF CInv, StateOK, CopiesConsistent, RequestsFit, Letters, Phases
    <3> QED
      BY <2>12, <3>4, <3>5 DEF ServedLate, Written
  <2>13. CASE UNCHANGED vars
    BY <2>13, MovesKeepCInv
       DEF vars, CInv, StateOK, CopiesConsistent, RequestsFit, Letters, Phases
  <2>14. ASSUME NEW o \in Order, DispatchThrows(o) PROVE CInv'
    <3>1. /\ task' = [task EXCEPT ![o] = [at |-> "none", order |-> NewRow(o)]]
          /\ UNCHANGED <<row, adrift, ledger, confirmed, misled, faults>>
      BY <2>14 DEF DispatchThrows, UnchangedButTask, NoTask
    <3> QED
      BY <3>1, NewRowProperties, MovesKeepCInv
         DEF CInv, StateOK, CopiesConsistent, RequestsFit, Letters, Phases
  <2> QED
    BY <2>1, <2>2, <2>3, <2>4, <2>5, <2>6, <2>7, <2>8, <2>9, <2>10, <2>11, <2>12, <2>13,
       <2>14
       DEF Next, Advance
<1> QED
  BY <1>1, <1>2, PTL DEF Spec

\* The types of the state.  The amounts stay natural numbers and the ids name transfers
\* because an exchange sends nothing that is not positive and a hop that is complete has
\* an id.
THEOREM TypeCorrect == Spec => []TypeOK
<1>1. Init => takesText \in BOOLEAN
  BY DEF Init
<1>2. takesText \in BOOLEAN /\ [Next]_vars => (takesText \in BOOLEAN)'
  <2> SUFFICES ASSUME [Next]_vars PROVE takesText' = takesText
    OBVIOUS
  <2> QED
    BY DEF Next, Advance, Poll, MakeRoutingPath, TimesOut, DispatchTransfer, DispatchThrows,
       ApplyInit, ApplyAwait, Eval, UpdateTransferOrder, HandlerThrows, RequestTimesOut, Crash,
       ServedLate, UnchangedButTask, vars
<1> QED
  BY <1>1, <1>2, CopiesInvariant, PTL DEF Spec, CInv, TypeOK

\* No money leaves for the next hop before the account it leaves from has been found to
\* have received it, whichever copy of the order it is sent for and however late; and an
\* order is complete only when every hop is (index.ts:360-475).
THEOREM HopsInOrder == Spec => []HopsAreConfirmed
<1>1. CInv => HopsAreConfirmed
  BY DEF CInv, CopiesConsistent, LedgerConfirmed, Consistent, HopsAreConfirmed
<1> QED
  BY <1>1, CopiesInvariant, PTL

-----------------------------------------------------------------------------
(* Amounts.                                                                *)

\* What has been delivered stays delivered.
LEMMA DeliveredGrows ==
    ASSUME ledger \in Seq(Entries), LedgerGrows, NEW o, NEW p, NEW h
    PROVE  Delivered(ledger, o, p, h) \subseteq Delivered(ledger', o, p, h)
<1>1. \A i \in DOMAIN ledger : i \in DOMAIN ledger' /\ ledger'[i] = ledger[i]
  BY LedgerGrowth
<1> QED
  BY <1>1 DEF Delivered

\* A transfer delivers its amount.
LEMMA TransferDelivers ==
    ASSUME NEW l, NEW o, NEW r, r.hop # 0, NEW i, IsTransferOf(i, o, r, l)
    PROVE  l[i].amount \in Delivered(l, o, r.path, r.hop)
  BY DEF Delivered, IsTransferOf

\* An honest copy stays honest whatever is sent later.
LEMMA HonestForGood ==
    ASSUME ledger \in Seq(Entries), LedgerGrows, NEW o, NEW r, Honest(o, r, ledger)
    PROVE  Honest(o, r, ledger')
<1>1. \A i \in DOMAIN ledger : i \in DOMAIN ledger' /\ ledger'[i] = ledger[i]
  BY LedgerGrowth
<1>2. \A p, h : Delivered(ledger, o, p, h) \subseteq Delivered(ledger', o, p, h)
  BY DeliveredGrows
<1> QED
  BY <1>1, <1>2 DEF Honest, IsTransferOf

AInv == CopiesHonest /\ AmountsAddUp

\* What is sent for an honest copy is something the hop before has delivered.
LEMMA SendingKeepsAmounts ==
    ASSUME CInv, AInv, NEW o \in Order, NEW r \in Rows, Consistent(o, r, confirmed),
           r.tx = "INIT", Sendable(r), o \notin misled => Honest(o, r, ledger),
           ledger' = Sent(o, r), misled \subseteq misled'
    PROVE  /\ LedgerGrows /\ AmountsAddUp'
           /\ IsTransferOf(Len(ledger) + 1, o, r, ledger')
<1> DEFINE e == [order |-> o, hop |-> r.hop, path |-> r.path,
                 amount |-> Arrives(Network(r), r.amount)]
<1>1. ledger \in Seq(Entries)
  BY DEF CInv, StateOK, Entries
<1>2. r.hop # 0 /\ r.path \in Routes
  BY HopOfRoute DEF Consistent
<1>3. e \in Entries /\ ledger' = Append(ledger, e)
  BY <1>1, <1>2, SentProperties
<1>4. /\ e.order = o /\ e.hop = r.hop /\ e.path = r.path
      /\ e.amount = Arrives(r.path[r.hop], r.amount)
  BY DEF Network
<1>5. o \notin misled => r.amount \in Delivered(ledger, o, r.path, r.hop - 1)
  BY <1>2 DEF Honest, Consistent
<1> HIDE DEF e
<1>6. /\ Len(ledger) \in Nat /\ Len(ledger') = Len(ledger) + 1
      /\ DOMAIN ledger' = 1..Len(ledger') /\ DOMAIN ledger = 1..Len(ledger)
      /\ \A i \in 1..Len(ledger) : ledger'[i] = ledger[i]
      /\ ledger'[Len(ledger) + 1] = e
  BY <1>1, <1>3, AppendProperties
<1>7. \A i \in DOMAIN ledger' : i \in 1..Len(ledger) \/ i = Len(ledger) + 1
  BY <1>6
<1>8. LedgerGrows
  BY <1>3 DEF LedgerGrows
<1>9. \A q, p, h : Delivered(ledger, q, p, h) \subseteq Delivered(ledger', q, p, h)
  BY <1>1, <1>8, DeliveredGrows
<1>10. ASSUME NEW i \in DOMAIN ledger', ledger'[i].order \notin misled'
       PROVE  \E sent \in Delivered(ledger', ledger'[i].order, ledger'[i].path,
                                    ledger'[i].hop - 1) :
                  ledger'[i].amount = Arrives(ledger'[i].path[ledger'[i].hop], sent)
  <2>1. CASE i \in 1..Len(ledger)
    <3>1. ledger'[i] = ledger[i] /\ ledger[i].order \notin misled /\ i \in DOMAIN ledger
      BY <1>6, <1>10, <2>1
    <3>2. PICK sent \in Delivered(ledger, ledger[i].order, ledger[i].path, ledger[i].hop - 1) :
              ledger[i].amount = Arrives(ledger[i].path[ledger[i].hop], sent)
      BY <3>1 DEF AInv, AmountsAddUp
    <3> QED
      BY <1>9, <3>1, <3>2
  <2>2. CASE i = Len(ledger) + 1
    <3>1. ledger'[i] = e /\ o \notin misled
      BY <1>4, <1>6, <1>10, <2>2
    <3>2. r.amount \in Delivered(ledger', o, r.path, r.hop - 1)
      BY <1>5, <1>9, <3>1
    <3> QED
      BY <1>4, <3>1, <3>2
  <2> QED
    BY <1>7, <2>1, <2>2
<1>11. AmountsAddUp'
  BY <1>10 DEF AmountsAddUp
<1>12. IsTransferOf(Len(ledger) + 1, o, r, ledger')
  <2>1. Len(ledger) + 1 \in DOMAIN ledger'
    BY <1>6
  <2> QED
    BY <1>4, <1>6, <2>1 DEF IsTransferOf, Network
<1> QED
  BY <1>8, <1>11, <1>12

\* A step that sends nothing keeps the amounts.
LEMMA QuietKeepsAmounts ==
    ASSUME AInv, ledger' = ledger, misled \subseteq misled'
    PROVE  AmountsAddUp' /\ LedgerGrows
  BY DEF AInv, AmountsAddUp, LedgerGrows

LEMMA GoesKeepsHonest ==
    ASSUME CInv, AInv, LedgerGrows, misled \subseteq misled', UNCHANGED <<row, adrift>>,
           NEW o \in Order, NEW at, NEW r, o \notin misled' => Honest(o, r, ledger'),
           Goes(o, at, r)
    PROVE  CopiesHonest'
<1>1. ledger \in Seq(Entries)
  BY DEF CInv, StateOK, Entries
<1>2. \A p \in Order : task'[p] = IF p = o THEN [at |-> at, order |-> r] ELSE task[p]
  BY DEF CInv, StateOK, Goes
<1>3. \A p \in Order \ misled' :
          /\ Honest(p, row[p], ledger')
          /\ Honest(p, task[p].order, ledger')
          /\ \A a \in adrift : a.of = p => Honest(p, a.order, ledger')
  BY <1>1, HonestForGood DEF AInv, CopiesHonest
<1> QED
  BY <1>2, <1>3 DEF CopiesHonest

LEMMA NewRowIsHonest == \A o : Honest(o, NewRow(o), ledger)
  BY DEF Honest, NewRow

\* A step that sends nothing and moves copies about.
LEMMA MovesKeepAInv ==
    ASSUME AInv, UNCHANGED <<ledger, misled>>,
           \A o \in Order \ misled :
               /\ Honest(o, row'[o], ledger)
               /\ Honest(o, task'[o].order, ledger)
               /\ \A a \in adrift' : a.of = o => Honest(o, a.order, ledger)
    PROVE  AInv'
  BY QuietKeepsAmounts DEF AInv, CopiesHonest

\* The answer to TransferApply leaves an honest copy, if what it names is of this hop.
LEMMA AnsweredIsHonest ==
    ASSUME NEW o, NEW r \in Rows', NEW l, Honest(o, r, l), NEW state \in Answers,
           NEW ctx \in Ids', NEW txid \in Ids',
           state = "COMPLETE" => IsTransferOf(txid, o, r, l),
           state = "AWAIT_TX_ID" => IsTransferOf(ctx, o, r, l)
    PROVE  Honest(o, Applied(r, state, ctx, txid), l)
<1> DEFINE s == Applied(r, state, ctx, txid)
<1>1. /\ s.path = r.path /\ s.hop = r.hop /\ s.rx = r.rx /\ s.amount = r.amount
      /\ s.tx = state /\ s.ctx = ctx /\ s.txid = txid
  BY AppliedProperties
<1> HIDE DEF s
<1>2. Honest(o, s, l)
  BY <1>1 DEF Honest, IsTransferOf, Network
<1> QED
  BY <1>2 DEF s

\* The answer to TransferEval leaves an honest copy, if the amount is.
LEMMA EvaluatedIsHonest ==
    ASSUME NEW o, NEW r \in Rows', NEW l, Honest(o, r, l), r.hop # 0, r.rx # "COMPLETE",
           NEW state \in Verdicts, NEW amount \in Nat,
           IF state = "COMPLETE" THEN amount \in Delivered(l, o, r.path, r.hop)
           ELSE amount = r.amount
    PROVE  Honest(o, Evaluated(r, state, amount), l)
<1> DEFINE s == Evaluated(r, state, amount)
<1>1. /\ s.path = r.path /\ s.hop = r.hop /\ s.rx = state /\ s.amount = amount
      /\ s.tx = r.tx /\ s.ctx = r.ctx /\ s.txid = r.txid
  BY EvaluatedProperties
<1> HIDE DEF s
<1>2. Honest(o, s, l)
  BY <1>1 DEF Honest, IsTransferOf, Network
<1> QED
  BY <1>2 DEF s

THEOREM AmountsInvariant == Spec => []AInv
<1>1. Init => AInv
  BY DEF Init, AInv, CopiesHonest, AmountsAddUp, Honest, NewRow, NoTask
<1>2. ASSUME CInv, CInv', AInv, [Next]_vars PROVE AInv'
  <2> USE <1>2
  <2>1. CASE Poll
    <3>1. /\ UNCHANGED <<row, adrift, ledger, misled>>
          /\ \A o \in Order : task'[o].order = IF Ended(row[o]) THEN NewRow(o) ELSE row[o]
      BY <2>1 DEF Poll, NoTask
    <3> QED
      BY <3>1, NewRowIsHonest, MovesKeepAInv DEF AInv, CopiesHonest
  <2>2. ASSUME NEW o \in Order, MakeRoutingPath(o) PROVE AInv'
    <3> DEFINE r == task[o].order
    <3>1. PICK p, status :
              Goes(o, "write", [r EXCEPT !.path = p, !.status = status])
      BY <2>2 DEF MakeRoutingPath
    <3> DEFINE s == [r EXCEPT !.path = p, !.status = status]
    <3>2. r \in Rows /\ Consistent(o, r, confirmed) /\ r.hop \in Nat
      BY TaskCopy
    <3>3. r.path = NoPath /\ UNCHANGED <<row, adrift, ledger, misled>>
      BY <2>2 DEF MakeRoutingPath, UnchangedButTask
    <3>4. r.hop = 0 /\ r.tx = "null"
      BY <3>2, <3>3 DEF Consistent
    <3>5. s.hop = r.hop /\ s.tx = r.tx
      BY <3>2 DEF Rows
    <3>6. Goes(o, "write", s)
      BY <3>1
    <3> HIDE DEF s
    <3>7. Honest(o, s, ledger')
      BY <3>4, <3>5 DEF Honest
    <3> QED
      BY <3>3, <3>6, <3>7, QuietKeepsAmounts, GoesKeepsHonest DEF AInv
  <2>3. ASSUME NEW o \in Order, DispatchTransfer(o) PROVE AInv'
    <3> DEFINE r == task[o].order
    <3>1. UNCHANGED <<row, adrift, ledger, misled>>
      BY <2>3 DEF DispatchTransfer, UnchangedButTask
    <3>2. /\ r \in Rows /\ Consistent(o, r, confirmed) /\ r.hop \in Nat
          /\ Rows' = Rows
      BY <3>1, TaskCopy DEF Rows, Ids
    <3>3. o \notin misled => Honest(o, r, ledger)
      BY DEF AInv, CopiesHonest
    <3>4. AmountsAddUp' /\ LedgerGrows
      BY <3>1, QuietKeepsAmounts
    <3>5. CASE Iterates(r) /\ Goes(o, "write", IterateTransferOrder(o, r))
      <4> DEFINE s == IterateTransferOrder(o, r)
      <4>1. ASSUME o \notin misled, r.hop > 0 /\ r.hop = Len(r.path)
            PROVE  Honest(o, s, ledger)
        <5>1. /\ s.path = r.path /\ s.hop = r.hop /\ s.amount = r.amount /\ s.tx = r.tx
              /\ s.rx = r.rx /\ s.ctx = r.ctx /\ s.txid = r.txid
          BY <3>2, <4>1, IteratedProperties
        <5> HIDE DEF s
        <5> QED
          BY <3>3, <4>1, <5>1 DEF Honest, IsTransferOf, Network
      <4>2. ASSUME o \notin misled, ~(r.hop > 0 /\ r.hop = Len(r.path))
            PROVE  Honest(o, s, ledger)
        <5>1. /\ s.path = r.path /\ s.hop = r.hop + 1 /\ s.tx = "INIT" /\ s.rx = "INIT"
              /\ s.amount = IF r.hop = 0 THEN Amount[o] ELSE r.amount
          BY <3>2, <4>2, IteratedProperties
        <5>2. r.hop # 0 => r.rx = "COMPLETE"
          BY <3>2, <3>5 DEF Iterates, Consistent
        <5>3. s.amount \in Delivered(ledger, o, r.path, r.hop)
          <6>1. CASE r.hop = 0
            BY <5>1, <6>1 DEF Delivered
          <6>2. CASE r.hop # 0
            BY <3>3, <4>2, <5>1, <5>2, <6>2 DEF Honest
          <6> QED
            BY <6>1, <6>2
        <5>4. s.hop - 1 = r.hop
          BY <3>2, <5>1
        <5> HIDE DEF s
        <5> QED
          BY <5>1, <5>3, <5>4 DEF Honest
      <4>3. o \notin misled' => Honest(o, s, ledger')
        BY <3>1, <4>1, <4>2
      <4> HIDE DEF s
      <4> QED
        BY <3>1, <3>4, <3>5, <4>3, GoesKeepsHonest DEF AInv, s
    <3>6. CASE Goes(o, "apply", r) \/ Goes(o, "eval", r)
      BY <3>1, <3>3, <3>4, <3>6, GoesKeepsHonest DEF AInv
    <3> QED
      BY <2>3, <3>5, <3>6 DEF DispatchTransfer
  <2>4. ASSUME NEW o \in Order, ApplyInit(o) PROVE AInv'
    <3> DEFINE r == task[o].order
               id == Len(ledger) + 1
    <3>1. UNCHANGED <<row, adrift, confirmed, faults>> /\ r.tx = "INIT" /\ misled \subseteq misled'
      BY <2>4 DEF ApplyInit
    <3>2. /\ r \in Rows /\ Consistent(o, r, confirmed) /\ ledger \in Seq(Entries)
          /\ Len(ledger) \in Nat /\ NoId \in Ids
      BY TaskCopy
    <3>3. o \notin misled => Honest(o, r, ledger)
      BY DEF AInv, CopiesHonest
    <3>4. CASE UNCHANGED ledger /\ \/ Goes(o, "write", Applied(r, "ERROR", NoId, NoId))
                                   \/ Goes(o, "write", Applied(r, "INIT", NoId, NoId))
      <4>1. NoId \in Ids' /\ r \in Rows'
        BY <3>2, <3>4 DEF Ids, Rows
      <4>2. AmountsAddUp' /\ LedgerGrows
        BY <3>1, <3>4, QuietKeepsAmounts
      <4>3. ASSUME o \notin misled, NEW state \in {"ERROR", "INIT"}
            PROVE  Honest(o, Applied(r, state, NoId, NoId), ledger')
        BY <3>3, <3>4, <4>1, <4>3, AnsweredIsHonest DEF Answers
      <4> QED
        BY <3>1, <3>4, <4>2, <4>3, GoesKeepsHonest DEF AInv
    <3>5. CASE /\ Sendable(r) /\ ledger' = Sent(o, r)
               /\ \/ Goes(o, "write", Applied(r, "AWAIT_TX_ID", id, NoId))
                  \/ /\ Goes(o, "write", Applied(r, "AWAIT_TX_ID", NoId, NoId))
                     /\ misled' = misled \cup {o}
                  \/ Goes(o, "write", Applied(r, "COMPLETE", NoId, id))
      <4>1. LedgerGrows /\ AmountsAddUp' /\ IsTransferOf(id, o, r, ledger')
        BY <3>1, <3>2, <3>3, <3>5, SendingKeepsAmounts
      <4>2. r \in Rows' /\ id \in DOMAIN ledger' /\ DOMAIN ledger' = 1..Len(ledger')
            /\ Len(ledger') \in Nat
        BY <3>2, <4>1, LedgerGrowth DEF IsTransferOf
      <4>3. NoId \in Ids' /\ id \in Ids'
        BY <4>2 DEF Ids, NoId
      <4>4. o \notin misled => Honest(o, r, ledger')
        BY <3>2, <3>3, <4>1, HonestForGood
      <4>5. ASSUME o \notin misled
            PROVE  /\ Honest(o, Applied(r, "AWAIT_TX_ID", id, NoId), ledger')
                   /\ Honest(o, Applied(r, "COMPLETE", NoId, id), ledger')
        BY <4>1, <4>2, <4>3, <4>4, <4>5, AnsweredIsHonest DEF Answers
      <4> QED
        BY <3>1, <3>5, <4>1, <4>5, GoesKeepsHonest DEF AInv
    <3> QED
      BY <2>4, <3>4, <3>5 DEF ApplyInit
  <2>5. ASSUME NEW o \in Order, ApplyAwait(o) PROVE AInv'
    <3> DEFINE r == task[o].order
               id == IF r.ctx = NoId THEN LastWithdrawal ELSE r.ctx
    <3>1. /\ UNCHANGED <<row, adrift, ledger, misled>> /\ r.tx = "AWAIT_TX_ID"
          /\ AmountsAddUp' /\ LedgerGrows
      BY <2>5, QuietKeepsAmounts DEF ApplyAwait, UnchangedButTask
    <3>2. /\ r \in Rows /\ ledger \in Seq(Entries) /\ NoId \in Ids' /\ r.ctx \in Ids'
          /\ r \in Rows'
      BY <3>1, TaskCopy DEF Ids, Rows
    <3>3. ASSUME o \notin misled
          PROVE  Honest(o, r, ledger') /\ IsTransferOf(r.ctx, o, r, ledger') /\ id = r.ctx
      <4>1. Honest(o, r, ledger) /\ IsTransferOf(r.ctx, o, r, ledger)
        BY <3>1, <3>3 DEF AInv, CopiesHonest, Honest
      <4>2. r.ctx # NoId
        BY <3>2, <4>1 DEF IsTransferOf, NoId
      <4> QED
        BY <3>1, <4>1, <4>2
    <3>4. ASSUME o \notin misled
          PROVE  /\ Honest(o, Applied(r, "AWAIT_TX_ID", r.ctx, NoId), ledger')
                 /\ Honest(o, Applied(r, "COMPLETE", NoId, r.ctx), ledger')
      BY <3>2, <3>3, <3>4, AnsweredIsHonest DEF Answers
    <3>5. \/ Goes(o, "write", Applied(r, "AWAIT_TX_ID", r.ctx, NoId))
          \/ Goes(o, "write", Applied(r, "COMPLETE", NoId, id))
      BY <2>5 DEF ApplyAwait
    <3> HIDE DEF id
    <3>6. ASSUME o \notin misled' PROVE Honest(o, Applied(r, "COMPLETE", NoId, id), ledger')
      BY <3>1, <3>3, <3>4, <3>6
    <3> QED
      BY <3>1, <3>4, <3>5, <3>6, GoesKeepsHonest DEF AInv
  <2>6. ASSUME NEW o \in Order, Eval(o) PROVE AInv'
    <3> DEFINE r == task[o].order
    <3>1. /\ UNCHANGED <<row, adrift, ledger, misled>> /\ task[o].at = "eval"
          /\ AmountsAddUp' /\ LedgerGrows
      BY <2>6, QuietKeepsAmounts DEF Eval
    <3>2. /\ r \in Rows /\ Consistent(o, r, confirmed) /\ ledger \in Seq(Entries)
          /\ r.tx = "COMPLETE" /\ r.rx # "COMPLETE" /\ r.txid \in Ids /\ r.amount \in Nat
      BY <3>1, TaskCopy DEF Fits
    <3>3. r.hop # 0 /\ r.txid \in 1..Len(ledger)
      BY <3>2 DEF Consistent, Ids, NoId
    <3>4. Rows' = Rows
      BY <3>1 DEF Rows, Ids
    <3>5. ASSUME o \notin misled
          PROVE  Honest(o, r, ledger') /\ IsTransferOf(r.txid, o, r, ledger)
      BY <3>1, <3>2, <3>5 DEF AInv, CopiesHonest, Honest
    <3>6. ASSUME Goes(o, "write", Evaluated(r, "COMPLETE",
                     IF Network(r) = "chain" THEN ledger[r.txid].amount ELSE r.amount))
          PROVE  AInv'
      <4> DEFINE amount == IF Network(r) = "chain" THEN ledger[r.txid].amount ELSE r.amount
      <4>1. amount \in Nat
        <5>1. ledger[r.txid] \in Entries
          BY <3>2, <3>3, ElementOfSeq
        <5> QED
          BY <3>2, <5>1 DEF Entries
      <4>2. ASSUME o \notin misled PROVE amount \in Delivered(ledger', o, r.path, r.hop)
        <5>1. amount = ledger[r.txid].amount
          BY <3>2, <3>5, <4>2 DEF IsTransferOf, Arrives
        <5> HIDE DEF amount
        <5> QED
          BY <3>1, <3>3, <3>5, <4>2, <5>1, TransferDelivers
      <4> HIDE DEF amount
      <4>3. o \notin misled' => Honest(o, Evaluated(r, "COMPLETE", amount), ledger')
        BY <3>1, <3>2, <3>3, <3>4, <3>5, <4>1, <4>2, EvaluatedIsHonest DEF Verdicts
      <4> QED
        BY <3>1, <3>6, <4>3, GoesKeepsHonest DEF AInv, amount
    <3>7. ASSUME NEW state \in {"null", "INIT", "PENDING"},
                 Goes(o, "write", Evaluated(r, state, r.amount))
          PROVE  AInv'
      <4>1. o \notin misled' => Honest(o, Evaluated(r, state, r.amount), ledger')
        BY <3>1, <3>2, <3>3, <3>4, <3>5, EvaluatedIsHonest DEF Verdicts
      <4> QED
        BY <3>1, <3>7, <4>1, GoesKeepsHonest DEF AInv
    <3> QED
      BY <2>6, <3>6, <3>7 DEF Eval
  <2>7. ASSUME NEW o \in Order, UpdateTransferOrder(o) PROVE AInv'
    <3>1. /\ row' = [row EXCEPT ![o] = task[o].order] \/ row' = row
          /\ task' = [task EXCEPT ![o] = [at |-> "none", order |-> NewRow(o)]]
          /\ UNCHANGED <<adrift, ledger, misled>>
      BY <2>7 DEF UpdateTransferOrder, Written, NoTask
    <3>2. \A p \in Order : /\ row'[p] = row[p] \/ (p = o /\ row'[p] = task[o].order)
                           /\ task'[p].order = IF p = o THEN NewRow(p) ELSE task[p].order
      BY <3>1 DEF CInv, StateOK
    <3> QED
      BY <3>1, <3>2, NewRowIsHonest, MovesKeepAInv DEF AInv, CopiesHonest
  <2>8. ASSUME NEW o \in Order, TimesOut(o) PROVE AInv'
    <3> DEFINE r == task[o].order
               s == [r EXCEPT !.status = "ERROR"]
    <3>1. Goes(o, "write", s) /\ UNCHANGED <<row, adrift, ledger, misled>>
      BY <2>8 DEF TimesOut, UnchangedButTask
    <3>2. r \in Rows /\ (o \notin misled => Honest(o, r, ledger))
      BY TaskCopy DEF AInv, CopiesHonest
    <3>3. /\ s.path = r.path /\ s.hop = r.hop /\ s.tx = r.tx /\ s.rx = r.rx
          /\ s.ctx = r.ctx /\ s.txid = r.txid /\ s.amount = r.amount
      BY <3>2 DEF Rows
    <3> HIDE DEF s
    <3>4. o \notin misled' => Honest(o, s, ledger')
      BY <3>1, <3>2, <3>3 DEF Honest, IsTransferOf, Network
    <3> QED
      BY <3>1, <3>4, QuietKeepsAmounts, GoesKeepsHonest DEF AInv
  <2>9. ASSUME NEW o \in Order, HandlerThrows(o) PROVE AInv'
    <3> DEFINE r == task[o].order
    <3>1. UNCHANGED <<row, adrift>> /\ misled \subseteq misled'
      BY <2>9 DEF HandlerThrows
    <3>2. /\ r \in Rows /\ Consistent(o, r, confirmed) /\ Fits(task[o].at, r)
          /\ ledger \in Seq(Entries) /\ Len(ledger) \in Nat /\ NoId \in Ids
          /\ r.tx \in {"null", "INIT", "AWAIT_TX_ID", "COMPLETE", "ERROR"} /\ r.amount \in Nat
      BY TaskCopy
    <3>3. o \notin misled => Honest(o, r, ledger)
      BY DEF AInv, CopiesHonest
    <3>4. /\ task[o].at = "apply" /\ Goes(o, "write", Applied(r, r.tx, NoId, NoId))
          /\ ledger' = ledger \/ (r.tx = "INIT" /\ Sendable(r) /\ ledger' = Sent(o, r))
          /\ r.tx = "AWAIT_TX_ID" => o \in misled'
      BY <2>9 DEF HandlerThrows
    <3>5. LedgerGrows /\ AmountsAddUp'
      BY <3>1, <3>2, <3>3, <3>4, QuietKeepsAmounts, SendingKeepsAmounts
    <3>6. r \in Rows' /\ Len(ledger') \in Nat
      BY <3>2, <3>5, LedgerGrowth
    <3>7. NoId \in Ids'
      BY <3>6 DEF Ids, NoId
    <3>8. r.tx \in Answers /\ r.tx # "COMPLETE"
      BY <3>2, <3>4 DEF Fits, Answers
    <3>9. o \notin misled => Honest(o, r, ledger')
      BY <3>2, <3>3, <3>5, HonestForGood
    <3>10. o \notin misled' => Honest(o, Applied(r, r.tx, NoId, NoId), ledger')
      BY <3>1, <3>4, <3>6, <3>7, <3>8, <3>9, AnsweredIsHonest
    <3> QED
      BY <3>1, <3>4, <3>5, <3>10, GoesKeepsHonest DEF AInv
  <2>10. ASSUME NEW o \in Order, RequestTimesOut(o) PROVE AInv'
    <3>1. /\ Fault /\ adrift' = adrift \cup Abandoned(o)
          /\ task' = [task EXCEPT ![o] = [at |-> "none", order |-> NewRow(o)]]
          /\ UNCHANGED <<row, ledger, misled>>
      BY <2>10 DEF RequestTimesOut, NoTask
    <3>2. \A p \in Order : task'[p].order = IF p = o THEN NewRow(p) ELSE task[p].order
      BY <3>1 DEF CInv, StateOK
    <3>3. \A a \in Abandoned(o) : a.of = o /\ a.order = task[o].order
      BY <3>1, AbandonedProperties
    <3> QED
      BY <3>1, <3>2, <3>3, NewRowIsHonest, MovesKeepAInv DEF AInv, CopiesHonest
  <2>11. CASE Crash
    <3>1. /\ Fault /\ adrift' = adrift \cup UNION {Abandoned(o) : o \in Order}
          /\ task' = [o \in Order |-> [at |-> "none", order |-> NewRow(o)]]
          /\ UNCHANGED <<row, ledger, misled>>
      BY <2>11 DEF Crash, NoTask
    <3>2. \A p \in Order : task'[p].order = NewRow(p)
      BY <3>1
    <3>3. \A o \in Order : \A a \in Abandoned(o) : a.of = o /\ a.order = task[o].order
      BY <3>1, AbandonedProperties
    <3>4. \A a \in adrift' : a \in adrift \/ \E o \in Order : a \in Abandoned(o)
      BY <3>1
    <3>5. ASSUME NEW o \in Order \ misled, NEW a \in adrift', a.of = o
          PROVE  Honest(o, a.order, ledger)
      BY <3>3, <3>4, <3>5 DEF AInv, CopiesHonest
    <3> QED
      BY <3>1, <3>2, <3>5, NewRowIsHonest, MovesKeepAInv DEF AInv, CopiesHonest
  <2>12. ASSUME NEW a \in adrift, ServedLate(a) PROVE AInv'
    <3>1. UNCHANGED <<task, misled>> /\ adrift' = adrift \ {a}
      BY <2>12 DEF ServedLate
    <3>2. a \in Letters /\ ledger \in Seq(Entries)
      BY DEF CInv, StateOK, Letters, Entries
    <3>3. /\ a.of \in Order /\ a.order \in Rows /\ Consistent(a.of, a.order, confirmed)
          /\ a.of \notin misled => Honest(a.of, a.order, ledger)
      BY <3>2 DEF Letters, CInv, CopiesConsistent, AInv, CopiesHonest
    <3>4. CASE a.at = "apply" /\ ledger' = Sent(a.of, a.order) /\ UNCHANGED row
      <4>1. a.order.tx = "INIT" /\ Sendable(a.order)
        BY <3>4 DEF CInv, RequestsFit
      <4>2. LedgerGrows /\ AmountsAddUp'
        BY <3>1, <3>3, <3>4, <4>1, SendingKeepsAmounts
      <4>3. CopiesHonest'
        BY <3>1, <3>2, <3>4, <4>2, HonestForGood DEF AInv, CopiesHonest
      <4> QED
        BY <4>2, <4>3 DEF AInv
    <3>5. CASE /\ a.at = "write" /\ UNCHANGED ledger
               /\ row' = [row EXCEPT ![a.of] = a.order] \/ row' = row
      <4>1. \A p \in Order : row'[p] = row[p] \/ (p = a.of /\ row'[p] = a.order)
        BY <3>3, <3>5 DEF CInv, StateOK
      <4> QED
        BY <3>1, <3>3, <3>5, <4>1, MovesKeepAInv DEF AInv, CopiesHonest
    <3> QED
      BY <2>12, <3>4, <3>5 DEF ServedLate, Written
  <2>13. CASE UNCHANGED vars
    BY <2>13, MovesKeepAInv DEF vars, AInv, CopiesHonest
  <2>14. ASSUME NEW o \in Order, DispatchThrows(o) PROVE AInv'
    <3>1. /\ UNCHANGED <<row, adrift, ledger, misled>>
          /\ task' = [task EXCEPT ![o] = [at |-> "none", order |-> NewRow(o)]]
      BY <2>14 DEF DispatchThrows, UnchangedButTask, NoTask
    <3>2. \A p \in Order : task'[p].order = IF p = o THEN NewRow(p) ELSE task[p].order
      BY <3>1 DEF CInv, StateOK
    <3> QED
      BY <3>1, <3>2, NewRowIsHonest, MovesKeepAInv DEF AInv, CopiesHonest
  <2> QED
    BY <2>1, <2>2, <2>3, <2>4, <2>5, <2>6, <2>7, <2>8, <2>9, <2>10, <2>11, <2>12, <2>13,
       <2>14
       DEF Next, Advance
<1> QED
  BY <1>1, <1>2, CopiesInvariant, PTL DEF Spec

\* Every hop sends on what a transfer of the hop before it has delivered, less the fee and
\* in whole coins on the chain, whatever crashes, times out or is written late, unless the
\* order has waited without a context (index.ts:191-246, 389-473, transfer.ts:61, 101).
THEOREM AmountsAreRight == Spec => []AmountsAddUp
  BY AmountsInvariant, PTL DEF AInv

\* What a vendor that waits for a transaction id is given back does name a withdrawal
\* made for this order and this hop, as long as no handler of the order has thrown
\* while waiting (index.ts:397) and the exchange has named every withdrawal it took
\* (transfer.ts:73): the two ways to be without the context.
ContextsComeBackUnlessMisled ==
    \A o \in Order \ misled :
        row[o].tx = "AWAIT_TX_ID" => row[o].ctx \in SentFor(o, row[o].hop)

THEOREM ContextsAreLostByThrowingOnly == Spec => []ContextsComeBackUnlessMisled
<1>1. AInv => ContextsComeBackUnlessMisled
  BY DEF AInv, CopiesHonest, Honest, IsTransferOf, SentFor, ContextsComeBackUnlessMisled
<1> QED
  BY <1>1, AmountsInvariant, PTL

-----------------------------------------------------------------------------
(* Repeats.                                                                *)

Chance(r, h) == IF CanSend(r, h) THEN 1 ELSE 0

\* A copy that can still send every hop there is.
AtTheStart(r) == r.hop = 0 \/ (r.hop = 1 /\ r.tx = "INIT")

\* With the column of the shipped schema no row gets to a hop, and no copy gets further
\* than to the statement that would write the first one.
NoRowBegins ==
    ~takesText =>
        \A o \in Order :
            /\ row[o].hop = 0
            /\ task[o].order.hop = 0 \/ (task[o].at = "write" /\ AtTheStart(task[o].order))

THEOREM RowsInvariant == Spec => []NoRowBegins
<1>1. Init => NoRowBegins
  BY DEF Init, NoRowBegins, NoTask, NewRow
<1>2. ASSUME CInv, NoRowBegins, [Next]_vars PROVE NoRowBegins'
  <2> SUFFICES ASSUME ~takesText, takesText' = takesText
               PROVE  \A o \in Order :
                          /\ row'[o].hop = 0
                          /\ \/ task'[o].order.hop = 0
                             \/ task'[o].at = "write" /\ AtTheStart(task'[o].order)
    <3>1. takesText' = takesText
      BY <1>2 DEF Next, Advance, Poll, MakeRoutingPath, TimesOut, DispatchTransfer,
         DispatchThrows, ApplyInit, ApplyAwait, Eval, UpdateTransferOrder, HandlerThrows,
         RequestTimesOut, Crash, ServedLate, UnchangedButTask, vars
    <3> QED
      BY <3>1 DEF NoRowBegins, AtTheStart
  <2> USE <1>2
  <2>1. \A o \in Order :
            /\ row[o].hop = 0
            /\ task[o].order.hop = 0 \/ (task[o].at = "write" /\ AtTheStart(task[o].order))
    BY DEF NoRowBegins
  <2>2. \A o \in Order : NewRow(o).hop = 0 /\ NoTask(o).order.hop = 0
    BY DEF NewRow, NoTask
  <2>3. \A o \in Order : task[o].at \notin {"apply", "eval"}
    <3>1. ASSUME NEW o \in Order, task[o].at \in {"apply", "eval"} PROVE FALSE
      <4>1. Consistent(o, task[o].order, confirmed) /\ Fits(task[o].at, task[o].order)
        BY TaskCopy
      <4>2. task[o].order.hop = 0
        BY <2>1, <3>1
      <4> QED
        BY <3>1, <4>1, <4>2 DEF Consistent, Fits
    <3> QED
      BY <3>1
  <2>4. ASSUME UNCHANGED row, \A o \in Order : task'[o] = task[o] \/ task'[o].order.hop = 0
        PROVE  \A o \in Order :
                   /\ row'[o].hop = 0
                   /\ \/ task'[o].order.hop = 0
                      \/ task'[o].at = "write" /\ AtTheStart(task'[o].order)
    BY <2>1, <2>4
  <2>5. ASSUME UNCHANGED row, NEW o \in Order, Dispatched(o), NEW at, NEW r, Goes(o, at, r),
               r.hop = 0 \/ (at = "write" /\ AtTheStart(r))
        PROVE  \A p \in Order :
                   /\ row'[p].hop = 0
                   /\ \/ task'[p].order.hop = 0
                      \/ task'[p].at = "write" /\ AtTheStart(task'[p].order)
    <3>1. \A p \in Order : task'[p] = IF p = o THEN [at |-> at, order |-> r] ELSE task[p]
      BY <2>5 DEF Goes, CInv, StateOK
    <3> QED
      BY <2>1, <2>5, <3>1
  <2>6. \A o \in Order : Dispatched(o) => task[o].order.hop = 0
    BY <2>1 DEF Dispatched
  <2>7. CASE Poll
    <3>1. UNCHANGED row /\ \A o \in Order : task'[o].order = NewRow(o) \/ task'[o].order = row[o]
      BY <2>7 DEF Poll, NoTask
    <3> QED
      BY <2>1, <2>2, <2>4, <3>1
  <2>8. ASSUME NEW o \in Order, MakeRoutingPath(o)
        PROVE  \A p \in Order :
                   /\ row'[p].hop = 0
                   /\ \/ task'[p].order.hop = 0
                      \/ task'[p].at = "write" /\ AtTheStart(task'[p].order)
    <3> DEFINE r == task[o].order
    <3>1. PICK p, status : Goes(o, "write", [r EXCEPT !.path = p, !.status = status])
      BY <2>8 DEF MakeRoutingPath
    <3> DEFINE s == [r EXCEPT !.path = p, !.status = status]
    <3>2. UNCHANGED row /\ Dispatched(o) /\ r \in Rows /\ r.hop = 0
      BY <2>6, <2>8, TaskCopy DEF MakeRoutingPath, UnchangedButTask
    <3>3. s.hop = 0
      BY <3>2 DEF Rows
    <3>4. Goes(o, "write", s)
      BY <3>1
    <3> HIDE DEF s
    <3> QED
      BY <2>5, <3>2, <3>3, <3>4
  <2>9. ASSUME NEW o \in Order, DispatchTransfer(o)
        PROVE  \A p \in Order :
                   /\ row'[p].hop = 0
                   /\ \/ task'[p].order.hop = 0
                      \/ task'[p].at = "write" /\ AtTheStart(task'[p].order)
    <3> DEFINE r == task[o].order
               s == IterateTransferOrder(o, r)
    <3>1. UNCHANGED row /\ Dispatched(o) /\ r.hop = 0 /\ r \in Rows'
      BY <2>6, <2>9, TaskCopy DEF DispatchTransfer, UnchangedButTask, Rows, Ids
    <3>2. \/ Goes(o, "write", s)
          \/ \E at \in Phases : Goes(o, at, r)
      BY <2>9 DEF DispatchTransfer, Phases
    <3>3. AtTheStart(s)
      BY <3>1, IteratedProperties DEF AtTheStart
    <3> HIDE DEF s
    <3> QED
      BY <2>5, <3>1, <3>2, <3>3
  <2>10. ASSUME NEW o \in Order,
                \/ ApplyInit(o) \/ ApplyAwait(o) \/ Eval(o) \/ HandlerThrows(o)
                \/ TimesOut(o)
         PROVE  FALSE
    <3>1. ~TimesOut(o)
      <4>1. Dispatched(o) => ~(task[o].order.hop > 0)
        BY <2>6
      <4> QED
        BY <4>1 DEF TimesOut
    <3> QED
      BY <2>3, <2>10, <3>1 DEF ApplyInit, ApplyAwait, Eval, HandlerThrows
  <2>11. ASSUME NEW o \in Order, UpdateTransferOrder(o)
         PROVE  \A p \in Order :
                    /\ row'[p].hop = 0
                    /\ \/ task'[p].order.hop = 0
                       \/ task'[p].at = "write" /\ AtTheStart(task'[p].order)
    <3>1. \A p \in Order : task'[p] = IF p = o THEN NoTask(o) ELSE task[p]
      BY <2>11 DEF UpdateTransferOrder, CInv, StateOK
    <3>2. \A p \in Order : row'[p] = row[p] \/ row'[p].hop = 0
      BY <2>11 DEF UpdateTransferOrder, Written, Storable, CInv, StateOK
    <3> QED
      BY <2>1, <2>2, <3>1, <3>2
  <2>12. ASSUME NEW o \in Order, DispatchThrows(o) \/ RequestTimesOut(o)
         PROVE  \A p \in Order :
                    /\ row'[p].hop = 0
                    /\ \/ task'[p].order.hop = 0
                       \/ task'[p].at = "write" /\ AtTheStart(task'[p].order)
    <3>1. UNCHANGED row /\ \A p \in Order : task'[p] = IF p = o THEN NoTask(o) ELSE task[p]
      BY <2>12 DEF DispatchThrows, RequestTimesOut, UnchangedButTask, CInv, StateOK
    <3> QED
      BY <2>2, <2>4, <3>1
  <2>13. CASE Crash
    BY <2>2, <2>4, <2>13 DEF Crash
  <2>14. ASSUME NEW a \in adrift, ServedLate(a)
         PROVE  \A p \in Order :
                    /\ row'[p].hop = 0
                    /\ \/ task'[p].order.hop = 0
                       \/ task'[p].at = "write" /\ AtTheStart(task'[p].order)
    <3>1. UNCHANGED task
      BY <2>14 DEF ServedLate
    <3>2. \A p \in Order : row'[p] = row[p] \/ row'[p].hop = 0
      BY <2>14 DEF ServedLate, Written, Storable, CInv, StateOK
    <3> QED
      BY <2>1, <3>1, <3>2
  <2>15. CASE UNCHANGED vars
    BY <2>4, <2>15 DEF vars
  <2> QED
    BY <2>7, <2>8, <2>9, <2>10, <2>11, <2>12, <2>13, <2>14, <2>15 DEF Next, Advance
<1> QED
  BY <1>1, <1>2, CopiesInvariant, PTL DEF Spec

\* What is given up by a dispatch at the start is no more than the row may be able to send.
LEMMA NothingIsBeforeTheStart ==
    ASSUME CInv, NEW o \in Order, NEW r, AtTheStart(r), NEW h \in Nat
    PROVE  Chance(row[o], h) <= Chance(r, h)
<1>1. row[o] \in Rows /\ Consistent(o, row[o], confirmed)
  BY DEF CInv, StateOK, CopiesConsistent
<1>2. row[o].hop \in Nat /\ (row[o].hop = 0 => row[o].tx = "null")
  BY <1>1 DEF Rows, Consistent
<1>3. CanSend(row[o], h) => h >= 1
  BY <1>2 DEF CanSend
<1>4. h >= 1 => CanSend(r, h)
  BY DEF CanSend, AtTheStart
<1> QED
  BY <1>3, <1>4 DEF Chance

\* The transfers of a hop are finitely many, and one more when one is sent.
LEMMA SentForProperties ==
    ASSUME ledger \in Seq(Entries), NEW o \in Order, NEW h \in Nat
    PROVE  IsFiniteSet(SentFor(o, h)) /\ Cardinality(SentFor(o, h)) \in Nat
<1>1. SentFor(o, h) \in SUBSET (1..Len(ledger)) /\ Len(ledger) \in Nat
  BY DEF SentFor
<1>2. IsFiniteSet(1..Len(ledger))
  BY <1>1, FS_Interval
<1> QED
  BY <1>1, <1>2, FS_Subset, FS_CardinalityType

LEMMA SendingCounts ==
    ASSUME CInv, NEW p \in Order, NEW r \in Rows, Consistent(p, r, confirmed), r.tx = "INIT",
           Sendable(r), ledger' = Sent(p, r), NEW o \in Order, NEW h \in Nat
    PROVE  Cardinality(SentFor(o, h)') = IF o = p /\ h = r.hop THEN Cardinality(SentFor(o, h)) + 1
                                         ELSE Cardinality(SentFor(o, h))
<1> DEFINE e == [order |-> p, hop |-> r.hop, path |-> r.path,
                 amount |-> Arrives(Network(r), r.amount)]
<1>1. ledger \in Seq(Entries)
  BY DEF CInv, StateOK, Entries
<1>2. r.hop # 0 /\ r.path \in Routes
  BY HopOfRoute DEF Consistent
<1>3. e \in Entries /\ ledger' = Append(ledger, e) /\ e.order = p /\ e.hop = r.hop
  BY <1>1, <1>2, SentProperties
<1> HIDE DEF e
<1>4. /\ Len(ledger) \in Nat /\ Len(ledger') = Len(ledger) + 1
      /\ DOMAIN ledger' = 1..Len(ledger') /\ DOMAIN ledger = 1..Len(ledger)
      /\ \A i \in 1..Len(ledger) : ledger'[i] = ledger[i]
      /\ ledger'[Len(ledger) + 1] = e
  BY <1>1, <1>3, AppendProperties
<1> DEFINE n == Len(ledger) + 1
<1>5. \A i : i \in DOMAIN ledger' <=> i \in DOMAIN ledger \/ i = n
  BY <1>4
<1>6. n \notin DOMAIN ledger /\ n \in DOMAIN ledger'
  BY <1>4
<1>7. SentFor(o, h)' = IF o = p /\ h = r.hop THEN SentFor(o, h) \cup {n} ELSE SentFor(o, h)
  BY <1>3, <1>4, <1>5, <1>6 DEF SentFor
<1>8. n \notin SentFor(o, h)
  BY <1>6 DEF SentFor
<1> HIDE DEF n
<1> QED
  BY <1>1, <1>7, <1>8, SentForProperties, FS_AddElement

\* The bound, in numbers.
LEMMA BoundForOne ==
    ASSUME CInv, SendsAreBounded, NEW o \in Order, NEW h \in Nat
    PROVE  /\ IsFiniteSet(Threats(o, h)) /\ Cardinality(Threats(o, h)) \in Nat
           /\ Cardinality(SentFor(o, h)) \in Nat /\ faults \in Nat
           /\ \A r : Chance(r, h) \in {0, 1}
           /\ Cardinality(SentFor(o, h)) + Cardinality(Threats(o, h)) + Chance(Live(o), h)
                <= 1 + faults
<1>1. ledger \in Seq(Entries) /\ faults \in Nat
  BY MaxFaultsAssumption DEF CInv, StateOK, Entries
<1> QED
  BY <1>1, SentForProperties, FS_CardinalityType DEF SendsAreBounded, Chance

LEMMA Balance ==
    ASSUME NEW s \in Nat, NEW t \in Nat, NEW c \in Nat, NEW f \in Nat, s + t + c <= 1 + f,
           NEW tt \in Nat, NEW cc \in Nat, NEW g \in Nat, tt + cc + f <= t + c + g
    PROVE  s + tt + cc <= 1 + g
  OBVIOUS

LEMMA BalanceOfSending ==
    ASSUME NEW s \in Nat, NEW t \in Nat, NEW c \in {0, 1}, NEW f \in Nat, s + t + c <= 1 + f,
           NEW cc \in {0, 1}, cc <= c, NEW g \in Nat, f <= g,
           NEW ss, ss = s \/ (ss = s + 1 /\ c = 1 /\ (cc = 1 => g = f + 1))
    PROVE  ss + t + cc <= 1 + g
  OBVIOUS

\* A step that sends nothing, forgets no threat it did not turn into a chance, and has a
\* fault for each chance it adds.
LEMMA QuietKeepsBound ==
    ASSUME CInv, SendsAreBounded, ledger' = ledger, faults' \in Nat, faults <= faults',
           \A o \in Order, h \in Nat :
               /\ IsFiniteSet(Threats(o, h)')
               /\ Cardinality(Threats(o, h)') + Chance(Live(o)', h) + faults
                    <= Cardinality(Threats(o, h)) + Chance(Live(o), h) + faults'
    PROVE  SendsAreBounded'
<1> SUFFICES ASSUME NEW o \in Order, NEW h \in Nat
             PROVE  /\ IsFiniteSet(Threats(o, h)')
                    /\ Cardinality(SentFor(o, h)') + Cardinality(Threats(o, h)')
                         + Chance(Live(o)', h) <= 1 + faults'
  BY DEF SendsAreBounded, Chance
<1>1. SentFor(o, h)' = SentFor(o, h)
  BY DEF SentFor
<1>2. IsFiniteSet(Threats(o, h)') /\ Cardinality(Threats(o, h)') \in Nat
  BY FS_CardinalityType
<1>3. Chance(Live(o)', h) \in {0, 1}
  BY DEF Chance
<1> DEFINE S == Cardinality(SentFor(o, h))
           T == Cardinality(Threats(o, h))
           Tn == Cardinality(Threats(o, h)')
           C == Chance(Live(o), h)
           Cn == Chance(Live(o)', h)
<1>4. S \in Nat /\ T \in Nat /\ C \in {0, 1} /\ faults \in Nat /\ S + T + C <= 1 + faults
  BY BoundForOne
<1>5. Tn \in Nat /\ Cn \in {0, 1} /\ Tn + Cn + faults <= T + C + faults'
  BY <1>2, <1>3
<1> HIDE DEF S, T, Tn, C, Cn
<1>6. C \in Nat /\ Cn \in Nat
  BY <1>4, <1>5
<1>7. S + Tn + Cn <= 1 + faults'
  BY <1>4, <1>5, <1>6, Balance
<1> QED
  BY <1>1, <1>2, <1>7 DEF S, Tn, Cn

\* A dispatch goes on with a copy that can send no more than its last one could, and
\* sends only what it could; if it still can, that is a fault.
LEMMA GoesKeepsBound ==
    ASSUME CInv, SendsAreBounded, UNCHANGED <<row, adrift>>, faults' \in Nat, faults <= faults',
           NEW o \in Order, task[o].at # "none", NEW at, at # "none", NEW r, Goes(o, at, r),
           \A h \in Nat : CanSend(r, h) => CanSend(task[o].order, h),
           \/ ledger' = ledger
           \/ /\ ledger' = Sent(o, task[o].order)
              /\ task[o].order.tx = "INIT" /\ Sendable(task[o].order)
              /\ CanSend(r, task[o].order.hop) => faults' = faults + 1
    PROVE  SendsAreBounded'
<1> DEFINE c == task[o].order
<1>1. \A p \in Order : task'[p] = IF p = o THEN [at |-> at, order |-> r] ELSE task[p]
  BY DEF CInv, StateOK, Goes
<1>2. /\ Live(o) = c /\ Live(o)' = r
      /\ \A p \in Order \ {o} : Live(p)' = Live(p)
  BY <1>1 DEF Live
<1>3. \A p \in Order, h \in Nat : Threats(p, h)' = Threats(p, h)
  BY DEF Threats
<1>4. c \in Rows /\ Consistent(o, c, confirmed) /\ c.hop \in Nat
  BY TaskCopy
<1>5. \A p \in Order, h \in Nat : Chance(Live(p)', h) <= Chance(Live(p), h)
  BY <1>2 DEF Chance
<1>6. CASE ledger' = ledger
  <2>1. ASSUME NEW p \in Order, NEW h \in Nat
        PROVE  /\ IsFiniteSet(Threats(p, h)')
               /\ Cardinality(Threats(p, h)') + Chance(Live(p)', h) + faults
                    <= Cardinality(Threats(p, h)) + Chance(Live(p), h) + faults'
    <3> DEFINE T == Cardinality(Threats(p, h))
    <3>1. T \in Nat /\ faults \in Nat /\ IsFiniteSet(Threats(p, h))
      BY BoundForOne
    <3>2. Chance(Live(p)', h) \in {0, 1} /\ Chance(Live(p), h) \in {0, 1}
      BY DEF Chance
    <3> QED
      BY <1>3, <1>5, <3>1, <3>2
  <2> QED
    BY <1>6, <2>1, QuietKeepsBound
<1>7. CASE /\ ledger' = Sent(o, c) /\ c.tx = "INIT" /\ Sendable(c)
           /\ CanSend(r, c.hop) => faults' = faults + 1
  <2> SUFFICES ASSUME NEW p \in Order, NEW h \in Nat
               PROVE  /\ IsFiniteSet(Threats(p, h)')
                      /\ Cardinality(SentFor(p, h)') + Cardinality(Threats(p, h)')
                           + Chance(Live(p)', h) <= 1 + faults'
    BY DEF SendsAreBounded, Chance
  <2> DEFINE S == Cardinality(SentFor(p, h))
             T == Cardinality(Threats(p, h))
             C == Chance(Live(p), h)
             Cn == Chance(Live(p)', h)
             Sn == Cardinality(SentFor(p, h)')
  <2>1. /\ S \in Nat /\ T \in Nat /\ C \in {0, 1} /\ faults \in Nat /\ S + T + C <= 1 + faults
        /\ IsFiniteSet(Threats(p, h)) /\ Cn \in {0, 1} /\ Cn <= C
    BY <1>5, BoundForOne
  <2>2. Sn = IF p = o /\ h = c.hop THEN S + 1 ELSE S
    BY <1>4, <1>7, SendingCounts
  <2>3. ASSUME p = o, h = c.hop PROVE C = 1 /\ (Cn = 1 => faults' = faults + 1)
    BY <1>2, <1>7, <2>3 DEF Chance, CanSend
  <2> HIDE DEF S, T, C, Cn, Sn
  <2>4. Sn = S \/ (Sn = S + 1 /\ C = 1 /\ (Cn = 1 => faults' = faults + 1))
    BY <2>2, <2>3
  <2>5. Sn + T + Cn <= 1 + faults'
    BY <2>1, <2>4, BalanceOfSending
  <2> QED
    BY <1>3, <2>1, <2>5 DEF Sn, T, Cn
<1> QED
  BY <1>6, <1>7

LEMMA NothingThreatensAtFirst ==
    ASSUME Init, NEW o \in Order, NEW h \in Nat
    PROVE  /\ IsFiniteSet(Threats(o, h)) /\ Cardinality(Threats(o, h)) = 0
           /\ Cardinality(SentFor(o, h)) = 0
<1>1. Threats(o, h) = {} /\ SentFor(o, h) = {}
  BY DEF Init, Threats, SentFor
<1> QED
  BY <1>1, FS_EmptySet

\* A dispatch that ends early threatens with no more than it had a chance to do.
LEMMA AbandoningKeepsBound ==
    ASSUME CInv, SendsAreBounded, Fault, NEW o \in Order, NEW h \in Nat, task[o].at # "none",
           task'[o].at = "none", row' = row,
           \A a \in adrift' : a.of = o => a \in adrift \/ a \in Abandoned(o)
    PROVE  /\ IsFiniteSet(Threats(o, h)')
           /\ Cardinality(Threats(o, h)') + Chance(Live(o)', h) + faults
                <= Cardinality(Threats(o, h)) + Chance(Live(o), h) + faults'
<1> DEFINE c == task[o].order
           x == [fault |-> faults, of |-> o, at |-> task[o].at, order |-> c]
           T == Cardinality(Threats(o, h))
           Tn == Cardinality(Threats(o, h)')
           C == Chance(Live(o), h)
           Cn == Chance(Live(o)', h)
<1>1. /\ IsFiniteSet(Threats(o, h)) /\ T \in Nat /\ faults \in Nat /\ faults' = faults + 1
      /\ C \in {0, 1} /\ Cn \in {0, 1}
  BY BoundForOne DEF Chance, Fault
<1>2. Live(o) = c
  BY DEF Live
<1>3. CASE CanSend(c, h)
  <2>1. Threats(o, h)' \subseteq Threats(o, h) \cup {x}
    BY DEF Threats, Abandoned
  <2> HIDE DEF x
  <2>2. IsFiniteSet(Threats(o, h) \cup {x}) /\ Cardinality(Threats(o, h) \cup {x}) <= T + 1
    <3>1. /\ IsFiniteSet(Threats(o, h) \cup {x})
          /\ Cardinality(Threats(o, h) \cup {x}) =
               IF x \in Threats(o, h) THEN T ELSE T + 1
      BY <1>1, FS_AddElement
    <3> QED
      BY <1>1, <3>1
  <2>3. IsFiniteSet(Threats(o, h)') /\ Tn <= T + 1 /\ Tn \in Nat
    BY <1>1, <2>1, <2>2, FS_Subset, FS_CardinalityType
  <2>4. C = 1
    BY <1>2, <1>3 DEF Chance
  <2> QED
    BY <1>1, <2>3, <2>4
<1>4. CASE ~CanSend(c, h)
  <2>1. ASSUME NEW a \in Abandoned(o) PROVE a \notin Threats(o, h)'
    BY <1>4, AbandonedProperties DEF Threats, CanSend
  <2>2. Threats(o, h)' \subseteq Threats(o, h)
    BY <2>1 DEF Threats
  <2>3. IsFiniteSet(Threats(o, h)') /\ Tn <= T /\ Tn \in Nat
    BY <1>1, <2>2, FS_Subset, FS_CardinalityType
  <2> QED
    BY <1>1, <2>3
<1> QED
  BY <1>3, <1>4

\* A request served late is no threat any more: it has sent the hop, or the row can.
LEMMA ServingKeepsBound ==
    ASSUME CInv, SendsAreBounded, NEW a \in adrift, ServedLate(a)
    PROVE  SendsAreBounded'
<1>1. a \in Letters
  BY DEF CInv, StateOK, Letters
<1>2. a.of \in Order /\ a.order \in Rows /\ a.at \in {"apply", "write"}
      /\ Consistent(a.of, a.order, confirmed) /\ task' = task /\ faults' = faults
      /\ adrift' = adrift \ {a}
  BY <1>1 DEF Letters, CInv, CopiesConsistent, ServedLate
<1> SUFFICES ASSUME NEW o \in Order, NEW h \in Nat
             PROVE  /\ IsFiniteSet(Threats(o, h)')
                    /\ Cardinality(SentFor(o, h)') + Cardinality(Threats(o, h)')
                         + Chance(Live(o)', h) <= 1 + faults'
  BY DEF SendsAreBounded, Chance
<1> DEFINE S == Cardinality(SentFor(o, h))
           Sn == Cardinality(SentFor(o, h)')
           T == Cardinality(Threats(o, h))
           Tn == Cardinality(Threats(o, h)')
           C == Chance(Live(o), h)
           Cn == Chance(Live(o)', h)
           threat == a \in Threats(o, h)
<1>3. /\ S \in Nat /\ T \in Nat /\ C \in {0, 1} /\ faults \in Nat /\ S + T + C <= 1 + faults
      /\ IsFiniteSet(Threats(o, h)) /\ Cn \in {0, 1}
  BY BoundForOne DEF Chance
<1>4. Threats(o, h)' = Threats(o, h) \ {a}
  BY <1>2 DEF Threats
<1>5. /\ IsFiniteSet(Threats(o, h) \ {a})
      /\ Cardinality(Threats(o, h) \ {a}) = IF a \in Threats(o, h) THEN T - 1 ELSE T
  BY <1>3, FS_RemoveElement
<1>6. IsFiniteSet(Threats(o, h)') /\ Tn = IF threat THEN T - 1 ELSE T
  BY <1>4, <1>5
<1>7. CASE a.at = "apply" /\ ledger' = Sent(a.of, a.order) /\ UNCHANGED row
  <2>1. a.order.tx = "INIT" /\ Sendable(a.order)
    BY <1>7 DEF CInv, RequestsFit
  <2>2. Sn = IF o = a.of /\ h = a.order.hop THEN S + 1 ELSE S
    BY <1>2, <1>7, <2>1, SendingCounts
  <2>3. threat <=> o = a.of /\ h = a.order.hop
    BY <1>7 DEF Threats
  <2>4. Cn = C
    BY <1>2, <1>7 DEF Live
  <2> HIDE DEF S, T, C, Cn, Sn, Tn, threat
  <2>5. Sn + Tn + Cn <= 1 + faults'
    BY <1>2, <1>3, <1>6, <2>2, <2>3, <2>4
  <2> QED
    BY <1>6, <2>5 DEF Sn, Tn, Cn
<1>8. CASE /\ a.at = "write" /\ UNCHANGED ledger
           /\ row' = [row EXCEPT ![a.of] = a.order] \/ row' = row
  <2>1. Sn = S
    BY <1>8 DEF SentFor
  <2>2. row'[o] = row[o] \/ (o = a.of /\ row'[o] = a.order)
    BY <1>2, <1>8 DEF CInv, StateOK
  <2>3. threat <=> o = a.of /\ CanSend(a.order, h)
    BY <1>8 DEF Threats
  <2>4. Cn = C \/ (o = a.of /\ Cn = Chance(a.order, h))
    BY <1>2, <2>2 DEF Live
  <2>5. Cn = C \/ Cn = 0 \/ threat
    BY <2>3, <2>4 DEF Chance
  <2> HIDE DEF S, T, C, Cn, Sn, Tn, threat
  <2>6. Sn + Tn + Cn <= 1 + faults'
    BY <1>2, <1>3, <1>6, <2>1, <2>5
  <2> QED
    BY <1>6, <2>6 DEF Sn, Tn, Cn
<1> QED
  BY <1>7, <1>8 DEF ServedLate, Written

\* What a handler answers lets no hop be sent that could not be: it keeps the hop, and
\* only a hop not yet sent may be in the state INIT.
LEMMA AnswerCannotSend ==
    ASSUME NEW r, NEW s, s.hop = r.hop, r.tx = "INIT" \/ s.tx # "INIT"
    PROVE  \A h \in Nat : CanSend(s, h) => CanSend(r, h)
  BY DEF CanSend

LEMMA AnswersKeepTheHop ==
    ASSUME NEW r \in Rows, NEW state, NEW ctx, NEW txid, NEW amount
    PROVE  /\ Applied(r, state, ctx, txid).hop = r.hop
           /\ Applied(r, state, ctx, txid).tx = state
           /\ Evaluated(r, state, amount).hop = r.hop
           /\ Evaluated(r, state, amount).tx = r.tx
  BY DEF Applied, Evaluated, Rows

\* The next hop is one that could be sent already.
LEMMA NextHopCouldBeSent ==
    ASSUME NEW o \in Order, NEW r \in Rows'
    PROVE  \A h \in Nat : CanSend(IterateTransferOrder(o, r), h) => CanSend(r, h)
<1>1. r.hop \in Nat
  BY DEF Rows
<1> DEFINE s == IterateTransferOrder(o, r)
<1>2. (s.hop = r.hop /\ s.tx = r.tx) \/ s.hop = r.hop + 1
  BY IteratedProperties
<1> HIDE DEF s
<1> QED
  BY <1>1, <1>2 DEF CanSend, s

THEOREM SendsInvariant == Spec => []SendsAreBounded
<1>1. Init => SendsAreBounded
  <2> SUFFICES ASSUME Init, NEW o \in Order, NEW h \in Nat
               PROVE  /\ IsFiniteSet(Threats(o, h))
                      /\ Cardinality(SentFor(o, h)) + Cardinality(Threats(o, h))
                           + Chance(Live(o), h) <= 1 + faults
    BY DEF SendsAreBounded, Chance
  <2>1. faults = 0 /\ Chance(Live(o), h) \in {0, 1}
    BY DEF Init, Chance
  <2> QED
    BY <2>1, NothingThreatensAtFirst
<1>2. ASSUME CInv, CInv', NoRowBegins, SendsAreBounded, [Next]_vars PROVE SendsAreBounded'
  <2> USE <1>2
  <2>1. faults \in Nat /\ faults' \in Nat
    BY MaxFaultsAssumption DEF CInv, StateOK
  <2>2. ASSUME UNCHANGED <<adrift, ledger, faults>>, \A o \in Order : Live(o)' = Live(o)
        PROVE  SendsAreBounded'
    <3>1. \A o \in Order, h \in Nat : Threats(o, h)' = Threats(o, h)
      BY <2>2 DEF Threats
    <3>2. \A o \in Order, h \in Nat : SentFor(o, h)' = SentFor(o, h)
      BY <2>2 DEF SentFor
    <3> QED
      BY <2>2, <3>1, <3>2 DEF SendsAreBounded
  <2>3. CASE Poll
    <3>1. \A o \in Order : Live(o)' = Live(o)
      BY <2>3 DEF Poll, Live, NoTask
    <3> QED
      BY <2>2, <2>3, <3>1 DEF Poll
  <2>4. ASSUME NEW o \in Order, UpdateTransferOrder(o) \/ DispatchThrows(o) PROVE SendsAreBounded'
    <3>1. /\ \A p \in Order : task'[p] = IF p = o THEN NoTask(o) ELSE task[p]
          /\ UNCHANGED <<adrift, ledger, faults>> /\ task[o].at # "none"
      BY <2>4 DEF UpdateTransferOrder, DispatchThrows, Dispatched, UnchangedButTask, CInv, StateOK
    <3>2. NoTask(o).at = "none"
      BY DEF NoTask
    <3>3. CASE \A p \in Order : row'[p] = IF p = o THEN task[o].order ELSE row[p]
      <4>1. \A p \in Order : Live(p)' = Live(p)
        BY <3>1, <3>2, <3>3 DEF Live
      <4> QED
        BY <2>2, <3>1, <4>1
    <3>4. CASE UNCHANGED row /\ AtTheStart(task[o].order)
      <4>1. ASSUME NEW p \in Order, NEW h \in Nat
            PROVE  /\ IsFiniteSet(Threats(p, h)')
                   /\ Cardinality(Threats(p, h)') + Chance(Live(p)', h) + faults
                        <= Cardinality(Threats(p, h)) + Chance(Live(p), h) + faults'
        <5>1. Threats(p, h)' = Threats(p, h)
          BY <3>1 DEF Threats
        <5>2. Chance(Live(p)', h) <= Chance(Live(p), h)
          <6>1. CASE p = o
            <7>1. Live(p)' = row[o] /\ Live(p) = task[o].order
              BY <3>1, <3>2, <3>4, <6>1 DEF Live
            <7> QED
              BY <3>4, <7>1, NothingIsBeforeTheStart
          <6>2. CASE p # o
            <7>1. Live(p)' = Live(p)
              BY <3>1, <3>4, <6>2 DEF Live
            <7> QED
              BY <7>1 DEF Chance
          <6> QED
            BY <6>1, <6>2
        <5> DEFINE T == Cardinality(Threats(p, h))
                   C == Chance(Live(p), h)
                   Cn == Chance(Live(p)', h)
        <5>3. T \in Nat /\ C \in {0, 1} /\ Cn \in {0, 1} /\ IsFiniteSet(Threats(p, h))
          BY BoundForOne
        <5> HIDE DEF T, C, Cn
        <5>4. T + Cn + faults <= T + C + faults'
          BY <2>1, <3>1, <5>2, <5>3 DEF C, Cn
        <5> QED
          BY <5>1, <5>3, <5>4 DEF T, C, Cn
      <4> QED
        BY <2>1, <3>1, <4>1, QuietKeepsBound
    <3>5. CASE UpdateTransferOrder(o) /\ Storable(task[o].order)
      <4>1. row' = [row EXCEPT ![o] = task[o].order]
        BY <3>5 DEF UpdateTransferOrder, Written
      <4> QED
        BY <3>3, <4>1 DEF CInv, StateOK
    <3>6. CASE UpdateTransferOrder(o) /\ ~Storable(task[o].order)
      <4>1. UNCHANGED row /\ ~takesText
        BY <3>6 DEF UpdateTransferOrder, Written, Storable
      <4> QED
        BY <3>4, <4>1 DEF NoRowBegins, AtTheStart
    <3>7. CASE DispatchThrows(o)
      <4>1. UNCHANGED row /\ task[o].order.path = <<>>
        BY <3>7 DEF DispatchThrows, UnchangedButTask
      <4>2. task[o].order.hop = 0
        BY <4>1, TaskCopy, EmptySeq DEF Consistent
      <4> QED
        BY <3>4, <4>1, <4>2 DEF AtTheStart
    <3> QED
      BY <2>4, <3>5, <3>6, <3>7
  <2>5. ASSUME NEW o \in Order, task[o].at # "none", UnchangedButTask, NEW at \in Phases \ {"none"},
               NEW r, Goes(o, at, r), \A h \in Nat : CanSend(r, h) => CanSend(task[o].order, h)
        PROVE  SendsAreBounded'
    BY <2>1, <2>5, GoesKeepsBound DEF UnchangedButTask
  <2>6. ASSUME NEW o \in Order, MakeRoutingPath(o) PROVE SendsAreBounded'
    <3> DEFINE r == task[o].order
    <3>1. PICK p, status :
              Goes(o, "write", [r EXCEPT !.path = p, !.status = status])
      BY <2>6 DEF MakeRoutingPath
    <3> DEFINE s == [r EXCEPT !.path = p, !.status = status]
    <3>2. r \in Rows
      BY TaskCopy
    <3>3. s.hop = r.hop /\ s.tx = r.tx
      BY <3>2 DEF Rows
    <3>4. Goes(o, "write", s)
      BY <3>1
    <3> HIDE DEF s
    <3> QED
      BY <2>5, <2>6, <3>3, <3>4, AnswerCannotSend DEF MakeRoutingPath, Dispatched, Phases
  <2>7. ASSUME NEW o \in Order, DispatchTransfer(o) PROVE SendsAreBounded'
    <3> DEFINE r == task[o].order
    <3>1. r \in Rows'
      BY <2>7, TaskCopy DEF DispatchTransfer, UnchangedButTask, Rows, Ids
    <3>2. \A h \in Nat : CanSend(IterateTransferOrder(o, r), h) => CanSend(r, h)
      BY <3>1, NextHopCouldBeSent
    <3> QED
      BY <2>5, <2>7, <3>2 DEF DispatchTransfer, Dispatched, Phases
  <2>8. ASSUME NEW o \in Order, ApplyAwait(o) PROVE SendsAreBounded'
    <3> DEFINE r == task[o].order
    <3>1. r \in Rows
      BY TaskCopy
    <3>2. PICK state, ctx, txid : /\ state \in {"AWAIT_TX_ID", "COMPLETE"}
                                  /\ Goes(o, "write", Applied(r, state, ctx, txid))
      BY <2>8 DEF ApplyAwait
    <3>3. \A h \in Nat : CanSend(Applied(r, state, ctx, txid), h) => CanSend(r, h)
      BY <3>1, <3>2, AnswersKeepTheHop, AnswerCannotSend
    <3> QED
      BY <2>5, <2>8, <3>2, <3>3 DEF ApplyAwait, Phases
  <2>9. ASSUME NEW o \in Order, Eval(o) PROVE SendsAreBounded'
    <3> DEFINE r == task[o].order
    <3>1. r \in Rows
      BY TaskCopy
    <3>2. PICK state, amount : Goes(o, "write", Evaluated(r, state, amount))
      BY <2>9 DEF Eval
    <3> DEFINE s == Evaluated(r, state, amount)
    <3>3. s.hop = r.hop /\ s.tx = r.tx
      BY <3>1, AnswersKeepTheHop
    <3>4. Goes(o, "write", s)
      BY <3>2
    <3> HIDE DEF s
    <3>5. \A h \in Nat : CanSend(s, h) => CanSend(r, h)
      BY <3>3, AnswerCannotSend
    <3> QED
      BY <2>1, <2>9, <3>4, <3>5, GoesKeepsBound DEF Eval
  <2>10. ASSUME NEW o \in Order, ApplyInit(o) PROVE SendsAreBounded'
    <3> DEFINE r == task[o].order
    <3>1. r \in Rows /\ r.hop \in Nat
      BY TaskCopy
    <3>2. r.tx = "INIT" /\ task[o].at # "none" /\ UNCHANGED <<row, adrift, faults>>
      BY <2>10 DEF ApplyInit
    <3>3. PICK state, ctx, txid :
              /\ Goes(o, "write", Applied(r, state, ctx, txid))
              /\ \/ ledger' = ledger
                 \/ ledger' = Sent(o, r) /\ Sendable(r) /\ state \in {"AWAIT_TX_ID", "COMPLETE"}
      BY <2>10 DEF ApplyInit
    <3> DEFINE s == Applied(r, state, ctx, txid)
    <3>4. s.hop = r.hop /\ s.tx = state
      BY <3>1, AnswersKeepTheHop
    <3>5. Goes(o, "write", s)
      BY <3>3
    <3> HIDE DEF s
    <3>6. \A h \in Nat : CanSend(s, h) => CanSend(r, h)
      BY <3>2, <3>4, AnswerCannotSend
    <3>7. state # "INIT" => ~CanSend(s, r.hop)
      BY <3>1, <3>4 DEF CanSend
    <3> QED
      BY <2>1, <3>2, <3>3, <3>5, <3>6, <3>7, GoesKeepsBound
  <2>11. ASSUME NEW o \in Order, TimesOut(o) PROVE SendsAreBounded'
    <3> DEFINE r == task[o].order
               s == [r EXCEPT !.status = "ERROR"]
    <3>1. r \in Rows
      BY TaskCopy
    <3>2. s.hop = r.hop /\ s.tx = r.tx
      BY <3>1 DEF Rows
    <3>3. Goes(o, "write", s)
      BY <2>11 DEF TimesOut
    <3> HIDE DEF s
    <3> QED
      BY <2>5, <2>11, <3>2, <3>3, AnswerCannotSend DEF TimesOut, Dispatched, Phases
  <2>12. ASSUME NEW o \in Order, HandlerThrows(o) PROVE SendsAreBounded'
    <3> DEFINE r == task[o].order
    <3>1. r \in Rows /\ faults' = faults + 1 /\ UNCHANGED <<row, adrift>>
      BY <2>12, TaskCopy DEF HandlerThrows, Fault
    <3>2. /\ task[o].at = "apply"
          /\ Goes(o, "write", Applied(r, r.tx, NoId, NoId))
          /\ \/ UNCHANGED ledger
             \/ r.tx = "INIT" /\ Sendable(r) /\ ledger' = Sent(o, r)
      BY <2>12 DEF HandlerThrows
    <3> DEFINE s == Applied(r, r.tx, NoId, NoId)
    <3>3. s.hop = r.hop /\ s.tx = r.tx
      BY <3>1, AnswersKeepTheHop
    <3>4. Goes(o, "write", s)
      BY <3>2
    <3> HIDE DEF s
    <3>5. \A h \in Nat : CanSend(s, h) => CanSend(r, h)
      BY <3>3, AnswerCannotSend
    <3> QED
      BY <2>1, <3>1, <3>2, <3>4, <3>5, GoesKeepsBound
  <2>13. ASSUME Fault, UNCHANGED <<row, ledger>>, NEW K \in SUBSET Order,
                \A o \in Order : task'[o] = IF o \in K THEN NoTask(o) ELSE task[o],
                \A a \in adrift' : a \in adrift \/ \E o \in K : a \in Abandoned(o),
                adrift \subseteq adrift'
         PROVE  SendsAreBounded'
    <3>1. faults <= faults' /\ faults' = faults + 1
      BY <2>1, <2>13 DEF Fault
    <3>2. ASSUME NEW o \in Order, NEW h \in Nat
          PROVE  /\ IsFiniteSet(Threats(o, h)')
                 /\ Cardinality(Threats(o, h)') + Chance(Live(o)', h) + faults
                      <= Cardinality(Threats(o, h)) + Chance(Live(o), h) + faults'
      <4>1. \A p \in Order : \A a \in Abandoned(p) : a.of = p
        BY <2>13, AbandonedProperties
      <4>5. /\ o \in K => task'[o] = NoTask(o)
            /\ o \notin K => task'[o] = task[o]
            /\ row'[o] = row[o]
        BY <2>13
      <4>6. NoTask(o).at = "none"
        BY DEF NoTask
      <4>2. CASE o \in K /\ task[o].at # "none"
        <5>1. task'[o].at = "none"
          BY <4>2, <4>5, <4>6
        <5>2. \A a \in adrift' : a.of = o => a \in adrift \/ a \in Abandoned(o)
          BY <2>13, <4>1
        <5> QED
          BY <2>13, <4>2, <5>1, <5>2, AbandoningKeepsBound
      <4>3. CASE o \notin K \/ task[o].at = "none"
        <5>1. Live(o)' = Live(o)
          BY <4>3, <4>5, <4>6 DEF Live
        <5>2. task[o].at = "none" => Abandoned(o) = {}
          BY DEF Abandoned
        <5>3. Threats(o, h)' = Threats(o, h)
          BY <2>13, <4>1, <4>3, <5>2 DEF Threats
        <5> DEFINE T == Cardinality(Threats(o, h))
                   C == Chance(Live(o), h)
        <5>4. T \in Nat /\ C \in {0, 1} /\ IsFiniteSet(Threats(o, h))
          BY BoundForOne
        <5> HIDE DEF T, C
        <5>5. T + C + faults <= T + C + faults'
          BY <2>1, <3>1, <5>4
        <5> QED
          BY <5>1, <5>3, <5>4, <5>5 DEF T, C
      <4> QED
        BY <4>2, <4>3
    <3> QED
      BY <2>1, <2>13, <3>1, <3>2, QuietKeepsBound
  <2>14. ASSUME NEW o \in Order, RequestTimesOut(o) PROVE SendsAreBounded'
    <3>1. \A p \in Order : task'[p] = IF p \in {o} THEN NoTask(p) ELSE task[p]
      BY <2>14 DEF RequestTimesOut, CInv, StateOK
    <3>2. Fault /\ UNCHANGED <<row, ledger>> /\ adrift' = adrift \cup Abandoned(o)
      BY <2>14 DEF RequestTimesOut
    <3> QED
      BY <2>13, <3>1, <3>2
  <2>15. CASE Crash
    <3>1. /\ Fault /\ UNCHANGED <<row, ledger>>
          /\ adrift' = adrift \cup UNION {Abandoned(o) : o \in Order}
          /\ \A o \in Order : task'[o] = NoTask(o)
      BY <2>15 DEF Crash
    <3> QED
      BY <2>13, <3>1
  <2>16. ASSUME NEW a \in adrift, ServedLate(a) PROVE SendsAreBounded'
    BY <2>16, ServingKeepsBound
  <2>17. CASE UNCHANGED vars
    BY <2>2, <2>17 DEF vars, Live
  <2> QED
    BY <2>3, <2>4, <2>6, <2>7, <2>8, <2>9, <2>10, <2>11, <2>12, <2>14, <2>15, <2>16, <2>17
       DEF Next, Advance
<1> QED
  BY <1>1, <1>2, CopiesInvariant, RowsInvariant, PTL DEF Spec

\* A hop is sent once, and once more for each crash, request given up or handler that
\* threw, never more often: a late request and the copy the controller goes on with
\* share one fault (index.ts:182-189, 360-475).
THEOREM RepeatsNeedFaults == Spec => []RepeatsAreFaults
<1>1. CInv /\ SendsAreBounded => RepeatsAreFaults
  <2> SUFFICES ASSUME CInv, SendsAreBounded, NEW o \in Order, NEW i \in DOMAIN ledger
               PROVE  Cardinality(SentFor(o, ledger[i].hop)) <= 1 + faults
    BY DEF RepeatsAreFaults
  <2> DEFINE h == ledger[i].hop
  <2>1. h \in Nat
    <3>1. ledger \in Seq(Entries)
      BY DEF CInv, StateOK, Entries
    <3>2. ledger[i] \in Entries
      BY <3>1
    <3> QED
      BY <3>2 DEF Entries
  <2> HIDE DEF h
  <2>2. /\ Cardinality(Threats(o, h)) \in Nat /\ Cardinality(SentFor(o, h)) \in Nat
        /\ faults \in Nat /\ Chance(Live(o), h) \in {0, 1}
        /\ Cardinality(SentFor(o, h)) + Cardinality(Threats(o, h)) + Chance(Live(o), h)
             <= 1 + faults
    BY <2>1, BoundForOne
  <2> QED
    BY <2>2 DEF h
<1> QED
  BY <1>1, CopiesInvariant, SendsInvariant, PTL

=============================================================================
