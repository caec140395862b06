-------------------------- MODULE TransferController --------------------------
(***************************************************************************)
(* The transfer controller, apps/transfer-controller/src/index.ts, and the *)
(* vendors' handlers it calls, as apps/vendor-okx/src/transfer.ts has them. *)
(*                                                                         *)
(* An order moves money along a route of hops.  It is a row of a table.    *)
(* The controller reads the rows that are not at an end, works on each of  *)
(* them for one step - ask the paying account's vendor to go on (apply),   *)
(* ask the receiving one whether the money is there (eval), or go to the   *)
(* next hop - writes the whole row back, and when it is done with all of   *)
(* them reads again.  What was asked of a vendor or of the database is out *)
(* of the controller's hands: it still happens, or not, when the           *)
(* controller crashes or stops waiting for the answer.                     *)
(*                                                                         *)
(* The exchanges and the database are external.  The ledger is what the    *)
(* exchanges have been made to do.                                         *)
(*                                                                         *)
(* The column of the step's start time is a BIGINT in the shipped schema,  *)
(* and the code writes text to it: every write of an order that has begun  *)
(* a hop then fails.  Both columns are modelled, the shipped one and the   *)
(* one the code means.                                                     *)
(*                                                                         *)
(* Amounts are counted in fractions of a coin, 1/Unit each; the code's     *)
(* arithmetic of floating point is taken to be exact.                      *)
(***************************************************************************)
EXTENDS Integers, Sequences, FiniteSets, FiniteSetsExt, SequencesExt

CONSTANTS
    Order,          \* the transfer orders
    Routes,         \* the routing paths there may be, a sequence of networks each
    Unit,           \* how many of the fractions amounts are counted in make a coin
    Amount,         \* Amount[o]: expected_amount of o
    Fee,            \* what a withdrawal on the chain costs
    MinAmount,      \* the least that may be withdrawn on the chain
    MayNotName,     \* whether the exchange may take a withdrawal and not name it
    MaxFaults       \* bound: crashes, timeouts of requests, handlers that throw

\* A transfer inside an exchange is done at once; one on a chain has an id of
\* its own long before it has a transaction id.
Networks == {"instant", "chain"}

ASSUME RoutesAssumption == Routes \subseteq Seq(Networks)
ASSUME AmountAssumption == Unit \in Nat \ {0} /\ Amount \in [Order -> Nat \ {0}]
ASSUME FeeAssumption == Fee \in Nat /\ MinAmount \in Nat
ASSUME MayNotNameAssumption == MayNotName \in BOOLEAN
ASSUME MaxFaultsAssumption == MaxFaults \in Nat

VARIABLES
    takesText,  \* whether the column of the step's start time takes text
    row,        \* row[o]: the row of o in the table transfer_order
    task,       \* task[o]: the dispatch of o, with its own copy of the order
    adrift,     \* requests nobody waits for any more, which may still be served
    ledger,     \* the transfers the exchanges have begun, by id
    confirmed,  \* confirmed[o]: the hops of o found to be paid (auxiliary)
    misled,     \* the orders that wait without a context (auxiliary)
    faults      \* how many so far (auxiliary)

vars == <<takesText, row, task, adrift, ledger, confirmed, misled, faults>>

\* No route is not the route that has no hop.
NoPath == <<"null">>
NoId == 0
NewRow(o) == [status |-> "INIT", path |-> NoPath, hop |-> 0, tx |-> "null", rx |-> "null",
              ctx |-> NoId, txid |-> NoId, amount |-> 0]
NoTask(o) == [at |-> "none", order |-> NewRow(o)]

Ended(r) == r.status \in {"ERROR", "COMPLETE"}
Network(r) == r.path[r.hop]

Init ==
    /\ takesText \in BOOLEAN
    /\ row = [o \in Order |-> NewRow(o)]
    /\ task = [o \in Order |-> NoTask(o)]
    /\ adrift = {}
    /\ ledger = <<>>
    /\ confirmed = [o \in Order |-> {}]
    /\ misled = {}
    /\ faults = 0

-----------------------------------------------------------------------------
(* The controller.                                                         *)

\* The next round begins when every dispatch of the last one has ended.
Poll ==
    /\ \A o \in Order : task[o].at = "none"
    /\ task' = [o \in Order |-> IF Ended(row[o]) THEN NoTask(o)
                                ELSE [at |-> "dispatch", order |-> row[o]]]
    /\ UNCHANGED <<takesText, row, adrift, ledger, confirmed, misled, faults>>

Goes(o, at, r) == task' = [task EXCEPT ![o] = [at |-> at, order |-> r]]

\* Mutant: every hop begins with what was ordered.
IterateFromExpected(o, r) ==
    IF r.hop > 0 /\ r.hop = Len(r.path)
    THEN [r EXCEPT !.status = "COMPLETE"]
    ELSE [r EXCEPT !.hop = r.hop + 1, !.tx = "INIT", !.rx = "INIT", !.amount = Amount[o]]

\* The first hop, the next one, or the end of the order.
IterateTransferOrder(o, r) ==
    IF r.hop > 0 /\ r.hop = Len(r.path)
    THEN [r EXCEPT !.status = "COMPLETE"]
    ELSE [r EXCEPT !.hop = r.hop + 1, !.tx = "INIT", !.rx = "INIT",
                   !.amount = IF r.hop = 0 THEN Amount[o] ELSE r.amount]

Dispatched(o) == task[o].at = "dispatch"
UnchangedButTask == UNCHANGED <<takesText, row, adrift, ledger, confirmed, misled, faults>>

\* A routing path is found in the cache or computed, or there is none.
MakeRoutingPath(o) ==
    LET r == task[o].order IN
    /\ Dispatched(o) /\ r.path = NoPath
    /\ \E p \in Routes \cup {NoPath} :
        Goes(o, "write", [r EXCEPT !.path = p, !.status = IF p = NoPath THEN "ERROR" ELSE "ONGOING"])
    /\ UnchangedButTask

\* Mutant: a withdrawal that waits for its transaction id does not time out.
TimesOutUnlessAwaited(o) ==
    LET r == task[o].order IN
    /\ Dispatched(o) /\ r.path # NoPath /\ r.hop > 0 /\ r.tx # "AWAIT_TX_ID"
    /\ Goes(o, "write", [r EXCEPT !.status = "ERROR"])
    /\ UnchangedButTask

\* The hop has begun too long ago.
TimesOut(o) ==
    LET r == task[o].order IN
    /\ Dispatched(o) /\ r.path # NoPath /\ r.hop > 0
    /\ Goes(o, "write", [r EXCEPT !.status = "ERROR"])
    /\ UnchangedButTask

\* Mutant: a hop that has been paid is over, received or not.
IteratesWhenPaid(r) ==
    \/ r.tx = "null" /\ r.rx = "null"
    \/ r.tx = "COMPLETE"

Iterates(r) ==
    \/ r.tx = "null" /\ r.rx = "null"
    \/ r.tx = "COMPLETE" /\ r.rx = "COMPLETE"

DispatchTransfer(o) ==
    LET r == task[o].order IN
    /\ Dispatched(o) /\ r.path \notin {NoPath, <<>>}
    /\ \/ Iterates(r) /\ Goes(o, "write", IterateTransferOrder(o, r))
       \/ ~Iterates(r) /\ r.tx # "COMPLETE" /\ Goes(o, "apply", r)
       \/ ~Iterates(r) /\ r.tx = "COMPLETE" /\ r.rx # "COMPLETE" /\ Goes(o, "eval", r)
    /\ UnchangedButTask

\* A route without hops: its first hop is looked up, and the dispatch throws.
DispatchThrows(o) ==
    /\ Dispatched(o) /\ task[o].order.path = <<>>
    /\ task' = [task EXCEPT ![o] = NoTask(o)]
    /\ UnchangedButTask

\* Mutant: the state the vendor answers becomes the status of the order.
AppliedToStatus(r, state, ctx, txid) ==
    [r EXCEPT !.status = state, !.tx = state, !.ctx = ctx, !.txid = txid]

\* Mutant: the state the vendor answers is kept only when it is an end.
AppliedWhenDone(r, state, ctx, txid) ==
    [r EXCEPT !.status = IF state = "ERROR" THEN "ERROR" ELSE "ONGOING",
              !.tx = IF state \in {"COMPLETE", "ERROR"} THEN state ELSE r.tx,
              !.ctx = ctx, !.txid = txid]

\* The order after an answer to TransferApply.  An answer without data leaves
\* the state as it was, and the context and the transaction id empty.  (A NULL
\* of the database is never equal to a value an answer lacks, so that the row
\* is written even when nothing has changed.)
Applied(r, state, ctx, txid) ==
    [r EXCEPT !.status = IF state = "ERROR" THEN "ERROR" ELSE "ONGOING",
              !.tx = state, !.ctx = ctx, !.txid = txid]

Evaluated(r, state, amount) ==
    [r EXCEPT !.status = "ONGOING", !.rx = state, !.amount = amount]

\* The start of the step is empty until the first hop, and text from then on.
Storable(r) == takesText \/ r.hop = 0

\* The table when r has been written for the order o, or the statement failed.
Written(o, r) == IF Storable(r) THEN [row EXCEPT ![o] = r] ELSE row

\* updateTransferOrder: the whole row, whatever is in the table by now.
UpdateTransferOrder(o) ==
    /\ task[o].at = "write"
    /\ row' = Written(o, task[o].order)
    /\ task' = [task EXCEPT ![o] = NoTask(o)]
    /\ UNCHANGED <<takesText, adrift, ledger, confirmed, misled, faults>>

-----------------------------------------------------------------------------
(* The handlers of the vendors, and the exchanges.                         *)

\* Math.floor: whole coins.
Whole(amount) == amount - (amount % Unit)

\* What arrives when amount is sent.
Arrives(network, amount) == IF network = "chain" THEN Whole(amount - Fee) ELSE amount

\* A transfer of r is begun; its id is its place in the ledger.
Sent(o, r) ==
    Append(ledger, [order |-> o, hop |-> r.hop, path |-> r.path,
                    amount |-> Arrives(Network(r), r.amount)])

TooSmall(r) == Network(r) = "chain" /\ r.amount < MinAmount

\* The exchange refuses to send nothing, or less.
Sendable(r) == ~TooSmall(r) /\ Arrives(Network(r), r.amount) > 0

\* The last withdrawal of all, which a query without an id finds first.
LastWithdrawal == Max({NoId} \cup {i \in DOMAIN ledger : Network(ledger[i]) = "chain"})

\* The state INIT: too small for the chain or its fee not known, refused by the
\* exchange, or sent; the answer to a withdrawal names it, or does not.
ApplyInit(o) ==
    LET r == task[o].order  id == Len(ledger) + 1 IN
    /\ task[o].at = "apply" /\ r.tx = "INIT"
    /\ \/ /\ Network(r) = "chain"
          /\ Goes(o, "write", Applied(r, "ERROR", NoId, NoId))
          /\ UNCHANGED <<ledger, misled>>
       \/ /\ ~TooSmall(r)
          /\ Goes(o, "write", Applied(r, "INIT", NoId, NoId))
          /\ UNCHANGED <<ledger, misled>>
       \/ /\ Sendable(r) /\ Network(r) # "chain"
          /\ ledger' = Sent(o, r)
          /\ Goes(o, "write", Applied(r, "COMPLETE", NoId, id))
          /\ UNCHANGED misled
       \/ /\ Sendable(r) /\ Network(r) = "chain"
          /\ ledger' = Sent(o, r)
          /\ \/ /\ Goes(o, "write", Applied(r, "AWAIT_TX_ID", id, NoId))
                /\ UNCHANGED misled
             \/ /\ MayNotName
                /\ Goes(o, "write", Applied(r, "AWAIT_TX_ID", NoId, NoId))
                /\ misled' = misled \cup {o}
    /\ UNCHANGED <<takesText, row, adrift, confirmed, faults>>

\* The state AWAIT_TX_ID: the withdrawal the context names is on the chain, or
\* not yet.
ApplyAwait(o) ==
    LET r == task[o].order
        id == IF r.ctx = NoId THEN LastWithdrawal ELSE r.ctx IN
    /\ task[o].at = "apply" /\ r.tx = "AWAIT_TX_ID"
    /\ \/ Goes(o, "write", Applied(r, "AWAIT_TX_ID", r.ctx, NoId))
       \/ id # NoId /\ Goes(o, "write", Applied(r, "COMPLETE", NoId, id))
    /\ UnchangedButTask

\* The transaction has arrived, or not yet, or it cannot be asked for.  As long
\* as it is not among the deposits the handler throws, and the answer is empty.
Eval(o) ==
    LET r == task[o].order IN
    /\ task[o].at = "eval"
    /\ \/ /\ Goes(o, "write", Evaluated(r, "COMPLETE",
                     IF Network(r) = "chain" THEN ledger[r.txid].amount ELSE r.amount))
          /\ confirmed' = [confirmed EXCEPT ![o] = @ \cup {r.hop}]
       \/ /\ Network(r) = "chain"
          /\ \E state \in {"null", "INIT", "PENDING"} : Goes(o, "write", Evaluated(r, state, r.amount))
          /\ UNCHANGED confirmed
    /\ UNCHANGED <<takesText, row, adrift, ledger, misled, faults>>

-----------------------------------------------------------------------------
(* Faults.                                                                 *)

Fault == faults < MaxFaults /\ faults' = faults + 1

\* The handler of an application throws, before or after it has sent; the
\* server answers 500 without data.
HandlerThrows(o) ==
    LET r == task[o].order IN
    /\ Fault
    /\ task[o].at = "apply"
    /\ Goes(o, "write", Applied(r, r.tx, NoId, NoId))
    /\ \/ UNCHANGED ledger
       \/ r.tx = "INIT" /\ Sendable(r) /\ ledger' = Sent(o, r)
    /\ misled' = IF r.tx = "AWAIT_TX_ID" THEN misled \cup {o} ELSE misled
    /\ UNCHANGED <<takesText, row, adrift, confirmed>>

\* A request for which nobody waits any more is still on its way.  Only a
\* handler in the state INIT and a statement that writes have an effect.
Abandoned(o) ==
    IF \/ task[o].at = "write"
       \/ task[o].at = "apply" /\ task[o].order.tx = "INIT" /\ Sendable(task[o].order)
    THEN {[fault |-> faults, of |-> o, at |-> task[o].at, order |-> task[o].order]}
    ELSE {}

\* A request brings no answer within 60 s, or fails: the dispatch ends.
RequestTimesOut(o) ==
    /\ Fault
    /\ task[o].at # "none"
    /\ adrift' = adrift \cup Abandoned(o)
    /\ task' = [task EXCEPT ![o] = NoTask(o)]
    /\ UNCHANGED <<takesText, row, ledger, confirmed, misled>>

\* The controller crashes and is started again.
Crash ==
    /\ Fault
    /\ \E o \in Order : task[o].at # "none"
    /\ adrift' = adrift \cup UNION {Abandoned(o) : o \in Order}
    /\ task' = [o \in Order |-> NoTask(o)]
    /\ UNCHANGED <<takesText, row, ledger, confirmed, misled>>

\* An abandoned request is served after all.
ServedLate(a) ==
    /\ adrift' = adrift \ {a}
    /\ \/ a.at = "apply" /\ ledger' = Sent(a.of, a.order) /\ UNCHANGED row
       \/ a.at = "write" /\ row' = Written(a.of, a.order) /\ UNCHANGED ledger
    /\ UNCHANGED <<takesText, task, confirmed, misled, faults>>

-----------------------------------------------------------------------------
Advance(o) ==
    \/ MakeRoutingPath(o) \/ DispatchTransfer(o) \/ DispatchThrows(o)
    \/ ApplyInit(o) \/ ApplyAwait(o) \/ Eval(o) \/ UpdateTransferOrder(o)

Next ==
    \/ Poll
    \/ \E o \in Order : Advance(o) \/ TimesOut(o) \/ HandlerThrows(o) \/ RequestTimesOut(o)
    \/ Crash
    \/ \E a \in adrift : ServedLate(a)

\* The loop goes on, every request is answered or given up, and a hop that
\* is dispatched again and again has at last begun too long ago.  Nothing is
\* assumed of what is adrift.
Fairness ==
    /\ WF_vars(Poll)
    /\ \A o \in Order : WF_vars(Advance(o)) /\ SF_vars(TimesOut(o))

Spec == Init /\ [][Next]_vars /\ Fairness

-----------------------------------------------------------------------------
(* Properties.                                                             *)

Ids == 0..Len(ledger)
Rows == [status : {"INIT", "ONGOING", "ERROR", "COMPLETE"}, path : Routes \cup {NoPath},
         hop : Nat, tx : {"null", "INIT", "AWAIT_TX_ID", "COMPLETE", "ERROR"},
         rx : {"null", "INIT", "PENDING", "COMPLETE"}, ctx : Ids, txid : Ids, amount : Nat]

\* The types of what the steps change.
StateOK ==
    /\ row \in [Order -> Rows]
    /\ task \in [Order -> [at : {"none", "dispatch", "apply", "eval", "write"}, order : Rows]]
    /\ adrift \subseteq [fault : 0..MaxFaults, of : Order, at : {"apply", "write"}, order : Rows]
    /\ ledger \in Seq([order : Order, hop : Nat \ {0}, path : Routes, amount : Nat])
    /\ confirmed \in [Order -> SUBSET (Nat \ {0})]
    /\ misled \subseteq Order
    /\ faults \in 0..MaxFaults

TypeOK == takesText \in BOOLEAN /\ StateOK

SentFor(o, h) == {i \in DOMAIN ledger : ledger[i].order = o /\ ledger[i].hop = h}

\* Whatever crashes, times out or is written late, a transfer that is repeated
\* has a fault to answer for it: a hop is never sent more often than once and
\* once more for each fault so far, those of other orders included; without a
\* fault the exchange is asked once.
RepeatsAreFaults ==
    \A o \in Order : \A i \in DOMAIN ledger :
        Cardinality(SentFor(o, ledger[i].hop)) <= 1 + faults

\* No money leaves for the next hop before the account it leaves from has been
\* found to have received it, and an order is complete only when every hop is.
HopsAreConfirmed ==
    /\ \A i \in DOMAIN ledger : 1..(ledger[i].hop - 1) \subseteq confirmed[ledger[i].order]
    /\ \A o \in Order : row[o].status = "COMPLETE" =>
        1..Len(row[o].path) \subseteq confirmed[o]

\* What hop h of the path p has delivered to the order o, in every transfer made
\* for it: before the first hop, what was ordered.
Delivered(l, o, p, h) ==
    IF h = 0 THEN {Amount[o]}
    ELSE {l[i].amount : i \in {j \in DOMAIN l :
                                  l[j].order = o /\ l[j].path = p /\ l[j].hop = h}}

\* Every hop sends on what a transfer of the hop before it has delivered, which
\* on the chain arrives less the fee and in whole coins, unless a lost context
\* has made the order take another transaction for its own.
AmountsAddUp ==
    \A i \in DOMAIN ledger :
        LET e == ledger[i] IN
        e.order \notin misled =>
            \E sent \in Delivered(ledger, e.order, e.path, e.hop - 1) :
                e.amount = Arrives(e.path[e.hop], sent)

\* When the column takes what the code writes, every order whose route has a hop
\* comes to an end and stays there; a route without one is dispatched for ever.
\* With the column of the shipped schema no order that has a route ever ends: it
\* is not complete and does not even time out.
FinallySettled ==
    /\ takesText => \A o \in Order : [](row[o].path # <<>>) => <>[]Ended(row[o])
    /\ ~takesText => \A o \in Order : [](row[o].path # NoPath => ~Ended(row[o]))

\* A vendor that waits for a transaction id is given back the context it
\* returned, which names the withdrawal it made for this hop.
ContextComesBack ==
    \A o \in Order : row[o].tx = "AWAIT_TX_ID" => row[o].ctx \in SentFor(o, row[o].hop)

===============================================================================
