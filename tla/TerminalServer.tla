--------------------------- MODULE TerminalServer ---------------------------
(***************************************************************************)
(* The server side of the Yuan protocol: libraries/protocol/src/server.ts. *)
(* A terminal provides services; every incoming request is routed to one   *)
(* service, admitted to its pending queue or refused, moved to the         *)
(* processing set when a slot and an egress token are free, answered by    *)
(* its handler and closed.  JavaScript runs each callback to completion,   *)
(* so one action is one callback with everything it calls synchronously,   *)
(* the trailing _checkQueue included.                                      *)
(*                                                                         *)
(* A request is its trace_id and is received once (clients draw UUIDs); a  *)
(* service is its service_id and is provided once (provideService draws a  *)
(* UUID).  Timers are untimed: a tick may come whenever it is armed.       *)
(***************************************************************************)
EXTENDS Integers, Sequences, FiniteSets, SequencesExt

CONSTANTS
    Requests,       \* trace ids
    Services,       \* service ids
    Options,        \* Options[s]: the IServiceOptions of s, 0 for an absent one
    Accepts,        \* Accepts[r]: services whose method and schema r fits, or
                    \* the one service a direct service_id names
    NoService       \* the serviceContext of a request that is not routed

OptionNames == {"concurrent", "pending", "ingress", "egress"}

ASSUME OptionsAssumption == Options \in [Services -> [OptionNames -> Nat]]
ASSUME AcceptsAssumption == Accepts \in [Requests -> SUBSET Services]
ASSUME NoServiceAssumption == NoService \notin Services

VARIABLES
    status,      \* status[s]: "absent", "provided" or "removed"
    stage,       \* stage[r]: the stage of its IRequestContext, or "new"
    context,     \* context[r]: the service r is bound to
    aborted,     \* aborted[r]: isAborted$ carries TRUE
    pending,     \* pending[s]: the queue of admitted requests
    processing,  \* processing[s]: the requests whose handler runs
    ingress,     \* ingress[s]: ingress_token_remaining
    egress,      \* egress[s]: egress_token_remaining
    tracked,     \* domain of _mapTraceIdToRequestContext
    out          \* out[r]: what the last callback wrote to output$ of r

vars == <<status, stage, context, aborted, pending, processing, ingress,
          egress, tracked, out>>

Stages == {"new", "pending", "processing", "finalizing"}
Responses == {"res", "400", "429", "500", "503", "504"}
Kinds == Responses \cup {"in_processing", "heartbeat", "frame", "done"}

Silence == [r \in Requests |-> <<>>]
Writes(r, messages) == [Silence EXCEPT ![r] = messages]

Init ==
    /\ status = [s \in Services |-> "absent"]
    /\ stage = [r \in Requests |-> "new"]
    /\ context = [r \in Requests |-> NoService]
    /\ aborted = [r \in Requests |-> FALSE]
    /\ pending = [s \in Services |-> <<>>]
    /\ processing = [s \in Services |-> {}]
    /\ ingress = [s \in Services |-> Options[s]["ingress"]]
    /\ egress = [s \in Services |-> Options[s]["egress"]]
    /\ tracked = {}
    /\ out = Silence

-----------------------------------------------------------------------------
(* An option that is absent or 0 becomes Infinity (`option || Infinity`).  *)

\* Mutant: a start or an admission costs nothing.
SpendNothing(s, option, tokens) == tokens

Spend(s, option, tokens) == IF Options[s][option] = 0 THEN tokens ELSE tokens - 1

\* Mutant: off by one, the empty bucket still gives.
HasTokenAtZero(s, option, tokens) == Options[s][option] = 0 \/ tokens >= 0

HasToken(s, option, tokens) == Options[s][option] = 0 \/ tokens > 0

\* Mutant: off by one in the concurrency check.
HasSlotPlusOne(s, running) ==
    Options[s]["concurrent"] = 0 \/ Cardinality(running) <= Options[s]["concurrent"]

HasSlot(s, running) ==
    Options[s]["concurrent"] = 0 \/ Cardinality(running) < Options[s]["concurrent"]

QueueFull(s) == Options[s]["pending"] # 0 /\ Len(pending[s]) >= Options[s]["pending"]

\* Mutant: pop() for shift(), the newest request starts first.
CheckQueuePop(s, queue, running, tokens, stages, written) ==
    LET ready == queue # <<>> /\ HasToken(s, "egress", tokens) /\ HasSlot(s, running) IN
    /\ pending' = [pending EXCEPT ![s] = IF ready THEN Front(queue) ELSE queue]
    /\ processing' = [processing EXCEPT
            ![s] = IF ready THEN running \cup {Last(queue)} ELSE running]
    /\ egress' = [egress EXCEPT ![s] = IF ready THEN Spend(s, "egress", tokens) ELSE tokens]
    /\ stage' = IF ready THEN [stages EXCEPT ![Last(queue)] = "processing"] ELSE stages
    /\ out' = IF ready THEN [written EXCEPT ![Last(queue)] = Append(@, "in_processing")]
              ELSE written

\* _checkQueue and, for the one request it shifts, _handleRequestProcessing,
\* applied to what the caller has already made of the queue, the set and the output.
CheckQueue(s, queue, running, tokens, stages, written) ==
    \/ /\ queue # <<>>
       /\ HasToken(s, "egress", tokens)
       /\ HasSlot(s, running)
       /\ pending' = [pending EXCEPT ![s] = Tail(queue)]
       /\ processing' = [processing EXCEPT ![s] = running \cup {Head(queue)}]
       /\ egress' = [egress EXCEPT ![s] = Spend(s, "egress", tokens)]
       /\ stage' = [stages EXCEPT ![Head(queue)] = "processing"]
       /\ out' = [written EXCEPT ![Head(queue)] = Append(@, "in_processing")]
    \/ /\ ~(queue # <<>> /\ HasToken(s, "egress", tokens) /\ HasSlot(s, running))
       /\ pending' = [pending EXCEPT ![s] = queue]
       /\ processing' = [processing EXCEPT ![s] = running]
       /\ egress' = [egress EXCEPT ![s] = tokens]
       /\ stage' = stages
       /\ out' = written

-----------------------------------------------------------------------------
(* Services come and go.                                                   *)

Provide(s) ==
    /\ status[s] = "absent"
    /\ status' = [status EXCEPT ![s] = "provided"]
    /\ out' = Silence
    /\ UNCHANGED <<stage, context, aborted, pending, processing, ingress, egress,
                   tracked>>

\* pending.forEach aborts while each abort splices the array it walks, so the
\* walk skips every other request.
Skipped(queue) == [i \in 1..(Len(queue) \div 2) |-> queue[2 * i]]

\* processing.forEach aborts in turn; every abort completes its request, whose
\* trailing _checkQueue starts a skipped one, which the walk then visits too.
Restarted(s) ==
    LET left == Len(Skipped(pending[s]))
    IN  IF processing[s] = {} THEN 0
        ELSE IF Options[s]["egress"] = 0 \/ egress[s] >= left THEN left
        ELSE egress[s]

\* What a handler may say before it returns to its caller: at most a frame and
\* a result here.
Answers == {<<>>, <<"frame">>, <<"res">>, <<"frame", "res">>}

\* Each restarted request hears what its handler says at once.  `instant` are
\* those whose handler ends before the walk reaches them, `failed` those of
\* these for which it throws; the others are aborted when it does.
RemoveService(s) ==
    LET survivors == Skipped(pending[s])
        n == Restarted(s)
        started == {survivors[i] : i \in 1..n}
        dropped == ToSet(pending[s]) \ ToSet(survivors)
        closed == processing[s] \cup started
    IN
    /\ status[s] = "provided"
    /\ status' = [status EXCEPT ![s] = "removed"]
    /\ pending' = [pending EXCEPT ![s] = SubSeq(survivors, n + 1, Len(survivors))]
    /\ processing' = [processing EXCEPT ![s] = {}]
    /\ egress' = [egress EXCEPT ![s] = IF Options[s]["egress"] = 0 THEN @ ELSE @ - n]
    /\ stage' = [r \in Requests |-> IF r \in closed THEN "finalizing" ELSE stage[r]]
    /\ tracked' = tracked \ closed
    /\ \E instant \in SUBSET started, answer \in [started -> Answers] :
        /\ aborted' = [r \in Requests |->
                        aborted[r] \/ r \in dropped \/ r \in closed \ instant]
        /\ \E failed \in SUBSET instant :
            out' = [r \in Requests |->
                    IF r \in failed THEN <<"in_processing">> \o answer[r] \o <<"500", "done">>
                    ELSE IF r \in started THEN <<"in_processing">> \o answer[r] \o <<"done">>
                    ELSE IF r \in processing[s] THEN <<"done">>
                    ELSE <<>>]
    /\ UNCHANGED <<context, ingress>>

RefillIngress(s) ==
    /\ status[s] = "provided"
    /\ Options[s]["ingress"] # 0
    /\ ingress' = [ingress EXCEPT ![s] = Options[s]["ingress"]]
    /\ out' = Silence
    /\ UNCHANGED <<status, stage, context, aborted, pending, processing, egress,
                   tracked>>

\* Mutant: the refill does not look at the queue.
RefillEgressOnly(s) ==
    /\ status[s] = "provided"
    /\ Options[s]["egress"] # 0
    /\ egress' = [egress EXCEPT ![s] = Options[s]["egress"]]
    /\ out' = Silence
    /\ UNCHANGED <<status, stage, context, aborted, pending, processing, ingress, tracked>>

RefillEgress(s) ==
    /\ status[s] = "provided"
    /\ Options[s]["egress"] # 0
    /\ CheckQueue(s, pending[s], processing[s], Options[s]["egress"], stage, Silence)
    /\ UNCHANGED <<status, context, aborted, ingress, tracked>>

-----------------------------------------------------------------------------
(* A request arrives, is routed and is admitted or refused.                *)

Candidates(r) == {s \in Accepts[r] : status[s] = "provided"}

Refuse(r, code) ==
    /\ stage' = [stage EXCEPT ![r] = "finalizing"]
    /\ out' = Writes(r, <<code, "done">>)
    /\ UNCHANGED <<status, aborted, pending, processing, ingress, egress, tracked>>

\* Method not found, no matching service, ambiguous services.
ReceiveUnroutable(r) ==
    /\ stage[r] = "new"
    /\ \A s \in Services : Candidates(r) # {s}
    /\ Refuse(r, "400")
    /\ UNCHANGED context

ReceiveOverCapacity(r, s) ==
    /\ stage[r] = "new"
    /\ Candidates(r) = {s}
    /\ QueueFull(s)
    /\ context' = [context EXCEPT ![r] = s]
    /\ Refuse(r, "503")

ReceiveOverRate(r, s) ==
    /\ stage[r] = "new"
    /\ Candidates(r) = {s}
    /\ ~QueueFull(s)
    /\ ~HasToken(s, "ingress", ingress[s])
    /\ context' = [context EXCEPT ![r] = s]
    /\ Refuse(r, "429")

ReceiveAdmitted(r, s) ==
    /\ stage[r] = "new"
    /\ Candidates(r) = {s}
    /\ ~QueueFull(s)
    /\ HasToken(s, "ingress", ingress[s])
    /\ context' = [context EXCEPT ![r] = s]
    /\ ingress' = [ingress EXCEPT ![s] = Spend(s, "ingress", @)]
    /\ tracked' = tracked \cup {r}
    /\ CheckQueue(s, Append(pending[s], r), processing[s], egress[s],
                  [stage EXCEPT ![r] = "pending"], Silence)
    /\ UNCHANGED <<status, aborted>>

\* The heartbeat interval walks every context it ever created, removed or not.
Queued == UNION {ToSet(pending[s]) : s \in Services}

Heartbeat ==
    /\ Queued # {}
    /\ out' = [r \in Requests |-> IF r \in Queued THEN <<"heartbeat">> ELSE <<>>]
    /\ UNCHANGED <<status, stage, context, aborted, pending, processing, ingress,
                   egress, tracked>>

-----------------------------------------------------------------------------
(* The handler of a processing request emits, completes, throws or is late.*)

HandlerEmit(r, kind) ==
    /\ stage[r] = "processing"
    /\ out' = Writes(r, <<kind>>)
    /\ UNCHANGED <<status, stage, context, aborted, pending, processing, ingress,
                   egress, tracked>>

\* Mutant: the freed slot is not offered to the queue.
ProcessedUnchecked(r, last) ==
    /\ tracked' = tracked \ {r}
    /\ processing' = [processing EXCEPT ![context[r]] = @ \ {r}]
    /\ stage' = [stage EXCEPT ![r] = "finalizing"]
    /\ out' = Writes(r, last \o <<"done">>)
    /\ UNCHANGED <<status, context, pending, ingress, egress>>

\* _handleRequestProcessed and _finalizeRequest: `last` is what output$ writes
\* before it completes.
Processed(r, last) ==
    LET s == context[r] IN
    /\ tracked' = tracked \ {r}
    /\ CheckQueue(s, pending[s], processing[s] \ {r}, egress[s],
                  [stage EXCEPT ![r] = "finalizing"],
                  Writes(r, last \o <<"done">>))
    /\ UNCHANGED <<status, context, ingress>>

HandlerComplete(r) ==
    /\ stage[r] = "processing"
    /\ Processed(r, <<>>)
    /\ UNCHANGED aborted

HandlerError(r) ==
    /\ stage[r] = "processing"
    /\ Processed(r, <<"500">>)
    /\ UNCHANGED aborted

\* Mutant: the timeout raises the flag and leaves closing to the handler.
HandlerTimeoutFlagged(r) ==
    /\ stage[r] = "processing"
    /\ aborted' = [aborted EXCEPT ![r] = TRUE]
    /\ out' = Silence
    /\ UNCHANGED <<status, stage, context, pending, processing, ingress, egress, tracked>>

\* 60 s without a message of the handler.
HandlerTimeout(r) ==
    /\ stage[r] = "processing"
    /\ aborted' = [aborted EXCEPT ![r] = TRUE]
    /\ Processed(r, <<"504">>)

-----------------------------------------------------------------------------
(* A message with `done` and the trace_id of a tracked request aborts it.  *)

\* Mutant: the flag is raised and the request left in the queue.
AbortPendingFlagged(r) ==
    /\ r \in tracked
    /\ stage[r] = "pending"
    /\ aborted' = [aborted EXCEPT ![r] = TRUE]
    /\ out' = Silence
    /\ UNCHANGED <<status, stage, context, pending, processing, ingress, egress, tracked>>

\* Mutant: the head of the queue goes, whoever it is.
AbortPendingShift(r) ==
    /\ r \in tracked
    /\ stage[r] = "pending"
    /\ aborted' = [aborted EXCEPT ![r] = TRUE]
    /\ pending' = [pending EXCEPT ![context[r]] = IF @ = <<>> THEN @ ELSE Tail(@)]
    /\ out' = Silence
    /\ UNCHANGED <<status, stage, context, processing, ingress, egress, tracked>>

AbortPending(r) ==
    LET s == context[r] IN
    /\ r \in tracked
    /\ stage[r] = "pending"
    /\ aborted' = [aborted EXCEPT ![r] = TRUE]
    /\ pending' = [pending EXCEPT ![s] =
                    IF \E i \in DOMAIN @ : @[i] = r
                    THEN RemoveAt(@, CHOOSE i \in DOMAIN @ : @[i] = r)
                    ELSE @]
    /\ out' = Silence
    /\ UNCHANGED <<status, stage, context, processing, ingress, egress, tracked>>

AbortProcessing(r) ==
    /\ r \in tracked
    /\ stage[r] = "processing"
    /\ aborted' = [aborted EXCEPT ![r] = TRUE]
    /\ Processed(r, <<>>)

-----------------------------------------------------------------------------
Receive(r) ==
    \/ ReceiveUnroutable(r)
    \/ \E s \in Services :
        \/ ReceiveOverCapacity(r, s)
        \/ ReceiveOverRate(r, s)
        \/ ReceiveAdmitted(r, s)

Handle(r) ==
    \/ \E kind \in {"frame", "res"} : HandlerEmit(r, kind)
    \/ HandlerComplete(r)
    \/ HandlerError(r)
    \/ HandlerTimeout(r)

Abort(r) == AbortPending(r) \/ AbortProcessing(r)

Serve(s) == Provide(s) \/ RemoveService(s) \/ RefillIngress(s) \/ RefillEgress(s)

Next ==
    \/ \E r \in Requests : Receive(r) \/ Handle(r) \/ Abort(r)
    \/ \E s \in Services : Serve(s)
    \/ Heartbeat

Spec == Init /\ [][Next]_vars

\* The handler of a request that is bound to a service of S emits again and
\* again: every message arms the timeout anew.  The handler of a channel does so
\* as long as it is subscribed, an empty message every 30 s (channel.ts:88).
StreamsOn(r, S) ==
    []<><<context[r] \in S /\ \E kind \in {"frame", "res"} : HandlerEmit(r, kind)>>_vars

\* The refill interval ticks, and a handler that falls silent is timed out.  That
\* a handler ends, or falls silent, is not assumed.
Fairness ==
    /\ \A s \in Services : WF_vars(RefillEgress(s))
    /\ \A r \in Requests : WF_vars(HandlerTimeout(r)) \/ StreamsOn(r, Services)

FairSpec == Spec /\ Fairness
-----------------------------------------------------------------------------
(* Properties.                                                             *)

\* Every variable has its type and every token count stays within its bucket.
TypeOK ==
    /\ status \in [Services -> {"absent", "provided", "removed"}]
    /\ stage \in [Requests -> Stages]
    /\ context \in [Requests -> Services \cup {NoService}]
    /\ aborted \in [Requests -> BOOLEAN]
    /\ pending \in [Services -> Seq(Requests)]
    /\ processing \in [Services -> SUBSET Requests]
    /\ ingress \in [Services -> Nat]
    /\ egress \in [Services -> Nat]
    /\ tracked \in SUBSET Requests
    /\ out \in [Requests -> Seq(Kinds)]

\* The options of IServiceOptions are never exceeded: no more handlers run than
\* `concurrent`, no more requests wait than `max_pending_requests`, and neither
\* bucket holds more than its capacity (model.ts:150-190).
WithinLimits ==
    \A s \in Services :
        /\ Options[s]["concurrent"] # 0 =>
              Cardinality(processing[s]) <= Options[s]["concurrent"]
        /\ Options[s]["pending"] # 0 => Len(pending[s]) <= Options[s]["pending"]
        /\ ingress[s] <= Options[s]["ingress"]
        /\ egress[s] <= Options[s]["egress"]

\* The stage of a request says where it is: a request is in the queue of its
\* service, once, exactly while it is pending and not aborted, in the processing
\* set exactly while it is processing, and in the trace map in both.  The two
\* abort paths, the timeout, the handler and _checkQueue all move requests.
InOnePlace ==
    \A r \in Requests :
        /\ \A s \in Services :
            /\ r \in ToSet(pending[s]) <=>
                  stage[r] = "pending" /\ ~aborted[r] /\ context[r] = s
            /\ r \in processing[s] <=> stage[r] = "processing" /\ context[r] = s
            /\ IsInjective(pending[s])
        /\ stage[r] = "new" => ~aborted[r]
        /\ stage[r] \in {"pending", "processing"} => context[r] # NoService
        /\ r \in tracked <=> stage[r] \in {"pending", "processing"}

\* Without an egress bucket the service is work conserving: nobody waits while a
\* slot is free, because every event that frees a slot also checks the queue.
WorkConserving ==
    \A s \in Services :
        pending[s] # <<>> /\ Options[s]["egress"] = 0 => ~HasSlot(s, processing[s])

\* Requests of a service start in the order they were admitted: when one starts,
\* none that was ahead of it is still waiting.
InArrivalOrder ==
    [][\A s \in Services : \A i, j \in DOMAIN pending[s] :
        i < j /\ pending[s][j] \in processing'[s] => pending[s][i] \notin ToSet(pending'[s])]_vars

\* Started requests pay: between two refills a service starts no more requests
\* than its egress bucket holds.
StartsArePaid ==
    [][\A s \in Services :
        LET started == {r \in Requests :
                            context'[r] = s /\ "in_processing" \in ToSet(out'[r])}
        IN  Options[s]["egress"] # 0 /\ started # {} =>
              \/ egress'[s] = egress[s] - Cardinality(started)
              \/ egress'[s] = Options[s]["egress"] - 1 /\ Cardinality(started) = 1]_vars

\* What the sender sees of a request is a ReplyStream: refused once, or queued,
\* started, answered and closed once, and silent after it was cancelled.
Phase(r) ==
    CASE stage[r] = "new" -> "fresh"
      [] stage[r] = "pending" /\ ~aborted[r] -> "waiting"
      [] stage[r] = "pending" /\ aborted[r] -> "cancelled"
      [] stage[r] = "processing" -> "running"
      [] stage[r] = "finalizing" -> "closed"

Replies == INSTANCE ReplyStream WITH
    phase <- [r \in Requests |-> Phase(r)], says <- out,
    Refusals <- {"400", "429", "503"}, Failures <- {"500", "504"}

ImplementsReplyStream == Replies!Spec

\* A slot is held for ever only by a handler that streams for ever; one that
\* falls silent is ended after 60 s, whatever it says later.
ProcessingSettles ==
    \A r \in Requests :
        StreamsOn(r, Services) \/ (stage[r] = "processing" ~> stage[r] = "finalizing")

\* A waiting request of a service that stays is started or cancelled, unless a
\* handler of this service streams for ever: tokens are refilled and slots are
\* freed.  Streams of another service do not hold it up.
QueueDrains ==
    \A s \in Services :
        \/ \E q \in Requests : StreamsOn(q, {s})
        \/ \A r \in Requests :
            stage[r] = "pending" /\ context[r] = s ~>
                \/ stage[r] # "pending"
                \/ aborted[r]
                \/ status[s] = "removed"
=============================================================================
