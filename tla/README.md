# Yuan in TLA+

Yuan is a monorepo of about 100 000 lines of TypeScript for building a trading
system out of *terminals*: processes (back ends, vendor adapters, web pages) that
offer each other services over messages. A *host* forwards the messages and keeps
the list of terminals. Everything else in the repository, from the virtual exchange
to the vendor adapters, is built of services on that protocol and of a few
concurrency utilities. This project specifies that core in TLA+, checks it with TLC
and proves its safety with TLAPS.

All line numbers are those of the sources at this commit; `PROJECT.json` ("map")
gives, for every definition that models code, the lines it stands for.

## 1. Inventory

| Part | Source | State it keeps | Operations |
|---|---|---|---|
| Protocol server | `libraries/protocol/src/server.ts` | services; per service a queue `pending`, a set `processing`, ingress and egress tokens; contexts by trace id | provide, remove, receive, route, admit, start, emit, complete, fail, time out, abort, refill, heartbeat |
| Protocol client | `libraries/protocol/src/client.ts` | one response stream per trace id; an index of services | request, response, 60 s read timeout, disconnection, cancellation |
| Terminal | `libraries/protocol/src/terminal.ts` | own info; a copy of the host's list; `ack_seq_id` | read the list, follow events, refresh, push own info |
| Channels | `libraries/protocol/src/channel.ts` | published and subscribed observables | publish, subscribe, resubscribe, close |
| Connection | `libraries/protocol/src/create-connection.ts` | one web socket; an output buffer | connect, reconnect, 60 s silence |
| Host | `apps/host/src/host-manager.ts` | sockets; `mapTerminalIdToConn`; `terminalInfos`; `seq_id` | accept, close, forward, list, update, ping, announce |
| Semaphore, token bucket | `libraries/utils/src/semaphore.ts`, `tokenBucket.ts` | free permits; a line of callers | acquire, acquireSync, release, abort, refill, dispose |
| Resource pool | `libraries/utils/src/resourcePool.ts` | the same semaphore with a capacity | acquire, release |
| Async iterator | `libraries/utils/src/async-iterator-interop.ts` | a queue between push and pull | next, return |
| Cache | `libraries/cache/src/cache.ts` | values with times; reads in flight | query, force update, set, expire |
| Buffer writer | `libraries/sql/src/bufferWriter.ts` | a buffer and counters | push, write, fail |
| Node units | `apps/node-unit/src/scheduler.ts`, `index.ts` | deployments in the database; each unit's list of active units; its running deployments | list, count, pick, claim; poll, start, restart, stop |
| Quote scheduler | `apps/virtual-exchange/src/quote/scheduler.ts`, `service.ts` | cells (dirty, fetching, group); per group a queue of products and what is fetched; running handlers | query, mark, route, take, answer, refresh of services |
| Series scheduler | `apps/virtual-exchange/src/series-data/scheduler.ts`, `fifo-queue.ts` | capabilities; per capability head and tail queues, a job, a backoff; ranges of series | tick, scan, pick, run a job, requeue, refresh |
| Virtual exchange, rest | `apps/virtual-exchange/src` | credentials, positions, collectors | calls passed on |
| Transfer controller | `apps/transfer-controller/src/index.ts`, `libraries/transfer/src`, handlers of `apps/vendor-okx/src/transfer.ts` | transfer orders in the database; a dispatch for each | poll, route, apply, eval, next hop, time limit, write back |
| Trade copier, kernel, agents, vendors, web | see `PROJECT.json` | | |

How they interact. A client writes a request to its connection; the host looks its
target up in the routing table and forwards it, or drops it; the target's server
queues, starts and answers it, and the answers travel the same way back. The client
chooses targets from its terminal's copy of the host's list, which the terminal
reads with a request of its own (`GetTerminalInfos`) and keeps up to date from the
numbered events of the channel `HostEvent`, which is itself a request that streams.
The host pings every terminal it lists, and a terminal that loses its connection
makes a new one. Vendor adapters throttle their calls with token buckets. Node units
share a database table and see each other through the host's list. The schedulers of the
virtual exchange request quotes and series from the services that the list offers; the
transfer controller requests vendors to pay and to confirm, one hop after the other,
and keeps all it knows in a row of the database.

Behaviour that is hard. JavaScript runs every callback to its end, so there are no
data races; but *between* callbacks everything interleaves: aborts, timeouts, late
answers, refills, removals, socket closes that come a turn later than the terminate
that caused them, answers overtaken by events in a microtask, connections lost with
everything on them. And *within* a callback the code re-enters itself: an abort
completes a request, which frees a slot, which starts another, while a loop over
the same array is running. Between an `await` and its answer the rows, lists and queues
that were read go stale, and what a crashed or impatient process has asked for may
still be done. `PROJECT.json` ("hazards") lists these places by line.

What makes each part correct:

- server: limits kept, every request in exactly one place, nobody waits beside a free
  slot, arrival order, paid starts, and a well-formed conversation with each sender;
- host: no route to a dead socket, events that are a log of the directory, phantom
  terminals eliminated, a new connection really replacing the old one;
- replica: the copy is always a true past state of the directory; it catches up;
- token bucket: no token lost or made up, no lost wake-up, no starvation but by newcomers
  that overtake the line for ever, the cap;
- client: what a caller hears is ordered and without holes, what a subscription sends is sent
  once, a cancellation that arrives stops the server's work;
- node units: whoever runs a deployment by its present row owns it, a claim takes nothing
  from a unit the claimer knows, and failover ends with everything in its place when the
  units know of each other, some unit is eligible and no crash has left a child behind;
- quote scheduler: a request clears the marks it has set and no others, no dirty cell is
  forgotten, each is asked for in the end;
- series scheduler: limits kept, no series falls out of the queues, no head job starves;
- transfer controller: money moves once per hop but for faults, never ahead of its
  arrival, in the amount that has arrived, and an order whose rows can be written ends;
- cache (planned): what is read is no older than what was asked for.

## 2. Modules

    ReplyStream        <--refines--  TerminalServer  <--  MCTerminalServer
         ^                                ^-- TerminalServer_proofs
         +-- INSTANCE -- RequestSession  <--  MCRequestSession,  RequestSession_proofs
    HostDirectory      <--  MCHostDirectory
         ^-- EXTENDS -- DirectoryReplica  <--  MCDirectoryReplica
                                          ^-- DirectoryReplica_proofs (of both)
    TokenBucket         <--  MCTokenBucket,  TokenBucket_proofs
    NodeUnits           <--  MCNodeUnits,  NodeUnits_proofs
    Selection  <--  QuoteScheduler   <--  MCQuoteScheduler,  QuoteScheduler_proofs
          ^-------  SeriesScheduler  <--  MCSeriesScheduler,  SeriesScheduler_proofs
    TransferController  <--  MCTransferController,  TransferController_proofs

Every model is written the same way: one action per callback of the code, with
everything it calls synchronously; the constants are sets of ids and the options;
the definitions marked "Mutant" are wrong versions of the definition that follows
them, with which each property was seen to fail.

### TerminalServer and ReplyStream (server.ts)

A request is its trace id. `stage`, `context`, `aborted` are the fields of its
context, `tracked` the map from trace ids to contexts, `out` what the last callback
wrote about it. `pending`, `processing`, `ingress` and `egress` are the fields of the
service contexts. `CheckQueue` is `_checkQueue` with `_handleRequestProcessing`; every
action that ends in it passes what it has already made of the queue, the set and the
output. The stages "initialized", "routed" and "processed" last only within a callback.
An option that is absent or 0 means no limit, as `option || Infinity` does.

`RemoveService` is the delicate one. `pending.forEach` runs while each abort splices
the array, so it visits every other request (`Skipped`). Then `processing.forEach`
aborts: each abort completes its request, and its `_checkQueue` starts one of the
skipped, which is added to the very set that is being walked and is aborted in turn
(`Restarted`), unless its handler was done synchronously (`instant`), well or by throwing
(`failed`). A handler may have said something before it returns or is aborted (`Answers`: at
most a frame and a result here). What remains in the queue stays there for ever.

A slot is held as long as the handler says something at least once a minute: every emission
arms the timeout anew. `StreamsOn(r, S)` is a handler that emits for ever, as the publisher of a
channel does.

`ReplyStream` is the abstract specification: the conversation about one request as
its sender hears it. The refinement maps stage and abort flag to a phase. Its "closed" is the
end of the stream, which comes once. On the wire a result is sent with `done: true` and the end
of the stream as another done message (`server.ts:320-331`); the model tells them apart, so the
refinement does not say that a sender sees one done only.

### HostDirectory (host-manager.ts)

`socket`, `route` (mapTerminalIdToConn), `infos` (terminalInfos), `seq` (seq_id), `pinged`
(pings in flight) and `event` (the event of the last step). A socket that the host
terminates is "terminated" until its close event comes as a step of its own, and the
handler of that event deletes by terminal id. Messages of a terminal, answers to pings
included, are handled as long as its socket is open, routed or not (`Reaches`). The names of its Init, Next and
specification begin with `Host`, because DirectoryReplica extends the module.

### DirectoryReplica (terminal.ts, channel.ts, create-connection.ts)

The variables and handlers of the host are those of HostDirectory. `link`, `down`, `feed`, `get`, `ack`, `view`
are what a terminal knows; `past` is an auxiliary history of the directory by number.
The network from host to terminal is a FIFO that is lost with the connection. A request
is handled when it arrives and so has no step of its own; that its *answer* may be
overtaken by an event of the same chunk of the socket is `GetBeforeUpdate`. A terminal
may believe in a connection that the host no longer routes to (`Routed`).

### TokenBucket (semaphore.ts, tokenBucket.ts)

`queue` is the flat array from `head` on, one entry for each caller, those included
that were aborted. `Release` serves a prefix of the line at once: the loop stops at the
first live caller it cannot pay, so the prefix is the longest one whose cost (`Owed`)
is covered, aborted callers costing nothing. A caller that has had its answer may come again
(`ComeAgain`). `mapped` is the name's entry in the map and `ticking` the buckets whose interval
runs: a handle that is disposed late (`Dispose`) takes away the entry, whichever bucket has it by
then, and leaves a later bucket ticking, so that two may tick at once.

### RequestSession (client.ts, create-connection.ts, host-manager.ts)

One client and one server, a socket each, and the host between them. `call` is the
client's observable of a request, `heard` the numbers it has passed on. Of the server only
`ReplyStream` is used: each of its steps must be one that specification allows, and
TerminalServer has been shown to implement it, so what holds here holds with the real
server in its place. `says` is what the server said in the last step only (every action
clears or sets it); the messages themselves are numbered (`Numbered`) and put on the wire
or, while the socket is closed, into the buffer. A closing socket loses a suffix of what was
sent on it and a prefix of what was still to come. The buffer of create-connection.ts keeps
what is younger than some ten seconds: a suffix, here of any length. `cut` remembers which
requests were under way when a socket closed or had a message dropped by the host, for the
properties only.

Refusal, admission and start of a request are one step with its arrival. A message to a terminal
without a route is dropped (`HostDrops`), be the socket of that terminal open or not: `host_replace`
shows the open one. A caller that has enough unsubscribes with the message it was waiting for
(`HearEnough`). A request is one subscription: the message, its trace id and the subject
of its answers are made outside of the `defer` (`client.ts:228-236`), so an observable that is
subscribed to again (`Resubscribe`, as the host's pings do by `retry(3)`) sends the same message
again, and ends at once with the completed subject. The server makes a context for each arrival, and
whatever is said to the second finds no entry in the table of trace ids; so two subscriptions
differ as two requests with ids of their own do, and are modelled as such. WebRTC tunnels, which
carry messages of one request past each other, are left out.

### NodeUnits (scheduler.ts, index.ts, rx-utils.ts)

`address`, `daemon`, `enabled` and `older` are the table (`daemon` are the rows of that type,
any of them from the beginning on; `older` stands for `updated_at`, which a trigger renews with
every update: which row comes before which); `listed` is the host's list and `active[u]` what u
has heard of it. `cycle[u]` are the locals of `runSchedulerCycle` across its awaits: List (the
list of active units and the counts), PickLost, PickFree, ClaimDeployment. Any of its requests
may fail (`CycleFails`), and an UPDATE that was given up, by a timeout or a crash, may be
executed later (`strays`, `ClaimLate`). The claiming UPDATE repeats the address condition and
nothing else (`Claimable`). `poll[u]` is the executor's query in flight; `run[u]` and
`current[u]` are what it runs and what of it by the row's present contents, an auxiliary that
says which runs are stale.

The host's list reaches a unit by Hear in one step from any list to the present one;
since the unit's steps look at `active[u]` only, hearing intermediate lists first would be
the same as hearing nothing and then the last of them. The host drops a unit that is gone
(`HostDrops`), and by a late close or late answers one that is not (`HostMisses`), which notices
after 60 s of silence (`Silence`). A deployment and its child process are one while the unit
lives. When it ends, by a signal or otherwise, nothing kills its children (`index.ts:70-72`,
`spawnChild.ts:88-90`): those that survive are `orphans`, which end when they like. The loads a
unit reports for the `resource_usage` policy are any.

### QuoteScheduler (quote/scheduler.ts, service.ts)

`group`, `dirty` and `fetching` are the fields of the cells; `queue`, `fetchingProducts` and
`dirtyFields` those of a group; `handler[s]` is what the service's `handleService` is doing.
JavaScript's callbacks are cut into steps and put together again by guards: MarkDirty works off
`todo`, ScheduleService the services to be started, Take the synchronous part of a handler; no
other callback begins before these are done (`Quiet`). Ended is the microtask of `finally`,
between a handler's last look at its queue and the removal of its service from the running ones.
A query marks its cells in one turn: when the first mark starts a handler that finds nothing to
take and ends at once, the marks that follow find its service running, which is the lost wake-up
of section 6. A request marks the cells it takes and asks for all fields of its service
(`Fetches`), so that requests of two groups may fetch the same cell. A request that fails is a
request answered with nothing: the code clears both marks in both cases, those made during the
request included, and so does Answer.

What the code filters from an array is written with `Pick` of `Selection`: the elements at a
set of positions, in their order. The series scheduler uses it too. It says what a filter
does without recursion, so that the proofs can reason about it.

### SeriesScheduler (series-data/scheduler.ts, fifo-queue.ts)

A tick is "waiting", "scanning" (the one `await` in it) or "running" (the loop that starts
jobs, with nothing in between). `headQueue`, `tailQueue`, `job`, `resting` are the state of a
capability, `capOf` and `recent` that of a series: of its ranges only whether they reach the
present. The ingest request and the merge of ranges are one step, since nothing looks at a
series in between that it could change. `capRunIndex` and `scanIndex` grow without bound in
the code and are kept modulo the length they are reduced by; when the list of
capabilities changes they may stand anywhere.

### TransferController (transfer-controller/src/index.ts, vendor-okx/src/transfer.ts)

`row[o]` is the order in the database, `task[o]` the dispatch of it with its own copy, which
it writes back as a whole. `ledger` is what the exchanges have done, and the id of a
transfer its position there. A vendor's effect and its answer are one step, as are the
database's; what is lost on the way is an `adrift` request, which may still be served at
any later time (ServedLate). A crash leaves all requests in flight adrift and starts with a
new poll. Handlers are those of OKX: the withdrawal with INIT, AWAIT_TX_ID and COMPLETE and a
context between them, and the transfer inside the exchange. The outcomes of each are all that
the code has: a fee that is not found, a withdrawal the exchange takes and does not name
(constant `MayNotName`), a deposit that is not listed yet, for which `onEval` throws at `data[0]`
every time it is polled. Amounts are counted in fractions of a coin (`Unit` to the coin), and a
withdrawal sends whole coins of what is left after the fee (`Whole`, `Arrives`).

`takesText` is the column of the step's start time, which the code writes as text: the column that
takes it, or the BIGINT of the shipped schema, for which every write of an order that has
begun a hop fails (`Storable`). It is chosen in the initial state. The route is a choice among
`Routes` or none (`NoPath`), and a route may have no hop, for which the dispatch throws
(`DispatchThrows`). Orders meet only in Poll, which waits for all dispatches, and in the
history of withdrawals.

## 3. Runs

| Run | Instance | Checks |
|---|---|---|
| `server` | 3 requests; a service with one slot, a queue of one and two ingress tokens, and a metered one (one slot, one egress token) | TypeOK, WithinLimits, InOnePlace, WorkConserving, InArrivalOrder, StartsArePaid, ImplementsReplyStream, ProcessingSettles, QueueDrains |
| `host` | 2 terminals and the host, 3 sockets, 2 infos, no more pushes after 4 events | HostTypeOK, RoutesAreLive, EventsAreALog, PhantomsAreEliminated |
| `replica` | 1 terminal and the host, 2 sockets, 1 info, no more pushes after 3 events, 1 late answer | TypeOK, ViewIsHistorical, RefreshCatchesUp |
| `bucket` | 4 callers asking for 1, 2, 2 and 3 tokens again and again, two with the same abort signal, capacity 2, refill 1, 2 lives | TypeOK, TokensAreConserved, FirstInLineMustWait, WaitersAreServed |
| `session` | 2 requests or subscriptions, 2 and 1 messages of the server about them before their end, 1 closing of either socket, any number of messages dropped | TypeOK, HeardInOrder, SentOnce, UnsubscribeStopsWork |
| `node_units` | 2 units with different policies, a row that is a deployment or a daemon, 1 fault (crash, cut, route taken away, UPDATE given up), 1 edit of the table | TypeOK, CurrentRunsAreOwned, NoTheftFromTheKnown, FinallyInPlace |
| `quote` | 2 products, 2 fields, 3 services in 2 groups, one of which takes one product at a time; 3 queries, 3 lists of services, 2 refreshes | TypeOK, MarkedOnce, NothingForgotten, FinallyAskedFor |
| `series` | 2 capabilities that share one of 2 series, room for 1 job, the first capability vanishes | TypeOK, NoSeriesIsLost, HeadsAreServed |
| `transfer` | 1 order for 5 coins along a route of two hops (on a chain or inside an exchange) or of none, with a fee of 1.5 and a least amount of 3, the column that takes text and the shipped one, 2 faults | TypeOK, RepeatsAreFaults, HopsAreConfirmed, AmountsAddUp, FinallySettled |

Three more runs check statements of the repository's comments and documents that the code does
not keep; TLC finds a counterexample for each (section 6): `host_replace`, `quote_wakeup`
and `transfer_context`.

Why these bounds are enough to be worth something. Three requests are the fewest with
which one runs, one waits and one arrives or is skipped by the removal, and both
services fit every request, so that ambiguity, direct routing and refusal by a missing
service all happen while services come and go. With 3 sockets, two of the same terminal,
a reconnection may come before or after the close, the failed ping or the terminate of the
old one. In the replica the numbers 0 to 3 allow an event that is followed, one that
is lost and one that shows the hole, before and after a reconnection; host changes of
its own come in through the host's entry in the directory. The bucket can be exhausted,
over-asked, aborted at the head of the line, filled twice and ticked by two intervals, and a
large request be overtaken by small ones without end.

Two node units are a claimer and an owner that may be lost, and one fault lets either be the
one; the edit disables, enables or changes a deployment between any two steps of either loop.
With one row every claim, edit and answer is about the same row, where the races are; how
several deployments spread over the units is not explored (the invariants are proved for any
number of units and rows). Three services make a group with two handlers on one queue beside
another group that offers part of the same cells, so that a refresh moves cells between groups
while they are fetched. With room for one job the capabilities compete, and a series of both
moves from one to the other with every scan. Two faults are a lost answer and a late write of
the same order. Of 5 coins, with a fee of 1.5, 3 arrive by the first chain and 1 by the second,
both rounded down. Two messages and the end are enough for an answer lost in the middle of a
stream. The bounds are constants of the modules: MaxSeq (pushes), MaxLate (late answers),
MaxLives (creations), MaxFaults, MaxEdits, MaxRefreshes, MaxMessages and MaxCuts; `Conns` and
`Requests` are finite sets used up over time, which is why the runs allow the system to stop
(`CHECK_DEADLOCK FALSE`).

## 4. Fairness

- TerminalServer: the egress refill is an interval timer that runs until the service is
  removed; a handler that falls silent is ended by `timeout(60_000)`. Every emission arms the
  timeout anew (`server.ts:510`), and the publisher of a channel emits every 30 s for as long as it
  has a subscriber (`channel.ts:88`); so `HandlerTimeout` is weakly fair only for a handler that does not
  stream for ever (`StreamsOn`), and `ProcessingSettles` and `QueueDrains` name it as their
  exception: the request that streams, and the queue of its service, no other. That clients
  abort or services are removed is never assumed.
- HostDirectory: the ping loop repeats (`repeat`, `retry`), and every ping ends, answered or not.
  A terminal whose open socket has lost its route answers, over that socket, only a ping that was
  sent before; the next ones are dropped on their way to it. So a terminal that is pinged without a route again and
  again fails some day, which is the strong fairness of `PingFails` without a route.
- DirectoryReplica: requests and messages on a live connection arrive; a connection
  over which nothing comes for 60 s is closed by the terminal (`create-connection.ts`
  95-101), which is assumed only while the host does not route to it; the host pushes
  its own info once, as every terminal does. Reconnection is not assumed, and neither
  are timeouts of `GetTerminalInfos`.
- TokenBucket: an interval ticks until it is disposed. That newcomers leave room for those in
  line is not assumed; `WaitersAreServed` has it as its premise.
- RequestSession: sockets deliver, and `repeat`/`retry` reopen them. Nothing is assumed of
  handlers, callers and timeouts.
- NodeUnits: both loops have `repeat` and `retry`, and a request that is made again and again
  gets through some day (strong fairness of Apply, of the picks and of the claims); terminals
  reconnect, a terminal without a route reconnects after 60 s of silence, and the host drops who is
  gone (its pings, see HostDirectory). Not assumed: that a unit hears of every change of the list
  (`terminal.ts:757`: a change between list and subscription stays missed until the next event), that anybody
  is eligible (units of different policies, or loads that stay, may all wait for each other), that
  an UPDATE on its way is executed, that an orphan ends, that a unit that is down is started again.
  The first two and the absence of orphans are premises of `FinallyInPlace`; without any one of
  them TLC finds a counterexample.
- QuoteScheduler: callbacks and microtasks run to their end. That a request ends is not assumed:
  the client's timeout is armed anew by every message (`client.ts:249-252`), and a server sends
  heartbeats for what is in its queue (`server.ts:588-606`). `FinallyAskedFor` has it as a premise,
  and a list of services that does not change; that anybody queries again is not assumed.
- SeriesScheduler: the tick repeats every second; a request ends, which the same heartbeats
  could prevent and is assumed here, and a backoff within five minutes; both strongly fair, as
  the running tick interrupts them. That a job ever succeeds is not assumed.
- TransferController: the loop repeats; every request ends, again assumed. `TimesOut` is strongly
  fair: the code compares the clock with a limit at every dispatch, so an order that is dispatched
  for ever is one day over the limit. Faults and late requests are not assumed.

## 5. Proofs

The theorems hold for all values of the constants under the assumptions the modules
name: types of the options, ids disjoint from the null values, bounds that are natural numbers,
finitely many deployments (the table is finite), and capabilities and series listed once.
Nothing is assumed of fees, least amounts and fractions of a coin but that they are counted in
natural numbers and a coin has a fraction.

`TerminalServer_proofs`. The inductive invariant is
`TypeOK /\ InOnePlace /\ AllBounded`. `InOnePlace` is needed for the limits too:
that a start keeps `processing` within `concurrent` needs the started request not to be
there already, and that an abort shortens the queue by exactly the aborted one needs the
queue to be injective. A first group of lemmas is about sequences (what `RemoveAt`,
`Tail`, `Append`, every-other-element and suffix do to the elements of an injective
sequence); `CheckQueueTypes`, `CheckQueueBounds` and `CheckQueuePlaces` then say once
what `CheckQueue` does to a queue and a set that are given, and each action gets a
lemma that hands its own queue and set to them. From the invariant follow `TypeCorrect`,
`LimitsRespected` and `RequestsInOnePlace`. On top of it, action by action, are proved:

- `NeverIdleWhileWaiting` (work conservation): where the queue can grow or a slot is freed,
  the action ends in `CheckQueue`.
- `RepliesAreStreams`, the refinement: `Moves(q)` says that a step does to the request q what
  one step of `ReplyStream` does, or nothing, and every step makes every request move so.
  `CheckQueueTurns` is what the trailing `_checkQueue` does to one request, and
  `ProcessedMoves` what a completion does to the one that completes (up to two messages at
  once). `RemoveWalk` gathers what the removal walks over: the skipped requests are some of the
  queue, all different, and those restarted are the first of them, at most one per token.
- `FirstComeFirstServed` and `StartsCostTokens`: whoever calls `_checkQueue`, only the head of
  the queue can start, so that arrival order follows from the queue having no repetition and
  sharing nothing with `processing`. A start takes one token of each; in the removal
  several start in one step, and counting them (`RemoveStarts`) needs that the skipped ones are
  different.

`DirectoryReplica_proofs`, the host. `HostTypeOK` and `RoutesAreLive` are inductive;
`EventsAreALog` follows from the type invariant step by step: a handler either changes one entry
of the directory and announces just that, or changes none (`HostSteps`). What `host_replace`
refutes is bounded by `OnlyARivalTakesTheRoute`: an open connection that is not the routed one
has a rival of the same terminal that closed, so that nothing but a close ever takes the route
from a connection that stays open.

The replicas. That a replica is a past state is not inductive: it depends on
what is on the wire. The strengthening says that `past` has exactly `seq + 1` entries of
which the last is the present directory (`PastIsKept`), that no replica is ahead of the
host (`AckIsPast`), and that every message in flight is recorded (`InFlightIsRecorded`):
a list is `past` at its number, an event is the difference between `past` at its number
and before it. Then a list makes the view historical, and so does an event that is
followed, as its number is the next one. Steps that leave the host alone and steps that
log an event are treated by one lemma each, before the actions are told apart.
`HostIsItself` closes the composition: every step of host and replicas together is a handler of
the host or leaves the host's variables alone (`event`, which is of the last step only, is
cleared), so that the host's invariants hold beside its replicas (`RoutesStayLiveAmongReplicas`).

`RequestSession_proofs`. A message under way is on a wire or in a buffer before it.
Since nobody buffers while its socket is open (`SocketsFit`), both are one stream, from which
every loss takes a piece away (`Keeps`) and to whose end every message is added (`Adds`); every
action is one or the other. On the way up the invariant is
`TypeOK /\ RequestsAreUnique /\ RequestsAreNews /\ NumbersFit /\ SocketsFit`: that a request has
one copy is inductive only together with the server not having it yet and the caller having asked.
`SentOnce` follows, for each subscription; that two subscriptions to one observable have two
copies with one trace id is in the model and no matter of the invariant. On the way down it is
`AnswersInOrder /\ NothingIsMissing /\ HeardInOrder`: the answers under way are ordered and
later than those heard, and what a waiting caller has not heard is still under way unless the
server's socket has closed or the host has dropped a message. That the next answer leaves no hole follows from
the two. `TheServerIsAReplyStream` is the other half of `RepliesAreStreams`: the real server
implements `ReplyStream`, and whatever the sockets do, the session uses of its server nothing
but a `ReplyStream`.

`TokenBucket_proofs`. The conservation law is about a sum over a set of callers, and a release goes
by a sum over the line (`Owed`); both are defined by recursion, and no induction theorem can be
used on them. A first group of lemmas therefore derives what a recursive sum is from its
equation, by a least counterexample: the shortest piece of the line without a sum
(`OwedDefinition`), a subset without one that contains no other (`SumExists`, `SumIsANumber`), and
that the order in which a set is summed does not matter (`SumWithout`, `SumWith`). The invariant adds
to the three that TLC checks who stands in the line: nobody twice (`LineIsDistinct`), only
callers who wait or whose signal was aborted (`LineWaitsOrGaveUp`), and everybody who waits
(`WaitersAreInLine`). Then what a release takes from the free tokens is what it grants
(`OwedIsWhatIsGranted`), and the first that is left must wait because the served prefix is the
longest that could be paid (`ServedProperties`). `FirstInLineLacksTokens` is about the head of the
line only, and about one that has not given up: a caller behind an aborted head may have enough
tokens free for it until the next release. Two more theorems state the safety that
`WaitersAreServed` rests on: as long as anybody is in line the next tick has something to add
(`TheRefillGoesOn`, from `LineFits` and `LineLeavesRoom`), and every tick shortens the line or
leaves it with more tokens (`EveryTickServes`).

`NodeUnits_proofs`. `CurrentRunsAreOwned` depends on answers that are as old as a query.
`AnswersAreOwned` says what is still true of them: the rows in an answer that nobody has updated
since (`fresh`) are enabled and the unit's own or daemons. An update takes its row out of every
unit's `fresh` and `current`, so both are kept whoever claims or edits. `CandidatesAreRows` is
needed for the types, and for it that ORDER BY ... LIMIT 1 finds a row when there is
one (`OldestProperties`: a finite total order has a least element). `NoTheftFromTheKnown` is then
a matter of the claiming UPDATE: whom it takes from is lost to the cycle, and a unit is
never both lost and active to it. That holds of the cycles whose UPDATE is still on its way
(`strays`) as well, and a claim executed late is one of them.

`QuoteScheduler_proofs`. The invariant is
`TypeOK /\ HandlersKeepOrder /\ MarkedOnce /\ NothingForgotten`. It holds between the steps
of a callback too, which is more than the code needs and what makes it inductive: a mark,
a start and what a handler takes each leave it true. `HandlersKeepOrder` adds that a handler
asks for no product unless it is fetching, so that what it takes is new to all others. That a
handler takes the first products of its queue and leaves the others comes from the lemmas on
selections. `ProductsAreServedInOrder` is what `FinallyAskedFor` rests on: a queue gains only at
its end, a handler takes at least one product from its head, and of what it takes it
asks for everything of which it could fetch a cell.

`SeriesScheduler_proofs`. `TypeOK /\ ScansAreOfCaps /\ NoSeriesIsLost`, proved by the parts it
falls into (`Parts`): queues, jobs, rest, and that each series found is carried by a capability.
The types include two of the promises, no repetition in a queue and the limit on jobs in flight, for which
the set of busy capabilities has to be finite. A scan moves a series from one capability to another, and a
failed job puts its series back before the job is forgotten: the proof names the new
carrier in each case. Two action theorems carry `HeadsAreServed` as far as safety goes: no
series is overtaken in its queue (`QueuesAreServedInOrder`), and every start serves a capability
whose head may run or comes nearer to it in the round (`NoCapabilityStarves`, with a lemma on
remainders). So the position of a head only shrinks, and the distance of its capability shrinks
with every start while it may run and the list stays; that starts do go on, and that it
may run again and again, is the part that needs fairness.

Both schedulers rest on lemmas about `Nth` and `Pick` (the k-th of n positions exists and is the
only one; a selection of a sequence without repetition has none and the elements one
expects). The prover cannot use an induction theorem with an operator as its parameter; these are
proved by looking at the least number for which they would fail (`LeastNumber`).

`TransferController_proofs`. An order exists in many copies: the row, the dispatch's own, and
those in requests nobody waits for any more, each of which may be written over the row later.
The invariants speak of every copy, relative to what only grows (ledger, confirmed hops, orders
misled), so that writing one copy over another keeps them. `CInv` (`CopiesConsistent`,
`RequestsFit`, `LedgerConfirmed`): a copy is at a hop only when those before it were confirmed;
`HopsAreConfirmed` follows. `AInv` (`CopiesHonest`, `AmountsAddUp`): the amount of a copy is
what a transfer of the hop before has delivered, or of its own hop when that is done, and its
transaction ids name transfers of that hop, unless the order was misled. What has been delivered
is a set, as repeated transfers may have sent different amounts, and it only grows
(`DeliveredGrows`). With it the promise that `transfer_context` refutes is proved for every
order but those misled (`ContextsAreLostByThrowingOnly`): there are two ways to be without a
context, a handler that throws while it waits and an exchange that does not name the withdrawal
it took. With the column of the shipped schema no row gets to a hop (`RowsInvariant`): every
dispatch begins anew with the first one, whose write fails. `SendsAreBounded`: the transfers of
a hop, plus the requests adrift that would make or allow one more, plus one if the controller's
own copy would, are at most one plus the faults. Each fault adds one such request at most; every
transfer uses one up.

TLC has checked each of these inductive invariants as an invariant of the component's run, and
so the action theorems that no run lists.

Only model-checked: all liveness (ProcessingSettles, QueueDrains, PhantomsAreEliminated,
RefreshCatchesUp, WaitersAreServed, FinallyInPlace, FinallyAskedFor, HeadsAreServed,
FinallySettled, UnsubscribeStopsWork), which needs fairness and ENABLED and is outside the
prover's reach. Every invariant and every action property of the passing runs is proved, and
so is the refinement.

## 6. Where code and comments disagree

With a run that shows it:

1. `host-manager.ts:223` "Replace old connection if exists": the close event of the old
   socket removes the new route (`host_replace`).
2. `quote/scheduler.ts:62` "if any cell dirty remaining, call dirtyCheck()": a query whose
   first cell is just being fetched by another group starts a handler that ends at once, and
   its next cell, marked before the microtask, stays dirty until another mark comes (`quote_wakeup`).
3. `docs/en/vendor-guide/vendor-transfer.md:63`: the controller "will save this context
   information in the current_tx_context field of the transfer order and resend it". An
   answer without data, as a handler that throws once causes, overwrites it with nothing
   while the state stays, and OKX's handler then takes the latest withdrawal of the account
   for its own (`transfer_context`). A withdrawal that the exchange takes and does not name
   (`vendor-okx/src/transfer.ts:73`) has the same effect.
4. `tools/sql-migration/sql/transfer_order.sql:26` makes `current_step_started_at` a BIGINT, and
   `transfer-controller/src/index.ts:209` writes formatted text into it: with this schema no
   order that has a route ends or even times out. An order from an account to itself has a route
   without hops, for which `iterateTransferOrder` throws in every round with either schema. Both
   are part of what `FinallySettled` says in the run `transfer`.

In the models as they are in the code, without a run of their own:

5. `server.ts:32` "All Initialized requests must be finalizing": a request aborted while it
   is pending never is.
6. `server.ts:253` "Abort all processing and pending requests": every second pending
   request is skipped (`Skipped`, `Restarted`).
7. `terminal.ts:711` "Periodically update the whole terminal list": only on demand, so that
   a change missed before the subscription stays missed until an event shows the hole.
8. `semaphore.ts:74`, `tokenBucket.ts:57` first in, first out: free permits are given to a
   newcomer past the line, and newcomers that keep coming starve a large request for ever.
9. `tokenBucket.ts:178-182`: a handle disposed a second time, after the bucket was made again,
   takes the new one out of the map and leaves its interval running.
10. A deployment may be claimed from a node unit that is online: the claimer's list of lost
   addresses is as old as its cycle (`node-unit/src/scheduler.ts:366`). The claiming UPDATE
   does not look at `enabled` either (332); the executor does.
11. A node unit that gets a signal exits without killing its children (`node-unit/src/index.ts:70-72`):
   another unit, or the next process of the same, starts a second copy of each.
12. `quote/scheduler.ts:76-77`: "when service failed, update is_fetching = false", and is_dirty only
   "when service success". The code clears both in both cases (220-223), so that a cell whose
   request failed waits for the next query; and a mark made while the request was under way is
   cleared with it.
13. `host-manager.ts:184` `retry(3)`: the second ping has the trace id of the first, which was made
   outside of the `defer` (`client.ts:228-236`), and a subject that has been completed. It is sent, and
   its answer is heard by nobody: a ping has one chance.

Outside of the models:

14. The commission of a network is looked up by a key under which none is stored, and
   `?? 0 / 2` is `?? (0 / 2)` (`index.ts:130-145`): routes are chosen as if they were free.
15. The head jobs of a capability that rests or has vanished count in the global backlog and
   hold back all tail jobs (`series-data/scheduler.ts:485-491`); `HeadsAreServed` speaks of
   head jobs only.

## 7. Not modelled, and why

- Terminal disposal, metrics and message formats: disposal ends the process; the others carry
  no state the properties speak of.
- WebRTC tunnels between terminals. A message that goes by the tunnel may overtake or be
  overtaken by one that goes by the host (`terminal.ts:270-345`), so `HeardInOrder` is a
  statement about terminals without a tunnel.
- The client's index of services, whose entries are never removed (`client.ts:210`).
- Of the node units: installation of packages, the environment of child processes and their
  restarts, logs, usage measurements (any value).
- Floating point in the transfer controller: amounts, fees and their differences are exact
  numbers of fractions of a coin.
- Of the virtual exchange: stores of quotes, credentials, positions, legacy services.
- Time. Timers may fire whenever they are armed; no property speaks of durations.
- Host authentication and several hosts in one process: hosts share nothing.
- The host's restart, which numbers its events from 0 again (planned).
- The kernel, account and vendor code: sequential, in floating point, or calls of
  external services.

## 8. Plan

Done: the server and what it promises; the host; the replica over it; the token bucket; a
request between two terminals; the node units; the two schedulers of the virtual exchange;
the transfer controller. For all constants: types, safety and action properties of
all of these, that the server implements the reply stream, and that the compositions (host and
replicas, session and server) use their parts as these were specified.

Next, in this order:

1. `QueryCache` (`cache.ts`): freshness and coalescing with `set` racing a read; then the
   buffer writer and the iterator.
2. A host restart in `DirectoryReplica`, with an epoch in `past`, and an abstract
   specification of the replica (a register that jumps to past values) with its refinement.
