--------------------------- MODULE QuoteScheduler ---------------------------
(***************************************************************************)
(* The quote scheduler of the virtual exchange:                            *)
(* apps/virtual-exchange/src/quote/scheduler.ts, with the query of          *)
(* quote/service.ts that feeds it.                                         *)
(*                                                                         *)
(* A cell is a field of a product.  A query marks the cells it finds too   *)
(* old as dirty; every mark is routed to a group of equal services, put in *)
(* the group's queue of products, and starts a handler for every service   *)
(* of the group that has none.  A handler takes products from the queue,   *)
(* requests every field that the group has of them, whether it is marked   *)
(* or not, and goes on until the queue has nothing for it.                 *)
(*                                                                         *)
(* The callbacks of the code are cut into steps (todo, starting, "ready"); *)
(* a callback is not interrupted, and a microtask (Ended) comes before the *)
(* next callback.  The values of the quotes are left out: what a query     *)
(* finds too old is any of its cells.                                      *)
(***************************************************************************)
EXTENDS Integers, SequencesExt, FiniteSetsExt, Selection

CONSTANTS
    Product, Field,
    Service, Group,
    GroupOf,        \* GroupOf[s]: the service_group_id of s
    Products,       \* Products[g]: the products with the prefix of g
    Fields,         \* Fields[g]: the fields that the services of g offer
    MaxProducts,    \* MaxProducts[g]: max_products_per_request
    NoGroup,        \* the service_group_id ''
    Queries,        \* the cells a query may mark, as sequences of cells
    Lists,          \* the lists of services that may be found
    MaxRefreshes    \* bound: changes of the list of services

Cell == Product \X Field

ASSUME GroupAssumption ==
    /\ GroupOf \in [Service -> Group]
    /\ NoGroup \notin Group
    /\ Products \in [Group -> SUBSET Product]
    /\ Fields \in [Group -> SUBSET Field]
    /\ MaxProducts \in [Group -> Nat \ {0}]
ASSUME InputAssumption ==
    /\ Queries \subseteq Seq(Cell)
    /\ Lists \subseteq Seq(Service)
    /\ MaxRefreshes \in Nat

VARIABLES
    services,           \* the services, in the order in which they are listed
    group,              \* group[c]: service_group_id of the cell c
    dirty, fetching,    \* the cells with is_dirty, with is_fetching
    queue,              \* queue[g]: productQueue, whose elements are inQueue
    fetchingProducts,   \* fetchingProducts[g]
    dirtyFields,        \* dirtyFields[g]: dirtyFieldsByProduct, as cells
    handler,            \* handler[s]: "idle", "ready" to take, "fetching" or "ending"
    asked, batch,       \* productsToFetch of the handler of s, and cellsToFetch: the
                        \* cells it has marked as being fetched, and will clear
    todo, starting,     \* the marks and the starts the running callback has left
    refreshes           \* how many so far (auxiliary)

cells == <<group, dirty, fetching>>
groups == <<queue, fetchingProducts, dirtyFields>>
handlers == <<handler, asked, batch>>
vars == <<services, cells, groups, handlers, todo, starting, refreshes>>

Init ==
    /\ services \in Lists
    /\ group = [c \in Cell |-> NoGroup]
    /\ dirty = {}
    /\ fetching = {}
    /\ queue = [g \in Group |-> <<>>]
    /\ fetchingProducts = [g \in Group |-> {}]
    /\ dirtyFields = [g \in Group |-> {}]
    /\ handler = [s \in Service |-> "idle"]
    /\ asked = [s \in Service |-> <<>>]
    /\ batch = [s \in Service |-> {}]
    /\ todo = <<>>
    /\ starting = <<>>
    /\ refreshes = 0

Ready == \E s \in Service : handler[s] = "ready"
Running == todo # <<>> \/ starting # <<>> \/ Ready
Quiet == ~Running /\ \A s \in Service : handler[s] # "ending"

-----------------------------------------------------------------------------
(* Marks.                                                                  *)

Offers(s, c) == c[1] \in Products[GroupOf[s]] /\ c[2] \in Fields[GroupOf[s]]

\* The group of the first service that offers c.
Route(c) ==
    LET able == {i \in DOMAIN services : Offers(services[i], c)} IN
    IF able = {} THEN NoGroup ELSE GroupOf[services[Min(able)]]

ServicesOf(g) == Pick(services, {i \in DOMAIN services : GroupOf[services[i]] = g})

\* A product is queued once, and not while it is fetched.
Enqueue(g, p) ==
    IF p \in fetchingProducts[g] \cup ToSet(queue[g])
    THEN queue ELSE [queue EXCEPT ![g] = Append(@, p)]

\* VEX/QueryQuotes: the cells that are too old will be marked one after the other.
Query ==
    /\ Quiet
    /\ todo' \in Queries
    /\ UNCHANGED <<services, cells, groups, handlers, starting, refreshes>>

MarkDirty ==
    /\ todo # <<>> /\ starting = <<>> /\ ~Ready
    /\ LET c == Head(todo)
           g == Route(c) IN
       /\ group' = [group EXCEPT ![c] = g]
       /\ dirty' = dirty \cup {c}
       /\ \/ /\ g = NoGroup
             /\ UNCHANGED <<queue, dirtyFields, starting>>
          \/ /\ g # NoGroup
             /\ dirtyFields' = [dirtyFields EXCEPT ![g] = @ \cup {c}]
             /\ queue' = Enqueue(g, c[1])
             /\ starting' = ServicesOf(g)
    /\ todo' = Tail(todo)
    /\ UNCHANGED <<services, fetching, fetchingProducts, handlers, refreshes>>

\* The loop of scheduleServiceGroupId: a service that runs is left alone.
ScheduleService ==
    /\ starting # <<>> /\ ~Ready
    /\ LET s == Head(starting) IN
       handler' = IF handler[s] = "idle" THEN [handler EXCEPT ![s] = "ready"] ELSE handler
    /\ starting' = Tail(starting)
    /\ UNCHANGED <<services, cells, groups, asked, batch, todo, refreshes>>

-----------------------------------------------------------------------------
(* A round of handleService.                                               *)

\* Mutant: that another group is fetching the cell is not looked at.
MatchedAlthoughFetching(g, p) ==
    {c \in dirtyFields[g] \cap dirty : c[1] = p /\ c[2] \in Fields[g] /\ group[c] = g}

\* The cells of p for which a service of g will make a request.
Matched(g, p) ==
    {c \in (dirtyFields[g] \cap dirty) \ fetching :
        c[1] = p /\ c[2] \in Fields[g] /\ group[c] = g}

\* A product is passed over when it is being fetched or nothing matches.
Fetchable(g) ==
    {i \in DOMAIN queue[g] :
        queue[g][i] \notin fetchingProducts[g] /\ Matched(g, queue[g][i]) # {}}

\* Mutant: the request is filled past its limit.
DequeuedOneMore(g) ==
    LET full == {i \in Fetchable(g) :
                    Cardinality(Fetchable(g) \cap 1..i) = MaxProducts[g] + 1} IN
    IF full = {} THEN Len(queue[g]) ELSE Min(full)

\* How many products leave the queue: all, or as many as fill the request.
Dequeued(g) ==
    LET full == {i \in Fetchable(g) :
                    Cardinality(Fetchable(g) \cap 1..i) = MaxProducts[g]} IN
    IF full = {} THEN Len(queue[g]) ELSE Min(full)

\* The products of the next request of a service of g, in the order of the queue.
NextRequest(g) == Pick(queue[g], Fetchable(g) \cap 1..Dequeued(g))

\* What the request of s fetches: all the fields of its group, of all its products.
Fetches(s) == ToSet(asked[s]) \X Fields[GroupOf[s]]

Take(s) ==
    /\ handler[s] = "ready"
    /\ LET g == GroupOf[s]
           request == NextRequest(g)
           taken == UNION {Matched(g, p) : p \in ToSet(request)} IN
       /\ queue' = [queue EXCEPT ![g] = SubSeq(@, Dequeued(g) + 1, Len(@))]
       /\ fetchingProducts' = [fetchingProducts EXCEPT ![g] = @ \cup ToSet(request)]
       /\ fetching' = fetching \cup taken
       /\ asked' = [asked EXCEPT ![s] = request]
       /\ batch' = [batch EXCEPT ![s] = taken]
       /\ handler' = [handler EXCEPT ![s] = IF request = <<>> THEN "ending" ELSE "fetching"]
    /\ UNCHANGED <<services, group, dirty, dirtyFields, todo, starting, refreshes>>

\* Mutant: fields that were marked meanwhile are not noticed.
NothingLeft(s, left) == <<>>

\* The products of the request of s that have dirty fields left, to be queued again.
Unfinished(s, left) ==
    Pick(asked[s], {i \in DOMAIN asked[s] :
        /\ \E c \in left : c[1] = asked[s][i]
        /\ asked[s][i] \notin ToSet(queue[GroupOf[s]])})

\* Mutant: they come first.
JumpTheQueue(g, products) == [queue EXCEPT ![g] = products \o @]

Requeue(g, products) == [queue EXCEPT ![g] = @ \o products]

\* The request of s is answered, refused or given up: all the same to the cells, which
\* lose both marks, and with them what marked them again meanwhile.
Answer(s) ==
    /\ Quiet
    /\ handler[s] = "fetching"
    /\ LET g == GroupOf[s]
           left == dirtyFields[g] \ batch[s] IN
       /\ dirtyFields' = [dirtyFields EXCEPT ![g] = left]
       /\ queue' = Requeue(g, Unfinished(s, left))
       /\ fetchingProducts' = [fetchingProducts EXCEPT ![g] = @ \ ToSet(asked[s])]
    /\ dirty' = dirty \ batch[s]
    /\ fetching' = fetching \ batch[s]
    /\ asked' = [asked EXCEPT ![s] = <<>>]
    /\ batch' = [batch EXCEPT ![s] = {}]
    /\ handler' = [handler EXCEPT ![s] = "ready"]
    /\ UNCHANGED <<services, group, todo, starting, refreshes>>

\* The finally of scheduleServiceGroupId, a microtask after the handler has returned.
Ended(s) ==
    /\ ~Running
    /\ handler[s] = "ending"
    /\ handler' = [handler EXCEPT ![s] = "idle"]
    /\ UNCHANGED <<services, cells, groups, asked, batch, todo, starting, refreshes>>

\* terminalInfos$: the services are listed anew; nothing else is done about it.
Refresh ==
    /\ Quiet
    /\ refreshes < MaxRefreshes
    /\ refreshes' = refreshes + 1
    /\ services' \in Lists \ {services}
    /\ UNCHANGED <<cells, groups, handlers, todo, starting>>

-----------------------------------------------------------------------------

Next ==
    \/ Query \/ MarkDirty \/ ScheduleService \/ Refresh
    \/ \E s \in Service : Take(s) \/ Answer(s) \/ Ended(s)

Spec == Init /\ [][Next]_vars

\* A callback runs to its end, and so do microtasks.  That anybody queries is not
\* assumed, nor that a request ends: a heartbeat re-arms the timeout of the client.
Fairness ==
    /\ WF_vars(MarkDirty)
    /\ WF_vars(ScheduleService)
    /\ \A s \in Service : WF_vars(Take(s)) /\ WF_vars(Ended(s))

FairSpec == Spec /\ Fairness

-----------------------------------------------------------------------------
(* Properties.                                                             *)

\* The types of the state; a product is queued once, and a request is no larger than
\* its group allows.
TypeOK ==
    /\ services \in Lists
    /\ group \in [Cell -> Group \cup {NoGroup}]
    /\ dirty \subseteq Cell
    /\ fetching \subseteq Cell
    /\ DOMAIN queue = Group
    /\ \A g \in Group : queue[g] \in Seq(Product) /\ IsInjective(queue[g])
    /\ fetchingProducts \in [Group -> SUBSET Product]
    /\ dirtyFields \in [Group -> SUBSET Cell]
    /\ handler \in [Service -> {"idle", "ready", "fetching", "ending"}]
    /\ DOMAIN asked = Service
    /\ \A s \in Service :
          asked[s] \in Seq(Product) /\ Len(asked[s]) <= MaxProducts[GroupOf[s]]
    /\ batch \in [Service -> SUBSET Cell]
    /\ \A s \in Service : handler[s] = "fetching" <=> batch[s] # {}
    /\ refreshes \in 0..MaxRefreshes

\* A request clears its own marks and no others: is_fetching of a cell is set by one
\* request at a time, of whatever group, and a product is in one request of its group,
\* although services are listed anew and cells change their group meanwhile; and what
\* a request will clear, it fetches (scheduler.ts:188-206, 217-226, 247-251).  Requests
\* of two groups may well fetch the same cell.
MarkedOnce ==
    /\ fetching = UNION {batch[s] : s \in Service}
    /\ \A s \in Service :
          batch[s] \subseteq Fetches(s) /\ ToSet(asked[s]) = {c[1] : c \in batch[s]}
    /\ \A s, t \in Service : s # t =>
          /\ batch[s] \cap batch[t] = {}
          /\ GroupOf[s] = GroupOf[t] => ToSet(asked[s]) \cap ToSet(asked[t]) = {}
    /\ \A g \in Group :
          fetchingProducts[g] = UNION {ToSet(asked[s]) : s \in {t \in Service : GroupOf[t] = g}}

\* A dirty cell that nobody fetches is known to its group, and its product is in the
\* queue or will be put back there by the request it is in (scheduler.ts:126-129, 225-241).
NothingForgotten ==
    \A c \in dirty \ fetching :
        group[c] # NoGroup =>
            /\ c \in dirtyFields[group[c]]
            /\ c[1] \in ToSet(queue[group[c]]) \cup fetchingProducts[group[c]]

\* No cell starves: when the services stay as they are and every request ends, every
\* cell that is marked and has a service is some day asked for, by a request that ends
\* and takes the mark away, however often other cells, or itself, are marked meanwhile.
\* Whether the request brought a quote makes no difference to its mark.
FinallyAskedFor ==
    [](refreshes = 0) /\ (\A s \in Service : []<>(handler[s] # "fetching")) =>
        \A c \in Cell : c \in dirty /\ group[c] # NoGroup ~> c \notin dirty

\* What the comment on top of the scheduler says: while there is a dirty cell, and a
\* service that may fetch it, the check goes on.
DirtyIsChecked ==
    Quiet => \A c \in dirty :
        group[c] # NoGroup /\ ServicesOf(group[c]) # <<>> =>
            \E s \in Service : handler[s] = "fetching"
=============================================================================
