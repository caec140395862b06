-------------------------- MODULE DirectoryReplica --------------------------
(***************************************************************************)
(* The copies of the host's directory that the terminals keep:             *)
(* _setupTerminalInfoStuff in libraries/protocol/src/terminal.ts, over the *)
(* channel HostEvent (channel.ts) and a connection that is lost and made   *)
(* again (create-connection.ts).  The host is that of HostDirectory.       *)
(*                                                                         *)
(* A terminal reads the whole list with GetTerminalInfos and then follows  *)
(* the numbered events; an event out of number makes it read the list      *)
(* again.  What the host sends to a terminal arrives in order or, when the *)
(* connection is lost, not at all.  A request of the terminal is handled   *)
(* when it arrives, so the sending of it is not a step of its own.         *)
(***************************************************************************)
EXTENDS HostDirectory, Integers, Sequences

CONSTANT
    MaxLate     \* bound: how many answers on their way take longer than 10 s

ASSUME MaxLateAssumption == MaxLate \in Nat

VARIABLES
    past,   \* past[n + 1]: the directory when seq_id was n (auxiliary)
    link,   \* link[t]: the socket t believes to be connected, or NoConn
    down,   \* down[t]: what the host sent to t over it and t has not yet read
    feed,   \* feed[t]: the HostEvent channel of t: "none", "live" or "ended"
    get,    \* get[t]: GetTerminalInfos is "idle", "due" or "asked"
    ack,    \* ack[t]: ack_seq_id
    view,   \* view[t]: this.terminalInfos of t
    late    \* the answers that came too late so far (auxiliary)

clientVars == <<link, down, feed, get, ack, view>>
vars == <<hostVars, past, clientVars, late>>

Directories == [Listed -> Infos \cup {Absent}]
Nowhere == [t \in Listed |-> Absent]

Init ==
    /\ HostInit
    /\ past = <<infos>>
    /\ link = [t \in Terminals |-> NoConn]
    /\ down = [t \in Terminals |-> <<>>]
    /\ feed = [t \in Terminals |-> "none"]
    /\ get = [t \in Terminals |-> "due"]
    /\ ack = [t \in Terminals |-> -1]
    /\ view = [t \in Terminals |-> Nowhere]
    /\ late = 0

-----------------------------------------------------------------------------
(* The host's side.                                                        *)

\* Messages to a terminal go where its id is routed, which need not be where it
\* is connected: then they are lost.
Routed(t) == link[t] # NoConn /\ route[t] = link[t]

Log == past' = IF event' = NoEvent THEN past ELSE Append(past, infos')

EventMessage == [type |-> "event", seq |-> seq', change |-> event']

\* Mutant: off by one, the list is numbered as the event before it.
ListMessageBefore == [type |-> "list", seq |-> seq - 1, infos |-> infos]

ListMessage == [type |-> "list", seq |-> seq, infos |-> infos]

\* The event of this step goes to every subscriber, before the route is cut.
Published(t) ==
    IF event' # NoEvent /\ feed[t] = "live" /\ Routed(t)
    THEN Append(down[t], EventMessage)
    ELSE down[t]

HostStep ==
    /\ \/ \E c \in Conns : Close(c)
       \/ \E t \in Listed, info \in Infos : UpdateTerminalInfo(t, info)
       \/ PingRound
       \/ \E t \in Terminals : PingAnswered(t) \/ PingFails(t)
    /\ Log
    /\ down' = [t \in Terminals |-> Published(t)]
    /\ UNCHANGED <<link, feed, get, ack, view, late>>

HostRests == Quiet /\ UNCHANGED <<socket, route, infos, pinged, past>>

-----------------------------------------------------------------------------
(* The connection of a terminal.                                           *)

\* `open`: connection$ asks for the list, unless that is going on anyway.
Connect(t, c) ==
    /\ link[t] = NoConn
    /\ Accept(t, c)
    /\ link' = [link EXCEPT ![t] = c]
    /\ get' = [get EXCEPT ![t] = "due"]
    /\ UNCHANGED <<past, down, feed, ack, view, late>>

\* `close`, for whatever reason: the requests in flight fail with "Client
\* Connection Disconnected" and are retried; the host is not told here.
Disconnect(t) ==
    /\ link[t] # NoConn
    /\ link' = [link EXCEPT ![t] = NoConn]
    /\ down' = [down EXCEPT ![t] = <<>>]
    /\ feed' = [feed EXCEPT ![t] = "none"]
    /\ get' = [get EXCEPT ![t] = IF @ = "asked" THEN "due" ELSE @]
    /\ HostRests
    /\ UNCHANGED <<ack, view, late>>

Uplink(t) == link[t] # NoConn /\ socket[link[t]] = "open"

-----------------------------------------------------------------------------
(* GetTerminalInfos.                                                       *)

AskedFor(t) ==
    /\ get[t] = "due"
    /\ Uplink(t)
    /\ get' = [get EXCEPT ![t] = "asked"]

Get(t) ==
    /\ AskedFor(t)
    /\ down' = IF Routed(t) THEN [down EXCEPT ![t] = Append(@, ListMessage)] ELSE down
    /\ HostRests
    /\ UNCHANGED <<link, feed, ack, view, late>>

\* The list is taken when the request is handled and sent in a microtask: an
\* UpdateTerminalInfo of t in the same chunk of the socket comes in between.
GetBeforeUpdate(t, info) ==
    /\ AskedFor(t)
    /\ UpdateTerminalInfo(t, info)
    /\ Log
    /\ down' = [u \in Terminals |->
                IF u = t /\ Routed(t) THEN Append(Published(t), ListMessage)
                ELSE Published(u)]
    /\ UNCHANGED <<link, feed, ack, view, late>>

\* An answer whose request was given up finds no reader.
Orphaned(message) == IF message.type = "list" THEN [type |-> "late"] ELSE message

\* 10 s without an answer: the request is made again.
GetTimesOut(t) ==
    /\ get[t] = "asked"
    /\ Routed(t) => late < MaxLate
    /\ late' = IF Routed(t) THEN late + 1 ELSE late
    /\ get' = [get EXCEPT ![t] = "due"]
    /\ down' = [down EXCEPT ![t] = [i \in DOMAIN @ |-> Orphaned(@[i])]]
    /\ HostRests
    /\ UNCHANGED <<link, feed, ack, view>>

ReceiveLate(t) ==
    /\ down[t] # <<>>
    /\ Head(down[t]).type = "late"
    /\ down' = [down EXCEPT ![t] = Tail(@)]
    /\ HostRests
    /\ UNCHANGED <<link, feed, get, ack, view, late>>

\* Mutant: the number of the list is forgotten.
ReceiveListKeepsAck(t) ==
    /\ down[t] # <<>>
    /\ Head(down[t]).type = "list"
    /\ down' = [down EXCEPT ![t] = Tail(@)]
    /\ IF Head(down[t]).infos[HostTerminal] = Absent
       THEN get' = [get EXCEPT ![t] = "due"] /\ UNCHANGED <<ack, view>>
       ELSE /\ get' = [get EXCEPT ![t] = "idle"]
            /\ view' = [view EXCEPT ![t] = Head(down[t]).infos]
            /\ ack' = [ack EXCEPT ![t] = IF @ = -1 THEN Head(down[t]).seq ELSE @]
    /\ HostRests
    /\ UNCHANGED <<link, feed, late>>

\* A list without the host is refused and asked for again.
ReceiveList(t) ==
    /\ down[t] # <<>>
    /\ Head(down[t]).type = "list"
    /\ down' = [down EXCEPT ![t] = Tail(@)]
    /\ IF Head(down[t]).infos[HostTerminal] = Absent
       THEN get' = [get EXCEPT ![t] = "due"] /\ UNCHANGED <<ack, view>>
       ELSE /\ get' = [get EXCEPT ![t] = "idle"]
            /\ view' = [view EXCEPT ![t] = Head(down[t]).infos]
            /\ ack' = [ack EXCEPT ![t] = Head(down[t]).seq]
    /\ HostRests
    /\ UNCHANGED <<link, feed, late>>

-----------------------------------------------------------------------------
(* The channel HostEvent.                                                  *)

\* The subscription needs a list to find the host's service in.  The channel is
\* shared: a later subscriber does not get the last event again.
Subscribe(t) ==
    /\ feed[t] = "none"
    /\ Uplink(t)
    /\ view[t][HostTerminal] # Absent
    /\ feed' = [feed EXCEPT ![t] = "live"]
    /\ HostRests
    /\ UNCHANGED <<link, down, get, ack, view, late>>

\* The publisher closes the channel of a terminal its own list does not have, or
\* the stream ends for another reason; the terminal subscribes again on reading so.
FeedEnds(t) ==
    /\ feed[t] = "live"
    /\ feed' = [feed EXCEPT ![t] = "ended"]
    /\ down' = IF Routed(t) THEN [down EXCEPT ![t] = Append(@, [type |-> "end"])] ELSE down
    /\ HostRests
    /\ UNCHANGED <<link, get, ack, view, late>>

ReceiveEnd(t) ==
    /\ down[t] # <<>>
    /\ Head(down[t]).type = "end"
    /\ down' = [down EXCEPT ![t] = Tail(@)]
    /\ feed' = [feed EXCEPT ![t] = "none"]
    /\ HostRests
    /\ UNCHANGED <<link, get, ack, view, late>>

\* Mutant: newer is good enough, holes are not noticed.
FollowsNewer(t, message) ==
    /\ message.seq > ack[t]
    /\ message.change.old # Absent \/ message.change.new # Absent

\* The next number, and a payload that says something.
Follows(t, message) ==
    /\ message.seq = ack[t] + 1
    /\ message.change.old # Absent \/ message.change.new # Absent

\* refresh$.next(): heard only when no GetTerminalInfos is going on.
Refresh(t) == get' = [get EXCEPT ![t] = IF @ = "idle" THEN "due" ELSE @]

ReceiveEvent(t) ==
    LET message == Head(down[t]) IN
    /\ down[t] # <<>>
    /\ message.type = "event"
    /\ down' = [down EXCEPT ![t] = Tail(@)]
    /\ \/ /\ Follows(t, message)
          /\ view' = [view EXCEPT ![t][message.change.id] = message.change.new]
          /\ ack' = [ack EXCEPT ![t] = message.seq]
          /\ UNCHANGED get
       \/ /\ ~Follows(t, message)
          /\ Refresh(t)
          /\ UNCHANGED <<ack, view>>
    /\ HostRests
    /\ UNCHANGED <<link, feed, late>>

-----------------------------------------------------------------------------
Receive(t) == ReceiveList(t) \/ ReceiveLate(t) \/ ReceiveEvent(t) \/ ReceiveEnd(t)

Next ==
    \/ HostStep
    \/ \E t \in Terminals :
        \/ \E c \in Conns : Connect(t, c)
        \/ Disconnect(t)
        \/ Get(t)
        \/ \E info \in Infos : GetBeforeUpdate(t, info)
        \/ GetTimesOut(t)
        \/ Subscribe(t)
        \/ FeedEnds(t)
        \/ Receive(t)

Spec == Init /\ [][Next]_vars

\* Requests and messages arrive; a connection over which nothing comes for 60 s is
\* closed; the host enters itself into its directory.
Fairness ==
    /\ WF_vars(HostStep /\ \E info \in Infos : UpdateTerminalInfo(HostTerminal, info))
    /\ \A t \in Terminals :
        /\ WF_vars(Get(t))
        /\ WF_vars(Subscribe(t))
        /\ WF_vars(Receive(t))
        /\ WF_vars(Disconnect(t) /\ ~Routed(t))

FairSpec == Spec /\ Fairness
-----------------------------------------------------------------------------
(* Properties.                                                             *)

Messages ==
    [type : {"event"}, seq : Nat, change : Payloads]
    \cup [type : {"list"}, seq : Nat, infos : Directories]
    \cup [type : {"end", "late"}]

\* Every variable has its type.
TypeOK ==
    /\ HostTypeOK
    /\ past \in Seq(Directories)
    /\ link \in [Terminals -> Conns \cup {NoConn}]
    /\ down \in [Terminals -> Seq(Messages)]
    /\ feed \in [Terminals -> {"none", "live", "ended"}]
    /\ get \in [Terminals -> {"idle", "due", "asked"}]
    /\ ack \in [Terminals -> Nat \cup {-1}]
    /\ view \in [Terminals -> Directories]
    /\ late \in Nat

\* What a terminal holds is always the directory as it was at one moment, the
\* moment ack_seq_id names: lost connections, lost and late lists, subscriptions
\* with holes and lists overtaken by events never make it a mixture of two.
ViewIsHistorical ==
    \A t \in Terminals : ack[t] # -1 => view[t] = past[ack[t] + 1]

\* A refresh brings everything that had happened when it fell due, whatever was
\* lost before it: host-manager.ts:119-125 asks for just that of the terminals.
RefreshCatchesUp ==
    \A t \in Terminals : \A n \in 1..MaxSeq :
        get[t] = "due" /\ seq >= n ~> ack[t] >= n \/ link[t] = NoConn
=============================================================================
