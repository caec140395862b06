---------------------------- MODULE HostDirectory ----------------------------
(***************************************************************************)
(* The Yuan host, createHost in apps/host/src/host-manager.ts: the sockets *)
(* of the terminals, the routing table, the directory of terminal infos    *)
(* and the numbered events that announce its changes.  One action is one   *)
(* event handler.                                                          *)
(*                                                                         *)
(* A socket that the host terminates is destroyed at once but reports its  *)
(* `close` event in a later turn of the event loop: two actions.           *)
(* The host's own terminal is in the directory and needs no socket.        *)
(***************************************************************************)
EXTENDS Naturals

CONSTANTS
    Terminals,     \* terminal ids, the host's own left out
    HostTerminal,  \* "@host"
    Conns,         \* sockets: one per connection ever accepted
    Owner,         \* Owner[c]: the terminal_id of the connection c
    NoConn,        \* no entry in mapTerminalIdToConn
    Infos,         \* the terminal infos a terminal may push
    Absent,        \* no entry in terminalInfos
    MaxSeq         \* bound: no terminal pushes its info once seq_id is here

ASSUME HostTerminalAssumption == HostTerminal \notin Terminals
ASSUME NoConnAssumption == NoConn \notin Conns
ASSUME OwnerAssumption == Owner \in [Conns -> Terminals]
ASSUME AbsentAssumption == Absent \notin Infos
ASSUME MaxSeqAssumption == MaxSeq \in Nat

VARIABLES
    socket,   \* socket[c]: "unused", "open", "terminated" or "closed"
    route,    \* mapTerminalIdToConn
    infos,    \* terminalInfos
    seq,      \* seq_id
    pinged,   \* the terminals whose Ping is in flight
    event     \* the HostEvent of the last step

hostVars == <<socket, route, infos, seq, pinged, event>>

Listed == Terminals \cup {HostTerminal}
Payloads == [id : Listed, old : Infos \cup {Absent}, new : Infos \cup {Absent}]
NoEvent == [id |-> HostTerminal, old |-> Absent, new |-> Absent]

HostInit ==
    /\ socket = [c \in Conns |-> "unused"]
    /\ route = [t \in Terminals |-> NoConn]
    /\ infos = [t \in Listed |-> Absent]
    /\ seq = 0
    /\ pinged = {}
    /\ event = NoEvent

-----------------------------------------------------------------------------
\* hostEvent$.next with the next seq_id.
Announce(t, old, new) ==
    /\ seq' = seq + 1
    /\ event' = [id |-> t, old |-> old, new |-> new]

Quiet == seq' = seq /\ event' = NoEvent

\* ws.terminate(), without effect on a socket that is closed already.
Terminate(c) ==
    socket' = [d \in Conns |->
                IF d = c /\ socket[d] = "open" THEN "terminated" ELSE socket[d]]

\* Mutant: the connection map gets the id for the connection.
AcceptById(t, c) ==
    /\ socket[c] = "unused"
    /\ Owner[c] = t
    /\ socket' = [socket EXCEPT ![c] = "open"]
    /\ route' = [route EXCEPT ![t] = t]
    /\ Quiet
    /\ UNCHANGED <<infos, pinged>>

\* addTerminalConnection: a new socket takes the place of the one that is mapped.
Accept(t, c) ==
    /\ socket[c] = "unused"
    /\ Owner[c] = t
    /\ socket' = [d \in Conns |->
                    IF d = c THEN "open"
                    ELSE IF d = route[t] THEN "terminated" ELSE socket[d]]
    /\ route' = [route EXCEPT ![t] = c]
    /\ Quiet
    /\ UNCHANGED <<infos, pinged>>

\* Mutant: the connection map is not cleaned up.
CloseKeepsRoute(c) ==
    LET t == Owner[c] IN
    /\ socket[c] \in {"open", "terminated"}
    /\ socket' = [socket EXCEPT ![c] = "closed"]
    /\ Announce(t, infos[t], Absent)
    /\ infos' = [infos EXCEPT ![t] = Absent]
    /\ UNCHANGED <<route, pinged>>

\* The `close` event of a socket, by the peer or after a terminate: everything
\* known of its terminal id goes, whichever socket serves it now.
Close(c) ==
    LET t == Owner[c] IN
    /\ socket[c] \in {"open", "terminated"}
    /\ socket' = [socket EXCEPT ![c] = "closed"]
    /\ Announce(t, infos[t], Absent)
    /\ infos' = [infos EXCEPT ![t] = Absent]
    /\ route' = [route EXCEPT ![t] = NoConn]
    /\ UNCHANGED pinged

Reaches(t) == t = HostTerminal \/ \E c \in Conns : Owner[c] = t /\ socket[c] = "open"

\* The handler of the service UpdateTerminalInfo.
UpdateTerminalInfo(t, info) ==
    /\ Reaches(t)
    /\ seq < MaxSeq \/ (t = HostTerminal /\ infos[t] = Absent)
    /\ infos' = [infos EXCEPT ![t] = info]
    /\ Announce(t, infos[t], info)
    /\ UNCHANGED <<socket, route, pinged>>

-----------------------------------------------------------------------------
(* Every terminal of the directory is pinged, four times 5 s; the next     *)
(* round starts 10 s after the last ping of a round has settled.           *)

\* Mutant: only terminals with a connection are pinged.
PingRoundConnected ==
    /\ pinged = {}
    /\ pinged' = {t \in Terminals : infos[t] # Absent /\ route[t] # NoConn}
    /\ pinged' # {}
    /\ Quiet
    /\ UNCHANGED <<socket, route, infos>>

PingRound ==
    /\ pinged = {}
    /\ pinged' = {t \in Terminals : infos[t] # Absent}
    /\ pinged' # {}
    /\ Quiet
    /\ UNCHANGED <<socket, route, infos>>

\* One of the four pings has reached the terminal, and its answer comes over any
\* open socket of it, routed or not.
PingAnswered(t) ==
    /\ t \in pinged
    /\ Reaches(t)
    /\ pinged' = pinged \ {t}
    /\ Quiet
    /\ UNCHANGED <<socket, route, infos>>

\* Mutant: the info is read after it was deleted.
PingFailsReadLate(t) ==
    /\ t \in pinged
    /\ pinged' = pinged \ {t}
    /\ Announce(t, Absent, Absent)
    /\ infos' = [infos EXCEPT ![t] = Absent]
    /\ Terminate(route[t])
    /\ route' = [route EXCEPT ![t] = NoConn]

\* The terminal is slow, or a message to it finds no connection: it is dropped
\* together with whatever connection it has by now.
PingFails(t) ==
    /\ t \in pinged
    /\ pinged' = pinged \ {t}
    /\ Announce(t, infos[t], Absent)
    /\ infos' = [infos EXCEPT ![t] = Absent]
    /\ Terminate(route[t])
    /\ route' = [route EXCEPT ![t] = NoConn]

-----------------------------------------------------------------------------
HostNext ==
    \/ \E t \in Terminals, c \in Conns : Accept(t, c)
    \/ \E c \in Conns : Close(c)
    \/ \E t \in Listed, info \in Infos : UpdateTerminalInfo(t, info)
    \/ PingRound
    \/ \E t \in Terminals : PingAnswered(t) \/ PingFails(t)

HostSpec == HostInit /\ [][HostNext]_hostVars

\* The ping loop ticks and every ping settles, one way or the other.  Which of the
\* pings found a route is not kept: a terminal that has none in round after round
\* gets none of them and fails one day.
HostFairness ==
    /\ WF_hostVars(PingRound)
    /\ \A t \in Terminals :
        /\ WF_hostVars(PingAnswered(t) \/ PingFails(t))
        /\ SF_hostVars(route[t] = NoConn /\ PingFails(t))

HostFairSpec == HostSpec /\ HostFairness
-----------------------------------------------------------------------------
(* Properties.                                                             *)

\* Every variable has its type.
HostTypeOK ==
    /\ socket \in [Conns -> {"unused", "open", "terminated", "closed"}]
    /\ route \in [Terminals -> Conns \cup {NoConn}]
    /\ infos \in [Listed -> Infos \cup {Absent}]
    /\ seq \in Nat
    /\ pinged \in SUBSET Terminals
    /\ event \in Payloads

\* A message is never forwarded to a socket the host has closed or given up, nor
\* to a socket of another terminal: the routing table is cleaned on every path
\* that ends a connection (replacement, close, failed ping).
RoutesAreLive ==
    \A t \in Terminals :
        route[t] # NoConn => socket[route[t]] = "open" /\ Owner[route[t]] = t

\* The events are a log of the directory: what happened to terminalInfos in a
\* step is what its event says, numbered without a hole, so that a terminal that
\* applies them in order has the host's list.
EventsAreALog ==
    [][/\ infos' = [infos EXCEPT ![event'.id] = event'.new] \/ event' = NoEvent
       /\ event' # NoEvent => event'.old = infos[event'.id] /\ seq' = seq + 1
       /\ infos' # infos => event' # NoEvent /\ seq' = seq + 1]_hostVars

\* host-manager.ts:171 "Phantom Terminal Elimination": a terminal that is listed
\* but cannot be reached is removed from the list, or comes back.
PhantomsAreEliminated ==
    \A t \in Terminals :
        infos[t] # Absent /\ route[t] = NoConn ~> infos[t] = Absent \/ route[t] # NoConn

\* host-manager.ts:222 "Replace old connection if exists": the new connection
\* takes the old one's place, so that an open connection is the routed one.
OpenIsRouted == \A c \in Conns : socket[c] = "open" => route[Owner[c]] = c
=============================================================================
