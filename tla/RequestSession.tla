---------------------------- MODULE RequestSession ----------------------------
(***************************************************************************)
(* Requests between two terminals: requestByMessage of the client          *)
(* (libraries/protocol/src/client.ts), the reconnecting sockets of both    *)
(* terminals (create-connection.ts), the host that forwards what they send *)
(* (apps/host/src/host-manager.ts), and the server.  Of the server only    *)
(* its promise to the sender is used, ReplyStream, which TerminalServer is *)
(* shown to keep; what is added is when the request and the cancellation   *)
(* reach it, if they do.                                                   *)
(*                                                                         *)
(* Each terminal has one socket to the host.  What a terminal sends while  *)
(* it is disconnected is buffered; what the host is to forward to a        *)
(* terminal that it has no route to is lost, be its socket open or not.    *)
(*                                                                         *)
(* A request here is one subscription of an observable of requestByMessage.*)
(* The message, its trace id and the subject of the answers are made       *)
(* outside of the defer (client.ts:228-236): a second subscription sends   *)
(* the same message again.  It comes after the end of the first, so it     *)
(* finds a completed subject and no entry in the table of trace ids: what  *)
(* the server says to either is heard by nobody, and the client has no     *)
(* word more to say under this trace id.  The server makes a context of    *)
(* its own for each arrival (server.ts:313-359), and every done that is on *)
(* the way was sent before the second request and arrives before it.  So   *)
(* the two differ as two requests with ids of their own do.                *)
(***************************************************************************)
EXTENDS Integers, Sequences

CONSTANTS
    Requests,       \* subscriptions of the observables of requestByMessage
    Refusals,       \* the codes with which the server refuses a request
    Failures,       \* and those with which it ends one it has begun
    MaxMessages,    \* bound: what the server says of its own about each request
    MaxCuts         \* bound: how often a socket closes

ASSUME BoundsAssumption == MaxMessages \in [Requests -> Nat] /\ MaxCuts \in Nat

VARIABLES
    call,       \* call[r]: the client's observable of r
    heard,      \* heard[r]: the seq_ids the client has passed on to its caller
    phase,      \* phase[r]: how far the server is with r
    says,       \* says[r]: what the server said about r in the last step
    spoken,     \* spoken[r]: the seq_id of the last message about r
    client, server, \* the sockets: open or not, and the messages that wait for it
    toServer,   \* the messages on their way, in order
    toClient,
    cut,        \* the requests under way when the socket of a side closed, and those
                \* of which the host has dropped a message (auxiliary)
    cuts        \* how often one has (auxiliary)

sides == <<client, server>>
wires == <<toServer, toClient>>
vars == <<call, heard, phase, says, spoken, sides, wires, cut, cuts>>

Server == INSTANCE ReplyStream

Silence == [r \in Requests |-> <<>>]
Places == {"client", "host", "server"}
Connected == [open |-> TRUE, buffer |-> <<>>]

Init ==
    /\ call = [r \in Requests |-> "new"]
    /\ heard = [r \in Requests |-> <<>>]
    /\ Server!Init
    /\ spoken = [r \in Requests |-> 0]
    /\ client = Connected /\ server = Connected
    /\ toServer = <<>> /\ toClient = <<>>
    /\ cut = [place \in Places |-> {}] /\ cuts = 0

-----------------------------------------------------------------------------
(* The client.                                                             *)

Message(r, kind) == [of |-> r, kind |-> kind]

\* output$: sent, or buffered while the socket is not open.
Send(messages) ==
    IF client.open
    THEN toServer' = toServer \o messages /\ UNCHANGED client
    ELSE client' = [client EXCEPT !.buffer = @ \o messages] /\ UNCHANGED toServer

\* The request is handed to the socket before the answer is subscribed to: the
\* subscription fails at once when the socket is not open, but the request is
\* in the buffer.
Subscribe(r, then) ==
    /\ call[r] = "new"
    /\ call' = [call EXCEPT ![r] = IF client.open THEN then ELSE "failed"]
    /\ Send(<<Message(r, "request")>>)
    /\ cut' = IF client.open THEN cut ELSE [cut EXCEPT !["client"] = @ \cup {r}]
    /\ says' = Silence
    /\ UNCHANGED <<heard, phase, spoken, server, toClient, cuts>>

RequestByMessage(r) == Subscribe(r, "open")

\* The observable of r, which has ended, is subscribed to again, as by retry in
\* the pings of the host: the request is sent again, and the subscription ends
\* at once with the completed subject.
Resubscribe(r, again) == call[r] \notin {"new", "open"} /\ Subscribe(again, "ended")

\* The caller unsubscribes: the server is told.
Unsubscribe(r) ==
    /\ call[r] = "open"
    /\ call' = [call EXCEPT ![r] = "cancelled"]
    /\ Send(<<Message(r, "done")>>)
    /\ says' = Silence
    /\ UNCHANGED <<heard, phase, spoken, server, toClient, cut, cuts>>

\* Nothing was heard for 60 s: an error for the caller, and no word to the server.
TimeOut(r) ==
    /\ call[r] = "open"
    /\ call' = [call EXCEPT ![r] = "failed"]
    /\ says' = Silence
    /\ UNCHANGED <<heard, phase, spoken, sides, wires, cut, cuts>>

IsLast(kind) == kind \in {"res", "done"} \cup Refusals \cup Failures

\* A message goes to the observable of its trace id, if there is one.
Hear(m) ==
    /\ IF call[m.of] = "open"
       THEN /\ heard' = [heard EXCEPT ![m.of] = Append(@, m.seq)]
            /\ call' = [call EXCEPT ![m.of] = IF m.last THEN "ended" ELSE @]
       ELSE UNCHANGED <<heard, call>>
    /\ UNCHANGED <<client, toServer>>

\* With this message the caller has enough, as first() has, and unsubscribes
\* before the observable can complete: the server is told.
HearEnough(m) ==
    /\ call[m.of] = "open"
    /\ heard' = [heard EXCEPT ![m.of] = Append(@, m.seq)]
    /\ call' = [call EXCEPT ![m.of] = "cancelled"]
    /\ Send(<<Message(m.of, "done")>>)

ClientReceives ==
    /\ client.open /\ toClient # <<>>
    /\ Hear(Head(toClient)) \/ HearEnough(Head(toClient))
    /\ toClient' = Tail(toClient)
    /\ says' = Silence
    /\ UNCHANGED <<phase, spoken, server, cut, cuts>>

-----------------------------------------------------------------------------
(* The server.                                                             *)

Phases == {"fresh", "waiting", "running", "closed", "cancelled"}
Closings == {<<code, "done">> : code \in Refusals \cup Failures}
Speeches ==
    {<<>>, <<"in_processing">>, <<"heartbeat">>, <<"frame">>, <<"res">>, <<"done">>} \cup Closings

\* Mutant: a message is numbered before the number is increased.
NumberedFromZero(r, kinds) ==
    [i \in DOMAIN kinds |-> [of |-> r, seq |-> spoken[r] + i - 1, last |-> IsLast(kinds[i])]]

Numbered(r, kinds) ==
    [i \in DOMAIN kinds |-> [of |-> r, seq |-> spoken[r] + i, last |-> IsLast(kinds[i])]]

\* One step of the server about r, in which it says `kinds`.
Speaks(r, p, kinds) ==
    /\ phase' = [phase EXCEPT ![r] = p]
    /\ says' = [Silence EXCEPT ![r] = kinds]
    /\ spoken' = [spoken EXCEPT ![r] = @ + Len(kinds)]
    /\ IF server.open
       THEN toClient' = toClient \o Numbered(r, kinds) /\ UNCHANGED server
       ELSE server' = [server EXCEPT !.buffer = @ \o Numbered(r, kinds)] /\ UNCHANGED toClient

\* Of its own: a heartbeat, the start, the handler's messages and its end.
ServerWorks(r) ==
    /\ spoken[r] < MaxMessages[r]
    /\ \E p \in Phases \ {"cancelled"}, kinds \in Speeches :
        Speaks(r, p, kinds) /\ (Server!Waits(r) \/ Server!Runs(r))
    /\ UNCHANGED <<call, heard, client, toServer, cut, cuts>>

\* The request arrives: it is refused, admitted or started.
ReceiveRequest(r) ==
    \E p \in Phases, kinds \in Speeches :
        Speaks(r, p, kinds) /\ (Server!Refused(r) \/ Server!Admitted(r))

\* Mutant: a cancellation reaches only what is still pending.
ReceiveDoneWhilePending(r) ==
    IF phase[r] = "waiting" THEN Speaks(r, "cancelled", <<>>) /\ Server!Waits(r)
    ELSE says' = Silence /\ UNCHANGED <<phase, spoken, server, toClient>>

\* The cancellation arrives: what is pending is forgotten, what is running is
\* closed.
ReceiveDone(r) ==
    CASE phase[r] = "waiting" -> Speaks(r, "cancelled", <<>>) /\ Server!Waits(r)
      [] phase[r] = "running" -> Speaks(r, "closed", <<"done">>) /\ Server!Runs(r)
      [] OTHER -> says' = Silence /\ UNCHANGED <<phase, spoken, server, toClient>>

ServerReceives ==
    /\ server.open /\ toServer # <<>>
    /\ LET m == Head(toServer) IN
        IF m.kind = "request" THEN ReceiveRequest(m.of) ELSE ReceiveDone(m.of)
    /\ toServer' = Tail(toServer)
    /\ UNCHANGED <<call, heard, client, cut, cuts>>

-----------------------------------------------------------------------------
(* The sockets.                                                            *)

First(s, n) == SubSeq(s, 1, n)
Rest(s, n) == SubSeq(s, n + 1, Len(s))

UnderWay == {r \in Requests : call[r] # "new"}

Cut(side) ==
    /\ cuts < MaxCuts
    /\ cuts' = cuts + 1
    /\ cut' = [cut EXCEPT ![side] = @ \cup UnderWay]
    /\ says' = Silence

\* Mutant: the calls wait for the socket to be open again.
KeepWaiting == call

FailOpen == [r \in Requests |-> IF call[r] = "open" THEN "failed" ELSE call[r]]

\* The client's socket closes: the last it has sent and the next it was to
\* receive are lost, and every open call fails.
ClientCloses ==
    /\ client.open
    /\ client' = [client EXCEPT !.open = FALSE]
    /\ \E n \in 0..Len(toServer) : toServer' = First(toServer, n)
    /\ \E n \in 0..Len(toClient) : toClient' = Rest(toClient, n)
    /\ call' = FailOpen
    /\ Cut("client")
    /\ UNCHANGED <<heard, phase, spoken, server>>

\* The server's socket closes: what it is doing goes on.
ServerCloses ==
    /\ server.open
    /\ server' = [server EXCEPT !.open = FALSE]
    /\ \E n \in 0..Len(toServer) : toServer' = Rest(toServer, n)
    /\ \E n \in 0..Len(toClient) : toClient' = First(toClient, n)
    /\ Cut("server")
    /\ UNCHANGED <<call, heard, phase, spoken, client>>

\* Mutant: the buffer is sent and kept.
Keep(side) == [side EXCEPT !.open = TRUE]

Reopened(side) == [open |-> TRUE, buffer |-> <<>>]

\* The socket is open again and what was buffered in the last ten seconds is sent.
ClientOpens ==
    /\ ~client.open
    /\ client' = Reopened(client)
    /\ \E n \in 0..Len(client.buffer) : toServer' = toServer \o Rest(client.buffer, n)
    /\ says' = Silence
    /\ UNCHANGED <<call, heard, phase, spoken, server, toClient, cut, cuts>>

ServerOpens ==
    /\ ~server.open
    /\ server' = Reopened(server)
    /\ \E n \in 0..Len(server.buffer) : toClient' = toClient \o Rest(server.buffer, n)
    /\ says' = Silence
    /\ UNCHANGED <<call, heard, phase, spoken, client, toServer, cut, cuts>>

\* The host has no route to the terminal that a message is for: its socket is
\* closed, or the late close of an earlier one has taken the route away.
HostDrops ==
    /\ \/ /\ toClient # <<>> /\ toClient' = Tail(toClient)
          /\ cut' = [cut EXCEPT !["host"] = @ \cup {Head(toClient).of}]
          /\ UNCHANGED toServer
       \/ /\ toServer # <<>> /\ toServer' = Tail(toServer)
          /\ cut' = [cut EXCEPT !["host"] = @ \cup {Head(toServer).of}]
          /\ UNCHANGED toClient
    /\ says' = Silence
    /\ UNCHANGED <<call, heard, phase, spoken, sides, cuts>>

-----------------------------------------------------------------------------
Next ==
    \/ \E r \in Requests : RequestByMessage(r) \/ Unsubscribe(r) \/ TimeOut(r) \/ ServerWorks(r)
    \/ \E r, again \in Requests : Resubscribe(r, again)
    \/ ClientReceives \/ ServerReceives
    \/ ClientCloses \/ ServerCloses \/ ClientOpens \/ ServerOpens \/ HostDrops

\* Sockets deliver and are opened again; nothing is assumed of the server's
\* handlers and of the callers.
Fairness ==
    /\ WF_vars(ClientReceives) /\ WF_vars(ServerReceives)
    /\ WF_vars(ClientOpens) /\ WF_vars(ServerOpens)

Spec == Init /\ [][Next]_vars /\ Fairness
-----------------------------------------------------------------------------
(* Properties.                                                             *)

Orders == [of : Requests, kind : {"request", "done"}]
Answers == [of : Requests, seq : Nat \ {0}, last : BOOLEAN]

TypeOK ==
    /\ call \in [Requests -> {"new", "open", "ended", "failed", "cancelled"}]
    /\ heard \in [Requests -> Seq(Nat \ {0})]
    /\ phase \in [Requests -> Phases]
    /\ says \in [Requests -> Speeches]
    /\ spoken \in [Requests -> Nat] /\ \A r \in Requests : spoken[r] <= MaxMessages[r] + 2
    /\ client \in [open : BOOLEAN, buffer : Seq(Orders)] /\ toServer \in Seq(Orders)
    /\ server \in [open : BOOLEAN, buffer : Seq(Answers)] /\ toClient \in Seq(Answers)
    /\ cut \in [Places -> SUBSET Requests] /\ cuts \in 0..MaxCuts

\* What the server said about these may be lost for good.
Holed == cut["server"] \cup cut["host"]

\* However often sockets close and open, a caller hears the answers to its
\* request in the order of their numbers, and without a hole unless the
\* server's socket has closed since it asked or the host has dropped a message:
\* a loss on the client's own side ends the call before it could be noticed.
HeardInOrder ==
    \A r \in Requests :
        /\ \A i, j \in DOMAIN heard[r] : i < j => heard[r][i] < heard[r][j]
        /\ r \notin Holed => \A i \in DOMAIN heard[r] : heard[r][i] = i

Copies(r) ==
    {<<"wire", i>> : i \in {j \in DOMAIN toServer :
                            toServer[j].of = r /\ toServer[j].kind = "request"}}
    \cup {<<"buffer", i>> : i \in {j \in DOMAIN client.buffer :
                            client.buffer[j].of = r /\ client.buffer[j].kind = "request"}}

\* create-connection.ts:62: a message is not sent twice.  Of what one
\* subscription sends there is one copy, in the buffer or on its way, and none
\* once the server has it, however often the socket closes and is opened again.
SentOnce ==
    \A r \in Requests :
        /\ \A x, y \in Copies(r) : x = y
        /\ phase[r] # "fresh" => Copies(r) = {}

\* A caller that unsubscribes, of its own or with the message that was enough,
\* stops the server's work on its request, unless a socket has closed in the
\* meantime or the host has dropped a message of the two.
UnsubscribeStopsWork ==
    \A r \in Requests :
        <>[](call[r] = "cancelled" /\ (\A place \in Places : r \notin cut[place]) =>
                phase[r] \notin {"waiting", "running"})
===============================================================================
