------------------------ MODULE DirectoryReplica_proofs ------------------------
(***************************************************************************)
(* The host and the copies of its directory, for any number of terminals,  *)
(* sockets and changes.  Of the host: its routes are live and its events   *)
(* log the directory.  Of a copy: it is always a past directory.           *)
(*                                                                         *)
(* The argument: seq_id counts the directories, so `past` has one for each *)
(* number; a list in flight carries the directory of its number, an event  *)
(* in flight leads from the directory before its number to the one of its  *)
(* number, and neither changes any more once the message is on its way,    *)
(* however late it is.  A terminal moves from number to number only by     *)
(* such messages.                                                          *)
(***************************************************************************)
EXTENDS DirectoryReplica, SequenceTheorems, TLAPS

-----------------------------------------------------------------------------
(* The host.                                                               *)

Rests == event' = NoEvent /\ seq' = seq /\ infos' = infos

Changes ==
    \E t \in Listed, new \in Infos \cup {Absent} :
        /\ t # HostTerminal \/ new # Absent
        /\ Announce(t, infos[t], new)
        /\ infos' = [infos EXCEPT ![t] = new]

\* A handler of the host either announces the one entry it changes or changes none.
LEMMA HostSteps ==
    ASSUME HostTypeOK, HostNext
    PROVE  HostTypeOK' /\ (Rests \/ Changes)
<1> USE HostTerminalAssumption, OwnerAssumption, AbsentAssumption
        DEF HostTypeOK, Payloads, Listed, NoEvent, Quiet, Terminate
<1>1. ASSUME NEW t \in Terminals, NEW c \in Conns, Accept(t, c)
      PROVE  HostTypeOK' /\ Rests
    BY <1>1 DEF Accept, Rests
<1>2. ASSUME NEW c \in Conns, Close(c) PROVE HostTypeOK' /\ Changes
    <2>1. Owner[c] \in Terminals
        OBVIOUS
    <2>2. HostTypeOK'
        BY <1>2, <2>1 DEF Close, Announce
    <2>3. Changes
        BY <1>2, <2>1 DEF Close, Changes
    <2> QED
        BY <2>2, <2>3
<1>3. ASSUME NEW t \in Listed, NEW info \in Infos, UpdateTerminalInfo(t, info)
      PROVE  HostTypeOK' /\ Changes
    <2>1. HostTypeOK'
        BY <1>3 DEF UpdateTerminalInfo, Announce
    <2>2. Changes
        BY <1>3 DEF UpdateTerminalInfo, Changes
    <2> QED
        BY <2>1, <2>2
<1>4. CASE PingRound
    BY <1>4 DEF PingRound, Rests
<1>5. ASSUME NEW t \in Terminals, PingAnswered(t) PROVE HostTypeOK' /\ Rests
    BY <1>5 DEF PingAnswered, Rests
<1>6. ASSUME NEW t \in Terminals, PingFails(t) PROVE HostTypeOK' /\ Changes
    <2>1. HostTypeOK'
        BY <1>6 DEF PingFails, Announce
    <2>2. Changes
        BY <1>6 DEF PingFails, Changes
    <2> QED
        BY <2>1, <2>2
<1> QED
    BY <1>1, <1>2, <1>3, <1>4, <1>5, <1>6 DEF HostNext

LEMMA HostInitTypes == HostInit => HostTypeOK
    BY HostTerminalAssumption DEF HostInit, HostTypeOK, NoEvent, Payloads, Listed

\* Every variable of the host has its type.
THEOREM HostTypeCorrect == HostSpec => []HostTypeOK
<1>1. HostTypeOK /\ [HostNext]_hostVars => HostTypeOK'
    <2>1. CASE UNCHANGED hostVars
        BY <2>1 DEF hostVars, HostTypeOK, Listed, Payloads
    <2> QED
        BY <2>1, HostSteps
<1> QED
    BY <1>1, HostInitTypes, PTL DEF HostSpec

\* The three ways a connection ends (a replacement, a close, a failed ping) all cut the
\* route that leads to it; that a close may cut the route of a newer connection does
\* not matter here.
LEMMA RoutesStep ==
    ASSUME HostTypeOK, RoutesAreLive, HostNext \/ UNCHANGED <<socket, route>>
    PROVE  RoutesAreLive'
<1> USE OwnerAssumption, NoConnAssumption DEF HostTypeOK, RoutesAreLive
<1>1. ASSUME NEW t \in Terminals, NEW c \in Conns, Accept(t, c) PROVE RoutesAreLive'
    BY <1>1 DEF Accept
<1>2. ASSUME NEW c \in Conns, Close(c) PROVE RoutesAreLive'
    BY <1>2 DEF Close
<1>3. ASSUME NEW t \in Terminals, PingFails(t) PROVE RoutesAreLive'
    BY <1>3 DEF PingFails, Terminate
<1>4. ASSUME UNCHANGED <<socket, route>> PROVE RoutesAreLive'
    BY <1>4
<1> QED
    BY <1>1, <1>2, <1>3, <1>4 DEF HostNext, UpdateTerminalInfo, PingRound, PingAnswered

\* No message goes to a dead socket or to a socket of somebody else.
THEOREM RoutesStayLive == HostSpec => []RoutesAreLive
<1>1. HostInit => RoutesAreLive
    BY DEF HostInit, RoutesAreLive
<1>2. HostTypeOK /\ RoutesAreLive /\ [HostNext]_hostVars => RoutesAreLive'
    BY RoutesStep DEF hostVars
<1> QED
    BY <1>1, <1>2, HostTypeCorrect, PTL DEF HostSpec

\* The documented promise, that an open connection is the routed one, fails in one way
\* only: a connection of the same terminal that closed took the route with it.
RivalClosed(c) == \E d \in Conns \ {c} : Owner[d] = Owner[c] /\ socket[d] = "closed"
OpenIsRoutedOrRobbed ==
    \A c \in Conns : socket[c] = "open" => route[Owner[c]] = c \/ RivalClosed(c)

\* A closed connection stays closed, and an open one was open before or is the newest.
LEMMA RobbedStep ==
    ASSUME HostTypeOK, RoutesAreLive, OpenIsRoutedOrRobbed, [HostNext]_hostVars
    PROVE  OpenIsRoutedOrRobbed'
<1> USE OwnerAssumption, NoConnAssumption
        DEF HostTypeOK, RoutesAreLive, OpenIsRoutedOrRobbed, RivalClosed
<1>1. ASSUME NEW t \in Terminals, NEW c \in Conns, Accept(t, c)
      PROVE  OpenIsRoutedOrRobbed'
    BY <1>1 DEF Accept
<1>2. ASSUME NEW c \in Conns, Close(c) PROVE OpenIsRoutedOrRobbed'
    <2> SUFFICES ASSUME NEW d \in Conns, socket'[d] = "open"
                 PROVE  route'[Owner[d]] = d \/ RivalClosed(d)'
        OBVIOUS
    <2>1. d # c /\ socket[d] = "open" /\ socket'[c] = "closed"
        BY <1>2 DEF Close
    <2>2. CASE Owner[d] = Owner[c]
        BY <2>1, <2>2
    <2>3. CASE Owner[d] # Owner[c]
        BY <1>2, <2>1, <2>3 DEF Close
    <2> QED
        BY <2>2, <2>3
<1>3. ASSUME NEW t \in Terminals, PingFails(t) PROVE OpenIsRoutedOrRobbed'
    BY <1>3 DEF PingFails, Terminate
<1>4. ASSUME UNCHANGED <<socket, route>> PROVE OpenIsRoutedOrRobbed'
    BY <1>4
<1> QED
    BY <1>1, <1>2, <1>3, <1>4
    DEF HostNext, UpdateTerminalInfo, PingRound, PingAnswered, hostVars

\* An open connection that gets no messages has a rival that closed.
THEOREM OnlyARivalTakesTheRoute == HostSpec => []OpenIsRoutedOrRobbed
<1>1. HostInit => OpenIsRoutedOrRobbed
    BY DEF HostInit, OpenIsRoutedOrRobbed
<1> QED
    BY <1>1, RobbedStep, HostTypeCorrect, RoutesStayLive, PTL DEF HostSpec

\* A step that announces what it changes, or changes nothing, is one of a log.
LEMMA StepsAreLogged ==
    ASSUME HostTypeOK, Rests \/ Changes
    PROVE  /\ infos' = [infos EXCEPT ![event'.id] = event'.new] \/ event' = NoEvent
           /\ event' # NoEvent => event'.old = infos[event'.id] /\ seq' = seq + 1
           /\ infos' # infos => event' # NoEvent /\ seq' = seq + 1
    BY DEF Rests, Changes, Announce, NoEvent

\* Applying the events in order gives the directory.
THEOREM EventsLogTheDirectory == HostSpec => EventsAreALog
<1> DEFINE Logged ==
      /\ infos' = [infos EXCEPT ![event'.id] = event'.new] \/ event' = NoEvent
      /\ event' # NoEvent => event'.old = infos[event'.id] /\ seq' = seq + 1
      /\ infos' # infos => event' # NoEvent /\ seq' = seq + 1
<1>1. HostTypeOK /\ [HostNext]_hostVars => [Logged]_hostVars
    BY HostSteps, StepsAreLogged
<1> QED
    BY <1>1, HostTypeCorrect, PTL DEF HostSpec, EventsAreALog

-----------------------------------------------------------------------------
(* The inductive invariant.                                                *)

\* The messages that say what was so when seq_id was their number.
Records ==
    {m \in Messages :
        /\ m.type = "list" => m.seq <= seq /\ m.infos = past[m.seq + 1]
        /\ m.type = "event" =>
              /\ m.seq \in 1..seq
              /\ past[m.seq + 1] = [past[m.seq] EXCEPT ![m.change.id] = m.change.new]}

PastIsKept ==
    /\ Len(past) = seq + 1
    /\ past[seq + 1] = infos

InFlightIsRecorded == down \in [Terminals -> Seq(Records)]

AckIsPast == \A t \in Terminals : ack[t] <= seq

Inv ==
    /\ TypeOK
    /\ PastIsKept
    /\ InFlightIsRecorded
    /\ AckIsPast
    /\ ViewIsHistorical

-----------------------------------------------------------------------------
(* Sequences.                                                              *)

LEMMA SeqMonotone ==
    ASSUME NEW S, NEW T, S \subseteq T, NEW q \in Seq(S)
    PROVE  q \in Seq(T)
OBVIOUS

\* What a step may do to a pipe without looking into it.
LEMMA PipeSteps ==
    ASSUME NEW S, NEW q \in Seq(S), NEW m \in S
    PROVE  /\ Append(q, m) \in Seq(S)
           /\ q # <<>> => Head(q) \in S /\ Tail(q) \in Seq(S)
BY AppendProperties, HeadTailProperties

-----------------------------------------------------------------------------
(* What is recorded.                                                       *)

\* The log grows by the new directory; what is recorded stays recorded, and the
\* event and the list of this step are.
LEMMA LogSteps ==
    ASSUME TypeOK, PastIsKept, HostTypeOK', Rests \/ Changes, Log
    PROVE  /\ past' \in Seq(Directories)
           /\ PastIsKept'
           /\ seq <= seq'
           /\ \A n \in 1..(seq + 1) : past'[n] = past[n]
           /\ Records \subseteq Records'
           /\ ListMessage \in Records
           /\ event' # NoEvent => EventMessage \in Records'
<1> USE DEF TypeOK, PastIsKept
<1>1. seq \in Nat /\ seq' \in Nat /\ infos \in Directories /\ infos' \in Directories
    BY DEF HostTypeOK, Directories, Listed
<1>2. CASE Rests
    <2>1. past' = past /\ seq' = seq /\ infos' = infos
        BY <1>2 DEF Rests, Log
    <2>2. Records' = Records
        BY <2>1 DEF Records, Messages, Directories, Payloads, Listed
    <2>3. ListMessage \in Records
        BY <1>1 DEF ListMessage, Records, Messages
    <2> QED
        BY <1>1, <1>2, <2>1, <2>2, <2>3 DEF Rests
<1>3. CASE Changes
    <2>1. PICK t \in Listed, new \in Infos \cup {Absent} :
              /\ t # HostTerminal \/ new # Absent
              /\ seq' = seq + 1
              /\ event' = [id |-> t, old |-> infos[t], new |-> new]
              /\ infos' = [infos EXCEPT ![t] = new]
        BY <1>3 DEF Changes, Announce
    <2>2. event' # NoEvent
        BY <2>1 DEF NoEvent
    <2>3. past' = Append(past, infos')
        BY <2>2 DEF Log
    <2>4. /\ past' \in Seq(Directories)
          /\ Len(past') = seq' + 1
          /\ past'[seq' + 1] = infos'
          /\ \A n \in 1..(seq + 1) : past'[n] = past[n]
        BY <1>1, <2>1, <2>3, AppendProperties
    <2>5. Messages' = Messages
        BY DEF Messages, Directories, Payloads, Listed
    <2>6. ASSUME NEW m \in Records PROVE m \in Records'
        <3>1. m \in Messages
            BY DEF Records
        <3>2. CASE m.type = "list"
            <4>1. m.seq \in Nat /\ m.seq <= seq /\ m.infos = past[m.seq + 1]
                BY <3>1, <3>2 DEF Records, Messages
            <4>2. m.seq + 1 \in 1..(seq + 1) /\ m.seq <= seq'
                BY <1>1, <2>1, <4>1
            <4> QED
                BY <2>4, <2>5, <3>1, <3>2, <4>1, <4>2 DEF Records
        <3>3. CASE m.type = "event"
            <4>1. /\ m.seq \in 1..seq
                  /\ past[m.seq + 1] = [past[m.seq] EXCEPT ![m.change.id] = m.change.new]
                BY <3>3 DEF Records
            <4>2. m.seq \in 1..(seq + 1) /\ m.seq + 1 \in 1..(seq + 1) /\ m.seq \in 1..seq'
                BY <1>1, <2>1, <4>1
            <4> QED
                BY <2>4, <2>5, <3>1, <3>3, <4>1, <4>2 DEF Records
        <3>4. CASE m.type # "list" /\ m.type # "event"
            BY <2>5, <3>1, <3>4 DEF Records
        <3> QED
            BY <3>2, <3>3, <3>4
    <2>7. ListMessage \in Records
        BY <1>1 DEF ListMessage, Records, Messages
    <2>8. EventMessage \in Records'
        <3>1. event' \in Payloads
            BY DEF HostTypeOK
        <3>2. EventMessage \in Messages'
            BY <1>1, <2>5, <3>1 DEF EventMessage, Messages
        <3>3. past'[seq' + 1] = [past'[seq'] EXCEPT ![t] = new]
            <4>1. past'[seq'] = infos
                BY <1>1, <2>1, <2>4, seq + 1 \in 1..(seq + 1)
            <4> QED
                BY <2>1, <2>4, <4>1
        <3> QED
            BY <1>1, <2>1, <3>2, <3>3 DEF EventMessage, Records
    <2> QED
        BY <1>1, <2>1, <2>4, <2>6, <2>7, <2>8
<1> QED
    BY <1>2, <1>3

-----------------------------------------------------------------------------
(* The invariant holds.                                                    *)

\* A step that logs, only appends records to pipes and leaves the copies alone.
LEMMA LoggingSteps ==
    ASSUME Inv, HostTypeOK', Rests \/ Changes, Log,
           down' \in [Terminals -> Seq(Records')],
           link' \in [Terminals -> Conns \cup {NoConn}],
           feed' = feed, late' = late, ack' = ack, view' = view,
           get' \in [Terminals -> {"idle", "due", "asked"}]
    PROVE  Inv'
<1>1. /\ past' \in Seq(Directories)
      /\ PastIsKept'
      /\ seq <= seq'
      /\ \A n \in 1..(seq + 1) : past'[n] = past[n]
    BY LogSteps DEF Inv
<1>2. seq \in Nat /\ seq' \in Nat /\ ack \in [Terminals -> Nat \cup {-1}]
    BY DEF Inv, TypeOK, HostTypeOK
<1>3. /\ Messages' = Messages
      /\ Directories' = Directories
      /\ Records' \subseteq Messages
    BY DEF Records, Messages, Directories, Payloads, Listed
<1>4. down' \in [Terminals -> Seq(Messages)]
    BY <1>3, SeqMonotone
<1>5. TypeOK'
    BY <1>1, <1>3, <1>4 DEF Inv, TypeOK
<1>6. AckIsPast'
    <2> SUFFICES ASSUME NEW t \in Terminals PROVE ack[t] <= seq'
        BY DEF AckIsPast
    <2>1. ack[t] <= seq /\ (ack[t] \in Nat \/ ack[t] = -1)
        BY <1>2 DEF Inv, AckIsPast
    <2> QED
        BY <1>1, <1>2, <2>1
<1>7. ViewIsHistorical'
    <2> SUFFICES ASSUME NEW t \in Terminals, ack[t] # -1
                 PROVE  view[t] = past'[ack[t] + 1]
        BY DEF ViewIsHistorical
    <2>1. ack[t] + 1 \in 1..(seq + 1)
        BY <1>2 DEF Inv, AckIsPast
    <2> QED
        BY <1>1, <2>1 DEF Inv, ViewIsHistorical
<1> QED
    BY <1>1, <1>5, <1>6, <1>7 DEF Inv, InFlightIsRecorded

\* A step in which the host rests.
LEMMA RestingSteps ==
    ASSUME Inv, HostRests,
           down' \in [Terminals -> Seq(Records)],
           link' \in [Terminals -> Conns \cup {NoConn}],
           feed' \in [Terminals -> {"none", "live", "ended"}],
           get' \in [Terminals -> {"idle", "due", "asked"}],
           late' \in Nat,
           ack' \in [Terminals -> Nat \cup {-1}],
           view' \in [Terminals -> Directories],
           \A t \in Terminals :
              /\ ack'[t] <= seq
              /\ ack'[t] # -1 => view'[t] = past[ack'[t] + 1]
    PROVE  Inv'
<1>1. /\ seq' = seq /\ past' = past /\ infos' = infos
      /\ socket' = socket /\ route' = route /\ pinged' = pinged
      /\ event' = NoEvent
    BY DEF HostRests, Quiet
<1>2. /\ Messages' = Messages
      /\ Directories' = Directories
      /\ Records' = Records
      /\ Records \subseteq Messages
    BY <1>1 DEF Records, Messages, Directories, Payloads, Listed
<1>3. down' \in [Terminals -> Seq(Messages)]
    BY <1>2, SeqMonotone
<1>4. HostTypeOK'
    BY <1>1 DEF Inv, TypeOK, HostTypeOK, NoEvent, Payloads, Listed
<1>5. TypeOK'
    BY <1>1, <1>2, <1>3, <1>4 DEF Inv, TypeOK
<1>6. PastIsKept'
    BY <1>1 DEF Inv, PastIsKept
<1>7. AckIsPast' /\ ViewIsHistorical'
    BY <1>1 DEF AckIsPast, ViewIsHistorical
<1> QED
    BY <1>1, <1>2, <1>5, <1>6, <1>7 DEF Inv, InFlightIsRecorded

LEMMA InvInit == Init => Inv
<1> SUFFICES ASSUME Init PROVE Inv
    OBVIOUS
<1>1. HostTypeOK
    BY HostInitTypes DEF Init
<1>2. infos \in Directories /\ Nowhere \in Directories /\ seq = 0
    BY DEF Init, HostInit, Directories, Nowhere, Listed
<1>3. past = <<infos>> /\ past \in Seq(Directories) /\ Len(past) = 1 /\ past[1] = infos
    BY <1>2 DEF Init
<1>4. down \in [Terminals -> Seq(Records)] /\ down \in [Terminals -> Seq(Messages)]
    BY DEF Init
<1>5. TypeOK
    BY <1>1, <1>2, <1>3, <1>4 DEF Init, TypeOK
<1>6. PastIsKept
    BY <1>2, <1>3 DEF PastIsKept
<1>7. AckIsPast /\ ViewIsHistorical
    BY <1>2 DEF Init, AckIsPast, ViewIsHistorical
<1> QED
    BY <1>4, <1>5, <1>6, <1>7 DEF Inv, InFlightIsRecorded

\* What reaches a terminal's pipe in a step of the host is recorded.
LEMMA PublishedIsRecorded ==
    ASSUME Inv, HostTypeOK', Rests \/ Changes, Log, NEW t \in Terminals
    PROVE  /\ Published(t) \in Seq(Records')
           /\ Append(Published(t), ListMessage) \in Seq(Records')
<1>1. /\ Records \subseteq Records'
      /\ ListMessage \in Records
      /\ event' # NoEvent => EventMessage \in Records'
    BY LogSteps DEF Inv
<1>2. down[t] \in Seq(Records')
    BY <1>1, SeqMonotone DEF Inv, InFlightIsRecorded
<1>3. Published(t) \in Seq(Records')
    BY <1>1, <1>2, PipeSteps DEF Published
<1> QED
    BY <1>1, <1>3, PipeSteps

-----------------------------------------------------------------------------
LEMMA InvStep == Inv /\ [Next]_vars => Inv'
<1> SUFFICES ASSUME Inv, [Next]_vars PROVE Inv'
    OBVIOUS
<1> DEFINE Pipes == [Terminals -> Seq(Records)]
<1>a. /\ HostTypeOK
      /\ seq \in Nat
      /\ down \in Pipes
      /\ link \in [Terminals -> Conns \cup {NoConn}]
      /\ feed \in [Terminals -> {"none", "live", "ended"}]
      /\ get \in [Terminals -> {"idle", "due", "asked"}]
      /\ ack \in [Terminals -> Nat \cup {-1}]
      /\ view \in [Terminals -> Directories]
      /\ late \in Nat
    BY DEF Inv, TypeOK, HostTypeOK, InFlightIsRecorded
<1>b. \A t \in Terminals : ack[t] <= seq /\ (ack[t] # -1 => view[t] = past[ack[t] + 1])
    BY DEF Inv, AckIsPast, ViewIsHistorical
<1>c. ListMessage \in Records
    BY <1>a DEF ListMessage, Records, Messages, Inv, PastIsKept, TypeOK, HostTypeOK,
                Directories, Listed
<1>1. CASE HostStep
    <2>1. HostTypeOK' /\ (Rests \/ Changes)
        BY <1>a, <1>1, HostSteps DEF HostStep, HostNext
    <2>2. down' \in [Terminals -> Seq(Records')]
        BY <1>1, <2>1, PublishedIsRecorded DEF HostStep
    <2> QED
        BY <1>a, <1>1, <2>1, <2>2, LoggingSteps DEF HostStep
<1>2. ASSUME NEW t \in Terminals, NEW c \in Conns, Connect(t, c) PROVE Inv'
    <2>1. HostTypeOK' /\ (Rests \/ Changes)
        BY <1>a, <1>2, HostSteps DEF Connect, HostNext
    <2>2. Log
        BY <1>2 DEF Connect, Accept, Quiet, Log
    <2>3. Records \subseteq Records'
        BY <2>1, <2>2, LogSteps DEF Inv
    <2>4. down' \in [Terminals -> Seq(Records')]
        BY <1>a, <1>2, <2>3, SeqMonotone DEF Connect
    <2>5. /\ link' \in [Terminals -> Conns \cup {NoConn}]
          /\ get' \in [Terminals -> {"idle", "due", "asked"}]
        BY <1>a, <1>2 DEF Connect
    <2> QED
        BY <1>2, <2>1, <2>2, <2>4, <2>5, LoggingSteps DEF Connect
<1>3. ASSUME NEW t \in Terminals, Disconnect(t) PROVE Inv'
    <2>1. /\ down' \in Pipes
          /\ link' \in [Terminals -> Conns \cup {NoConn}]
          /\ feed' \in [Terminals -> {"none", "live", "ended"}]
          /\ get' \in [Terminals -> {"idle", "due", "asked"}]
        BY <1>a, <1>3 DEF Disconnect
    <2> QED
        BY <1>a, <1>b, <1>3, <2>1, RestingSteps DEF Disconnect
<1>4. ASSUME NEW t \in Terminals, Get(t) PROVE Inv'
    <2>1. Append(down[t], ListMessage) \in Seq(Records)
        BY <1>a, <1>c, PipeSteps
    <2>2. down' \in Pipes /\ get' \in [Terminals -> {"idle", "due", "asked"}]
        BY <1>a, <1>4, <2>1 DEF Get, AskedFor
    <2> QED
        BY <1>a, <1>b, <1>4, <2>2, RestingSteps DEF Get
<1>5. ASSUME NEW t \in Terminals, NEW info \in Infos, GetBeforeUpdate(t, info)
      PROVE  Inv'
    <2>1. HostTypeOK' /\ (Rests \/ Changes)
        BY <1>a, <1>5, HostSteps DEF GetBeforeUpdate, Listed, HostNext
    <2>2. down' \in [Terminals -> Seq(Records')]
        BY <1>5, <2>1, PublishedIsRecorded DEF GetBeforeUpdate
    <2>3. get' \in [Terminals -> {"idle", "due", "asked"}]
        BY <1>a, <1>5 DEF GetBeforeUpdate, AskedFor
    <2> QED
        BY <1>a, <1>5, <2>1, <2>2, <2>3, LoggingSteps DEF GetBeforeUpdate
<1>6. ASSUME NEW t \in Terminals, GetTimesOut(t) PROVE Inv'
    <2> DEFINE given == [i \in DOMAIN down[t] |-> Orphaned(down[t][i])]
    <2>1. [type |-> "late"] \in Records
        BY DEF Records, Messages
    <2>2. \A i \in 1..Len(down[t]) : down[t][i] \in Records
        BY <1>a, ElementOfSeq
    <2>3. DOMAIN down[t] = 1..Len(down[t]) /\ Len(down[t]) \in Nat
        BY <1>a
    <2>4. \A i \in 1..Len(down[t]) : Orphaned(down[t][i]) \in Records
        BY <2>1, <2>2 DEF Orphaned
    <2>5. given \in Seq(Records)
        BY <2>3, <2>4
    <2>6. /\ down' \in Pipes
          /\ get' \in [Terminals -> {"idle", "due", "asked"}]
          /\ late' \in Nat
        BY <1>a, <1>6, <2>5 DEF GetTimesOut
    <2> QED
        BY <1>a, <1>b, <1>6, <2>6, RestingSteps DEF GetTimesOut
<1>7. ASSUME NEW t \in Terminals, Subscribe(t) PROVE Inv'
    <2>1. feed' \in [Terminals -> {"none", "live", "ended"}]
        BY <1>a, <1>7 DEF Subscribe
    <2> QED
        BY <1>a, <1>b, <1>7, <2>1, RestingSteps DEF Subscribe
<1>8. ASSUME NEW t \in Terminals, FeedEnds(t) PROVE Inv'
    <2>1. [type |-> "end"] \in Records
        BY DEF Records, Messages
    <2>2. Append(down[t], [type |-> "end"]) \in Seq(Records)
        BY <1>a, <2>1, PipeSteps
    <2>3. down' \in Pipes /\ feed' \in [Terminals -> {"none", "live", "ended"}]
        BY <1>a, <1>8, <2>2 DEF FeedEnds
    <2> QED
        BY <1>a, <1>b, <1>8, <2>3, RestingSteps DEF FeedEnds
<1>9. ASSUME NEW t \in Terminals, Receive(t) PROVE Inv'
    <2> DEFINE m == Head(down[t])
    <2>1. /\ down[t] # <<>>
          /\ down' = [down EXCEPT ![t] = Tail(@)]
          /\ HostRests /\ link' = link /\ late' = late
        BY <1>9 DEF Receive, ReceiveList, ReceiveLate, ReceiveEvent, ReceiveEnd
    <2>2. m \in Records /\ Tail(down[t]) \in Seq(Records)
        BY <1>a, <2>1, HeadTailProperties
    <2>3. down' \in Pipes
        BY <1>a, <2>1, <2>2
    <2>4. CASE ReceiveLate(t)
        BY <1>a, <1>b, <2>1, <2>3, <2>4, RestingSteps DEF ReceiveLate
    <2>5. CASE ReceiveEnd(t)
        <3>1. feed' \in [Terminals -> {"none", "live", "ended"}]
            BY <1>a, <2>5 DEF ReceiveEnd
        <3> QED
            BY <1>a, <1>b, <2>1, <2>3, <2>5, <3>1, RestingSteps DEF ReceiveEnd
    <2>6. CASE ReceiveList(t)
        <3>1. m.type = "list" /\ m.seq \in Nat /\ m.infos \in Directories
            BY <2>2, <2>6 DEF ReceiveList, Records, Messages
        <3>2. m.seq <= seq /\ m.infos = past[m.seq + 1]
            BY <2>2, <3>1 DEF Records
        <3>3. get' \in [Terminals -> {"idle", "due", "asked"}] /\ feed' = feed
            BY <1>a, <2>6 DEF ReceiveList
        <3>4. CASE ack' = ack /\ view' = view
            BY <1>a, <1>b, <2>1, <2>3, <3>3, <3>4, RestingSteps
        <3>5. CASE /\ ack' = [ack EXCEPT ![t] = m.seq]
                   /\ view' = [view EXCEPT ![t] = m.infos]
            <4>1. /\ ack' \in [Terminals -> Nat \cup {-1}]
                  /\ view' \in [Terminals -> Directories]
                BY <1>a, <3>1, <3>5
            <4>2. \A u \in Terminals :
                     /\ ack'[u] <= seq
                     /\ ack'[u] # -1 => view'[u] = past[ack'[u] + 1]
                BY <1>a, <1>b, <3>2, <3>5
            <4> QED
                BY <1>a, <2>1, <2>3, <3>3, <4>1, <4>2, RestingSteps
        <3> QED
            BY <2>6, <3>4, <3>5 DEF ReceiveList
    <2>7. CASE ReceiveEvent(t)
        <3>1. m.type = "event" /\ m.seq \in Nat /\ m.change \in Payloads
            BY <2>2, <2>7 DEF ReceiveEvent, Records, Messages
        <3>2. /\ m.seq \in 1..seq
              /\ past[m.seq + 1] = [past[m.seq] EXCEPT ![m.change.id] = m.change.new]
            BY <2>2, <3>1 DEF Records
        <3>3. get' \in [Terminals -> {"idle", "due", "asked"}] /\ feed' = feed
            BY <1>a, <2>7 DEF ReceiveEvent, Refresh
        <3>4. CASE ack' = ack /\ view' = view
            BY <1>a, <1>b, <2>1, <2>3, <3>3, <3>4, RestingSteps
        <3>5. CASE /\ Follows(t, m)
                   /\ view' = [view EXCEPT ![t][m.change.id] = m.change.new]
                   /\ ack' = [ack EXCEPT ![t] = m.seq]
            <4>1. m.seq = ack[t] + 1 /\ ack[t] # -1
                BY <1>a, <3>2, <3>5 DEF Follows
            <4>2. view[t] = past[m.seq]
                BY <1>b, <4>1
            <4>3. view'[t] = past[m.seq + 1]
                BY <1>a, <3>2, <3>5, <4>2
            <4>4. m.change.id \in Listed /\ m.change.new \in Infos \cup {Absent}
                BY <3>1 DEF Payloads
            <4>5. /\ ack' \in [Terminals -> Nat \cup {-1}]
                  /\ view' \in [Terminals -> Directories]
                BY <1>a, <3>1, <3>5, <4>4 DEF Directories
            <4>6. \A u \in Terminals :
                     /\ ack'[u] <= seq
                     /\ ack'[u] # -1 => view'[u] = past[ack'[u] + 1]
                BY <1>a, <1>b, <3>2, <3>5, <4>3
            <4> QED
                BY <1>a, <2>1, <2>3, <3>3, <4>5, <4>6, RestingSteps
        <3> QED
            BY <2>7, <3>4, <3>5 DEF ReceiveEvent
    <2> QED
        BY <1>9, <2>4, <2>5, <2>6, <2>7 DEF Receive
<1>10. CASE UNCHANGED vars
    <2>1. /\ Messages' = Messages
          /\ Directories' = Directories
          /\ Records' = Records
        BY <1>10 DEF vars, hostVars, clientVars, Records, Messages, Directories,
                     Payloads, Listed
    <2> QED
        BY <1>10, <2>1
           DEF vars, hostVars, clientVars, Inv, TypeOK, HostTypeOK, Listed,
               Payloads, PastIsKept, InFlightIsRecorded, AckIsPast, ViewIsHistorical
<1> QED
    BY <1>1, <1>2, <1>3, <1>4, <1>5, <1>6, <1>7, <1>8, <1>9, <1>10 DEF Next

\* The inductive invariant.
THEOREM InductiveInvariant == Spec => []Inv
BY InvInit, InvStep, PTL DEF Spec

\* Every variable has its type.
THEOREM TypeCorrect == Spec => []TypeOK
<1>1. Inv => TypeOK
    BY DEF Inv
<1> QED
    BY <1>1, InductiveInvariant, PTL

\* A terminal's copy is the directory as it was when seq_id was its ack_seq_id.
THEOREM ViewsAreHistorical == Spec => []ViewIsHistorical
<1>1. Inv => ViewIsHistorical
    BY DEF Inv
<1> QED
    BY <1>1, InductiveInvariant, PTL

-----------------------------------------------------------------------------
(* Host and replicas together.                                             *)

\* Beside the replicas the host takes its own steps and no others: whatever the
\* terminals do, nothing changes at the host but by one of its handlers.
LEMMA HostMovesAlone ==
    ASSUME [Next]_vars
    PROVE  HostNext \/ UNCHANGED <<socket, route, infos, seq, pinged>>
<1>1. ASSUME HostStep PROVE HostNext
    BY <1>1 DEF HostStep, HostNext
<1>2. ASSUME NEW t \in Terminals, NEW c \in Conns, Connect(t, c) PROVE HostNext
    BY <1>2 DEF Connect, HostNext
<1>3. ASSUME NEW t \in Terminals, NEW info \in Infos, GetBeforeUpdate(t, info) PROVE HostNext
    BY <1>3 DEF GetBeforeUpdate, HostNext, Listed
<1>4. ASSUME HostRests PROVE UNCHANGED <<socket, route, infos, seq, pinged>>
    BY <1>4 DEF HostRests, Quiet
<1>5. ASSUME UNCHANGED vars PROVE UNCHANGED <<socket, route, infos, seq, pinged>>
    BY <1>5 DEF vars, hostVars
<1> QED
    BY <1>1, <1>2, <1>3, <1>4, <1>5
       DEF Next, Disconnect, Get, GetTimesOut, Subscribe, FeedEnds, Receive, ReceiveList,
           ReceiveLate, ReceiveEvent, ReceiveEnd

\* What was shown of the host alone is true of it among its terminals
\* (host-manager.ts:193-297).
THEOREM HostIsItself ==
    Spec => HostInit /\ [][HostNext]_<<socket, route, infos, seq, pinged>>
    BY HostMovesAlone, PTL DEF Spec, Init

\* Whatever the terminals do, routes lead to open sockets.
THEOREM RoutesStayLiveAmongReplicas == Spec => []RoutesAreLive
<1>1. Init => RoutesAreLive
    BY DEF Init, HostInit, RoutesAreLive
<1>2. TypeOK /\ RoutesAreLive /\ [Next]_vars => RoutesAreLive'
    BY RoutesStep, HostMovesAlone DEF TypeOK
<1> QED
    BY <1>1, <1>2, TypeCorrect, PTL DEF Spec
=============================================================================
