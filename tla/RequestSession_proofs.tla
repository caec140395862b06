------------------------ MODULE RequestSession_proofs ------------------------
(***************************************************************************)
(* Proofs about requests between two terminals.  A message on its way is   *)
(* on a wire or in a buffer before it; both are one stream, of which every *)
(* loss takes a piece away and to whose end every message is added, as     *)
(* long as a side buffers only while its socket is not open.               *)
(***************************************************************************)
EXTENDS RequestSession, SequenceTheorems, TLAPS

Up == toServer \o client.buffer
Down == toClient \o server.buffer

\* There is one copy of a request.
RequestsAreUnique ==
    \A i, j \in 1..Len(Up) :
        Up[i].kind = "request" /\ Up[j].kind = "request" /\ Up[i].of = Up[j].of => i = j

\* What is on its way to the server was asked for, and a request there is new to it.
RequestsAreNews ==
    /\ \A i \in 1..Len(Up) :
        call[Up[i].of] # "new" /\ (Up[i].kind = "request" => phase[Up[i].of] = "fresh")
    /\ \A r \in Requests : call[r] = "new" => phase[r] = "fresh"

\* How much the server may have said about a request it is not done with.
NumbersFit ==
    \A r \in Requests :
        /\ phase[r] = "fresh" => spoken[r] = 0
        /\ phase[r] = "waiting" => spoken[r] <= MaxMessages[r]
        /\ phase[r] = "running" => spoken[r] <= MaxMessages[r] + 1

\* Who is not connected: nobody buffers while the socket is open, no call waits for an
\* answer while it is not, and the server knows only requests that were under way.
SocketsFit ==
    /\ client.open => client.buffer = <<>>
    /\ server.open => server.buffer = <<>>
    /\ ~client.open => \A r \in Requests : call[r] # "open"
    /\ ~server.open => \A r \in Requests : phase[r] # "fresh" => r \in cut["server"]

UInv == TypeOK /\ RequestsAreUnique /\ RequestsAreNews /\ NumbersFit /\ SocketsFit

\* The answers on their way to a caller are in the order of their numbers, after those
\* it has heard and up to the last the server has said.
AnswersInOrder ==
    /\ \A i, j \in 1..Len(Down) :
        i < j /\ Down[i].of = Down[j].of => Down[i].seq < Down[j].seq
    /\ \A i \in 1..Len(Down) :
        /\ Down[i].seq <= spoken[Down[i].of]
        /\ \A k \in DOMAIN heard[Down[i].of] : heard[Down[i].of][k] < Down[i].seq
    /\ \A r \in Requests : \A k \in DOMAIN heard[r] : heard[r][k] <= spoken[r]

\* What a caller that waits has not heard is on its way to it, unless the server's
\* socket has closed or the host has dropped a message about it.
NothingIsMissing ==
    \A r \in Requests :
        call[r] = "open" /\ r \notin Holed =>
            \A s \in (Len(heard[r]) + 1)..spoken[r] :
                \E i \in 1..Len(Down) : Down[i].of = r /\ Down[i].seq = s

DInv == AnswersInOrder /\ NothingIsMissing /\ HeardInOrder

-----------------------------------------------------------------------------
(* Streams.                                                                *)

\* t is s after a loss: what is left is in its order.
Keeps(s, t) ==
    \E f \in [1..Len(t) -> 1..Len(s)] :
        /\ \A i, j \in 1..Len(t) : i < j => f[i] < f[j]
        /\ \A i \in 1..Len(t) : t[i] = s[f[i]]

\* t is s with u at its end.
Adds(s, u, t) ==
    /\ Len(t) = Len(s) + Len(u)
    /\ \A i \in 1..Len(s) : t[i] = s[i]
    /\ \A i \in 1..Len(u) : t[Len(s) + i] = u[i]

LEMMA KeepsAll == \A S : \A s \in Seq(S) : Keeps(s, s)
<1> SUFFICES ASSUME NEW S, NEW s \in Seq(S) PROVE Keeps(s, s)
  OBVIOUS
<1> DEFINE f == [i \in 1..Len(s) |-> i]
<1>1. /\ f \in [1..Len(s) -> 1..Len(s)]
      /\ \A i, j \in 1..Len(s) : i < j => f[i] < f[j]
      /\ \A i \in 1..Len(s) : s[i] = s[f[i]]
  OBVIOUS
<1> QED
  BY <1>1 DEF Keeps

\* A loss that takes d messages away after the first a.
LEMMA RemovalKeeps ==
    ASSUME NEW S, NEW s \in Seq(S), NEW t \in Seq(S), NEW a \in Nat, NEW d \in Nat,
           a + d <= Len(s), Len(t) = Len(s) - d,
           \A i \in 1..Len(t) : t[i] = IF i <= a THEN s[i] ELSE s[i + d]
    PROVE  Keeps(s, t)
<1> DEFINE f == [i \in 1..Len(t) |-> IF i <= a THEN i ELSE i + d]
<1>1. Len(s) \in Nat /\ Len(t) \in Nat
  OBVIOUS
<1>2. f \in [1..Len(t) -> 1..Len(s)]
  BY <1>1
<1>3. \A i, j \in 1..Len(t) : i < j => f[i] < f[j]
  BY <1>1
<1>4. \A i \in 1..Len(t) : t[i] = s[f[i]]
  OBVIOUS
<1> HIDE DEF f
<1> QED
  BY <1>2, <1>3, <1>4 DEF Keeps

LEMMA PartProperties ==
    ASSUME NEW S, NEW s \in Seq(S), NEW n \in 0..Len(s)
    PROVE  /\ First(s, n) \in Seq(S) /\ Len(First(s, n)) = n
           /\ \A i \in 1..n : First(s, n)[i] = s[i]
           /\ Rest(s, n) \in Seq(S) /\ Len(Rest(s, n)) = Len(s) - n
           /\ \A i \in 1..(Len(s) - n) : Rest(s, n)[i] = s[n + i]
<1>1. Len(s) \in Nat /\ n \in Nat /\ \A i \in 1..Len(s) : s[i] \in S
  OBVIOUS
<1>2. /\ First(s, n) \in Seq(S) /\ Len(First(s, n)) = n
      /\ \A i \in 1..n : First(s, n)[i] = s[i]
  <2>1. /\ SubSeq(s, 1, n) \in Seq(S)
        /\ Len(SubSeq(s, 1, n)) = IF 1 <= n THEN n - 1 + 1 ELSE 0
        /\ \A i \in 1..(n - 1 + 1) : SubSeq(s, 1, n)[i] = s[1 + i - 1]
    BY <1>1, SubSeqProperties
  <2> QED
    BY <1>1, <2>1 DEF First
<1>3. /\ Rest(s, n) \in Seq(S) /\ Len(Rest(s, n)) = Len(s) - n
      /\ \A i \in 1..(Len(s) - n) : Rest(s, n)[i] = s[n + i]
  <2> DEFINE m == n + 1  l == Len(s)
  <2>1. m \in Int /\ l \in Int /\ \A i \in m..l : s[i] \in S
    BY <1>1
  <2> HIDE DEF m, l
  <2>2. /\ SubSeq(s, m, l) \in Seq(S)
        /\ Len(SubSeq(s, m, l)) = IF m <= l THEN l - m + 1 ELSE 0
        /\ \A i \in 1..(l - m + 1) : SubSeq(s, m, l)[i] = s[m + i - 1]
    BY <2>1, SubSeqProperties
  <2> QED
    BY <1>1, <2>2 DEF Rest, m, l
<1> QED
  BY <1>2, <1>3

\* A loss in the first part of a stream leaves f of it, in the second part g.
LEMMA PartLossKeeps ==
    ASSUME NEW S, NEW p \in Seq(S), NEW q \in Seq(S), NEW f \in Seq(S), NEW a \in Nat,
           NEW d \in Nat
    PROVE  /\ /\ a + d <= Len(p) /\ Len(f) = Len(p) - d
              /\ \A i \in 1..Len(f) : f[i] = IF i <= a THEN p[i] ELSE p[i + d]
              => Keeps(p \o q, f \o q)
           /\ /\ d <= Len(q) /\ Len(f) = Len(q) - d
              /\ \A i \in 1..Len(f) : f[i] = q[i + d]
              => Keeps(p \o q, p \o f)
<1> DEFINE s == p \o q
           t == f \o q
           u == p \o f
<1>1. /\ Len(p) \in Nat /\ Len(q) \in Nat /\ Len(f) \in Nat
      /\ s \in Seq(S) /\ Len(s) = Len(p) + Len(q)
      /\ \A i \in 1..(Len(p) + Len(q)) : s[i] = IF i <= Len(p) THEN p[i] ELSE q[i - Len(p)]
  BY ConcatProperties
<1>2. /\ t \in Seq(S) /\ Len(t) = Len(f) + Len(q)
      /\ \A i \in 1..(Len(f) + Len(q)) : t[i] = IF i <= Len(f) THEN f[i] ELSE q[i - Len(f)]
  BY ConcatProperties
<1>3. /\ u \in Seq(S) /\ Len(u) = Len(p) + Len(f)
      /\ \A i \in 1..(Len(p) + Len(f)) : u[i] = IF i <= Len(p) THEN p[i] ELSE f[i - Len(p)]
  BY ConcatProperties
<1> HIDE DEF s, t, u
<1>4. ASSUME a + d <= Len(p), Len(f) = Len(p) - d,
             \A i \in 1..Len(f) : f[i] = IF i <= a THEN p[i] ELSE p[i + d]
      PROVE  Keeps(s, t)
  <2>1. a + d <= Len(s) /\ Len(t) = Len(s) - d
    BY <1>1, <1>2, <1>4
  <2>2. ASSUME NEW i \in 1..Len(t)
        PROVE  t[i] = IF i <= a THEN s[i] ELSE s[i + d]
    <3> DEFINE l == Len(p)  m == Len(f)  k == Len(q)
    <3>1. /\ l \in Nat /\ m \in Nat /\ k \in Nat /\ m = l - d /\ a + d <= l
          /\ i \in Nat /\ 1 <= i /\ i <= m + k
      BY <1>1, <1>2, <1>4
    <3>2. t[i] = IF i <= m THEN f[i] ELSE q[i - m]
      BY <1>2, <3>1
    <3>3. i <= l => s[i] = p[i]
      BY <1>1, <3>1
    <3>4. s[i + d] = IF i + d <= l THEN p[i + d] ELSE q[i + d - l]
      BY <1>1, <3>1
    <3>5. i <= m => f[i] = IF i <= a THEN p[i] ELSE p[i + d]
      BY <1>4, <3>1
    <3> HIDE DEF l, m, k
    <3>6. i + d <= l <=> i <= m
      BY <3>1
    <3>7. i + d - l = i - m
      BY <3>1
    <3>8. i <= a => i <= m /\ i <= l
      BY <3>1
    <3> QED
      BY <3>2, <3>3, <3>4, <3>5, <3>6, <3>7, <3>8
  <2> QED
    BY <1>1, <1>2, <2>1, <2>2, RemovalKeeps
<1>5. ASSUME d <= Len(q), Len(f) = Len(q) - d, \A i \in 1..Len(f) : f[i] = q[i + d]
      PROVE  Keeps(s, u)
  <2> DEFINE b == Len(p)
  <2>1. b \in Nat /\ b + d <= Len(s) /\ Len(u) = Len(s) - d
    BY <1>1, <1>3, <1>5
  <2>2. ASSUME NEW i \in 1..Len(u)
        PROVE  u[i] = IF i <= b THEN s[i] ELSE s[i + d]
    <3> DEFINE m == Len(f)  k == Len(q)
    <3>1. b \in Nat /\ m \in Nat /\ k \in Nat /\ m = k - d /\ i \in Nat /\ 1 <= i /\ i <= b + m
      BY <1>1, <1>3, <1>5
    <3>2. u[i] = IF i <= b THEN p[i] ELSE f[i - b]
      BY <1>3, <3>1
    <3>3. i <= b => s[i] = p[i]
      BY <1>1, <3>1
    <3>4. ~(i <= b) => s[i + d] = q[i + d - b]
      BY <1>1, <3>1
    <3>5. ~(i <= b) => f[i - b] = q[(i - b) + d]
      <4>1. ~(i <= b) => i - b \in 1..Len(f)
        BY <3>1
      <4> QED
        BY <1>5, <4>1
    <3> HIDE DEF b, m, k
    <3>6. i + d - b = (i - b) + d
      BY <3>1
    <3> QED
      BY <3>2, <3>3, <3>4, <3>5, <3>6
  <2> HIDE DEF b
  <2> QED
    BY <1>1, <1>3, <2>1, <2>2, RemovalKeeps
<1> QED
  BY <1>4, <1>5 DEF s, t, u

\* What is lost on the wire, at either end, or in the buffer.
LEMMA LossesKeep ==
    ASSUME NEW S, NEW p \in Seq(S), NEW q \in Seq(S)
    PROVE  /\ \A n \in 0..Len(p) : /\ Keeps(p \o q, First(p, n) \o q)
                                   /\ Keeps(p \o q, Rest(p, n) \o q)
           /\ \A n \in 0..Len(q) : Keeps(p \o q, (p \o Rest(q, n)) \o <<>>)
           /\ p # <<>> => Keeps(p \o q, Tail(p) \o q)
<1>1. Len(p) \in Nat /\ Len(q) \in Nat
  OBVIOUS
<1>2. ASSUME NEW n \in 0..Len(p) PROVE Keeps(p \o q, First(p, n) \o q)
  <2> DEFINE f == First(p, n)  d == Len(p) - n
  <2>1. f \in Seq(S) /\ Len(f) = n /\ \A i \in 1..n : f[i] = p[i]
    BY PartProperties
  <2>2. n \in Nat /\ d \in Nat /\ n + d <= Len(p) /\ Len(f) = Len(p) - d
    BY <1>1, <2>1
  <2> HIDE DEF f, d
  <2>3. \A i \in 1..Len(f) : f[i] = IF i <= n THEN p[i] ELSE p[i + d]
    BY <2>1
  <2>4. Keeps(p \o q, f \o q)
    BY <2>1, <2>2, <2>3, PartLossKeeps
  <2> QED
    BY <2>4 DEF f
<1>3. ASSUME NEW n \in 0..Len(p) PROVE Keeps(p \o q, Rest(p, n) \o q)
  <2> DEFINE f == Rest(p, n)
  <2>1. f \in Seq(S) /\ Len(f) = Len(p) - n /\ \A i \in 1..Len(f) : f[i] = p[n + i]
    <3>1. /\ f \in Seq(S) /\ Len(f) = Len(p) - n
          /\ \A i \in 1..(Len(p) - n) : f[i] = p[n + i]
      BY PartProperties
    <3> QED
      BY <3>1
  <2> HIDE DEF f
  <2>2. /\ n \in Nat /\ 0 \in Nat /\ 0 + n <= Len(p)
        /\ \A i \in 1..Len(f) : f[i] = IF i <= 0 THEN p[i] ELSE p[i + n]
    <3>1. n \in Nat /\ n <= Len(p) /\ Len(p) \in Nat /\ Len(f) \in Nat
      BY <1>1
    <3>2. \A i \in 1..Len(f) : ~(i <= 0) /\ n + i = i + n
      BY <3>1
    <3> QED
      BY <2>1, <3>1, <3>2
  <2>3. Keeps(p \o q, f \o q)
    BY <2>1, <2>2, PartLossKeeps
  <2> QED
    BY <2>3 DEF f
<1>4. ASSUME NEW n \in 0..Len(q) PROVE Keeps(p \o q, (p \o Rest(q, n)) \o <<>>)
  <2> DEFINE f == Rest(q, n)
  <2>1. f \in Seq(S) /\ Len(f) = Len(q) - n /\ \A i \in 1..Len(f) : f[i] = q[n + i]
    <3>1. /\ f \in Seq(S) /\ Len(f) = Len(q) - n
          /\ \A i \in 1..(Len(q) - n) : f[i] = q[n + i]
      BY PartProperties
    <3> QED
      BY <3>1
  <2> HIDE DEF f
  <2>2. n \in Nat /\ n <= Len(q) /\ 0 \in Nat /\ \A i \in 1..Len(f) : f[i] = q[i + n]
    <3>1. n \in Nat /\ n <= Len(q) /\ Len(q) \in Nat /\ Len(f) \in Nat
      BY <1>1
    <3>2. \A i \in 1..Len(f) : n + i = i + n
      BY <3>1
    <3> QED
      BY <2>1, <3>1, <3>2
  <2>3. Keeps(p \o q, p \o f)
    BY <2>1, <2>2, PartLossKeeps
  <2>4. (p \o f) \o <<>> = p \o f
    BY <2>1, ConcatProperties, ConcatEmptySeq
  <2> QED
    BY <2>3, <2>4 DEF f
<1>5. ASSUME p # <<>> PROVE Keeps(p \o q, Tail(p) \o q)
  <2> DEFINE f == Tail(p)
  <2>1. /\ f \in Seq(S) /\ Len(f) = Len(p) - 1 /\ 0 + 1 <= Len(p)
        /\ \A i \in 1..Len(f) : f[i] = p[i + 1]
    BY <1>1, <1>5, HeadTailProperties, EmptySeq
  <2> HIDE DEF f
  <2>2. \A i \in 1..Len(f) : f[i] = IF i <= 0 THEN p[i] ELSE p[i + 1]
    BY <2>1
  <2> QED
    BY <2>1, <2>2, PartLossKeeps DEF f
<1> QED
  BY <1>2, <1>3, <1>4, <1>5

\* The first message of a stream is taken.
LEMMA TailOfStream ==
    ASSUME NEW S, NEW p \in Seq(S), NEW q \in Seq(S), p # <<>>
    PROVE  /\ Len(Tail(p) \o q) = Len(p \o q) - 1 /\ Len(p \o q) \in Nat /\ 1 \in 1..Len(p \o q)
           /\ (p \o q)[1] = Head(p)
           /\ \A i \in 1..Len(Tail(p) \o q) :
                i + 1 \in 1..Len(p \o q) /\ (Tail(p) \o q)[i] = (p \o q)[i + 1]
<1> DEFINE t == Tail(p)  l == Len(p)  k == Len(q)
<1>1. /\ l \in Nat /\ l >= 1 /\ k \in Nat /\ Head(p) = p[1]
      /\ t \in Seq(S) /\ Len(t) = l - 1 /\ \A i \in 1..(l - 1) : t[i] = p[i + 1]
  BY HeadTailProperties, EmptySeq
<1>2. /\ Len(p \o q) = l + k
      /\ \A i \in 1..(l + k) : (p \o q)[i] = IF i <= l THEN p[i] ELSE q[i - l]
  BY ConcatProperties
<1> HIDE DEF t, l
<1>3. /\ Len(t \o q) = (l - 1) + k
      /\ \A i \in 1..((l - 1) + k) : (t \o q)[i] = IF i <= l - 1 THEN t[i] ELSE q[i - (l - 1)]
  <2>1. /\ Len(t \o q) = Len(t) + Len(q)
        /\ \A i \in 1..(Len(t) + Len(q)) : (t \o q)[i] = IF i <= Len(t) THEN t[i] ELSE q[i - Len(t)]
    BY <1>1, ConcatProperties
  <2> QED
    BY <1>1, <2>1
<1> HIDE DEF k
<1>4. ASSUME NEW i \in 1..((l - 1) + k)
      PROVE  i + 1 \in 1..(l + k) /\ (t \o q)[i] = (p \o q)[i + 1]
  <2>1. /\ i \in Nat /\ i + 1 \in 1..(l + k) /\ (i <= l - 1 <=> i + 1 <= l)
        /\ i - (l - 1) = (i + 1) - l /\ (i <= l - 1 => i \in 1..(l - 1))
    BY <1>1
  <2> QED
    BY <1>1, <1>2, <1>3, <2>1
<1>5. 1 \in 1..(l + k) /\ (p \o q)[1] = Head(p)
  BY <1>1, <1>2
<1> QED
  BY <1>1, <1>2, <1>3, <1>4, <1>5 DEF t

\* What is sent goes to the end, over the wire or into the buffer.
LEMMA SendingAdds ==
    ASSUME NEW S, NEW p \in Seq(S), NEW q \in Seq(S), NEW u \in Seq(S)
    PROVE  /\ Adds(p \o q, u, p \o (q \o u))
           /\ q = <<>> => Adds(p \o q, u, (p \o u) \o q)
<1>1. ASSUME NEW s \in Seq(S) PROVE Adds(s, u, s \o u)
  <2>1. /\ Len(s \o u) = Len(s) + Len(u) /\ Len(s) \in Nat /\ Len(u) \in Nat
        /\ \A i \in 1..(Len(s) + Len(u)) : (s \o u)[i] = IF i <= Len(s) THEN s[i] ELSE u[i - Len(s)]
    BY ConcatProperties
  <2> QED
    BY <2>1 DEF Adds
<1>2. p \o (q \o u) = (p \o q) \o u /\ p \o q \in Seq(S)
  <2>1. p \o (q \o u) = (p \o q) \o u
    BY ConcatAssociative
  <2>2. p \o q \in Seq(S)
    BY ConcatProperties
  <2> QED
    BY <2>1, <2>2
<1>3. ASSUME q = <<>> PROVE p \o q = p /\ (p \o u) \o q = p \o u
  <2>1. p \o u \in Seq(S)
    BY ConcatProperties
  <2>2. p \o <<>> = p /\ (p \o u) \o <<>> = p \o u
    BY <2>1, ConcatEmptySeq
  <2> QED
    BY <1>3, <2>2
<1> QED
  BY <1>1, <1>2, <1>3

-----------------------------------------------------------------------------
(* The sockets and what goes through them.                                 *)

LEMMA Streams ==
    ASSUME TypeOK
    PROVE  /\ toServer \in Seq(Orders) /\ client.buffer \in Seq(Orders) /\ Up \in Seq(Orders)
           /\ toClient \in Seq(Answers) /\ server.buffer \in Seq(Answers) /\ Down \in Seq(Answers)
           /\ client.open \in BOOLEAN /\ server.open \in BOOLEAN
<1>1. /\ toServer \in Seq(Orders) /\ client.buffer \in Seq(Orders)
      /\ toClient \in Seq(Answers) /\ server.buffer \in Seq(Answers)
      /\ client.open \in BOOLEAN /\ server.open \in BOOLEAN
  BY DEF TypeOK
<1> QED
  BY <1>1, ConcatProperties DEF Up, Down

LEMMA SendProperties ==
    ASSUME TypeOK, SocketsFit, NEW m \in Orders, Send(<<m>>)
    PROVE  /\ Adds(Up, <<m>>, Up')
           /\ toServer' \in Seq(Orders)
           /\ client' \in [open : BOOLEAN, buffer : Seq(Orders)]
           /\ client'.open = client.open /\ (client.open => client'.buffer = <<>>)
<1> DEFINE u == <<m>>
<1>1. /\ toServer \in Seq(Orders) /\ client.buffer \in Seq(Orders)
      /\ client \in [open : BOOLEAN, buffer : Seq(Orders)]
      /\ client.open => client.buffer = <<>>
  BY Streams DEF SocketsFit, TypeOK
<1>2. u \in Seq(Orders)
  OBVIOUS
<1> HIDE DEF u
<1>3. CASE client.open
  <2>1. toServer' = toServer \o u /\ client' = client
    BY <1>3 DEF Send, u
  <2>2. Up' = (toServer \o u) \o client.buffer
    BY <2>1 DEF Up
  <2>3. toServer \o u \in Seq(Orders)
    BY <1>1, <1>2, ConcatProperties
  <2>4. Adds(toServer \o client.buffer, u, (toServer \o u) \o client.buffer)
    BY <1>1, <1>2, <1>3, SendingAdds
  <2> QED
    BY <1>1, <1>3, <2>1, <2>2, <2>3, <2>4 DEF Up, u
<1>4. CASE ~client.open
  <2>1. toServer' = toServer /\ client' = [client EXCEPT !.buffer = client.buffer \o u]
    BY <1>4 DEF Send, u
  <2> DEFINE b == client.buffer \o u
  <2>2. b \in Seq(Orders)
    BY <1>1, <1>2, ConcatProperties
  <2> HIDE DEF b
  <2>3. client' = [client EXCEPT !.buffer = b]
    BY <2>1 DEF b
  <2>4. /\ client'.open = client.open /\ client'.buffer = b
        /\ client' \in [open : BOOLEAN, buffer : Seq(Orders)]
    BY <1>1, <2>2, <2>3
  <2>5. Up' = toServer \o (client.buffer \o u)
    BY <2>1, <2>4 DEF Up, b
  <2>6. Adds(toServer \o client.buffer, u, toServer \o (client.buffer \o u))
    BY <1>1, <1>2, SendingAdds
  <2> QED
    BY <1>1, <1>4, <2>1, <2>4, <2>5, <2>6 DEF Up, u
<1> QED
  BY <1>3, <1>4

LEMMA SpeechProperties ==
    ASSUME NEW kinds \in Speeches
    PROVE  Len(kinds) \in 0..2 /\ DOMAIN kinds = 1..Len(kinds)
<1>1. \/ kinds = <<>> \/ \E c : kinds = <<c>> \/ \E a, b : kinds = <<a, b>>
  BY DEF Speeches, Closings
<1> QED
  BY <1>1

LEMMA NumberedProperties ==
    ASSUME TypeOK, NEW r \in Requests, NEW kinds \in Speeches
    PROVE  /\ Numbered(r, kinds) \in Seq(Answers) /\ Len(Numbered(r, kinds)) = Len(kinds)
           /\ \A i \in 1..Len(kinds) :
                /\ Numbered(r, kinds)[i].of = r
                /\ Numbered(r, kinds)[i].seq = spoken[r] + i
<1> DEFINE n == Len(kinds)
           e(i) == [of |-> r, seq |-> spoken[r] + i, last |-> IsLast(kinds[i])]
<1>1. n \in Nat /\ Numbered(r, kinds) = [i \in 1..n |-> e(i)]
  BY SpeechProperties DEF Numbered
<1>2. \A i \in 1..n : e(i) \in Answers /\ e(i).of = r /\ e(i).seq = spoken[r] + i
  <2>1. spoken[r] \in Nat
    BY BoundsAssumption DEF TypeOK
  <2> QED
    BY <1>1, <2>1 DEF Answers, IsLast
<1> DEFINE N == Numbered(r, kinds)
<1>3. N \in [1..n -> Answers] /\ \A i \in 1..n : N[i] = e(i)
  BY <1>1, <1>2
<1> HIDE DEF n, N
<1>4. N \in Seq(Answers) /\ Len(N) = n
  BY <1>1, <1>3
<1> QED
  BY <1>2, <1>3, <1>4 DEF n, N

LEMMA SpeaksProperties ==
    ASSUME TypeOK, SocketsFit, NEW r \in Requests, NEW p \in Phases, NEW kinds \in Speeches,
           Speaks(r, p, kinds)
    PROVE  /\ Adds(Down, Numbered(r, kinds), Down')
           /\ toClient' \in Seq(Answers)
           /\ server' \in [open : BOOLEAN, buffer : Seq(Answers)]
           /\ server'.open = server.open /\ (server.open => server'.buffer = <<>>)
           /\ phase' \in [Requests -> Phases] /\ says' \in [Requests -> Speeches]
           /\ says'[r] = kinds
           /\ \A q \in Requests : phase'[q] = IF q = r THEN p ELSE phase[q]
           /\ \A q \in Requests : spoken'[q] = IF q = r THEN spoken[r] + Len(kinds) ELSE spoken[q]
           /\ DOMAIN spoken' = Requests /\ spoken' = [q \in Requests |-> spoken'[q]]
<1> DEFINE u == Numbered(r, kinds)
<1>1. /\ toClient \in Seq(Answers) /\ server.buffer \in Seq(Answers)
      /\ server \in [open : BOOLEAN, buffer : Seq(Answers)]
      /\ server.open => server.buffer = <<>>
  BY Streams DEF SocketsFit, TypeOK
<1>2. u \in Seq(Answers)
  BY NumberedProperties
<1> HIDE DEF u
<1>3. /\ Adds(Down, u, Down') /\ toClient' \in Seq(Answers)
      /\ server' \in [open : BOOLEAN, buffer : Seq(Answers)]
      /\ server'.open = server.open /\ (server.open => server'.buffer = <<>>)
  <2>1. CASE server.open
    <3>1. toClient' = toClient \o u /\ server' = server
      BY <2>1 DEF Speaks, u
    <3>2. Down' = (toClient \o u) \o server.buffer
      BY <3>1 DEF Down
    <3>3. toClient \o u \in Seq(Answers)
      BY <1>1, <1>2, ConcatProperties
    <3>4. Adds(toClient \o server.buffer, u, (toClient \o u) \o server.buffer)
      BY <1>1, <1>2, <2>1, SendingAdds
    <3> QED
      BY <1>1, <2>1, <3>1, <3>2, <3>3, <3>4 DEF Down
  <2>2. CASE ~server.open
    <3>1. toClient' = toClient /\ server' = [server EXCEPT !.buffer = server.buffer \o u]
      BY <2>2 DEF Speaks, u
    <3> DEFINE b == server.buffer \o u
    <3>2. b \in Seq(Answers)
      BY <1>1, <1>2, ConcatProperties
    <3> HIDE DEF b
    <3>3. server' = [server EXCEPT !.buffer = b]
      BY <3>1 DEF b
    <3>4. /\ server'.open = server.open /\ server'.buffer = b
          /\ server' \in [open : BOOLEAN, buffer : Seq(Answers)]
      BY <1>1, <3>2, <3>3
    <3>5. Down' = toClient \o (server.buffer \o u)
      BY <3>1, <3>4 DEF Down, b
    <3>6. Adds(toClient \o server.buffer, u, toClient \o (server.buffer \o u))
      BY <1>1, <1>2, SendingAdds
    <3> QED
      BY <1>1, <2>2, <3>1, <3>4, <3>5, <3>6 DEF Down
  <2> QED
    BY <2>1, <2>2
<1>4. /\ phase' = [phase EXCEPT ![r] = p] /\ spoken' = [spoken EXCEPT ![r] = spoken[r] + Len(kinds)]
      /\ says' = [Silence EXCEPT ![r] = kinds]
  BY DEF Speaks
<1>5. phase \in [Requests -> Phases] /\ DOMAIN spoken = Requests /\ spoken = [q \in Requests |-> spoken[q]]
  BY DEF TypeOK
<1>6. Silence \in [Requests -> Speeches]
  BY DEF Silence, Speeches
<1>7. /\ phase' \in [Requests -> Phases]
      /\ \A q \in Requests : phase'[q] = IF q = r THEN p ELSE phase[q]
  BY <1>4, <1>5
<1>8. says' \in [Requests -> Speeches] /\ says'[r] = kinds
  BY <1>4, <1>6
<1>9. /\ \A q \in Requests : spoken'[q] = IF q = r THEN spoken[r] + Len(kinds) ELSE spoken[q]
      /\ DOMAIN spoken' = Requests /\ spoken' = [q \in Requests |-> spoken'[q]]
  BY <1>4, <1>5
<1> QED
  BY <1>3, <1>7, <1>8, <1>9 DEF u

-----------------------------------------------------------------------------
(* Requests.                                                               *)

LEMMA OrderProperties ==
    \A s \in Seq(Orders) : \A i \in 1..Len(s) : s[i].of \in Requests
<1> SUFFICES ASSUME NEW s \in Seq(Orders), NEW i \in 1..Len(s) PROVE s[i].of \in Requests
  OBVIOUS
<1>1. s[i] \in Orders
  OBVIOUS
<1> QED
  BY <1>1 DEF Orders

LEMMA AnswerProperties ==
    \A s \in Seq(Answers) : \A i \in 1..Len(s) : s[i].of \in Requests /\ s[i].seq \in Nat \ {0}
<1> SUFFICES ASSUME NEW s \in Seq(Answers), NEW i \in 1..Len(s)
             PROVE  s[i].of \in Requests /\ s[i].seq \in Nat \ {0}
  OBVIOUS
<1>1. s[i] \in Answers
  OBVIOUS
<1> QED
  BY <1>1 DEF Answers

\* A step that sends the server nothing, or loses some of it, and begins no request.
LEMMA LossKeepsRequests ==
    ASSUME UInv, Up' \in Seq(Orders), Keeps(Up, Up'),
           \A r \in Requests : /\ call[r] # "new" => call'[r] # "new"
                               /\ call'[r] = "new" => call[r] = "new"
                               /\ phase[r] = "fresh" <=> phase'[r] = "fresh"
    PROVE  RequestsAreUnique' /\ RequestsAreNews'
<1>1. PICK f \in [1..Len(Up') -> 1..Len(Up)] :
          /\ \A i, j \in 1..Len(Up') : i < j => f[i] < f[j]
          /\ \A i \in 1..Len(Up') : Up'[i] = Up[f[i]]
  BY DEF Keeps
<1>2. Up \in Seq(Orders) /\ Len(Up') \in Nat /\ Len(Up) \in Nat
  BY Streams DEF UInv
<1>3. \A i \in 1..Len(Up') : f[i] \in 1..Len(Up) /\ Up'[i] = Up[f[i]] /\ Up'[i].of \in Requests
  BY <1>1, <1>2, OrderProperties
<1>4. \A i, j \in 1..Len(Up') : f[i] = f[j] => i = j
  <2> SUFFICES ASSUME NEW i \in 1..Len(Up'), NEW j \in 1..Len(Up'), f[i] = f[j], i # j
               PROVE  FALSE
    OBVIOUS
  <2>1. i < j \/ j < i
    BY <1>2
  <2>2. f[i] \in Nat /\ f[j] \in Nat
    BY <1>2, <1>3
  <2> QED
    BY <1>1, <2>1, <2>2
<1>5. RequestsAreUnique'
  BY <1>3, <1>4 DEF UInv, RequestsAreUnique
<1>6. RequestsAreNews'
  <2>1. ASSUME NEW i \in 1..Len(Up')
        PROVE  /\ call'[Up'[i].of] # "new"
               /\ Up'[i].kind = "request" => phase'[Up'[i].of] = "fresh"
    <3>1. /\ call[Up[f[i]].of] # "new"
          /\ Up[f[i]].kind = "request" => phase[Up[f[i]].of] = "fresh"
      BY <1>3 DEF UInv, RequestsAreNews
    <3>2. Up'[i] = Up[f[i]] /\ Up'[i].of \in Requests
      BY <1>3
    <3> QED
      BY <3>1, <3>2
  <2>2. \A r \in Requests : call'[r] = "new" => phase'[r] = "fresh"
    BY DEF UInv, RequestsAreNews
  <2> QED
    BY <2>1, <2>2 DEF RequestsAreNews
<1> QED
  BY <1>5, <1>6

\* A step that sends the server a message: the request of a call that begins, or its
\* cancellation.
LEMMA SendingKeepsRequests ==
    ASSUME UInv, NEW r \in Requests, NEW kind \in {"request", "done"},
           Adds(Up, <<Message(r, kind)>>, Up'), UNCHANGED phase, call'[r] # "new",
           \A p \in Requests \ {r} : call'[p] = call[p], kind = "request" => call[r] = "new"
    PROVE  RequestsAreUnique' /\ RequestsAreNews'
<1> DEFINE n == Len(Up)
           m == Message(r, kind)
<1>1. Up \in Seq(Orders) /\ n \in Nat /\ \A i \in 1..n : Up[i].of \in Requests
  BY Streams, OrderProperties DEF UInv
<1>2. m.of = r /\ m.kind = kind
  BY DEF Message
<1> HIDE DEF m
<1>3. Len(Up') = n + 1 /\ (\A i \in 1..n : Up'[i] = Up[i]) /\ Up'[n + 1] = m
  BY DEF Adds, m
<1> HIDE DEF n
<1>4. \A i \in 1..Len(Up') : i \in 1..n \/ i = n + 1
  BY <1>1, <1>3
<1>5. \A i \in 1..n : Up[i].of = r => kind # "request"
  BY DEF UInv, RequestsAreNews, n
<1>6. RequestsAreUnique'
  BY <1>2, <1>3, <1>4, <1>5 DEF UInv, RequestsAreUnique, n
<1>7. RequestsAreNews'
  <2>1. kind = "request" => phase[r] = "fresh"
    BY DEF UInv, RequestsAreNews
  <2>2. \A i \in 1..n : call'[Up[i].of] # "new" /\ (Up[i].kind = "request" => phase[Up[i].of] = "fresh")
    BY <1>1 DEF UInv, RequestsAreNews, n
  <2>3. \A p \in Requests : call'[p] = "new" => phase[p] = "fresh"
    BY DEF UInv, RequestsAreNews
  <2> QED
    BY <1>2, <1>3, <1>4, <2>1, <2>2, <2>3 DEF RequestsAreNews
<1> QED
  BY <1>6, <1>7

\* Of all requests, r alone is no longer new to the server.
Begins(r) == phase'[r] # "fresh" /\ \A q \in Requests \ {r} : phase'[q] = phase[q]

\* The server takes the next message; when that is a request, there is no other copy.
LEMMA TakingKeepsRequests ==
    ASSUME UInv, toServer # <<>>, toServer' = Tail(toServer), UNCHANGED <<call, client>>
    PROVE  /\ Up' \in Seq(Orders) /\ Keeps(Up, Up') /\ toServer' \in Seq(Orders)
           /\ Head(toServer) \in Orders /\ call[Head(toServer).of] # "new"
           /\ Head(toServer).kind = "request" =>
                /\ phase[Head(toServer).of] = "fresh"
                /\ Begins(Head(toServer).of) => RequestsAreUnique' /\ RequestsAreNews'
<1> DEFINE m == Head(toServer)
<1>1. /\ toServer \in Seq(Orders) /\ client.buffer \in Seq(Orders) /\ Up \in Seq(Orders)
      /\ Len(toServer) \in Nat /\ Len(client.buffer) \in Nat /\ toServer # <<>>
  BY Streams DEF UInv
<1>2. /\ m \in Orders /\ m = toServer[1] /\ Tail(toServer) \in Seq(Orders) /\ Len(toServer) >= 1
  BY <1>1, HeadTailProperties, EmptySeq
<1> HIDE DEF m
<1>3. Up[1] = m /\ 1 \in 1..Len(Up)
  BY <1>1, <1>2, ConcatProperties DEF Up
<1>4. Up' = Tail(toServer) \o client.buffer
  BY DEF Up
<1>5. Up' \in Seq(Orders) /\ Keeps(Up, Up')
  BY <1>1, <1>2, <1>4, ConcatProperties, LossesKeep DEF Up
<1>6. call[m.of] # "new" /\ (m.kind = "request" => phase[m.of] = "fresh")
  BY <1>3 DEF UInv, RequestsAreNews
<1>7. ASSUME m.kind = "request", phase'[m.of] # "fresh",
             \A r \in Requests \ {m.of} : phase'[r] = phase[r]
      PROVE  RequestsAreUnique' /\ RequestsAreNews'
  <2>1. /\ Len(Up') = Len(Up) - 1 /\ Len(Up) \in Nat
        /\ \A i \in 1..Len(Up') : i + 1 \in 1..Len(Up) /\ Up'[i] = Up[i + 1]
    BY <1>1, <1>4, TailOfStream DEF Up
  <2>2. \A i \in 1..Len(Up') : Up'[i].kind = "request" => Up'[i].of # m.of
    <3> SUFFICES ASSUME NEW i \in 1..Len(Up'), Up'[i].kind = "request", Up'[i].of = m.of
                 PROVE  FALSE
      OBVIOUS
    <3>1. i + 1 \in 1..Len(Up) /\ Up[i + 1].kind = "request" /\ Up[i + 1].of = m.of
      BY <2>1
    <3>2. i + 1 = 1
      BY <1>3, <1>7, <3>1 DEF UInv, RequestsAreUnique
    <3> QED
      BY <2>1, <3>2
  <2>3. \A i \in 1..Len(Up') : Up'[i].of \in Requests
    BY <1>5, OrderProperties
  <2>4. RequestsAreUnique'
    <3> SUFFICES ASSUME NEW i \in 1..Len(Up'), NEW j \in 1..Len(Up'), Up'[i].kind = "request",
                        Up'[j].kind = "request", Up'[i].of = Up'[j].of
                 PROVE  i = j
      BY DEF RequestsAreUnique
    <3>1. i + 1 = j + 1
      BY <2>1 DEF UInv, RequestsAreUnique
    <3> QED
      BY <2>1, <3>1
  <2>5. RequestsAreNews'
    <3>1. \A i \in 1..Len(Up') : call[Up'[i].of] # "new"
                                 /\ (Up'[i].kind = "request" => phase[Up'[i].of] = "fresh")
      BY <2>1 DEF UInv, RequestsAreNews
    <3>2. \A r \in Requests : call[r] = "new" => phase'[r] = "fresh"
      BY <1>6, <1>7 DEF UInv, RequestsAreNews
    <3> QED
      BY <1>7, <2>2, <2>3, <3>1, <3>2 DEF RequestsAreNews
  <2> QED
    BY <2>4, <2>5
<1> QED
  BY <1>1, <1>2, <1>5, <1>6, <1>7 DEF m, Begins

-----------------------------------------------------------------------------
(* The server.                                                             *)

LEMMA TurnProperties ==
    ASSUME NEW r \in Requests, NEW p \in Phases, NEW kinds \in Speeches,
           phase'[r] = p, says'[r] = kinds
    PROVE  /\ Server!Refused(r) \/ Server!Admitted(r) =>
                /\ phase[r] = "fresh" /\ p # "fresh"
                /\ p = "waiting" => Len(kinds) = 0
                /\ p = "running" => Len(kinds) = 1
           /\ Server!Waits(r) \/ Server!Runs(r) =>
                /\ phase[r] \in {"waiting", "running"} /\ p # "fresh"
                /\ p \in {"waiting", "running"} => Len(kinds) = 1
  BY DEF Server!Refused, Server!Admitted, Server!Waits, Server!Runs, Server!Goes

\* What a step in which the server speaks about r leaves in order.
LEMMA SpeakingKeepsNumbers ==
    ASSUME UInv, NEW r \in Requests, NEW p \in Phases, NEW kinds \in Speeches, Speaks(r, p, kinds),
           UNCHANGED <<call, heard, client, cut, cuts>>, toServer' \in Seq(Orders),
           p # "fresh", ~server.open => phase[r] # "fresh",
           spoken[r] + Len(kinds) <= MaxMessages[r] + 2,
           p = "waiting" => spoken[r] + Len(kinds) <= MaxMessages[r],
           p = "running" => spoken[r] + Len(kinds) <= MaxMessages[r] + 1
    PROVE  TypeOK' /\ NumbersFit' /\ SocketsFit'
<1>1. /\ toClient' \in Seq(Answers) /\ server' \in [open : BOOLEAN, buffer : Seq(Answers)]
      /\ server'.open = server.open /\ (server.open => server'.buffer = <<>>)
      /\ phase' \in [Requests -> Phases] /\ says' \in [Requests -> Speeches]
      /\ \A q \in Requests : phase'[q] = IF q = r THEN p ELSE phase[q]
      /\ \A q \in Requests : spoken'[q] = IF q = r THEN spoken[r] + Len(kinds) ELSE spoken[q]
      /\ DOMAIN spoken' = Requests /\ spoken' = [q \in Requests |-> spoken'[q]]
  BY SpeaksProperties DEF UInv
<1>2. /\ Len(kinds) \in Nat
      /\ \A q \in Requests : spoken[q] \in Nat /\ spoken[q] <= MaxMessages[q] + 2
  BY SpeechProperties DEF UInv, TypeOK
<1>3. \A q \in Requests : spoken'[q] \in Nat /\ spoken'[q] <= MaxMessages[q] + 2
  BY <1>1, <1>2
<1>4. spoken' \in [Requests -> Nat] /\ \A q \in Requests : spoken'[q] <= MaxMessages[q] + 2
  BY <1>1, <1>3
<1>5. TypeOK'
  BY <1>1, <1>4 DEF UInv, TypeOK
<1>6. NumbersFit'
  BY <1>1 DEF UInv, NumbersFit
<1>7. SocketsFit'
  BY <1>1 DEF UInv, SocketsFit
<1> QED
  BY <1>5, <1>6, <1>7

\* What a step of the server does: of its own, on a request, on a cancellation.
LEMMA WorkProperties ==
    ASSUME UInv, NEW r \in Requests, ServerWorks(r)
    PROVE  /\ TypeOK' /\ NumbersFit' /\ SocketsFit' /\ UNCHANGED <<call, heard, client, toServer, cut, cuts>>
           /\ phase[r] # "fresh"
           /\ \E p \in Phases, kinds \in Speeches : p # "fresh" /\ Speaks(r, p, kinds)
<1>1. PICK p \in Phases, kinds \in Speeches : Speaks(r, p, kinds) /\ (Server!Waits(r) \/ Server!Runs(r))
  BY DEF ServerWorks
<1>2. phase'[r] = p /\ says'[r] = kinds
  BY <1>1, SpeaksProperties DEF UInv
<1>3. /\ phase[r] \in {"waiting", "running"} /\ p # "fresh"
      /\ p \in {"waiting", "running"} => Len(kinds) = 1
  BY <1>1, <1>2, TurnProperties
<1>4. /\ spoken[r] \in Nat /\ spoken[r] < MaxMessages[r] /\ MaxMessages[r] \in Nat /\ Len(kinds) \in 0..2
      /\ UNCHANGED <<call, heard, client, toServer, cut, cuts>> /\ toServer' \in Seq(Orders)
  BY BoundsAssumption, SpeechProperties, Streams DEF ServerWorks, UInv, TypeOK
<1>5. /\ spoken[r] + Len(kinds) <= MaxMessages[r] + 2
      /\ p = "waiting" => spoken[r] + Len(kinds) <= MaxMessages[r]
      /\ p = "running" => spoken[r] + Len(kinds) <= MaxMessages[r] + 1
  <2> DEFINE n == Len(kinds)  k == spoken[r]
  <2>1. /\ n \in 0..2 /\ k \in Nat /\ MaxMessages[r] \in Nat /\ (k = 0 \/ k < MaxMessages[r])
        /\ p = "waiting" => n = 0 \/ (n = 1 /\ k < MaxMessages[r])
        /\ p = "running" => n = 1
    BY <1>3, <1>4
  <2> HIDE DEF n, k
  <2>2. k + n <= MaxMessages[r] + 2
    BY <2>1
  <2>3. p = "waiting" => k + n <= MaxMessages[r]
    BY <2>1
  <2>4. p = "running" => k + n <= MaxMessages[r] + 1
    BY <2>1
  <2> QED
    BY <2>2, <2>3, <2>4 DEF n, k
<1>6. TypeOK' /\ NumbersFit' /\ SocketsFit'
  BY <1>1, <1>3, <1>4, <1>5, SpeakingKeepsNumbers
<1> QED
  BY <1>1, <1>3, <1>4, <1>6

LEMMA RequestProperties ==
    ASSUME UInv, NEW r \in Requests, ReceiveRequest(r), server.open,
           toServer' \in Seq(Orders), UNCHANGED <<call, heard, client, cut, cuts>>
    PROVE  /\ TypeOK' /\ NumbersFit' /\ SocketsFit'
           /\ phase[r] = "fresh"
           /\ \E p \in Phases, kinds \in Speeches : p # "fresh" /\ Speaks(r, p, kinds)
<1>1. PICK p \in Phases, kinds \in Speeches :
          Speaks(r, p, kinds) /\ (Server!Refused(r) \/ Server!Admitted(r))
  BY DEF ReceiveRequest
<1>2. phase'[r] = p /\ says'[r] = kinds
  BY <1>1, SpeaksProperties DEF UInv
<1>3. /\ phase[r] = "fresh" /\ p # "fresh"
      /\ p = "waiting" => Len(kinds) = 0
      /\ p = "running" => Len(kinds) = 1
  BY <1>1, <1>2, TurnProperties
<1>4. spoken[r] = 0 /\ MaxMessages[r] \in Nat /\ Len(kinds) \in 0..2
  BY <1>3, BoundsAssumption, SpeechProperties DEF UInv, NumbersFit
<1>5. /\ spoken[r] + Len(kinds) <= MaxMessages[r] + 2
      /\ p = "waiting" => spoken[r] + Len(kinds) <= MaxMessages[r]
      /\ p = "running" => spoken[r] + Len(kinds) <= MaxMessages[r] + 1
  <2> DEFINE n == Len(kinds)  k == spoken[r]
  <2>1. /\ n \in 0..2 /\ k \in Nat /\ MaxMessages[r] \in Nat /\ (k = 0 \/ k < MaxMessages[r])
        /\ p = "waiting" => n = 0 \/ (n = 1 /\ k < MaxMessages[r])
        /\ p = "running" => n = 1
    BY <1>3, <1>4
  <2> HIDE DEF n, k
  <2>2. k + n <= MaxMessages[r] + 2
    BY <2>1
  <2>3. p = "waiting" => k + n <= MaxMessages[r]
    BY <2>1
  <2>4. p = "running" => k + n <= MaxMessages[r] + 1
    BY <2>1
  <2> QED
    BY <2>2, <2>3, <2>4 DEF n, k
<1>6. TypeOK' /\ NumbersFit' /\ SocketsFit'
  BY <1>1, <1>3, <1>5, SpeakingKeepsNumbers
<1> QED
  BY <1>1, <1>3, <1>6

LEMMA DoneProperties ==
    ASSUME UInv, NEW r \in Requests, ReceiveDone(r), server.open,
           toServer' \in Seq(Orders), UNCHANGED <<call, heard, client, cut, cuts>>
    PROVE  /\ TypeOK' /\ NumbersFit' /\ SocketsFit'
           /\ \/ phase[r] # "fresh" /\ \E p \in Phases, kinds \in Speeches : p # "fresh" /\ Speaks(r, p, kinds)
              \/ UNCHANGED <<phase, spoken, server, toClient>>
<1>1. <<>> \in Speeches /\ <<"done">> \in Speeches /\ Len(<<>>) = 0 /\ Len(<<"done">>) = 1
  BY DEF Speeches
<1>2. MaxMessages[r] \in Nat /\ spoken[r] \in Nat
  BY BoundsAssumption DEF UInv, TypeOK
<1>3. CASE phase[r] = "waiting"
  <2>1. Speaks(r, "cancelled", <<>>) /\ "cancelled" \in Phases /\ spoken[r] <= MaxMessages[r]
    BY <1>3 DEF ReceiveDone, Phases, UInv, NumbersFit
  <2>2. TypeOK' /\ NumbersFit' /\ SocketsFit'
    BY <1>1, <1>2, <1>3, <2>1, SpeakingKeepsNumbers
  <2> QED
    BY <1>1, <1>3, <2>1, <2>2
<1>4. CASE phase[r] = "running"
  <2>1. Speaks(r, "closed", <<"done">>) /\ "closed" \in Phases /\ spoken[r] <= MaxMessages[r] + 1
    BY <1>4 DEF ReceiveDone, Phases, UInv, NumbersFit
  <2>2. spoken[r] + Len(<<"done">>) <= MaxMessages[r] + 2
    BY <1>1, <1>2, <2>1
  <2>3. TypeOK' /\ NumbersFit' /\ SocketsFit'
    BY <1>1, <1>4, <2>1, <2>2, SpeakingKeepsNumbers
  <2> QED
    BY <1>1, <1>4, <2>1, <2>3
<1>5. CASE phase[r] \notin {"waiting", "running"}
  <2>1. says' = Silence /\ UNCHANGED <<phase, spoken, server, toClient>>
    BY <1>5 DEF ReceiveDone
  <2>2. says' \in [Requests -> Speeches]
    BY <2>1 DEF Silence, Speeches
  <2> QED
    BY <2>1, <2>2 DEF UInv, TypeOK, NumbersFit, SocketsFit
<1> QED
  BY <1>3, <1>4, <1>5

THEOREM UpInvariant == Spec => []UInv
<1>1. Init => UInv
  <2> SUFFICES ASSUME Init PROVE UInv
    OBVIOUS
  <2>1. /\ toServer = <<>> /\ toClient = <<>> /\ client = Connected /\ server = Connected
        /\ client.open = TRUE /\ client.buffer = <<>> /\ server.open = TRUE /\ server.buffer = <<>>
    BY DEF Init, Connected
  <2>2. Up = <<>>
    BY <2>1 DEF Up
  <2>3. /\ call = [r \in Requests |-> "new"] /\ heard = [r \in Requests |-> <<>>]
        /\ phase = [r \in Requests |-> "fresh"] /\ says = [r \in Requests |-> <<>>]
        /\ spoken = [r \in Requests |-> 0]
        /\ cut = [place \in Places |-> {}] /\ cuts = 0
    BY DEF Init, Server!Init
  <2>4. TypeOK
    BY <2>1, <2>3, BoundsAssumption DEF TypeOK, Connected, Phases, Speeches
  <2>5. RequestsAreUnique /\ RequestsAreNews
    BY <2>2, <2>3 DEF RequestsAreUnique, RequestsAreNews
  <2>6. NumbersFit /\ SocketsFit
    BY <2>1, <2>3 DEF NumbersFit, SocketsFit
  <2> QED
    BY <2>4, <2>5, <2>6 DEF UInv
<1>2. ASSUME UInv, [Next]_vars PROVE UInv'
  <2> USE <1>2
  <2>1. /\ TypeOK /\ SocketsFit
        /\ toServer \in Seq(Orders) /\ client.buffer \in Seq(Orders) /\ Up \in Seq(Orders)
        /\ toClient \in Seq(Answers) /\ server.buffer \in Seq(Answers)
        /\ client \in [open : BOOLEAN, buffer : Seq(Orders)]
        /\ server \in [open : BOOLEAN, buffer : Seq(Answers)]
    BY Streams DEF UInv, TypeOK
  <2>2. Silence \in [Requests -> Speeches]
    BY DEF Silence, Speeches
  <2>3. ASSUME NEW r \in Requests, NEW then \in {"open", "ended"}, Subscribe(r, then) PROVE UInv'
    <3>1. /\ call[r] = "new" /\ call' = [call EXCEPT ![r] = IF client.open THEN then ELSE "failed"]
          /\ Send(<<Message(r, "request")>>)
          /\ cut' = IF client.open THEN cut ELSE [cut EXCEPT !["client"] = @ \cup {r}]
          /\ says' = Silence /\ UNCHANGED <<heard, phase, spoken, server, toClient, cuts>>
      BY <2>3 DEF Subscribe
    <3>2. Message(r, "request") \in Orders
      BY DEF Message, Orders
    <3>3. /\ Adds(Up, <<Message(r, "request")>>, Up') /\ toServer' \in Seq(Orders)
          /\ client' \in [open : BOOLEAN, buffer : Seq(Orders)]
          /\ client'.open = client.open /\ (client.open => client'.buffer = <<>>)
      BY <2>1, <3>1, <3>2, SendProperties
    <3>4. /\ call' \in [Requests -> {"new", "open", "ended", "failed", "cancelled"}]
          /\ call'[r] = (IF client.open THEN then ELSE "failed")
          /\ \A p \in Requests \ {r} : call'[p] = call[p]
      BY <2>1, <3>1 DEF TypeOK
    <3>5. cut' \in [Places -> SUBSET Requests] /\ cut'["server"] = cut["server"]
      BY <2>1, <3>1 DEF TypeOK, Places
    <3>6. TypeOK'
      BY <2>1, <2>2, <3>1, <3>3, <3>4, <3>5 DEF TypeOK
    <3>7. RequestsAreUnique' /\ RequestsAreNews'
      BY <3>1, <3>3, <3>4, SendingKeepsRequests
    <3>8. SocketsFit'
      BY <2>1, <3>1, <3>3, <3>4, <3>5 DEF SocketsFit
    <3> QED
      BY <3>1, <3>6, <3>7, <3>8 DEF UInv, NumbersFit
  <2>4. ASSUME NEW r \in Requests, Unsubscribe(r) PROVE UInv'
    <3>1. /\ call[r] = "open" /\ call' = [call EXCEPT ![r] = "cancelled"]
          /\ Send(<<Message(r, "done")>>)
          /\ says' = Silence /\ UNCHANGED <<heard, phase, spoken, server, toClient, cut, cuts>>
      BY <2>4 DEF Unsubscribe
    <3>2. Message(r, "done") \in Orders
      BY DEF Message, Orders
    <3>3. /\ Adds(Up, <<Message(r, "done")>>, Up') /\ toServer' \in Seq(Orders)
          /\ client' \in [open : BOOLEAN, buffer : Seq(Orders)]
          /\ client'.open = client.open /\ (client.open => client'.buffer = <<>>)
      BY <2>1, <3>1, <3>2, SendProperties
    <3>4. /\ call' \in [Requests -> {"new", "open", "ended", "failed", "cancelled"}]
          /\ call'[r] = "cancelled" /\ \A p \in Requests \ {r} : call'[p] = call[p]
      BY <2>1, <3>1 DEF TypeOK
    <3>5. TypeOK'
      BY <2>1, <2>2, <3>1, <3>3, <3>4 DEF TypeOK
    <3>6. RequestsAreUnique' /\ RequestsAreNews'
      BY <3>1, <3>3, <3>4, SendingKeepsRequests
    <3>7. SocketsFit'
      BY <2>1, <3>1, <3>3, <3>4 DEF SocketsFit
    <3> QED
      BY <3>1, <3>5, <3>6, <3>7 DEF UInv, NumbersFit
  <2>5. ASSUME NEW r \in Requests, TimeOut(r) PROVE UInv'
    <3>1. /\ call[r] = "open" /\ call' = [call EXCEPT ![r] = "failed"] /\ says' = Silence
          /\ UNCHANGED <<heard, phase, spoken, client, server, toServer, toClient, cut, cuts>>
      BY <2>5 DEF TimeOut, sides, wires
    <3>2. /\ call' \in [Requests -> {"new", "open", "ended", "failed", "cancelled"}]
          /\ \A p \in Requests : call'[p] = IF p = r THEN "failed" ELSE call[p]
      BY <2>1, <3>1 DEF TypeOK
    <3>3. TypeOK'
      BY <2>1, <2>2, <3>1, <3>2 DEF TypeOK
    <3>4. Up' = Up
      BY <3>1 DEF Up
    <3>5. RequestsAreUnique' /\ RequestsAreNews'
      BY <2>1, <3>1, <3>2, <3>4, KeepsAll, LossKeepsRequests
    <3> QED
      BY <3>1, <3>2, <3>3, <3>5 DEF UInv, NumbersFit, SocketsFit
  <2>6. ASSUME NEW r \in Requests, ServerWorks(r) PROVE UInv'
    <3>1. PICK p \in Phases, kinds \in Speeches : p # "fresh" /\ Speaks(r, p, kinds)
      BY <2>6, WorkProperties
    <3>2. /\ TypeOK' /\ NumbersFit' /\ SocketsFit' /\ phase[r] # "fresh"
          /\ UNCHANGED <<call, heard, client, toServer, cut, cuts>>
      BY <2>6, WorkProperties
    <3>3. \A q \in Requests : phase'[q] = IF q = r THEN p ELSE phase[q]
      BY <2>1, <3>1, SpeaksProperties
    <3>4. Up' = Up
      BY <3>2 DEF Up
    <3>5. RequestsAreUnique' /\ RequestsAreNews'
      BY <2>1, <3>1, <3>2, <3>3, <3>4, KeepsAll, LossKeepsRequests
    <3> QED
      BY <3>2, <3>5 DEF UInv
  <2>7. CASE ClientReceives
    <3> DEFINE m == Head(toClient)
               h == Append(heard[m.of], m.seq)
    <3>1. /\ toClient # <<>> /\ toClient' = Tail(toClient)
          /\ Hear(m) \/ HearEnough(m)
          /\ says' = Silence /\ UNCHANGED <<phase, spoken, server, cut, cuts>>
      BY <2>7 DEF ClientReceives
    <3>2. m \in Answers /\ toClient' \in Seq(Answers)
      BY <2>1, <3>1, HeadTailProperties
    <3>3. heard[m.of] \in Seq(Nat \ {0}) /\ h \in Seq(Nat \ {0})
      <4>1. m.of \in Requests /\ m.seq \in Nat \ {0}
        BY <3>2 DEF Answers
      <4>2. heard[m.of] \in Seq(Nat \ {0})
        BY <2>1, <4>1 DEF TypeOK
      <4> QED
        BY <4>1, <4>2, AppendProperties
    <3>4. /\ Hear(m) => /\ \/ heard' = heard /\ call' = call
                           \/ /\ call[m.of] = "open" /\ heard' = [heard EXCEPT ![m.of] = h]
                              /\ \E v \in {"open", "ended"} : call' = [call EXCEPT ![m.of] = v]
                        /\ UNCHANGED <<client, toServer>>
          /\ HearEnough(m) => /\ call[m.of] = "open" /\ heard' = [heard EXCEPT ![m.of] = h]
                              /\ call' = [call EXCEPT ![m.of] = "cancelled"]
                              /\ Send(<<Message(m.of, "done")>>)
      <4>1. CASE Hear(m) /\ call[m.of] = "open"
        <5> DEFINE v == IF m.last THEN "ended" ELSE "open"
        <5>1. call' = [call EXCEPT ![m.of] = v] /\ v \in {"open", "ended"}
          BY <4>1 DEF Hear
        <5> HIDE DEF v
        <5> QED
          BY <4>1, <5>1 DEF Hear, HearEnough
      <4> QED
        BY <4>1 DEF Hear, HearEnough
    <3>5. m.of \in Requests
      BY <3>2 DEF Answers
    <3> HIDE DEF m, h
    <3>6. heard' \in [Requests -> Seq(Nat \ {0})]
      BY <2>1, <3>1, <3>3, <3>4, <3>5 DEF TypeOK
    <3>7. CASE Hear(m)
      <4>1. /\ call' \in [Requests -> {"new", "open", "ended", "failed", "cancelled"}]
            /\ \A p \in Requests : call'[p] = call[p] \/ (call[p] = "open" /\ call'[p] = "ended")
        <5>1. CASE call' = call
          BY <2>1, <5>1 DEF TypeOK
        <5>2. ASSUME NEW v \in {"open", "ended"}, call[m.of] = "open",
                     call' = [call EXCEPT ![m.of] = v]
              PROVE  /\ call' \in [Requests -> {"new", "open", "ended", "failed", "cancelled"}]
                     /\ \A p \in Requests :
                            call'[p] = call[p] \/ (call[p] = "open" /\ call'[p] = "ended")
          BY <2>1, <3>5, <5>2 DEF TypeOK
        <5> QED
          BY <3>4, <3>7, <5>1, <5>2
      <4>2. UNCHANGED <<client, toServer>>
        BY <3>4, <3>7
      <4>3. TypeOK'
        BY <2>1, <2>2, <3>1, <3>2, <3>6, <4>1, <4>2 DEF TypeOK
      <4>4. Up' = Up
        BY <4>2 DEF Up
      <4>5. RequestsAreUnique' /\ RequestsAreNews'
        BY <2>1, <3>1, <4>1, <4>4, KeepsAll, LossKeepsRequests
      <4> QED
        BY <3>1, <4>1, <4>2, <4>3, <4>5 DEF UInv, NumbersFit, SocketsFit
    <3>8. CASE HearEnough(m)
      <4>1. /\ call[m.of] = "open" /\ call' = [call EXCEPT ![m.of] = "cancelled"]
            /\ Send(<<Message(m.of, "done")>>)
        BY <3>4, <3>8
      <4>2. Message(m.of, "done") \in Orders
        BY <3>5 DEF Message, Orders
      <4>3. /\ Adds(Up, <<Message(m.of, "done")>>, Up') /\ toServer' \in Seq(Orders)
            /\ client' \in [open : BOOLEAN, buffer : Seq(Orders)]
            /\ client'.open = client.open /\ (client.open => client'.buffer = <<>>)
        BY <2>1, <4>1, <4>2, SendProperties
      <4>4. /\ call' \in [Requests -> {"new", "open", "ended", "failed", "cancelled"}]
            /\ call'[m.of] = "cancelled" /\ \A p \in Requests \ {m.of} : call'[p] = call[p]
        BY <2>1, <3>5, <4>1 DEF TypeOK
      <4>5. TypeOK'
        BY <2>1, <2>2, <3>1, <3>2, <3>6, <4>3, <4>4 DEF TypeOK
      <4>6. RequestsAreUnique' /\ RequestsAreNews'
        BY <3>1, <3>5, <4>1, <4>3, <4>4, SendingKeepsRequests
      <4>7. SocketsFit'
        BY <2>1, <3>1, <4>3, <4>4 DEF SocketsFit
      <4> QED
        BY <3>1, <4>5, <4>6, <4>7 DEF UInv, NumbersFit
    <3> QED
      BY <3>1, <3>7, <3>8
  <2>8. CASE ServerReceives
    <3> DEFINE m == Head(toServer)
    <3>1. /\ server.open /\ toServer # <<>> /\ toServer' = Tail(toServer)
          /\ IF m.kind = "request" THEN ReceiveRequest(m.of) ELSE ReceiveDone(m.of)
          /\ UNCHANGED <<call, heard, client, cut, cuts>>
      BY <2>8 DEF ServerReceives
    <3>2. /\ Up' \in Seq(Orders) /\ Keeps(Up, Up') /\ toServer' \in Seq(Orders) /\ m \in Orders
          /\ m.kind = "request" /\ Begins(m.of) => RequestsAreUnique' /\ RequestsAreNews'
      BY <3>1, TakingKeepsRequests
    <3> HIDE DEF m
    <3>3. m.of \in Requests
      BY <3>2 DEF Orders
    <3>4. CASE m.kind = "request"
      <4>1. PICK p \in Phases, kinds \in Speeches : p # "fresh" /\ Speaks(m.of, p, kinds)
        BY <3>1, <3>2, <3>3, <3>4, RequestProperties
      <4>2. TypeOK' /\ NumbersFit' /\ SocketsFit'
        BY <3>1, <3>2, <3>3, <3>4, RequestProperties
      <4>3. \A q \in Requests : phase'[q] = IF q = m.of THEN p ELSE phase[q]
        BY <2>1, <3>3, <4>1, SpeaksProperties
      <4>4. Begins(m.of)
        BY <3>3, <4>1, <4>3 DEF Begins
      <4> QED
        BY <3>2, <3>4, <4>2, <4>4 DEF UInv
    <3>5. CASE m.kind # "request"
      <4>1. TypeOK' /\ NumbersFit' /\ SocketsFit'
        BY <3>1, <3>2, <3>3, <3>5, DoneProperties
      <4>2. \A q \in Requests : phase[q] = "fresh" <=> phase'[q] = "fresh"
        <5>1. CASE UNCHANGED phase
          BY <5>1
        <5>2. ASSUME phase[m.of] # "fresh", NEW p \in Phases, NEW kinds \in Speeches,
                     p # "fresh", Speaks(m.of, p, kinds)
              PROVE  \A q \in Requests : phase[q] = "fresh" <=> phase'[q] = "fresh"
          <6>1. \A q \in Requests : phase'[q] = IF q = m.of THEN p ELSE phase[q]
            BY <2>1, <3>3, <5>2, SpeaksProperties
          <6> QED
            BY <5>2, <6>1
        <5> QED
          BY <3>1, <3>2, <3>3, <3>5, <5>1, <5>2, DoneProperties
      <4>3. RequestsAreUnique' /\ RequestsAreNews'
        BY <3>1, <3>2, <4>2, LossKeepsRequests
      <4> QED
        BY <4>1, <4>3 DEF UInv
    <3> QED
      BY <3>4, <3>5
  <2>9. CASE ClientCloses
    <3>1. PICK n \in 0..Len(toServer), k \in 0..Len(toClient) :
              toServer' = First(toServer, n) /\ toClient' = Rest(toClient, k)
      BY <2>9 DEF ClientCloses
    <3>2. /\ client' = [client EXCEPT !.open = FALSE] /\ call' = FailOpen
          /\ cuts < MaxCuts /\ cuts' = cuts + 1 /\ cut' = [cut EXCEPT !["client"] = @ \cup UnderWay]
          /\ says' = Silence /\ UNCHANGED <<heard, phase, spoken, server>>
      BY <2>9 DEF ClientCloses, Cut
    <3>3. toServer' \in Seq(Orders) /\ toClient' \in Seq(Answers)
      BY <2>1, <3>1, PartProperties
    <3>4. /\ call' \in [Requests -> {"new", "open", "ended", "failed", "cancelled"}]
          /\ \A r \in Requests : call'[r] = IF call[r] = "open" THEN "failed" ELSE call[r]
      BY <2>1, <3>2 DEF FailOpen, TypeOK
    <3>5. /\ cut' \in [Places -> SUBSET Requests] /\ cut'["server"] = cut["server"]
          /\ cuts' \in 0..MaxCuts
      BY <2>1, <3>2, BoundsAssumption DEF TypeOK, UnderWay, Places
    <3>6. /\ client' \in [open : BOOLEAN, buffer : Seq(Orders)]
          /\ client'.open = FALSE /\ client'.buffer = client.buffer
      BY <2>1, <3>2
    <3>7. TypeOK'
      BY <2>1, <2>2, <3>2, <3>3, <3>4, <3>5, <3>6 DEF TypeOK
    <3>8. Up' \in Seq(Orders) /\ Keeps(Up, Up')
      BY <2>1, <3>1, <3>3, <3>6, ConcatProperties, LossesKeep DEF Up
    <3>9. RequestsAreUnique' /\ RequestsAreNews'
      BY <3>2, <3>4, <3>8, LossKeepsRequests
    <3> QED
      BY <2>1, <3>2, <3>4, <3>5, <3>6, <3>7, <3>9 DEF UInv, NumbersFit, SocketsFit
  <2>10. CASE ServerCloses
    <3>1. PICK n \in 0..Len(toServer), k \in 0..Len(toClient) :
              toServer' = Rest(toServer, n) /\ toClient' = First(toClient, k)
      BY <2>10 DEF ServerCloses
    <3>2. /\ server' = [server EXCEPT !.open = FALSE]
          /\ cuts < MaxCuts /\ cuts' = cuts + 1 /\ cut' = [cut EXCEPT !["server"] = @ \cup UnderWay]
          /\ says' = Silence /\ UNCHANGED <<call, heard, phase, spoken, client>>
      BY <2>10 DEF ServerCloses, Cut
    <3>3. toServer' \in Seq(Orders) /\ toClient' \in Seq(Answers)
      BY <2>1, <3>1, PartProperties
    <3>4. /\ cut' \in [Places -> SUBSET Requests]
          /\ \A r \in Requests : call[r] # "new" => r \in cut'["server"]
          /\ cuts' \in 0..MaxCuts
      BY <2>1, <3>2, BoundsAssumption DEF TypeOK, UnderWay, Places
    <3>5. /\ server' \in [open : BOOLEAN, buffer : Seq(Answers)]
          /\ server'.open = FALSE /\ server'.buffer = server.buffer
      BY <2>1, <3>2
    <3>6. TypeOK'
      BY <2>1, <2>2, <3>2, <3>3, <3>4, <3>5 DEF TypeOK
    <3>7. Up' \in Seq(Orders) /\ Keeps(Up, Up')
      BY <2>1, <3>1, <3>2, <3>3, ConcatProperties, LossesKeep DEF Up
    <3>8. RequestsAreUnique' /\ RequestsAreNews'
      BY <3>2, <3>7, LossKeepsRequests
    <3>9. SocketsFit'
      BY <2>1, <3>2, <3>4, <3>5 DEF UInv, RequestsAreNews, SocketsFit
    <3> QED
      BY <3>2, <3>6, <3>8, <3>9 DEF UInv, NumbersFit
  <2>11. CASE ClientOpens
    <3>1. PICK n \in 0..Len(client.buffer) : toServer' = toServer \o Rest(client.buffer, n)
      BY <2>11 DEF ClientOpens
    <3>2. /\ client' = [open |-> TRUE, buffer |-> <<>>] /\ says' = Silence
          /\ UNCHANGED <<call, heard, phase, spoken, server, toClient, cut, cuts>>
      BY <2>11 DEF ClientOpens, Reopened
    <3>3. toServer' \in Seq(Orders)
      BY <2>1, <3>1, PartProperties, ConcatProperties
    <3>4. TypeOK'
      BY <2>1, <2>2, <3>2, <3>3 DEF TypeOK
    <3>5. Up' = (toServer \o Rest(client.buffer, n)) \o <<>>
      BY <3>1, <3>2 DEF Up
    <3>6. Up' \in Seq(Orders) /\ Keeps(Up, Up')
      BY <2>1, <3>1, <3>3, <3>5, ConcatEmptySeq, LossesKeep DEF Up
    <3>7. RequestsAreUnique' /\ RequestsAreNews'
      BY <3>2, <3>6, LossKeepsRequests
    <3>8. SocketsFit'
      BY <2>1, <3>2 DEF SocketsFit
    <3> QED
      BY <3>2, <3>4, <3>7, <3>8 DEF UInv, NumbersFit
  <2>12. CASE ServerOpens
    <3>1. PICK n \in 0..Len(server.buffer) : toClient' = toClient \o Rest(server.buffer, n)
      BY <2>12 DEF ServerOpens
    <3>2. /\ server' = [open |-> TRUE, buffer |-> <<>>] /\ says' = Silence
          /\ UNCHANGED <<call, heard, phase, spoken, client, toServer, cut, cuts>>
      BY <2>12 DEF ServerOpens, Reopened
    <3>3. toClient' \in Seq(Answers)
      BY <2>1, <3>1, PartProperties, ConcatProperties
    <3>4. TypeOK'
      BY <2>1, <2>2, <3>2, <3>3 DEF TypeOK
    <3>5. Up' = Up
      BY <3>2 DEF Up
    <3>6. RequestsAreUnique' /\ RequestsAreNews'
      BY <2>1, <3>2, <3>5, KeepsAll, LossKeepsRequests
    <3>7. SocketsFit'
      BY <2>1, <3>2 DEF SocketsFit
    <3> QED
      BY <3>2, <3>4, <3>6, <3>7 DEF UInv, NumbersFit
  <2>13. CASE HostDrops
    <3>1. /\ says' = Silence /\ UNCHANGED <<call, heard, phase, spoken, client, server, cuts>>
          /\ \/ toClient # <<>> /\ toClient' = Tail(toClient) /\ toServer' = toServer
             \/ toServer # <<>> /\ toServer' = Tail(toServer) /\ toClient' = toClient
          /\ \/ toClient # <<>> /\ cut' = [cut EXCEPT !["host"] = @ \cup {Head(toClient).of}]
             \/ toServer # <<>> /\ cut' = [cut EXCEPT !["host"] = @ \cup {Head(toServer).of}]
      BY <2>13 DEF HostDrops, sides
    <3>2. /\ toServer # <<>> => Tail(toServer) \in Seq(Orders) /\ Head(toServer) \in Orders
          /\ toClient # <<>> => Tail(toClient) \in Seq(Answers) /\ Head(toClient) \in Answers
      BY <2>1, HeadTailProperties
    <3>6. cut' \in [Places -> SUBSET Requests] /\ cut'["server"] = cut["server"]
      <4>1. PICK r \in Requests : cut' = [cut EXCEPT !["host"] = @ \cup {r}]
        BY <3>1, <3>2 DEF Orders, Answers
      <4> QED
        BY <2>1, <4>1 DEF TypeOK, Places
    <3>3. TypeOK'
      BY <2>1, <2>2, <3>1, <3>2, <3>6 DEF TypeOK
    <3>4. Up' \in Seq(Orders) /\ Keeps(Up, Up')
      <4>1. CASE toServer' = toServer
        BY <2>1, <3>1, <4>1, KeepsAll DEF Up
      <4>2. CASE toServer # <<>> /\ toServer' = Tail(toServer)
        <5>1. Up' = Tail(toServer) \o client.buffer
          BY <3>1, <4>2 DEF Up
        <5> QED
          BY <2>1, <3>2, <4>2, <5>1, ConcatProperties, LossesKeep DEF Up
      <4> QED
        BY <3>1, <4>1, <4>2
    <3>5. RequestsAreUnique' /\ RequestsAreNews'
      BY <3>1, <3>4, LossKeepsRequests
    <3> QED
      BY <3>1, <3>3, <3>5, <3>6 DEF UInv, NumbersFit, SocketsFit
  <2>14. ASSUME NEW r \in Requests, NEW again \in Requests,
                RequestByMessage(r) \/ Resubscribe(r, again)
         PROVE  UInv'
    BY <2>3, <2>14 DEF RequestByMessage, Resubscribe
  <2>15. CASE UNCHANGED vars
    <3>1. /\ UNCHANGED <<call, heard, phase, says, spoken, client, server, toServer, toClient, cut, cuts>>
          /\ Up' = Up
      BY <2>15 DEF vars, sides, wires, Up
    <3> QED
      BY <3>1 DEF UInv, TypeOK, RequestsAreUnique, RequestsAreNews, NumbersFit, SocketsFit
  <2> QED
    BY <2>4, <2>5, <2>6, <2>7, <2>8, <2>9, <2>10, <2>11, <2>12, <2>13, <2>14, <2>15 DEF Next
<1> QED
  BY <1>1, <1>2, PTL DEF Spec

\* Types: every variable keeps to its set; the server numbers what it says about a
\* request at most two beyond the bound.
THEOREM TypeCorrect == Spec => []TypeOK
  BY UpInvariant, PTL DEF UInv

\* What a subscription sends is handed to the server at most once, however often the
\* client's socket closes and its buffer is sent again (create-connection.ts:62).
THEOREM RequestsAreSentOnce == Spec => []SentOnce
<1>1. UInv => SentOnce
  <2> SUFFICES ASSUME UInv, NEW r \in Requests, NEW x \in Copies(r)
               PROVE  phase[r] = "fresh" /\ \A y \in Copies(r) : x = y
    BY DEF SentOnce
  <2> DEFINE Place(c) == IF c[1] = "wire" THEN c[2] ELSE Len(toServer) + c[2]
  <2>1. /\ toServer \in Seq(Orders) /\ client.buffer \in Seq(Orders)
        /\ Len(toServer) \in Nat /\ Len(client.buffer) \in Nat
        /\ Len(Up) = Len(toServer) + Len(client.buffer)
        /\ \A i \in 1..Len(Up) :
              Up[i] = IF i <= Len(toServer) THEN toServer[i] ELSE client.buffer[i - Len(toServer)]
    BY Streams, ConcatProperties DEF UInv, Up
  <2>2. \A c \in Copies(r) :
            \/ \E i \in 1..Len(toServer) : /\ c = <<"wire", i>> /\ toServer[i].of = r
                                           /\ toServer[i].kind = "request"
            \/ \E i \in 1..Len(client.buffer) : /\ c = <<"buffer", i>> /\ client.buffer[i].of = r
                                                /\ client.buffer[i].kind = "request"
    BY <2>1 DEF Copies
  <2>3. ASSUME NEW c \in Copies(r)
        PROVE  Place(c) \in 1..Len(Up) /\ Up[Place(c)].of = r /\ Up[Place(c)].kind = "request"
    <3>1. ASSUME NEW i \in 1..Len(toServer), c = <<"wire", i>>, toServer[i].of = r,
                 toServer[i].kind = "request"
          PROVE  Place(c) \in 1..Len(Up) /\ Up[Place(c)].of = r /\ Up[Place(c)].kind = "request"
      <4>1. Place(c) = i /\ i \in 1..Len(Up) /\ i <= Len(toServer)
        BY <2>1, <3>1
      <4> QED
        BY <2>1, <3>1, <4>1
    <3>2. ASSUME NEW i \in 1..Len(client.buffer), c = <<"buffer", i>>, client.buffer[i].of = r,
                 client.buffer[i].kind = "request"
          PROVE  Place(c) \in 1..Len(Up) /\ Up[Place(c)].of = r /\ Up[Place(c)].kind = "request"
      <4>1. /\ Place(c) = Len(toServer) + i /\ Len(toServer) + i \in 1..Len(Up)
            /\ ~(Len(toServer) + i <= Len(toServer)) /\ (Len(toServer) + i) - Len(toServer) = i
        BY <2>1, <3>2
      <4> QED
        BY <2>1, <3>2, <4>1
    <3> QED
      BY <2>2, <3>1, <3>2
  <2>4. ASSUME NEW c \in Copies(r), NEW d \in Copies(r), Place(c) = Place(d) PROVE c = d
    <3>1. \/ \E i \in 1..Len(toServer) : c = <<"wire", i>> /\ Place(c) = i
          \/ \E i \in 1..Len(client.buffer) : c = <<"buffer", i>> /\ Place(c) = Len(toServer) + i
      BY <2>2
    <3>2. \/ \E i \in 1..Len(toServer) : d = <<"wire", i>> /\ Place(d) = i
          \/ \E i \in 1..Len(client.buffer) : d = <<"buffer", i>> /\ Place(d) = Len(toServer) + i
      BY <2>2
    <3> HIDE DEF Place
    <3> QED
      BY <2>1, <2>4, <3>1, <3>2
  <2> HIDE DEF Place
  <2>5. phase[r] = "fresh"
    BY <2>3 DEF UInv, RequestsAreNews
  <2>6. \A y \in Copies(r) : Place(x) = Place(y)
    BY <2>3 DEF UInv, RequestsAreUnique
  <2> QED
    BY <2>4, <2>5, <2>6
<1> QED
  BY <1>1, UpInvariant, PTL

-----------------------------------------------------------------------------
(* Answers.                                                                *)

LEMMA DownProperties ==
    ASSUME UInv
    PROVE  /\ Down \in Seq(Answers) /\ Len(Down) \in Nat
           /\ \A i \in 1..Len(Down) : Down[i].of \in Requests /\ Down[i].seq \in Nat \ {0}
           /\ \A r \in Requests : spoken[r] \in Nat
           /\ \A r \in Requests : /\ heard[r] \in Seq(Nat \ {0}) /\ Len(heard[r]) \in Nat
                                  /\ DOMAIN heard[r] = 1..Len(heard[r])
                                  /\ \A k \in DOMAIN heard[r] : heard[r][k] \in Nat
<1>1. Down \in Seq(Answers)
  BY Streams DEF UInv
<1>2. \A r \in Requests : heard[r] \in Seq(Nat \ {0}) /\ spoken[r] \in Nat
  BY BoundsAssumption DEF UInv, TypeOK
<1> QED
  BY <1>1, <1>2, AnswerProperties

\* A step in which the server says nothing and the caller hears nothing.
LEMMA LossKeepsAnswers ==
    ASSUME UInv, UInv', DInv, Keeps(Down, Down'), UNCHANGED <<heard, spoken>>,
           Holed \subseteq Holed', NothingIsMissing'
    PROVE  DInv'
<1>1. PICK f \in [1..Len(Down') -> 1..Len(Down)] :
          /\ \A i, j \in 1..Len(Down') : i < j => f[i] < f[j]
          /\ \A i \in 1..Len(Down') : Down'[i] = Down[f[i]]
  BY DEF Keeps
<1>2. AnswersInOrder'
  <2>1. \A i \in 1..Len(Down') : f[i] \in 1..Len(Down) /\ Down'[i] = Down[f[i]]
    BY <1>1
  <2>2. \A i, j \in 1..Len(Down') :
            i < j /\ Down'[i].of = Down'[j].of => Down'[i].seq < Down'[j].seq
    BY <1>1, <2>1 DEF DInv, AnswersInOrder
  <2>3. \A i \in 1..Len(Down') :
            /\ Down'[i].seq <= spoken[Down'[i].of]
            /\ \A k \in DOMAIN heard[Down'[i].of] : heard[Down'[i].of][k] < Down'[i].seq
    BY <2>1 DEF DInv, AnswersInOrder
  <2> QED
    BY <2>2, <2>3 DEF DInv, AnswersInOrder
<1>3. HeardInOrder'
  BY DEF DInv, HeardInOrder
<1> QED
  BY <1>2, <1>3 DEF DInv

\* A call that waits has been waiting with nothing missing, or nothing has been said.
LEMMA QuietKeepsAnswers ==
    ASSUME UInv, UInv', DInv, Down' = Down, UNCHANGED <<heard, spoken>>,
           Holed \subseteq Holed',
           \A r \in Requests : call'[r] = "open" => call[r] = "open" \/ spoken[r] = 0
    PROVE  DInv'
<1>1. NothingIsMissing'
  <2> SUFFICES ASSUME NEW r \in Requests, call'[r] = "open", r \notin Holed',
                      NEW s \in (Len(heard[r]) + 1)..spoken[r]
               PROVE  \E i \in 1..Len(Down) : Down[i].of = r /\ Down[i].seq = s
    BY DEF NothingIsMissing
  <2>1. spoken[r] # 0
    BY DownProperties
  <2> QED
    BY <2>1 DEF DInv, NothingIsMissing
<1>2. Keeps(Down, Down')
  BY DownProperties, KeepsAll
<1> QED
  BY <1>1, <1>2, LossKeepsAnswers

LEMMA SpeakingKeepsAnswers ==
    ASSUME UInv, UInv', DInv, NEW r \in Requests, NEW p \in Phases, NEW kinds \in Speeches,
           Speaks(r, p, kinds), UNCHANGED <<call, heard, cut>>
    PROVE  DInv'
<1> DEFINE u == Numbered(r, kinds)
           l == Len(Down)
           n == Len(kinds)
<1>1. /\ Len(u) = n /\ n \in Nat
      /\ \A i \in 1..n : u[i].of = r /\ u[i].seq = spoken[r] + i
  BY NumberedProperties, SpeechProperties DEF UInv
<1>2. /\ Adds(Down, u, Down')
      /\ \A q \in Requests : spoken'[q] = IF q = r THEN spoken[r] + n ELSE spoken[q]
  BY SpeaksProperties DEF UInv
<1>3. /\ l \in Nat /\ \A q \in Requests : spoken[q] \in Nat
      /\ \A i \in 1..l : Down[i].of \in Requests /\ Down[i].seq \in Nat
      /\ \A q \in Requests : \A k \in DOMAIN heard[q] : heard[q][k] \in Nat
  BY DownProperties
<1>4. /\ Len(Down') = l + n /\ \A i \in 1..l : Down'[i] = Down[i]
      /\ \A i \in 1..n : Down'[l + i].of = r /\ Down'[l + i].seq = spoken[r] + i
  BY <1>1, <1>2 DEF Adds
<1> HIDE DEF u, l, n
<1>5. \A i \in 1..Len(Down') : i \in 1..l \/ \E j \in 1..n : i = l + j
  <2> SUFFICES ASSUME NEW i \in 1..Len(Down'), i \notin 1..l PROVE \E j \in 1..n : i = l + j
    OBVIOUS
  <2>1. i - l \in 1..n /\ i = l + (i - l)
    BY <1>1, <1>3, <1>4
  <2> QED
    BY <2>1
<1>6. /\ \A i, j \in 1..l : i < j /\ Down[i].of = Down[j].of => Down[i].seq < Down[j].seq
      /\ \A i \in 1..l : /\ Down[i].seq <= spoken[Down[i].of]
                         /\ \A k \in DOMAIN heard[Down[i].of] : heard[Down[i].of][k] < Down[i].seq
      /\ \A q \in Requests : \A k \in DOMAIN heard[q] : heard[q][k] <= spoken[q]
  BY DEF DInv, AnswersInOrder, l
<1>7. \A q \in Requests : spoken[q] <= spoken'[q] /\ spoken'[q] \in Nat
  BY <1>1, <1>2, <1>3
<1>8. ASSUME NEW i \in 1..Len(Down'), NEW j \in 1..Len(Down'), i < j, Down'[i].of = Down'[j].of
      PROVE  Down'[i].seq < Down'[j].seq
  <2>1. CASE j \in 1..l
    <3>1. i \in 1..l
      BY <1>3, <1>8, <2>1
    <3> QED
      BY <1>4, <1>6, <1>8, <2>1, <3>1
  <2>2. ASSUME NEW b \in 1..n, j = l + b
        PROVE  Down'[i].seq < Down'[j].seq
    <3>1. Down'[j].of = r /\ Down'[j].seq = spoken[r] + b
      BY <1>4, <2>2
    <3>2. CASE i \in 1..l
      <4>1. Down'[i].seq <= spoken[r] /\ Down'[i].seq \in Nat
        BY <1>3, <1>4, <1>6, <1>8, <3>1, <3>2
      <4> QED
        BY <1>3, <3>1, <4>1
    <3>3. ASSUME NEW a \in 1..n, i = l + a PROVE Down'[i].seq < Down'[j].seq
      <4>1. Down'[i].seq = spoken[r] + a /\ a < b
        BY <1>3, <1>4, <1>8, <2>2, <3>3
      <4> QED
        BY <1>3, <3>1, <4>1
    <3> QED
      BY <1>5, <3>2, <3>3
  <2> QED
    BY <1>5, <2>1, <2>2
<1>9. ASSUME NEW i \in 1..Len(Down')
      PROVE  /\ Down'[i].seq <= spoken'[Down'[i].of]
             /\ \A k \in DOMAIN heard[Down'[i].of] : heard[Down'[i].of][k] < Down'[i].seq
  <2>1. CASE i \in 1..l
    <3>1. Down'[i] = Down[i] /\ Down[i].of \in Requests /\ Down[i].seq <= spoken[Down[i].of]
      BY <1>3, <1>4, <1>6, <2>1
    <3>2. Down[i].seq <= spoken'[Down[i].of]
      BY <1>3, <1>7, <2>1, <3>1
    <3> QED
      BY <1>6, <2>1, <3>1, <3>2
  <2>2. ASSUME NEW b \in 1..n, i = l + b
        PROVE  /\ Down'[i].seq <= spoken'[Down'[i].of]
               /\ \A k \in DOMAIN heard[Down'[i].of] : heard[Down'[i].of][k] < Down'[i].seq
    <3>1. Down'[i].of = r /\ Down'[i].seq = spoken[r] + b /\ spoken'[r] = spoken[r] + n
      BY <1>2, <1>4, <2>2
    <3>2. \A k \in DOMAIN heard[r] : heard[r][k] <= spoken[r] /\ heard[r][k] \in Nat
      BY <1>3, <1>6
    <3> QED
      BY <1>1, <1>3, <3>1, <3>2
  <2> QED
    BY <1>5, <2>1, <2>2
<1>10. \A q \in Requests : \A k \in DOMAIN heard[q] : heard[q][k] <= spoken'[q]
  BY <1>3, <1>6, <1>7
<1>11. AnswersInOrder'
  BY <1>8, <1>9, <1>10 DEF AnswersInOrder
<1>12. NothingIsMissing'
  <2> SUFFICES ASSUME NEW q \in Requests, call[q] = "open", q \notin Holed,
                      NEW s \in (Len(heard[q]) + 1)..spoken'[q]
               PROVE  \E i \in 1..Len(Down') : Down'[i].of = q /\ Down'[i].seq = s
    BY DEF NothingIsMissing, Holed
  <2>1. Len(heard[q]) \in Nat /\ s \in Nat
    BY <1>7, DownProperties
  <2>2. CASE s <= spoken[q]
    <3>1. PICK i \in 1..l : Down[i].of = q /\ Down[i].seq = s
      BY <1>3, <2>1, <2>2 DEF DInv, NothingIsMissing, l
    <3> QED
      BY <1>1, <1>3, <1>4, <3>1
  <2>3. CASE ~(s <= spoken[q])
    <3>1. q = r
      BY <1>2, <2>1, <2>3
    <3> DEFINE b == s - spoken[r]
    <3>2. b \in 1..n /\ s = spoken[r] + b
      BY <1>1, <1>2, <1>3, <2>1, <2>3, <3>1
    <3>3. l + b \in 1..Len(Down')
      BY <1>1, <1>3, <1>4, <3>2
    <3> QED
      BY <1>4, <3>1, <3>2, <3>3
  <2> QED
    BY <2>2, <2>3
<1>13. HeardInOrder'
  BY DEF DInv, HeardInOrder, Holed
<1> QED
  BY <1>11, <1>12, <1>13 DEF DInv

LEMMA HearingKeepsAnswers ==
    ASSUME UInv, UInv', DInv, ClientReceives
    PROVE  DInv'
<1> DEFINE m == Head(toClient)
           r == m.of
           k == Len(heard[m.of])
<1>1. /\ toClient # <<>> /\ toClient' = Tail(toClient)
      /\ Hear(m) \/ HearEnough(m)
      /\ UNCHANGED <<phase, spoken, server, cut>> /\ Holed' = Holed
  BY DEF ClientReceives, Holed
<1>2. toClient \in Seq(Answers) /\ server.buffer \in Seq(Answers)
  BY Streams DEF UInv
<1>3. Down' = Tail(toClient) \o server.buffer
  BY <1>1 DEF Down
<1>4. /\ Len(Down') = Len(Down) - 1 /\ Len(Down) \in Nat /\ 1 \in 1..Len(Down) /\ Down[1] = m
      /\ \A i \in 1..Len(Down') : i + 1 \in 1..Len(Down) /\ Down'[i] = Down[i + 1]
  BY <1>1, <1>2, <1>3, TailOfStream DEF Down
<1> HIDE DEF m
<1>5. m.of \in Requests /\ m.seq \in Nat \ {0}
  BY <1>4, DownProperties
<1>6. /\ \A i, j \in 1..Len(Down) : i < j /\ Down[i].of = Down[j].of => Down[i].seq < Down[j].seq
      /\ \A i \in 1..Len(Down) :
            /\ Down[i].seq <= spoken[Down[i].of]
            /\ \A a \in DOMAIN heard[Down[i].of] : heard[Down[i].of][a] < Down[i].seq
      /\ \A q \in Requests : \A a \in DOMAIN heard[q] : heard[q][a] <= spoken[q]
  BY DEF DInv, AnswersInOrder
<1>7. \A i \in 1..Len(Down) : i # 1 => i - 1 \in 1..Len(Down') /\ Down'[i - 1] = Down[i]
  <2> SUFFICES ASSUME NEW i \in 1..Len(Down), i # 1
               PROVE  i - 1 \in 1..Len(Down') /\ Down'[i - 1] = Down[i]
    OBVIOUS
  <2>1. i - 1 \in 1..Len(Down') /\ (i - 1) + 1 = i
    BY <1>4
  <2> QED
    BY <1>4, <2>1
<1>8. ASSUME NEW i \in 1..Len(Down'), NEW j \in 1..Len(Down'), i < j, Down'[i].of = Down'[j].of
      PROVE  Down'[i].seq < Down'[j].seq
  <2>1. i + 1 < j + 1 /\ i + 1 \in 1..Len(Down) /\ j + 1 \in 1..Len(Down)
    BY <1>4, <1>8
  <2> QED
    BY <1>4, <1>6, <1>8, <2>1
<1>9. CASE call[r] # "open"
  <2>1. UNCHANGED <<heard, call>>
    BY <1>1, <1>9 DEF Hear, HearEnough
  <2>2. NothingIsMissing'
    <3> SUFFICES ASSUME NEW q \in Requests, call[q] = "open", q \notin Holed,
                        NEW s \in (Len(heard[q]) + 1)..spoken[q]
                 PROVE  \E i \in 1..Len(Down') : Down'[i].of = q /\ Down'[i].seq = s
      BY <1>1, <2>1 DEF NothingIsMissing
    <3>1. PICK i \in 1..Len(Down) : Down[i].of = q /\ Down[i].seq = s
      BY DEF DInv, NothingIsMissing
    <3>2. i # 1
      BY <1>4, <1>9, <3>1
    <3> QED
      BY <1>7, <3>1, <3>2
  <2>3. Keeps(Down, Down')
    BY <1>1, <1>2, <1>3, LossesKeep DEF Down
  <2> QED
    BY <1>1, <2>1, <2>2, <2>3, LossKeepsAnswers
<1>10. CASE call[r] = "open"
  <2>1. /\ heard' = [heard EXCEPT ![m.of] = Append(heard[m.of], m.seq)]
        /\ \A q \in Requests : call'[q] = "open" => call[q] = "open"
    <3>1. /\ heard' = [heard EXCEPT ![m.of] = Append(heard[m.of], m.seq)]
          /\ \E v : call' = [call EXCEPT ![m.of] = v]
      <4>1. CASE Hear(m)
        BY <1>10, <4>1 DEF Hear
      <4>2. CASE HearEnough(m)
        BY <1>10, <4>2 DEF HearEnough
      <4> QED
        BY <1>1, <4>1, <4>2
    <3>2. DOMAIN call = Requests
      BY DEF UInv, TypeOK
    <3> QED
      BY <1>5, <1>10, <3>1, <3>2
  <2>2. /\ heard[r] \in Seq(Nat \ {0}) /\ k \in Nat /\ DOMAIN heard[r] = 1..k
        /\ \A a \in 1..k : heard[r][a] \in Nat
    BY <1>5, DownProperties
  <2>3. \A q \in Requests \ {r} : heard'[q] = heard[q]
    BY <1>5, <2>1 DEF UInv, TypeOK
  <2>4. /\ Len(heard'[r]) = k + 1 /\ DOMAIN heard'[r] = 1..(k + 1)
        /\ \A a \in 1..k : heard'[r][a] = heard[r][a]
        /\ heard'[r][k + 1] = m.seq
    <3>1. heard'[r] = Append(heard[r], m.seq)
      BY <1>5, <2>1 DEF UInv, TypeOK
    <3>2. /\ Append(heard[r], m.seq) \in Seq(Nat \ {0}) /\ Len(Append(heard[r], m.seq)) = k + 1
          /\ \A a \in 1..k : Append(heard[r], m.seq)[a] = heard[r][a]
          /\ Append(heard[r], m.seq)[k + 1] = m.seq
      BY <1>5, <2>2, AppendProperties
    <3> QED
      BY <3>1, <3>2, LenProperties
  <2>5. /\ \A a \in 1..k : heard[r][a] < m.seq
        /\ m.seq <= spoken[r]
    BY <1>4, <1>6, <2>2
  <2> HIDE DEF k
  <2>6. \A a \in 1..(k + 1) : a \in 1..k \/ a = k + 1
    BY <2>2
  <2>7. \A a \in DOMAIN heard'[r] : heard'[r][a] <= m.seq
    BY <1>5, <2>2, <2>4, <2>5, <2>6
  <2>8. ASSUME NEW i \in 1..Len(Down')
        PROVE  /\ Down'[i].seq <= spoken[Down'[i].of]
               /\ \A a \in DOMAIN heard'[Down'[i].of] : heard'[Down'[i].of][a] < Down'[i].seq
    <3>1. /\ i + 1 \in 1..Len(Down) /\ Down'[i] = Down[i + 1] /\ 1 < i + 1
          /\ Down[i + 1].of \in Requests /\ Down[i + 1].seq \in Nat
      BY <1>4, DownProperties
    <3>2. CASE Down[i + 1].of # r
      BY <1>6, <2>3, <3>1, <3>2
    <3>3. CASE Down[i + 1].of = r
      <4>1. m.seq < Down[i + 1].seq
        BY <1>4, <1>6, <3>1, <3>3
      <4>2. \A a \in DOMAIN heard'[r] : heard'[r][a] \in Nat
        BY <1>5, <2>2, <2>4, <2>6
      <4>3. \A a \in DOMAIN heard'[r] : heard'[r][a] < Down[i + 1].seq
        BY <1>5, <2>7, <3>1, <4>1, <4>2
      <4> QED
        BY <1>6, <3>1, <3>3, <4>3
    <3> QED
      BY <3>2, <3>3
  <2>9. \A q \in Requests : \A a \in DOMAIN heard'[q] : heard'[q][a] <= spoken[q]
    BY <1>6, <2>2, <2>3, <2>4, <2>5, <2>6
  <2>10. AnswersInOrder'
    BY <1>1, <1>8, <2>8, <2>9 DEF AnswersInOrder
  <2>11. ASSUME r \notin Holed PROVE m.seq = k + 1
    <3>1. \A a \in 1..k : heard[r][a] = a
      BY <1>5, <2>2, <2>11 DEF DInv, HeardInOrder
    <3>2. m.seq > k
      <4>1. CASE k = 0
        BY <1>5, <4>1
      <4>2. CASE k # 0
        <5>1. k \in 1..k
          BY <2>2, <4>2
        <5> QED
          BY <2>5, <3>1, <5>1
      <4> QED
        BY <4>1, <4>2
    <3>3. CASE m.seq > k + 1
      <4>1. k + 1 \in (k + 1)..spoken[r]
        BY <1>5, <2>2, <2>5, <3>3, DownProperties
      <4>2. PICK i \in 1..Len(Down) : Down[i].of = r /\ Down[i].seq = k + 1
        BY <1>5, <1>10, <2>11, <4>1 DEF DInv, NothingIsMissing, k
      <4>3. i # 1
        BY <1>4, <2>2, <3>3, <4>2
      <4>4. m.seq < Down[i].seq
        BY <1>4, <1>6, <4>2, <4>3
      <4> QED
        BY <1>5, <2>2, <3>3, <4>2, <4>4
    <3> QED
      BY <1>5, <2>2, <3>2, <3>3
  <2>12. HeardInOrder'
    <3>1. \A a, b \in DOMAIN heard'[r] : a < b => heard'[r][a] < heard'[r][b]
      <4> SUFFICES ASSUME NEW a \in DOMAIN heard'[r], NEW b \in DOMAIN heard'[r], a < b
                   PROVE  heard'[r][a] < heard'[r][b]
        OBVIOUS
      <4>1. a \in 1..k
        BY <2>2, <2>4, <2>6
      <4>2. CASE b \in 1..k
        <5>1. a \in DOMAIN heard[r] /\ b \in DOMAIN heard[r]
          BY <2>2, <4>1, <4>2
        <5>2. heard[r][a] < heard[r][b]
          BY <1>5, <5>1 DEF DInv, HeardInOrder
        <5> QED
          BY <2>4, <4>1, <4>2, <5>2
      <4>3. CASE b = k + 1
        BY <2>4, <2>5, <4>1, <4>3
      <4> QED
        BY <2>4, <2>6, <4>2, <4>3
    <3>2. r \notin Holed => \A a \in DOMAIN heard'[r] : heard'[r][a] = a
      BY <1>5, <2>2, <2>4, <2>6, <2>11 DEF DInv, HeardInOrder
    <3>3. \A q \in Requests \ {r} :
              /\ \A a, b \in DOMAIN heard'[q] : a < b => heard'[q][a] < heard'[q][b]
              /\ q \notin Holed => \A a \in DOMAIN heard'[q] : heard'[q][a] = a
      BY <2>3 DEF DInv, HeardInOrder
    <3> QED
      BY <1>1, <3>1, <3>2, <3>3 DEF HeardInOrder
  <2>13. NothingIsMissing'
    <3> SUFFICES ASSUME NEW q \in Requests, call'[q] = "open", q \notin Holed,
                        NEW s \in (Len(heard'[q]) + 1)..spoken[q]
                 PROVE  \E i \in 1..Len(Down') : Down'[i].of = q /\ Down'[i].seq = s
      BY <1>1 DEF NothingIsMissing
    <3>1. call[q] = "open" /\ spoken[q] \in Nat
      BY <2>1, DownProperties
    <3>2. CASE q # r
      <4>1. PICK i \in 1..Len(Down) : Down[i].of = q /\ Down[i].seq = s
        BY <2>3, <3>1, <3>2 DEF DInv, NothingIsMissing
      <4>2. i # 1
        BY <1>4, <3>2, <4>1
      <4> QED
        BY <1>7, <4>1, <4>2
    <3>3. CASE q = r
      <4>1. s \in (k + 1)..spoken[r] /\ s # k + 1
        BY <2>2, <2>4, <3>1, <3>3
      <4>2. PICK i \in 1..Len(Down) : Down[i].of = r /\ Down[i].seq = s
        BY <1>5, <1>10, <3>3, <4>1 DEF DInv, NothingIsMissing, k
      <4>3. i # 1
        <5>1. m.seq = k + 1
          BY <2>11, <3>3
        <5> QED
          BY <1>4, <4>1, <4>2, <5>1
      <4> QED
        BY <1>7, <3>3, <4>2, <4>3
    <3> QED
      BY <3>2, <3>3
  <2> QED
    BY <2>10, <2>12, <2>13 DEF DInv
<1> QED
  BY <1>9, <1>10

THEOREM DownInvariant == Spec => []DInv
<1>1. Init => DInv
  <2> SUFFICES ASSUME Init PROVE DInv
    OBVIOUS
  <2>1. /\ toClient = <<>> /\ server.buffer = <<>> /\ spoken = [r \in Requests |-> 0]
        /\ heard = [r \in Requests |-> <<>>] /\ call = [r \in Requests |-> "new"]
    BY DEF Init, Connected
  <2>2. Down = <<>>
    BY <2>1 DEF Down
  <2>3. \A r \in Requests : DOMAIN heard[r] = {} /\ spoken[r] = 0 /\ call[r] # "open"
    <3>1. <<>> \in Seq(Nat) /\ Len(<<>>) = 0
      OBVIOUS
    <3>2. DOMAIN <<>> = {}
      BY <3>1, LenProperties
    <3> QED
      BY <2>1, <3>2
  <2> QED
    BY <2>1, <2>2, <2>3 DEF DInv, AnswersInOrder, NothingIsMissing, HeardInOrder
<1>2. ASSUME UInv, UInv', DInv, [Next]_vars PROVE DInv'
  <2> USE <1>2
  <2>1. /\ toClient \in Seq(Answers) /\ server.buffer \in Seq(Answers)
        /\ \A r \in Requests : spoken[r] \in Nat /\ heard[r] \in Seq(Nat \ {0})
    BY Streams, DownProperties DEF UInv
  <2>2. ASSUME NEW r \in Requests, NEW then, Subscribe(r, then) PROVE DInv'
    <3>1. /\ call[r] = "new" /\ call' = [call EXCEPT ![r] = IF client.open THEN then ELSE "failed"]
          /\ cut' = IF client.open THEN cut ELSE [cut EXCEPT !["client"] = @ \cup {r}]
          /\ UNCHANGED <<heard, spoken, server, toClient>>
      BY <2>2 DEF Subscribe
    <3>2. \A q \in Requests \ {r} : call'[q] = call[q]
      BY <3>1 DEF UInv, TypeOK
    <3>3. spoken[r] = 0
      BY <3>1 DEF UInv, RequestsAreNews, NumbersFit
    <3>4. Holed' = Holed
      BY <3>1 DEF UInv, TypeOK, Holed, Places
    <3>5. Down' = Down
      BY <3>1 DEF Down
    <3> QED
      BY <3>1, <3>2, <3>3, <3>4, <3>5, QuietKeepsAnswers
  <2>3. ASSUME NEW r \in Requests, Unsubscribe(r) \/ TimeOut(r) PROVE DInv'
    <3>1. /\ call' = [call EXCEPT ![r] = "cancelled"] \/ call' = [call EXCEPT ![r] = "failed"]
          /\ UNCHANGED <<heard, spoken, server, toClient, cut>>
      BY <2>3 DEF Unsubscribe, TimeOut, sides, wires
    <3>2. \A q \in Requests : call'[q] = "open" => call[q] = "open"
      BY <3>1 DEF UInv, TypeOK
    <3>3. Down' = Down
      BY <3>1 DEF Down
    <3>4. Holed' = Holed
      BY <3>1 DEF Holed
    <3> QED
      BY <3>1, <3>2, <3>3, <3>4, QuietKeepsAnswers
  <2>4. ASSUME NEW r \in Requests, ServerWorks(r) PROVE DInv'
    BY <2>4, WorkProperties, SpeakingKeepsAnswers
  <2>5. CASE ClientReceives
    BY <2>5, HearingKeepsAnswers
  <2>6. CASE ServerReceives
    <3> DEFINE m == Head(toServer)
    <3>1. /\ server.open /\ toServer # <<>> /\ toServer' = Tail(toServer)
          /\ IF m.kind = "request" THEN ReceiveRequest(m.of) ELSE ReceiveDone(m.of)
          /\ UNCHANGED <<call, heard, client, cut, cuts>>
      BY <2>6 DEF ServerReceives
    <3>2. toServer' \in Seq(Orders) /\ m \in Orders
      BY <3>1, TakingKeepsRequests
    <3> HIDE DEF m
    <3>3. m.of \in Requests
      BY <3>2 DEF Orders
    <3>4. ASSUME NEW p \in Phases, NEW kinds \in Speeches, Speaks(m.of, p, kinds) PROVE DInv'
      BY <3>1, <3>3, <3>4, SpeakingKeepsAnswers
    <3>5. ASSUME UNCHANGED <<spoken, server, toClient>> PROVE DInv'
      <4>1. Down' = Down /\ Holed' = Holed
        BY <3>1, <3>5 DEF Down, Holed
      <4> QED
        BY <3>1, <3>5, <4>1, QuietKeepsAnswers
    <3>6. CASE m.kind = "request"
      BY <3>1, <3>2, <3>3, <3>4, <3>6, RequestProperties
    <3>7. CASE m.kind # "request"
      BY <3>1, <3>2, <3>3, <3>4, <3>5, <3>7, DoneProperties
    <3> QED
      BY <3>6, <3>7
  <2>7. CASE ClientCloses
    <3>1. PICK n \in 0..Len(toClient) : toClient' = Rest(toClient, n)
      BY <2>7 DEF ClientCloses
    <3>2. /\ UNCHANGED <<heard, spoken, server>> /\ call' = FailOpen
          /\ cut' = [cut EXCEPT !["client"] = @ \cup UnderWay]
      BY <2>7 DEF ClientCloses, Cut
    <3>3. Holed' = Holed
      BY <3>2 DEF UInv, TypeOK, Holed, Places
    <3>4. \A r \in Requests : call'[r] # "open"
      BY <3>2 DEF FailOpen
    <3>5. NothingIsMissing'
      BY <3>4 DEF NothingIsMissing
    <3>6. Keeps(Down, Down')
      BY <2>1, <3>1, <3>2, LossesKeep DEF Down
    <3> QED
      BY <3>2, <3>3, <3>5, <3>6, LossKeepsAnswers
  <2>8. CASE ServerCloses
    <3>1. PICK n \in 0..Len(toClient) : toClient' = First(toClient, n)
      BY <2>8 DEF ServerCloses
    <3>2. /\ UNCHANGED <<call, heard, spoken>> /\ server' = [server EXCEPT !.open = FALSE]
          /\ cut' = [cut EXCEPT !["server"] = @ \cup UnderWay]
      BY <2>8 DEF ServerCloses, Cut
    <3>3. Holed' = Holed \cup UnderWay
      BY <3>2 DEF UInv, TypeOK, Holed, Places
    <3>4. NothingIsMissing'
      BY <3>2, <3>3 DEF NothingIsMissing, UnderWay
    <3>5. server'.buffer = server.buffer
      BY <3>2 DEF UInv, TypeOK
    <3>6. Keeps(Down, Down')
      BY <2>1, <3>1, <3>5, LossesKeep DEF Down
    <3> QED
      BY <3>2, <3>3, <3>4, <3>6, LossKeepsAnswers
  <2>9. CASE ClientOpens
    <3>1. UNCHANGED <<call, heard, spoken, server, toClient, cut>>
      BY <2>9 DEF ClientOpens
    <3>2. Down' = Down /\ Holed' = Holed
      BY <3>1 DEF Down, Holed
    <3> QED
      BY <3>1, <3>2, QuietKeepsAnswers
  <2>10. CASE ServerOpens
    <3>1. PICK n \in 0..Len(server.buffer) : toClient' = toClient \o Rest(server.buffer, n)
      BY <2>10 DEF ServerOpens
    <3>2. /\ server' = [open |-> TRUE, buffer |-> <<>>] /\ ~server.open
          /\ UNCHANGED <<call, heard, phase, spoken>> /\ Holed' = Holed
      BY <2>10 DEF ServerOpens, Reopened, Holed
    <3>3. Down' = (toClient \o Rest(server.buffer, n)) \o <<>>
      BY <3>1, <3>2 DEF Down
    <3>4. Keeps(Down, Down')
      BY <2>1, <3>3, LossesKeep DEF Down
    <3>5. NothingIsMissing'
      <4> SUFFICES ASSUME NEW r \in Requests, call[r] = "open", r \notin Holed,
                          NEW s \in (Len(heard[r]) + 1)..spoken[r]
                   PROVE  FALSE
        BY <3>2 DEF NothingIsMissing
      <4>1. phase[r] = "fresh"
        BY <3>2 DEF UInv, SocketsFit, Holed
      <4>2. spoken[r] = 0
        BY <4>1 DEF UInv, NumbersFit
      <4> QED
        BY <2>1, <4>2
    <3> QED
      BY <3>2, <3>4, <3>5, LossKeepsAnswers
  <2>11. CASE HostDrops
    <3>1. UNCHANGED <<call, heard, spoken, server>>
      BY <2>11 DEF HostDrops, sides
    <3>2. CASE /\ toServer # <<>> /\ toClient' = toClient
               /\ cut' = [cut EXCEPT !["host"] = @ \cup {Head(toServer).of}]
      <4>1. Down' = Down /\ Holed \subseteq Holed'
        BY <3>1, <3>2 DEF Down, Holed, UInv, TypeOK, Places
      <4> QED
        BY <3>1, <4>1, QuietKeepsAnswers
    <3>3. CASE /\ toClient # <<>> /\ toClient' = Tail(toClient)
               /\ cut' = [cut EXCEPT !["host"] = @ \cup {Head(toClient).of}]
      <4>1. Down' = Tail(toClient) \o server.buffer
        BY <3>1, <3>3 DEF Down
      <4>2. Keeps(Down, Down')
        BY <2>1, <3>3, <4>1, LossesKeep DEF Down
      <4>3. Holed' = Holed \cup {Head(toClient).of}
        BY <3>3 DEF Holed, UInv, TypeOK, Places
      <4>4. NothingIsMissing'
        <5> SUFFICES ASSUME NEW q \in Requests, call[q] = "open", q \notin Holed',
                            NEW s \in (Len(heard[q]) + 1)..spoken[q]
                     PROVE  \E i \in 1..Len(Down') : Down'[i].of = q /\ Down'[i].seq = s
          BY <3>1 DEF NothingIsMissing
        <5>1. q \notin Holed /\ q # Head(toClient).of
          BY <4>3
        <5>2. PICK i \in 1..Len(Down) : Down[i].of = q /\ Down[i].seq = s
          BY <5>1 DEF DInv, NothingIsMissing
        <5>3. /\ Len(Down') = Len(Down) - 1 /\ Len(Down) \in Nat /\ Down[1] = Head(toClient)
              /\ \A j \in 1..Len(Down') : Down'[j] = Down[j + 1]
          BY <2>1, <3>3, <4>1, TailOfStream DEF Down
        <5>4. i # 1
          BY <5>1, <5>2, <5>3
        <5>5. i - 1 \in 1..Len(Down') /\ (i - 1) + 1 = i
          BY <5>3, <5>4
        <5>6. Down'[i - 1] = Down[i]
          BY <5>3, <5>5
        <5> QED
          BY <5>2, <5>5, <5>6
      <4> QED
        BY <3>1, <4>2, <4>3, <4>4, LossKeepsAnswers
    <3> QED
      BY <2>11, <3>2, <3>3 DEF HostDrops
  <2>13. ASSUME NEW r \in Requests, NEW again \in Requests,
                RequestByMessage(r) \/ Resubscribe(r, again)
         PROVE  DInv'
    BY <2>2, <2>13 DEF RequestByMessage, Resubscribe
  <2>12. CASE UNCHANGED vars
    <3>1. UNCHANGED <<call, heard, spoken, server, toClient>> /\ Down' = Down /\ Holed' = Holed
      BY <2>12 DEF vars, sides, wires, Down, Holed
    <3> QED
      BY <3>1, QuietKeepsAnswers
  <2> QED
    BY <2>3, <2>4, <2>5, <2>6, <2>7, <2>8, <2>9, <2>10, <2>11, <2>12, <2>13 DEF Next
<1> QED
  BY <1>1, <1>2, UpInvariant, PTL DEF Spec

\* A caller hears the answers to its request in the order of their numbers, and without
\* a hole as long as the server's socket has not closed since it asked and the host has
\* dropped no message about it, whatever the client's own socket does (client.ts:60-150, create-connection.ts:40-110).
THEOREM AnswersAreHeardInOrder == Spec => []HeardInOrder
  BY DownInvariant, PTL DEF DInv

-----------------------------------------------------------------------------
(* The server of the sessions is a ReplyStream.                            *)

\* Whoever else moves, the server says nothing and stays where it is.
LEMMA SilenceIsAStep ==
    ASSUME phase' = phase, says' = Silence
    PROVE  Server!Next
  BY DEF Silence, Server!Next, Server!Rests

\* The server speaks about one request at a time.
LEMMA SpeakingIsAStep ==
    ASSUME TypeOK, NEW r \in Requests, NEW p \in Phases, NEW kinds \in Speeches,
           Speaks(r, p, kinds),
           Server!Refused(r) \/ Server!Admitted(r) \/ Server!Waits(r) \/ Server!Runs(r)
    PROVE  Server!Next
<1>1. /\ phase' = [phase EXCEPT ![r] = p] /\ says' = [Silence EXCEPT ![r] = kinds]
      /\ phase \in [Requests -> Phases]
  BY DEF Speaks, TypeOK
<1>2. ASSUME NEW q \in Requests, q # r PROVE Server!Rests(q)
  BY <1>1, <1>2 DEF Silence, Server!Rests
<1> QED
  BY <1>2 DEF Server!Next

\* Whatever the sockets lose or deliver late, and whatever the client does, the server
\* keeps to its promise about every request; with RepliesAreStreams of the server's own
\* proofs, what is proved here of a session holds with that server at its end.
THEOREM TheServerIsAReplyStream == Spec => Server!Spec
<1>1. Init => Server!Init
  BY DEF Init
<1>2. ASSUME TypeOK, [Next]_vars PROVE [Server!Next]_(Server!vars)
  <2> USE <1>2
  <2>1. ASSUME NEW r \in Requests, NEW again \in Requests,
               RequestByMessage(r) \/ Resubscribe(r, again) \/ Unsubscribe(r) \/ TimeOut(r)
        PROVE  Server!Next
    BY <2>1, SilenceIsAStep DEF RequestByMessage, Resubscribe, Subscribe, Unsubscribe, TimeOut
  <2>2. ASSUME NEW r \in Requests, ServerWorks(r) PROVE Server!Next
    BY <2>2, SpeakingIsAStep DEF ServerWorks
  <2>3. CASE ServerReceives
    <3> DEFINE m == Head(toServer)
    <3>1. m \in Orders
      BY <2>3, HeadTailProperties DEF TypeOK, ServerReceives
    <3>2. m.of \in Requests
      BY <3>1 DEF Orders
    <3>3. IF m.kind = "request" THEN ReceiveRequest(m.of) ELSE ReceiveDone(m.of)
      BY <2>3 DEF ServerReceives
    <3> HIDE DEF m
    <3>4. CASE ReceiveRequest(m.of)
      BY <3>2, <3>4, SpeakingIsAStep DEF ReceiveRequest
    <3>5. CASE ReceiveDone(m.of)
      <4>1. /\ <<>> \in Speeches /\ <<"done">> \in Speeches
            /\ "cancelled" \in Phases /\ "closed" \in Phases
        BY DEF Speeches, Phases
      <4>2. CASE phase[m.of] = "waiting"
        BY <3>2, <3>5, <4>1, <4>2, SpeakingIsAStep DEF ReceiveDone
      <4>3. CASE phase[m.of] = "running"
        BY <3>2, <3>5, <4>1, <4>3, SpeakingIsAStep DEF ReceiveDone
      <4>4. CASE phase[m.of] \notin {"waiting", "running"}
        BY <3>5, <4>4, SilenceIsAStep DEF ReceiveDone
      <4> QED
        BY <4>2, <4>3, <4>4
    <3> QED
      BY <3>3, <3>4, <3>5
  <2>4. CASE \/ ClientReceives \/ ClientCloses \/ ServerCloses
             \/ ClientOpens \/ ServerOpens \/ HostDrops
    BY <2>4, SilenceIsAStep
    DEF ClientReceives, ClientCloses, ServerCloses, ClientOpens, ServerOpens, HostDrops, Cut
  <2>5. CASE UNCHANGED vars
    BY <2>5 DEF vars, Server!vars
  <2> QED
    BY <2>1, <2>2, <2>3, <2>4, <2>5 DEF Next
<1> QED
  BY <1>1, <1>2, TypeCorrect, PTL DEF Spec, Server!Spec
=============================================================================
