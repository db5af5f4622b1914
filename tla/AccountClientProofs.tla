------------------------- MODULE AccountClientProofs -------------------------
(* Proofs about AccountClient, for every number of requests and posts.       *)
EXTENDS AccountClient, TLAPS

USE ClientAssumption

-----------------------------------------------------------------------------
(* Queues of packets: what a stream holds of them, and its order.            *)

LEMMA Appended ==
  ASSUME NEW S, NEW q \in Seq(S), NEW p \in S
  PROVE  /\ Append(q, p) \in Seq(S) /\ Len(Append(q, p)) = Len(q) + 1 /\ Len(q) \in Nat
         /\ Append(q, p)[Len(q) + 1] = p
         /\ \A k \in 1..Len(q) : Append(q, p)[k] = q[k]
OBVIOUS

LEMMA Shortened ==
  ASSUME NEW S, NEW q \in Seq(S), q # <<>>
  PROVE  /\ Tail(q) \in Seq(S) /\ Head(q) \in S /\ Head(q) = q[1]
         /\ Len(q) \in Nat \ {0} /\ Len(Tail(q)) = Len(q) - 1
         /\ \A k \in 1..Len(Tail(q)) : Tail(q)[k] = q[k + 1]
OBVIOUS

LEMMA Cut ==
  ASSUME NEW S, NEW q \in Seq(S), NEW n \in 0..Len(q)
  PROVE  /\ SubSeq(q, 1, n) \in Seq(S) /\ Len(SubSeq(q, 1, n)) = n
         /\ \A k \in 1..n : SubSeq(q, 1, n)[k] = q[k]
OBVIOUS

LEMMA Joined ==
  ASSUME NEW q \in Seq(Nat), NEW r \in Seq(Nat)
  PROVE  /\ q \o r \in Seq(Nat) /\ Len(q \o r) = Len(q) + Len(r) /\ Len(q) \in Nat
         /\ \A k \in 1..Len(q) : (q \o r)[k] = q[k]
         /\ \A k \in 1..Len(r) : (q \o r)[Len(q) + k] = r[k]
OBVIOUS

LEMMA IdsEmpty ==
  ASSUME NEW st
  PROVE  Ids(<<>>, st) = {} /\ Ascending(<<>>, st)
BY DEF Ids, Ascending

LEMMA IdsAppend ==
  ASSUME NEW S, NEW q \in Seq(S), NEW p \in S, NEW st
  PROVE  Ids(Append(q, p), st) = Ids(q, st) \cup (IF p.stream = st THEN {p.id} ELSE {})
<1> DEFINE r == Append(q, p)
<1>1. /\ Len(r) = Len(q) + 1 /\ Len(q) \in Nat /\ r[Len(q) + 1] = p
      /\ \A k \in 1..Len(q) : r[k] = q[k]
      BY Appended
<1> HIDE DEF r
<1>2. ASSUME NEW a \in Ids(r, st) PROVE a \in Ids(q, st) \/ (p.stream = st /\ a = p.id)
  <2>1. PICK i \in 1..Len(r) : r[i].stream = st /\ a = r[i].id
        BY DEF Ids
  <2>2. CASE i = Len(q) + 1
        BY <1>1, <2>1, <2>2
  <2>3. CASE i \in 1..Len(q)
        BY <1>1, <2>1, <2>3 DEF Ids
  <2> QED BY <1>1, <2>1, <2>2, <2>3
<1>3. ASSUME NEW a \in Ids(q, st) PROVE a \in Ids(r, st)
  <2>1. PICK i \in 1..Len(q) : q[i].stream = st /\ a = q[i].id
        BY DEF Ids
  <2>2. i \in 1..Len(r) /\ r[i] = q[i]
        BY <1>1
  <2> QED BY <2>1, <2>2 DEF Ids
<1>4. p.stream = st => p.id \in Ids(r, st)
  <2>1. Len(q) + 1 \in 1..Len(r)
        BY <1>1
  <2> QED BY <1>1, <2>1 DEF Ids
<1>5. Ids(r, st) = Ids(q, st) \cup (IF p.stream = st THEN {p.id} ELSE {})
      BY <1>2, <1>3, <1>4
<1> QED BY <1>5 DEF r

LEMMA AscendingAppend ==
  ASSUME NEW S, NEW q \in Seq(S), NEW p \in S, NEW st, Ascending(q, st),
         p.stream = st => \A a \in Ids(q, st) : a < p.id
  PROVE  Ascending(Append(q, p), st)
<1> DEFINE r == Append(q, p)
<1>1. /\ Len(r) = Len(q) + 1 /\ Len(q) \in Nat /\ r[Len(q) + 1] = p
      /\ \A k \in 1..Len(q) : r[k] = q[k]
      BY Appended
<1> HIDE DEF r
<1>2. ASSUME NEW i \in 1..Len(r), NEW j \in 1..Len(r), i < j, r[i].stream = st, r[j].stream = st
      PROVE  r[i].id < r[j].id
  <2>1. i \in 1..Len(q) /\ r[i] = q[i]
        BY <1>1, <1>2
  <2>2. CASE j = Len(q) + 1
    <3>1. r[i].id \in Ids(q, st)
          BY <1>2, <2>1 DEF Ids
    <3> QED BY <1>1, <1>2, <2>2, <3>1
  <2>3. CASE j \in 1..Len(q)
    <3>1. r[j] = q[j]
          BY <1>1, <2>3
    <3> QED BY <1>2, <2>1, <2>3, <3>1 DEF Ascending
  <2> QED BY <1>1, <2>2, <2>3
<1>3. Ascending(r, st)
      BY <1>2 DEF Ascending
<1> QED BY <1>3 DEF r

LEMMA IdsTail ==
  ASSUME NEW S, NEW q \in Seq(S), q # <<>>, NEW st
  PROVE  Ids(q, st) = Ids(Tail(q), st) \cup (IF Head(q).stream = st THEN {Head(q).id} ELSE {})
<1> DEFINE r == Tail(q)
<1>1. /\ Head(q) = q[1] /\ Len(q) \in Nat \ {0} /\ Len(r) = Len(q) - 1
      /\ \A k \in 1..Len(r) : r[k] = q[k + 1]
      BY Shortened
<1> HIDE DEF r
<1>2. ASSUME NEW a \in Ids(q, st)
      PROVE  a \in Ids(r, st) \/ (Head(q).stream = st /\ a = Head(q).id)
  <2>1. PICK i \in 1..Len(q) : q[i].stream = st /\ a = q[i].id
        BY DEF Ids
  <2>2. CASE i = 1
        BY <1>1, <2>1, <2>2
  <2>3. CASE i # 1
    <3>1. i - 1 \in 1..Len(r) /\ r[i - 1] = q[i]
          BY <1>1, <2>3
    <3> QED BY <2>1, <3>1 DEF Ids
  <2> QED BY <2>2, <2>3
<1>3. ASSUME NEW a \in Ids(r, st) PROVE a \in Ids(q, st)
  <2>1. PICK i \in 1..Len(r) : r[i].stream = st /\ a = r[i].id
        BY DEF Ids
  <2>2. i + 1 \in 1..Len(q) /\ r[i] = q[i + 1]
        BY <1>1
  <2> QED BY <2>1, <2>2 DEF Ids
<1>4. Head(q).stream = st => Head(q).id \in Ids(q, st)
  <2>1. 1 \in 1..Len(q)
        BY <1>1
  <2> QED BY <1>1, <2>1 DEF Ids
<1>5. Ids(q, st) = Ids(r, st) \cup (IF Head(q).stream = st THEN {Head(q).id} ELSE {})
      BY <1>2, <1>3, <1>4
<1> QED BY <1>5 DEF r

LEMMA AscendingTail ==
  ASSUME NEW S, NEW q \in Seq(S), q # <<>>, NEW st, Ascending(q, st)
  PROVE  /\ Ascending(Tail(q), st)
         /\ Head(q).stream = st => \A a \in Ids(Tail(q), st) : Head(q).id < a
<1> DEFINE r == Tail(q)
<1>1. /\ Head(q) = q[1] /\ Len(q) \in Nat \ {0} /\ Len(r) = Len(q) - 1
      /\ \A k \in 1..Len(r) : r[k] = q[k + 1]
      BY Shortened
<1> HIDE DEF r
<1>2. ASSUME NEW i \in 1..Len(r), NEW j \in 1..Len(r), i < j, r[i].stream = st, r[j].stream = st
      PROVE  r[i].id < r[j].id
  <2>1. /\ i + 1 \in 1..Len(q) /\ j + 1 \in 1..Len(q) /\ i + 1 < j + 1
        /\ r[i] = q[i + 1] /\ r[j] = q[j + 1]
        BY <1>1, <1>2
  <2> QED BY <1>2, <2>1 DEF Ascending
<1>3. ASSUME Head(q).stream = st, NEW a \in Ids(r, st) PROVE Head(q).id < a
  <2>1. PICK i \in 1..Len(r) : r[i].stream = st /\ a = r[i].id
        BY DEF Ids
  <2>2. 1 \in 1..Len(q) /\ i + 1 \in 1..Len(q) /\ 1 < i + 1 /\ r[i] = q[i + 1]
        BY <1>1
  <2> QED BY <1>1, <1>3, <2>1, <2>2 DEF Ascending
<1>4. Ascending(r, st)
      BY <1>2 DEF Ascending
<1> QED BY <1>3, <1>4 DEF r

LEMMA IdsCut ==
  ASSUME NEW S, NEW q \in Seq(S), NEW n \in 0..Len(q), NEW st
  PROVE  /\ Ids(SubSeq(q, 1, n), st) \subseteq Ids(q, st)
         /\ Ascending(q, st) => Ascending(SubSeq(q, 1, n), st)
<1> DEFINE r == SubSeq(q, 1, n)
<1>1. Len(r) = n /\ \A k \in 1..n : r[k] = q[k]
      BY Cut
<1>2. 1..n \subseteq 1..Len(q)
      OBVIOUS
<1> HIDE DEF r
<1>3. Ids(r, st) \subseteq Ids(q, st)
      BY <1>1, <1>2 DEF Ids
<1>4. Ascending(q, st) => Ascending(r, st)
      BY <1>1, <1>2 DEF Ascending
<1> QED BY <1>3, <1>4 DEF r

\* A read moves at most one packet, from the front of what comes from the server
\* to the end of its stream's queue.
LEMMA Moved ==
  ASSUME NEW st \in {"client", "message"}, NEW queue \in Seq(Packet), toClient \in Seq(Packet),
         \A i \in 1..Len(queue) : queue[i].stream = st, Work,
         Ascending(queue, st), Ascending(toClient, st), Below(Ids(queue, st), Ids(toClient, st))
  PROVE  /\ Queued(queue, st) \in Seq(Packet) /\ toClient' \in Seq(Packet)
         /\ \A i \in 1..Len(Queued(queue, st)) : Queued(queue, st)[i].stream = st
         /\ Ascending(Queued(queue, st), st) /\ Ascending(toClient', st)
         /\ Below(Ids(Queued(queue, st), st), Ids(toClient', st))
         /\ Ids(Queued(queue, st), st) \cup Ids(toClient', st) = Ids(queue, st) \cup Ids(toClient, st)
         /\ Ids(toClient', st) \subseteq Ids(toClient, st)
<1>1. CASE toClient = <<>>
  <2>1. toClient' = toClient
        BY <1>1 DEF Work
  <2>2. Queued(queue, st) = queue
        BY <1>1 DEF Queued, NextPacket, NoPacket
  <2> QED BY <2>1, <2>2
<1>2. CASE toClient # <<>>
  <2> DEFINE p == Head(toClient)
  <2>1. toClient' = Tail(toClient) /\ NextPacket = p
        BY <1>2 DEF Work, NextPacket
  <2>2. p \in Packet /\ Tail(toClient) \in Seq(Packet)
        BY <1>2, Shortened
  <2>3. /\ Ids(toClient, st) = Ids(Tail(toClient), st) \cup (IF p.stream = st THEN {p.id} ELSE {})
        /\ Ascending(Tail(toClient), st)
        /\ p.stream = st => \A a \in Ids(Tail(toClient), st) : p.id < a
        BY <1>2, IdsTail, AscendingTail
  <2>4. CASE p.stream = st
    <3>1. Queued(queue, st) = Append(queue, p)
          BY <2>1, <2>4 DEF Queued
    <3>2. /\ Append(queue, p) \in Seq(Packet) /\ Len(Append(queue, p)) = Len(queue) + 1
          /\ Len(queue) \in Nat /\ Append(queue, p)[Len(queue) + 1] = p
          /\ \A k \in 1..Len(queue) : Append(queue, p)[k] = queue[k]
          BY <2>2, Appended
    <3>3. Ids(Append(queue, p), st) = Ids(queue, st) \cup {p.id}
          BY <2>2, <2>4, IdsAppend
    <3>4. \A a \in Ids(queue, st) : a < p.id
          BY <2>3, <2>4 DEF Below
    <3>5. Ascending(Append(queue, p), st)
          BY <2>2, <3>4, AscendingAppend
    <3>6. Below(Ids(Append(queue, p), st), Ids(Tail(toClient), st))
          BY <2>3, <2>4, <3>3 DEF Below
    <3>7. \A i \in 1..Len(Append(queue, p)) : Append(queue, p)[i].stream = st
          BY <2>4, <3>2
    <3>8. Ids(Append(queue, p), st) \cup Ids(Tail(toClient), st) = Ids(queue, st) \cup Ids(toClient, st)
          BY <2>3, <2>4, <3>3
    <3> HIDE DEF p
    <3> QED BY <2>1, <2>2, <2>3, <3>1, <3>2, <3>5, <3>6, <3>7, <3>8
  <2>5. CASE p.stream # st
    <3>1. Queued(queue, st) = queue
          BY <2>1, <2>5 DEF Queued
    <3>2. Ids(toClient, st) = Ids(Tail(toClient), st)
          BY <2>3, <2>5
    <3> QED BY <2>1, <2>2, <2>3, <3>1, <3>2
  <2> QED BY <2>4, <2>5
<1> QED BY <1>1, <1>2

-----------------------------------------------------------------------------
(* Sending.                                                                  *)

\* An id that is sent is larger than those before it.
LEMMA Sent ==
  ASSUME TypeOK, RepliesInOrder, Counted, NEW kind \in Calls \cup Sends, Send(kind),
         UNCHANGED <<toClient, replies, serving, answered>>
  PROVE  /\ toServer' \in Seq(Request) /\ mNextId' \in 0..MaxRequests /\ RepliesInOrder'
         /\ \A i \in 1..Len(toServer') :
              toServer'[i].id = mNextId' - 1 => toServer'[i].kind = kind
<1> DEFINE p == [stream |-> "client", id |-> mNextId, kind |-> kind]
<1>1. /\ p \in Request /\ toServer \in Seq(Request) /\ toServer' = Append(toServer, p)
      /\ mNextId \in Nat /\ mNextId' = mNextId + 1 /\ mNextId < MaxRequests
      /\ answered \in Nat /\ answered <= mNextId
      BY DEF TypeOK, Send, Request, Counted
<1>2. p.stream = "client" /\ p.id = mNextId /\ p.kind = kind
      OBVIOUS
<1> HIDE DEF p
<1>3. /\ Append(toServer, p) \in Seq(Request) /\ Len(Append(toServer, p)) = Len(toServer) + 1
      /\ Len(toServer) \in Nat /\ Append(toServer, p)[Len(toServer) + 1] = p
      /\ \A k \in 1..Len(toServer) : Append(toServer, p)[k] = toServer[k]
      BY <1>1, Appended
<1>4. Ids(Append(toServer, p), "client") = Ids(toServer, "client") \cup {mNextId}
      BY <1>1, <1>2, IdsAppend
<1>5. Ids(toServer, "client") \subseteq answered..(mNextId - 1)
      BY DEF RepliesInOrder
<1>6. Ascending(Append(toServer, p), "client")
  <2>1. \A a \in Ids(toServer, "client") : a < p.id
        BY <1>1, <1>2, <1>5
  <2> QED BY <1>1, <2>1, AscendingAppend DEF RepliesInOrder
<1>7. RepliesInOrder'
  <2> DEFINE A == Ids(replies, "client")
             B == Ids(toClient, "client")
             C == Ids(toServer, "client")
  <2>1. /\ Below(A, B) /\ Below(A \cup B, C) /\ A \cup B \cup C \subseteq answered..(mNextId - 1)
        /\ serving => A \cup B \cup C = answered..(mNextId - 1)
        BY DEF RepliesInOrder
  <2>2. Ids(toServer', "client") = C \cup {mNextId}
        BY <1>1, <1>4
  <2> HIDE DEF A, B, C
  <2>3. Below(A \cup B, C \cup {mNextId})
        BY <1>1, <2>1 DEF Below
  <2>4. A \cup B \cup (C \cup {mNextId}) \subseteq answered..(mNextId' - 1)
        BY <1>1, <2>1
  <2>5. serving => A \cup B \cup (C \cup {mNextId}) = answered..(mNextId' - 1)
        BY <1>1, <2>1
  <2>6. Ascending(replies, "client") /\ Ascending(toClient, "client") /\ Ascending(toServer', "client")
        BY <1>1, <1>6 DEF RepliesInOrder
  <2>7. /\ Ids(replies, "client")' = A /\ Ids(toClient, "client")' = B
        /\ Ids(toServer, "client")' = C \cup {mNextId}
        BY <2>2 DEF A, B
  <2> QED BY <2>1, <2>3, <2>4, <2>5, <2>6, <2>7 DEF RepliesInOrder
<1>8. \A i \in 1..Len(toServer') : toServer'[i].id = mNextId' - 1 => toServer'[i].kind = kind
  <2>1. ASSUME NEW i \in 1..Len(toServer) PROVE toServer[i].id # mNextId
    <3>1. toServer[i].id \in Ids(toServer, "client")
      <4>1. toServer[i] \in Request
            BY <1>1
      <4> QED BY <4>1 DEF Ids, Request
    <3> QED BY <1>1, <1>5, <3>1
  <2>2. ASSUME NEW i \in 1..Len(Append(toServer, p)), Append(toServer, p)[i].id = mNextId
        PROVE  Append(toServer, p)[i].kind = kind
    <3>1. i \notin 1..Len(toServer)
          BY <1>3, <2>1, <2>2
    <3> QED BY <1>2, <1>3, <3>1
  <2> QED BY <1>1, <2>2
<1> QED BY <1>1, <1>3, <1>7, <1>8

-----------------------------------------------------------------------------
(* Reading.                                                                  *)

\* Whether a read keeps the packet for later or takes the oldest, what is left
\* is in order, and what it took is one of the ids not answered so far.
LEMMA ReadReplies ==
  ASSUME TypeOK, RepliesInOrder, Work, UNCHANGED <<mNextId, serving>>,
         NEW q, q = Queued(replies, "client")
  PROVE  /\ q \in Seq(Packet) /\ toClient' \in Seq(Packet) /\ toServer' = toServer
         /\ \A i \in 1..Len(q) : q[i].stream = "client"
         /\ replies' = q /\ answered' = answered => RepliesInOrder'
         /\ q # <<>> => Head(q) \in Packet /\ Head(q).id \in answered..(mNextId - 1)
         /\ q # <<>> /\ replies' = Tail(q) /\ answered' = answered + 1 => RepliesInOrder'
<1> DEFINE A == Ids(replies, "client")
           B == Ids(toClient, "client")
           C == Ids(toServer, "client")
           Q == Ids(q, "client")
           D == Ids(toClient', "client")
<1>1. /\ toClient \in Seq(Packet) /\ replies \in Seq(Packet)
      /\ \A i \in 1..Len(replies) : replies[i].stream = "client"
      /\ mNextId \in Nat /\ answered \in Nat
      BY DEF TypeOK
<1>2. /\ Below(A, B) /\ Below(A \cup B, C) /\ A \cup B \cup C \subseteq answered..(mNextId - 1)
      /\ serving => A \cup B \cup C = answered..(mNextId - 1)
      /\ Ascending(replies, "client") /\ Ascending(toClient, "client") /\ Ascending(toServer, "client")
      BY DEF RepliesInOrder
<1>3. /\ q \in Seq(Packet) /\ toClient' \in Seq(Packet)
      /\ \A i \in 1..Len(q) : q[i].stream = "client"
      /\ Ascending(q, "client") /\ Ascending(toClient', "client")
      /\ Below(Q, D) /\ Q \cup D = A \cup B
      BY <1>1, <1>2, Moved
<1>4. toServer' = toServer
      BY DEF Work
<1>5. /\ Ids(toClient, "client")' = D /\ Ids(toServer, "client")' = C
      /\ Ascending(toClient, "client")' /\ Ascending(toServer, "client")'
      BY <1>2, <1>3, <1>4
<1>6. ASSUME replies' = q, answered' = answered PROVE RepliesInOrder'
  <2>1. Ids(replies, "client")' = Q /\ Ascending(replies, "client")'
        BY <1>3, <1>6
  <2> HIDE DEF A, B, C, D, Q
  <2> QED BY <1>2, <1>3, <1>5, <1>6, <2>1 DEF RepliesInOrder
<1>7. ASSUME q # <<>>
      PROVE  /\ Head(q) \in Packet /\ Head(q).id \in answered..(mNextId - 1)
             /\ replies' = Tail(q) /\ answered' = answered + 1 => RepliesInOrder'
  <2> DEFINE h == Head(q)
             T == Ids(Tail(q), "client")
  <2>1. h \in Packet /\ h.stream = "client"
        BY <1>3, <1>7, Shortened
  <2>2. /\ Q = T \cup {h.id} /\ Ascending(Tail(q), "client") /\ \A a \in T : h.id < a
        BY <1>3, <1>7, <2>1, IdsTail, AscendingTail
  <2>3. h.id \in Nat
        BY <2>1 DEF Packet
  <2> HIDE DEF A, B, C, D, Q, T, h
  <2>4. h.id \in answered..(mNextId - 1)
        BY <1>2, <1>3, <2>2
  <2>5. \A a \in T \cup D \cup C : h.id < a
        BY <1>2, <1>3, <2>2 DEF Below
  <2>6. T \cup D \cup C \subseteq (answered + 1)..(mNextId - 1)
    <3>1. T \cup D \cup C \subseteq answered..(mNextId - 1)
          BY <1>2, <1>3, <2>2
    <3> QED BY <1>1, <2>3, <2>4, <2>5, <3>1
  <2>7. serving => T \cup D \cup C = (answered + 1)..(mNextId - 1)
    <3>1. ASSUME serving PROVE (answered + 1)..(mNextId - 1) \subseteq T \cup D \cup C
      <4>1. A \cup B \cup C = answered..(mNextId - 1) /\ answered \in A \cup B \cup C
            BY <1>1, <1>2, <2>3, <2>4, <3>1
      <4>2. answered \in T \cup D \cup C \/ answered = h.id
            BY <1>3, <2>2, <4>1
      <4>3. answered = h.id
            BY <1>1, <2>3, <2>4, <2>6, <4>2
      <4>4. ASSUME NEW a \in (answered + 1)..(mNextId - 1) PROVE a \in T \cup D \cup C
        <5>1. a \in answered..(mNextId - 1) /\ a # answered
              BY <1>1
        <5>2. a \in Q \cup D \cup C /\ a # h.id
              BY <1>3, <4>1, <4>3, <5>1
        <5> QED BY <2>2, <5>2
      <4> QED BY <4>4
    <3> QED BY <2>6, <3>1
  <2>8. Below(T, D) /\ Below(T \cup D, C)
        BY <1>2, <1>3, <2>2 DEF Below
  <2>9. ASSUME replies' = Tail(q), answered' = answered + 1 PROVE RepliesInOrder'
    <3>1. Ids(replies, "client")' = T /\ Ascending(replies, "client")'
          BY <2>2, <2>9 DEF T
    <3> QED BY <1>5, <2>6, <2>7, <2>8, <2>9, <3>1 DEF RepliesInOrder
  <2> QED BY <2>1, <2>4, <2>9 DEF h
<1> QED BY <1>3, <1>4, <1>6, <1>7

\* Posts read and kept, and posts read and shown.
LEMMA ReadPosts ==
  ASSUME TypeOK, PostsInOrder, Work, UNCHANGED <<broadcast, serving>>,
         NEW q, q = Queued(pushed, "message")
  PROVE  /\ q \in Seq(Packet) /\ \A i \in 1..Len(q) : q[i].stream = "message"
         /\ pushed' = q /\ mMessages' = mMessages => PostsInOrder'
         /\ pushed' = <<>> /\ mMessages' = mMessages \o [i \in 1..Len(q) |-> q[i].id]
              => mMessages' \in Seq(Nat) /\ PostsInOrder'
<1> DEFINE M == mMessages
           A == Ids(pushed, "message")
           B == Ids(toClient, "message")
           Q == Ids(q, "message")
           D == Ids(toClient', "message")
<1>1. /\ toClient \in Seq(Packet) /\ pushed \in Seq(Packet) /\ M \in Seq(Nat)
      /\ \A i \in 1..Len(pushed) : pushed[i].stream = "message"
      /\ broadcast \in Nat
      BY DEF TypeOK
<1>2. /\ \A i, j \in 1..Len(M) : i < j /\ M[i] # 0 /\ M[j] # 0 => M[i] < M[j]
      /\ Ascending(pushed, "message") /\ Ascending(toClient, "message")
      /\ Below(ShownPosts, A) /\ Below(ShownPosts \cup A, B)
      /\ ShownPosts \cup A \cup B \subseteq 1..broadcast
      /\ serving => ShownPosts \cup A \cup B = 1..broadcast
      BY DEF PostsInOrder
<1>3. Below(A, B)
      BY <1>2 DEF Below
<1>4. /\ q \in Seq(Packet) /\ toClient' \in Seq(Packet)
      /\ \A i \in 1..Len(q) : q[i].stream = "message"
      /\ Ascending(q, "message") /\ Ascending(toClient', "message")
      /\ Below(Q, D) /\ Q \cup D = A \cup B
      BY <1>1, <1>2, <1>3, Moved
<1>5. Ids(toClient, "message")' = D /\ Ascending(toClient, "message")'
      BY <1>4
<1>6. /\ Below(ShownPosts, Q) /\ Below(ShownPosts \cup Q, D)
      /\ ShownPosts \cup Q \cup D \subseteq 1..broadcast
      /\ serving => ShownPosts \cup Q \cup D = 1..broadcast
  <2> HIDE DEF A, B, D, Q
  <2> QED BY <1>2, <1>4 DEF Below
<1>7. ASSUME pushed' = q, mMessages' = mMessages PROVE PostsInOrder'
  <2>1. Ids(pushed, "message")' = Q /\ Ascending(pushed, "message")' /\ ShownPosts' = ShownPosts
        BY <1>4, <1>7 DEF ShownPosts
  <2>2. \A i, j \in 1..Len(mMessages') :
          i < j /\ mMessages'[i] # 0 /\ mMessages'[j] # 0 => mMessages'[i] < mMessages'[j]
        BY <1>2, <1>7
  <2> HIDE DEF A, B, D, Q
  <2> QED BY <1>5, <1>6, <2>1, <2>2 DEF PostsInOrder
<1>8. ASSUME pushed' = <<>>, mMessages' = mMessages \o [i \in 1..Len(q) |-> q[i].id]
      PROVE  mMessages' \in Seq(Nat) /\ PostsInOrder'
  <2> DEFINE F == [i \in 1..Len(q) |-> q[i].id]
             N == mMessages'
  <2>1. /\ F \in Seq(Nat) /\ Len(F) = Len(q) /\ Len(q) \in Nat
        /\ \A i \in 1..Len(q) : F[i] = q[i].id /\ q[i].id \in Nat /\ F[i] \in Q
    <3>1. \A i \in 1..Len(q) : q[i] \in Packet
          BY <1>4
    <3>2. \A i \in 1..Len(q) : q[i].id \in Nat /\ q[i].id \in Q
          BY <1>4, <3>1 DEF Packet, Ids
    <3>3. F \in [1..Len(q) -> Nat]
          BY <3>2
    <3> QED BY <1>4, <3>2, <3>3
  <2>2. N = M \o F
        BY <1>8
  <2> HIDE DEF F, N
  <2>3. /\ N \in Seq(Nat) /\ Len(N) = Len(M) + Len(q) /\ Len(M) \in Nat
        /\ \A i \in 1..Len(M) : N[i] = M[i]
        /\ \A i \in 1..Len(q) : N[Len(M) + i] = F[i]
    <3>1. /\ M \o F \in Seq(Nat) /\ Len(M \o F) = Len(M) + Len(F) /\ Len(M) \in Nat
          /\ \A k \in 1..Len(M) : (M \o F)[k] = M[k]
          /\ \A k \in 1..Len(F) : (M \o F)[Len(M) + k] = F[k]
      <4>1. M \in Seq(Nat) /\ F \in Seq(Nat)
            BY <1>1, <2>1
      <4> HIDE DEF M
      <4> QED BY <4>1, Joined
    <3> HIDE DEF M
    <3> QED BY <2>1, <2>2, <3>1
  <2> DEFINE shown == {N[i] : i \in 1..Len(N)} \ {0}
  <2>4. \A i \in 1..Len(N) : i > Len(M) => i - Len(M) \in 1..Len(q) /\ N[i] = F[i - Len(M)]
    <3> SUFFICES ASSUME NEW i \in 1..Len(N), i > Len(M)
                 PROVE  i - Len(M) \in 1..Len(q) /\ N[i] = F[i - Len(M)]
        OBVIOUS
    <3>1. i - Len(M) \in 1..Len(q) /\ Len(M) + (i - Len(M)) = i
          BY <2>1, <2>3
    <3> QED BY <2>3, <3>1
  <2>5. shown = ShownPosts \cup Q
    <3>1. ASSUME NEW a \in shown PROVE a \in ShownPosts \cup Q
      <4>1. PICK i \in 1..Len(N) : a = N[i] /\ a # 0
            OBVIOUS
      <4>2. CASE i <= Len(M)
        <5>1. i \in 1..Len(M)
              BY <2>3, <4>2
        <5> QED BY <2>3, <4>1, <5>1 DEF ShownPosts
      <4>3. CASE i > Len(M)
            BY <2>1, <2>4, <4>1, <4>3
      <4> QED BY <2>3, <4>2, <4>3
    <3>2. ASSUME NEW a \in ShownPosts PROVE a \in shown
      <4>1. PICK i \in 1..Len(M) : a = M[i] /\ a # 0
            BY DEF ShownPosts
      <4>2. i \in 1..Len(N) /\ N[i] = a
            BY <2>1, <2>3, <4>1
      <4> QED BY <4>1, <4>2
    <3>3. ASSUME NEW a \in Q PROVE a \in shown
      <4>1. PICK i \in 1..Len(q) : a = q[i].id
            BY DEF Ids
      <4>2. Len(M) + i \in 1..Len(N) /\ N[Len(M) + i] = a
            BY <2>1, <2>3, <4>1
      <4>3. a # 0
            BY <1>1, <1>6
      <4> QED BY <4>2, <4>3
    <3> QED BY <3>1, <3>2, <3>3
  <2>6. ASSUME NEW i \in 1..Len(N), NEW j \in 1..Len(N), i < j, N[i] # 0, N[j] # 0
        PROVE  N[i] < N[j]
    <3>1. CASE j <= Len(M)
      <4>1. i \in 1..Len(M) /\ j \in 1..Len(M)
            BY <2>3, <2>6, <3>1
      <4> QED BY <1>2, <2>3, <2>6, <4>1
    <3>2. CASE i <= Len(M) /\ j > Len(M)
      <4>1. i \in 1..Len(M)
            BY <2>3, <3>2
      <4>2. N[i] \in ShownPosts
            BY <2>3, <2>6, <4>1 DEF ShownPosts
      <4>3. N[j] \in Q
            BY <2>1, <2>4, <3>2
      <4> QED BY <1>6, <4>2, <4>3 DEF Below
    <3>3. CASE i > Len(M)
      <4> DEFINE k == i - Len(M)
                 l == j - Len(M)
      <4>1. j > Len(M) /\ k < l
            BY <2>3, <2>6, <3>3
      <4>2. k \in 1..Len(q) /\ l \in 1..Len(q) /\ N[i] = F[k] /\ N[j] = F[l]
            BY <2>4, <3>3, <4>1
      <4> HIDE DEF k, l
      <4>3. N[i] = q[k].id /\ N[j] = q[l].id
            BY <2>1, <4>2
      <4> QED BY <1>4, <4>1, <4>2, <4>3 DEF Ascending
    <3> QED BY <2>3, <3>1, <3>2, <3>3
  <2>7. /\ ShownPosts' = ShownPosts \cup Q
        /\ Ids(pushed, "message")' = {} /\ Ascending(pushed, "message")'
        BY <1>8, <2>5, IdsEmpty DEF ShownPosts, N
  <2>8. \A i, j \in 1..Len(mMessages') :
          i < j /\ mMessages'[i] # 0 /\ mMessages'[j] # 0 => mMessages'[i] < mMessages'[j]
        BY <2>6 DEF N
  <2>9. mMessages' \in Seq(Nat)
        BY <2>3 DEF N
  <2> HIDE DEF A, B, D, Q, M, shown
  <2>10. Below(ShownPosts \cup Q, {}) /\ Below(ShownPosts \cup Q \cup {}, D)
         BY <1>6 DEF Below
  <2> QED BY <1>5, <1>6, <2>7, <2>8, <2>9, <2>10 DEF PostsInOrder
<1> QED BY <1>4, <1>7, <1>8

\* Between requests a client without session has nothing to read.
LEMMA NothingToRead ==
  ASSUME IInv, mCurrentSession = "none", call \notin Calls
  PROVE  toClient = <<>> /\ replies = <<>> /\ (loggedIn => ~serving)
<1>1. TypeOK /\ RepliesInOrder /\ Counted /\ NoSession
      BY DEF IInv
<1>2. call # "login"
      BY DEF Calls
<1>3. /\ replies = <<>> /\ (loggedIn => ~serving /\ toClient = <<>>)
      /\ unread = 0 \/ (~serving /\ toClient = <<>>)
      /\ ~loggedIn => \A i \in 1..Len(toClient) : toClient[i].stream = "client"
      BY <1>1, <1>2 DEF NoSession
<1>4. ASSUME toClient # <<>> PROVE FALSE
  <2>1. unread = 0 /\ ~loggedIn
        BY <1>3, <1>4
  <2>2. mNextId = answered /\ answered \in Nat
        BY <1>1, <2>1 DEF Counted, TypeOK
  <2>3. Ids(toClient, "client") \subseteq answered..(mNextId - 1)
        BY <1>1 DEF RepliesInOrder
  <2>4. 1 \in 1..Len(toClient)
        BY <1>1, <1>4, Shortened DEF TypeOK
  <2>5. toClient[1].id \in Ids(toClient, "client")
        BY <1>3, <2>1, <2>4 DEF Ids
  <2> QED BY <2>2, <2>3, <2>5
<1> QED BY <1>3, <1>4

-----------------------------------------------------------------------------
(* The steps of the client.                                                  *)

LEMMA PostsKept ==
  ASSUME PostsInOrder, UNCHANGED <<pushed, toClient, mMessages, broadcast, serving>>
  PROVE  PostsInOrder'
BY DEF PostsInOrder, ShownPosts, Ids, Ascending

LEMMA StepAsk ==
  ASSUME IInv, NEW kind \in Calls, Ask(kind)
  PROVE  IInv'
<1>1. /\ TypeOK /\ RepliesInOrder /\ PostsInOrder /\ Counted /\ InStep /\ OwnSession /\ NoSession
      /\ Send(kind) /\ call = "idle" /\ MayAsk(kind) /\ mNextId' = mNextId + 1
      BY DEF IInv, Ask, Send
<1>2. /\ call' = kind /\ UNCHANGED <<toClient, replies, pushed, mMessages, mCurrentSession,
                                     mCurrentLobby, serving, loggedIn, broadcast, answered, unread>>
      BY DEF Ask, muxVars, serverVars, historyVars
<1>3. /\ toServer' \in Seq(Request) /\ mNextId' \in 0..MaxRequests /\ RepliesInOrder'
      /\ \A i \in 1..Len(toServer') : toServer'[i].id = mNextId' - 1 => toServer'[i].kind = kind
      BY <1>1, <1>2, Sent
<1>4. TypeOK'
      BY <1>1, <1>2, <1>3 DEF TypeOK
<1>5. PostsInOrder'
      BY <1>1, <1>2, PostsKept
<1>6. Counted'
      BY <1>1, <1>2 DEF Counted, Calls, TypeOK
<1>7. InStep' /\ OwnSession'
      BY <1>1, <1>2 DEF InStep, OwnSession
<1>8. NoSession'
  <2>1. call' = "login" => mCurrentSession' = "none"
        BY <1>1, <1>2 DEF MayAsk
  <2>2. ASSUME mCurrentSession = "none"
        PROVE  /\ toClient = <<>> /\ replies = <<>> /\ (loggedIn => ~serving)
               /\ unread = 0 \/ (~serving /\ toClient = <<>>)
               /\ ~loggedIn => \A i \in 1..Len(toClient) : toClient[i].stream = "client"
    <3>1. call \notin Calls
          BY <1>1 DEF Calls
    <3> QED BY <1>1, <2>2, <3>1, NothingToRead DEF NoSession
  <2> QED BY <1>2, <1>3, <2>1, <2>2 DEF NoSession
<1> QED BY <1>3, <1>4, <1>5, <1>6, <1>7, <1>8 DEF IInv

\* A client with a session sends and does not read.
LEMMA StepSendOnly ==
  ASSUME IInv, SendMessage \/ LeaveLobby
  PROVE  IInv'
<1>1. /\ TypeOK /\ RepliesInOrder /\ PostsInOrder /\ Counted /\ InStep /\ OwnSession /\ NoSession
      BY DEF IInv
<1>2. PICK kind \in {"post", "leave"} :
        Send(kind) /\ MayAsk(kind) /\ call = "idle" /\ mNextId' = mNextId + 1
      BY DEF SendMessage, LeaveLobby, Send
<1>3. /\ UNCHANGED <<toClient, replies, pushed, mCurrentSession, call,
                     serving, loggedIn, broadcast, answered>>
      /\ unread' = unread + 1 /\ mCurrentLobby' \in {mCurrentLobby, "none"}
      /\ mMessages' = mMessages \/ mMessages' = Append(mMessages, 0)
      BY DEF SendMessage, LeaveLobby, muxVars, serverVars
<1>4. /\ toServer' \in Seq(Request) /\ mNextId' \in 0..MaxRequests /\ RepliesInOrder'
  <2>1. kind \in Calls \cup Sends
        BY DEF Sends
  <2> QED BY <1>1, <1>2, <1>3, <2>1, Sent
<1>5. mMessages' \in Seq(Nat) /\ PostsInOrder'
  <2>1. CASE mMessages' = mMessages
        BY <1>1, <1>3, <2>1, PostsKept DEF TypeOK
  <2>2. CASE mMessages' = Append(mMessages, 0)
    <3> DEFINE M == mMessages
               N == mMessages'
    <3>1. M \in Seq(Nat) /\ 0 \in Nat
          BY <1>1 DEF TypeOK
    <3>2. /\ N \in Seq(Nat) /\ Len(N) = Len(M) + 1 /\ Len(M) \in Nat /\ N[Len(M) + 1] = 0
          /\ \A k \in 1..Len(M) : N[k] = M[k]
          BY <2>2, <3>1, Appended
    <3>3. \A k \in 1..Len(N) : N[k] # 0 => k \in 1..Len(M) /\ N[k] = M[k]
          BY <3>2
    <3>4. \A k \in 1..Len(M) : k \in 1..Len(N) /\ N[k] = M[k]
          BY <3>2
    <3>5. ShownPosts' = ShownPosts
          BY <3>3, <3>4 DEF ShownPosts
    <3>6. \A i, j \in 1..Len(M) : i < j /\ M[i] # 0 /\ M[j] # 0 => M[i] < M[j]
          BY <1>1 DEF PostsInOrder
    <3>7. \A i, j \in 1..Len(N) : i < j /\ N[i] # 0 /\ N[j] # 0 => N[i] < N[j]
          BY <3>3, <3>6
    <3>8. PostsInOrder'
          BY <1>1, <1>3, <3>5, <3>7 DEF PostsInOrder
    <3> QED BY <3>2, <3>8
  <2> QED BY <1>3, <2>1, <2>2
<1>6. TypeOK'
      BY <1>1, <1>3, <1>4, <1>5 DEF TypeOK
<1>7. Counted' /\ InStep' /\ OwnSession'
  <2>1. Counted'
        BY <1>1, <1>2, <1>3 DEF Counted, TypeOK
  <2>2. InStep' /\ OwnSession'
        BY <1>1, <1>3 DEF InStep, OwnSession, TypeOK
  <2> QED BY <2>1, <2>2
<1>8. NoSession'
  <2>1. mCurrentSession # "none"
        BY <1>2 DEF MayAsk
  <2> QED BY <1>2, <1>3, <2>1 DEF NoSession
<1> QED BY <1>4, <1>5, <1>6, <1>7, <1>8 DEF IInv

LEMMA StepSendFails ==
  ASSUME IInv, SendFails
  PROVE  IInv'
<1>1. /\ TypeOK /\ RepliesInOrder /\ PostsInOrder /\ Counted /\ InStep /\ OwnSession /\ NoSession
      BY DEF IInv
<1>2. PICK kind \in Calls \cup Sends : Send(kind) /\ call = "idle" /\ mNextId' = mNextId + 1
      BY DEF SendFails, Send
<1>3. /\ ~serving /\ unread' = unread + 1
      /\ UNCHANGED <<toClient, replies, pushed, mMessages, mCurrentSession, mCurrentLobby, call,
                     serving, loggedIn, broadcast, answered>>
      BY DEF SendFails, muxVars, serverVars
<1>4. /\ toServer' \in Seq(Request) /\ mNextId' \in 0..MaxRequests /\ RepliesInOrder'
      BY <1>1, <1>2, <1>3, Sent
<1>5. TypeOK' /\ PostsInOrder'
      BY <1>1, <1>3, <1>4, PostsKept DEF TypeOK
<1>6. Counted' /\ InStep' /\ OwnSession'
  <2>1. Counted'
        BY <1>1, <1>2, <1>3 DEF Counted, TypeOK
  <2>2. InStep' /\ OwnSession'
        BY <1>1, <1>3 DEF InStep, OwnSession, TypeOK
  <2> QED BY <2>1, <2>2
<1>7. NoSession'
  <2>1. call \notin Calls
        BY <1>2 DEF Calls
  <2>2. mCurrentSession = "none" => toClient = <<>> /\ replies = <<>>
        BY <2>1, NothingToRead
  <2>3. mCurrentSession = "none" /\ ~loggedIn =>
          \A i \in 1..Len(toClient) : toClient[i].stream = "client"
        BY <1>1 DEF NoSession
  <2> QED BY <1>2, <1>3, <2>1, <2>2, <2>3 DEF NoSession
<1> QED BY <1>4, <1>5, <1>6, <1>7 DEF IInv

LEMMA StepPoll ==
  ASSUME IInv, Poll
  PROVE  IInv'
<1>1. /\ TypeOK /\ RepliesInOrder /\ PostsInOrder /\ Counted /\ InStep /\ OwnSession /\ NoSession
      /\ call = "idle" /\ call' \in {"work", "refresh"}
      BY DEF IInv, Poll
<1>2. UNCHANGED <<toServer, toClient, replies, pushed, mMessages, mNextId, mCurrentSession,
                  mCurrentLobby, serving, loggedIn, broadcast, answered, unread>>
      BY DEF Poll, netVars, muxVars, idVars, serverVars, historyVars
<1>3. TypeOK'
      BY <1>1, <1>2 DEF TypeOK
<1>4. RepliesInOrder' /\ PostsInOrder'
      BY <1>1, <1>2, PostsKept DEF RepliesInOrder
<1>5. call \notin Calls /\ call' \notin Calls
      BY <1>1 DEF Calls
<1>6. Counted' /\ InStep' /\ OwnSession'
      BY <1>1, <1>2, <1>5 DEF Counted, InStep, OwnSession
<1>7. NoSession'
      BY <1>1, <1>2, <1>5 DEF NoSession
<1> QED BY <1>3, <1>4, <1>6, <1>7 DEF IInv

LEMMA StepStutter ==
  ASSUME IInv, UNCHANGED vars
  PROVE  IInv'
<1>1. UNCHANGED <<toServer, toClient, replies, pushed, mMessages, mNextId, mCurrentSession,
                  mCurrentLobby, call, serving, loggedIn, broadcast, answered, unread>>
      BY DEF vars, netVars, muxVars, idVars, serverVars, historyVars
<1>2. TypeOK' /\ RepliesInOrder'
      BY <1>1 DEF IInv, TypeOK, RepliesInOrder
<1>3. PostsInOrder'
      BY <1>1, PostsKept DEF IInv
<1>4. Counted' /\ InStep' /\ OwnSession' /\ NoSession'
      BY <1>1 DEF IInv, Counted, InStep, OwnSession, NoSession
<1> QED BY <1>2, <1>3, <1>4 DEF IInv

\* A read that finds nothing leaves everything as it is.
LEMMA ReadNothing ==
  ASSUME Work, toClient = <<>>, NEW queue, NEW st \in {"client", "message"}
  PROVE  ~serving /\ toClient' = toClient /\ Queued(queue, st) = queue
BY DEF Work, HasRead, Queued, NextPacket, NoPacket

LEMMA StepEnd ==
  ASSUME IInv, EndWork \/ EndRefresh
  PROVE  IInv'
<1> DEFINE q == Queued(replies, "client")
           p == Queued(pushed, "message")
<1>1. /\ TypeOK /\ RepliesInOrder /\ PostsInOrder /\ Counted /\ InStep /\ OwnSession /\ NoSession
      BY DEF IInv
<1>2. /\ Work /\ replies' = q /\ call \in {"work", "refresh"} /\ call' = "idle"
      /\ UNCHANGED <<mNextId, mCurrentSession, mCurrentLobby, serving, loggedIn, broadcast,
                     answered, unread>>
      BY DEF EndWork, EndRefresh, idVars, serverVars, historyVars
<1>3. /\ q \in Seq(Packet) /\ toClient' \in Seq(Packet) /\ toServer' = toServer
      /\ \A i \in 1..Len(q) : q[i].stream = "client"
      /\ RepliesInOrder'
      BY <1>1, <1>2, ReadReplies
<1>4. /\ mMessages' \in Seq(Nat) /\ PostsInOrder'
      /\ pushed' \in Seq(Packet) /\ \A i \in 1..Len(pushed') : pushed'[i].stream = "message"
  <2>1. /\ p \in Seq(Packet) /\ \A i \in 1..Len(p) : p[i].stream = "message"
        /\ pushed' = p /\ mMessages' = mMessages => PostsInOrder'
        /\ pushed' = <<>> /\ mMessages' = mMessages \o [i \in 1..Len(p) |-> p[i].id]
             => mMessages' \in Seq(Nat) /\ PostsInOrder'
        BY <1>1, <1>2, ReadPosts
  <2>2. CASE EndWork
    <3>1. pushed' = p /\ mMessages' = mMessages /\ mMessages \in Seq(Nat)
          BY <1>1, <2>2 DEF EndWork, TypeOK
    <3> HIDE DEF p
    <3> QED BY <2>1, <3>1
  <2>3. CASE EndRefresh
    <3>1. pushed' = <<>> /\ mMessages' = mMessages \o [i \in 1..Len(p) |-> p[i].id]
          BY <2>3 DEF EndRefresh, Shown
    <3>2. <<>> \in Seq(Packet) /\ \A i \in 1..Len(<<>>) : <<>>[i].stream = "message"
          OBVIOUS
    <3> HIDE DEF p
    <3> QED BY <2>1, <3>1, <3>2
  <2> QED BY <2>2, <2>3
<1> HIDE DEF q, p
<1>5. TypeOK'
      BY <1>1, <1>2, <1>3, <1>4 DEF TypeOK
<1>6. call \notin Calls /\ call' \notin Calls /\ call' # "login"
      BY <1>2 DEF Calls
<1>7. Counted' /\ InStep' /\ OwnSession'
      BY <1>1, <1>2, <1>6 DEF Counted, InStep, OwnSession
<1>8. NoSession'
  <2>1. ASSUME mCurrentSession = "none"
        PROVE  /\ toClient' = <<>> /\ replies' = <<>> /\ (loggedIn => ~serving)
               /\ unread = 0 \/ ~serving
    <3>1. toClient = <<>> /\ replies = <<>> /\ (loggedIn => ~serving)
          BY <1>6, <2>1, NothingToRead
    <3>2. toClient' = toClient /\ q = replies
          BY <1>2, <3>1, ReadNothing DEF q
    <3> QED BY <1>1, <1>2, <2>1, <3>1, <3>2 DEF NoSession
  <2>2. \A i \in 1..Len(<<>>) : <<>>[i].stream = "client"
        OBVIOUS
  <2> QED BY <1>2, <1>6, <2>1, <2>2 DEF NoSession
<1> QED BY <1>3, <1>4, <1>5, <1>7, <1>8 DEF IInv

LEMMA StepMissReply ==
  ASSUME IInv, MissReply
  PROVE  IInv'
<1> DEFINE q == Queued(replies, "client")
           p == Queued(pushed, "message")
<1>1. /\ TypeOK /\ RepliesInOrder /\ PostsInOrder /\ Counted /\ InStep /\ OwnSession /\ NoSession
      BY DEF IInv
<1>2. /\ Work /\ call \in Calls /\ call' = "idle" /\ q = <<>> /\ pushed' = p
      /\ unread' = unread + 1
      /\ UNCHANGED <<replies, mMessages, mNextId, mCurrentSession, mCurrentLobby,
                     serving, loggedIn, broadcast, answered>>
      BY DEF MissReply, idVars, serverVars
<1>3. replies = <<>> /\ (toClient = <<>> \/ Head(toClient).stream # "client")
  <2>1. q \in {replies, Append(replies, NextPacket)}
        BY DEF Queued
  <2>2. toClient # <<>> => NextPacket \in Packet
        BY <1>1, Shortened DEF NextPacket, TypeOK
  <2>3. toClient # <<>> /\ Head(toClient).stream = "client" => q = Append(replies, NextPacket)
        BY DEF Queued, NextPacket
  <2>4. toClient = <<>> => q = replies
        BY DEF Queued, NextPacket, NoPacket
  <2>5. toClient # <<>> => Append(replies, NextPacket) # <<>>
    <3>1. ASSUME toClient # <<>> PROVE Len(Append(replies, NextPacket)) = Len(replies) + 1 /\ Len(replies) \in Nat
          BY <1>1, <2>2, <3>1, Appended DEF TypeOK
    <3> QED BY <3>1
  <2> QED BY <1>2, <2>1, <2>3, <2>4, <2>5
<1>4. /\ q \in Seq(Packet) /\ toClient' \in Seq(Packet) /\ toServer' = toServer
      /\ replies' = q /\ answered' = answered => RepliesInOrder'
      BY <1>1, <1>2, ReadReplies
<1>5. /\ p \in Seq(Packet) /\ \A i \in 1..Len(p) : p[i].stream = "message"
      /\ pushed' = p /\ mMessages' = mMessages => PostsInOrder'
      BY <1>1, <1>2, ReadPosts
<1> HIDE DEF q, p
<1>6. RepliesInOrder' /\ PostsInOrder'
      BY <1>2, <1>3, <1>4, <1>5
<1>7. TypeOK'
      BY <1>1, <1>2, <1>4, <1>5 DEF TypeOK
<1>8. call' \notin Calls /\ call' # "login"
      BY <1>2 DEF Calls
<1>9. Counted' /\ InStep' /\ OwnSession'
      BY <1>1, <1>2, <1>8 DEF Counted, InStep, OwnSession, TypeOK
<1>10. NoSession'
  <2>1. ASSUME mCurrentSession = "none"
        PROVE  toClient' = <<>> /\ ~serving
    <3>1. toClient = <<>>
      <4>1. ASSUME toClient # <<>> PROVE Head(toClient).stream = "client"
        <5>1. /\ loggedIn => Head(toClient).stream = "client"
              /\ ~loggedIn => \A i \in 1..Len(toClient) : toClient[i].stream = "client"
              BY <1>1, <2>1, <4>1 DEF NoSession
        <5>2. 1 \in 1..Len(toClient) /\ Head(toClient) = toClient[1]
              BY <1>1, <4>1, Shortened DEF TypeOK
        <5> QED BY <5>1, <5>2
      <4> QED BY <1>3, <4>1
    <3> QED BY <1>2, <3>1, ReadNothing
  <2>2. \A i \in 1..Len(<<>>) : <<>>[i].stream = "client"
        OBVIOUS
  <2> QED BY <1>2, <1>3, <1>8, <2>1, <2>2 DEF NoSession
<1> QED BY <1>6, <1>7, <1>9, <1>10 DEF IInv

\* The response a request takes is one of the ids not answered so far; when none
\* was left unread, there is only its own.
LEMMA StepTakeReply ==
  ASSUME IInv, TakeReply
  PROVE  IInv'
<1> DEFINE q == Queued(replies, "client")
           p == Queued(pushed, "message")
           h == Head(q)
<1>1. /\ TypeOK /\ RepliesInOrder /\ PostsInOrder /\ Counted /\ InStep /\ OwnSession /\ NoSession
      BY DEF IInv
<1>2. /\ Work /\ call \in Calls /\ call' = "idle" /\ q # <<>> /\ replies' = Tail(q) /\ pushed' = p
      /\ answered' = answered + 1
      /\ mCurrentSession' = IF call = "login" THEN Meant(h, mCurrentSession) ELSE mCurrentSession
      /\ mCurrentLobby' = IF call \in {"lobby", "join"} THEN Meant(h, mCurrentLobby)
                          ELSE mCurrentLobby
      /\ UNCHANGED <<mMessages, mNextId, serving, loggedIn, broadcast, unread>>
      BY DEF TakeReply, Popped, serverVars
<1>3. /\ q \in Seq(Packet) /\ toClient' \in Seq(Packet) /\ toServer' = toServer
      /\ \A i \in 1..Len(q) : q[i].stream = "client"
      /\ h \in Packet /\ h.id \in answered..(mNextId - 1) /\ RepliesInOrder'
      BY <1>1, <1>2, ReadReplies
<1>4. /\ p \in Seq(Packet) /\ \A i \in 1..Len(p) : p[i].stream = "message"
      /\ pushed' = p /\ mMessages' = mMessages => PostsInOrder'
      BY <1>1, <1>2, ReadPosts
<1>5. Tail(q) \in Seq(Packet) /\ \A i \in 1..Len(Tail(q)) : Tail(q)[i].stream = "client"
  <2>1. Len(Tail(q)) = Len(q) - 1 /\ Len(q) \in Nat /\ Tail(q) \in Seq(Packet)
        /\ \A k \in 1..Len(Tail(q)) : Tail(q)[k] = q[k + 1]
        BY <1>2, <1>3, Shortened
  <2>2. \A k \in 1..Len(Tail(q)) : k + 1 \in 1..Len(q)
        BY <2>1
  <2> QED BY <1>3, <2>1, <2>2
<1>6. h.ok \in BOOLEAN
      BY <1>3 DEF Packet
<1>7. mCurrentSession = "none" => unread = 0
  <2>1. ASSUME mCurrentSession = "none", toClient = <<>> PROVE FALSE
    <3>1. q = replies
          BY <1>2, <2>1, ReadNothing
    <3> QED BY <1>1, <1>2, <2>1, <3>1 DEF NoSession
  <2> QED BY <1>1, <2>1 DEF NoSession
<1>8. unread = 0 => h.id = mNextId - 1 /\ mNextId' = answered'
      BY <1>1, <1>2, <1>3 DEF Counted, TypeOK
<1>9. replies = <<>> /\ toClient # <<>> => Tail(q) = <<>>
  <2>1. ASSUME replies = <<>>, toClient # <<>> PROVE q = <<>> \/ q = Append(<<>>, NextPacket)
        BY <2>1 DEF Queued
  <2>2. Tail(Append(<<>>, NextPacket)) = <<>>
        OBVIOUS
  <2> QED BY <1>2, <2>1, <2>2
<1>10. mCurrentSession = "none" => toClient # <<>>
  <2>1. ASSUME mCurrentSession = "none", toClient = <<>> PROVE FALSE
    <3>1. q = replies
          BY <1>2, <2>1, ReadNothing
    <3> QED BY <1>1, <1>2, <2>1, <3>1 DEF NoSession
  <2> QED BY <2>1
<1> HIDE DEF q, p, h
<1>11. PostsInOrder'
      BY <1>2, <1>4
<1>12. {mCurrentSession, mCurrentLobby}' \subseteq {"none", "own", "other"}
      BY <1>1, <1>2 DEF TypeOK, Meant
<1>13. TypeOK'
      BY <1>1, <1>2, <1>3, <1>4, <1>5, <1>12 DEF TypeOK
<1>14. call' \notin Calls /\ call' # "login"
      BY <1>2 DEF Calls
<1>15. Counted'
      BY <1>1, <1>2, <1>14 DEF Counted, TypeOK
<1>16. InStep'
      BY <1>1, <1>2, <1>8 DEF InStep, Meant
<1>17. OwnSession'
      BY <1>1, <1>2, <1>7, <1>8 DEF OwnSession, Meant, NoSession
<1>18. NoSession'
  <2>1. ASSUME mCurrentSession' = "none"
        PROVE  mCurrentSession = "none" /\ (call = "login" => ~h.ok)
        BY <1>1, <1>2, <1>7, <1>8, <2>1 DEF Meant, NoSession
  <2>2. ASSUME mCurrentSession' = "none"
        PROVE  /\ replies' = <<>> /\ unread' = 0 /\ toClient # <<>> /\ ~loggedIn
               /\ \A i \in 1..Len(toClient') : toClient'[i].stream = "client"
    <3>1. replies = <<>> /\ unread = 0 /\ toClient # <<>>
          BY <1>1, <1>7, <1>10, <2>1, <2>2 DEF NoSession
    <3>2. ASSUME loggedIn PROVE FALSE
      <4>1. call = "login" /\ Head(toClient).stream = "client" /\ Head(toClient).ok
            BY <1>1, <2>1, <2>2, <3>1, <3>2 DEF NoSession
      <4>2. q = Append(<<>>, Head(toClient))
            BY <3>1, <4>1 DEF q, Queued, NextPacket
      <4>3. h = Head(toClient)
            BY <4>2 DEF h
      <4> QED BY <2>1, <2>2, <4>1, <4>3
    <3>3. \A i \in 1..Len(toClient) : toClient[i].stream = "client"
          BY <1>1, <2>1, <2>2, <3>2 DEF NoSession
    <3>4. toClient' = Tail(toClient)
          BY <1>2, <3>1 DEF Work
    <3>5. /\ Len(Tail(toClient)) = Len(toClient) - 1 /\ Len(toClient) \in Nat
          /\ \A k \in 1..Len(Tail(toClient)) : Tail(toClient)[k] = toClient[k + 1]
          BY <1>1, <3>1, Shortened DEF TypeOK
    <3>6. \A k \in 1..Len(Tail(toClient)) : k + 1 \in 1..Len(toClient)
          BY <3>5
    <3>7. \A i \in 1..Len(toClient') : toClient'[i].stream = "client"
          BY <3>3, <3>4, <3>5, <3>6
    <3>8. replies' = <<>>
          BY <1>2, <1>9, <3>1
    <3> QED BY <1>2, <3>1, <3>2, <3>7, <3>8
  <2> QED BY <1>2, <1>14, <2>2 DEF NoSession
<1> QED BY <1>3, <1>11, <1>13, <1>15, <1>16, <1>17, <1>18 DEF IInv

-----------------------------------------------------------------------------
(* The steps of the server.                                                  *)

\* The end of a connection loses packets and puts none out of order.
LEMMA HungUp ==
  ASSUME IInv, serving, Hangup,
         toServer' = toServer \/ (toServer # <<>> /\ toServer' = Tail(toServer)),
         UNCHANGED <<muxVars, mMessages, idVars, call, loggedIn, broadcast, historyVars>>
  PROVE  IInv'
<1>1. /\ TypeOK /\ RepliesInOrder /\ PostsInOrder /\ Counted /\ InStep /\ OwnSession /\ NoSession
      BY DEF IInv
<1>2. UNCHANGED <<replies, pushed, mMessages, mNextId, mCurrentSession, mCurrentLobby,
                  call, loggedIn, broadcast, answered, unread>>
      BY DEF muxVars, idVars, historyVars
<1>3. PICK n \in 0..Len(toClient) : toClient' = SubSeq(toClient, 1, n) /\ serving' = FALSE
      BY DEF Hangup
<1>4. /\ toClient' \in Seq(Packet) /\ Len(toClient') = n
      /\ \A k \in 1..n : toClient'[k] = toClient[k] /\ k \in 1..Len(toClient)
      BY <1>1, <1>3, Cut DEF TypeOK
<1>5. \A st : /\ Ids(toClient', st) \subseteq Ids(toClient, st)
              /\ Ascending(toClient, st) => Ascending(toClient', st)
      BY <1>1, <1>3, IdsCut DEF TypeOK
<1>6. /\ toServer' \in Seq(Request) /\ Ids(toServer', "client") \subseteq Ids(toServer, "client")
      /\ Ascending(toServer', "client")
      /\ \A i \in 1..Len(toServer') : \E j \in 1..Len(toServer) : toServer'[i] = toServer[j]
  <2>1. toServer \in Seq(Request) /\ Ascending(toServer, "client")
        BY <1>1 DEF TypeOK, RepliesInOrder
  <2>2. CASE toServer' = toServer
        BY <2>1, <2>2
  <2>3. CASE toServer # <<>> /\ toServer' = Tail(toServer)
    <3>1. /\ Len(Tail(toServer)) = Len(toServer) - 1 /\ Len(toServer) \in Nat
          /\ Tail(toServer) \in Seq(Request)
          /\ \A k \in 1..Len(Tail(toServer)) : Tail(toServer)[k] = toServer[k + 1]
          BY <2>1, <2>3, Shortened
    <3>2. \A k \in 1..Len(Tail(toServer)) : k + 1 \in 1..Len(toServer)
          BY <3>1
    <3>3. /\ Ids(Tail(toServer), "client") \subseteq Ids(toServer, "client")
          /\ Ascending(Tail(toServer), "client")
          BY <2>1, <2>3, IdsTail, AscendingTail
    <3> QED BY <2>3, <3>1, <3>2, <3>3
  <2> QED BY <2>2, <2>3
<1>7. TypeOK'
      BY <1>1, <1>2, <1>3, <1>4, <1>6 DEF TypeOK
<1>8. RepliesInOrder'
  <2> DEFINE A == Ids(replies, "client")
             B == Ids(toClient, "client")
             C == Ids(toServer, "client")
             D == Ids(toClient', "client")
             E == Ids(toServer', "client")
  <2>1. /\ Below(A, B) /\ Below(A \cup B, C) /\ A \cup B \cup C \subseteq answered..(mNextId - 1)
        /\ D \subseteq B /\ E \subseteq C
        BY <1>1, <1>5, <1>6 DEF RepliesInOrder
  <2>2. /\ Ids(replies, "client")' = A /\ Ids(toClient, "client")' = D
        /\ Ids(toServer, "client")' = E
        /\ Ascending(replies, "client")' /\ Ascending(toClient, "client")' /\ Ascending(toServer, "client")'
        BY <1>1, <1>2, <1>5, <1>6 DEF RepliesInOrder
  <2> HIDE DEF A, B, C, D, E
  <2>3. /\ Below(A, D) /\ Below(A \cup D, E) /\ A \cup D \cup E \subseteq answered..(mNextId - 1)
        BY <2>1 DEF Below
  <2> QED BY <1>2, <1>3, <2>2, <2>3 DEF RepliesInOrder
<1>9. PostsInOrder'
  <2> DEFINE A == Ids(pushed, "message")
             B == Ids(toClient, "message")
             D == Ids(toClient', "message")
  <2>1. /\ \A i, j \in 1..Len(mMessages) :
             i < j /\ mMessages[i] # 0 /\ mMessages[j] # 0 => mMessages[i] < mMessages[j]
        /\ Below(ShownPosts, A) /\ Below(ShownPosts \cup A, B)
        /\ ShownPosts \cup A \cup B \subseteq 1..broadcast /\ D \subseteq B
        BY <1>1, <1>5 DEF PostsInOrder
  <2>2. /\ ShownPosts' = ShownPosts /\ Ids(pushed, "message")' = A /\ Ids(toClient, "message")' = D
        /\ Ascending(pushed, "message")' /\ Ascending(toClient, "message")'
        BY <1>1, <1>2, <1>5 DEF PostsInOrder, ShownPosts
  <2> HIDE DEF A, B, D
  <2>3. /\ Below(ShownPosts \cup A, D) /\ ShownPosts \cup A \cup D \subseteq 1..broadcast
        BY <2>1 DEF Below
  <2> QED BY <1>2, <1>3, <2>1, <2>2, <2>3 DEF PostsInOrder
<1>10. Counted' /\ InStep' /\ OwnSession'
      BY <1>1, <1>2 DEF Counted, InStep, OwnSession
<1>11. NoSession'
  <2>1. ASSUME mCurrentSession = "none"
        PROVE  /\ unread = 0 /\ replies = <<>>
               /\ ~loggedIn => \A i \in 1..Len(toClient') : toClient'[i].stream = "client"
        BY <1>1, <1>4, <2>1 DEF NoSession
  <2>2. ASSUME mCurrentSession = "none", loggedIn, toClient' # <<>>
        PROVE  call = "login" /\ Head(toClient').stream = "client" /\ Head(toClient').ok
    <3>1. n # 0 /\ 1 \in 1..n
          BY <1>4, <2>2
    <3>2. toClient # <<>>
          BY <1>1, <1>4, <3>1 DEF TypeOK
    <3>3. Head(toClient') = toClient'[1] /\ Head(toClient) = toClient[1]
          BY <1>1, <1>4, <2>2, <3>2, Shortened DEF TypeOK
    <3>4. call = "login" /\ Head(toClient).stream = "client" /\ Head(toClient).ok
          BY <1>1, <2>2, <3>2 DEF NoSession
    <3> QED BY <1>4, <3>1, <3>3, <3>4
  <2>3. ASSUME mCurrentSession = "none", call \in Calls
        PROVE  \A i \in 1..Len(toServer') : toServer'[i].id = mNextId - 1 => toServer'[i].kind = call
        BY <1>1, <1>6, <2>3 DEF NoSession
  <2>4. call = "login" => mCurrentSession = "none"
        BY <1>1 DEF NoSession
  <2>5. ASSUME mCurrentSession = "none"
        PROVE  /\ replies' = <<>> /\ unread' = 0 /\ ~serving'
               /\ ~loggedIn' => \A i \in 1..Len(toClient') : toClient'[i].stream = "client"
               /\ loggedIn' /\ toClient' # <<>> =>
                    call' = "login" /\ Head(toClient').stream = "client" /\ Head(toClient').ok
        BY <1>2, <1>3, <2>1, <2>2, <2>5
  <2>6. ASSUME mCurrentSession = "none", call' \in Calls
        PROVE  \A i \in 1..Len(toServer') : toServer'[i].id = mNextId' - 1 => toServer'[i].kind = call'
        BY <1>2, <2>3, <2>6
  <2> QED BY <1>2, <2>4, <2>5, <2>6 DEF NoSession
<1> QED BY <1>7, <1>8, <1>9, <1>10, <1>11 DEF IInv

LEMMA StepDrop ==
  ASSUME IInv, Drop
  PROVE  IInv'
BY HungUp DEF Drop

LEMMA StepPush ==
  ASSUME IInv, Push
  PROVE  IInv'
<1> DEFINE p == [stream |-> "message", id |-> broadcast + 1, kind |-> "post", ok |-> TRUE]
<1>1. /\ TypeOK /\ RepliesInOrder /\ PostsInOrder /\ Counted /\ InStep /\ OwnSession /\ NoSession
      BY DEF IInv
<1>2. /\ serving /\ loggedIn /\ broadcast < MaxPosts /\ broadcast' = broadcast + 1
      /\ toClient' = Append(toClient, p)
      /\ UNCHANGED <<toServer, replies, pushed, mMessages, mNextId, mCurrentSession, mCurrentLobby,
                     call, serving, loggedIn, answered, unread>>
      BY DEF Push, MayPush, muxVars, idVars, historyVars
<1>3. /\ broadcast \in Nat /\ toClient \in Seq(Packet) /\ p \in Packet
      /\ p.stream = "message" /\ p.id = broadcast + 1
      BY <1>1 DEF TypeOK, Packet, Sends
<1> HIDE DEF p
<1>4. /\ Append(toClient, p) \in Seq(Packet) /\ Len(Append(toClient, p)) = Len(toClient) + 1
      /\ Len(toClient) \in Nat /\ \A k \in 1..Len(toClient) : Append(toClient, p)[k] = toClient[k]
      BY <1>3, Appended
<1>5. TypeOK'
      BY <1>1, <1>2, <1>3, <1>4 DEF TypeOK
<1>6. /\ Ids(toClient', "client") = Ids(toClient, "client") /\ Ascending(toClient', "client")
      /\ Ids(toClient', "message") = Ids(toClient, "message") \cup {broadcast + 1}
      /\ Ascending(toClient', "message")
  <2>1. /\ Ids(Append(toClient, p), "client") = Ids(toClient, "client")
        /\ Ids(Append(toClient, p), "message") = Ids(toClient, "message") \cup {broadcast + 1}
    <3>1. \A st : Ids(Append(toClient, p), st) =
                     Ids(toClient, st) \cup (IF p.stream = st THEN {p.id} ELSE {})
          BY <1>3, IdsAppend
    <3> QED BY <1>3, <3>1
  <2>2. /\ Ascending(toClient, "client") /\ Ascending(toClient, "message")
        /\ Ids(toClient, "message") \subseteq 1..broadcast
        BY <1>1 DEF RepliesInOrder, PostsInOrder
  <2>3. Ascending(Append(toClient, p), "client")
        BY <1>3, <2>2, AscendingAppend
  <2>4. \A a \in Ids(toClient, "message") : a < p.id
        BY <1>3, <2>2
  <2>5. Ascending(Append(toClient, p), "message")
        BY <1>3, <2>2, <2>4, AscendingAppend
  <2> QED BY <1>2, <2>1, <2>3, <2>5
<1>7. RepliesInOrder'
      BY <1>1, <1>2, <1>6 DEF RepliesInOrder
<1>8. PostsInOrder'
  <2> DEFINE A == Ids(pushed, "message")
             B == Ids(toClient, "message")
  <2>1. /\ \A i, j \in 1..Len(mMessages) :
             i < j /\ mMessages[i] # 0 /\ mMessages[j] # 0 => mMessages[i] < mMessages[j]
        /\ Ascending(pushed, "message") /\ Below(ShownPosts, A) /\ Below(ShownPosts \cup A, B)
        /\ ShownPosts \cup A \cup B \subseteq 1..broadcast
        /\ serving => ShownPosts \cup A \cup B = 1..broadcast
        BY <1>1 DEF PostsInOrder
  <2>2. /\ ShownPosts' = ShownPosts /\ Ids(pushed, "message")' = A
        /\ Ids(toClient, "message")' = B \cup {broadcast + 1}
        /\ Ascending(pushed, "message")' /\ Ascending(toClient, "message")'
        BY <1>2, <1>6, <2>1 DEF ShownPosts
  <2> HIDE DEF A, B
  <2>3. /\ Below(ShownPosts \cup A, B \cup {broadcast + 1})
        /\ ShownPosts \cup A \cup (B \cup {broadcast + 1}) \subseteq 1..(broadcast + 1)
        /\ serving => ShownPosts \cup A \cup (B \cup {broadcast + 1}) = 1..(broadcast + 1)
        BY <1>3, <2>1 DEF Below
  <2> QED BY <1>2, <2>1, <2>2, <2>3 DEF PostsInOrder
<1>9. Counted' /\ InStep' /\ OwnSession'
      BY <1>1, <1>2 DEF Counted, InStep, OwnSession
<1>10. NoSession'
  <2>1. ASSUME mCurrentSession = "none"
        PROVE  /\ call = "login" /\ toClient' # <<>>
               /\ Head(toClient').stream = "client" /\ Head(toClient').ok
    <3>1. /\ toClient # <<>> /\ call = "login" /\ Head(toClient).stream = "client" /\ Head(toClient).ok
          BY <1>1, <1>2, <2>1 DEF NoSession
    <3>2. 1 \in 1..Len(toClient) /\ toClient[1] = Head(toClient)
          BY <1>3, <3>1, Shortened
    <3>3. Append(toClient, p) # <<>>
          BY <1>4
    <3>4. Head(Append(toClient, p)) = Append(toClient, p)[1]
          BY <1>4, <3>3, Shortened
    <3> QED BY <1>2, <1>4, <3>1, <3>2, <3>3, <3>4
  <2> QED BY <1>1, <1>2, <2>1 DEF NoSession
<1> QED BY <1>5, <1>7, <1>8, <1>9, <1>10 DEF IInv

\* A response takes the place of its request behind all that came before; the
\* first to be sent in a session is that of the login.
LEMMA StepAnswer ==
  ASSUME IInv, Answer
  PROVE  IInv'
<1> DEFINE r == Head(toServer)
<1>1. /\ TypeOK /\ RepliesInOrder /\ PostsInOrder /\ Counted /\ InStep /\ OwnSession /\ NoSession
      BY DEF IInv
<1>2. /\ serving /\ toServer # <<>> /\ toServer' = Tail(toServer)
      /\ UNCHANGED <<muxVars, mMessages, idVars, call, broadcast, historyVars>>
      BY DEF Answer
<1>3. CASE r.kind \in NoRoute
  <2>1. Hangup /\ UNCHANGED loggedIn
        BY <1>3 DEF Answer
  <2> QED BY <1>2, <2>1, HungUp
<1>4. CASE r.kind \notin NoRoute
  <2>1. UNCHANGED <<replies, pushed, mMessages, mNextId, mCurrentSession, mCurrentLobby,
                    call, broadcast, answered, unread>>
        BY <1>2 DEF muxVars, idVars, historyVars
  <2>2. PICK ok \in BOOLEAN :
          /\ r.kind = "login" /\ loggedIn => ok
          /\ toClient' = Append(toClient, Response(r, ok))
          /\ loggedIn' = (loggedIn \/ (r.kind = "login" /\ ok))
          /\ serving' = serving
        BY <1>4 DEF Answer
  <2> DEFINE p == Response(r, ok)
  <2>3. /\ r \in Request /\ Tail(toServer) \in Seq(Request) /\ Len(toServer) \in Nat \ {0}
        /\ r = toServer[1] /\ Len(Tail(toServer)) = Len(toServer) - 1
        /\ \A k \in 1..Len(Tail(toServer)) : Tail(toServer)[k] = toServer[k + 1]
    <3>1. toServer \in Seq(Request)
          BY <1>1 DEF TypeOK
    <3> QED BY <1>2, <3>1, Shortened
  <2>4. /\ p \in Packet /\ p.stream = "client" /\ p.id = r.id /\ p.ok = ok
        /\ r.stream = "client" /\ r.id \in Nat
        BY <2>3 DEF Response, Request, Packet
  <2> HIDE DEF p, r
  <2>5. toClient \in Seq(Packet) /\ toClient' = Append(toClient, p)
        BY <1>1, <2>2 DEF TypeOK, p
  <2>6. /\ Append(toClient, p) \in Seq(Packet) /\ Len(Append(toClient, p)) = Len(toClient) + 1
        /\ Len(toClient) \in Nat /\ Append(toClient, p)[Len(toClient) + 1] = p
        /\ \A k \in 1..Len(toClient) : Append(toClient, p)[k] = toClient[k]
        BY <2>4, <2>5, Appended
  <2> DEFINE A == Ids(replies, "client")
             B == Ids(toClient, "client")
             C == Ids(toServer, "client")
             E == Ids(Tail(toServer), "client")
  <2>7. /\ Below(A, B) /\ Below(A \cup B, C) /\ A \cup B \cup C \subseteq answered..(mNextId - 1)
        /\ serving => A \cup B \cup C = answered..(mNextId - 1)
        /\ Ascending(replies, "client") /\ Ascending(toClient, "client") /\ Ascending(toServer, "client")
        BY <1>1 DEF RepliesInOrder
  <2>8. C = E \cup {r.id} /\ Ascending(Tail(toServer), "client") /\ \A a \in E : r.id < a
    <3>1. toServer \in Seq(Request) /\ Head(toServer) = r
          BY <1>1 DEF TypeOK, r
    <3> QED BY <1>2, <2>4, <2>7, <3>1, IdsTail, AscendingTail
  <2>9. Ids(Append(toClient, p), "client") = B \cup {r.id}
        BY <2>4, <2>5, IdsAppend
  <2>10. Ascending(Append(toClient, p), "client")
    <3>1. \A a \in B : a < p.id
          BY <2>4, <2>7, <2>8 DEF Below
    <3> QED BY <2>4, <2>5, <2>7, <3>1, AscendingAppend
  <2>11. RepliesInOrder'
    <3>1. /\ Ids(replies, "client")' = A /\ Ids(toClient, "client")' = B \cup {r.id}
          /\ Ids(toServer, "client")' = E
          /\ Ascending(replies, "client")' /\ Ascending(toClient, "client")' /\ Ascending(toServer, "client")'
          BY <1>2, <2>1, <2>5, <2>7, <2>8, <2>9, <2>10
    <3> HIDE DEF A, B, C, E
    <3>2. /\ Below(A, B \cup {r.id}) /\ Below(A \cup (B \cup {r.id}), E)
          BY <2>7, <2>8 DEF Below
    <3>3. A \cup (B \cup {r.id}) \cup E = A \cup B \cup C
          BY <2>8
    <3> QED BY <2>1, <2>2, <2>7, <3>1, <3>2, <3>3 DEF RepliesInOrder
  <2>12. PostsInOrder'
    <3>1. \A st : Ids(Append(toClient, p), st) =
                    Ids(toClient, st) \cup (IF p.stream = st THEN {p.id} ELSE {})
          BY <2>4, <2>5, IdsAppend
    <3>2. Ids(toClient', "message") = Ids(toClient, "message")
          BY <2>4, <2>5, <3>1
    <3>3. Ascending(Append(toClient, p), "message")
      <4>1. Ascending(toClient, "message") /\ p.stream # "message"
            BY <1>1, <2>4 DEF PostsInOrder
      <4> QED BY <2>4, <2>5, <4>1, AscendingAppend
    <3>4. ShownPosts' = ShownPosts
          BY <2>1 DEF ShownPosts
    <3> QED BY <1>1, <2>1, <2>2, <2>5, <3>2, <3>3, <3>4 DEF PostsInOrder
  <2>13. TypeOK'
        BY <1>1, <1>2, <2>1, <2>2, <2>3, <2>5, <2>6 DEF TypeOK
  <2>14. Counted' /\ InStep' /\ OwnSession'
        BY <1>1, <2>1 DEF Counted, InStep, OwnSession
  <2>15. NoSession'
    <3>1. call = "login" => mCurrentSession = "none"
          BY <1>1 DEF NoSession
    <3>2. ASSUME mCurrentSession = "none"
          PROVE  replies = <<>> /\ unread = 0
          BY <1>1, <1>2, <3>2 DEF NoSession
    <3>3. ASSUME mCurrentSession = "none", ~loggedIn'
          PROVE  \A i \in 1..Len(toClient') : toClient'[i].stream = "client"
      <4>1. \A i \in 1..Len(toClient) : toClient[i].stream = "client"
            BY <1>1, <2>2, <3>3 DEF NoSession
      <4> QED BY <2>4, <2>5, <2>6, <4>1
    <3>4. toClient' # <<>>
          BY <2>5, <2>6
    <3>5. Head(toClient') = toClient'[1]
          BY <2>5, <2>6, <3>4, Shortened
    <3>6. ASSUME mCurrentSession = "none", loggedIn
          PROVE  call = "login" /\ Head(toClient').stream = "client" /\ Head(toClient').ok
      <4>1. toClient # <<>> /\ call = "login" /\ Head(toClient).stream = "client" /\ Head(toClient).ok
            BY <1>1, <1>2, <3>6 DEF NoSession
      <4>2. 1 \in 1..Len(toClient) /\ toClient[1] = Head(toClient)
            BY <2>5, <4>1, Shortened
      <4> QED BY <2>5, <2>6, <3>5, <4>1, <4>2
    <3>7. ASSUME mCurrentSession = "none", ~loggedIn, loggedIn'
          PROVE  call = "login" /\ Head(toClient').stream = "client" /\ Head(toClient').ok
      <4>1. r.kind = "login" /\ ok
            BY <2>2, <3>7
      <4>2. unread = 0 /\ answered \in Nat /\ mNextId \in Nat
            BY <1>1, <3>2, <3>7 DEF TypeOK
      <4>3. r.id \in answered..(mNextId - 1)
            BY <2>7, <2>8
      <4>4. call \in Calls /\ mNextId = answered + 1
            BY <1>1, <2>4, <4>2, <4>3 DEF Counted
      <4>5. r.id = mNextId - 1
            BY <2>4, <4>2, <4>3, <4>4
      <4>6. call = "login"
        <5>1. 1 \in 1..Len(toServer) /\ toServer[1].id = mNextId - 1
              BY <2>3, <4>5
        <5> QED BY <1>1, <2>3, <3>7, <4>1, <4>4, <5>1 DEF NoSession
      <4>7. toClient = <<>>
        <5>1. ASSUME toClient # <<>> PROVE FALSE
          <6>1. 1 \in 1..Len(toClient)
                BY <2>5, <5>1, Shortened
          <6>2. toClient[1].stream = "client"
                BY <1>1, <3>7, <6>1 DEF NoSession
          <6>3. toClient[1].id \in B
                BY <6>1, <6>2 DEF Ids
          <6>4. toClient[1].id < r.id /\ toClient[1].id \in answered..(mNextId - 1)
                BY <2>7, <2>8, <6>3 DEF Below
          <6> QED BY <4>2, <4>4, <4>5, <6>4
        <5> QED BY <5>1
      <4>8. toClient'[1] = p
            BY <2>5, <2>6, <4>7
      <4> QED BY <2>4, <3>5, <4>1, <4>6, <4>8
    <3>8. ASSUME mCurrentSession = "none", call \in Calls
          PROVE  \A i \in 1..Len(toServer') : toServer'[i].id = mNextId - 1 => toServer'[i].kind = call
      <4>1. \A i \in 1..Len(toServer) : toServer[i].id = mNextId - 1 => toServer[i].kind = call
            BY <1>1, <3>8 DEF NoSession
      <4>2. \A k \in 1..Len(Tail(toServer)) : k + 1 \in 1..Len(toServer)
            BY <2>3
      <4> QED BY <1>2, <2>3, <4>1, <4>2
    <3> QED BY <2>1, <3>1, <3>2, <3>3, <3>4, <3>6, <3>7, <3>8 DEF NoSession
  <2> QED BY <2>11, <2>12, <2>13, <2>14, <2>15 DEF IInv
<1> QED BY <1>3, <1>4

-----------------------------------------------------------------------------
(* The theorems.                                                             *)

LEMMA Start == Init => IInv
<1> SUFFICES ASSUME Init PROVE IInv
    OBVIOUS
<1>1. TypeOK
  <2>1. /\ <<>> \in Seq(Request) /\ <<>> \in Seq(Packet) /\ <<>> \in Seq(Nat)
        /\ Len(<<>>) = 0 /\ 1..0 = {} /\ 0 \in 0..MaxRequests /\ 0 \in 0..MaxPosts
        OBVIOUS
  <2>2. \A i \in 1..Len(<<>>) : FALSE
        BY <2>1
  <2> QED BY <2>1, <2>2 DEF Init, TypeOK
<1>2. RepliesInOrder
      BY IdsEmpty DEF Init, RepliesInOrder, Below
<1>3. PostsInOrder
  <2>1. ShownPosts = {}
        BY DEF Init, ShownPosts
  <2> QED BY <2>1, IdsEmpty DEF Init, PostsInOrder, Below
<1>4. Counted /\ InStep /\ OwnSession /\ NoSession
      BY DEF Init, Counted, InStep, OwnSession, NoSession, Calls
<1> QED BY <1>1, <1>2, <1>3, <1>4 DEF IInv

LEMMA Steps == IInv /\ [Next]_vars => IInv'
<1> SUFFICES ASSUME IInv, [Next]_vars PROVE IInv'
    OBVIOUS
<1>1. ASSUME NEW kind \in Calls, Ask(kind) PROVE IInv'
      BY <1>1, StepAsk
<1>2. CASE SendMessage \/ LeaveLobby
      BY <1>2, StepSendOnly
<1>3. CASE SendFails
      BY <1>3, StepSendFails
<1>4. CASE Poll
      BY <1>4, StepPoll
<1>5. CASE Read
  <2>1. CASE TakeReply
        BY <2>1, StepTakeReply
  <2>2. CASE MissReply
        BY <2>2, StepMissReply
  <2>3. CASE EndWork \/ EndRefresh
        BY <2>3, StepEnd
  <2> QED BY <1>5, <2>1, <2>2, <2>3 DEF Read
<1>6. CASE Answer
      BY <1>6, StepAnswer
<1>7. CASE Drop
      BY <1>7, StepDrop
<1>8. CASE Push
      BY <1>8, StepPush
<1>9. CASE UNCHANGED vars
      BY <1>9, StepStutter
<1> QED BY <1>1, <1>2, <1>3, <1>4, <1>5, <1>6, <1>7, <1>8, <1>9 DEF Next

\* Ids and posts keep their order, every id is accounted for, and a client
\* without session has nothing under way but what it waits for.
THEOREM Inductive == Spec => []IInv
BY Start, Steps, PTL DEF Spec

\* Every variable keeps its type.
THEOREM TypeCorrect == Spec => []TypeOK
<1>1. IInv => TypeOK
      BY DEF IInv
<1> QED BY Inductive, <1>1, PTL

\* SocketMux hands the responses on in the order the server gave them, none lost
\* and none twice, however calls to work, requests and refreshes take turns.
THEOREM ResponsesInOrder == Spec => []RepliesInOrder
<1>1. IInv => RepliesInOrder
      BY DEF IInv
<1> QED BY Inductive, <1>1, PTL

\* refreshMessageList shows the posts of others once each and in order.
THEOREM MessagesInOrder == Spec => []PostsInOrder
<1>1. IInv => PostsInOrder
      BY DEF IInv
<1> QED BY Inductive, <1>1, PTL

\* A client none of whose requests went without its response takes no response
\* of another request for its own.
THEOREM BelievesItsOwn == Spec => []InStep
<1>1. IInv => InStep
      BY DEF IInv
<1> QED BY Inductive, <1>1, PTL

\* The session id login keeps is the one the server gave that login.
THEOREM SessionIsItsOwn == Spec => []OwnSession
<1>1. IInv => OwnSession
      BY DEF IInv
<1> QED BY Inductive, <1>1, PTL

-----------------------------------------------------------------------------
(* What a request waits for.                                                 *)

\* The responses read before a request was sent are not its own.
OlderReplies ==
  call \in Calls => \A i \in 1..Len(replies) : replies[i].id < mNextId - 1

LEMMA NextOlder == IInv /\ OlderReplies /\ [Next]_vars => OlderReplies'
<1> SUFFICES ASSUME IInv, OlderReplies, [Next]_vars PROVE OlderReplies'
    OBVIOUS
<1>0. /\ mNextId \in Nat /\ answered \in Nat
      /\ replies \in Seq(Packet) /\ \A i \in 1..Len(replies) : replies[i].stream = "client"
      BY DEF IInv, TypeOK
<1>1. ASSUME NEW kind \in Calls, Ask(kind) PROVE OlderReplies'
  <2>1. mNextId' = mNextId + 1 /\ replies' = replies
        BY <1>1 DEF Ask, Send, muxVars
  <2>2. ASSUME NEW i \in 1..Len(replies) PROVE replies[i].id < mNextId
    <3>1. replies[i].id \in Ids(replies, "client")
          BY <1>0 DEF Ids
    <3>2. replies[i].id \in answered..(mNextId - 1)
          BY <3>1 DEF IInv, RepliesInOrder
    <3> QED BY <1>0, <3>2
  <2>3. mNextId' - 1 = mNextId
        BY <1>0, <2>1
  <2> QED BY <2>1, <2>2, <2>3 DEF OlderReplies
<1>2. CASE SendMessage \/ LeaveLobby \/ SendFails
  <2>1. call = "idle" /\ call' = call
        BY <1>2 DEF SendMessage, LeaveLobby, SendFails, Send
  <2> QED BY <2>1 DEF OlderReplies, Calls
<1>3. CASE Poll \/ Read
  <2>1. call' \in {"work", "refresh", "idle"}
        BY <1>3 DEF Poll, Read, TakeReply, MissReply, EndWork, EndRefresh
  <2> QED BY <2>1 DEF OlderReplies, Calls
<1>4. CASE Answer \/ Drop \/ Push \/ UNCHANGED vars
  <2>1. UNCHANGED <<call, replies, mNextId>>
        BY <1>4 DEF Answer, Drop, Push, vars, muxVars, idVars
  <2> QED BY <2>1 DEF OlderReplies
<1> QED BY <1>1, <1>2, <1>3, <1>4 DEF Next

\* A request reads without a limit of time, and never waits for nothing: its own
\* response is still to come, or the connection has ended.
THEOREM RequestsNeverStarve == Spec => []NeverStarves
<1>1. ASSUME IInv, OlderReplies, call \in Calls, serving
      PROVE  toClient # <<>> \/ toServer # <<>>
  <2>1. /\ mNextId \in Nat /\ answered \in Nat /\ unread \in Nat
        /\ mNextId = answered + unread + 1
        BY <1>1 DEF IInv, TypeOK, Counted
  <2>2. mNextId - 1 \in answered..(mNextId - 1)
        BY <2>1
  <2>3. mNextId - 1 \in Ids(replies, "client") \cup Ids(toClient, "client")
                          \cup Ids(toServer, "client")
        BY <1>1, <2>2 DEF IInv, RepliesInOrder
  <2>4. mNextId - 1 \notin Ids(replies, "client")
        BY <1>1, <2>1 DEF OlderReplies, Ids
  <2> QED BY <2>3, <2>4, IdsEmpty
<1>2. IInv /\ OlderReplies => NeverStarves
      BY <1>1 DEF NeverStarves
<1>3. IInv /\ OlderReplies /\ [Next]_vars => OlderReplies'
      BY NextOlder
<1>4. Init => OlderReplies
      BY DEF Init, OlderReplies, Calls
<1> QED BY <1>2, <1>3, <1>4, Inductive, PTL DEF Spec
=============================================================================
