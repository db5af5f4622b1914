---------------------------- MODULE AccountClient ----------------------------
(***************************************************************************)
(* AccountClient (game/account/src/client.cpp) and the SocketMux it reads  *)
(* through, over one connection to a server that answers its requests in   *)
(* order and sends it the posts of others in between.                      *)
(*                                                                         *)
(* A request reads one packet and then takes the oldest response there is; *)
(* it never looks at the id that response carries.  The client's socket    *)
(* blocks: a read waits for a packet, or for the end of the connection.    *)
(***************************************************************************)
EXTENDS Integers, Sequences

CONSTANTS
  MaxRequests,  \* bound: packets the client sends
  MaxPosts      \* bound: posts of others sent to the client

ASSUME ClientAssumption == MaxRequests \in Nat /\ MaxPosts \in Nat

\* Requests that read a packet, and those that only send.
Calls == {"create", "login", "lobby", "join", "start", "list"}
Sends == {"post", "leave"}

VARIABLES
  toServer,  \* requests under way
  toClient,  \* packets under way
  replies,   \* mSocketMux: the queue of kClientStream
  pushed,    \* mSocketMux: the queue of kMessageStream
  mMessages, \* posts shown; 0 stands for one of the client's own
  mNextId,   \* ids are counted on: nobody compares them, so wrapping is no matter
  mCurrentSession, mCurrentLobby,  \* "none"; "own"; "other": taken on the word
                                   \* of another request's response
  call,      \* the request in progress, "work", "refresh" or "idle"
  serving,   \* server: FALSE once it dropped the connection
  loggedIn,  \* server: its handler has a session
  broadcast, \* history: posts sent to the client
  answered,  \* history: responses taken
  unread     \* history: requests that did not take a response

netVars == <<toServer, toClient>>
muxVars == <<replies, pushed>>
idVars == <<mNextId, mCurrentSession, mCurrentLobby>>
serverVars == <<serving, loggedIn, broadcast>>
historyVars == <<answered, unread>>
vars == <<netVars, muxVars, mMessages, idVars, call, serverVars, historyVars>>

Init ==
  /\ toServer = <<>> /\ toClient = <<>>
  /\ replies = <<>> /\ pushed = <<>> /\ mMessages = <<>>
  /\ mNextId = 0 /\ mCurrentSession = "none" /\ mCurrentLobby = "none"
  /\ call = "idle"
  /\ serving = TRUE /\ loggedIn = FALSE /\ broadcast = 0
  /\ answered = 0 /\ unread = 0

\* The early returns of each request.  A client logs in while it has no
\* session, as the gui and the tests do.
MayAsk(kind) ==
  CASE kind \in {"create", "login"} -> mCurrentSession = "none"
    [] kind \in {"start", "leave"} -> mCurrentSession # "none" /\ mCurrentLobby # "none"
    [] OTHER -> mCurrentSession # "none"

\* mSocket.send of a packet with id mNextId++.
Send(kind) ==
  /\ call = "idle" /\ mNextId < MaxRequests /\ MayAsk(kind)
  /\ toServer' = Append(toServer, [stream |-> "client", id |-> mNextId, kind |-> kind])
  /\ mNextId' = mNextId + 1

Ask(kind) ==
  /\ Send(kind)
  /\ call' = kind
  /\ UNCHANGED <<toClient, muxVars, mMessages, mCurrentSession, mCurrentLobby,
                 serverVars, historyVars>>

\* sendMessage leaves its response to be read by whoever comes next.
SendMessage ==
  /\ Send("post")
  /\ mMessages' = Append(mMessages, 0)
  /\ unread' = unread + 1
  /\ UNCHANGED <<toClient, muxVars, mCurrentSession, mCurrentLobby, call,
                 serverVars, answered>>

LeaveLobby ==
  /\ Send("leave")
  /\ mCurrentLobby' = "none"
  /\ unread' = unread + 1
  /\ UNCHANGED <<toClient, muxVars, mMessages, mCurrentSession, call,
                 serverVars, answered>>

\* The server is gone and the send throws; the id is used up.
SendFails ==
  /\ ~serving
  /\ \E kind \in Calls \cup Sends : Send(kind)
  /\ unread' = unread + 1
  /\ UNCHANGED <<toClient, muxVars, mMessages, mCurrentSession, mCurrentLobby,
                 call, serverVars, answered>>

\* work and refreshMessageList, called on their own.
Poll ==
  /\ call = "idle"
  /\ call' \in {"work", "refresh"}
  /\ UNCHANGED <<netVars, muxVars, mMessages, idVars, serverVars, historyVars>>
-----------------------------------------------------------------------------
\* SocketMux::work: one packet, queued by stream; nothing once the connection
\* ended.  The operators give the two queues as they are afterwards.
HasRead_NoEnd == toClient # <<>>
HasRead == toClient # <<>> \/ ~serving
NoPacket == [stream |-> "none", id |-> 0, kind |-> "none", ok |-> FALSE]
NextPacket == IF toClient = <<>> THEN NoPacket ELSE Head(toClient)

Queued(queue, stream) ==
  IF NextPacket.stream = stream THEN Append(queue, NextPacket) ELSE queue

Work ==
  /\ HasRead
  /\ toClient' = IF toClient = <<>> THEN toClient ELSE Tail(toClient)
  /\ UNCHANGED toServer

\* What the bytes of a response mean to the request that takes it: right when
\* the response is its own.
Meant(reply, was) ==
  IF ~reply.ok THEN was ELSE IF reply.id = mNextId - 1 THEN "own" ELSE "other"

\* getNextMessage(kClientStream): read one packet, pop the oldest response.
Popped_Peeked(queue) == [reply |-> Head(queue), rest |-> queue]
Popped_Newest(queue) ==
  [reply |-> queue[Len(queue)], rest |-> SubSeq(queue, 1, Len(queue) - 1)]
Popped(queue) == [reply |-> Head(queue), rest |-> Tail(queue)]

TakeReply ==
  /\ call \in Calls /\ Work
  /\ LET queue == Queued(replies, "client")
     IN  /\ queue # <<>>
         /\ LET reply == Popped(queue).reply
            IN  /\ replies' = Popped(queue).rest
                /\ mCurrentSession' = IF call = "login"
                                      THEN Meant(reply, mCurrentSession)
                                      ELSE mCurrentSession
                /\ mCurrentLobby' = IF call \in {"lobby", "join"}
                                    THEN Meant(reply, mCurrentLobby)
                                    ELSE mCurrentLobby
  /\ pushed' = Queued(pushed, "message")
  /\ call' = "idle"
  /\ answered' = answered + 1
  /\ UNCHANGED <<mMessages, mNextId, serverVars, unread>>

\* The packet was a post, or there was none: the request reports failure.
MissReply ==
  /\ call \in Calls /\ Work
  /\ Queued(replies, "client") = <<>>
  /\ pushed' = Queued(pushed, "message")
  /\ call' = "idle"
  /\ unread' = unread + 1
  /\ UNCHANGED <<replies, mMessages, idVars, serverVars, answered>>

EndWork ==
  /\ call = "work" /\ Work
  /\ replies' = Queued(replies, "client")
  /\ pushed' = Queued(pushed, "message")
  /\ call' = "idle"
  /\ UNCHANGED <<mMessages, idVars, serverVars, historyVars>>

\* refreshMessageList empties the queue of posts after its read.
Shown_Twice(queue) == queue
Shown(queue) == <<>>

EndRefresh ==
  /\ call = "refresh" /\ Work
  /\ replies' = Queued(replies, "client")
  /\ LET queue == Queued(pushed, "message")
     IN  /\ mMessages' = mMessages \o [i \in 1..Len(queue) |-> queue[i].id]
         /\ pushed' = Shown(queue)
  /\ call' = "idle"
  /\ UNCHANGED <<idVars, serverVars, historyVars>>
-----------------------------------------------------------------------------
\* The end of the connection, with it of some of what the client has not read.
Hangup ==
  /\ serving' = FALSE
  /\ \E n \in 0..Len(toClient) : toClient' = SubSeq(toClient, 1, n)

\* The server's handler answers the oldest request; it has no route for start
\* and leave, and drops the connection.
NoRoute == {"start", "leave"}

Response(request, ok) ==
  [stream |-> request.stream, id |-> request.id, kind |-> request.kind, ok |-> ok]

Answer ==
  /\ serving /\ toServer # <<>>
  /\ LET request == Head(toServer)
     IN  IF request.kind \in NoRoute
         THEN Hangup /\ UNCHANGED loggedIn
         ELSE \E ok \in BOOLEAN :
                /\ request.kind = "login" /\ loggedIn => ok
                /\ toClient' = Append(toClient, Response(request, ok))
                /\ loggedIn' = (loggedIn \/ (request.kind = "login" /\ ok))
                /\ UNCHANGED serving
  /\ toServer' = Tail(toServer)
  /\ UNCHANGED <<muxVars, mMessages, idVars, call, broadcast, historyVars>>

\* The handler ends at a stop of the server or on an error of its database.
Drop ==
  /\ serving /\ Hangup
  /\ UNCHANGED <<toServer, muxVars, mMessages, idVars, call, loggedIn, broadcast,
                 historyVars>>

\* The pump sends posts once the handler has a session.
MayPush_Early == serving
MayPush == serving /\ loggedIn

Push ==
  /\ MayPush /\ broadcast < MaxPosts
  /\ toClient' = Append(toClient,
       [stream |-> "message", id |-> broadcast + 1, kind |-> "post", ok |-> TRUE])
  /\ broadcast' = broadcast + 1
  /\ UNCHANGED <<toServer, muxVars, mMessages, idVars, call, serving, loggedIn,
                 historyVars>>

Read == TakeReply \/ MissReply \/ EndWork \/ EndRefresh

Next ==
  \/ \E kind \in Calls : Ask(kind)
  \/ SendMessage \/ LeaveLobby \/ SendFails \/ Poll \/ Read
  \/ Answer \/ Drop \/ Push

Spec == Init /\ [][Next]_vars

\* The handler answers what was sent, and a read returns what has come.
FairSpec == Spec /\ WF_vars(Read) /\ WF_vars(Answer)
-----------------------------------------------------------------------------
Request == [stream : {"client"}, id : Nat, kind : Calls \cup Sends]
Packet == [stream : {"client", "message"}, id : Nat, kind : Calls \cup Sends, ok : BOOLEAN]

TypeOK ==
  /\ toServer \in Seq(Request) /\ toClient \in Seq(Packet)
  /\ replies \in Seq(Packet) /\ \A i \in 1..Len(replies) : replies[i].stream = "client"
  /\ pushed \in Seq(Packet) /\ \A i \in 1..Len(pushed) : pushed[i].stream = "message"
  /\ mMessages \in Seq(Nat)
  /\ {mCurrentSession, mCurrentLobby} \subseteq {"none", "own", "other"}
  /\ call \in Calls \cup {"work", "refresh", "idle"}
  /\ mNextId \in 0..MaxRequests /\ broadcast \in 0..MaxPosts
  /\ serving \in BOOLEAN /\ loggedIn \in BOOLEAN
  /\ answered \in Nat /\ unread \in Nat

\* What of a stream a sequence of packets holds, and that it is in order.
Ids(packets, stream) ==
  {packets[i].id : i \in {j \in 1..Len(packets) : packets[j].stream = stream}}
Ascending(packets, stream) ==
  \A i, j \in 1..Len(packets) :
    i < j /\ packets[i].stream = stream /\ packets[j].stream = stream
      => packets[i].id < packets[j].id
Below(A, B) == \A a \in A, b \in B : a < b

\* Requests and responses are neither lost, repeated nor overtaken on their way
\* through the mux, whatever mix of calls reads from it.
RepliesInOrder ==
  /\ Ascending(replies, "client") /\ Ascending(toClient, "client")
  /\ Ascending(toServer, "client")
  /\ Below(Ids(replies, "client"), Ids(toClient, "client"))
  /\ Below(Ids(replies, "client") \cup Ids(toClient, "client"), Ids(toServer, "client"))
  /\ LET all == Ids(replies, "client") \cup Ids(toClient, "client") \cup Ids(toServer, "client")
     IN  /\ all \subseteq answered..(mNextId - 1)
         /\ serving => all = answered..(mNextId - 1)

\* A client that has always taken its responses believes only its own.
InStep == unread = 0 => "other" \notin {mCurrentSession, mCurrentLobby}

\* However the lobby comes out, the session a client believes in is the one the
\* server gave it: nothing can come between a login and its response.
OwnSession == mCurrentSession # "other"

\* Posts of others are shown once each, in the order they were sent.
ShownPosts == {mMessages[i] : i \in 1..Len(mMessages)} \ {0}
PostsInOrder ==
  /\ \A i, j \in 1..Len(mMessages) :
       i < j /\ mMessages[i] # 0 /\ mMessages[j] # 0 => mMessages[i] < mMessages[j]
  /\ Ascending(pushed, "message") /\ Ascending(toClient, "message")
  /\ Below(ShownPosts, Ids(pushed, "message"))
  /\ Below(ShownPosts \cup Ids(pushed, "message"), Ids(toClient, "message"))
  /\ LET all == ShownPosts \cup Ids(pushed, "message") \cup Ids(toClient, "message")
     IN  /\ all \subseteq 1..broadcast
         /\ serving => all = 1..broadcast

\* A request never waits for a packet that nobody will send.
NeverStarves == call \in Calls => ~serving \/ toClient # <<>> \/ toServer # <<>>

\* Every request comes back, with a response or without.
RequestReturns == call \in Calls ~> call = "idle"

\* The inductive invariant.  Each id is answered, unread or of the request in
\* progress; and as long as the client has no session, it has read all that was
\* for it and the server has sent it nothing but the responses it waits for, so
\* that the first thing behind a login is its response.
Counted == mNextId = answered + unread + (IF call \in Calls THEN 1 ELSE 0)
NoSession ==
  /\ call = "login" => mCurrentSession = "none"
  /\ mCurrentSession = "none" =>
       /\ replies = <<>>
       /\ unread = 0 \/ (~serving /\ toClient = <<>>)
       /\ ~loggedIn => \A i \in 1..Len(toClient) : toClient[i].stream = "client"
       /\ loggedIn /\ (serving \/ toClient # <<>>) =>
            /\ call = "login" /\ toClient # <<>>
            /\ Head(toClient).stream = "client" /\ Head(toClient).ok
       /\ call \in Calls =>
            \A i \in 1..Len(toServer) : toServer[i].id = mNextId - 1 => toServer[i].kind = call
IInv ==
  /\ TypeOK /\ RepliesInOrder /\ PostsInOrder
  /\ Counted /\ InStep /\ OwnSession /\ NoSession
=============================================================================
