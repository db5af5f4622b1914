---------------------------- MODULE AccountServer ----------------------------
(***************************************************************************)
(* The account server of src/src/game/account/src/server.cpp: one thread   *)
(* per accepted connection (handleClient), a database shared under         *)
(* mDbMutex, and mOpenClients, the posts queued for every open session.    *)
(*                                                                         *)
(* A step is one critical section of mDbMutex together with the thread's   *)
(* unlocked code up to the next one.  The tables are those of              *)
(* game/account/data/account.xml as the SQLite driver creates them; row    *)
(* ids are rowids (largest id in use plus one), so an id comes back once   *)
(* its row is gone.                                                        *)
(***************************************************************************)
EXTENDS Naturals, Sequences, FiniteSets

CONSTANTS
  Conns,       \* connections, each served by a thread of its own
  Users,       \* account names
  UserOf,      \* the account the client of a connection uses
  NoUser,      \* a session row that does not exist
  NoLobby,     \* a lobby row that does not exist
  MaxSession,  \* bound: largest session id handed out
  MaxLobby,    \* bound: largest lobby id handed out
  MaxPosts     \* bound: posts broadcast in one behaviour

SessionIds == 1..MaxSession
LobbyIds   == 1..MaxLobby

\* UINT64_MAX in the code: no session.
NoSession == 0

ASSUME ConstantsAssumption ==
  /\ MaxSession \in Nat /\ MaxLobby \in Nat /\ MaxPosts \in Nat
  /\ UserOf \in [Conns -> Users]
  /\ NoUser \notin Users
  /\ NoLobby \notin [owner : SessionIds, client : SessionIds \cup {NoSession},
                     state : {"O", "J"}]

VARIABLES
  users,     \* names in table user
  sessions,  \* table session: the user of each row
  lobbies,   \* table lobby
  open,      \* the keys of mOpenClients
  mail,      \* the vectors of mOpenClients
  pc,        \* where each handler thread stands
  session,   \* handleClient's local `session`
  received,  \* posts written to each connection so far
  owed,      \* history: posts each open handler's client should get
  posts,     \* history: number of posts broadcast
  server,    \* "running", "stopping" (listen socket cancelled) or "down"
  stopped    \* threads whose stop token is set

dbVars   == <<users, sessions, lobbies>>
mailVars == <<open, mail>>
histVars == <<received, owed, posts>>
srvVars  == <<server, stopped>>
vars == <<dbVars, mailVars, pc, session, histVars, srvVars>>

Lobby == [owner : SessionIds, client : SessionIds \cup {NoSession},
          state : {"O", "J"}]
Post == [author : SessionIds, no : Nat \ {0}]

\* "idle": no thread; "recv": in mux.work; "opening": logged in, entry of
\* mOpenClients not created yet; "posting"/"listing": authorised, second lock
\* not taken yet; "pump": about to send queued posts; "dropping": unwinding.
Places == {"idle", "recv", "opening", "posting", "listing", "pump", "dropping"}

SessionRows == {id \in SessionIds : sessions[id] # NoUser}
LobbyRows   == {l \in LobbyIds : lobbies[l] # NoLobby}

\* SQLite gives a new row the largest rowid in use plus one.
IsNextRow(id, rows) ==
  /\ \A r \in rows : r < id
  /\ id = 1 \/ id - 1 \in rows

\* Handlers in the body of the loop with their entry created.
Serving(c) == /\ pc[c] \in {"recv", "posting", "listing", "pump"}
              /\ session[c] # NoSession

Goto(c, place) == pc' = [pc EXCEPT ![c] = place]
-----------------------------------------------------------------------------
Init ==
  /\ users = {}
  /\ sessions = [id \in SessionIds |-> NoUser]
  /\ lobbies = [l \in LobbyIds |-> NoLobby]
  /\ open = {}
  /\ mail = [id \in SessionIds |-> <<>>]
  /\ pc = [c \in Conns |-> "idle"]
  /\ session = [c \in Conns |-> NoSession]
  /\ received = [c \in Conns |-> <<>>]
  /\ owed = [c \in Conns |-> <<>>]
  /\ posts = 0
  /\ server = "running"
  /\ stopped = {}

\* work: a connection is accepted and its thread started.
Accept(c) ==
  /\ server = "running" /\ pc[c] = "idle"
  /\ Goto(c, "recv")
  /\ UNCHANGED <<dbVars, mailVars, session, histVars, srvVars>>

\* No packet within 100 ms, or one that changes nothing: an ack, a repeated
\* login, wrong credentials, a name in use, a lobby or session the tables
\* refuse, a post or list whose session is not known.
Quiet(c) ==
  /\ pc[c] = "recv"
  /\ Goto(c, "pump")
  /\ UNCHANGED <<dbVars, mailVars, session, histVars, srvVars>>

CreateAccount(c) ==
  /\ pc[c] = "recv" /\ UserOf[c] \notin users
  /\ users' = users \cup {UserOf[c]}
  /\ Goto(c, "pump")
  /\ UNCHANGED <<sessions, lobbies, mailVars, session, histVars, srvVars>>

\* INSERT ... ON CONFLICT DO UPDATE SET id = id RETURNING id: a user that has
\* a session row already is given the id of that row.
UpsertSession(u, id) ==
  \/ /\ sessions[id] = u
     /\ UNCHANGED sessions
  \/ /\ \A r \in SessionIds : sessions[r] # u
     /\ IsNextRow(id, SessionRows)
     /\ sessions' = [sessions EXCEPT ![id] = u]

\* The route answers a repeated login with the session it has: MayLogin fails.
MayLogin_Twice(c) == UserOf[c] \in users
MayLogin(c) == session[c] = NoSession /\ UserOf[c] \in users

Login(c) ==
  /\ pc[c] = "recv" /\ MayLogin(c)
  /\ \E id \in SessionIds :
       /\ UpsertSession(UserOf[c], id)
       /\ session' = [session EXCEPT ![c] = id]
  /\ Goto(c, "opening")
  /\ UNCHANGED <<users, lobbies, mailVars, histVars, srvVars>>

\* The second critical section of the login route: mOpenClients[session] = {}.
OpenClient(c) ==
  /\ pc[c] = "opening"
  /\ open' = open \cup {session[c]}
  /\ mail' = [mail EXCEPT ![session[c]] = <<>>]
  /\ Goto(c, "pump")
  /\ UNCHANGED <<dbVars, session, histVars, srvVars>>

CreateLobby(c) ==
  /\ pc[c] = "recv" /\ session[c] \in SessionRows
  /\ \E l \in LobbyIds :
       /\ IsNextRow(l, LobbyRows)
       /\ lobbies' = [lobbies EXCEPT ![l] =
            [owner |-> session[c], client |-> NoSession, state |-> "O"]]
  /\ Goto(c, "pump")
  /\ UNCHANGED <<users, sessions, mailVars, session, histVars, srvVars>>

\* WHERE id = :lobby AND state = 'O' of joinLobby's update.
Joinable_AnyState(l) == TRUE
Joinable(l) == lobbies[l].state = "O"

\* UPDATE lobby SET state = 'J', client = :user
JoinLobby(c) ==
  /\ pc[c] = "recv" /\ session[c] \in SessionRows
  /\ \E l \in LobbyRows :
       /\ Joinable(l)
       /\ lobbies' = [lobbies EXCEPT ![l] =
            [owner |-> lobbies[l].owner, client |-> session[c], state |-> "J"]]
  /\ Goto(c, "pump")
  /\ UNCHANGED <<users, sessions, mailVars, session, histVars, srvVars>>

\* authSession of the post and list routes; the lock is released after it.
AuthPost(c) ==
  /\ pc[c] = "recv" /\ session[c] \in SessionRows
  /\ posts + Cardinality({d \in Conns : pc[d] = "posting"}) < MaxPosts
  /\ Goto(c, "posting")
  /\ UNCHANGED <<dbVars, mailVars, session, histVars, srvVars>>

AuthList(c) ==
  /\ pc[c] = "recv" /\ session[c] \in SessionRows
  /\ Goto(c, "listing")
  /\ UNCHANGED <<dbVars, mailVars, session, histVars, srvVars>>

\* getSessionList raises when there is no row left, which ends the thread.
FinishList(c) ==
  /\ pc[c] = "listing"
  /\ Goto(c, IF SessionRows = {} THEN "dropping" ELSE "pump")
  /\ UNCHANGED <<dbVars, mailVars, session, histVars, srvVars>>

\* The request itself is queued; its author is the session the client was given.
NewPost(c) == [author |-> session[c], no |-> posts + 1]

Broadcast(c) ==
  /\ pc[c] = "posting"
  /\ LET post == NewPost(c)
     IN  /\ mail' = [id \in SessionIds |->
                       IF id \in open /\ id # post.author
                       THEN Append(mail[id], post) ELSE mail[id]]
         /\ owed' = [d \in Conns |->
                       IF Serving(d) /\ session[d] # post.author
                       THEN Append(owed[d], post) ELSE owed[d]]
  /\ posts' = posts + 1
  /\ Goto(c, "pump")
  /\ UNCHANGED <<dbVars, open, session, received, srvVars>>

\* mOpenClients[session] creates the entry when it is missing; every queued post
\* is sent with the lock held, then the queue is cleared.
Flush_SendsNothing(c) == open' = open \cup {session[c]} /\ UNCHANGED <<mail, received>>
Flush_KeepsQueue(c) ==
  /\ open' = open \cup {session[c]}
  /\ received' = [received EXCEPT ![c] = @ \o mail[session[c]]]
  /\ UNCHANGED mail
Flush(c) ==
  /\ open' = open \cup {session[c]}
  /\ received' = [received EXCEPT ![c] = @ \o mail[session[c]]]
  /\ mail' = [mail EXCEPT ![session[c]] = <<>>]

\* while (!stop.stop_requested()), looked at again after each round.
LoopHead_IgnoresStop(c) == "recv"
LoopHead(c) == IF c \in stopped THEN "dropping" ELSE "recv"

Pump(c) ==
  /\ pc[c] = "pump"
  /\ IF session[c] = NoSession THEN UNCHANGED <<mailVars, received>> ELSE Flush(c)
  /\ Goto(c, LoopHead(c))
  /\ UNCHANGED <<dbVars, session, owed, posts, srvVars>>

\* A send fails after `n` posts went out: the thread returns, queue uncleared.
PumpFails(c) ==
  /\ pc[c] = "pump" /\ session[c] # NoSession
  /\ open' = open \cup {session[c]}
  /\ \E n \in 0..(Len(mail[session[c]]) - 1) :
       received' = [received EXCEPT ![c] = @ \o SubSeq(mail[session[c]], 1, n)]
  /\ Goto(c, "dropping")
  /\ UNCHANGED <<dbVars, mail, session, owed, posts, srvVars>>

\* A packet without a route, a torn read, or a response that cannot be sent.
Disconnect(c) ==
  /\ pc[c] \in {"recv", "pump"}
  /\ Goto(c, "dropping")
  /\ UNCHANGED <<dbVars, mailVars, session, histVars, srvVars>>

\* ON DELETE CASCADE for the owner, SET NULL for the client; the state stays.
CascadeLobby_KeepsClient(lobby, s) ==
  IF lobby = NoLobby \/ lobby.owner = s THEN NoLobby ELSE lobby
CascadeLobby(lobby, s) ==
  IF lobby = NoLobby \/ lobby.owner = s THEN NoLobby
  ELSE IF lobby.client = s THEN
       [owner |-> lobby.owner, client |-> NoSession, state |-> lobby.state]
  ELSE lobby

\* DELETE FROM session WHERE id = :id
DeleteSession_EveryRow(s) == sessions' = [id \in SessionIds |-> NoUser]
DeleteSession(s) ==
  sessions' = [id \in SessionIds |-> IF id = s THEN NoUser ELSE sessions[id]]

\* mOpenClients.erase(session)
EraseClient_Forgotten(s) == UNCHANGED mailVars
EraseClient(s) ==
  /\ open' = open \ {s}
  /\ mail' = [id \in SessionIds |-> IF id = s THEN <<>> ELSE mail[id]]

\* dropSession, run by the deferred block as the thread ends; with NoSession
\* nothing is deleted or erased.
DropSession(c) ==
  /\ pc[c] = "dropping"
  /\ DeleteSession(session[c])
  /\ lobbies' = [l \in LobbyIds |-> CascadeLobby(lobbies[l], session[c])]
  /\ EraseClient(session[c])
  /\ session' = [session EXCEPT ![c] = NoSession]
  /\ received' = [received EXCEPT ![c] = <<>>]
  /\ owed' = [owed EXCEPT ![c] = <<>>]
  /\ Goto(c, "idle")
  /\ UNCHANGED <<users, posts, srvVars>>
-----------------------------------------------------------------------------
\* stop: the listen socket is closed and the accept loop ends.
Stop ==
  /\ server = "running"
  /\ server' = "stopping"
  /\ UNCHANGED <<dbVars, mailVars, pc, session, histVars, stopped>>

\* work destroys its threads one after the other: stop request, then join.
RequestStop(c) ==
  /\ server = "stopping" /\ pc[c] # "idle" /\ c \notin stopped
  /\ \A d \in stopped : pc[d] = "idle"
  /\ stopped' = stopped \cup {c}
  /\ UNCHANGED <<dbVars, mailVars, pc, session, histVars, server>>

Joined ==
  /\ server = "stopping" /\ \A c \in Conns : pc[c] = "idle"
  /\ server' = "down" /\ stopped' = {}
  /\ UNCHANGED <<dbVars, mailVars, pc, session, histVars>>

\* The process ends without unwinding; the database file is all that is left.
Crash ==
  /\ server # "down"
  /\ server' = "down" /\ stopped' = {}
  /\ open' = {}
  /\ mail' = [id \in SessionIds |-> <<>>]
  /\ pc' = [c \in Conns |-> "idle"]
  /\ session' = [c \in Conns |-> NoSession]
  /\ received' = [c \in Conns |-> <<>>]
  /\ owed' = [c \in Conns |-> <<>>]
  /\ UNCHANGED <<dbVars, posts>>

\* createSchema: the tables of the previous run are kept but for their rows.
Restart ==
  /\ server = "down"
  /\ server' = "running"
  /\ sessions' = [id \in SessionIds |-> NoUser]
  /\ lobbies' = [l \in LobbyIds |-> NoLobby]
  /\ UNCHANGED <<users, mailVars, pc, session, histVars, stopped>>

\* One step of the thread that serves c.
Handler(c) ==
  \/ Quiet(c) \/ CreateAccount(c) \/ Login(c) \/ OpenClient(c)
  \/ CreateLobby(c) \/ JoinLobby(c) \/ AuthPost(c) \/ AuthList(c)
  \/ FinishList(c) \/ Broadcast(c) \/ Pump(c) \/ PumpFails(c)
  \/ Disconnect(c) \/ DropSession(c)

Next ==
  \/ \E c \in Conns : Accept(c) \/ Handler(c) \/ RequestStop(c)
  \/ Stop \/ Joined \/ Crash \/ Restart

Spec == Init /\ [][Next]_vars

\* Receives and sends carry timeouts, so a thread that can step does, and so
\* does the thread that stops and joins them.
Fairness ==
  /\ \A c \in Conns : WF_vars(Handler(c)) /\ WF_vars(RequestStop(c))
  /\ WF_vars(Joined)

FairSpec == Spec /\ Fairness
-----------------------------------------------------------------------------
TypeOK ==
  /\ users \in SUBSET Users
  /\ sessions \in [SessionIds -> Users \cup {NoUser}]
  /\ lobbies \in [LobbyIds -> Lobby \cup {NoLobby}]
  /\ open \in SUBSET SessionIds
  /\ mail \in [SessionIds -> Seq(Post)]
  /\ pc \in [Conns -> Places]
  /\ session \in [Conns -> SessionIds \cup {NoSession}]
  /\ received \in [Conns -> Seq(Post)]
  /\ owed \in [Conns -> Seq(Post)]
  /\ posts \in Nat
  /\ server \in {"running", "stopping", "down"}
  /\ stopped \in SUBSET Conns

\* Each user's client has one connection the server still serves.
Exclusive == \A c, d \in Conns : UserOf[c] = UserOf[d] => c = d

\* While the server is up no row of table session and no entry of mOpenClients
\* outlives the threads that hold its id, whatever way the threads end: a user
\* is never locked out, and no queue grows for nobody, after its handler is gone.
NoOrphans ==
  server # "down" =>
    \A id \in SessionIds :
      id \in SessionRows \/ id \in open => \E c \in Conns : session[c] = id

\* With one connection per user, the row of the id a thread keeps in its local
\* `session` is still there and still its own user's, although ids are reused
\* and every other thread may delete rows in between.
OwnSession ==
  Exclusive => \A c \in Conns :
    session[c] # NoSession => sessions[session[c]] = UserOf[c]

\* With one connection per user, every post broadcast by another session since
\* a client was opened was either written to its connection or is queued, once
\* and in the order of the broadcasts.
NoLostPost ==
  Exclusive => \A c \in Conns :
    Serving(c) => /\ session[c] \in open
                  /\ received[c] \o mail[session[c]] = owed[c]

Ascending(queue) == \A i, j \in DOMAIN queue : i < j => queue[i].no < queue[j].no

\* Even with several connections per user, a connection gets each post at most
\* once, in the order of the broadcasts, and never one of its own session.
InOrder ==
  \A c \in Conns :
    /\ Ascending(received[c])
    /\ \A i \in DOMAIN received[c] : received[c][i].author # session[c]

\* A lobby's owner and joined client are sessions that exist, however threads
\* end, and a lobby still open has no client.
LobbyRefs ==
  server # "down" =>
    \A l \in LobbyRows :
      /\ lobbies[l].owner \in SessionRows
      /\ lobbies[l].client \in SessionRows \cup {NoSession}
      /\ lobbies[l].state = "O" => lobbies[l].client = NoSession

\* Where a thread stands tells whether it holds a session.
PcSession ==
  \A c \in Conns :
    /\ pc[c] = "idle" => session[c] = NoSession
    /\ pc[c] \in {"opening", "posting", "listing"} => session[c] # NoSession

\* A server that is down has no thread and no entry of mOpenClients.
DownEmpty == server = "down" => open = {} /\ \A c \in Conns : pc[c] = "idle"

\* Nothing was written, and nothing is due, before a client is opened.
Unopened ==
  \A c \in Conns :
    session[c] = NoSession \/ pc[c] = "opening" => received[c] = <<>> /\ owed[c] = <<>>

\* Queued posts are among those broadcast, in their order, and none is of the
\* queue's own session.
QueueOrder ==
  \A id \in SessionIds :
    /\ Ascending(mail[id])
    /\ \A i \in DOMAIN mail[id] : mail[id][i].no <= posts /\ mail[id][i].author # id

\* What a connection was sent comes before all that is queued for it.  A thread
\* whose send failed left the queue as it was: it sends nothing any more.
SentBeforeQueued ==
  \A c \in Conns :
    /\ \A i \in DOMAIN received[c] : received[c][i].no <= posts
    /\ session[c] # NoSession /\ pc[c] # "dropping" =>
         \A i \in DOMAIN received[c] : \A j \in DOMAIN mail[session[c]] :
           received[c][i].no < mail[session[c]][j].no

\* The inductive invariant: what the theorems of AccountServerProofs need to
\* know of one state to carry the properties above over every step of the
\* threads, the stop, the crash and the restart.
IInv == /\ TypeOK /\ PcSession /\ DownEmpty /\ Unopened
        /\ NoOrphans /\ LobbyRefs /\ OwnSession /\ NoLostPost
        /\ QueueOrder /\ SentBeforeQueued /\ InOrder

\* A lobby is joined once: its client changes only while it is open, which ends
\* with it, or to nobody when the joined session's thread ends.
JoinOnce ==
  [][\A l \in LobbyRows \cap LobbyRows' :
       lobbies'[l].client # lobbies[l].client =>
         \/ lobbies[l].state = "O" /\ lobbies'[l].state = "J"
         \/ /\ lobbies'[l].client = NoSession
            /\ lobbies[l].client \notin SessionRows']_vars

\* A post is never queued for a session without a thread, which would send it.
QueuesServed ==
  \A id \in SessionIds :
    mail[id] # <<>> => id \in open /\ \E c \in Conns : session[c] = id

\* A post queued for a thread's session is taken off the queue, by sending it
\* or by the end of that thread.
PostsFlushed ==
  \A c \in Conns :
    (Serving(c) /\ mail[session[c]] # <<>>)
      ~> (~Serving(c) \/ mail[session[c]] = <<>>)

\* A server that is asked to stop joins every thread.
StopDrains == server = "stopping" ~> server = "down"
=============================================================================
