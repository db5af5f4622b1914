------------------------- MODULE AccountServerProofs -------------------------
(***************************************************************************)
(* Theorems about AccountServer, for every number of connections, users,   *)
(* sessions, lobbies and posts.  IInv is proved part by part, in the order *)
(* in which the parts rest on each other:                                  *)
(*   TypeOK and PcSession; then NoOrphans and DownEmpty, LobbyRefs; then   *)
(*   OwnSession; then Unopened and NoLostPost; then QueueOrder, which      *)
(*   with Unopened gives SentBeforeQueued and InOrder.                     *)
(***************************************************************************)
EXTENDS AccountServer, SequenceTheorems, TLAPS

Typed == TypeOK /\ PcSession

LEMMA InitTyped == Init => Typed
  BY ConstantsAssumption
  DEF Init, Typed, TypeOK, PcSession, SessionIds, LobbyIds, Places, NoSession, Lobby, Post

\* Every step keeps each variable in its type, and a thread that holds no
\* session out of the places that use one.
LEMMA NextTyped == Typed /\ [Next]_vars => Typed'
  <1> SUFFICES ASSUME Typed, [Next]_vars PROVE Typed'
    OBVIOUS
  <1> USE ConstantsAssumption
      DEF Typed, TypeOK, PcSession, Places, Goto, dbVars, mailVars, histVars, srvVars
  <1>0. NoSession \notin SessionIds
    BY DEF NoSession, SessionIds
  <1>1. ASSUME NEW c \in Conns, Accept(c) PROVE Typed'
    BY <1>1 DEF Accept
  <1>2. ASSUME NEW c \in Conns, Quiet(c) PROVE Typed'
    BY <1>2 DEF Quiet
  <1>3. ASSUME NEW c \in Conns, CreateAccount(c) PROVE Typed'
    BY <1>3 DEF CreateAccount
  <1>4. ASSUME NEW c \in Conns, Login(c) PROVE Typed'
    <2>1. PICK id \in SessionIds : /\ UpsertSession(UserOf[c], id)
                                   /\ session' = [session EXCEPT ![c] = id]
      BY <1>4 DEF Login
    <2>2. sessions' \in [SessionIds -> Users \cup {NoUser}]
      BY <2>1 DEF UpsertSession
    <2> QED
      BY <1>0, <1>4, <2>1, <2>2 DEF Login
  <1>5. ASSUME NEW c \in Conns, OpenClient(c) PROVE Typed'
    <2>1. session[c] \in SessionIds /\ <<>> \in Seq(Post)
      BY <1>5 DEF OpenClient
    <2>2. open' \in SUBSET SessionIds /\ mail' \in [SessionIds -> Seq(Post)]
      BY <1>5, <2>1 DEF OpenClient
    <2> QED
      BY <1>5, <2>2 DEF OpenClient
  <1>6. ASSUME NEW c \in Conns, CreateLobby(c) PROVE Typed'
    BY <1>6 DEF CreateLobby, Lobby, SessionRows
  <1>7. ASSUME NEW c \in Conns, JoinLobby(c) PROVE Typed'
    <2>1. PICK l \in LobbyRows : lobbies' = [lobbies EXCEPT ![l] =
            [owner |-> lobbies[l].owner, client |-> session[c], state |-> "J"]]
      BY <1>7 DEF JoinLobby
    <2>2. lobbies[l] \in Lobby /\ session[c] \in SessionIds
      BY <1>7 DEF LobbyRows, JoinLobby, SessionRows
    <2>3. lobbies' \in [LobbyIds -> Lobby \cup {NoLobby}]
      BY <2>1, <2>2 DEF Lobby
    <2> QED
      BY <1>7, <2>3 DEF JoinLobby
  <1>8. ASSUME NEW c \in Conns, AuthPost(c) \/ AuthList(c) PROVE Typed'
    BY <1>0, <1>8 DEF AuthPost, AuthList, SessionRows
  <1>9. ASSUME NEW c \in Conns, FinishList(c) PROVE Typed'
    BY <1>9 DEF FinishList
  <1>10. ASSUME NEW c \in Conns, Broadcast(c) PROVE Typed'
    <2>1. NewPost(c) \in Post
      BY <1>10 DEF Broadcast, NewPost, Post
    <2>2. mail' \in [SessionIds -> Seq(Post)] /\ owed' \in [Conns -> Seq(Post)]
      BY <1>10, <2>1 DEF Broadcast
    <2> QED
      BY <1>10, <2>2 DEF Broadcast
  <1>11. ASSUME NEW c \in Conns, Pump(c) PROVE Typed'
    <2>1. CASE session[c] = NoSession
      BY <1>11, <2>1 DEF Pump, LoopHead
    <2>2. CASE session[c] # NoSession
      <3>1. session[c] \in SessionIds /\ <<>> \in Seq(Post)
        BY <2>2
      <3>2. mail[session[c]] \in Seq(Post)
        BY <3>1
      <3>3. received[c] \o mail[session[c]] \in Seq(Post)
        BY <3>2, ConcatProperties
      <3>4. /\ open' = open \cup {session[c]}
            /\ mail' = [mail EXCEPT ![session[c]] = <<>>]
            /\ received' = [received EXCEPT ![c] = received[c] \o mail[session[c]]]
        BY <1>11, <2>2 DEF Pump, Flush
      <3>5. open' \in SUBSET SessionIds
        BY <3>1, <3>4
      <3>6. mail' \in [SessionIds -> Seq(Post)]
        BY <3>1, <3>4
      <3>7. received' \in [Conns -> Seq(Post)]
        BY <3>3, <3>4
      <3> QED
        BY <1>11, <3>5, <3>6, <3>7 DEF Pump, LoopHead
    <2> QED
      BY <2>1, <2>2
  <1>12. ASSUME NEW c \in Conns, PumpFails(c) PROVE Typed'
    BY <1>12 DEF PumpFails
  <1>13. ASSUME NEW c \in Conns, Disconnect(c) PROVE Typed'
    BY <1>13 DEF Disconnect
  <1>14. ASSUME NEW c \in Conns, DropSession(c) PROVE Typed'
    <2>1. ASSUME NEW l \in LobbyIds
          PROVE  CascadeLobby(lobbies[l], session[c]) \in Lobby \cup {NoLobby}
      <3>1. CASE lobbies[l] = NoLobby \/ lobbies[l].owner = session[c]
        BY <3>1 DEF CascadeLobby
      <3>2. CASE ~(lobbies[l] = NoLobby \/ lobbies[l].owner = session[c])
        <4>1. lobbies[l] \in Lobby
          BY <3>2
        <4>2. [owner |-> lobbies[l].owner, client |-> NoSession,
               state |-> lobbies[l].state] \in Lobby
          BY <4>1 DEF Lobby
        <4> QED
          BY <3>2, <4>1, <4>2 DEF CascadeLobby
      <3> QED
        BY <3>1, <3>2
    <2>2. lobbies' \in [LobbyIds -> Lobby \cup {NoLobby}]
      BY <1>14, <2>1 DEF DropSession
    <2>3. mail' \in [SessionIds -> Seq(Post)] /\ open' \in SUBSET SessionIds
      BY <1>14 DEF DropSession, EraseClient
    <2>4. received' \in [Conns -> Seq(Post)] /\ owed' \in [Conns -> Seq(Post)]
      BY <1>14 DEF DropSession
    <2> QED
      BY <1>14, <2>2, <2>3, <2>4 DEF DropSession, DeleteSession
  <1>15. ASSUME NEW c \in Conns, RequestStop(c) PROVE Typed'
    BY <1>15 DEF RequestStop
  <1>16. CASE Stop
    BY <1>16 DEF Stop
  <1>17. CASE Joined
    BY <1>17 DEF Joined
  <1>18. CASE Crash
    BY <1>18 DEF Crash
  <1>19. CASE Restart
    BY <1>19 DEF Restart
  <1>20. CASE UNCHANGED vars
    BY <1>20 DEF vars
  <1> QED
    BY <1>1, <1>2, <1>3, <1>4, <1>5, <1>6, <1>7, <1>8, <1>9, <1>10, <1>11,
       <1>12, <1>13, <1>14, <1>15, <1>16, <1>17, <1>18, <1>19, <1>20
    DEF Next, Handler

\* Every reachable state is well typed.
THEOREM Typing == Spec => []TypeOK
  <1>1. Spec => []Typed
    BY InitTyped, NextTyped, PTL DEF Spec
  <1>2. Typed => TypeOK
    BY DEF Typed
  <1> QED
    BY <1>1, <1>2, PTL
-----------------------------------------------------------------------------
Held == NoOrphans /\ DownEmpty

LEMMA InitHeld == Init => Held
  BY DEF Init, Held, NoOrphans, DownEmpty, SessionRows

\* A thread leaves only by DropSession, which takes the row and the entry of its
\* id along; a crash leaves rows behind, and the next start deletes them.
LEMMA NextHeld == Typed /\ Held /\ [Next]_vars => Held'
  <1> SUFFICES ASSUME Typed, Held, [Next]_vars PROVE Held'
    OBVIOUS
  <1> USE DEF Typed, TypeOK, PcSession, Held, NoOrphans, DownEmpty, SessionRows,
              Places, Goto, dbVars, mailVars, histVars, srvVars
  <1>0. NoSession \notin SessionIds
    BY DEF NoSession, SessionIds
  <1>1. ASSUME NEW c \in Conns, Accept(c) PROVE Held'
    BY <1>1 DEF Accept
  <1>2. ASSUME NEW c \in Conns,
               \/ Quiet(c) \/ AuthPost(c) \/ AuthList(c) \/ FinishList(c)
               \/ Disconnect(c)
        PROVE Held'
    BY <1>2 DEF Quiet, AuthPost, AuthList, FinishList, Disconnect
  <1>3. ASSUME NEW c \in Conns, CreateAccount(c) \/ CreateLobby(c) \/ JoinLobby(c)
        PROVE Held'
    BY <1>3 DEF CreateAccount, CreateLobby, JoinLobby
  <1>4. ASSUME NEW c \in Conns, Login(c) PROVE Held'
    <2>1. PICK id \in SessionIds : /\ UpsertSession(UserOf[c], id)
                                   /\ session' = [session EXCEPT ![c] = id]
      BY <1>4 DEF Login
    <2>2. session[c] = NoSession /\ server # "down" /\ UNCHANGED <<open, server>>
      BY <1>4 DEF Login, MayLogin
    <2>3. \A r \in SessionIds : sessions'[r] # NoUser => r = id \/ sessions[r] # NoUser
      BY <2>1 DEF UpsertSession
    <2>4. \A d \in Conns : session[d] # NoSession => session'[d] = session[d]
      BY <2>1, <2>2
    <2>5. session'[c] = id
      BY <2>1
    <2>6. ASSUME NEW r \in SessionIds, sessions'[r] # NoUser \/ r \in open'
          PROVE  \E d \in Conns : session'[d] = r
      BY <1>0, <2>2, <2>3, <2>4, <2>5, <2>6
    <2> QED
      BY <2>2, <2>6
  <1>5. ASSUME NEW c \in Conns, OpenClient(c) PROVE Held'
    BY <1>5 DEF OpenClient
  <1>6. ASSUME NEW c \in Conns, Broadcast(c) PROVE Held'
    BY <1>6 DEF Broadcast
  <1>7. ASSUME NEW c \in Conns, Pump(c) \/ PumpFails(c) PROVE Held'
    BY <1>7 DEF Pump, Flush, PumpFails, LoopHead
  <1>8. ASSUME NEW c \in Conns, DropSession(c) PROVE Held'
    <2>1. server # "down" /\ UNCHANGED server
      BY <1>8 DEF DropSession
    <2>2. ASSUME NEW r \in SessionIds, sessions'[r] # NoUser \/ r \in open'
          PROVE  \E d \in Conns : session'[d] = r
      <3>1. r # session[c] /\ (sessions[r] # NoUser \/ r \in open)
        BY <1>8, <2>2 DEF DropSession, DeleteSession, EraseClient
      <3>2. PICK d \in Conns : session[d] = r
        BY <2>1, <3>1
      <3>3. session'[d] = r
        BY <1>8, <3>1, <3>2 DEF DropSession
      <3> QED
        BY <3>3
    <2> QED
      BY <2>1, <2>2
  <1>9. ASSUME NEW c \in Conns, RequestStop(c) PROVE Held'
    BY <1>9 DEF RequestStop
  <1>10. CASE Stop
    BY <1>10 DEF Stop
  <1>11. CASE Joined
    <2>1. \A c \in Conns : session[c] = NoSession
      BY <1>11 DEF Joined
    <2>2. open = {}
      BY <1>0, <1>11, <2>1 DEF Joined
    <2> QED
      BY <1>11, <2>2 DEF Joined
  <1>12. CASE Crash
    BY <1>12 DEF Crash, Typed
  <1>13. CASE Restart
    BY <1>13 DEF Restart
  <1>14. CASE UNCHANGED vars
    BY <1>14 DEF vars
  <1> QED
    BY <1>1, <1>2, <1>3, <1>4, <1>5, <1>6, <1>7, <1>8, <1>9, <1>10, <1>11,
       <1>12, <1>13, <1>14
    DEF Next, Handler

\* No session row and no entry of mOpenClients outlives the threads that hold
\* its id, however many threads there are and however their ids coincide.
THEOREM Orphans == Spec => []NoOrphans
  <1>1. Spec => []Typed
    BY InitTyped, NextTyped, PTL DEF Spec
  <1>2. Spec => []Held
    BY <1>1, InitHeld, NextHeld, PTL DEF Spec
  <1>3. Held => NoOrphans
    BY DEF Held
  <1> QED
    BY <1>2, <1>3, PTL
-----------------------------------------------------------------------------
LEMMA InitLobbyRefs == Init => LobbyRefs
  BY DEF Init, LobbyRefs, LobbyRows

\* Deleting a session takes its lobbies along and clears the client of those it
\* joined; nothing else removes a session row while the server is up.
LEMMA NextLobbyRefs == Typed /\ LobbyRefs /\ [Next]_vars => LobbyRefs'
  <1> SUFFICES ASSUME Typed, LobbyRefs, [Next]_vars PROVE LobbyRefs'
    OBVIOUS
  <1> USE ConstantsAssumption
      DEF Typed, TypeOK, LobbyRefs, SessionRows, LobbyRows, dbVars, mailVars,
          histVars, srvVars
  <1>0. NoSession \notin SessionIds /\ NoLobby \notin Lobby
    BY DEF NoSession, SessionIds, Lobby
  <1>1. CASE UNCHANGED <<sessions, lobbies, server>>
    BY <1>1
  <1>2. ASSUME NEW c \in Conns, Login(c) PROVE LobbyRefs'
    BY <1>2 DEF Login, UpsertSession
  <1>3. ASSUME NEW c \in Conns, CreateLobby(c) PROVE LobbyRefs'
    <2>1. PICK l \in LobbyIds : lobbies' = [lobbies EXCEPT ![l] =
            [owner |-> session[c], client |-> NoSession, state |-> "O"]]
      BY <1>3 DEF CreateLobby
    <2>2. session[c] \in SessionRows /\ UNCHANGED <<sessions, server>>
      BY <1>3 DEF CreateLobby
    <2> QED
      BY <2>1, <2>2
  <1>4. ASSUME NEW c \in Conns, JoinLobby(c) PROVE LobbyRefs'
    <2>1. PICK l \in LobbyRows : lobbies' = [lobbies EXCEPT ![l] =
            [owner |-> lobbies[l].owner, client |-> session[c], state |-> "J"]]
      BY <1>4 DEF JoinLobby
    <2>2. session[c] \in SessionRows /\ UNCHANGED <<sessions, server>>
      BY <1>4 DEF JoinLobby
    <2> QED
      BY <2>1, <2>2
  <1>5. ASSUME NEW c \in Conns, DropSession(c) PROVE LobbyRefs'
    <2> SUFFICES ASSUME server # "down", NEW l \in LobbyIds, lobbies'[l] # NoLobby
                 PROVE  /\ lobbies'[l].owner \in SessionRows'
                        /\ lobbies'[l].client \in SessionRows' \cup {NoSession}
                        /\ lobbies'[l].state = "O" => lobbies'[l].client = NoSession
      BY <1>5 DEF DropSession
    <2>1. lobbies'[l] = CascadeLobby(lobbies[l], session[c])
      BY <1>5 DEF DropSession
    <2>2. lobbies[l] # NoLobby /\ lobbies[l].owner # session[c]
      BY <2>1 DEF CascadeLobby
    <2>3. \A id \in SessionRows : id # session[c] => id \in SessionRows'
      BY <1>5 DEF DropSession, DeleteSession
    <2>4. CASE lobbies[l].client = session[c]
      <3>1. lobbies'[l] = [owner |-> lobbies[l].owner, client |-> NoSession,
                           state |-> lobbies[l].state]
        BY <2>1, <2>2, <2>4 DEF CascadeLobby
      <3> QED
        BY <2>2, <2>3, <3>1
    <2>5. CASE lobbies[l].client # session[c]
      <3>1. lobbies'[l] = lobbies[l]
        BY <2>1, <2>2, <2>5 DEF CascadeLobby
      <3> QED
        BY <2>2, <2>3, <2>5, <3>1
    <2> QED
      BY <2>4, <2>5
  <1>6. CASE Stop \/ Joined
    BY <1>6 DEF Stop, Joined
  <1>7. CASE Crash \/ Restart
    BY <1>7 DEF Crash, Restart
  <1>8. ASSUME NEW c \in Conns,
               \/ Accept(c) \/ RequestStop(c) \/ Quiet(c) \/ CreateAccount(c)
               \/ OpenClient(c) \/ AuthPost(c) \/ AuthList(c) \/ FinishList(c)
               \/ Broadcast(c) \/ Pump(c) \/ PumpFails(c) \/ Disconnect(c)
        PROVE UNCHANGED <<sessions, lobbies, server>>
    BY <1>8 DEF Accept, RequestStop, Quiet, CreateAccount, OpenClient, AuthPost,
       AuthList, FinishList, Broadcast, Pump, PumpFails, Disconnect
  <1> QED
    BY <1>1, <1>2, <1>3, <1>4, <1>5, <1>6, <1>7, <1>8 DEF Next, Handler, vars

\* Lobbies refer to sessions that exist, whatever threads end in between.
THEOREM LobbiesRefer == Spec => []LobbyRefs
  <1>1. Spec => []Typed
    BY InitTyped, NextTyped, PTL DEF Spec
  <1> QED
    BY <1>1, InitLobbyRefs, NextLobbyRefs, PTL DEF Spec
-----------------------------------------------------------------------------
LEMMA InitOwnSession == Init => OwnSession
  BY DEF Init, OwnSession

\* A user that logs in has no row yet: by NoOrphans some thread would hold its
\* id, by OwnSession that thread would serve the same user, hence be the same.
LEMMA NextOwnSession == Typed /\ Held /\ OwnSession /\ [Next]_vars => OwnSession'
  <1> SUFFICES ASSUME Typed, Held, OwnSession, Exclusive, [Next]_vars,
                      NEW c \in Conns, session'[c] # NoSession
               PROVE  sessions'[session'[c]] = UserOf[c]
    BY DEF OwnSession, Exclusive
  <1> USE ConstantsAssumption
      DEF Typed, TypeOK, PcSession, dbVars, mailVars, histVars, srvVars
  <1>0. NoSession \notin SessionIds
    BY DEF NoSession, SessionIds
  <1>1. CASE UNCHANGED <<sessions, session>>
    BY <1>1 DEF OwnSession
  <1>2. ASSUME NEW d \in Conns, Login(d) PROVE sessions'[session'[c]] = UserOf[c]
    <2>1. PICK id \in SessionIds : /\ UpsertSession(UserOf[d], id)
                                   /\ session' = [session EXCEPT ![d] = id]
      BY <1>2 DEF Login
    <2>2. session[d] = NoSession /\ server # "down" /\ UserOf[d] # NoUser
      <3>1. pc[d] = "recv" /\ session[d] = NoSession
        BY <1>2 DEF Login, MayLogin
      <3> QED
        BY <3>1 DEF Held, DownEmpty
    <2>3. ASSUME NEW r \in SessionIds, sessions[r] = UserOf[d] PROVE FALSE
      <3>1. PICK e \in Conns : session[e] = r
        BY <2>2, <2>3 DEF Held, NoOrphans, SessionRows
      <3>2. UserOf[e] = UserOf[d]
        BY <1>0, <2>3, <3>1 DEF OwnSession
      <3> QED
        BY <1>0, <2>2, <3>1, <3>2 DEF Exclusive
    <2>4. sessions' = [sessions EXCEPT ![id] = UserOf[d]] /\ id \notin SessionRows
      <3>1. id < id => FALSE
        BY DEF SessionIds
      <3> QED
        BY <2>1, <2>3, <3>1 DEF UpsertSession, IsNextRow
    <2>5. CASE c = d
      BY <2>1, <2>4, <2>5
    <2>6. CASE c # d
      <3>1. session'[c] = session[c] /\ session[c] \in SessionIds
        BY <2>1, <2>6
      <3>2. sessions[session[c]] = UserOf[c] /\ UserOf[c] # NoUser
        BY <3>1 DEF OwnSession
      <3>3. session[c] # id
        BY <2>4, <3>1, <3>2 DEF SessionRows
      <3> QED
        BY <2>4, <3>1, <3>2, <3>3
    <2> QED
      BY <2>5, <2>6
  <1>3. ASSUME NEW d \in Conns, DropSession(d) PROVE sessions'[session'[c]] = UserOf[c]
    <2>1. /\ sessions' = [id \in SessionIds |->
                            IF id = session[d] THEN NoUser ELSE sessions[id]]
          /\ session' = [session EXCEPT ![d] = NoSession]
      BY <1>3 DEF DropSession, DeleteSession
    <2>2. c # d /\ session'[c] = session[c] /\ session[c] \in SessionIds
      BY <2>1
    <2>3. session[c] # session[d]
      BY <2>2 DEF OwnSession, Exclusive
    <2> QED
      BY <2>1, <2>2, <2>3 DEF OwnSession
  <1>4. CASE Crash
    BY <1>4 DEF Crash
  <1>5. CASE Restart
    BY <1>5 DEF Restart, Held, DownEmpty
  <1>6. ASSUME NEW d \in Conns,
               \/ Accept(d) \/ RequestStop(d) \/ Quiet(d) \/ CreateAccount(d)
               \/ OpenClient(d) \/ CreateLobby(d) \/ JoinLobby(d) \/ AuthPost(d)
               \/ AuthList(d) \/ FinishList(d) \/ Broadcast(d) \/ Pump(d)
               \/ PumpFails(d) \/ Disconnect(d)
        PROVE UNCHANGED <<sessions, session>>
    BY <1>6 DEF Accept, RequestStop, Quiet, CreateAccount, OpenClient, CreateLobby,
       JoinLobby, AuthPost, AuthList, FinishList, Broadcast, Pump, PumpFails, Disconnect
  <1>7. CASE Stop \/ Joined \/ UNCHANGED vars
    BY <1>1, <1>7 DEF Stop, Joined, vars
  <1> QED
    BY <1>1, <1>2, <1>3, <1>4, <1>5, <1>6, <1>7 DEF Next, Handler

\* With one connection per user a thread never acts under a row that is gone or
\* has become another user's, although row ids are reused.
THEOREM SessionsOwned == Spec => []OwnSession
  <1>1. Spec => []Typed
    BY InitTyped, NextTyped, PTL DEF Spec
  <1>2. Spec => []Held
    BY <1>1, InitHeld, NextHeld, PTL DEF Spec
  <1> QED
    BY <1>1, <1>2, InitOwnSession, NextOwnSession, PTL DEF Spec
-----------------------------------------------------------------------------
\* Facts about sequences the delivery argument needs.
LEMMA ConcatAppend ==
  ASSUME NEW S, NEW r \in Seq(S), NEW m \in Seq(S), NEW e \in S
  PROVE  r \o Append(m, e) = Append(r \o m, e)
  <1>1. Append(m, e) \in Seq(S) /\ r \o m \in Seq(S)
    OBVIOUS
  <1>2. Len(r \o Append(m, e)) = Len(Append(r \o m, e))
    BY <1>1
  <1>3. ASSUME NEW i \in 1..Len(Append(r \o m, e))
        PROVE  (r \o Append(m, e))[i] = Append(r \o m, e)[i]
    BY <1>1, <1>3
  <1> QED
    BY <1>1, <1>2, <1>3, SeqEqual

Delivery == Unopened /\ NoLostPost

LEMMA InitDelivery == Init => Delivery
  BY DEF Init, Delivery, Unopened, NoLostPost, Serving

\* Before its entry exists a client is neither sent nor owed anything.
LEMMA NextUnopened == Typed /\ Unopened /\ [Next]_vars => Unopened'
  <1> SUFFICES ASSUME Typed, Unopened, [Next]_vars PROVE Unopened'
    OBVIOUS
  <1> USE DEF Typed, TypeOK, PcSession, Unopened, Goto, dbVars, mailVars, histVars, srvVars
  <1>0. NoSession \notin SessionIds
    BY DEF NoSession, SessionIds
  <1>1. ASSUME NEW c \in Conns, Login(c) PROVE Unopened'
    BY <1>1 DEF Login, MayLogin
  <1>2. ASSUME NEW c \in Conns, Broadcast(c) PROVE Unopened'
    <2>1. ASSUME NEW d \in Conns, session[d] = NoSession \/ pc'[d] = "opening"
          PROVE  owed'[d] = owed[d] /\ (session[d] = NoSession \/ pc[d] = "opening")
      BY <1>2, <2>1 DEF Broadcast, Serving
    <2> QED
      BY <1>2, <2>1 DEF Broadcast
  <1>3. ASSUME NEW c \in Conns, Pump(c) PROVE Unopened'
    <2>1. CASE session[c] = NoSession
      BY <1>3, <2>1 DEF Pump, LoopHead
    <2>2. CASE session[c] # NoSession
      <3>1. /\ received' = [received EXCEPT ![c] = received[c] \o mail[session[c]]]
            /\ pc'[c] # "opening" /\ UNCHANGED <<session, owed>>
        BY <1>3, <2>2 DEF Pump, Flush, LoopHead
      <3>2. \A d \in Conns : d # c => received'[d] = received[d] /\ pc'[d] = pc[d]
        BY <1>3, <3>1 DEF Pump
      <3> QED
        BY <2>2, <3>1, <3>2
    <2> QED
      BY <2>1, <2>2
  <1>4. ASSUME NEW c \in Conns, PumpFails(c) PROVE Unopened'
    BY <1>4 DEF PumpFails
  <1>5. ASSUME NEW c \in Conns, DropSession(c) PROVE Unopened'
    BY <1>5 DEF DropSession
  <1>6. CASE Crash
    BY <1>6 DEF Crash
  <1>7. ASSUME NEW c \in Conns,
               \/ Accept(c) \/ Quiet(c) \/ CreateAccount(c) \/ OpenClient(c)
               \/ CreateLobby(c) \/ JoinLobby(c) \/ AuthPost(c) \/ AuthList(c)
               \/ FinishList(c) \/ Disconnect(c)
        PROVE Unopened'
    BY <1>7 DEF Accept, Quiet, CreateAccount, OpenClient, CreateLobby, JoinLobby,
       AuthPost, AuthList, FinishList, Disconnect
  <1>8. ASSUME NEW c \in Conns, RequestStop(c) PROVE Unopened'
    BY <1>8 DEF RequestStop
  <1>9. CASE Stop \/ Joined \/ Restart \/ UNCHANGED vars
    BY <1>9 DEF Stop, Joined, Restart, vars
  <1> QED
    BY <1>1, <1>2, <1>3, <1>4, <1>5, <1>6, <1>7, <1>8, <1>9 DEF Next, Handler

\* The queue and the connection of a served client change only together: posts
\* go from the one to the other, and come to both the queue and what is owed.
LEMMA NextNoLostPost ==
  Typed /\ OwnSession /\ Unopened /\ NoLostPost /\ [Next]_vars => NoLostPost'
  <1> SUFFICES ASSUME Typed, OwnSession, Unopened, NoLostPost, Exclusive, [Next]_vars,
                      NEW d \in Conns, Serving(d)'
               PROVE  /\ session'[d] \in open'
                      /\ received'[d] \o mail'[session'[d]] = owed'[d]
    BY DEF NoLostPost, Exclusive, Serving
  <1> DEFINE Kept == /\ session'[d] \in open'
                     /\ received'[d] \o mail'[session'[d]] = owed'[d]
  <1> SUFFICES Kept
    OBVIOUS
  <1> USE DEF Typed, TypeOK, PcSession, Goto, dbVars, mailVars, histVars, srvVars
  <1>0. NoSession \notin SessionIds
    BY DEF NoSession, SessionIds
  <1>1. Serving(d) => /\ session[d] \in open /\ session[d] \in SessionIds
                      /\ received[d] \o mail[session[d]] = owed[d]
    BY DEF NoLostPost, Serving
  \* Distinct threads hold distinct ids.
  <1>2. \A c \in Conns : c # d /\ session[d] # NoSession => session[c] # session[d]
    BY DEF OwnSession, Exclusive
  <1>3. CASE Serving(d) /\ UNCHANGED <<session, open, mail, received, owed>>
    BY <1>1, <1>3
  <1>4. ASSUME NEW c \in Conns, OpenClient(c) PROVE Kept
    <2>1. /\ open' = open \cup {session[c]} /\ mail' = [mail EXCEPT ![session[c]] = <<>>]
          /\ pc[c] = "opening" /\ pc' = [pc EXCEPT ![c] = "pump"]
          /\ UNCHANGED <<session, received, owed>>
      BY <1>4 DEF OpenClient
    <2>2. CASE c = d
      <3>1. received[d] = <<>> /\ owed[d] = <<>> /\ session[d] \in SessionIds
        BY <2>1, <2>2 DEF Unopened
      <3>2. mail'[session[d]] = <<>>
        BY <2>1, <2>2, <3>1
      <3>3. <<>> \o <<>> = <<>>
        OBVIOUS
      <3> QED
        BY <2>1, <2>2, <3>1, <3>2, <3>3
    <2>3. CASE c # d
      <3>1. Serving(d)
        BY <2>1, <2>3 DEF Serving
      <3>2. session[c] # session[d]
        BY <1>2, <2>3, <3>1 DEF Serving
      <3>3. mail'[session[d]] = mail[session[d]]
        BY <1>1, <2>1, <3>1, <3>2
      <3> QED
        BY <1>1, <2>1, <3>1, <3>3
    <2> QED
      BY <2>2, <2>3
  <1>5. ASSUME NEW c \in Conns, Broadcast(c) PROVE Kept
    <2>1. Serving(d) /\ UNCHANGED <<session, open, received>>
      BY <1>5 DEF Broadcast, Serving
    <2>2. NewPost(c) \in Post /\ NewPost(c).author = session[c]
      BY <1>5 DEF Broadcast, NewPost, Post
    <2>3. CASE session[d] = session[c]
      <3>1. mail'[session[d]] = mail[session[d]] /\ owed'[d] = owed[d]
        BY <1>1, <1>5, <2>1, <2>2, <2>3 DEF Broadcast
      <3> QED
        BY <1>1, <2>1, <3>1
    <2>4. CASE session[d] # session[c]
      <3>1. mail'[session[d]] = Append(mail[session[d]], NewPost(c))
        BY <1>1, <1>5, <2>1, <2>2, <2>4 DEF Broadcast
      <3>2. owed'[d] = Append(owed[d], NewPost(c))
        BY <1>5, <2>1, <2>2, <2>4 DEF Broadcast
      <3>3. /\ received[d] \in Seq(Post) /\ mail[session[d]] \in Seq(Post)
            /\ received[d] \o mail[session[d]] = owed[d]
        BY <1>1, <2>1
      <3>4. received[d] \o Append(mail[session[d]], NewPost(c))
              = Append(received[d] \o mail[session[d]], NewPost(c))
        <4>1. \A r, m \in Seq(Post) : \A e \in Post :
                r \o Append(m, e) = Append(r \o m, e)
          BY ConcatAppend
        <4> QED
          BY <2>2, <3>3, <4>1, ZenonT(30)
      <3> QED
        BY <1>1, <2>1, <3>1, <3>2, <3>4
    <2> QED
      BY <2>3, <2>4
  <1>6. ASSUME NEW c \in Conns, Pump(c) PROVE Kept
    <2>1. Serving(d) /\ UNCHANGED <<session, owed>>
      BY <1>6 DEF Pump, Serving, LoopHead
    <2>2. CASE session[c] = NoSession
      BY <1>1, <1>6, <2>1, <2>2 DEF Pump
    <2>3. CASE session[c] # NoSession
      <3>1. /\ open' = open \cup {session[c]} /\ mail' = [mail EXCEPT ![session[c]] = <<>>]
            /\ received' = [received EXCEPT ![c] = received[c] \o mail[session[c]]]
        BY <1>6, <2>3 DEF Pump, Flush
      <3>2. CASE c = d
        <4>1. received'[d] = owed[d] /\ mail'[session[d]] = <<>> /\ owed[d] \in Seq(Post)
          BY <1>1, <2>1, <3>1, <3>2
        <4>2. owed[d] \o <<>> = owed[d]
          BY <4>1, ConcatEmptySeq
        <4> QED
          BY <1>1, <2>1, <3>1, <4>1, <4>2
      <3>3. CASE c # d
        <4>1. received'[d] = received[d]
          BY <3>1, <3>3
        <4>2. mail'[session[d]] = mail[session[d]]
          <5>1. session[c] # session[d]
            BY <1>2, <2>1, <3>3 DEF Serving
          <5> QED
            BY <1>1, <2>1, <3>1, <5>1
        <4> QED
          BY <1>1, <2>1, <3>1, <4>1, <4>2
      <3> QED
        BY <3>2, <3>3
    <2> QED
      BY <2>2, <2>3
  <1>7. ASSUME NEW c \in Conns, PumpFails(c) PROVE Kept
    <2>1. c # d /\ Serving(d) /\ UNCHANGED <<session, owed, mail>>
      BY <1>7 DEF PumpFails, Serving
    <2>2. received'[d] = received[d] /\ session[d] \in open'
      BY <1>1, <1>7, <2>1 DEF PumpFails
    <2> QED
      BY <1>1, <2>1, <2>2
  <1>8. ASSUME NEW c \in Conns, DropSession(c) PROVE Kept
    <2>1. c # d /\ Serving(d)
      BY <1>8 DEF DropSession, Serving
    <2>2. session'[d] = session[d] /\ received'[d] = received[d] /\ owed'[d] = owed[d]
      BY <1>8, <2>1 DEF DropSession
    <2>3. session[c] # session[d]
      BY <1>2, <2>1 DEF Serving
    <2>4. session[d] \in open' /\ mail'[session[d]] = mail[session[d]]
      BY <1>1, <1>8, <2>1, <2>3 DEF DropSession, EraseClient
    <2> QED
      BY <1>1, <2>1, <2>2, <2>4
  <1>9. ASSUME NEW c \in Conns, Login(c) PROVE Kept
    <2>1. c # d /\ Serving(d) /\ session'[d] = session[d]
      BY <1>9 DEF Login, Serving
    <2> QED
      BY <1>1, <1>9, <2>1 DEF Login
  <1>10. CASE Crash
    BY <1>10 DEF Crash, Serving
  <1>11. ASSUME NEW c \in Conns,
                \/ Quiet(c) \/ CreateAccount(c) \/ CreateLobby(c) \/ JoinLobby(c)
                \/ AuthPost(c) \/ AuthList(c) \/ FinishList(c) \/ Disconnect(c)
         PROVE Kept
    <2>1. UNCHANGED <<session, open, mail, received, owed>>
      BY <1>11 DEF Quiet, CreateAccount, CreateLobby, JoinLobby, AuthPost, AuthList,
         FinishList, Disconnect
    <2>2. Serving(d)
      BY <1>11 DEF Quiet, CreateAccount, CreateLobby, JoinLobby, AuthPost, AuthList,
         FinishList, Disconnect, Serving
    <2> QED
      BY <1>3, <2>1, <2>2
  <1>12. ASSUME NEW c \in Conns, Accept(c) \/ RequestStop(c) PROVE Kept
    <2>1. Serving(d)
      BY <1>12 DEF Accept, RequestStop, Serving
    <2> QED
      BY <1>3, <1>12, <2>1 DEF Accept, RequestStop
  <1>13. CASE Stop \/ Joined \/ Restart \/ UNCHANGED vars
    <2>1. Serving(d)
      BY <1>13 DEF Stop, Joined, Restart, vars, Serving
    <2> QED
      BY <1>3, <1>13, <2>1 DEF Stop, Joined, Restart, vars
  <1> QED
    BY <1>4, <1>5, <1>6, <1>7, <1>8, <1>9, <1>10, <1>11, <1>12, <1>13
    DEF Next, Handler

\* With one connection per user, each post reaches every other served client
\* once and in order, or still waits in its queue.
THEOREM PostsDelivered == Spec => []NoLostPost
  <1>1. Spec => []Typed
    BY InitTyped, NextTyped, PTL DEF Spec
  <1>2. Spec => []OwnSession
    BY SessionsOwned
  <1>3. Spec => []Delivery
    <2>1. Typed /\ OwnSession /\ Delivery /\ [Next]_vars => Delivery'
      BY NextUnopened, NextNoLostPost DEF Delivery
    <2> QED
      BY <1>1, <1>2, <2>1, InitDelivery, PTL DEF Spec
  <1>4. Delivery => NoLostPost
    BY DEF Delivery
  <1> QED
    BY <1>3, <1>4, PTL
-----------------------------------------------------------------------------
\* What one step may do to the client of a lobby that exists before and after.
JoinStep ==
  \A l \in LobbyRows \cap LobbyRows' :
    lobbies'[l].client # lobbies[l].client =>
      \/ lobbies[l].state = "O" /\ lobbies'[l].state = "J"
      \/ /\ lobbies'[l].client = NoSession
         /\ lobbies[l].client \notin SessionRows'

LEMMA NextJoinStep == Typed /\ [Next]_vars => JoinStep
  <1> SUFFICES ASSUME Typed, [Next]_vars, NEW l \in LobbyIds,
                      lobbies[l] # NoLobby, lobbies'[l] # NoLobby,
                      lobbies'[l].client # lobbies[l].client
               PROVE  \/ lobbies[l].state = "O" /\ lobbies'[l].state = "J"
                      \/ /\ lobbies'[l].client = NoSession
                         /\ lobbies[l].client \notin SessionRows'
    BY DEF JoinStep, LobbyRows
  <1> USE DEF Typed, TypeOK, dbVars
  <1>1. lobbies' # lobbies
    OBVIOUS
  <1>2. ASSUME NEW c \in Conns, CreateLobby(c) PROVE FALSE
    <2>1. PICK k \in LobbyIds :
            /\ IsNextRow(k, LobbyRows)
            /\ lobbies' = [lobbies EXCEPT ![k] =
                 [owner |-> session[c], client |-> NoSession, state |-> "O"]]
      BY <1>2 DEF CreateLobby
    <2>2. k # l
      BY <2>1 DEF IsNextRow, LobbyRows, LobbyIds
    <2> QED
      BY <2>1, <2>2
  <1>3. ASSUME NEW c \in Conns, JoinLobby(c)
        PROVE  lobbies[l].state = "O" /\ lobbies'[l].state = "J"
    <2>1. PICK k \in LobbyRows :
            /\ Joinable(k)
            /\ lobbies' = [lobbies EXCEPT ![k] =
                 [owner |-> lobbies[k].owner, client |-> session[c], state |-> "J"]]
      BY <1>3 DEF JoinLobby
    <2>2. k = l
      BY <2>1
    <2> QED
      BY <2>1, <2>2 DEF Joinable
  <1>4. ASSUME NEW c \in Conns, DropSession(c)
        PROVE  /\ lobbies'[l].client = NoSession
               /\ lobbies[l].client \notin SessionRows'
    <2>1. /\ lobbies'[l] = CascadeLobby(lobbies[l], session[c])
          /\ session[c] \in SessionIds => sessions'[session[c]] = NoUser
      BY <1>4 DEF DropSession, DeleteSession
    <2>2. /\ lobbies[l].client = session[c]
          /\ lobbies'[l] = [owner |-> lobbies[l].owner, client |-> NoSession,
                            state |-> lobbies[l].state]
      BY <2>1 DEF CascadeLobby
    <2> QED
      BY <2>1, <2>2 DEF SessionRows
  <1>5. ASSUME Restart PROVE FALSE
    BY <1>5 DEF Restart
  <1>6. ASSUME NEW c \in Conns,
               \/ Accept(c) \/ RequestStop(c) \/ Quiet(c) \/ CreateAccount(c)
               \/ Login(c) \/ OpenClient(c) \/ AuthPost(c) \/ AuthList(c)
               \/ FinishList(c) \/ Broadcast(c) \/ Pump(c) \/ PumpFails(c)
               \/ Disconnect(c)
        PROVE FALSE
    BY <1>1, <1>6 DEF Accept, RequestStop, Quiet, CreateAccount, Login, OpenClient,
       AuthPost, AuthList, FinishList, Broadcast, Pump, PumpFails, Disconnect
  <1>7. ASSUME Stop \/ Joined \/ Crash \/ UNCHANGED vars PROVE FALSE
    BY <1>1, <1>7 DEF Stop, Joined, Crash, vars
  <1> QED
    BY <1>2, <1>3, <1>4, <1>5, <1>6, <1>7 DEF Next, Handler

\* Whatever the interleaving of join requests, at most one of them takes a
\* lobby: the conditional update is what decides.
THEOREM LobbyJoinedOnce == Spec => JoinOnce
  <1>1. Spec => []Typed
    BY InitTyped, NextTyped, PTL DEF Spec
  <1>2. Typed /\ [Next]_vars => [JoinStep]_vars
    BY NextJoinStep
  <1> QED
    BY <1>1, <1>2, PTL DEF Spec, JoinOnce, JoinStep
-----------------------------------------------------------------------------
\* How the ways to build a sequence of posts keep it ascending.
LEMMA AppendAscends ==
  ASSUME NEW q \in Seq(Post), NEW e \in Post, Ascending(q),
         \A i \in DOMAIN q : q[i].no < e.no
  PROVE  Ascending(Append(q, e))
  <1>1. /\ DOMAIN Append(q, e) = 1..(Len(q) + 1)
        /\ DOMAIN q = 1..Len(q) /\ Len(q) \in Nat
        /\ \A i \in 1..Len(q) : Append(q, e)[i] = q[i]
        /\ Append(q, e)[Len(q) + 1] = e
    OBVIOUS
  <1>2. \A i, j \in 1..Len(q) : i < j => q[i].no < q[j].no
    BY <1>1 DEF Ascending
  <1> SUFFICES ASSUME NEW i \in 1..(Len(q) + 1), NEW j \in 1..(Len(q) + 1), i < j
                 PROVE  Append(q, e)[i].no < Append(q, e)[j].no
    BY <1>1 DEF Ascending
  <1>4. i \in 1..Len(q)
    BY <1>1
  <1>5. j \in 1..Len(q) \/ j = Len(q) + 1
    BY <1>1
  <1> QED
    BY <1>1, <1>2, <1>4, <1>5

LEMMA ConcatAscends ==
  ASSUME NEW r \in Seq(Post), NEW m \in Seq(Post), Ascending(r), Ascending(m),
         \A i \in DOMAIN r : \A j \in DOMAIN m : r[i].no < m[j].no
  PROVE  Ascending(r \o m)
  <1>1. /\ DOMAIN r = 1..Len(r) /\ DOMAIN m = 1..Len(m)
        /\ Len(r) \in Nat /\ Len(m) \in Nat
        /\ DOMAIN (r \o m) = 1..(Len(r) + Len(m))
        /\ \A i \in 1..(Len(r) + Len(m)) :
             (r \o m)[i] = IF i <= Len(r) THEN r[i] ELSE m[i - Len(r)]
    BY ConcatProperties
  <1>2. /\ \A i, j \in 1..Len(r) : i < j => r[i].no < r[j].no
        /\ \A i, j \in 1..Len(m) : i < j => m[i].no < m[j].no
    BY <1>1 DEF Ascending
  <1> SUFFICES ASSUME NEW i \in 1..(Len(r) + Len(m)), NEW j \in 1..(Len(r) + Len(m)),
                        i < j
                 PROVE  (r \o m)[i].no < (r \o m)[j].no
    BY <1>1 DEF Ascending
  <1>4. CASE j <= Len(r)
    BY <1>1, <1>2, <1>4
  <1>5. CASE i <= Len(r) /\ Len(r) < j
    <2>1. i \in 1..Len(r) /\ j - Len(r) \in 1..Len(m)
      BY <1>1, <1>5
    <2> QED
      BY <1>1, <1>5, <2>1
  <1>6. CASE Len(r) < i
    <2>1. /\ i - Len(r) \in 1..Len(m) /\ j - Len(r) \in 1..Len(m)
          /\ i - Len(r) < j - Len(r)
      BY <1>1, <1>6
    <2> QED
      BY <1>1, <1>2, <1>6, <2>1
  <1> QED
    BY <1>1, <1>4, <1>5, <1>6

\* An element of a concatenation is one of either part.
LEMMA ConcatElements ==
  ASSUME NEW r \in Seq(Post), NEW m \in Seq(Post), NEW i \in DOMAIN (r \o m)
  PROVE  \/ \E j \in DOMAIN r : (r \o m)[i] = r[j]
         \/ \E j \in DOMAIN m : (r \o m)[i] = m[j]
  <1>1. /\ DOMAIN r = 1..Len(r) /\ DOMAIN m = 1..Len(m)
        /\ Len(r) \in Nat /\ Len(m) \in Nat
        /\ i \in 1..(Len(r) + Len(m))
        /\ (r \o m)[i] = IF i <= Len(r) THEN r[i] ELSE m[i - Len(r)]
    BY ConcatProperties
  <1>2. CASE i <= Len(r)
    BY <1>1, <1>2
  <1>3. CASE Len(r) < i
    <2>1. i - Len(r) \in 1..Len(m)
      BY <1>1, <1>3
    <2> QED
      BY <1>1, <1>3, <2>1
  <1> QED
    BY <1>1, <1>2, <1>3

\* An element of a queue a post was appended to.
LEMMA AppendElements ==
  ASSUME NEW q \in Seq(Post), NEW e \in Post
  PROVE  \A i \in DOMAIN Append(q, e) :
           (i \in DOMAIN q /\ Append(q, e)[i] = q[i]) \/ Append(q, e)[i] = e
  OBVIOUS

\* A prefix keeps the order and the elements.
LEMMA PrefixAscends ==
  ASSUME NEW m \in Seq(Post), NEW n \in 0..(Len(m) - 1), Ascending(m)
  PROVE  /\ SubSeq(m, 1, n) \in Seq(Post)
         /\ Ascending(SubSeq(m, 1, n))
         /\ \A i \in DOMAIN SubSeq(m, 1, n) : i \in DOMAIN m /\ SubSeq(m, 1, n)[i] = m[i]
  <1>1. /\ SubSeq(m, 1, n) \in Seq(Post)
        /\ DOMAIN SubSeq(m, 1, n) = 1..n
        /\ DOMAIN m = 1..Len(m) /\ Len(m) \in Nat
        /\ \A i \in 1..n : SubSeq(m, 1, n)[i] = m[i]
    OBVIOUS
  <1>2. \A i \in 1..n : i \in 1..Len(m)
    BY <1>1
  <1> QED
    BY <1>1, <1>2 DEF Ascending

LEMMA PostNumbers ==
  ASSUME NEW q \in Seq(Post)
  PROVE  \A i \in DOMAIN q : q[i] \in Post /\ q[i].no \in Nat
  <1>1. \A i \in DOMAIN q : q[i] \in Post
    OBVIOUS
  <1>2. \A e \in Post : e.no \in Nat
    BY DEF Post
  <1> QED
    BY <1>1, <1>2

Order == QueueOrder /\ SentBeforeQueued /\ InOrder

LEMMA InitOrder == Init => Order
  BY DEF Init, Order, QueueOrder, SentBeforeQueued, InOrder, Ascending

\* A post is numbered past all posts before it, and queued for others only.
LEMMA NextQueueOrder == Typed /\ QueueOrder /\ [Next]_vars => QueueOrder'
  <1> SUFFICES ASSUME Typed, QueueOrder, [Next]_vars, NEW id \in SessionIds
               PROVE  /\ Ascending(mail'[id])
                      /\ \A i \in DOMAIN mail'[id] :
                           mail'[id][i].no <= posts' /\ mail'[id][i].author # id
    BY DEF QueueOrder, Ascending
  <1> DEFINE Good == /\ Ascending(mail'[id])
                     /\ \A i \in DOMAIN mail'[id] :
                          mail'[id][i].no <= posts' /\ mail'[id][i].author # id
  <1> SUFFICES Good
    OBVIOUS
  <1>1. CASE UNCHANGED <<mail, posts>>
    BY <1>1 DEF QueueOrder
  <1>2. ASSUME mail'[id] = mail[id] \/ mail'[id] = <<>>, UNCHANGED posts
        PROVE  Good
    BY <1>2 DEF QueueOrder, Ascending
  <1>3. ASSUME NEW c \in Conns, Broadcast(c) PROVE Good
    <2>1. /\ NewPost(c) \in Post /\ NewPost(c).author = session[c]
          /\ NewPost(c).no = posts + 1
      BY <1>3 DEF Broadcast, NewPost, Post, Typed, TypeOK, PcSession, NoSession
    <2>2. mail[id] \in Seq(Post) /\ posts \in Nat /\ posts' = posts + 1
      BY <1>3 DEF Broadcast, Typed, TypeOK
    <2>3. \A i \in DOMAIN mail[id] : mail[id][i] \in Post /\ mail[id][i].no \in Nat
      BY <2>2, PostNumbers
    <2>4. CASE mail'[id] = mail[id]
      BY <2>2, <2>3, <2>4 DEF QueueOrder
    <2>5. CASE mail'[id] # mail[id]
      <3>1. mail'[id] = Append(mail[id], NewPost(c)) /\ id # session[c]
        BY <1>3, <2>1, <2>5 DEF Broadcast
      <3>2. \A i \in DOMAIN mail[id] : mail[id][i].no < NewPost(c).no
        BY <2>1, <2>2, <2>3 DEF QueueOrder
      <3>3. Ascending(mail[id])
        BY DEF QueueOrder
      <3>4. Ascending(mail'[id])
        BY <2>1, <2>2, <3>1, <3>2, <3>3, AppendAscends
      <3>5. \A i \in DOMAIN mail'[id] :
              \/ i \in DOMAIN mail[id] /\ mail'[id][i] = mail[id][i]
              \/ mail'[id][i] = NewPost(c)
        BY <2>1, <2>2, <3>1, AppendElements
      <3>6. \A i \in DOMAIN mail'[id] :
              mail'[id][i].no <= posts' /\ mail'[id][i].author # id
        BY <2>1, <2>2, <2>3, <3>1, <3>5 DEF QueueOrder
      <3> QED
        BY <3>4, <3>6
    <2> QED
      BY <2>4, <2>5
  <1>4. ASSUME NEW c \in Conns, OpenClient(c) \/ Pump(c) \/ DropSession(c) PROVE Good
    <2>1. mail'[id] = mail[id] \/ mail'[id] = <<>>
      BY <1>4 DEF OpenClient, Pump, Flush, DropSession, EraseClient, mailVars, Typed, TypeOK
    <2>2. UNCHANGED posts
      BY <1>4 DEF OpenClient, Pump, DropSession, histVars
    <2> QED
      BY <1>2, <2>1, <2>2
  <1>5. CASE Crash
    BY <1>2, <1>5 DEF Crash
  <1>6. ASSUME NEW c \in Conns,
               \/ Accept(c) \/ RequestStop(c) \/ Quiet(c) \/ CreateAccount(c) \/ Login(c)
               \/ CreateLobby(c) \/ JoinLobby(c) \/ AuthPost(c) \/ AuthList(c)
               \/ FinishList(c) \/ PumpFails(c) \/ Disconnect(c)
        PROVE Good
    BY <1>1, <1>6 DEF Accept, RequestStop, Quiet, CreateAccount, Login, CreateLobby,
       JoinLobby, AuthPost, AuthList, FinishList, PumpFails, Disconnect, mailVars, histVars
  <1>7. CASE Stop \/ Joined \/ Restart \/ UNCHANGED vars
    BY <1>1, <1>7 DEF Stop, Joined, Restart, vars, mailVars, histVars
  <1> QED
    BY <1>3, <1>4, <1>5, <1>6, <1>7 DEF Next, Handler

\* A connection is sent the queue of its session, which is ascending, foreign and
\* past all it has been sent; it shares that queue with whoever has its session,
\* and each post in it goes to the one that empties it first.
LEMMA NextSent ==
  Typed /\ Unopened /\ Order /\ [Next]_vars => SentBeforeQueued' /\ InOrder'
  <1> SUFFICES ASSUME Typed, Unopened, Order, [Next]_vars, NEW d \in Conns
               PROVE  /\ \A i \in DOMAIN received'[d] :
                           /\ received'[d][i].no <= posts'
                           /\ received'[d][i].author # session'[d]
                      /\ Ascending(received'[d])
                      /\ session'[d] # NoSession /\ pc'[d] # "dropping" =>
                           \A i \in DOMAIN received'[d] :
                             \A j \in DOMAIN mail'[session'[d]] :
                               received'[d][i].no < mail'[session'[d]][j].no
    BY DEF SentBeforeQueued, InOrder, Ascending
  <1> DEFINE Good == /\ \A i \in DOMAIN received'[d] :
                          /\ received'[d][i].no <= posts'
                          /\ received'[d][i].author # session'[d]
                     /\ Ascending(received'[d])
                     /\ session'[d] # NoSession /\ pc'[d] # "dropping" =>
                          \A i \in DOMAIN received'[d] :
                            \A j \in DOMAIN mail'[session'[d]] :
                              received'[d][i].no < mail'[session'[d]][j].no
  <1> SUFFICES Good
    OBVIOUS
  <1>0. NoSession \notin SessionIds
    BY DEF NoSession, SessionIds
  <1>1. /\ received[d] \in Seq(Post) /\ posts \in Nat
        /\ session[d] # NoSession => session[d] \in SessionIds
        /\ \A c \in Conns : session[c] # NoSession => /\ session[c] \in SessionIds
                                                      /\ mail[session[c]] \in Seq(Post)
    BY DEF Typed, TypeOK
  <1>2. /\ \A i \in DOMAIN received[d] : /\ received[d][i].no <= posts
                                         /\ received[d][i].author # session[d]
        /\ Ascending(received[d])
        /\ session[d] # NoSession /\ pc[d] # "dropping" =>
             \A i \in DOMAIN received[d] : \A j \in DOMAIN mail[session[d]] :
               received[d][i].no < mail[session[d]][j].no
    BY DEF Order, SentBeforeQueued, InOrder
  <1>3. /\ \A i \in DOMAIN received[d] : received[d][i].no \in Nat
        /\ session[d] # NoSession =>
             \A j \in DOMAIN mail[session[d]] : mail[session[d]][j].no \in Nat
    BY <1>1, PostNumbers
  <1>4. ASSUME received'[d] = <<>> PROVE Good
    BY <1>4 DEF Ascending
  \* A step that sends d nothing and leaves its queue alone or empties it.
  <1>5. ASSUME UNCHANGED <<received[d], session[d], posts>>,
               pc[d] = "dropping" => pc'[d] = "dropping",
               session[d] # NoSession =>
                 mail'[session[d]] = mail[session[d]] \/ mail'[session[d]] = <<>>
        PROVE  Good
    BY <1>2, <1>5
  <1>6. ASSUME NEW c \in Conns, Login(c) PROVE Good
    <2>1. CASE c = d
      BY <1>4, <1>6, <2>1 DEF Login, MayLogin, Unopened, histVars
    <2>2. CASE c # d
      <3>1. UNCHANGED <<received[d], session[d], posts, mail, pc[d]>>
        BY <1>6, <2>2 DEF Login, histVars, mailVars, Goto, Typed, TypeOK
      <3> QED
        BY <1>5, <3>1
    <2> QED
      BY <2>1, <2>2
  <1>7. ASSUME NEW c \in Conns, Broadcast(c) PROVE Good
    <2>1. NewPost(c) \in Post /\ NewPost(c).no = posts + 1
      BY <1>7 DEF Broadcast, NewPost, Post, Typed, TypeOK, PcSession, NoSession
    <2>2. /\ UNCHANGED <<received, session>> /\ posts' = posts + 1
          /\ pc'[d] # "dropping" => pc[d] # "dropping"
      BY <1>7 DEF Broadcast, Goto, Typed, TypeOK
    <2>3. \A i \in DOMAIN received[d] : received[d][i].no <= posts'
      BY <1>1, <1>2, <1>3, <2>2
    <2>4. ASSUME session[d] # NoSession, pc[d] # "dropping",
                 NEW i \in DOMAIN received[d], NEW j \in DOMAIN mail'[session[d]]
          PROVE  received[d][i].no < mail'[session[d]][j].no
      <3>1. \/ mail'[session[d]] = mail[session[d]]
            \/ mail'[session[d]] = Append(mail[session[d]], NewPost(c))
        BY <1>1, <1>7, <2>4 DEF Broadcast
      <3>2. \/ j \in DOMAIN mail[session[d]] /\ mail'[session[d]][j] = mail[session[d]][j]
            \/ mail'[session[d]][j] = NewPost(c)
        <4>1. CASE mail'[session[d]] = mail[session[d]]
          BY <2>4, <4>1
        <4>2. CASE mail'[session[d]] = Append(mail[session[d]], NewPost(c))
          <5> DEFINE queue == mail[session[d]]
          <5>1. queue \in Seq(Post) /\ j \in DOMAIN Append(queue, NewPost(c))
            BY <1>1, <2>4, <4>2
          <5> HIDE DEF queue
          <5>2. \/ j \in DOMAIN queue /\ Append(queue, NewPost(c))[j] = queue[j]
                \/ Append(queue, NewPost(c))[j] = NewPost(c)
            BY <2>1, <5>1, AppendElements
          <5> QED
            BY <4>2, <5>2 DEF queue
        <4> QED
          BY <3>1, <4>1, <4>2
      <3>3. received[d][i].no <= posts /\ received[d][i].no \in Nat
        BY <1>2, <1>3
      <3> QED
        BY <1>1, <1>2, <2>1, <2>4, <3>2, <3>3
    <2> QED
      BY <1>2, <2>2, <2>3, <2>4
  <1>8. ASSUME NEW c \in Conns, OpenClient(c) PROVE Good
    <2>1. UNCHANGED <<received, session, posts>> /\ (pc[d] = "dropping" => pc'[d] = "dropping")
      BY <1>8 DEF OpenClient, Goto, histVars, Typed, TypeOK
    <2>2. session[d] # NoSession =>
            mail'[session[d]] = mail[session[d]] \/ mail'[session[d]] = <<>>
      BY <1>1, <1>8 DEF OpenClient, Typed, TypeOK
    <2> QED
      BY <1>5, <2>1, <2>2
  <1>9. ASSUME NEW c \in Conns, Pump(c) PROVE Good
    <2>1. UNCHANGED <<session, posts>> /\ (pc[d] = "dropping" => pc'[d] = "dropping")
      BY <1>9 DEF Pump, Goto, Typed, TypeOK
    <2>2. session[d] # NoSession =>
            mail'[session[d]] = mail[session[d]] \/ mail'[session[d]] = <<>>
      BY <1>1, <1>9 DEF Pump, Flush, mailVars, Typed, TypeOK
    <2>3. CASE received'[d] = received[d]
      BY <1>5, <2>1, <2>2, <2>3
    <2>4. CASE received'[d] # received[d]
      <3>1. /\ c = d /\ session[d] # NoSession /\ pc[d] = "pump"
            /\ received'[d] = received[d] \o mail[session[d]]
            /\ mail'[session[d]] = <<>>
        BY <1>1, <1>9, <2>4 DEF Pump, Flush, Typed, TypeOK
      <3>2. /\ mail[session[d]] \in Seq(Post) /\ Ascending(mail[session[d]])
            /\ \A j \in DOMAIN mail[session[d]] :
                 /\ mail[session[d]][j].no <= posts
                 /\ mail[session[d]][j].author # session[d]
        BY <1>1, <3>1 DEF Order, QueueOrder
      <3>3. Ascending(received'[d])
        BY <1>1, <1>2, <3>1, <3>2, ConcatAscends
      <3>4. ASSUME NEW i \in DOMAIN received'[d]
            PROVE  received'[d][i].no <= posts /\ received'[d][i].author # session[d]
        <4> DEFINE queue == mail[session[d]]
        <4>1. queue \in Seq(Post) /\ i \in DOMAIN (received[d] \o queue)
          BY <3>1, <3>2, <3>4
        <4> HIDE DEF queue
        <4>2. \/ \E j \in DOMAIN received[d] : (received[d] \o queue)[i] = received[d][j]
              \/ \E j \in DOMAIN queue : (received[d] \o queue)[i] = queue[j]
          BY <1>1, <4>1, ConcatElements
        <4>3. \/ \E j \in DOMAIN received[d] : received'[d][i] = received[d][j]
              \/ \E j \in DOMAIN mail[session[d]] : received'[d][i] = mail[session[d]][j]
          BY <3>1, <4>2 DEF queue
        <4> QED
          BY <1>2, <3>2, <4>3
      <3>5. mail'[session'[d]] = <<>> /\ DOMAIN <<>> = {}
        BY <2>1, <3>1
      <3>6. \A j \in DOMAIN mail'[session'[d]] : FALSE
        BY <3>5
      <3> QED
        BY <2>1, <3>3, <3>4, <3>6
    <2> QED
      BY <2>3, <2>4
  <1>10. ASSUME NEW c \in Conns, PumpFails(c) PROVE Good
    <2>1. /\ UNCHANGED <<mail, session, posts>> /\ pc'[c] = "dropping"
          /\ c # d => pc'[d] = pc[d] /\ received'[d] = received[d]
      BY <1>10 DEF PumpFails, Goto, Typed, TypeOK
    <2>2. CASE c # d
      BY <1>5, <2>1, <2>2
    <2>3. CASE c = d
      <3>1. PICK n \in 0..(Len(mail[session[d]]) - 1) :
              received'[d] = received[d] \o SubSeq(mail[session[d]], 1, n)
        BY <1>10, <2>3 DEF PumpFails, Typed, TypeOK
      <3> DEFINE sent == SubSeq(mail[session[d]], 1, n)
      <3>2. /\ session[d] # NoSession /\ pc[d] # "dropping"
            /\ mail[session[d]] \in Seq(Post) /\ Ascending(mail[session[d]])
            /\ \A j \in DOMAIN mail[session[d]] :
                 /\ mail[session[d]][j].no <= posts
                 /\ mail[session[d]][j].author # session[d]
        BY <1>1, <1>10, <2>3 DEF PumpFails, Order, QueueOrder
      <3>3. /\ sent \in Seq(Post) /\ Ascending(sent)
            /\ \A j \in DOMAIN sent : /\ j \in DOMAIN mail[session[d]]
                                      /\ sent[j] = mail[session[d]][j]
        BY <3>2, PrefixAscends
      <3> HIDE DEF sent
      <3>4. \A i \in DOMAIN received[d] : \A j \in DOMAIN sent : received[d][i].no < sent[j].no
        BY <1>2, <3>2, <3>3
      <3>5. received'[d] = received[d] \o sent
        BY <3>1 DEF sent
      <3>6. Ascending(received'[d])
        BY <1>1, <1>2, <3>3, <3>4, <3>5, ConcatAscends
      <3>7. ASSUME NEW i \in DOMAIN received'[d]
            PROVE  received'[d][i].no <= posts /\ received'[d][i].author # session[d]
        <4>1. i \in DOMAIN (received[d] \o sent)
          BY <3>5, <3>7
        <4>2. \/ \E j \in DOMAIN received[d] : (received[d] \o sent)[i] = received[d][j]
              \/ \E j \in DOMAIN sent : (received[d] \o sent)[i] = sent[j]
          BY <1>1, <3>3, <4>1, ConcatElements
        <4> QED
          BY <1>2, <3>2, <3>3, <3>5, <4>2
      <3> QED
        BY <2>1, <2>3, <3>6, <3>7
    <2> QED
      BY <2>2, <2>3
  <1>11. ASSUME NEW c \in Conns, DropSession(c) PROVE Good
    <2>1. CASE c = d
      BY <1>4, <1>11, <2>1 DEF DropSession, Typed, TypeOK
    <2>2. CASE c # d
      <3>1. UNCHANGED <<received[d], session[d], posts, pc[d]>>
        BY <1>11, <2>2 DEF DropSession, Goto, Typed, TypeOK
      <3>2. session[d] # NoSession =>
              mail'[session[d]] = mail[session[d]] \/ mail'[session[d]] = <<>>
        BY <1>1, <1>11 DEF DropSession, EraseClient
      <3> QED
        BY <1>5, <3>1, <3>2
    <2> QED
      BY <2>1, <2>2
  <1>12. CASE Crash
    BY <1>4, <1>12 DEF Crash
  <1>13. ASSUME NEW c \in Conns,
                \/ Accept(c) \/ RequestStop(c) \/ Quiet(c) \/ CreateAccount(c)
                \/ CreateLobby(c) \/ JoinLobby(c) \/ AuthPost(c) \/ AuthList(c)
                \/ FinishList(c) \/ Disconnect(c)
         PROVE Good
    <2>1. UNCHANGED <<received, session, posts, mail>>
      BY <1>13 DEF Accept, RequestStop, Quiet, CreateAccount, CreateLobby, JoinLobby,
         AuthPost, AuthList, FinishList, Disconnect, mailVars, histVars
    <2>2. pc[d] = "dropping" => pc'[d] = "dropping"
      BY <1>13 DEF Accept, RequestStop, Quiet, CreateAccount, CreateLobby, JoinLobby,
         AuthPost, AuthList, FinishList, Disconnect, Goto, Typed, TypeOK
    <2> QED
      BY <1>5, <2>1, <2>2
  <1>14. CASE Stop \/ Joined \/ Restart \/ UNCHANGED vars
    <2>1. UNCHANGED <<received, session, posts, mail, pc>>
      BY <1>14 DEF Stop, Joined, Restart, vars, mailVars, histVars
    <2> QED
      BY <1>5, <2>1
  <1> QED
    BY <1>6, <1>7, <1>8, <1>9, <1>10, <1>11, <1>12, <1>13, <1>14 DEF Next, Handler

\* Whether or not connections share a session, each is sent every post at most
\* once, in the order of the broadcasts, and none of its own session.
THEOREM PostsInOrder == Spec => []InOrder
  <1>1. Spec => []Typed
    BY InitTyped, NextTyped, PTL DEF Spec
  <1>2. Spec => []Unopened
    BY <1>1, InitDelivery, NextUnopened, PTL DEF Spec, Delivery
  <1>3. Typed /\ Unopened /\ Order /\ [Next]_vars => Order'
    BY NextQueueOrder, NextSent DEF Order
  <1>4. Spec => []Order
    BY <1>1, <1>2, <1>3, InitOrder, PTL DEF Spec
  <1>5. Order => InOrder
    BY DEF Order
  <1> QED
    BY <1>4, <1>5, PTL
-----------------------------------------------------------------------------
\* All parts together are kept by every step: the inductive invariant.
LEMMA NextIInv == IInv /\ [Next]_vars => IInv'
  <1>1. IInv => /\ Typed /\ Held /\ LobbyRefs /\ OwnSession /\ Unopened /\ NoLostPost
                /\ Order
    BY DEF IInv, Typed, Held, Order
  <1>2. Typed /\ Held /\ LobbyRefs /\ OwnSession /\ Unopened /\ NoLostPost /\ Order => IInv
    BY DEF IInv, Typed, Held, Order
  <1>3. IInv /\ [Next]_vars =>
          /\ Typed' /\ Held' /\ LobbyRefs' /\ OwnSession' /\ Unopened' /\ NoLostPost'
          /\ Order'
    BY <1>1, NextTyped, NextHeld, NextLobbyRefs, NextOwnSession, NextUnopened,
       NextNoLostPost, NextQueueOrder, NextSent
    DEF Order
  <1> QED
    BY <1>2, <1>3, PTL

\* What is true of every reachable state of the server.
THEOREM Inductive == Spec => []IInv
  <1>1. Init => IInv
    BY InitTyped, InitHeld, InitLobbyRefs, InitOwnSession, InitDelivery, InitOrder
    DEF IInv, Typed, Held, Delivery, Order
  <1> QED
    BY <1>1, NextIInv, PTL DEF Spec
-----------------------------------------------------------------------------
\* Only entries of mOpenClients hold posts.
QueuesOpen == \A id \in SessionIds : mail[id] # <<>> => id \in open

LEMMA NextQueuesOpen == Typed /\ QueuesOpen /\ [Next]_vars => QueuesOpen'
  <1> SUFFICES ASSUME Typed, QueuesOpen, [Next]_vars, NEW id \in SessionIds,
                      mail'[id] # <<>>
               PROVE  id \in open'
    BY DEF QueuesOpen
  <1>0. mail \in [SessionIds -> Seq(Post)] /\ (mail[id] # <<>> => id \in open)
    BY DEF Typed, TypeOK, QueuesOpen
  <1>1. ASSUME NEW c \in Conns, OpenClient(c) PROVE id \in open'
    BY <1>0, <1>1 DEF OpenClient
  <1>2. ASSUME NEW c \in Conns, Broadcast(c) PROVE id \in open'
    BY <1>0, <1>2 DEF Broadcast
  <1>3. ASSUME NEW c \in Conns, Pump(c) \/ PumpFails(c) PROVE id \in open'
    <2>1. CASE session[c] = NoSession
      BY <1>0, <1>3, <2>1 DEF Pump, PumpFails, mailVars
    <2>2. CASE session[c] # NoSession
      <3>1. open' = open \cup {session[c]}
        BY <1>3, <2>2 DEF Pump, PumpFails, Flush
      <3>2. mail[id] # <<>>
        BY <1>0, <1>3, <2>2 DEF Pump, PumpFails, Flush
      <3> QED
        BY <1>0, <3>1, <3>2
    <2> QED
      BY <2>1, <2>2
  <1>4. ASSUME NEW c \in Conns, DropSession(c) PROVE id \in open'
    BY <1>0, <1>4 DEF DropSession, EraseClient
  <1>5. CASE Crash
    BY <1>5 DEF Crash
  <1>6. ASSUME NEW c \in Conns,
               \/ Accept(c) \/ RequestStop(c) \/ Quiet(c) \/ CreateAccount(c) \/ Login(c)
               \/ CreateLobby(c) \/ JoinLobby(c) \/ AuthPost(c) \/ AuthList(c)
               \/ FinishList(c) \/ Disconnect(c)
        PROVE  id \in open'
    BY <1>0, <1>6 DEF Accept, RequestStop, Quiet, CreateAccount, Login, CreateLobby,
       JoinLobby, AuthPost, AuthList, FinishList, Disconnect, mailVars
  <1>7. CASE Stop \/ Joined \/ Restart \/ UNCHANGED vars
    BY <1>0, <1>7 DEF Stop, Joined, Restart, vars, mailVars
  <1> QED
    BY <1>1, <1>2, <1>3, <1>4, <1>5, <1>6, <1>7 DEF Next, Handler

\* Whatever way threads end and ids come back, a post waits only for a thread
\* that is there to send it.
THEOREM QueuesHaveThreads == Spec => []QueuesServed
  <1>1. Init => QueuesOpen
    BY DEF Init, QueuesOpen
  <1>2. IInv => Typed
    BY DEF IInv, Typed
  <1>3. IInv /\ QueuesOpen => QueuesServed
    BY DEF IInv, NoOrphans, DownEmpty, QueuesOpen, QueuesServed
  <1>4. IInv /\ QueuesOpen /\ [Next]_vars => QueuesOpen'
    BY <1>2, NextQueuesOpen
  <1> QED
    BY <1>1, <1>3, <1>4, Inductive, PTL DEF Spec
==============================================================================
