----------------------------- MODULE AcceptLoop ------------------------------
(***************************************************************************)
(* Who closes a connection.  AccountServer::work accepts a connection into *)
(* a net::Socket and moves it, object by object, into the thread that      *)
(* serves it; each object closes the handle it has when it is destroyed    *)
(* (common/net/include/net/net.hpp, common/net/src/socket.cpp).  Handles   *)
(* are file descriptors: a closed one is given out again.                  *)
(*                                                                         *)
(* Each client connects once and sends one request.                        *)
(***************************************************************************)
EXTENDS Naturals

CONSTANTS
  Clients,
  NoClient,   \* a descriptor that is not in use
  MaxHandle   \* bound: descriptors the process may have

Handles  == 1..MaxHandle
NoHandle == 0  \* kInvalidSocket

ASSUME AcceptAssumption == MaxHandle \in Nat /\ NoClient \notin Clients

\* The Socket objects: work's locals `client` and `socket` and the lambda it
\* gives std::jthread, then the copy of the lambda each thread owns and
\* handleClient's parameter.
Locals == {"client", "socket", "lambda"}
Params == {"closure", "param"}
Objects == (Locals \X {NoClient}) \cup (Params \X Clients)

Local(name) == <<name, NoClient>>

VARIABLES
  table,    \* kernel: the connection behind each descriptor
  peer,     \* what has become of each client's request
  reply,    \* the client whose request the answer a client got was made for
  sockets,  \* mSocket of each object; NoHandle also once it is destroyed
  loop,     \* where work stands
  current,  \* the client work accepted last
  thread,   \* where each client's thread stands
  request   \* the client whose request a thread has read

loopVars == <<loop, current>>
threadVars == <<thread, request>>
vars == <<table, peer, reply, sockets, loopVars, threadVars>>

Init ==
  /\ table = [h \in Handles |-> NoClient]
  /\ peer = [c \in Clients |-> "new"]
  /\ reply = [c \in Clients |-> NoClient]
  /\ sockets = [o \in Objects |-> NoHandle]
  /\ loop = "accept" /\ current = NoClient
  /\ thread = [c \in Clients |-> "none"]
  /\ request = [c \in Clients |-> NoClient]

\* accept gives the lowest free descriptor.
IsFree(h) == table[h] = NoClient /\ \A g \in 1..(h - 1) : table[g] # NoClient

\* What a move leaves in the object it moves from: the handle is loaded, not
\* exchanged.
Moved_Reset(h) == NoHandle
Moved(h) == h

\* closeSocket: shutdown, then close, of whatever the descriptor now names; a
\* descriptor not in use fails in shutdown.
Closed_ShutdownOnly(h) == table
Closed(h) == [g \in Handles |-> IF g = h THEN NoClient ELSE table[g]]

Move(from, to) ==
  sockets' = [o \in Objects |->
    IF o = to THEN sockets[from]
    ELSE IF o = from THEN Moved(sockets[from]) ELSE sockets[o]]

Destroy(o) ==
  LET h == sockets[o]
  IN  /\ sockets' = [sockets EXCEPT ![o] = NoHandle]
      /\ table' = Closed(h)
      /\ peer' = [c \in Clients |->
           IF h # NoHandle /\ table[h] = c /\ reply[c] = NoClient
           THEN "closed" ELSE peer[c]]
-----------------------------------------------------------------------------
\* A client connects and sends its request.
Connect(c) ==
  /\ peer[c] = "new" /\ loop # "joining"
  /\ peer' = [peer EXCEPT ![c] = "queued"]
  /\ UNCHANGED <<table, reply, sockets, loopVars, threadVars>>

\* tryAccept into `client`, moved by throwIfFailed into `socket`, which the
\* lambda captures by move.
Accept(c) ==
  /\ loop = "accept" /\ peer[c] = "queued"
  /\ \E h \in Handles :
       /\ IsFree(h)
       /\ table' = [table EXCEPT ![h] = c]
       /\ sockets' = [o \in Objects |->
            IF o = Local("lambda") THEN h
            ELSE IF o \in {Local("client"), Local("socket")} THEN Moved(h)
            ELSE sockets[o]]
  /\ peer' = [peer EXCEPT ![c] = "asked"]
  /\ loop' = "start" /\ current' = c
  /\ UNCHANGED <<reply, threadVars>>

\* std::jthread moves the lambda into the new thread.
Start ==
  /\ loop = "start"
  /\ Move(Local("lambda"), <<"closure", current>>)
  /\ thread' = [thread EXCEPT ![current] = "called"]
  /\ loop' = "lambda"
  /\ UNCHANGED <<table, peer, reply, current, request>>

\* The ends of the full expression and of the loop's body.
NextLocal == [lambda |-> "socket", socket |-> "client", client |-> "accept"]

DropLocal ==
  /\ loop \in Locals
  /\ Destroy(Local(loop))
  /\ loop' = NextLocal[loop]
  /\ UNCHANGED <<reply, current, threadVars>>

\* The listen socket is cancelled, and work goes on to join its threads.
Cancel ==
  /\ loop = "accept"
  /\ loop' = "joining"
  /\ UNCHANGED <<table, peer, reply, sockets, current, threadVars>>
-----------------------------------------------------------------------------
\* handleClient(stop, std::move(socket))
Call(c) ==
  /\ thread[c] = "called"
  /\ Move(<<"closure", c>>, <<"param", c>>)
  /\ thread' = [thread EXCEPT ![c] = "serving"]
  /\ UNCHANGED <<table, peer, reply, loopVars, request>>

\* mux.work reads from the descriptor, whoever it belongs to by now; an error
\* of recv is taken for an empty packet, and the thread goes on polling.
Receive(c) ==
  /\ thread[c] = "serving"
  /\ LET h == sockets[<<"param", c>>]
     IN  \E d \in Clients :
           /\ h # NoHandle /\ table[h] = d /\ peer[d] = "asked"
           /\ request' = [request EXCEPT ![c] = d]
           /\ peer' = [peer EXCEPT ![d] = "read"]
  /\ thread' = [thread EXCEPT ![c] = "answering"]
  /\ UNCHANGED <<table, reply, sockets, loopVars>>

\* The route's response; a send that fails ends the thread.
Answer(c) ==
  /\ thread[c] = "answering"
  /\ LET h == sockets[<<"param", c>>]
         to == IF h = NoHandle THEN NoClient ELSE table[h]
     IN  /\ thread' = [thread EXCEPT ![c] = IF to = NoClient THEN "param" ELSE "serving"]
         /\ reply' = [d \in Clients |->
              IF d = to /\ reply[d] = NoClient THEN request[c] ELSE reply[d]]
  /\ request' = [request EXCEPT ![c] = NoClient]
  /\ UNCHANGED <<table, peer, sockets, loopVars>>

\* while (!stop.stop_requested()), once work has come to its threads.
Leave(c) ==
  /\ thread[c] = "serving" /\ loop = "joining"
  /\ thread' = [thread EXCEPT ![c] = "param"]
  /\ UNCHANGED <<table, peer, reply, sockets, loopVars, request>>

\* handleClient returns, then the thread ends.
NextParam == [param |-> "closure", closure |-> "done"]

DropParam(c) ==
  /\ thread[c] \in Params
  /\ Destroy(<<thread[c], c>>)
  /\ thread' = [thread EXCEPT ![c] = NextParam[thread[c]]]
  /\ UNCHANGED <<reply, loopVars, request>>

Work == (\E c \in Clients : Accept(c)) \/ Start \/ DropLocal

Thread(c) == Call(c) \/ Receive(c) \/ Answer(c) \/ Leave(c) \/ DropParam(c)

Next == \/ Work \/ Cancel
        \/ \E c \in Clients : Connect(c) \/ Thread(c)

Spec == Init /\ [][Next]_vars

FairSpec == Spec /\ WF_vars(Work) /\ \A c \in Clients : WF_vars(Thread(c))
-----------------------------------------------------------------------------
TypeOK ==
  /\ table \in [Handles -> Clients \cup {NoClient}]
  /\ peer \in [Clients -> {"new", "queued", "asked", "read", "closed"}]
  /\ reply \in [Clients -> Clients \cup {NoClient}]
  /\ sockets \in [Objects -> Handles \cup {NoHandle}]
  /\ loop \in {"accept", "start", "joining"} \cup Locals
  /\ current \in Clients \cup {NoClient}
  /\ thread \in [Clients -> {"none", "called", "serving", "answering", "done"} \cup Params]
  /\ request \in [Clients -> Clients \cup {NoClient}]

\* No descriptor leaks: each one in use is held by an object that will close it.
NoLeak ==
  \A h \in Handles : table[h] # NoClient => \E o \in Objects : sockets[o] = h

\* A move never overwrites a handle: objects hold none before they are made.
FreshLocals ==
  /\ loop \in {"accept", "joining", "socket", "client"} =>
       sockets[Local("lambda")] = NoHandle
  /\ loop \in {"accept", "joining", "client"} => sockets[Local("socket")] = NoHandle
  /\ loop \in {"accept", "joining"} => sockets[Local("client")] = NoHandle

FreshParams ==
  /\ loop = "start" => /\ current \in Clients /\ thread[current] = "none"
                       /\ peer[current] \notin {"new", "queued"}
  /\ \A c \in Clients :
       /\ thread[c] \in {"none", "called"} => sockets[<<"param", c>>] = NoHandle
       /\ thread[c] = "none" => sockets[<<"closure", c>>] = NoHandle
       /\ peer[c] \in {"new", "queued"} => thread[c] = "none"

\* The inductive invariant: a descriptor keeps a holder because every object a
\* handle is moved to was made for it.
IInv == TypeOK /\ NoLeak /\ FreshLocals /\ FreshParams

\* A stopped server whose threads have ended has no connection open.
AllClosed ==
  loop = "joining" /\ (\A c \in Clients : thread[c] \in {"none", "done"})
    => \A h \in Handles : table[h] = NoClient

\* Once a server is stopped every connection it accepted gets closed.
StopCloses == loop = "joining" ~> \A h \in Handles : table[h] = NoClient

\* errors.expect(client.createAccount(name, password), ...) of the tests: while
\* the server is not stopped, an accepted client's request is answered.
Answered ==
  \A c \in Clients : peer[c] = "asked" ~> (reply[c] = c \/ loop = "joining")
=============================================================================
