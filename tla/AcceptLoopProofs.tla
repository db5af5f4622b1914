-------------------------- MODULE AcceptLoopProofs ---------------------------
(***************************************************************************)
(* Theorems about AcceptLoop, for every number of clients and descriptors. *)
(***************************************************************************)
EXTENDS AcceptLoop, TLAPS

\* The objects of work and of the threads are distinct objects, and NoHandle is
\* no descriptor.
LEMMA ObjectFacts ==
  /\ \A name \in Locals : Local(name) \in Objects
  /\ \A p \in Params, c \in Clients : <<p, c>> \in Objects
  /\ \A name \in Locals, p \in Params, c \in Clients : Local(name) # <<p, c>>
  /\ \A m, n \in Locals : Local(m) = Local(n) => m = n
  /\ NoHandle \notin Handles /\ NoClient \notin Clients
BY AcceptAssumption DEF Locals, Local, Params, Objects, NoHandle, Handles

\* Every step but the moves and the destructions.
LEMMA OthersKeep ==
  ASSUME IInv, UNCHANGED <<table, sockets>>
  PROVE  NoLeak'
BY DEF IInv, NoLeak

\* Destroying an object frees the one descriptor whose holder goes away.
LEMMA DestroyKeeps ==
  \A o \in Objects :
    IInv /\ Destroy(o) =>
      /\ table' \in [Handles -> Clients \cup {NoClient}]
      /\ sockets' \in [Objects -> Handles \cup {NoHandle}]
      /\ sockets' = [sockets EXCEPT ![o] = NoHandle]
      /\ peer' \in [Clients -> {"new", "queued", "asked", "read", "closed"}]
      /\ \A c \in Clients : peer'[c] \in {"new", "queued"} => peer'[c] = peer[c]
      /\ NoLeak'
<1> SUFFICES ASSUME NEW o \in Objects, IInv, Destroy(o)
             PROVE  /\ table' \in [Handles -> Clients \cup {NoClient}]
                    /\ sockets' \in [Objects -> Handles \cup {NoHandle}]
                    /\ sockets' = [sockets EXCEPT ![o] = NoHandle]
                    /\ peer' \in [Clients -> {"new", "queued", "asked", "read", "closed"}]
                    /\ \A c \in Clients :
                         peer'[c] \in {"new", "queued"} => peer'[c] = peer[c]
                    /\ NoLeak'
  OBVIOUS
<1>1. /\ table' \in [Handles -> Clients \cup {NoClient}]
      /\ sockets' = [sockets EXCEPT ![o] = NoHandle]
      /\ sockets' \in [Objects -> Handles \cup {NoHandle}]
  BY DEF IInv, TypeOK, Destroy, Closed
<1>2. peer' \in [Clients -> {"new", "queued", "asked", "read", "closed"}]
  BY DEF IInv, TypeOK, Destroy
<1>3. \A c \in Clients : peer'[c] \in {"new", "queued"} => peer'[c] = peer[c]
  BY DEF Destroy
<1>4. ASSUME NEW h \in Handles, table'[h] # NoClient
      PROVE  \E q \in Objects : sockets'[q] = h
  <2>1. h # sockets[o] /\ table[h] # NoClient
    BY <1>4 DEF Destroy, Closed
  <2>2. PICK q \in Objects : sockets[q] = h
    BY <2>1 DEF IInv, NoLeak
  <2>3. sockets'[q] = h
    BY <1>1, <2>1, <2>2 DEF IInv, TypeOK
  <2> QED
    BY <2>3
<1> QED
  BY <1>1, <1>2, <1>3, <1>4 DEF NoLeak

\* Moving to an object made for it hands the descriptor on: whatever was held
\* is held afterwards.
LEMMA MoveKeeps ==
  \A from, to \in Objects :
    /\ IInv /\ Move(from, to) /\ from # to
    /\ sockets[to] = NoHandle /\ UNCHANGED table
    => sockets' \in [Objects -> Handles \cup {NoHandle}] /\ NoLeak'
<1> SUFFICES ASSUME NEW from \in Objects, NEW to \in Objects,
                    IInv, Move(from, to), from # to,
                    sockets[to] = NoHandle, UNCHANGED table
             PROVE  sockets' \in [Objects -> Handles \cup {NoHandle}] /\ NoLeak'
  OBVIOUS
<1>1. sockets' \in [Objects -> Handles \cup {NoHandle}]
  BY DEF Move, Moved, IInv, TypeOK
<1>2. ASSUME NEW h \in Handles, table[h] # NoClient
      PROVE  \E q \in Objects : sockets'[q] = h
  <2>1. PICK q \in Objects : sockets[q] = h
    BY <1>2 DEF IInv, NoLeak
  <2>2. CASE q = from
    BY <2>1, <2>2 DEF Move
  <2>3. CASE q # from
    BY <2>1, <2>3, ObjectFacts DEF Move
  <2> QED
    BY <2>2, <2>3
<1> QED
  BY <1>1, <1>2 DEF NoLeak

\* No descriptor is in use and no object is made when the server starts.
LEMMA InitIInv == Init => IInv
BY ObjectFacts
DEF Init, IInv, TypeOK, NoLeak, FreshLocals, FreshParams, Locals, Params

\* Each step of the clients, of work and of the threads keeps the invariant.
LEMMA NextIInv == IInv /\ [Next]_vars => IInv'
<1> SUFFICES ASSUME IInv, [Next]_vars PROVE IInv'
  OBVIOUS
<1> USE ObjectFacts DEF loopVars, threadVars
<1>1. ASSUME NEW c \in Clients, Connect(c) PROVE IInv'
  BY <1>1, OthersKeep DEF Connect, IInv, TypeOK, FreshLocals, FreshParams
<1>2. ASSUME NEW c \in Clients, Accept(c) PROVE IInv'
  <2>1. PICK h \in Handles :
          /\ IsFree(h)
          /\ table' = [table EXCEPT ![h] = c]
          /\ sockets' = [o \in Objects |->
               IF o = Local("lambda") THEN h
               ELSE IF o \in {Local("client"), Local("socket")} THEN Moved(h)
               ELSE sockets[o]]
    BY <1>2 DEF Accept
  <2>2. TypeOK'
    BY <1>2, <2>1 DEF Accept, Moved, IInv, TypeOK
  <2>3. ASSUME NEW g \in Handles, table'[g] # NoClient
        PROVE  \E q \in Objects : sockets'[q] = g
    <3>1. CASE g = h
      BY <2>1, <3>1 DEF Locals
    <3>2. CASE g # h
      <4>1. PICK q \in Objects : sockets[q] = g
        BY <2>1, <2>3, <3>2 DEF IInv, TypeOK, NoLeak
      <4>2. q \notin {Local("lambda"), Local("client"), Local("socket")}
        BY <1>2, <4>1 DEF Accept, IInv, FreshLocals
      <4> QED
        BY <2>1, <4>1, <4>2
    <3> QED
      BY <3>1, <3>2
  <2>4. FreshLocals'
    BY <1>2 DEF Accept, FreshLocals
  <2>5. \A d \in Clients, p \in Params : sockets'[<<p, d>>] = sockets[<<p, d>>]
    BY <2>1 DEF Locals
  <2>6. FreshParams'
    BY <1>2, <2>5 DEF Accept, FreshParams, IInv, TypeOK, Params
  <2> QED
    BY <2>2, <2>3, <2>4, <2>6 DEF IInv, NoLeak
<1>3. CASE Start
  <2>1. current \in Clients /\ thread[current] = "none"
    BY <1>3 DEF Start, IInv, FreshParams
  <2>0. peer[current] \notin {"new", "queued"}
    BY <1>3 DEF Start, IInv, FreshParams
  <2>2. /\ Local("lambda") \in Objects /\ <<"closure", current>> \in Objects
        /\ Local("lambda") # <<"closure", current>>
        /\ sockets[<<"closure", current>>] = NoHandle
    BY <2>1 DEF Locals, Params, IInv, FreshParams
  <2>3. sockets' \in [Objects -> Handles \cup {NoHandle}] /\ NoLeak'
    BY <1>3, <2>2, MoveKeeps DEF Start
  <2>4. TypeOK'
    BY <1>3, <2>3 DEF Start, IInv, TypeOK, Locals
  <2>5. FreshLocals'
    BY <1>3 DEF Start, FreshLocals
  <2>6. /\ \A d \in Clients : sockets'[<<"param", d>>] = sockets[<<"param", d>>]
        /\ \A d \in Clients \ {current} :
             sockets'[<<"closure", d>>] = sockets[<<"closure", d>>]
    BY <1>3 DEF Start, Move, Locals, Params
  <2>7. FreshParams'
    <3>1. ASSUME NEW d \in Clients
          PROVE  /\ thread'[d] \in {"none", "called"} => sockets'[<<"param", d>>] = NoHandle
                 /\ thread'[d] = "none" => sockets'[<<"closure", d>>] = NoHandle
                 /\ peer'[d] \in {"new", "queued"} => thread'[d] = "none"
      BY <1>3, <2>0, <2>1, <2>6 DEF Start, FreshParams, IInv, TypeOK
    <3> QED
      BY <1>3, <3>1 DEF Start, FreshParams
  <2> QED
    BY <2>3, <2>4, <2>5, <2>7 DEF IInv
<1>4. CASE DropLocal
  <2>1. loop \in Locals /\ Local(loop) \in Objects /\ Destroy(Local(loop))
    BY <1>4 DEF DropLocal
  <2>2. /\ table' \in [Handles -> Clients \cup {NoClient}]
        /\ sockets' \in [Objects -> Handles \cup {NoHandle}]
        /\ sockets' = [sockets EXCEPT ![Local(loop)] = NoHandle]
        /\ peer' \in [Clients -> {"new", "queued", "asked", "read", "closed"}]
        /\ \A c \in Clients : peer'[c] \in {"new", "queued"} => peer'[c] = peer[c]
        /\ NoLeak'
    BY <2>1, DestroyKeeps
  <2>3. TypeOK'
    BY <1>4, <2>1, <2>2 DEF DropLocal, NextLocal, IInv, TypeOK, Locals
  <2>4. FreshLocals'
    BY <1>4, <2>1, <2>2 DEF DropLocal, NextLocal, IInv, TypeOK, FreshLocals, Locals
  <2>5. \A d \in Clients, p \in Params : sockets'[<<p, d>>] = sockets[<<p, d>>]
    BY <2>1, <2>2 DEF IInv, TypeOK
  <2>6. FreshParams'
    BY <1>4, <2>1, <2>2, <2>5
    DEF DropLocal, NextLocal, IInv, FreshParams, Locals, Params
  <2> QED
    BY <2>2, <2>3, <2>4, <2>6 DEF IInv
<1>5. CASE Cancel
  BY <1>5, OthersKeep DEF Cancel, IInv, TypeOK, FreshLocals, FreshParams
<1>6. ASSUME NEW c \in Clients, Call(c) PROVE IInv'
  <2>1. /\ <<"closure", c>> \in Objects /\ <<"param", c>> \in Objects
        /\ sockets[<<"param", c>>] = NoHandle
    BY <1>6 DEF Call, Params, IInv, FreshParams
  <2>2. sockets' \in [Objects -> Handles \cup {NoHandle}] /\ NoLeak'
    BY <1>6, <2>1, MoveKeeps DEF Call
  <2>3. TypeOK'
    BY <1>6, <2>2 DEF Call, IInv, TypeOK
  <2>4. \A n \in Locals : sockets'[Local(n)] = sockets[Local(n)]
    BY <1>6 DEF Call, Move, Params
  <2>5. FreshLocals'
    BY <1>6, <2>4 DEF Call, IInv, FreshLocals, Locals
  <2>6. \A d \in Clients \ {c}, p \in Params : sockets'[<<p, d>>] = sockets[<<p, d>>]
    BY <1>6 DEF Call, Move, Params
  <2>7. FreshParams'
    BY <1>6, <2>6 DEF Call, IInv, TypeOK, FreshParams, Params
  <2> QED
    BY <2>2, <2>3, <2>5, <2>7 DEF IInv
<1>7. ASSUME NEW c \in Clients, Receive(c) PROVE IInv'
  <2>1. PICK d \in Clients :
          /\ peer[d] = "asked"
          /\ request' = [request EXCEPT ![c] = d]
          /\ peer' = [peer EXCEPT ![d] = "read"]
    BY <1>7 DEF Receive
  <2> QED
    BY <1>7, <2>1, OthersKeep DEF Receive, IInv, TypeOK, FreshLocals, FreshParams
<1>8. ASSUME NEW c \in Clients, Answer(c) PROVE IInv'
  <2>1. TypeOK'
    BY <1>8 DEF Answer, IInv, TypeOK, Params
  <2> QED
    BY <1>8, <2>1, OthersKeep DEF Answer, IInv, TypeOK, FreshLocals, FreshParams
<1>9. ASSUME NEW c \in Clients, Leave(c) PROVE IInv'
  BY <1>9, OthersKeep DEF Leave, IInv, TypeOK, FreshLocals, FreshParams, Params
<1>10. ASSUME NEW c \in Clients, DropParam(c) PROVE IInv'
  <2>1. thread[c] \in Params /\ <<thread[c], c>> \in Objects
    BY <1>10 DEF DropParam
  <2>2. /\ table' \in [Handles -> Clients \cup {NoClient}]
        /\ sockets' \in [Objects -> Handles \cup {NoHandle}]
        /\ sockets' = [sockets EXCEPT ![<<thread[c], c>>] = NoHandle]
        /\ peer' \in [Clients -> {"new", "queued", "asked", "read", "closed"}]
        /\ \A d \in Clients : peer'[d] \in {"new", "queued"} => peer'[d] = peer[d]
        /\ NoLeak'
    BY <1>10, <2>1, DestroyKeeps DEF DropParam
  <2>0. NextParam[thread[c]] \in Params \cup {"done"}
    BY <2>1 DEF NextParam, Params
  <2>3. TypeOK'
    BY <1>10, <2>0, <2>2 DEF DropParam, IInv, TypeOK
  <2>4. \A n \in Locals : sockets'[Local(n)] = sockets[Local(n)]
    BY <2>1, <2>2 DEF IInv, TypeOK
  <2>5. FreshLocals'
    BY <1>10, <2>4 DEF DropParam, IInv, FreshLocals, Locals
  <2>6. \A d \in Clients \ {c}, p \in Params : sockets'[<<p, d>>] = sockets[<<p, d>>]
    BY <2>1, <2>2 DEF IInv, TypeOK
  <2>7. thread'[c] \notin {"none", "called"} /\ \A d \in Clients \ {c} : thread'[d] = thread[d]
    BY <1>10, <2>1 DEF DropParam, NextParam, Params, IInv, TypeOK
  <2>8. thread[c] # "none"
    BY <2>1 DEF Params
  <2>9. FreshParams'
    BY <1>10, <2>2, <2>6, <2>7, <2>8 DEF DropParam, IInv, FreshParams, Params
  <2> QED
    BY <2>2, <2>3, <2>5, <2>9 DEF IInv
<1>11. CASE UNCHANGED vars
  BY <1>11, OthersKeep DEF vars, IInv, TypeOK, FreshLocals, FreshParams
<1> QED
  BY <1>1, <1>2, <1>3, <1>4, <1>5, <1>6, <1>7, <1>8, <1>9, <1>10, <1>11
  DEF Next, Work, Thread

\* IInv holds in every reachable state.
THEOREM Inductive == Spec => []IInv
BY InitIInv, NextIInv, PTL DEF Spec

\* A descriptor in use always has an object that will close it.
THEOREM NoDescriptorLeaks == Spec => []NoLeak
<1>1. IInv => NoLeak
  BY DEF IInv
<1> QED
  BY <1>1, Inductive, PTL

-----------------------------------------------------------------------------
(* What a stopped server leaves behind. *)

\* The objects of a thread that are gone hold nothing.
GoneParams ==
  \A c \in Clients :
    /\ thread[c] \in {"closure", "done"} => sockets[<<"param", c>>] = NoHandle
    /\ thread[c] = "done" => sockets[<<"closure", c>>] = NoHandle

LEMMA InitGone == Init => GoneParams
BY DEF Init, GoneParams

LEMMA NextGone == IInv /\ GoneParams /\ [Next]_vars => GoneParams'
<1> SUFFICES ASSUME IInv, GoneParams, [Next]_vars PROVE GoneParams'
  OBVIOUS
<1> USE ObjectFacts DEF loopVars, threadVars
<1>1. CASE Cancel \/ UNCHANGED vars \/ \E c \in Clients : Connect(c)
  BY <1>1 DEF Cancel, vars, Connect, GoneParams
<1>2. ASSUME NEW c \in Clients, Accept(c) PROVE GoneParams'
  <2>1. \A d \in Clients, p \in Params : sockets'[<<p, d>>] = sockets[<<p, d>>]
    BY <1>2 DEF Accept, Locals
  <2> QED
    BY <1>2, <2>1 DEF Accept, GoneParams, Params
<1>3. CASE Start
  <2>1. current \in Clients /\ thread' = [thread EXCEPT ![current] = "called"]
    BY <1>3 DEF Start, IInv, FreshParams
  <2>2. \A d \in Clients : thread'[d] = IF d = current THEN "called" ELSE thread[d]
    BY <2>1 DEF IInv, TypeOK
  <2>3. \A d \in Clients \ {current}, p \in Params : sockets'[<<p, d>>] = sockets[<<p, d>>]
    BY <1>3 DEF Start, Move, Locals, Params
  <2> QED
    BY <2>2, <2>3 DEF GoneParams, Params
<1>4. CASE DropLocal
  <2>1. /\ loop \in Locals /\ sockets' = [sockets EXCEPT ![Local(loop)] = NoHandle]
        /\ thread' = thread
    BY <1>4 DEF DropLocal, Destroy
  <2>2. \A d \in Clients, p \in Params : sockets'[<<p, d>>] = sockets[<<p, d>>]
    BY <2>1 DEF IInv, TypeOK
  <2> QED
    BY <2>1, <2>2 DEF GoneParams, Params
<1>5. ASSUME NEW c \in Clients, Call(c) PROVE GoneParams'
  <2>1. \A d \in Clients : thread'[d] = IF d = c THEN "serving" ELSE thread[d]
    BY <1>5 DEF Call, IInv, TypeOK
  <2>2. \A d \in Clients \ {c}, p \in Params : sockets'[<<p, d>>] = sockets[<<p, d>>]
    BY <1>5 DEF Call, Move, Params
  <2> QED
    BY <2>1, <2>2 DEF GoneParams, Params
<1>6. ASSUME NEW c \in Clients, Receive(c) \/ Answer(c) \/ Leave(c) PROVE GoneParams'
  <2>1. sockets' = sockets /\ thread'[c] \in {"answering", "param", "serving"}
    BY <1>6 DEF Receive, Answer, Leave, IInv, TypeOK
  <2>2. \A d \in Clients \ {c} : thread'[d] = thread[d]
    BY <1>6 DEF Receive, Answer, Leave, IInv, TypeOK
  <2> QED
    BY <2>1, <2>2 DEF GoneParams
<1>7. ASSUME NEW c \in Clients, DropParam(c) PROVE GoneParams'
  <2>1. /\ thread[c] \in Params /\ sockets' = [sockets EXCEPT ![<<thread[c], c>>] = NoHandle]
        /\ thread' = [thread EXCEPT ![c] = NextParam[thread[c]]]
    BY <1>7 DEF DropParam, Destroy
  <2>2. /\ \A d \in Clients \ {c} : thread'[d] = thread[d]
        /\ \A d \in Clients \ {c}, p \in Params : sockets'[<<p, d>>] = sockets[<<p, d>>]
    BY <2>1 DEF IInv, TypeOK
  <2>3. CASE thread[c] = "param"
    <3>1. thread'[c] = "closure" /\ sockets'[<<"param", c>>] = NoHandle
      BY <2>1, <2>3 DEF NextParam, Params, IInv, TypeOK
    <3> QED
      BY <2>2, <3>1 DEF GoneParams, Params
  <2>4. CASE thread[c] = "closure"
    <3>1. thread'[c] = "done" /\ sockets'[<<"closure", c>>] = NoHandle
      BY <2>1, <2>4 DEF NextParam, Params, IInv, TypeOK
    <3>2. sockets'[<<"param", c>>] = NoHandle
      BY <2>1, <2>4 DEF GoneParams, IInv, TypeOK, Params
    <3> QED
      BY <2>2, <3>1, <3>2 DEF GoneParams, Params
  <2> QED
    BY <2>1, <2>3, <2>4 DEF Params
<1> QED
  BY <1>1, <1>2, <1>3, <1>4, <1>5, <1>6, <1>7 DEF Next, Work, Thread

\* Once work has joined its threads, no connection it accepted is open: the
\* descriptors the copies of a handle closed twice were not ones that stay.
THEOREM StoppedIsClosed == Spec => []AllClosed
<1>1. ASSUME IInv, GoneParams PROVE AllClosed
  <2> SUFFICES ASSUME loop = "joining", \A c \in Clients : thread[c] \in {"none", "done"},
                      NEW h \in Handles, table[h] # NoClient
               PROVE  FALSE
    BY DEF AllClosed
  <2>1. PICK o \in Objects : sockets[o] = h
    BY <1>1 DEF IInv, NoLeak
  <2>2. CASE o \in Locals \X {NoClient}
    <3>1. PICK name \in Locals : o = Local(name)
      BY <2>2 DEF Local
    <3> QED
      BY <1>1, <2>1, <3>1, ObjectFacts DEF IInv, FreshLocals, Locals
  <2>3. CASE o \in Params \X Clients
    <3>1. PICK p \in Params, c \in Clients : o = <<p, c>>
      BY <2>3
    <3>2. thread[c] \in {"none", "done"}
      OBVIOUS
    <3>3. sockets[<<p, c>>] = NoHandle
      BY <1>1, <3>1, <3>2 DEF IInv, FreshParams, GoneParams, Params
    <3> QED
      BY <2>1, <3>1, <3>3, ObjectFacts
  <2> QED
    BY <2>2, <2>3 DEF Objects
<1>2. IInv /\ GoneParams /\ [Next]_vars => GoneParams'
  BY NextGone
<1>3. IInv /\ GoneParams => AllClosed
  BY <1>1
<1> QED
  BY <1>2, <1>3, InitGone, Inductive, PTL DEF Spec
=============================================================================
