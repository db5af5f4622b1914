--------------------------- MODULE DbChannelProofs ---------------------------
(***************************************************************************)
(* Proofs about DbChannel, for every set of threads, number of channels    *)
(* and of messages, and size of a batch.                                   *)
(***************************************************************************)
EXTENDS DbChannel, FiniteSetTheorems, TLAPS

USE DbChannelAssumption

\* The initial state is one the invariant allows.
THEOREM Start == Init => IInv
<1> SUFFICES ASSUME Init PROVE IInv
    OBVIOUS
<1> USE DEF Init, Zero
<1>1. TypeOK
      BY DEF TypeOK, Places, Stages, Channels
<1>2. Counting /\ Settled /\ Live /\ Ended
      BY DEF Counting, Settled, Live, Ended, Channels
<1>3. Kept
      BY DEF Kept, Entries
<1> QED BY <1>1, <1>2, <1>3 DEF IInv

\* What is dealt with stays right when nothing of it changes.
LEMMA KeptStays ==
  Kept /\ UNCHANGED <<done, stored, open, failed>> => Kept'
BY DEF Kept, Entries, Zero

\* Entries between three counts, put together.
LEMMA EntriesJoin ==
  ASSUME NEW a \in [Threads -> Nat], NEW b \in [Threads -> Nat],
         \A p \in Threads : a[p] <= b[p]
  PROVE  Entries(Zero, a) \cup Entries(a, b) = Entries(Zero, b)
<1> DEFINE E == Threads \X (1..(MaxPosts + MaxChannels))
<1>1. ASSUME NEW e \in E
      PROVE  (Zero[e[1]] < e[2] /\ e[2] <= a[e[1]]) \/ (a[e[1]] < e[2] /\ e[2] <= b[e[1]])
               <=> Zero[e[1]] < e[2] /\ e[2] <= b[e[1]]
  <2>1. e[1] \in Threads /\ e[2] \in Nat /\ e[2] > 0
        OBVIOUS
  <2>2. Zero[e[1]] = 0 /\ a[e[1]] \in Nat /\ b[e[1]] \in Nat /\ a[e[1]] <= b[e[1]]
        BY <2>1 DEF Zero
  <2> QED BY <2>1, <2>2
<1> QED BY <1>1 DEF Entries

-----------------------------------------------------------------------------
(* Steps of the threads that log. *)

\* The channels that have been installed are channels.
LEMMA Numbers ==
  TypeOK => /\ mAsyncChannel \in Nat /\ closing \in Nat
            /\ closing <= mAsyncChannel /\ mAsyncChannel <= MaxChannels
            /\ (mAsyncChannel # 0 => mAsyncChannel \in Channels)
            /\ (closing # 0 => closing \in Channels)
<1> SUFFICES ASSUME TypeOK
             PROVE  /\ mAsyncChannel \in Nat /\ closing \in Nat
                    /\ closing <= mAsyncChannel /\ mAsyncChannel <= MaxChannels
                    /\ (mAsyncChannel # 0 => mAsyncChannel \in Channels)
                    /\ (closing # 0 => closing \in Channels)
    OBVIOUS
<1>1. mAsyncChannel \in 0..MaxChannels /\ closing \in 0..mAsyncChannel
      BY DEF TypeOK
<1> QED BY <1>1 DEF Channels

\* A new channel starts with a thread in its loop, and the old one is live
\* until its destructor asks it to stop.
LEMMA SetAsyncChannelStep == IInv /\ SetAsyncChannel => IInv'
<1> SUFFICES ASSUME IInv, SetAsyncChannel PROVE IInv'
    OBVIOUS
<1> USE DEF IInv, SetAsyncChannel, queueVars, dbVars
<1>0. mAsyncChannel \in Nat /\ mAsyncChannel + 1 \in Channels
      BY Numbers DEF Channels
<1>a. mAsyncChannel' \in 0..MaxChannels /\ closing' \in 0..mAsyncChannel'
      BY <1>0 DEF Channels
<1>b. worker \in [Channels -> Stages] /\ "check" \in Stages
      BY DEF TypeOK, Stages
<1>c. worker' \in [Channels -> Stages]
      BY <1>b
<1>d. \A d \in Channels : worker'[d] = IF d = mAsyncChannel + 1 THEN "check" ELSE worker[d]
      BY <1>b
<1>1. TypeOK'
      BY <1>a, <1>c DEF TypeOK, Places
<1>2. Counting' /\ Kept'
      BY KeptStays DEF Counting
<1>3. Settled' /\ Ended'
      BY <1>0, <1>d DEF Settled, Ended, Live
<1>4. Live'
  <2>1. main = "run" /\ closing = 0 /\ closing' = mAsyncChannel
        BY DEF Live
  <2>2. \A c \in Channels : c \in Nat /\ c # 0
        BY DEF Channels
  <2>3. ASSUME NEW c \in Channels,
               (c = mAsyncChannel' /\ closing' # c) \/ (c = closing' /\ main' = "stop")
        PROVE  worker'[c] \in {"check", "wait", "write"}
        BY <1>0, <1>d, <2>1, <2>2, <2>3 DEF Live
  <2>4. ASSUME NEW c \in Channels PROVE worker'[c] = "none" <=> c > mAsyncChannel'
        BY <1>0, <1>d, <2>2 DEF Live
  <2> QED BY <2>1, <2>3, <2>4 DEF Live
<1> QED BY <1>1, <1>2, <1>3, <1>4

LEMMA ExitStep == IInv /\ Exit => IInv'
<1> SUFFICES ASSUME IInv, Exit PROVE IInv'
    OBVIOUS
<1> USE DEF IInv, Exit, queueVars, dbVars
<1>0. closing' \in 0..mAsyncChannel'
      BY Numbers
<1>1. TypeOK'
      BY <1>0 DEF TypeOK, Places
<1>2. Counting' /\ Kept' /\ Settled' /\ Ended'
      BY KeptStays DEF Counting, Settled, Ended
<1>3. Live'
      BY DEF Live, TypeOK
<1> QED BY <1>1, <1>2, <1>3

\* A message more is queued, and nothing else changes in the queues.
LEMMA EnqueueStep ==
  ASSUME NEW c \in Channels, NEW p \in Threads, TypeOK, Counting, Enqueue(c, p),
         UNCHANGED <<taken, done, due>>
  PROVE  posted' \in [Channels -> [Threads -> Nat]] /\ Counting'
<1> DEFINE new == OneMore(posted[c], p)
<1>1. posted \in [Channels -> [Threads -> Nat]] /\ posted[c] \in [Threads -> Nat]
      BY DEF TypeOK
<1>2. posted' = [posted EXCEPT ![c] = new]
      BY <1>1 DEF Enqueue
<1>3. new \in [Threads -> Nat] /\ \A q \in Threads : posted[c][q] <= new[q]
      BY <1>1 DEF OneMore
<1> HIDE DEF new
<1>4. posted' \in [Channels -> [Threads -> Nat]]
      BY <1>1, <1>2, <1>3
<1>5. \A d \in Channels : posted'[d] = IF d = c THEN new ELSE posted[d]
      BY <1>1, <1>2
<1>6. \A d \in Channels, q \in Threads : posted[d][q] <= posted'[d][q]
  <2> SUFFICES ASSUME NEW d \in Channels, NEW q \in Threads
               PROVE  posted[d][q] <= posted'[d][q]
      OBVIOUS
  <2>1. posted[d][q] \in Nat
        BY <1>1
  <2> QED BY <1>3, <1>5, <2>1
<1>7. Counting'
      BY <1>4, <1>6 DEF Counting, TypeOK
<1> QED BY <1>4, <1>7

LEMMA PostStep == ASSUME NEW p \in Threads PROVE IInv /\ Post(p) => IInv'
<1> SUFFICES ASSUME IInv, Post(p) PROVE IInv'
    OBVIOUS
<1> USE DEF IInv, Post, dbVars
<1>1. mAsyncChannel \in Channels
      BY Numbers
<1>2. posted' \in [Channels -> [Threads -> Nat]] /\ Counting'
      BY <1>1, EnqueueStep
<1>3. TypeOK'
      BY <1>2 DEF TypeOK
<1>4. Kept' /\ Settled' /\ Ended' /\ Live'
      BY KeptStays DEF Settled, Ended, Live
<1> QED BY <1>2, <1>3, <1>4

\* What is due is what is queued, for a thread that has not ended.
LEMMA RequestStopStep == IInv /\ RequestStop => IInv'
<1> SUFFICES ASSUME IInv, RequestStop PROVE IInv'
    OBVIOUS
<1> USE DEF IInv, RequestStop, queueVars, dbVars
<1>1. closing \in Channels /\ worker[closing] # "done"
      BY Numbers DEF Live
<1>2. TypeOK'
      BY <1>1 DEF TypeOK, Places
<1>3. \A d \in Channels : due'[d] = IF d = closing THEN posted[d] ELSE due[d]
      BY DEF TypeOK
<1>4. Counting'
      BY <1>3 DEF Counting, TypeOK
<1>5. Ended'
      BY <1>1, <1>3 DEF Ended
<1>6. Kept' /\ Settled' /\ Live'
      BY KeptStays DEF Settled, Live
<1> QED BY <1>2, <1>4, <1>5, <1>6

LEMMA LogCleanupStep == IInv /\ LogCleanup => IInv'
<1> SUFFICES ASSUME IInv, LogCleanup PROVE IInv'
    OBVIOUS
<1> USE DEF IInv, LogCleanup, dbVars
<1>1. mAsyncChannel \in Channels /\ Main \in Threads
      BY Numbers DEF Live
<1>2. posted' \in [Channels -> [Threads -> Nat]] /\ Counting'
      BY <1>1, EnqueueStep
<1>3. TypeOK'
      BY <1>2 DEF TypeOK, Places
<1>4. Kept' /\ Settled' /\ Ended' /\ Live'
      BY KeptStays DEF Settled, Ended, Live
<1> QED BY <1>2, <1>3, <1>4

LEMMA JoinStep == IInv /\ Join => IInv'
<1> SUFFICES ASSUME IInv, Join PROVE IInv'
    OBVIOUS
<1> USE DEF IInv, Join, queueVars, dbVars
<1>1. TypeOK'
      BY DEF TypeOK, Places
<1>2. Kept' /\ Counting' /\ Settled' /\ Ended'
      BY KeptStays DEF Counting, Settled, Ended
<1>3. Live'
      BY DEF Live, TypeOK, Channels
<1> QED BY <1>1, <1>2, <1>3
-----------------------------------------------------------------------------
(* Steps of a channel's thread. *)

\* A thread that is told to stop is not one that has to be in its loop.
LEMMA CheckStopStep == ASSUME NEW c \in Channels PROVE IInv /\ CheckStop(c) => IInv'
<1> SUFFICES ASSUME IInv, CheckStop(c) PROVE IInv'
    OBVIOUS
<1> USE DEF IInv, CheckStop, queueVars, dbVars
<1>1. \A d \in Channels : worker'[d] = IF d # c THEN worker[d]
                                      ELSE IF StopRequested(c) THEN "drain" ELSE "wait"
      BY DEF TypeOK
<1>2. TypeOK'
      BY DEF TypeOK, Stages
<1>3. Kept' /\ Counting'
      BY KeptStays DEF Counting
<1>4. Settled' /\ Ended'
      BY <1>1 DEF Settled, Ended
<1>5. Live'
      BY <1>1 DEF Live, StopRequested
<1> QED BY <1>2, <1>3, <1>4, <1>5

\* What a bulk dequeue takes was posted, and is dealt with later.
LEMMA TakeStep ==
  ASSUME NEW c \in Channels, TypeOK, Counting, Take(c), UNCHANGED <<posted, done, due>>
  PROVE  /\ taken' \in [Channels -> [Threads -> Nat]] /\ Counting'
         /\ \A d \in Channels : d # c => taken'[d] = taken[d]
         /\ \A p \in Threads : taken[c][p] <= taken'[c][p]
<1>1. PICK new \in Counts :
        /\ \A p \in Threads : taken[c][p] <= new[p] /\ new[p] <= posted[c][p]
        /\ taken' = [taken EXCEPT ![c] = new]
      BY DEF Take, Batches
<1>2. new \in [Threads -> Nat]
      BY DEF Counts
<1>3. taken' \in [Channels -> [Threads -> Nat]]
      BY <1>1, <1>2 DEF TypeOK
<1>4. \A d \in Channels : taken'[d] = IF d = c THEN new ELSE taken[d]
      BY <1>1 DEF TypeOK
<1>5. \A p \in Threads : done[c][p] \in Nat /\ taken[c][p] \in Nat /\ new[p] \in Nat
                          /\ done[c][p] <= new[p]
      BY <1>1, <1>2 DEF TypeOK, Counting
<1>6. Counting'
      BY <1>1, <1>4, <1>5 DEF Counting
<1> QED BY <1>1, <1>3, <1>4, <1>6

LEMMA DequeueStep == ASSUME NEW c \in Channels PROVE IInv /\ Dequeue(c) => IInv'
<1> SUFFICES ASSUME IInv, Dequeue(c) PROVE IInv'
    OBVIOUS
<1> USE DEF IInv, Dequeue, dbVars
<1>1. \A d \in Channels : worker'[d] = IF d = c THEN "write" ELSE worker[d]
      BY DEF TypeOK
<1>2. TypeOK' /\ Counting'
      BY TakeStep DEF TypeOK, Stages
<1>3. Kept'
      BY KeptStays
<1>4. Settled' /\ Ended'
      BY <1>1, TakeStep DEF Settled, Ended
<1>5. Live'
      BY <1>1 DEF Live
<1> QED BY <1>2, <1>3, <1>4, <1>5

LEMMA DrainStep == ASSUME NEW c \in Channels PROVE IInv /\ Drain(c) => IInv'
<1> SUFFICES ASSUME IInv, Drain(c) PROVE IInv'
    OBVIOUS
<1> USE DEF IInv, Drain, dbVars
<1>1. \A d \in Channels : worker'[d] = IF d = c THEN "flush" ELSE worker[d]
      BY DEF TypeOK
<1>2. TypeOK' /\ Counting'
      BY TakeStep DEF TypeOK, Stages
<1>3. Kept'
      BY KeptStays
<1>4. Settled' /\ Ended'
      BY <1>1, TakeStep DEF Settled, Ended
<1>5. Live'
      BY <1>1 DEF Live
<1> QED BY <1>2, <1>3, <1>4, <1>5

\* The queue is found empty, and what was due has been in it.
LEMMA FinishStep == ASSUME NEW c \in Channels PROVE IInv /\ Finish(c) => IInv'
<1> SUFFICES ASSUME IInv, Finish(c) PROVE IInv'
    OBVIOUS
<1> USE DEF IInv, Finish, queueVars, dbVars
<1>1. \A d \in Channels : worker'[d] = IF d = c THEN "done" ELSE worker[d]
      BY DEF TypeOK
<1>2. TypeOK'
      BY DEF TypeOK, Stages
<1>3. Kept' /\ Counting'
      BY KeptStays DEF Counting
<1>4. Settled'
      BY <1>1 DEF Settled
<1>5. \A p \in Threads : due[c][p] <= taken[c][p]
      BY DEF Counting, MayFinish, IsEmpty
<1>6. Ended'
      BY <1>1, <1>5 DEF Ended
<1>7. Live'
      BY <1>1 DEF Live
<1> QED BY <1>2, <1>3, <1>4, <1>6, <1>7

\* However commit ends, its batch is dealt with and the thread goes on.
LEMMA ReturnsStep ==
  ASSUME NEW c \in Channels, IInv, Returns(c)
  PROVE  /\ done' \in [Channels -> [Threads -> Nat]]
         /\ worker' \in [Channels -> Stages]
         /\ \A d \in Channels : done'[d] = IF d = c THEN taken[d] ELSE done[d]
         /\ Counting' /\ Settled' /\ Live' /\ Ended'
<1> USE DEF IInv, Returns
<1>1. \A d \in Channels : worker'[d] = IF d = c THEN After(worker[c]) ELSE worker[d]
      BY DEF TypeOK
<1>2. \A d \in Channels : done'[d] = IF d = c THEN taken[d] ELSE done[d]
      BY DEF TypeOK
<1>3. done' \in [Channels -> [Threads -> Nat]] /\ worker' \in [Channels -> Stages]
      BY DEF TypeOK, Stages, After
<1>4. Counting'
      BY <1>2 DEF Counting, TypeOK
<1>5. Settled' /\ Live' /\ Ended'
      BY <1>1, <1>2 DEF Settled, Live, Ended, After
<1> QED BY <1>2, <1>3, <1>4, <1>5

\* Both ends of a batch: what the database holds and what is left open changes
\* for the channel's own database only.
LEMMA Rows ==
  ASSUME IInv, NEW c \in Channels, Commit(c) \/ CommitFails(c)
  PROVE  /\ Returns(c)
         /\ stored' \in [Channels -> SUBSET (Threads \X Nat)]
         /\ open' \in [Channels -> SUBSET (Threads \X Nat)]
         /\ failed' \in [Channels -> BOOLEAN]
         /\ \A d \in Channels \ {c} :
              stored'[d] = stored[d] /\ open'[d] = open[d] /\ failed'[d] = failed[d]
         /\ \E kept \in SUBSET Entries(done[c], taken[c]), older \in {{}, open[c]} :
              \/ /\ stored'[c] = stored[c] \cup older \cup kept /\ open'[c] = {}
                 /\ failed'[c] = (failed[c] \/ older # open[c] \/ kept # Entries(done[c], taken[c]))
              \/ /\ stored'[c] = stored[c] /\ open'[c] \in {{}, open[c] \cup kept}
                 /\ failed'[c]
<1>1. /\ stored \in [Channels -> SUBSET (Threads \X Nat)]
      /\ open \in [Channels -> SUBSET (Threads \X Nat)]
      /\ failed \in [Channels -> BOOLEAN]
      BY DEF IInv, TypeOK
<1>2. Entries(done[c], taken[c]) \subseteq Threads \X Nat
      BY DEF Entries
<1>3. CASE Commit(c)
  <2>1. PICK kept \in SUBSET Entries(done[c], taken[c]), older \in {{}, open[c]} :
          /\ stored' = [stored EXCEPT ![c] = @ \cup older \cup kept]
          /\ failed' = [failed EXCEPT ![c] =
                          @ \/ older # open[c] \/ kept # Entries(done[c], taken[c])]
        BY <1>3 DEF Commit
  <2>2. Returns(c) /\ open' = [open EXCEPT ![c] = {}]
        BY <1>3 DEF Commit
  <2>3. kept \subseteq Threads \X Nat /\ older \subseteq Threads \X Nat
        BY <1>1, <1>2
  <2> QED BY <1>1, <2>1, <2>2, <2>3
<1>4. CASE CommitFails(c)
  <2>1. PICK kept \in SUBSET Entries(done[c], taken[c]) :
          open' = [open EXCEPT ![c] = @ \cup kept] \/ open' = [open EXCEPT ![c] = {}]
        BY <1>4 DEF CommitFails
  <2>2. Returns(c) /\ stored' = stored /\ failed' = [failed EXCEPT ![c] = TRUE]
        BY <1>4 DEF CommitFails
  <2>3. kept \subseteq Threads \X Nat
        BY <1>2
  <2> QED BY <1>1, <2>1, <2>2, <2>3
<1> QED BY <1>3, <1>4

LEMMA CommitStep ==
  ASSUME NEW c \in Channels PROVE IInv /\ (Commit(c) \/ CommitFails(c)) => IInv'
<1> SUFFICES ASSUME IInv, Commit(c) \/ CommitFails(c) PROVE IInv'
    OBVIOUS
<1>1. Returns(c)
      BY Rows
<1>2. TypeOK'
      BY <1>1, Rows, ReturnsStep DEF IInv, TypeOK, Returns
<1>3. Kept'
  <2> SUFFICES ASSUME NEW d \in Channels, ~failed'[d]
               PROVE  stored'[d] = Entries(Zero, done'[d]) /\ open'[d] = {}
      BY DEF Kept, Entries, Zero
  <2>1. CASE d = c
    <3>1. PICK kept \in SUBSET Entries(done[c], taken[c]), older \in {{}, open[c]} :
            /\ stored'[c] = stored[c] \cup older \cup kept /\ open'[c] = {}
            /\ ~failed[c] /\ older = open[c] /\ kept = Entries(done[c], taken[c])
          BY <2>1, Rows
    <3>2. stored[c] = Entries(Zero, done[c]) /\ open[c] = {}
          BY <3>1 DEF IInv, Kept
    <3>3. stored'[c] = Entries(Zero, done[c]) \cup Entries(done[c], taken[c])
          BY <3>1, <3>2
    <3>4. \A p \in Threads : done[c][p] <= taken[c][p]
          BY DEF IInv, Counting
    <3>5. done[c] \in [Threads -> Nat] /\ taken[c] \in [Threads -> Nat]
          BY DEF IInv, TypeOK
    <3>6. Entries(Zero, done[c]) \cup Entries(done[c], taken[c]) = Entries(Zero, taken[c])
          BY <3>4, <3>5, EntriesJoin
    <3>7. done'[c] = taken[c]
          BY <1>1, ReturnsStep
    <3> QED BY <2>1, <3>1, <3>3, <3>6, <3>7
  <2>2. CASE d # c
    <3>1. done'[d] = done[d]
          BY <2>2, <1>1, ReturnsStep
    <3>2. stored'[d] = stored[d] /\ open'[d] = open[d] /\ ~failed[d]
          BY <2>2, Rows
    <3> QED BY <3>1, <3>2 DEF IInv, Kept
  <2> QED BY <2>1, <2>2
<1> QED BY <1>1, <1>2, <1>3, ReturnsStep DEF IInv

LEMMA BeginFailsStep ==
  ASSUME NEW c \in Channels PROVE IInv /\ BeginFails(c) => IInv'
<1> SUFFICES ASSUME IInv, BeginFails(c) PROVE IInv'
    OBVIOUS
<1> USE DEF IInv, BeginFails, queueVars, dbVars
<1>1. TypeOK'
      BY DEF TypeOK, Places
<1>2. Kept' /\ Counting' /\ Settled' /\ Ended'
      BY KeptStays DEF Counting, Settled, Ended
<1>3. Live'
      BY DEF Live
<1> QED BY <1>1, <1>2, <1>3
-----------------------------------------------------------------------------
\* The queues, the databases and the threads keep their invariant.
THEOREM Inductive == Spec => []IInv
<1>1. IInv /\ [Next]_vars => IInv'
  <2> SUFFICES ASSUME IInv, [Next]_vars PROVE IInv'
      OBVIOUS
  <2>1. CASE SetAsyncChannel BY <2>1, SetAsyncChannelStep
  <2>2. CASE Exit BY <2>2, ExitStep
  <2>3. CASE Close
        BY <2>3, RequestStopStep, LogCleanupStep, JoinStep DEF Close
  <2>4. CASE \E p \in Threads : Post(p) BY <2>4, PostStep
  <2>5. CASE \E c \in Channels : Worker(c)
        BY <2>5, CheckStopStep, DequeueStep, DrainStep, FinishStep, CommitStep,
           BeginFailsStep DEF Worker
  <2>6. CASE UNCHANGED vars
    <3> USE <2>6 DEF vars, queueVars, dbVars, IInv
    <3>1. Kept' BY KeptStays
    <3>2. TypeOK' BY DEF TypeOK
    <3>3. (Counting /\ Settled /\ Live /\ Ended)'
          BY DEF Counting, Settled, Live, Ended
    <3> QED BY <3>1, <3>2, <3>3
  <2> QED BY <2>1, <2>2, <2>3, <2>4, <2>5, <2>6 DEF Next
<1> QED BY Start, <1>1, PTL DEF Spec

\* A channel's thread ends only when all that was posted before it was told to
\* is in the database, except for what an error of the database cost.
THEOREM StoredBeforeEnd == Spec => []AllStored
<1>1. IInv => AllStored
  <2> SUFFICES ASSUME IInv, NEW c \in Channels, worker[c] = "done", ~failed[c]
               PROVE  Entries(Zero, due[c]) \subseteq stored[c]
      BY DEF AllStored
  <2>1. done[c] = taken[c] /\ stored[c] = Entries(Zero, done[c])
        BY DEF IInv, Settled, Kept
  <2>2. \A p \in Threads : due[c][p] <= done[c][p] /\ due[c][p] \in Nat /\ done[c][p] \in Nat
        BY <2>1 DEF IInv, Ended, TypeOK
  <2>3. Entries(Zero, due[c]) \subseteq Entries(Zero, done[c])
    <3> SUFFICES ASSUME NEW e \in Threads \X (1..(MaxPosts + MaxChannels)),
                        e[2] <= due[c][e[1]]
                 PROVE  e[2] <= done[c][e[1]]
        BY DEF Entries
    <3>1. e[1] \in Threads /\ e[2] \in Nat
          OBVIOUS
    <3> QED BY <2>2, <3>1
  <2> QED BY <2>1, <2>3
<1> QED BY <1>1, Inductive, PTL

\* A program that installs one channel, as those of the repository do: a
\* destructor never waits for a thread that has nothing to wake up for.
THEOREM DestructorWakes == MaxChannels = 1 => (Spec => []WorkerWoken)
<1> SUFFICES ASSUME MaxChannels = 1 PROVE Spec => []WorkerWoken
    OBVIOUS
<1>1. Init => WorkerWoken
      BY DEF Init, WorkerWoken
<1>2. IInv /\ WorkerWoken /\ [Next]_vars => WorkerWoken'
  <2> SUFFICES ASSUME IInv, WorkerWoken, [Next]_vars,
                      main' = "join", worker'[closing'] = "wait"
               PROVE  ~IsEmpty(closing)' 
      BY DEF WorkerWoken, IsEmpty
  <2> USE DEF IsEmpty
  <2>1. CASE SetAsyncChannel \/ Exit \/ RequestStop \/ Join
        BY <2>1 DEF SetAsyncChannel, Exit, RequestStop, Join
  <2>2. CASE LogCleanup
    <3>1. closing = mAsyncChannel /\ closing \in Channels /\ closing' = closing
          BY <2>2, Numbers DEF LogCleanup, IInv, Live, Channels
    <3>2. posted[closing][Main] \in Nat /\ taken[closing][Main] <= posted[closing][Main]
          /\ taken[closing][Main] \in Nat
          BY <3>1 DEF IInv, TypeOK, Counting
    <3>3. posted[closing] \in [Threads -> Nat] /\ posted \in [Channels -> [Threads -> Nat]]
          BY <3>1 DEF IInv, TypeOK
    <3>4. posted'[closing] = [posted[closing] EXCEPT ![Main] = posted[closing][Main] + 1]
          BY <2>2, <3>1, <3>3 DEF LogCleanup, Enqueue, OneMore
    <3>5. posted'[closing][Main] = posted[closing][Main] + 1
          BY <3>3, <3>4
    <3>6. taken' = taken
          BY <2>2 DEF LogCleanup
    <3> QED BY <3>1, <3>2, <3>5, <3>6
  <2>3. CASE \E p \in Threads : Post(p)
    <3>1. PICK p \in Threads : Post(p)
          BY <2>3
    <3>2. closing' = closing /\ main = "join" /\ closing # mAsyncChannel /\ mAsyncChannel # 0
          BY <3>1 DEF Post
    <3> QED BY <3>2, Numbers DEF IInv, Live
  <2>4. CASE \E c \in Channels : Worker(c)
    <3>1. PICK c \in Channels : Worker(c)
          BY <2>4
    <3>2. closing' = closing /\ closing \in Channels /\ main = "join"
          /\ posted' = posted /\ worker \in [Channels -> Stages]
      <4>1. closing' = closing /\ main' = main /\ posted' = posted
            BY <3>1 DEF Worker, CheckStop, Dequeue, Drain, Finish, Commit, CommitFails,
                 BeginFails, Returns, queueVars
      <4> QED BY <4>1, Numbers DEF IInv, Live, TypeOK
    <3>3. CASE c = closing
          BY <3>1, <3>2, <3>3 DEF Worker, CheckStop, StopRequested, Dequeue, Drain,
             Finish, Commit, CommitFails, BeginFails, Returns, After
    <3>4. CASE c # closing
      <4>1. worker'[closing] = worker[closing]
            BY <3>1, <3>2, <3>4 DEF Worker, CheckStop, Dequeue, Drain, Finish, Commit,
               CommitFails, BeginFails, Returns
      <4>2. taken'[closing] = taken[closing]
        <5>1. taken \in [Channels -> [Threads -> Nat]]
              BY DEF IInv, TypeOK
        <5> QED BY <3>1, <3>2, <3>4, <5>1 DEF Worker, CheckStop, Dequeue, Drain, Finish,
                   Commit, CommitFails, BeginFails, Returns, Take, queueVars
      <4> QED BY <3>2, <4>1, <4>2 DEF WorkerWoken
    <3> QED BY <3>3, <3>4
  <2>5. CASE UNCHANGED vars
        BY <2>5 DEF vars, queueVars, WorkerWoken
  <2> QED BY <2>1, <2>2, <2>3, <2>4, <2>5 DEF Next, Close
<1> QED BY <1>1, <1>2, Inductive, PTL DEF Spec

-----------------------------------------------------------------------------
(* What a batch writes, and that there is one while there are messages.      *)

\* Without an error or with any: the database and a transaction left open have
\* messages dealt with only, and none in common.
OnlyDone ==
  \A c \in Channels :
    stored[c] \cup open[c] \subseteq Entries(Zero, done[c]) /\ stored[c] \cap open[c] = {}

\* A batch has nothing that was dealt with before.
LEMMA BatchIsNew ==
  ASSUME IInv, NEW c \in Channels
  PROVE  Entries(Zero, done[c]) \cap Entries(done[c], taken[c]) = {}
<1>1. done[c] \in [Threads -> Nat]
      BY DEF IInv, TypeOK
<1>2. ASSUME NEW e \in Entries(Zero, done[c]), e \in Entries(done[c], taken[c]) PROVE FALSE
  <2>1. e[1] \in Threads /\ e[2] \in Nat /\ e[2] <= done[c][e[1]] /\ done[c][e[1]] < e[2]
        BY <1>2 DEF Entries
  <2> QED BY <1>1, <2>1
<1> QED BY <1>2

LEMMA NextOnlyDone == IInv /\ OnlyDone /\ [Next]_vars => OnlyDone'
<1> SUFFICES ASSUME IInv, OnlyDone, [Next]_vars PROVE OnlyDone'
    OBVIOUS
<1>1. CASE UNCHANGED <<stored, open, done>>
      BY <1>1 DEF OnlyDone, Entries, Zero
<1>2. ASSUME NEW c \in Channels, Commit(c) \/ CommitFails(c) PROVE OnlyDone'
  <2>1. \A d \in Channels : done'[d] = IF d = c THEN taken[d] ELSE done[d]
        BY <1>2, Rows, ReturnsStep
  <2>2. \A p \in Threads : done[c][p] <= taken[c][p]
        BY DEF IInv, Counting
  <2>3. done[c] \in [Threads -> Nat] /\ taken[c] \in [Threads -> Nat]
        BY DEF IInv, TypeOK
  <2>4. Entries(Zero, done[c]) \cup Entries(done[c], taken[c]) = Entries(Zero, taken[c])
        BY <2>2, <2>3, EntriesJoin
  <2>5. Entries(Zero, done[c]) \cap Entries(done[c], taken[c]) = {}
        BY BatchIsNew
  <2>6. PICK kept \in SUBSET Entries(done[c], taken[c]), older \in SUBSET open[c] :
          \/ stored'[c] = stored[c] \cup older \cup kept /\ open'[c] = {}
          \/ stored'[c] = stored[c] /\ open'[c] \in {{}, open[c] \cup kept}
    <3>1. PICK kept \in SUBSET Entries(done[c], taken[c]), older \in {{}, open[c]} :
            \/ stored'[c] = stored[c] \cup older \cup kept /\ open'[c] = {}
            \/ stored'[c] = stored[c] /\ open'[c] \in {{}, open[c] \cup kept}
          BY <1>2, Rows
    <3>2. older \in SUBSET open[c]
          OBVIOUS
    <3> QED BY <3>1, <3>2
  <2>7. ASSUME NEW d \in Channels
        PROVE  /\ stored'[d] \cup open'[d] \subseteq Entries(Zero, done'[d])
               /\ stored'[d] \cap open'[d] = {}
    <3>1. CASE d = c
      <4>1. /\ stored[c] \cup open[c] \subseteq Entries(Zero, done[c])
            /\ stored[c] \cap open[c] = {}
            BY DEF OnlyDone
      <4>2. stored'[c] \cup open'[c] \subseteq Entries(Zero, taken[c])
            BY <2>4, <2>6, <4>1
      <4>3. stored'[c] \cap open'[c] = {}
            BY <2>5, <2>6, <4>1
      <4> QED BY <2>1, <3>1, <4>2, <4>3
    <3>2. CASE d # c
      <4>1. stored'[d] = stored[d] /\ open'[d] = open[d]
            BY <1>2, <3>2, Rows
      <4> QED BY <2>1, <3>2, <4>1 DEF OnlyDone
    <3> QED BY <3>1, <3>2
  <2> QED BY <2>7 DEF OnlyDone, Entries, Zero
<1>3. ASSUME NEW c \in Channels, Worker(c) PROVE OnlyDone'
  <2>1. CASE CheckStop(c) \/ Dequeue(c) \/ Drain(c) \/ Finish(c) \/ BeginFails(c)
        BY <1>1, <2>1 DEF CheckStop, Dequeue, Drain, Finish, BeginFails, queueVars, dbVars
  <2> QED BY <1>2, <1>3, <2>1 DEF Worker
<1>4. CASE \/ SetAsyncChannel \/ Exit \/ Close \/ UNCHANGED vars
           \/ \E p \in Threads : Post(p)
      BY <1>1, <1>4 DEF SetAsyncChannel, Exit, Close, RequestStop, LogCleanup, Join, Post,
         vars, queueVars, dbVars
<1> QED BY <1>3, <1>4 DEF Next

\* No message is written twice, not even by way of a transaction that a failed
\* commit left open for the next batch, and none before its turn: with whatever
\* errors and however many channels.
THEOREM WritesOnce == Spec => []StoredOnce
<1>1. Init => OnlyDone
      BY DEF Init, OnlyDone
<1>2. ASSUME OnlyDone, IInv PROVE StoredOnce
  <2> SUFFICES ASSUME NEW c \in Channels
               PROVE  /\ stored[c] \cup open[c] \subseteq Entries(Zero, done[c])
                      /\ (stored[c] \cup open[c]) \cap Entries(done[c], taken[c]) = {}
                      /\ stored[c] \cap open[c] = {}
      BY DEF StoredOnce
  <2>1. stored[c] \cup open[c] \subseteq Entries(Zero, done[c]) /\ stored[c] \cap open[c] = {}
        BY <1>2 DEF OnlyDone
  <2>2. Entries(Zero, done[c]) \cap Entries(done[c], taken[c]) = {}
        BY <1>2, BatchIsNew
  <2> QED BY <2>1, <2>2
<1>3. IInv /\ OnlyDone => StoredOnce
      BY <1>2
<1>4. IInv /\ OnlyDone /\ [Next]_vars => OnlyDone'
      BY NextOnlyDone
<1> QED BY <1>1, <1>3, <1>4, Inductive, PTL DEF Spec

\* How many destructors have logged their message.
Cleanups ==
  CASE main = "run" -> IF mAsyncChannel = 0 THEN 0 ELSE mAsyncChannel - 1
    [] main \in {"stop", "log"} -> closing - 1
    [] main = "join" -> closing
    [] OTHER -> mAsyncChannel

\* A queue has what the threads may post, and at most the destructors' messages.
Room == \A c \in Channels, p \in Threads : posted[c][p] <= MaxPosts + Cleanups

LEMMA CleanupsBound == IInv => Cleanups \in 0..MaxChannels
<1> SUFFICES ASSUME IInv PROVE Cleanups \in 0..MaxChannels
    OBVIOUS
<1>1. /\ mAsyncChannel \in 0..MaxChannels /\ closing \in 0..mAsyncChannel /\ main \in Places
      /\ main \in {"stop", "log", "join"} => closing # 0
      BY DEF IInv, TypeOK, Live
<1> QED BY <1>1 DEF Cleanups, Places

LEMMA NextRoom == IInv /\ Room /\ [Next]_vars => Room'
<1> SUFFICES ASSUME IInv, Room, [Next]_vars PROVE Room'
    OBVIOUS
<1>0. /\ mAsyncChannel \in 0..MaxChannels /\ closing \in 0..mAsyncChannel /\ main \in Places
      /\ main \in {"stop", "log", "join"} => closing # 0
      /\ main = "run" => closing = 0
      /\ posted \in [Channels -> [Threads -> Nat]]
      BY DEF IInv, TypeOK, Live
<1>a. Cleanups \in Nat
      BY CleanupsBound
<1>1. ASSUME posted' = posted, Cleanups' \in Nat, Cleanups <= Cleanups' PROVE Room'
  <2> SUFFICES ASSUME NEW c \in Channels, NEW p \in Threads
               PROVE  posted[c][p] <= MaxPosts + Cleanups'
      BY <1>1 DEF Room
  <2>1. posted[c][p] \in Nat /\ posted[c][p] <= MaxPosts + Cleanups
        BY <1>0 DEF Room
  <2> QED BY <1>1, <1>a, <2>1
<1>2. CASE SetAsyncChannel \/ Exit
  <2>1. Cleanups' \in Nat /\ Cleanups <= Cleanups' /\ posted' = posted
        BY <1>0, <1>2 DEF SetAsyncChannel, Exit, Cleanups, queueVars
  <2> QED BY <1>1, <2>1
<1>3. CASE RequestStop \/ Join
  <2>1. Cleanups' \in Nat /\ Cleanups <= Cleanups' /\ posted' = posted
        BY <1>0, <1>3 DEF RequestStop, Join, Cleanups, queueVars
  <2> QED BY <1>1, <2>1
<1>4. CASE LogCleanup
  <2>1. Cleanups' = Cleanups + 1
        BY <1>0, <1>4 DEF LogCleanup, Cleanups
  <2>2. mAsyncChannel \in Channels /\ posted[mAsyncChannel] \in [Threads -> Nat]
        BY <1>0, <1>4, Numbers DEF LogCleanup, IInv
  <2>3. ASSUME NEW c \in Channels, NEW p \in Threads
        PROVE  posted'[c][p] = posted[c][p] \/ posted'[c][p] = posted[c][p] + 1
        BY <1>0, <1>4, <2>2 DEF LogCleanup, Enqueue, OneMore
  <2>4. ASSUME NEW c \in Channels, NEW p \in Threads
        PROVE  posted'[c][p] <= MaxPosts + Cleanups'
    <3>1. posted[c][p] \in Nat /\ posted[c][p] <= MaxPosts + Cleanups
          BY <1>0 DEF Room
    <3> QED BY <1>a, <2>1, <2>3, <3>1
  <2> QED BY <2>4 DEF Room
<1>5. ASSUME NEW q \in Threads, Post(q) PROVE Room'
  <2>1. Cleanups' = Cleanups
        BY <1>5 DEF Post, Cleanups
  <2>2. mAsyncChannel \in Channels /\ posted[mAsyncChannel] \in [Threads -> Nat]
        BY <1>0, <1>5, Numbers DEF Post, IInv
  <2>3. ASSUME NEW c \in Channels, NEW p \in Threads
        PROVE  \/ posted'[c][p] = posted[c][p]
               \/ posted'[c][p] = posted[c][p] + 1 /\ posted[c][p] < MaxPosts
        BY <1>0, <1>5, <2>2 DEF Post, Enqueue, OneMore
  <2>4. ASSUME NEW c \in Channels, NEW p \in Threads
        PROVE  posted'[c][p] <= MaxPosts + Cleanups'
    <3>1. posted[c][p] \in Nat /\ posted[c][p] <= MaxPosts + Cleanups
          BY <1>0 DEF Room
    <3> QED BY <1>a, <2>1, <2>3, <3>1
  <2> QED BY <2>4 DEF Room
<1>6. ASSUME NEW c \in Channels, Worker(c) PROVE Room'
  <2>1. /\ UNCHANGED <<posted, mAsyncChannel, closing>>
        /\ main' = main \/ (main \notin {"ended", "terminated"} /\ main' = "terminated")
        BY <1>6 DEF Worker, CheckStop, Dequeue, Drain, Finish, Commit, CommitFails, BeginFails,
           Returns, queueVars
  <2>2. CASE main' = main
    <3>1. Cleanups' = Cleanups
          BY <2>1, <2>2 DEF Cleanups
    <3> QED BY <1>1, <1>a, <2>1, <3>1
  <2>3. CASE main \notin {"ended", "terminated"} /\ main' = "terminated"
    <3>1. Cleanups' = mAsyncChannel
          BY <2>1, <2>3 DEF Cleanups
    <3>2. Cleanups <= mAsyncChannel
          BY <1>0, <2>3 DEF Cleanups, Places
    <3> QED BY <1>0, <1>1, <2>1, <3>1, <3>2
  <2> QED BY <2>1, <2>2, <2>3
<1>7. CASE UNCHANGED vars
      BY <1>7 DEF vars, queueVars, Room, Cleanups
<1> QED BY <1>2, <1>3, <1>4, <1>5, <1>6, <1>7 DEF Next, Close

\* A dequeue can take the oldest message of any thread that has one.
LEMMA OneCanBeTaken ==
  ASSUME IInv, Room, NEW c \in Channels, ~IsEmpty(c)
  PROVE  Batches(c) # {}
<1>1. taken[c] \in [Threads -> Nat] /\ posted[c] \in [Threads -> Nat]
      BY DEF IInv, TypeOK
<1>2. PICK p \in Threads : taken[c][p] # posted[c][p]
      BY <1>1 DEF IsEmpty
<1> DEFINE new == [taken[c] EXCEPT ![p] = taken[c][p] + 1]
<1>3. \A q \in Threads :
        /\ taken[c][q] \in Nat /\ posted[c][q] \in Nat /\ taken[c][q] <= posted[c][q]
        /\ posted[c][q] <= MaxPosts + MaxChannels
  <2> SUFFICES ASSUME NEW q \in Threads
               PROVE  /\ taken[c][q] \in Nat /\ posted[c][q] \in Nat
                      /\ taken[c][q] <= posted[c][q]
                      /\ posted[c][q] <= MaxPosts + MaxChannels
      OBVIOUS
  <2>1. taken[c][q] \in Nat /\ posted[c][q] \in Nat /\ taken[c][q] <= posted[c][q]
        BY <1>1 DEF IInv, Counting
  <2>2. posted[c][q] <= MaxPosts + Cleanups /\ Cleanups \in 0..MaxChannels
        BY CleanupsBound DEF Room
  <2> QED BY <2>1, <2>2
<1>4. \A q \in Threads :
        /\ new[q] = IF q = p THEN taken[c][p] + 1 ELSE taken[c][q]
        /\ taken[c][q] <= new[q] /\ new[q] <= posted[c][q]
        /\ new[q] \in 0..(MaxPosts + MaxChannels)
      BY <1>1, <1>2, <1>3
<1>5. new \in Counts
  <2>1. new \in [Threads -> Nat]
        BY <1>1
  <2> HIDE DEF new
  <2> QED BY <1>4, <2>1 DEF Counts
<1>6. Entries(taken[c], new) = {<<p, taken[c][p] + 1>>}
  <2> DEFINE e == <<p, taken[c][p] + 1>>
  <2>1. taken[c][p] + 1 \in 1..(MaxPosts + MaxChannels)
        BY <1>2, <1>3
  <2>2. e \in Entries(taken[c], new)
        BY <1>3, <1>4, <2>1 DEF Entries
  <2>3. ASSUME NEW f \in Entries(taken[c], new) PROVE f = e
    <3>1. /\ f \in Threads \X (1..(MaxPosts + MaxChannels))
          /\ taken[c][f[1]] < f[2] /\ f[2] <= new[f[1]] /\ f[1] \in Threads /\ f[2] \in Nat
          BY DEF Entries
    <3>2. f[1] = p /\ f[2] = taken[c][p] + 1
          BY <1>3, <1>4, <3>1
    <3> QED BY <3>1, <3>2
  <2> QED BY <2>2, <2>3
<1> HIDE DEF new
<1>7. Cardinality(Entries(taken[c], new)) \in 1..mMaxPackets
  <2>1. Cardinality({<<p, taken[c][p] + 1>>}) = 1
        BY FS_Singleton
  <2> QED BY <1>6, <2>1
<1> QED BY <1>4, <1>5, <1>7 DEF Batches

\* A channel's thread that finds its queue not empty has a batch to take, so
\* that the loop behind its stop goes on until nothing is left.
THEOREM TakesWhatIsThere == Spec => []NeverStuck
<1>1. Init => Room
      BY DEF Init, Room, Zero, Cleanups
<1>2. IInv /\ Room => NeverStuck
      BY OneCanBeTaken DEF NeverStuck
<1>3. IInv /\ Room /\ [Next]_vars => Room'
      BY NextRoom
<1> QED BY <1>1, <1>2, <1>3, Inductive, PTL DEF Spec
=============================================================================
