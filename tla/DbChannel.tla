------------------------------ MODULE DbChannel ------------------------------
(***************************************************************************)
(* The structured logging channel (logs/appenders/src/database.cpp): any   *)
(* thread posts messages to the channel the Logger has, one thread of the  *)
(* channel takes them in batches and writes each batch to the database in  *)
(* a transaction of its own.                                               *)
(*                                                                         *)
(* The queue keeps the order of each thread and no other, so a message is  *)
(* named by its thread and its number there, and what is queued, taken and *)
(* dealt with are three counts for each thread.                            *)
(***************************************************************************)
EXTENDS Naturals, FiniteSets

CONSTANTS
  Threads,      \* the threads that log
  Main,         \* the one that installs channels and ends the program
  MaxChannels,  \* bound: channels installed one after the other
  MaxPosts,     \* bound: messages of a thread to a channel, without the last
  mMaxPackets   \* the size of a batch

ASSUME DbChannelAssumption ==
  /\ Main \in Threads
  /\ MaxChannels \in Nat /\ MaxPosts \in Nat /\ mMaxPackets \in Nat \ {0}

Channels == 1..MaxChannels
Counts == [Threads -> 0..(MaxPosts + MaxChannels)]
Zero == [p \in Threads |-> 0]

VARIABLES
  mAsyncChannel,  \* Logger::mAsyncChannel, 0 if there is none
  closing,        \* the channel whose destructor runs, 0 if none does
  main,           \* where the main thread is, see Places
  worker,         \* where the thread of each channel is, see Stages
  posted,         \* messages put into a channel's queue, by thread
  taken,          \* those of them its thread took out
  done,           \* those of them it has dealt with
  stored,         \* the rows of its database
  open,           \* rows in a transaction that a failed commit left open
  due,            \* history: what was posted before the stop was requested
  failed          \* history: an insert or a commit failed

queueVars == <<posted, taken, done>>
dbVars == <<stored, open, failed>>
vars == <<mAsyncChannel, closing, main, worker, queueVars, dbVars, due>>

\* "stop", "log" and "join" are the lines of ~DbChannel; "ended" is the end of
\* the program, "terminated" that by std::terminate.
Places == {"run", "stop", "log", "join", "ended", "terminated"}
\* "write" is commit in the loop of workerThread, "flush" in what follows it.
Stages == {"none", "check", "wait", "write", "drain", "flush", "done"}

Entries(from, to) ==
  {e \in Threads \X (1..(MaxPosts + MaxChannels)) :
     from[e[1]] < e[2] /\ e[2] <= to[e[1]]}

Init ==
  /\ mAsyncChannel = 0 /\ closing = 0 /\ main = "run"
  /\ worker = [c \in Channels |-> "none"]
  /\ posted = [c \in Channels |-> Zero]
  /\ taken = [c \in Channels |-> Zero]
  /\ done = [c \in Channels |-> Zero]
  /\ due = [c \in Channels |-> Zero]
  /\ stored = [c \in Channels |-> {}]
  /\ open = [c \in Channels |-> {}]
  /\ failed = [c \in Channels |-> FALSE]

OneMore(counts, p) == [counts EXCEPT ![p] = @ + 1]
Enqueue(c, p) == posted' = [posted EXCEPT ![c] = OneMore(posted[c], p)]

\* Logger::setAsyncChannel: the pointer is the new channel's before the old
\* channel is destroyed, as unique_ptr's assignment has it.
SetAsyncChannel ==
  /\ main = "run" /\ mAsyncChannel < MaxChannels
  /\ mAsyncChannel' = mAsyncChannel + 1
  /\ worker' = [worker EXCEPT ![mAsyncChannel + 1] = "check"]
  /\ closing' = mAsyncChannel
  /\ main' = IF mAsyncChannel = 0 THEN "run" ELSE "stop"
  /\ UNCHANGED <<queueVars, dbVars, due>>

\* The Logger is destroyed after main returned and the other threads ended; the
\* pointer still leads to the channel while its destructor runs.
Exit ==
  /\ main = "run" /\ mAsyncChannel # 0
  /\ closing' = mAsyncChannel
  /\ main' = "stop"
  /\ UNCHANGED <<mAsyncChannel, worker, queueVars, dbVars, due>>

\* Messages of the category DbLog are not queued and are left out.
Post(p) ==
  /\ mAsyncChannel # 0 /\ closing # mAsyncChannel
  /\ main # "terminated" /\ (p = Main => main = "run")
  /\ posted[mAsyncChannel][p] < MaxPosts
  /\ Enqueue(mAsyncChannel, p)
  /\ UNCHANGED <<mAsyncChannel, closing, main, worker, taken, done, dbVars, due>>

RequestStop ==
  /\ main = "stop"
  /\ due' = [due EXCEPT ![closing] = posted[closing]]
  /\ main' = "log"
  /\ UNCHANGED <<mAsyncChannel, closing, worker, queueVars, dbVars>>

\* The LOG_INFO of ~DbChannel goes where every message goes.
LogCleanup_Discarded ==
  /\ main = "log" /\ main' = "join"
  /\ UNCHANGED <<mAsyncChannel, closing, worker, queueVars, dbVars, due>>
LogCleanup ==
  /\ main = "log"
  /\ Enqueue(mAsyncChannel, Main)
  /\ main' = "join"
  /\ UNCHANGED <<mAsyncChannel, closing, worker, taken, done, dbVars, due>>

Join ==
  /\ main = "join" /\ worker[closing] = "done"
  /\ closing' = IF closing = mAsyncChannel THEN closing ELSE 0
  /\ main' = IF closing = mAsyncChannel THEN "ended" ELSE "run"
  /\ UNCHANGED <<mAsyncChannel, worker, queueVars, dbVars, due>>
-----------------------------------------------------------------------------
\* The stop token of a channel's thread.
StopRequested(c) == c = closing /\ main \in {"log", "join"}

IsEmpty(c) == taken[c] = posted[c]

\* A bulk dequeue that finds something: some of each thread's oldest messages.
Batches(c) ==
  {new \in Counts :
     /\ \A p \in Threads : taken[c][p] <= new[p] /\ new[p] <= posted[c][p]
     /\ Cardinality(Entries(taken[c], new)) \in 1..mMaxPackets}
Take(c) == \E new \in Batches(c) : taken' = [taken EXCEPT ![c] = new]

CheckStop(c) ==
  /\ worker[c] = "check"
  /\ worker' = [worker EXCEPT ![c] = IF StopRequested(c) THEN "drain" ELSE "wait"]
  /\ UNCHANGED <<mAsyncChannel, closing, main, queueVars, dbVars, due>>

Dequeue(c) ==
  /\ worker[c] = "wait" /\ Take(c)
  /\ worker' = [worker EXCEPT ![c] = "write"]
  /\ UNCHANGED <<mAsyncChannel, closing, main, posted, done, dbVars, due>>

Drain(c) ==
  /\ worker[c] = "drain" /\ Take(c)
  /\ worker' = [worker EXCEPT ![c] = "flush"]
  /\ UNCHANGED <<mAsyncChannel, closing, main, posted, done, dbVars, due>>

MayFinish_Unread(c) == TRUE
MayFinish(c) == IsEmpty(c)

Finish(c) ==
  /\ worker[c] = "drain" /\ MayFinish(c)
  /\ worker' = [worker EXCEPT ![c] = "done"]
  /\ UNCHANGED <<mAsyncChannel, closing, main, queueVars, dbVars, due>>

\* The place commit returns to.
After(stage) == IF stage = "write" THEN "check" ELSE "drain"

Returns(c) ==
  /\ worker[c] \in {"write", "flush"}
  /\ done' = [done EXCEPT ![c] = taken[c]]
  /\ worker' = [worker EXCEPT ![c] = After(worker[c])]
  /\ UNCHANGED <<mAsyncChannel, closing, main, posted, taken, due>>

\* commit: an entry that cannot be inserted is skipped, the others are stored,
\* in one transaction with what an older one has left open; an error may make
\* the database roll back what it had, and take the rest row by row.
Commit(c) ==
  /\ Returns(c)
  /\ \E kept \in SUBSET Entries(done[c], taken[c]), older \in {{}, open[c]} :
       /\ stored' = [stored EXCEPT ![c] = @ \cup older \cup kept]
       /\ failed' = [failed EXCEPT ![c] =
                       @ \/ older # open[c] \/ kept # Entries(done[c], taken[c])]
  /\ open' = [open EXCEPT ![c] = {}]

\* The commit of ~Transaction fails, which is logged at most: SQLite's driver
\* does not even look.  The database has rolled back, or the transaction stays
\* open and the next batch is added to it.
CommitFails(c) ==
  /\ Returns(c)
  /\ \E kept \in SUBSET Entries(done[c], taken[c]) :
       open' = [open EXCEPT ![c] = @ \cup kept] \/ open' = [open EXCEPT ![c] = {}]
  /\ failed' = [failed EXCEPT ![c] = TRUE]
  /\ UNCHANGED stored

\* Transaction raises where the driver reports that it could not begin, as all
\* but SQLite's do, and nothing in the thread catches it.
BeginFails(c) ==
  /\ main # "ended" /\ main # "terminated"
  /\ worker[c] \in {"write", "flush"}
  /\ main' = "terminated"
  /\ UNCHANGED <<mAsyncChannel, closing, worker, queueVars, dbVars, due>>

Worker(c) ==
  /\ main # "terminated"
  /\ \/ CheckStop(c) \/ Dequeue(c) \/ Drain(c) \/ Finish(c)
     \/ Commit(c) \/ CommitFails(c) \/ BeginFails(c)

Close == RequestStop \/ LogCleanup \/ Join

Next ==
  \/ SetAsyncChannel \/ Exit \/ Close
  \/ \E p \in Threads : Post(p)
  \/ \E c \in Channels : Worker(c)

Spec == Init /\ [][Next]_vars

\* The threads run; nothing makes the program log, replace a channel or end.
FairSpec == Spec /\ WF_vars(Close) /\ \A c \in Channels : WF_vars(Worker(c))
-----------------------------------------------------------------------------
TypeOK ==
  /\ mAsyncChannel \in 0..MaxChannels /\ closing \in 0..mAsyncChannel
  /\ main \in Places /\ worker \in [Channels -> Stages]
  /\ posted \in [Channels -> [Threads -> Nat]]
  /\ taken \in [Channels -> [Threads -> Nat]]
  /\ done \in [Channels -> [Threads -> Nat]]
  /\ due \in [Channels -> [Threads -> Nat]]
  /\ stored \in [Channels -> SUBSET (Threads \X Nat)]
  /\ open \in [Channels -> SUBSET (Threads \X Nat)]
  /\ failed \in [Channels -> BOOLEAN]

\* What has been counted once is never counted back.
Counting ==
  \A c \in Channels, p \in Threads :
    /\ done[c][p] <= taken[c][p] /\ taken[c][p] <= posted[c][p]
    /\ due[c][p] <= posted[c][p]

\* Only commit holds messages that are neither queued nor dealt with.
Settled ==
  \A c \in Channels : worker[c] \notin {"write", "flush"} => done[c] = taken[c]

\* Without errors, what was dealt with was stored.
Kept ==
  \A c \in Channels :
    ~failed[c] => stored[c] = Entries(Zero, done[c]) /\ open[c] = {}

\* The thread of a channel is in its loop until it is told to stop, and a
\* destructor always has a channel.
Live ==
  /\ main = "run" => closing = 0
  /\ main \in {"stop", "log", "join"} => closing # 0
  /\ \A c \in Channels :
       (c = mAsyncChannel /\ closing # c) \/ (c = closing /\ main = "stop")
         => worker[c] \in {"check", "wait", "write"}
  /\ \A c \in Channels : worker[c] = "none" <=> c > mAsyncChannel

\* A thread that ended took what was due.
Ended ==
  \A c \in Channels :
    worker[c] = "done" => \A p \in Threads : due[c][p] <= taken[c][p]

\* The inductive invariant: a channel's thread keeps count of every message it
\* was given, from the queue to the database, until it has taken what was due.
IInv == TypeOK /\ Counting /\ Settled /\ Kept /\ Live /\ Ended

\* A destructor that waits for its thread finds it awake or with something to
\* wake up for: "this message ensures that there is always at least 1 message
\* in the queue when shutdown is requested" (database.cpp:126-130).
WorkerWoken ==
  main = "join" /\ worker[closing] = "wait" => ~IsEmpty(closing)

\* A channel's thread does not end before it has stored every message that was
\* posted before its end was asked for, whatever arrived when; messages are lost
\* only to errors of the database.
AllStored ==
  \A c \in Channels :
    worker[c] = "done" /\ ~failed[c] => Entries(Zero, due[c]) \subseteq stored[c]

\* What commit writes is not written yet, be it in the database or in a
\* transaction left open, and what that one holds is not in the database: no
\* message is stored twice, and none before it was taken out of the queue.
StoredOnce ==
  \A c \in Channels :
    /\ stored[c] \cup open[c] \subseteq Entries(Zero, done[c])
    /\ (stored[c] \cup open[c]) \cap Entries(done[c], taken[c]) = {}
    /\ stored[c] \cap open[c] = {}

\* A thread that finds messages in its queue can always take some.
NeverStuck == \A c \in Channels : ~IsEmpty(c) => Batches(c) # {}

\* A destructor comes to its end, if std::terminate does not end the program.
StopEnds == main = "stop" ~> main \in {"run", "ended", "terminated"}
=============================================================================
