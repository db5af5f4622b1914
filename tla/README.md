# TLA+ models of simcoe

Simcoe is a C++ game engine with an account service: a server that keeps users,
sessions and game lobbies in a database, and a gui client.  This directory holds
TLA+ modules of its concurrent parts, TLC configurations that check them on small
instances, and proofs that TLAPS checks for every instance.  Paths below are
relative to the repository; the project's own code is under its `src/`.

## 1. Inventory

| component | state | operations | interacts with | hard behaviour | what makes it correct |
|---|---|---|---|---|---|
| account server, `src/game/account/src/server.cpp` | tables user, session, lobby (`data/account.xml`); `mOpenClients`; one thread and one local `session` per connection | the routes of `handleClient`, the pump of queued posts, `dropSession`, `work`, `stop` | net, db; every handler shares `mDbMutex` | routes that take the lock twice, rows whose ids come back, a user with two connections, threads that end anywhere, restart on an old file | no session row or queue without its thread; a thread's row is its user's; posts once and in order; one join per lobby; stop ends |
| accept loop and sockets, `src/common/net` | the descriptor in every `Socket` object | accept, move, destroy, timed send and receive | the kernel's descriptor table | copies of one handle closed at different times while a thread uses it; descriptors given out again | no leak, no foreign close, requests answered |
| account client, stream mux, router, `src/game/account/src/{client,stream,router}.cpp` | `mNextId`, current session and lobby, one queue per stream | requests, `work`, `refreshMessageList` | the server, over one TCP connection | one read per request, answers not matched by id, posts in between, a read that blocks | an answer belongs to its request; posts are neither lost nor repeated |
| gui client, `src/server/src/client.cpp` | connection state, event queue, three widgets with a mailbox each | buttons enqueue events, a worker runs them, frames read the mailboxes | account client, mailbox | a state looked at once per frame and stored by the worker meanwhile, `client.reset()` with events queued, shutdown behind a blocked event | one change of state at a time; events run on a live client; shutdown ends |
| mailbox, `src/common/threads/include/threads/mailbox.hpp` | two bits, two slots | `read`, `write`, `lock`, `unlock` | gui thread and worker | a toggle that races an absolute store | no torn read; recent values |
| logger and log channels, `src/common/logs` | list of channels, queue of the database channel | log, attach, replace, destroy | db | the logging thread's shutdown, a batch that is committed in part | no message lost before shutdown; shutdown ends |
| database layer, `src/common/db` | connection, statements, transaction state | prepare, bind, step, commit, roll back | drivers | errors half way through | a transaction ends once |
| render context, `src/common/render/src/next/context/core.cpp` | frame index, fence values, back buffers with their views and allocators, device | begin, end, advance, flush, resize, change of adapter, destruction | the gpu's direct queue, the swap chain | reuse of a frame's resources around resizes, waits without a limit, a device that is removed, steps that throw half way | nothing in use is reused or released; every wait ends; no view leaks |
| scene drawing, `src/common/draw/src/next/vic20.cpp`, `resources/compute.cpp`, `passes/vic20.cpp` | a compute queue next to the direct queue, their fence, one texture, buffers with an element per slot | record, submit to both queues, present | render context | two queues that wait for each other through one counter, a thread that waits for one of them | a texture has one user; each frame shows its own picture; slots are idle when reused |
| triple buffer, `.../threads/triplebuffer.hpp` | three indices | read, write | nothing: "doesnt work yet" | as the mailbox | as the mailbox |
| containers and allocators, `src/common/core` | bit sets, free lists, generations | acquire, release, find | render takes single indices | none in the programs | what is handed out is disjoint |
| frame graph, `src/common/render/src/graph.cpp` | passes, resources, schedule | compile, execute, reset | the gpu's queues | order across queues | not built |
| rest: salts, drivers of other databases, dao generator, physics, input, launch, archive, config, docker, math, plugins, thunderflash, thread topology | | | | no ordering or sharing of their own, or third-party code throughout | not modelled |

How they meet.  The gui client's worker calls the account client, which talks over
one TCP connection to a thread of the account server; the accept loop gave that
thread its socket.  The worker hands its results to the gui's frames through
mailboxes.  The programs log through the database channel.  The scene drawing adds a
second queue to the frames of the render context.  A model takes from its neighbours
what it needs of them: `ClientApp` has the write bits of `Mailbox` and the outcomes
of the requests of `AccountClient`; `AccountClient` has the answers and posts of
`AccountServer`; `Vic20Draw` has the waits of `CoreContext`.

## 2. Modules

`AccountServer` - the server.  A step is one critical section of `mDbMutex` and
the thread's unlocked code up to the next.  `sessions`, `lobbies`, `users` are the
tables (an id that has no row maps to `NoUser` / `NoLobby`), `open` and `mail` the
keys and vectors of `mOpenClients`, `session[c]` the local of the thread that
serves connection `c`, `pc[c]` where that thread stands.  The routes that take the
lock twice are two actions: `Login`/`OpenClient`, `AuthPost`/`Broadcast`,
`AuthList`/`FinishList`.  `DropSession` is the deferred block that every end of a
thread runs, with the cascades the lobby's foreign keys cause.  `IsNextRow` is how
SQLite chooses rowids: the largest in use plus one, so ids come back.
`UpsertSession` is the driver's INSERT ... ON CONFLICT DO UPDATE ... RETURNING.
`Crash` ends the process anywhere, `Restart` creates the schema on the old file.
`received`, `owed` and `posts` are history.  A client uses the session it was
given; its requests are chosen freely, in any order.

`AcceptLoop` - `AccountServer::work` at the level of `net::Socket` objects: the
locals `client`, `socket` and the lambda, then the closure and the parameter of
every thread.  `Move` and `Destroy` are the constructor and destructor of
`Socket`; `table` is the kernel's descriptor table, which gives the lowest free
descriptor.  `AccountServer` assumes that a thread's socket is its connection's;
`AcceptLoop` shows where the code falls short of that (section 5).

`Mailbox` - `NonBlockingMailBox`, one action per atomic access and one per part of
the copied value.  `Count` is the number of completed writes.
`AtomicRegister` - what a mailbox promises: the value acquired is the last one
published, whole, and fixed until released.  `Mailbox` implements it with
`count <- Count`, `held <- mSlots[ref]`.

`AccountClient` - the requests of `AccountClient` and the `SocketMux` they read
through, over one connection.  `replies` and `pushed` are the queues of the streams
`kClientStream` and `kMessageStream`.  `call` is the request whose read is waiting:
sending (`Ask`) and reading (`TakeReply`, `MissReply`) are two steps, with the
server's in between.  `TakeReply` takes the oldest response, whose id the code does
not look at; `mCurrentSession` and `mCurrentLobby` are "own" or "other" by whether
it was the right one.  `Answer`, `Push` and `Drop` are what the server's handler
does to the connection; `AccountServer` has the rest of it.  The two lists are one
kind of request, `list`; the message lists' contents are ids.

`DbChannel` - the database log channel with the `Logger` that leads to it.  `main`
stands on the lines of `~DbChannel`, `worker[c]` on those of `workerThread`.  A
message is its thread and its number there: `posted`, `taken` and `done` count them
by thread, because the queue keeps the order of a thread's messages and no other.
`Commit`, `CommitFails` and `BeginFails` are the ends of a batch's transaction, and
`open[c]` the rows that a failed commit left in an open one.  With a
driver that reports the error of a `BEGIN` the next batch's transaction then raises, and
nothing in the thread catches it; SQLite's does not report it
(`drivers/sqlite/src/statement.cpp:88-99`), and the next batch joins the open
transaction.  Both are in the model.
`Exit` is the end of the static `Logger`, `SetAsyncChannel` the installation of a
channel over another.  The other threads log while no channel is being taken down
for good; the programs join them before they end.  Messages of `DbLog`, which the
channel drops, are left out.

`ClientApp` - the gui client.  The gui thread goes through the windows of a frame
(`gui`: top, lists, buttons, messages) with `current`, its local, loaded at the top;
the worker goes through the lines of an event.  An event is its kind, the object it
was given a reference to, and the text a login reads: `username` and `password` are
captured as pointers to the gui's buffers, so `event.creds`, what was typed at the
click, is compared with `creds`, what the buffers hold.  An `AccountClient` is a
number and 0 the null pointer.  The gui's events come out of the queue in order, and
so do the worker's own; `moodycamel` promises no more.  The use of an object that is
gone is the state "undefined", which nothing leaves.  `Write` and `Publish` are the
load and the store of the mailbox's `write`, and each frame's guard toggles the bit;
what a reader sees is `Mailbox`'s.  What a request returns is a choice.  Merged or
left out: the store and the reset of Disconnect are one step, since the gui does
both before anything else looks; all windows stay open; the `updating` flag of the
messages, which one worker never finds set.

`CoreContext` - the render context.  A batch is what the thread submits between two
signals; `sig` is the list of values signalled, `done` how many of them the gpu has
reached, `use[i]` the last batch recorded on the allocator of buffer `i`.
`advance` and `flush` are the two waits.  A removed device completes every fence and
makes every call that submits throw.  `Flush(r)` is `flushDevice` for a resize, a
change of adapter or the destructor, and the actions behind "flushed" are what
follows, each of their failures included.  "broken" is the state after an exception
half way: the back buffers, the command lists, the fence or the device may be missing.
Nothing leaves it, since no program goes on from there.  `copies` and `mIndex` are the virtual swap chain's command
list and surface.
`SlotPool` - what its frame slots promise: the thread records in a slot only when the
gpu is done with what was recorded there before, the gpu works slots off in the order
of their batches, and the ring is exchanged for another only when all of it is free.
`CoreContext` implements it with `owner <- Owner`, by which a slot is owned by the last
batch recorded on it until the gpu has finished that batch.

`Vic20Draw` - the frames of `Vic20DrawContext`.  A queue is the list of the commands
submitted to it and how many of them are executed; the fence both queues signal is
`mComputeFence`.  The gui thread's steps are the lines of `end` and of
`advanceFrame`, whose wait is for the direct queue only.  `last[s]` is the frame whose
present signals what slot `s` waits for.  `ResetResources` is `ComputeContext::reset`,
the one wait for the compute queue.  The device's removal is `CoreContext`'s, and the
swap chain's length a constant, since every program resizes to the length it has.
`Handoff` - what the two queues promise: one of them fills the texture, then the other
draws the picture that was filled, then the next one is filled.  `Vic20Draw` implements
it with the dispatch being executed as the fill and the draw being executed as the draw.

`MCAccountServer` gives `AccountServer` its connections and users, and the symmetry
of two connections of one user.  The other modules are instantiated by their .cfg files alone.  Definitions named
`X_Something` next to a definition `X` are plausible wrong versions of it; the
properties are known to fail under them.

## 3. Runs

| run | configuration | what it shows |
|---|---|---|
| account_exclusive | 2 connections, own users, 3 session ids, 3 posts, fairness | `OwnSession`, `NoLostPost`, `PostsFlushed`, `StopDrains`: each thread keeps its own user's row although ids are reused, no post is lost, queues drain and a stop ends |
| account_shared | 3 connections, two of one user, 2 session ids, 1 lobby, 2 posts, symmetry | `NoOrphans`, `InOrder`, `LobbyRefs`, `JoinOnce`: with a shared row too, rows and queues end with their threads, a connection gets posts once and in order, and races of joins leave no lobby wrong |
| mailbox | 3 parts, 5 writes, fairness | `NoTornRead`, `AtMostOneBehind`, `WriteEnds`, `ImplementsRegister` |
| accept_handles | 3 clients, 3 descriptors, fairness | `NoLeak`, `StopCloses` |
| accept_answered | 1 client | `Answered` is violated: section 5 |
| client_replies | 4 requests, 2 posts, any number of polls, fairness | `RepliesInOrder`, `InStep`, `OwnSession`, `PostsInOrder`, `RequestReturns`: one read per request and no matching of ids, and still nothing is lost, repeated or overtaken |
| db_channel | 2 threads, 2 messages each, batches of 2, 1 channel, fairness | `WorkerWoken`, `AllStored`, `StopEnds`: the shutdown ends, and stores what was logged |
| core_context | 2 to 3 buffers, 2 adapters, 6 signals of a fence, fairness | `FenceIncreases`, `FlushedBeforeRelease`, `RtvsBalanced`, `MoveKeepsContext`, `ImplementsSlotPool`, `WaitsEnd`: whatever resizes, moves and failures lie between, nothing the gpu uses is reused or released |
| core_context_image | as above, 4 signals | `ImageReady` is violated: section 5 |
| client_app | 2 client objects, 1 edit of the credentials, 1 queued event when a button adds one, fairness | `OnePending`, `CredentialsAsTyped`, `ClientOwned`, `EventsLive`, `Answered`, `ListsSettle`, `StopEnds`: frames act on a state that is a moment old, and still one change is pending at a time and every one ends |
| vic20_draw | 3 slots, 5 frames of a device, fairness | `TargetExclusive`, `SlotIdle`, `FenceIncreases`, `ImplementsHandoff`, `WaitsEnd`: the order of two queues rests on one counter, and holds |
| vic20_screen | 3 slots, 4 frames | `ScreenStable` is violated: section 5 |

Bounds.  `MaxSession` is one more than the users when that matters: an id is then
freed, skipped and taken again while another thread still holds it.  Two
connections of one user and one of another are enough for every way two threads
can share a row and a third one's post reach both; the two are exchangeable, which
is the symmetry of that run, and it checks no liveness.  Three posts let a queue hold
two while a third is being authorised.  One lobby is joined, cascaded away and its id
given out again.  Five writes take the mailbox through both
values of both bits twice, with the reader in every position.  Three clients on
three descriptors let a descriptor be closed and given out again twice.  Four
requests are an account, a login, a request that leaves its response unread and one
that takes it for its own; two posts let one be read instead of a response and one
wait in the queue.  Two messages of each of two threads with batches of two give
batches that mix threads, leave some behind, and leave some for the loop after the
stop.  Six signals take three buffers twice around, or through a resize between two
rounds; a change of adapter starts a fence anew, so there are as many of those as one
likes.  Two client objects are one that an event still refers to and its successor;
one event queued besides the one that runs and those the worker adds itself give
every pair that can meet.  Five frames take three slots around and put two frames of
one slot, the older one unfinished, next to a third.  TLC explores between 130 and
3.1 million states per run.

Fairness.  `AccountServer`: the handler threads, the joining thread and the
requests to stop are weakly fair: `handleClient` sets receive and send timeouts
on its socket (`server.cpp:218-220`), so that a receive gives up, and `std::mutex`
is handed on.  Clients, `Stop`, `Crash` and `Restart` have no fairness.  `Mailbox`:
weak for the reader, which draws its table every frame, and for the copy; strong for
the load of the spin, since an unlocked bit stays as it is for a whole frame while the
spin polls it many times.  A gui that stops drawing a table breaks this assumption,
and a write then waits for ever.  `AcceptLoop`: weak for `work` and for the threads.
`AccountClient`: weak for a read that has something to return and for the handler's
answers, from the server's fairness; nothing makes a client ask or a post come.
`DbChannel`: weak for each channel's thread and for the lines of the destructor;
nothing makes a program log, replace its channel or end.  `ClientApp`: weak for the
gui, which draws frame after frame or runs its destructors, and for the worker's
steps, whose requests the server answers; strong for the mailbox's load, as in
`Mailbox`; a refresh of the messages, which waits for a packet nobody owes, has none,
and no button is ever pressed of itself.  `CoreContext`: weak for the gpu and for a
wait whose value is reached; frames, resizes and removals are free.  `Vic20Draw`:
weak for both queues, for the thread within a frame and for its waits.

Where deadlock checking is off, the system may really stop: `AcceptLoop` when `work`
returns; `DbChannel`, `ClientApp` and `Vic20Draw` at the end of the program;
`CoreContext` when it is destroyed or broken, and at the bound on signals;
`AccountClient` in `work` or `refreshMessageList`, whose read waits for as
long as nothing comes, because the client's socket is a blocking one and
`recvBytesTimeout` only looks at its limit between two calls of `recv`.

Each run checks its properties against plausible mistakes, the definitions named
`X_Something`: with any of them in place of `X` the property of its entry in
`PROJECT.json` fails.

## 4. Proofs

The modules `*Proofs` prove, for every number of connections, users, ids, posts,
parts, writes, clients, descriptors, requests, threads, channels, messages, buffers,
adapters, signals, events, slots and frames, and every size of a batch:

* `AccountServer`: `Typing`, `Orphans`, `LobbiesRefer`, `SessionsOwned`,
  `PostsDelivered`, `PostsInOrder`, `QueuesHaveThreads` and `Inductive`
  (`Spec => []IInv`), and the action property `LobbyJoinedOnce`.  From
  `ConstantsAssumption` alone.
  The parts of `IInv` rest on each other.  `PcSession` says where a thread has a
  session and `DownEmpty` that a down server has no thread; both with `TypeOK`
  give `NoOrphans`.  `OwnSession` is inductive because, with one connection per
  user, the only thread that deletes a row is the one that holds its id, and a row
  that is handed out anew is one no thread holds.  `NoLostPost` then needs
  `Unopened` (nothing is owed before the entry exists) and that two threads never
  share an entry, which is `OwnSession`.  `InOrder` needs none of that: a queue that
  several threads share is in the order of the broadcasts, since a broadcast appends to
  all of them in one critical section (`QueueOrder`), and what a connection was sent is
  older than all that is still queued for it (`SentBeforeQueued`).
* `Mailbox`: `Inductive`, `ReadsUntorn`, `ReadsRecent`, and `Refinement`
  (`Spec => Register!Spec`).  The invariant says that the slot `read` hands out
  always holds the last completed write, and that a reader left behind in the other
  slot means the write bit is set and the writer before or in its spin: the lost
  toggles of `unlock` are harmless because only `Store` ever leaves a reader behind,
  and it sets the bit.
* `AcceptLoop`: `Inductive`, `NoDescriptorLeaks` and `StoppedIsClosed`.  Every move goes to an object
  that holds nothing yet (`FreshLocals`, `FreshParams`), so a descriptor never loses
  its last holder other than by being closed.  The argument does not depend on what
  a move leaves behind.  A thread that has returned has no parameter left
  (`GoneParams`), so that no holder remains when all have.
* `AccountClient`: `Inductive`, `TypeCorrect`, `ResponsesInOrder`, `MessagesInOrder`,
  `BelievesItsOwn`, `SessionIsItsOwn`, `RequestsNeverStarve`.  From `ClientAssumption`.  `Counted` gives every id
  a fate: answered, unread or of the request in progress.  The ids between the first
  unanswered one and the last lie along the line `replies`, `toClient`, `toServer` in
  ascending order, so that with nothing unread the only response under way is the
  request's own (`InStep`).  `OwnSession` does not ask for that and needs `NoSession`:
  a client without session has read all that was for it, and a server that has one for
  it has sent the response to the login first.  Were both directions
  empty while a request waits, its response would be one of `replies`; but those were
  read before it was sent (`OlderReplies`).
* `DbChannel`: `Inductive`, `StoredBeforeEnd`, `WritesOnce`, `TakesWhatIsThere` for any
  number of channels, and `DestructorWakes` when there is one.  `Live` says that the thread of a channel is
  in its loop until it is told to stop, so what is due is fixed (`RequestStop`)
  before the thread can find the queue empty and end: `Ended` is inductive.  `Kept`
  and `Settled` then turn "taken" into "stored".  `OnlyDone` is the converse: nothing of
  the batch in hand is in the database, nor in a transaction left open, so that
  whatever a batch's end writes is written for the first time.  `Room` bounds a queue by what the threads may post and one
  message for each destructor that has logged its own (`Cleanups`), which keeps every
  batch among the enumerated ones.  From `DbChannelAssumption`;
  `DestructorWakes` also from `MaxChannels = 1`, without which it is false.
* `CoreContext`: `Inductive`, `TypeCorrect`, `FramesReuseSafely`, `FenceOnlyRises`,
  `WaitsForSignals`, `ReleasesFlushed`, `InFlightBounded`, `ViewsBalanced`, `Refinement`
  (`Spec => ImplementsSlotPool`), and the action property `MovesKeepContext`.  From `CoreContextAssumption`.  The values
  signalled are 1, 2, 3, and so on, although each is computed from whichever buffer is
  current.  That a wait for the current buffer's value is enough is then a matter of
  counting: `Distance(i)` is how many frames from now buffer `i` is current again, and
  `ValuesOrdered` says that its value, or what the gpu has done, is behind the last
  signal by less than the buffers before its turn allow.  `Ready` is that bound at
  distance 0.  A removed device satisfies it because every wait then ends.  The
  refinement adds `BuffersUsed`: no allocator holds a batch that was not submitted, and
  a context that is broken or destroyed has nothing left on the gpu.  What the
  pool promises implies `FrameReusable`.
* `ClientApp`: `Inductive`, `TypeCorrect`, `ChangesOneAtATime`, `LogsInAsTyped`,
  `ClientThere`, `EventsRunLive`, `WorkerWakes`.  `FrameFresh` is the key: while a frame
  acts on a state that waits for nothing, the state is still that one, because the only
  events that store states are pending in states whose forms are greyed out.  `Kinds`
  ties the pending event to the state and `NoClient` the pointer to it; `Unhurried`
  says that as long as the user did not leave with something pending, every event
  refers to the client there is.
* `Vic20Draw`: `Inductive`, `TargetInTurn`, `PicturesMatch`, `SlotsReuseSafely`,
  `FenceOnlyRises`, `QueuesNeverStuck`, `WaitsForSubmitted`, and `Refinement`
  (`Spec => ImplementsHandoff`), which implies `DrawsOwnPicture`.  Frame `i` is three commands of the compute queue and four of the
  direct queue, at places and with fence values that follow from `i` (`Submitted`,
  `ComputeLog`, `DirectLog`); the fence says how far the queues are (`FenceFollows`), so
  that each wait passes only behind the signal it is for (`TakeTurns`).  `SlotsKept`
  carries the thread's wait for a slot's present over to the dispatches of that slot.
  Where the command a queue executes lies in its frame is arithmetic modulo 3 and 4
  (`Thirds`, `Quarters`).

An inductive invariant `IInv` stands at the end of each module that has proofs about
it, below the properties it implies; a few theorems add a conjunct in the proof module.

Every invariant, action property and refinement that a run checks is proved.  Only
model-checked is all liveness (`PostsFlushed`, `StopDrains`, `WriteEnds`, `StopCloses`,
`RequestReturns`, `StopEnds`, `WaitsEnd`, `Answered`, `ListsSettle`), since TLAPS has no
rules for `ENABLED` and fairness.  Where a liveness property rests on something being
there to do, that is stated as an invariant and proved.  What is proved is that a waiting
party is never without the step that would serve it; what TLC adds is that fairness
makes the step happen.

| liveness, model-checked | its safety half, proved |
|---|---|
| `PostsFlushed` | `QueuesServed`: a queue belongs to a thread |
| `StopCloses` | `AllClosed`: when the threads have ended nothing is open |
| `RequestReturns` | `NeverStarves`: a request's packet is on its way, or the connection ends |
| `StopEnds` of the log channel | `WorkerWoken`, with one channel, and `NeverStuck` |
| `StopEnds` of the gui client | `WorkerWoken` |
| `WaitsEnd` of the render context | `AwaitedIsSignalled` |
| `WaitsEnd` of the scene drawing | `WaitSubmitted` and `NoStall` |

## 5. Where the code and its tests or comments part

`Answered` (run accept_answered).  `Socket(Socket&&)` (`net.hpp:39-42`) loads the
handle and leaves it in the object moved from.  In `work` (`server.cpp:383-394`)
three such objects, `client`, `socket` and the lambda handed to `std::jthread`, are
destroyed as soon as the thread exists; each destruction shuts the connection down.
The thread goes on with a descriptor that is closed or belongs to a later
connection, and the client's request is not answered, which the tests expect
(`account_test_common.cpp:20`, "Failed to create account").  With a move that resets
the source (`Moved_Reset`) the property holds in the same model.

`ImageReady` (run core_context_image).  After `present` the context waits for the
older frame of the next buffer only, so the copy of the frame just presented into its
image may not have run.  The test reads that image: "ensure the image is the same as
the clear colour" (`render/test/next/swapchain/virtual.cpp:47`).

`ScreenStable` (run vic20_screen).  `Vic20Display::record` writes the screen into the
element of its slot and has the dispatch read element 0 (`passes/vic20.cpp:175`);
the character map, two lines above, is read from the slot's element.  The buffer is a
"buffered per frame resource" (`render/src/next/context/resource.cpp:55`), and a frame
of slot 0 overwrites the screen older frames are still to read.

Observed, and stated by nothing in the repository, so no run is about them:

* `setAsyncChannel` (`logger.cpp:80`) assigns the new channel before the old one is
  destroyed, as the assignment of `unique_ptr` does.  The message `~DbChannel` logs to
  wake its thread then goes to the new channel, and with two channels `WorkerWoken`
  fails.  Every program installs one.  `DestructorWakes` rests on that, and on the
  `Logger`'s pointer still leading to the channel while its destructor runs, which is
  so for the `unique_ptr` of libstdc++ and of Microsoft's library.
* `VirtualSwapChain::present` resets the command list of the next surface one wait
  before the context waits for that surface's frame (`virtual.cpp:160`).
* A user who presses Logout or Disconnect, or closes the window, with events pending
  lets one of them run on the client or the widgets that are gone; `EventsLive` says
  that nobody else does.  Closing the window may then also leave the worker in a
  mailbox's spin or a blocking read, and the program in its join.
* `IContextResource::update` does nothing by default (`core.hpp:44`): a resize to a longer
  swap chain would leave per-slot buffers with fewer elements than slots.  The programs
  keep the length.
* Once a client of `AccountClient` has sent a post, or has read a post where it expected
  a response, it is behind by that response for the rest of the connection
  (`Counted` says by exactly `unread`), and its next requests take the responses
  of earlier ones.  `mCurrentLobby` may then be "other".  The session is safe from this
  (`OwnSession`) because neither can happen before a login's response, for a client that
  logs in while it has no session, as the gui and the tests do.

## 6. Not modelled

Left out of the models above: the contents of lists, names, salts and passwords;
errors of the account database; memory exhaustion; the `message` table, which nothing
writes; Windows sockets and the error number an earlier call leaves behind; weak memory
beyond what acquire and release rule out (the mailbox's accesses are ordered by them);
windows the user collapses; the window's own swap chain, the blit pass and imgui
beyond the one command they submit.

Components without a model, and why.  The frame graph is not built: no `meson.build`
lists `graph.cpp`, and its header lies in `temp/`.  The triple buffer "doesnt work yet",
and only a test that is not built includes it.  The containers and allocators are
sequential, and the programs use single indices of them only; their scans and
generations would be functions without callers.  Salts, the dao generator, archives,
configuration, docker, mathematics and physics are functions of their inputs; input and
launch are the operating system's messages and start-up; the drivers of the other
databases bind client libraries that are not in the repository; the plugins and
thunderflash stand apart from the engine.  The forward-plus passes draw images, and what
orders them is the render context.  Most files of the repository are third-party sources
and headers under `subprojects`, which are no part of the system described here.
