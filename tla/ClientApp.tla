------------------------------ MODULE ClientApp ------------------------------
(***************************************************************************)
(* The gui client (src/src/server/src/client.cpp).  The gui thread draws   *)
(* frames and answers buttons with events; a worker thread runs the events *)
(* one by one, on the AccountClient both share.  Events the gui enqueued   *)
(* come out in order, and so do those the worker enqueued itself.          *)
(*                                                                         *)
(* An AccountClient is a number, 0 the null pointer.  An event that was    *)
(* given a reference to one keeps it; the others look at the pointer when  *)
(* they run.  Using an object that is gone leads to "undefined", behind    *)
(* which the model says nothing.                                           *)
(***************************************************************************)
EXTENDS Integers, Sequences

CONSTANTS
  MaxClients,  \* bound: AccountClient objects made
  MaxEdits,    \* bound: edits of user name and password
  MaxEvents    \* bound: events in the queue when a button adds one

ASSUME ClientAppAssumption ==
  MaxClients \in Nat /\ MaxEdits \in Nat /\ MaxEvents \in Nat

VARIABLES
  state,    \* ClientState
  client,   \* the AccountClient, 0 for none
  made,     \* how many were made
  creds,    \* username and password: the number of the last edit
  list,     \* state of sessionList and lobbyList
  bit,      \* the write bit of each widget's mailbox
  guiQ, workQ,  \* the gui's and the worker's events in the queue
  gui,      \* where the gui thread is
  current,  \* its local of that name
  worker,   \* where the worker is
  event,    \* its local of that name
  stop,     \* the stop token
  hasty     \* history: the user left while the worker had something to do

sharedVars == <<state, client, made>>
widgetVars == <<list, bit>>
guiVars == <<gui, current, creds, hasty>>
workerVars == <<worker, event>>
vars == <<sharedVars, widgetVars, guiQ, workQ, guiVars, workerVars, stop>>

ClientState == {"eDisconnected", "eConnecting", "eConnected", "eConnectError",
                "eLoggingIn", "eLoginError", "eLoggedIn"}
Lists == {"sessions", "lobbies"}
Widgets == Lists \cup {"messages"}
ListState == {"eIdle", "eUpdating", "eDoneUpdate", "eError"}

\* "login" and "create" are the two buttons, "lobby" is Create Lobby; the three
\* widgets' refreshes have their names; "none" is the empty event.
Ops == {"connect", "login", "create", "lobby", "send", "none"} \cup Widgets
Event == [op : Ops, obj : 0..MaxClients, creds : 0..MaxEdits]
Plain(op) == [op |-> op, obj |-> 0, creds |-> 0]
On(op) == [op |-> op, obj |-> client, creds |-> 0]
Typed(op) == [op |-> op, obj |-> 0, creds |-> creds]

Loop == {"top", "lists", "buttons", "messages"}
GuiPlaces == Loop \cup {"stopping", "leaving", "joining", "ended"}
WorkerPlaces == {"check", "wait", "run", "assigned", "relogin", "request", "write",
                 "publish", "poll", "load", "enlist", "ended", "undefined"}

Init ==
  /\ state = "eDisconnected" /\ client = 0 /\ made = 0 /\ creds = 0
  /\ list = [w \in Lists |-> "eIdle"] /\ bit = [w \in Widgets |-> "clear"]
  /\ guiQ = <<>> /\ workQ = <<>>
  /\ gui = "top" /\ current = "eDisconnected" /\ hasty = "no"
  /\ worker = "check" /\ event = Plain("none")
  /\ stop = "no"

Toggled(b) == IF b = "set" THEN "clear" ELSE "set"

-----------------------------------------------------------------------------
\* The gui thread.

Press(e) == Len(guiQ) + Len(workQ) < MaxEvents /\ guiQ' = Append(guiQ, e)
Working == guiQ # <<>> \/ workQ # <<>> \/ worker \notin {"check", "wait"}
Leave == hasty' = IF Working THEN "yes" ELSE hasty

BeginFrame ==
  /\ gui = "top"
  /\ current' = state
  /\ gui' = IF state = "eLoggedIn" THEN "lists" ELSE "buttons"
  /\ UNCHANGED <<sharedVars, widgetVars, guiQ, workQ, creds, hasty, workerVars, stop>>

\* The tables of both lists, and at most one of their Refresh buttons.  The
\* guard of a table's mailbox toggles the write bit.
DrawLists ==
  /\ gui = "lists" /\ gui' = "buttons"
  /\ bit' = [w \in Widgets |->
               IF w \in Lists /\ list[w] # "eError" THEN Toggled(bit[w]) ELSE bit[w]]
  /\ \/ guiQ' = guiQ
     \/ \E w \in Lists : list[w] # "eUpdating" /\ Press(On(w))
  /\ UNCHANGED <<sharedVars, list, workQ, current, creds, hasty, workerVars, stop>>

MayEdit_WhileAuthenticating ==
  current \in {"eConnected", "eLoggingIn", "eLoginError"}
\* BeginDisabled greys the inputs and buttons of a form out.
MayEdit == current \in {"eConnected", "eLoginError"}
Edit ==
  /\ gui = "buttons" /\ MayEdit /\ creds < MaxEdits
  /\ creds' = creds + 1
  /\ UNCHANGED <<sharedVars, widgetVars, guiQ, workQ, gui, current, hasty, workerVars, stop>>

\* The end of current's scope.
Drawn == current' = "eDisconnected"

MayConnect_Anytime == current \in {"eDisconnected", "eConnecting", "eConnectError"}
MayConnect == current \in {"eDisconnected", "eConnectError"}
Connect ==
  /\ gui = "buttons" /\ gui' = "messages" /\ Drawn
  /\ MayConnect
  /\ state' = "eConnecting" /\ Press(Plain("connect"))
  /\ UNCHANGED <<client, made, widgetVars, workQ, creds, hasty, workerVars, stop>>

Authenticate ==
  /\ gui = "buttons" /\ gui' = "messages" /\ Drawn
  /\ MayEdit
  /\ state' = "eLoggingIn"
  /\ \E op \in {"login", "create"} : Press(Typed(op))
  /\ UNCHANGED <<client, made, widgetVars, workQ, creds, hasty, workerVars, stop>>

\* What a button that leaves makes of the state before it resets the client.
Disconnect ==
  /\ gui = "buttons" /\ gui' = "messages" /\ Drawn
  /\ current = "eLoggedIn"
  /\ state' = "eDisconnected" /\ client' = 0
  /\ Leave
  /\ UNCHANGED <<made, widgetVars, guiQ, workQ, creds, workerVars, stop>>

Logout ==
  /\ gui = "buttons" /\ gui' = "messages" /\ Drawn
  /\ current = "eLoggedIn"
  /\ state' = "eConnecting" /\ client' = 0 /\ Press(Plain("connect"))
  /\ Leave
  /\ UNCHANGED <<made, widgetVars, workQ, creds, workerVars, stop>>

CreateLobby ==
  /\ gui = "buttons" /\ gui' = "messages" /\ Drawn
  /\ current = "eLoggedIn" /\ Press(Plain("lobby"))
  /\ UNCHANGED <<sharedVars, widgetVars, workQ, creds, hasty, workerVars, stop>>

NoButton ==
  /\ gui = "buttons" /\ gui' = "messages" /\ Drawn
  /\ UNCHANGED <<sharedVars, widgetVars, guiQ, workQ, creds, hasty, workerVars, stop>>

\* The message window looks at the state again.
DrawMessages ==
  /\ gui = "messages" /\ gui' = "top"
  /\ IF state = "eLoggedIn"
     THEN /\ bit' = [bit EXCEPT !["messages"] = Toggled(@)]
          /\ guiQ' = guiQ \/ \E op \in {"messages", "send"} : Press(On(op))
     ELSE UNCHANGED <<bit, guiQ>>
  /\ UNCHANGED <<sharedVars, list, workQ, current, creds, hasty, workerVars, stop>>

RequestStop ==
  /\ gui = "top" /\ gui' = "stopping"
  /\ stop' = "yes"
  /\ Leave
  /\ UNCHANGED <<sharedVars, widgetVars, guiQ, workQ, current, creds, workerVars>>

LastEvent_None == <<>>
LastEvent == <<Plain("none")>>
EnqueueLast ==
  /\ gui = "stopping" /\ gui' = "leaving"
  /\ guiQ' = guiQ \o LastEvent
  /\ UNCHANGED <<sharedVars, widgetVars, workQ, current, creds, hasty, workerVars, stop>>

\* The widgets are declared behind the thread, and destroyed before it is joined.
DestroyWidgets ==
  /\ gui = "leaving" /\ gui' = "joining"
  /\ UNCHANGED <<sharedVars, widgetVars, guiQ, workQ, current, creds, hasty, workerVars, stop>>

Join ==
  /\ gui = "joining" /\ worker = "ended"
  /\ gui' = "ended" /\ client' = 0
  /\ UNCHANGED <<state, made, widgetVars, guiQ, workQ, current, creds, hasty, workerVars, stop>>

Shutdown == EnqueueLast \/ DestroyWidgets \/ Join

-----------------------------------------------------------------------------
\* The worker.

CheckStop ==
  /\ worker = "check"
  /\ worker' = IF stop = "yes" THEN "ended" ELSE "wait"
  /\ event' = Plain("none")
  /\ UNCHANGED <<sharedVars, widgetVars, guiQ, workQ, guiVars, stop>>

Dequeue ==
  /\ worker = "wait" /\ worker' = "run"
  /\ \/ /\ guiQ # <<>> /\ event' = Head(guiQ) /\ guiQ' = Tail(guiQ) /\ workQ' = workQ
     \/ /\ workQ # <<>> /\ event' = Head(workQ) /\ workQ' = Tail(workQ) /\ guiQ' = guiQ
  /\ UNCHANGED <<sharedVars, widgetVars, guiVars, stop>>

Op == event.op
UsesPointer ==
  \/ worker = "run" /\ Op \in {"login", "create", "lobby"}
  \/ worker \in {"relogin", "enlist"}
UsesReference ==
  \/ worker = "run" /\ Op \in {"messages", "send"}
  \/ worker \in {"request", "write", "poll"}
UsesWidgets ==
  \/ worker \in {"run", "request", "write", "publish", "poll"} /\ Op \in Widgets \cup {"send"}
  \/ worker = "enlist"
Live ==
  /\ UsesPointer => client # 0
  /\ UsesReference => client # 0 /\ event.obj = client
  /\ UsesWidgets => gui \notin {"joining", "ended"}
Misuse ==
  /\ ~Live /\ worker' = "undefined"
  /\ UNCHANGED <<sharedVars, widgetVars, guiQ, workQ, guiVars, event, stop>>

RunNone ==
  /\ worker = "run" /\ Op = "none" /\ worker' = "check"
  /\ UNCHANGED <<sharedVars, widgetVars, guiQ, workQ, guiVars, event, stop>>

\* The new object is assigned to the pointer, then the state is stored.
RunConnect ==
  /\ worker = "run" /\ Op = "connect"
  /\ \/ /\ made < MaxClients
        /\ made' = made + 1 /\ client' = made + 1 /\ worker' = "assigned" /\ state' = state
     \/ state' = "eConnectError" /\ worker' = "check" /\ UNCHANGED <<client, made>>
  /\ UNCHANGED <<widgetVars, guiQ, workQ, guiVars, event, stop>>
Connected ==
  /\ worker = "assigned" /\ worker' = "check" /\ state' = "eConnected"
  /\ UNCHANGED <<client, made, widgetVars, guiQ, workQ, guiVars, event, stop>>

Login ==
  /\ Live
  /\ (worker = "run" /\ Op = "login") \/ worker = "relogin"
  /\ state' \in {"eLoggedIn", "eLoginError"} /\ worker' = "load"
  /\ UNCHANGED <<client, made, widgetVars, guiQ, workQ, guiVars, event, stop>>
Refused_Forgotten == state
Refused == "eLoginError"
CreateAccount ==
  /\ Live
  /\ worker = "run" /\ Op = "create"
  /\ \/ worker' = "relogin" /\ state' = state
     \/ worker' = "load" /\ state' = Refused
  /\ UNCHANGED <<client, made, widgetVars, guiQ, workQ, guiVars, event, stop>>
RunCreateLobby ==
  /\ Live
  /\ worker = "run" /\ Op = "lobby"
  /\ worker' \in {"enlist", "check"}
  /\ UNCHANGED <<sharedVars, widgetVars, guiQ, workQ, guiVars, event, stop>>
\* An event that logged in looks at the state once more.
Load ==
  /\ worker = "load"
  /\ worker' = IF state = "eLoggedIn" THEN "enlist" ELSE "check"
  /\ UNCHANGED <<sharedVars, widgetVars, guiQ, workQ, guiVars, event, stop>>
Enlist ==
  /\ Live
  /\ worker = "enlist" /\ worker' = "check"
  /\ workQ' = workQ \o (IF Op = "lobby" THEN <<On("lobbies")>>
                                        ELSE <<On("sessions"), On("lobbies")>>)
  /\ UNCHANGED <<sharedVars, widgetVars, guiQ, guiVars, event, stop>>

BeginRefresh ==
  /\ Live
  /\ worker = "run" /\ Op \in Lists /\ worker' = "request"
  /\ list' = [list EXCEPT ![Op] = "eUpdating"]
  /\ UNCHANGED <<sharedVars, bit, guiQ, workQ, guiVars, event, stop>>
Refresh ==
  /\ Live
  /\ worker = "request"
  /\ \/ worker' = "write" /\ list' = list
     \/ worker' = "check" /\ list' = [list EXCEPT ![Op] = "eError"]
  /\ UNCHANGED <<sharedVars, bit, guiQ, workQ, guiVars, event, stop>>
\* The requests of a message event; those of a refresh wait for a packet.
Talk(o) ==
  /\ Live
  /\ worker = "run" /\ Op = o
  /\ worker' \in {"write", "check"}
  /\ UNCHANGED <<sharedVars, widgetVars, guiQ, workQ, guiVars, event, stop>>

Mailbox == IF Op = "send" THEN "messages" ELSE Op
\* The load that ends the spin of write, then its store.
Write ==
  /\ Live
  /\ worker = "write" /\ bit[Mailbox] = "clear" /\ worker' = "publish"
  /\ UNCHANGED <<sharedVars, widgetVars, guiQ, workQ, guiVars, event, stop>>
AfterWrite_Stays == list
AfterWrite == IF Op \in Lists THEN [list EXCEPT ![Op] = "eDoneUpdate"] ELSE list
Publish ==
  /\ Live
  /\ worker = "publish" /\ worker' = IF Op = "send" THEN "poll" ELSE "check"
  /\ bit' = [bit EXCEPT ![Mailbox] = "set"]
  /\ list' = AfterWrite
  /\ UNCHANGED <<sharedVars, guiQ, workQ, guiVars, event, stop>>
Poll ==
  /\ Live
  /\ worker = "poll" /\ worker' = "check"
  /\ UNCHANGED <<sharedVars, widgetVars, guiQ, workQ, guiVars, event, stop>>

\* What ends by itself, the server answering every request.
Step ==
  \/ CheckStop \/ Dequeue \/ RunNone \/ RunConnect \/ Connected
  \/ Login \/ CreateAccount \/ RunCreateLobby \/ Load \/ Enlist
  \/ BeginRefresh \/ Refresh \/ Talk("send") \/ Publish \/ Poll

Next ==
  /\ worker # "undefined"
  /\ \/ BeginFrame \/ DrawLists \/ Edit \/ Connect \/ Authenticate \/ Disconnect \/ Logout
     \/ CreateLobby \/ NoButton \/ DrawMessages \/ RequestStop \/ Shutdown
     \/ Misuse \/ Step \/ Talk("messages") \/ Write

\* The gui draws frame after frame and ends its destructors; the worker is
\* scheduled; the spin sees a bit that is clear between two frames again and again.
Frame == BeginFrame \/ DrawLists \/ NoButton \/ DrawMessages
Fairness == WF_vars(Frame \/ Shutdown) /\ WF_vars(Step) /\ SF_vars(Write)
Spec == Init /\ [][Next]_vars /\ Fairness

-----------------------------------------------------------------------------
TypeOK ==
  /\ state \in ClientState /\ current \in ClientState
  /\ client \in 0..MaxClients /\ made \in 0..MaxClients /\ creds \in 0..MaxEdits
  /\ list \in [Lists -> ListState] /\ bit \in [Widgets -> {"clear", "set"}]
  /\ guiQ \in Seq(Event) /\ workQ \in Seq(Event) /\ event \in Event
  /\ gui \in GuiPlaces /\ worker \in WorkerPlaces
  /\ stop \in {"no", "yes"} /\ hasty \in {"no", "yes"}

\* The events that will store a new state, and the states that say so.
Auth == {"login", "create"}
Awaited == {i \in 1..Len(guiQ) : guiQ[i].op \in Auth \cup {"connect"}}
Running == \/ worker = "run" /\ Op \in Auth \cup {"connect"}
           \/ worker \in {"assigned", "relogin"}

\* Frames look at the state once and act on it later, while the worker stores
\* others; still no event changes the state behind another's back: one is
\* pending when the state says "connecting" or "logging in", and none else.
OnePending ==
  /\ \A i, j \in Awaited : i = j
  /\ Running => Awaited = {}
  /\ state \in {"eConnecting", "eLoggingIn"} <=> (Running \/ Awaited # {})

\* The login events hold pointers to the gui's text buffers (client.cpp:371 and
\* :395), which hold what they held at the click for as long as these run.
CredentialsAsTyped ==
  worker \in {"run", "relogin"} /\ Op \in Auth => event.creds = creds

\* The gui dereferences the pointer to the client while it draws a session; it is
\* there, and the worker is not about to assign it.
ClientOwned ==
  state \in {"eConnected", "eLoggingIn", "eLoginError", "eLoggedIn"} /\ gui # "ended"
    => client # 0 /\ worker # "assigned"

\* No event runs on a client or a widget that is gone, unless the user left while
\* the worker still had something to do.
EventsLive == worker = "undefined" => hasty = "yes"

\* The gui never joins a worker that waits for an event with none to come.
WorkerWoken ==
  gui \in {"leaving", "joining"} /\ worker = "wait" => guiQ # <<>> \/ workQ # <<>>

\* The inductive invariant.  While a frame acts on a state that waits for nothing,
\* the state is still that one; the kind of the pending event goes with the
\* state; there is no client to refer to while none is connected; and as long as
\* the user was not hasty, every event there is refers to the client there is.
FrameFresh ==
  gui \in {"lists", "buttons"} =>
    /\ gui = "lists" => current = "eLoggedIn"
    /\ current \notin {"eConnecting", "eLoggingIn"} => state = current
Kinds ==
  /\ \A i \in Awaited : guiQ[i].op = "connect" <=> state = "eConnecting"
  /\ Running => (Op = "connect" <=> state = "eConnecting")
  /\ worker = "assigned" => Op = "connect" /\ client # 0
  /\ worker = "relogin" => Op = "create"
  /\ worker = "load" => Op \in Auth
  /\ worker = "enlist" => Op \in Auth \cup {"lobby"}
  /\ worker = "request" => Op \in Lists
  /\ worker \in {"write", "publish"} => Op \in Widgets \cup {"send"}
  /\ worker = "poll" => Op = "send"
  /\ \A i \in 1..Len(workQ) : workQ[i].op \in Lists
NoClient ==
  state \in {"eDisconnected", "eConnecting", "eConnectError"} => client = 0 \/ worker = "assigned"
Buffers == \A i \in 1..Len(guiQ) : guiQ[i].op \in Auth => guiQ[i].creds = creds
Fits(e) ==
  /\ e.op \in Widgets \cup {"send"} => e.obj = client
  /\ e.op \in Widgets \cup Auth \cup {"send", "lobby"} => client # 0
Busy == worker \notin {"check", "wait", "ended"}
Unhurried ==
  hasty = "no" =>
    /\ worker # "undefined"
    /\ \A i \in 1..Len(guiQ) : Fits(guiQ[i])
    /\ \A i \in 1..Len(workQ) : Fits(workQ[i])
    /\ Busy => Fits(event)
    /\ gui \notin Loop =>
         /\ Busy => Op = "none"
         /\ \A i \in 1..Len(guiQ) : guiQ[i].op = "none"
         /\ workQ = <<>>
Stopping ==
  /\ stop = "yes" <=> gui \notin Loop
  /\ worker = "ended" => stop = "yes"
  /\ gui = "ended" => worker = "ended"
  /\ gui \in {"leaving", "joining"} /\ worker = "wait" => guiQ # <<>>
IInv ==
  /\ TypeOK /\ OnePending /\ CredentialsAsTyped /\ ClientOwned
  /\ Buffers /\ FrameFresh /\ Kinds /\ NoClient /\ Unhurried /\ Stopping

Staying == hasty = "no" /\ gui \in Loop
\* Connecting and logging in come to an end, while the user stays.
Answered ==
  state \in {"eConnecting", "eLoggingIn"}
    ~> state \notin {"eConnecting", "eLoggingIn"} \/ ~Staying

\* When a list is being updated, no list is one day, whatever its mailbox's bit was.
ListsSettle ==
  (\E w \in Lists : list[w] = "eUpdating")
    ~> (\A w \in Lists : list[w] # "eUpdating") \/ ~Staying

\* The program ends when its window is closed with nothing left to do.
StopEnds == gui = "stopping" /\ hasty = "no" ~> gui = "ended"
=============================================================================
