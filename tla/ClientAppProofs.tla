--------------------------- MODULE ClientAppProofs ---------------------------
(***************************************************************************)
(* Proofs about ClientApp, for every number of clients, edits and events   *)
(* in the queue.                                                           *)
(***************************************************************************)
EXTENDS ClientApp, TLAPS

USE ClientAppAssumption

\* The initial state is one the invariant allows.
THEOREM Start == Init => IInv
<1> SUFFICES ASSUME Init PROVE IInv
    OBVIOUS
<1> USE DEF Init, Plain
<1>1. TypeOK
      BY DEF TypeOK, ClientState, ListState, Event, Ops, GuiPlaces, Loop, WorkerPlaces
<1>2. OnePending /\ Buffers /\ Kinds /\ Unhurried
      BY DEF OnePending, Buffers, Kinds, Unhurried, Awaited, Running, Fits, Busy, Loop, Op
<1>3. CredentialsAsTyped /\ ClientOwned /\ FrameFresh /\ NoClient /\ Stopping
      BY DEF CredentialsAsTyped, ClientOwned, FrameFresh, NoClient, Stopping, Loop
<1> QED BY <1>1, <1>2, <1>3 DEF IInv

-----------------------------------------------------------------------------
(* Steps of the gui thread. *)

\* A button's event is the last of the gui's events, and the others stay.
LEMMA Pressed ==
  ASSUME TypeOK, NEW e \in Event, Press(e)
  PROVE  /\ guiQ' \in Seq(Event) /\ Len(guiQ') = Len(guiQ) + 1
         /\ guiQ'[Len(guiQ) + 1] = e
         /\ \A i \in 1..Len(guiQ) : guiQ'[i] = guiQ[i]
BY DEF TypeOK, Press

\* The widgets' buttons add events that refer to the client there is.
LEMMA Asked ==
  ASSUME IInv, client # 0, gui \in Loop, gui' \in Loop,
         UNCHANGED <<state, client, creds, workQ, worker, event, hasty>>,
         guiQ' = guiQ \/ \E o \in Widgets \cup {"send"} : Press(On(o))
  PROVE  guiQ' \in Seq(Event) /\ OnePending' /\ Buffers' /\ Kinds' /\ Unhurried'
<1>0. TypeOK /\ OnePending /\ Buffers /\ Kinds /\ Unhurried
      BY DEF IInv
<1>1. CASE guiQ' = guiQ
      BY <1>0, <1>1 DEF TypeOK, OnePending, Buffers, Kinds, Unhurried, Awaited, Running, Op, Fits, Busy
<1>2. ASSUME NEW o \in Widgets \cup {"send"}, Press(On(o))
      PROVE  guiQ' \in Seq(Event) /\ OnePending' /\ Buffers' /\ Kinds' /\ Unhurried'
  <2>1. On(o) \in Event /\ On(o).op = o /\ On(o).obj = client
        BY <1>0 DEF TypeOK, On, Event, Ops
  <2>2. /\ guiQ' \in Seq(Event) /\ Len(guiQ') = Len(guiQ) + 1
        /\ guiQ'[Len(guiQ) + 1].op = o /\ guiQ'[Len(guiQ) + 1].obj = client
        /\ \A i \in 1..Len(guiQ) : guiQ'[i] = guiQ[i]
        BY <1>0, <1>2, <2>1, Pressed
  <2>3. o \notin Auth \cup {"connect"}
        BY DEF Auth, Widgets, Lists
  <2>4. Len(guiQ) \in Nat
        BY <1>0 DEF TypeOK
  <2>5. Awaited' = Awaited
        BY <2>2, <2>3, <2>4 DEF Awaited
  <2>6. OnePending' /\ Kinds'
    <3>1. Running' = Running
          BY DEF Running, Op
    <3>2. OnePending'
          BY <1>0, <2>5, <3>1 DEF OnePending
    <3>3. \A i \in Awaited' : guiQ'[i].op = "connect" <=> state' = "eConnecting"
      <4>1. \A i \in Awaited : i \in 1..Len(guiQ) /\ guiQ'[i] = guiQ[i]
            BY <2>2 DEF Awaited
      <4> QED BY <1>0, <2>5, <4>1 DEF Kinds
    <3>4. Kinds'
          BY <1>0, <3>1, <3>3 DEF Kinds, Op
    <3> QED BY <3>2, <3>4
  <2>7. Buffers'
        BY <1>0, <2>2, <2>3, <2>4 DEF Buffers
  <2>8. Unhurried'
        BY <1>0, <2>2, <2>4 DEF Unhurried, Fits, Busy, Op
  <2> QED BY <2>2, <2>6, <2>7, <2>8
<1> QED BY <1>1, <1>2

\* A frame starts from the state there is.
LEMMA BeginFrameStep == IInv /\ BeginFrame => IInv'
<1> SUFFICES ASSUME IInv, BeginFrame PROVE IInv'
    OBVIOUS
<1> USE DEF BeginFrame, sharedVars, widgetVars, guiVars, workerVars
<1>0. TypeOK /\ OnePending /\ CredentialsAsTyped /\ ClientOwned /\ Buffers
       /\ FrameFresh /\ Kinds /\ NoClient /\ Unhurried /\ Stopping
      BY DEF IInv
<1>1. TypeOK'
      BY <1>0 DEF TypeOK, GuiPlaces, Loop, ClientState, Event, Ops
<1>2. OnePending' /\ Buffers' /\ Kinds'
      BY <1>0 DEF OnePending, Buffers, Kinds, FrameFresh, Awaited, Running, Op,
             Auth, Widgets, Lists
<1>3. CredentialsAsTyped' /\ ClientOwned' /\ FrameFresh' /\ NoClient' /\ Stopping'
      BY <1>0 DEF CredentialsAsTyped, ClientOwned, FrameFresh, NoClient, Stopping,
             OnePending, Kinds, Running, Op, Auth, Loop
<1>4. Unhurried'
      BY <1>0 DEF Unhurried, ClientOwned, NoClient, Kinds, FrameFresh, Stopping,
             Fits, Busy, Op, Auth, Widgets, Lists, Loop
<1> QED BY <1>1, <1>2, <1>3, <1>4 DEF IInv

\* The lists are drawn in a session, which has its client.
LEMMA DrawListsStep == IInv /\ DrawLists => IInv'
<1> SUFFICES ASSUME IInv, DrawLists PROVE IInv'
    OBVIOUS
<1> USE DEF DrawLists, sharedVars, widgetVars, guiVars, workerVars
<1>0. TypeOK /\ OnePending /\ CredentialsAsTyped /\ ClientOwned /\ FrameFresh /\ NoClient /\ Stopping
      BY DEF IInv
<1>1. bit' \in [Widgets -> {"clear", "set"}]
      BY <1>0 DEF TypeOK, Toggled
<1>2. client # 0 /\ gui \in Loop /\ gui' \in Loop
      BY <1>0 DEF ClientOwned, FrameFresh, Loop
<1>3. guiQ' = guiQ \/ \E o \in Widgets \cup {"send"} : Press(On(o))
      BY DEF Widgets
<1>4. guiQ' \in Seq(Event) /\ OnePending' /\ Buffers' /\ Kinds' /\ Unhurried'
      BY <1>2, <1>3, Asked
<1>5. TypeOK'
      BY <1>0, <1>1, <1>4 DEF TypeOK, GuiPlaces, Loop
<1>6. CredentialsAsTyped' /\ ClientOwned' /\ FrameFresh' /\ NoClient' /\ Stopping'
      BY <1>0 DEF CredentialsAsTyped, ClientOwned, FrameFresh, NoClient, Stopping, Op, Auth, Loop
<1> QED BY <1>4, <1>5, <1>6 DEF IInv

\* Inputs are only enabled while no login is pending, so no event's text changes.
LEMMA EditStep == IInv /\ Edit => IInv'
<1> SUFFICES ASSUME IInv, Edit PROVE IInv'
    OBVIOUS
<1> USE DEF Edit, MayEdit, sharedVars, widgetVars, guiVars, workerVars
<1>0. TypeOK /\ OnePending /\ CredentialsAsTyped /\ ClientOwned /\ Buffers
       /\ FrameFresh /\ Kinds /\ NoClient /\ Unhurried /\ Stopping
      BY DEF IInv
<1>1. TypeOK'
      BY <1>0 DEF TypeOK, GuiPlaces, Loop, ClientState, Event, Ops
<1>2. OnePending' /\ Buffers' /\ Kinds'
      BY <1>0 DEF OnePending, Buffers, Kinds, FrameFresh, Awaited, Running, Op,
             Auth, Widgets, Lists
<1>3. CredentialsAsTyped' /\ ClientOwned' /\ FrameFresh' /\ NoClient' /\ Stopping'
      BY <1>0 DEF CredentialsAsTyped, ClientOwned, FrameFresh, NoClient, Stopping,
             OnePending, Kinds, Running, Op, Auth, Loop
<1>4. Unhurried'
      BY <1>0 DEF Unhurried, ClientOwned, NoClient, Kinds, FrameFresh, Stopping,
             Fits, Busy, Op, Auth, Widgets, Lists, Loop
<1> QED BY <1>1, <1>2, <1>3, <1>4 DEF IInv

\* A button that changes the state adds the one event there is that will.
LEMMA PressedFirst ==
  ASSUME IInv, NEW e \in Event, Press(e), e.op \in Auth \cup {"connect"},
         state \notin {"eConnecting", "eLoggingIn"},
         state' = IF e.op = "connect" THEN "eConnecting" ELSE "eLoggingIn",
         e.op \in Auth => e.creds = creds,
         UNCHANGED <<creds, workQ, worker, event>>
  PROVE  OnePending' /\ Buffers' /\ Kinds'
<1>0. TypeOK /\ OnePending /\ Buffers /\ Kinds
      BY DEF IInv
<1>1. /\ guiQ' \in Seq(Event) /\ Len(guiQ') = Len(guiQ) + 1
      /\ guiQ'[Len(guiQ) + 1] = e
      /\ \A i \in 1..Len(guiQ) : guiQ'[i] = guiQ[i]
      BY <1>0, Pressed
<1>2. Len(guiQ) \in Nat
      BY <1>0 DEF TypeOK
<1>3. Awaited = {} /\ ~Running
      BY <1>0 DEF OnePending
<1>4. \A i \in 1..Len(guiQ) : guiQ[i].op \notin Auth \cup {"connect"}
      BY <1>3 DEF Awaited
<1>5. Awaited' = {Len(guiQ) + 1}
      BY <1>1, <1>2, <1>4 DEF Awaited
<1>6. ~Running'
      BY <1>3 DEF Running, Op
<1>7. OnePending'
  <2>1. state' \in {"eConnecting", "eLoggingIn"}
        OBVIOUS
  <2> QED BY <1>5, <1>6, <2>1 DEF OnePending
<1>8. Buffers'
      BY <1>0, <1>1, <1>2, <1>4 DEF Buffers
<1>9. Kinds'
  <2>1. \A i \in Awaited' : guiQ'[i].op = "connect" <=> state' = "eConnecting"
        BY <1>1, <1>5
  <2>2. worker # "assigned" /\ worker # "relogin"
        BY <1>3 DEF Running
  <2> QED BY <1>0, <1>6, <2>1, <2>2 DEF Kinds, Op
<1> QED BY <1>7, <1>8, <1>9

\* The button is enabled when nothing is pending and there is no client.
LEMMA ConnectStep == IInv /\ Connect => IInv'
<1> SUFFICES ASSUME IInv, Connect PROVE IInv'
    OBVIOUS
<1> USE DEF Connect, MayConnect, Press, Plain, Drawn, sharedVars, widgetVars, guiVars,
           workerVars
<1>0. TypeOK /\ OnePending /\ CredentialsAsTyped /\ ClientOwned /\ Buffers
       /\ FrameFresh /\ Kinds /\ NoClient /\ Unhurried /\ Stopping
      BY DEF IInv
<1>1. TypeOK'
      BY <1>0 DEF TypeOK, GuiPlaces, Loop, ClientState, Event, Ops
<1>2. OnePending' /\ Buffers' /\ Kinds'
  <2>1. /\ Plain("connect") \in Event /\ Plain("connect").op = "connect"
        /\ "connect" \notin Auth
        BY DEF Event, Ops, Plain, Auth
  <2>2. state \notin {"eConnecting", "eLoggingIn"}
        BY <1>0 DEF FrameFresh
  <2> HIDE DEF Plain
  <2> QED BY <2>1, <2>2, PressedFirst
<1>3. CredentialsAsTyped' /\ ClientOwned' /\ FrameFresh' /\ NoClient' /\ Stopping'
      BY <1>0 DEF CredentialsAsTyped, ClientOwned, FrameFresh, NoClient, Stopping,
             OnePending, Kinds, Running, Op, Auth, Loop
<1>4. Unhurried'
      BY <1>0 DEF Unhurried, ClientOwned, NoClient, Kinds, FrameFresh, Stopping,
             Fits, Busy, Op, Auth, Widgets, Lists, Loop
<1> QED BY <1>1, <1>2, <1>3, <1>4 DEF IInv

\* The button is enabled when nothing is pending and there is a client.
LEMMA AuthenticateStep == IInv /\ Authenticate => IInv'
<1> SUFFICES ASSUME IInv, Authenticate PROVE IInv'
    OBVIOUS
<1> USE DEF Authenticate, MayEdit, Press, Typed, Drawn, sharedVars, widgetVars, guiVars,
           workerVars
<1>0. TypeOK /\ OnePending /\ CredentialsAsTyped /\ ClientOwned /\ Buffers
       /\ FrameFresh /\ Kinds /\ NoClient /\ Unhurried /\ Stopping
      BY DEF IInv
<1>1. TypeOK'
      BY <1>0 DEF TypeOK, GuiPlaces, Loop, ClientState, Event, Ops
<1>2. OnePending' /\ Buffers' /\ Kinds'
  <2>1. PICK op \in {"login", "create"} : Press(Typed(op))
        OBVIOUS
  <2>2. /\ Typed(op) \in Event /\ Typed(op).op = op /\ Typed(op).creds = creds
        /\ op \in Auth /\ op # "connect"
        BY <1>0 DEF TypeOK, Event, Ops, Auth
  <2>3. state \notin {"eConnecting", "eLoggingIn"}
        BY <1>0 DEF FrameFresh
  <2> HIDE DEF Typed
  <2> QED BY <2>1, <2>2, <2>3, PressedFirst
<1>3. CredentialsAsTyped' /\ ClientOwned' /\ FrameFresh' /\ NoClient' /\ Stopping'
      BY <1>0 DEF CredentialsAsTyped, ClientOwned, FrameFresh, NoClient, Stopping,
             OnePending, Kinds, Running, Op, Auth, Loop
<1>4. Unhurried'
      BY <1>0 DEF Unhurried, ClientOwned, NoClient, Kinds, FrameFresh, Stopping,
             Fits, Busy, Op, Auth, Widgets, Lists, Loop
<1> QED BY <1>1, <1>2, <1>3, <1>4 DEF IInv

\* The client goes; whatever still refers to it makes the user hasty.
LEMMA DisconnectStep == IInv /\ Disconnect => IInv'
<1> SUFFICES ASSUME IInv, Disconnect PROVE IInv'
    OBVIOUS
<1> USE DEF Disconnect, Leave, Working, Drawn, sharedVars, widgetVars, guiVars, workerVars
<1>0. TypeOK /\ OnePending /\ CredentialsAsTyped /\ ClientOwned /\ Buffers
       /\ FrameFresh /\ Kinds /\ NoClient /\ Unhurried /\ Stopping
      BY DEF IInv
<1>1. TypeOK'
      BY <1>0 DEF TypeOK, GuiPlaces, Loop, ClientState, Event, Ops
<1>2. OnePending' /\ Buffers' /\ Kinds'
      BY <1>0 DEF OnePending, Buffers, Kinds, FrameFresh, Awaited, Running, Op,
             Auth, Widgets, Lists
<1>3. CredentialsAsTyped' /\ ClientOwned' /\ FrameFresh' /\ NoClient' /\ Stopping'
      BY <1>0 DEF CredentialsAsTyped, ClientOwned, FrameFresh, NoClient, Stopping,
             OnePending, Kinds, Running, Op, Auth, Loop
<1>4. Unhurried'
      BY <1>0 DEF Unhurried, ClientOwned, NoClient, Kinds, FrameFresh, Stopping,
             Fits, Busy, Op, Auth, Widgets, Lists, Loop
<1> QED BY <1>1, <1>2, <1>3, <1>4 DEF IInv

\* As Disconnect, with the next connection pending.
LEMMA LogoutStep == IInv /\ Logout => IInv'
<1> SUFFICES ASSUME IInv, Logout PROVE IInv'
    OBVIOUS
<1> USE DEF Logout, Leave, Working, Press, Plain, Drawn, sharedVars, widgetVars, guiVars,
           workerVars
<1>0. TypeOK /\ OnePending /\ CredentialsAsTyped /\ ClientOwned /\ Buffers
       /\ FrameFresh /\ Kinds /\ NoClient /\ Unhurried /\ Stopping
      BY DEF IInv
<1>1. TypeOK'
  <2>1. Plain("connect") \in Event
        BY DEF Event, Ops
  <2>2. guiQ' \in Seq(Event)
        BY <1>0, <2>1 DEF TypeOK
  <2>3. /\ state' \in ClientState /\ current' \in ClientState /\ client' \in 0..MaxClients
        /\ gui' \in GuiPlaces /\ hasty' \in {"no", "yes"}
        BY <1>0 DEF TypeOK, GuiPlaces, Loop, ClientState
  <2>4. /\ made' = made /\ list' = list /\ bit' = bit /\ workQ' = workQ /\ event' = event
        /\ worker' = worker /\ stop' = stop /\ creds' = creds
        OBVIOUS
  <2> HIDE DEF Logout, Plain
  <2> QED BY <1>0, <2>2, <2>3, <2>4 DEF TypeOK
<1>2. OnePending' /\ Buffers' /\ Kinds'
  <2>1. /\ Plain("connect") \in Event /\ Plain("connect").op = "connect"
        /\ "connect" \notin Auth
        BY DEF Event, Ops, Plain, Auth
  <2>2. state \notin {"eConnecting", "eLoggingIn"}
        BY <1>0 DEF FrameFresh
  <2> HIDE DEF Plain
  <2> QED BY <2>1, <2>2, PressedFirst
<1>3. CredentialsAsTyped' /\ ClientOwned' /\ FrameFresh' /\ NoClient' /\ Stopping'
      BY <1>0 DEF CredentialsAsTyped, ClientOwned, FrameFresh, NoClient, Stopping,
             OnePending, Kinds, Running, Op, Auth, Loop
<1>4. Unhurried'
      BY <1>0 DEF Unhurried, ClientOwned, NoClient, Kinds, FrameFresh, Stopping,
             Fits, Busy, Op, Auth, Widgets, Lists, Loop
<1> QED BY <1>1, <1>2, <1>3, <1>4 DEF IInv

\* The event finds the client by itself.
LEMMA CreateLobbyStep == IInv /\ CreateLobby => IInv'
<1> SUFFICES ASSUME IInv, CreateLobby PROVE IInv'
    OBVIOUS
<1> USE DEF CreateLobby, Press, Plain, Drawn, sharedVars, widgetVars, guiVars, workerVars
<1>0. TypeOK /\ OnePending /\ CredentialsAsTyped /\ ClientOwned /\ Buffers
       /\ FrameFresh /\ Kinds /\ NoClient /\ Unhurried /\ Stopping
      BY DEF IInv
<1>1. TypeOK'
      BY <1>0 DEF TypeOK, GuiPlaces, Loop, ClientState, Event, Ops
<1>2. OnePending' /\ Buffers' /\ Kinds'
      BY <1>0 DEF OnePending, Buffers, Kinds, FrameFresh, Awaited, Running, Op,
             Auth, Widgets, Lists
<1>3. CredentialsAsTyped' /\ ClientOwned' /\ FrameFresh' /\ NoClient' /\ Stopping'
      BY <1>0 DEF CredentialsAsTyped, ClientOwned, FrameFresh, NoClient, Stopping,
             OnePending, Kinds, Running, Op, Auth, Loop
<1>4. Unhurried'
      BY <1>0 DEF Unhurried, ClientOwned, NoClient, Kinds, FrameFresh, Stopping,
             Fits, Busy, Op, Auth, Widgets, Lists, Loop
<1> QED BY <1>1, <1>2, <1>3, <1>4 DEF IInv

\* Nothing but the end of the frame's buttons.
LEMMA NoButtonStep == IInv /\ NoButton => IInv'
<1> SUFFICES ASSUME IInv, NoButton PROVE IInv'
    OBVIOUS
<1> USE DEF NoButton, Drawn, sharedVars, widgetVars, guiVars, workerVars
<1>0. TypeOK /\ OnePending /\ CredentialsAsTyped /\ ClientOwned /\ Buffers
       /\ FrameFresh /\ Kinds /\ NoClient /\ Unhurried /\ Stopping
      BY DEF IInv
<1>1. TypeOK'
      BY <1>0 DEF TypeOK, GuiPlaces, Loop, ClientState, Event, Ops
<1>2. OnePending' /\ Buffers' /\ Kinds'
      BY <1>0 DEF OnePending, Buffers, Kinds, FrameFresh, Awaited, Running, Op,
             Auth, Widgets, Lists
<1>3. CredentialsAsTyped' /\ ClientOwned' /\ FrameFresh' /\ NoClient' /\ Stopping'
      BY <1>0 DEF CredentialsAsTyped, ClientOwned, FrameFresh, NoClient, Stopping,
             OnePending, Kinds, Running, Op, Auth, Loop
<1>4. Unhurried'
      BY <1>0 DEF Unhurried, ClientOwned, NoClient, Kinds, FrameFresh, Stopping,
             Fits, Busy, Op, Auth, Widgets, Lists, Loop
<1> QED BY <1>1, <1>2, <1>3, <1>4 DEF IInv

\* The messages too: the state is read again.
LEMMA DrawMessagesStep == IInv /\ DrawMessages => IInv'
<1> SUFFICES ASSUME IInv, DrawMessages PROVE IInv'
    OBVIOUS
<1> USE DEF DrawMessages, sharedVars, widgetVars, guiVars, workerVars
<1>0. TypeOK /\ OnePending /\ CredentialsAsTyped /\ ClientOwned /\ Buffers
       /\ FrameFresh /\ Kinds /\ NoClient /\ Unhurried /\ Stopping
      BY DEF IInv
<1>1. CASE state = "eLoggedIn"
  <2>1. bit' \in [Widgets -> {"clear", "set"}]
        BY <1>0, <1>1 DEF TypeOK, Toggled
  <2>2. client # 0 /\ gui \in Loop /\ gui' \in Loop
        BY <1>0, <1>1 DEF ClientOwned, Loop
  <2>3. guiQ' = guiQ \/ \E o \in Widgets \cup {"send"} : Press(On(o))
        BY <1>1 DEF Widgets
  <2>4. guiQ' \in Seq(Event) /\ OnePending' /\ Buffers' /\ Kinds' /\ Unhurried'
        BY <2>2, <2>3, Asked
  <2>5. TypeOK'
        BY <1>0, <2>1, <2>4 DEF TypeOK, GuiPlaces, Loop
  <2>6. CredentialsAsTyped' /\ ClientOwned' /\ FrameFresh' /\ NoClient' /\ Stopping'
        BY <1>0 DEF CredentialsAsTyped, ClientOwned, FrameFresh, NoClient, Stopping, Op, Auth, Loop
  <2> QED BY <2>4, <2>5, <2>6 DEF IInv
<1>2. CASE state # "eLoggedIn"
  <2>1. TypeOK'
        BY <1>0, <1>2 DEF TypeOK, GuiPlaces, Loop
  <2>2. OnePending' /\ Buffers' /\ Kinds'
        BY <1>0, <1>2 DEF OnePending, Buffers, Kinds, Awaited, Running, Op
  <2>3. CredentialsAsTyped' /\ ClientOwned' /\ FrameFresh' /\ NoClient' /\ Stopping'
        BY <1>0, <1>2 DEF CredentialsAsTyped, ClientOwned, FrameFresh, NoClient, Stopping, Op, Auth, Loop
  <2>4. Unhurried'
        BY <1>0, <1>2 DEF Unhurried, Fits, Busy, Op, Loop
  <2> QED BY <2>1, <2>2, <2>3, <2>4 DEF IInv
<1> QED BY <1>1, <1>2

\* A user who is not hasty leaves nothing behind in the queue.
LEMMA RequestStopStep == IInv /\ RequestStop => IInv'
<1> SUFFICES ASSUME IInv, RequestStop PROVE IInv'
    OBVIOUS
<1> USE DEF RequestStop, Leave, Working, sharedVars, widgetVars, guiVars, workerVars
<1>0. TypeOK /\ OnePending /\ CredentialsAsTyped /\ ClientOwned /\ Buffers
       /\ FrameFresh /\ Kinds /\ NoClient /\ Unhurried /\ Stopping
      BY DEF IInv
<1>1. TypeOK'
      BY <1>0 DEF TypeOK, GuiPlaces, Loop, ClientState, Event, Ops
<1>2. OnePending' /\ Buffers' /\ Kinds'
      BY <1>0 DEF OnePending, Buffers, Kinds, FrameFresh, Awaited, Running, Op,
             Auth, Widgets, Lists
<1>3. CredentialsAsTyped' /\ ClientOwned' /\ FrameFresh' /\ NoClient' /\ Stopping'
      BY <1>0 DEF CredentialsAsTyped, ClientOwned, FrameFresh, NoClient, Stopping,
             OnePending, Kinds, Running, Op, Auth, Loop
<1>4. Unhurried'
      BY <1>0 DEF Unhurried, ClientOwned, NoClient, Kinds, FrameFresh, Stopping,
             Fits, Busy, Op, Auth, Widgets, Lists, Loop
<1> QED BY <1>1, <1>2, <1>3, <1>4 DEF IInv

\* From here on a worker that waits has the empty event to take.
LEMMA EnqueueLastStep == IInv /\ EnqueueLast => IInv'
<1> SUFFICES ASSUME IInv, EnqueueLast PROVE IInv'
    OBVIOUS
<1> USE DEF EnqueueLast, LastEvent, Plain, sharedVars, widgetVars, guiVars, workerVars
<1>0. TypeOK /\ OnePending /\ CredentialsAsTyped /\ ClientOwned /\ Buffers
       /\ FrameFresh /\ Kinds /\ NoClient /\ Unhurried /\ Stopping
      BY DEF IInv
<1>1. TypeOK'
      BY <1>0 DEF TypeOK, GuiPlaces, Loop, ClientState, Event, Ops
<1>2. OnePending' /\ Buffers' /\ Kinds'
      BY <1>0 DEF OnePending, Buffers, Kinds, FrameFresh, Awaited, Running, Op,
             Auth, Widgets, Lists
<1>3. CredentialsAsTyped' /\ ClientOwned' /\ FrameFresh' /\ NoClient' /\ Stopping'
      BY <1>0 DEF CredentialsAsTyped, ClientOwned, FrameFresh, NoClient, Stopping,
             OnePending, Kinds, Running, Op, Auth, Loop
<1>4. Unhurried'
      BY <1>0 DEF Unhurried, ClientOwned, NoClient, Kinds, FrameFresh, Stopping,
             Fits, Busy, Op, Auth, Widgets, Lists, Loop
<1> QED BY <1>1, <1>2, <1>3, <1>4 DEF IInv

\* Nothing that is left to run uses the widgets, unless the user was hasty.
LEMMA DestroyWidgetsStep == IInv /\ DestroyWidgets => IInv'
<1> SUFFICES ASSUME IInv, DestroyWidgets PROVE IInv'
    OBVIOUS
<1> USE DEF DestroyWidgets, sharedVars, widgetVars, guiVars, workerVars
<1>0. TypeOK /\ OnePending /\ CredentialsAsTyped /\ ClientOwned /\ Buffers
       /\ FrameFresh /\ Kinds /\ NoClient /\ Unhurried /\ Stopping
      BY DEF IInv
<1>1. TypeOK'
      BY <1>0 DEF TypeOK, GuiPlaces, Loop, ClientState, Event, Ops
<1>2. OnePending' /\ Buffers' /\ Kinds'
      BY <1>0 DEF OnePending, Buffers, Kinds, FrameFresh, Awaited, Running, Op,
             Auth, Widgets, Lists
<1>3. CredentialsAsTyped' /\ ClientOwned' /\ FrameFresh' /\ NoClient' /\ Stopping'
      BY <1>0 DEF CredentialsAsTyped, ClientOwned, FrameFresh, NoClient, Stopping,
             OnePending, Kinds, Running, Op, Auth, Loop
<1>4. Unhurried'
      BY <1>0 DEF Unhurried, ClientOwned, NoClient, Kinds, FrameFresh, Stopping,
             Fits, Busy, Op, Auth, Widgets, Lists, Loop
<1> QED BY <1>1, <1>2, <1>3, <1>4 DEF IInv

\* The client is destroyed when the worker is gone.
LEMMA JoinStep == IInv /\ Join => IInv'
<1> SUFFICES ASSUME IInv, Join PROVE IInv'
    OBVIOUS
<1> USE DEF Join, sharedVars, widgetVars, guiVars, workerVars
<1>0. TypeOK /\ OnePending /\ CredentialsAsTyped /\ ClientOwned /\ Buffers
       /\ FrameFresh /\ Kinds /\ NoClient /\ Unhurried /\ Stopping
      BY DEF IInv
<1>1. TypeOK'
      BY <1>0 DEF TypeOK, GuiPlaces, Loop, ClientState, Event, Ops
<1>2. OnePending' /\ Buffers' /\ Kinds'
      BY <1>0 DEF OnePending, Buffers, Kinds, FrameFresh, Awaited, Running, Op,
             Auth, Widgets, Lists
<1>3. CredentialsAsTyped' /\ ClientOwned' /\ FrameFresh' /\ NoClient' /\ Stopping'
      BY <1>0 DEF CredentialsAsTyped, ClientOwned, FrameFresh, NoClient, Stopping,
             OnePending, Kinds, Running, Op, Auth, Loop
<1>4. Unhurried'
      BY <1>0 DEF Unhurried, ClientOwned, NoClient, Kinds, FrameFresh, Stopping,
             Fits, Busy, Op, Auth, Widgets, Lists, Loop
<1> QED BY <1>1, <1>2, <1>3, <1>4 DEF IInv

-----------------------------------------------------------------------------
(* Steps of the worker. *)

\* An element of a concatenation is one of either sequence.
LEMMA Concatenation ==
  ASSUME NEW S, NEW a \in Seq(S), NEW b \in Seq(S)
  PROVE  /\ a \o b \in Seq(S)
         /\ \A i \in 1..Len(a \o b) :
              \/ i \in 1..Len(a) /\ (a \o b)[i] = a[i]
              \/ i - Len(a) \in 1..Len(b) /\ (a \o b)[i] = b[i - Len(a)]
OBVIOUS

\* What is left when the first element of a sequence is taken.
LEMMA Dequeued ==
  ASSUME NEW S, NEW q \in Seq(S), q # <<>>
  PROVE  /\ Head(q) \in S /\ Head(q) = q[1] /\ 1 \in 1..Len(q)
         /\ Tail(q) \in Seq(S) /\ Len(Tail(q)) = Len(q) - 1
         /\ \A i \in 1..Len(Tail(q)) : i + 1 \in 1..Len(q) /\ Tail(q)[i] = q[i + 1]
OBVIOUS

\* A worker that sees the stop ends.
LEMMA CheckStopStep == IInv /\ CheckStop => IInv'
<1> SUFFICES ASSUME IInv, CheckStop PROVE IInv'
    OBVIOUS
<1> USE DEF CheckStop, Plain, sharedVars, widgetVars, guiVars, workerVars
<1>0. TypeOK /\ OnePending /\ CredentialsAsTyped /\ ClientOwned /\ Buffers
       /\ FrameFresh /\ Kinds /\ NoClient /\ Unhurried /\ Stopping
      BY DEF IInv
<1>1. TypeOK'
      BY <1>0 DEF TypeOK, WorkerPlaces, ClientState, ListState, Event, Ops
<1>2. OnePending' /\ Buffers' /\ Kinds'
      BY <1>0 DEF OnePending, Buffers, Kinds, FrameFresh, Awaited, Running, Op,
             Auth, Widgets, Lists
<1>3. CredentialsAsTyped' /\ ClientOwned' /\ FrameFresh' /\ NoClient' /\ Stopping'
      BY <1>0 DEF CredentialsAsTyped, ClientOwned, FrameFresh, NoClient, Stopping,
             OnePending, Kinds, Running, Op, Auth, Loop
<1>4. Unhurried'
      BY <1>0 DEF Unhurried, ClientOwned, NoClient, Kinds, FrameFresh, Stopping,
             Fits, Busy, Op, Auth, Widgets, Lists, Loop
<1> QED BY <1>1, <1>2, <1>3, <1>4 DEF IInv

\* The event taken was fit for its queue, and is fit to run.
LEMMA DequeueStep == IInv /\ Dequeue => IInv'
<1> SUFFICES ASSUME IInv, Dequeue PROVE IInv'
    OBVIOUS
<1> USE DEF Dequeue, sharedVars, widgetVars, guiVars, workerVars
<1>0. TypeOK /\ OnePending /\ CredentialsAsTyped /\ ClientOwned /\ Buffers
       /\ FrameFresh /\ Kinds /\ NoClient /\ Unhurried /\ Stopping
      BY DEF IInv
<1>1. guiQ \in Seq(Event) /\ workQ \in Seq(Event) /\ Len(guiQ) \in Nat
      BY <1>0 DEF TypeOK
<1>2. ~Running
      BY DEF Running
<1>3. ClientOwned' /\ FrameFresh' /\ NoClient' /\ Stopping'
      BY <1>0 DEF ClientOwned, FrameFresh, NoClient, Stopping, Loop
<1>4. CASE guiQ # <<>> /\ event' = Head(guiQ) /\ guiQ' = Tail(guiQ) /\ workQ' = workQ
  <2>1. /\ event' = guiQ[1] /\ event' \in Event /\ 1 \in 1..Len(guiQ)
        /\ guiQ' \in Seq(Event) /\ Len(guiQ') = Len(guiQ) - 1
        /\ \A i \in 1..Len(guiQ') : i + 1 \in 1..Len(guiQ) /\ guiQ'[i] = guiQ[i + 1]
        BY <1>1, <1>4, Dequeued
  <2>2. TypeOK'
        BY <1>0, <1>4, <2>1 DEF TypeOK, WorkerPlaces
  <2>3. ASSUME guiQ[1].op \in Auth \cup {"connect"}
        PROVE  OnePending' /\ Kinds'
    <3>1. 1 \in Awaited /\ Running'
          BY <2>1, <2>3 DEF Awaited, Running, Op
    <3>2. Awaited' = {}
          BY <1>0, <1>1, <2>1, <3>1 DEF OnePending, Awaited
    <3>3. state = IF Op' = "connect" THEN "eConnecting" ELSE "eLoggingIn"
          BY <1>0, <2>1, <3>1 DEF OnePending, Kinds, Op
    <3> QED BY <1>0, <1>4, <2>1, <3>1, <3>2, <3>3 DEF OnePending, Kinds, Op
  <2>4. ASSUME guiQ[1].op \notin Auth \cup {"connect"}
        PROVE  OnePending' /\ Kinds'
    <3>1. 1 \notin Awaited /\ ~Running'
          BY <2>1, <2>4 DEF Awaited, Running, Op
    <3>2. \A i \in Awaited' : i + 1 \in Awaited /\ i \in Int /\ guiQ'[i] = guiQ[i + 1]
          BY <1>1, <2>1 DEF Awaited
    <3>3. \A i \in Awaited : i - 1 \in Awaited'
          BY <1>1, <2>1, <3>1 DEF Awaited
    <3>4. OnePending'
          BY <1>0, <1>2, <3>1, <3>2, <3>3 DEF OnePending
    <3>5. Kinds'
          BY <1>0, <1>4, <3>1, <3>2 DEF Kinds
    <3> QED BY <3>4, <3>5
  <2>5. Buffers' /\ CredentialsAsTyped'
        BY <1>0, <2>1 DEF Buffers, CredentialsAsTyped, Op
  <2>6. Unhurried'
    <3>1. \A e : Fits(e)' <=> Fits(e)
          BY DEF Fits
    <3>2. Fits(event)' <=> Fits(guiQ[1])
          BY <2>1 DEF Fits
    <3> QED BY <1>0, <1>4, <2>1, <3>1, <3>2 DEF Unhurried, Busy, Op
  <2> QED BY <1>3, <2>2, <2>3, <2>4, <2>5, <2>6 DEF IInv
<1>5. CASE workQ # <<>> /\ event' = Head(workQ) /\ workQ' = Tail(workQ) /\ guiQ' = guiQ
  <2>1. /\ event' = workQ[1] /\ event' \in Event /\ 1 \in 1..Len(workQ)
        /\ workQ' \in Seq(Event) /\ Len(workQ') = Len(workQ) - 1
        /\ \A i \in 1..Len(workQ') : i + 1 \in 1..Len(workQ) /\ workQ'[i] = workQ[i + 1]
        BY <1>1, <1>5, Dequeued
  <2>2. TypeOK'
        BY <1>0, <1>5, <2>1 DEF TypeOK, WorkerPlaces
  <2>3. Op' \in Lists
        BY <1>0, <2>1 DEF Kinds, Op
  <2>4. ~Running' /\ Op' \notin Auth
        BY <2>3 DEF Running, Lists, Auth
  <2>5. OnePending' /\ Kinds' /\ Buffers' /\ CredentialsAsTyped'
        BY <1>0, <1>2, <1>5, <2>1, <2>4 DEF OnePending, Kinds, Buffers, CredentialsAsTyped, Awaited
  <2>6. Unhurried'
    <3>1. \A e : Fits(e)' <=> Fits(e)
          BY DEF Fits
    <3>2. Fits(event)' <=> Fits(workQ[1])
          BY <2>1 DEF Fits
    <3> QED BY <1>0, <1>5, <2>1, <3>1, <3>2 DEF Unhurried, Busy, Op
  <2> QED BY <1>3, <2>2, <2>5, <2>6 DEF IInv
<1> QED BY <1>4, <1>5

\* An event that uses what is gone was left behind by a hasty user; it is none that would store a state.
LEMMA MisuseStep == IInv /\ Misuse => IInv'
<1> SUFFICES ASSUME IInv, Misuse PROVE IInv'
    OBVIOUS
<1> USE DEF Misuse, sharedVars, widgetVars, guiVars, workerVars
<1>0. TypeOK /\ OnePending /\ CredentialsAsTyped /\ ClientOwned /\ Buffers
       /\ FrameFresh /\ Kinds /\ NoClient /\ Unhurried /\ Stopping
      BY DEF IInv
<1>a. UsesPointer \/ UsesReference \/ UsesWidgets
      BY DEF Live
<1>b. worker \in {"run", "relogin", "request", "write", "publish", "poll", "enlist"}
      BY <1>a DEF UsesPointer, UsesReference, UsesWidgets
<1>1. hasty = "yes"
  <2> SUFFICES ASSUME hasty = "no" PROVE FALSE
      BY <1>0 DEF TypeOK
  <2>a. Op # "none"
        BY <1>0, <1>a, <1>b DEF Kinds, UsesPointer, UsesReference, UsesWidgets, Widgets, Lists, Auth
  <2>3. Fits(event) /\ Op # "none" /\ gui \in Loop
        BY <1>0, <1>b, <2>a DEF Unhurried, Busy
  <2>4. UsesPointer => client # 0
        BY <1>0, <2>3 DEF Fits, UsesPointer, Kinds, Op, Auth
  <2>5. UsesReference => client # 0 /\ event.obj = client
        BY <1>0, <2>3 DEF Fits, UsesReference, Kinds, Op, Widgets, Lists
  <2> QED BY <2>3, <2>4, <2>5 DEF Live, UsesWidgets, Loop
<1>2. TypeOK'
      BY <1>0 DEF TypeOK, WorkerPlaces
<1>3. ~Running
  <2> SUFFICES ASSUME Running PROVE FALSE
      OBVIOUS
  <2>1. worker \in {"run", "assigned", "relogin"} /\ Op \in Auth \cup {"connect"}
        BY <1>0 DEF Running, Kinds, Auth
  <2>2. state = IF Op = "connect" THEN "eConnecting" ELSE "eLoggingIn"
        BY <1>0, <2>1 DEF OnePending, Kinds
  <2>3. ~UsesReference /\ ~UsesWidgets /\ (UsesPointer => Op # "connect")
        BY <1>0, <2>1 DEF UsesReference, UsesWidgets, UsesPointer, Kinds, Auth, Widgets, Lists
  <2>4. gui # "ended"
        BY <1>0, <2>1 DEF Stopping
  <2> QED BY <1>0, <2>2, <2>3, <2>4 DEF Live, ClientOwned
<1>4. OnePending' /\ Buffers' /\ Kinds'
      BY <1>0, <1>3 DEF OnePending, Buffers, Kinds, Awaited, Running, Op
<1>5. CredentialsAsTyped' /\ ClientOwned' /\ FrameFresh' /\ NoClient' /\ Stopping'
      BY <1>0, <1>b DEF CredentialsAsTyped, ClientOwned, FrameFresh, NoClient, Stopping, Op, Auth, Loop
<1>6. Unhurried'
      BY <1>1 DEF Unhurried
<1> QED BY <1>2, <1>4, <1>5, <1>6 DEF IInv

\* The empty event does nothing.
LEMMA RunNoneStep == IInv /\ RunNone => IInv'
<1> SUFFICES ASSUME IInv, RunNone PROVE IInv'
    OBVIOUS
<1> USE DEF RunNone, sharedVars, widgetVars, guiVars, workerVars
<1>0. TypeOK /\ OnePending /\ CredentialsAsTyped /\ ClientOwned /\ Buffers
       /\ FrameFresh /\ Kinds /\ NoClient /\ Unhurried /\ Stopping
      BY DEF IInv
<1>1. TypeOK'
      BY <1>0 DEF TypeOK, WorkerPlaces, ClientState, ListState, Event, Ops
<1>2. OnePending' /\ Buffers' /\ Kinds'
      BY <1>0 DEF OnePending, Buffers, Kinds, FrameFresh, Awaited, Running, Op,
             Auth, Widgets, Lists
<1>3. CredentialsAsTyped' /\ ClientOwned' /\ FrameFresh' /\ NoClient' /\ Stopping'
      BY <1>0 DEF CredentialsAsTyped, ClientOwned, FrameFresh, NoClient, Stopping,
             OnePending, Kinds, Running, Op, Auth, Loop
<1>4. Unhurried'
      BY <1>0 DEF Unhurried, ClientOwned, NoClient, Kinds, FrameFresh, Stopping,
             Fits, Busy, Op, Auth, Widgets, Lists, Loop
<1> QED BY <1>1, <1>2, <1>3, <1>4 DEF IInv

\* While a connection is pending there is no client, so nothing refers to an older one.
LEMMA RunConnectStep == IInv /\ RunConnect => IInv'
<1> SUFFICES ASSUME IInv, RunConnect PROVE IInv'
    OBVIOUS
<1> USE DEF RunConnect, sharedVars, widgetVars, guiVars, workerVars
<1>0. TypeOK /\ OnePending /\ CredentialsAsTyped /\ ClientOwned /\ Buffers
       /\ FrameFresh /\ Kinds /\ NoClient /\ Unhurried /\ Stopping
      BY DEF IInv
<1>1. TypeOK'
      BY <1>0 DEF TypeOK, WorkerPlaces, ClientState
<1>2. Running /\ Awaited = {} /\ state = "eConnecting" /\ client = 0 /\ guiQ' = guiQ /\ workQ' = workQ
      BY <1>0 DEF Running, Op, OnePending, Kinds, NoClient
<1>3. Awaited' = {}
      BY <1>2 DEF Awaited
<1>4. OnePending' /\ Buffers' /\ Kinds'
      BY <1>0, <1>2, <1>3 DEF TypeOK, OnePending, Buffers, Kinds, Running, Op, Auth
<1>5. CredentialsAsTyped' /\ ClientOwned' /\ FrameFresh' /\ NoClient' /\ Stopping'
      BY <1>0, <1>2 DEF CredentialsAsTyped, ClientOwned, FrameFresh, NoClient, Stopping, Op, Auth, Loop
<1>6. Unhurried'
  <2>1. \A e : Fits(e) => e.op \notin Widgets \cup Auth \cup {"send", "lobby"}
        BY <1>2 DEF Fits
  <2>2. \A e : e.op \notin Widgets \cup Auth \cup {"send", "lobby"} => Fits(e)'
        BY DEF Fits
  <2>3. "connect" \notin Widgets \cup Auth \cup {"send", "lobby"} /\ event' = event
        BY DEF Widgets, Lists, Auth
  <2> QED BY <1>0, <1>2, <2>1, <2>2, <2>3 DEF Unhurried, Op, Loop, Busy, Fits
<1> QED BY <1>1, <1>4, <1>5, <1>6 DEF IInv

\* The connection's event ends with a client and a state that says so.
LEMMA ConnectedStep == IInv /\ Connected => IInv'
<1> SUFFICES ASSUME IInv, Connected PROVE IInv'
    OBVIOUS
<1> USE DEF Connected, sharedVars, widgetVars, guiVars, workerVars
<1>0. TypeOK /\ OnePending /\ CredentialsAsTyped /\ ClientOwned /\ Buffers
       /\ FrameFresh /\ Kinds /\ NoClient /\ Unhurried /\ Stopping
      BY DEF IInv
<1>1. TypeOK'
      BY <1>0 DEF TypeOK, WorkerPlaces, ClientState, ListState, Event, Ops
<1>2. OnePending' /\ Buffers' /\ Kinds'
      BY <1>0 DEF OnePending, Buffers, Kinds, FrameFresh, Awaited, Running, Op,
             Auth, Widgets, Lists
<1>3. CredentialsAsTyped' /\ ClientOwned' /\ FrameFresh' /\ NoClient' /\ Stopping'
      BY <1>0 DEF CredentialsAsTyped, ClientOwned, FrameFresh, NoClient, Stopping,
             OnePending, Kinds, Running, Op, Auth, Loop
<1>4. Unhurried'
      BY <1>0 DEF Unhurried, ClientOwned, NoClient, Kinds, FrameFresh, Stopping,
             Fits, Busy, Op, Auth, Widgets, Lists, Loop
<1> QED BY <1>1, <1>2, <1>3, <1>4 DEF IInv

\* Both outcomes of a login leave its state.
LEMMA LoginStep == IInv /\ Login => IInv'
<1> SUFFICES ASSUME IInv, Login PROVE IInv'
    OBVIOUS
<1> USE DEF Login, sharedVars, widgetVars, guiVars, workerVars, Live, UsesPointer,
           UsesReference, UsesWidgets
<1>0. TypeOK /\ OnePending /\ CredentialsAsTyped /\ ClientOwned /\ Buffers
       /\ FrameFresh /\ Kinds /\ NoClient /\ Unhurried /\ Stopping
      BY DEF IInv
<1>1. TypeOK'
      BY <1>0 DEF TypeOK, WorkerPlaces, ClientState, ListState, Event, Ops
<1>2. OnePending' /\ Buffers' /\ Kinds'
      BY <1>0 DEF OnePending, Buffers, Kinds, FrameFresh, Awaited, Running, Op,
             Auth, Widgets, Lists
<1>3. CredentialsAsTyped' /\ ClientOwned' /\ FrameFresh' /\ NoClient' /\ Stopping'
      BY <1>0 DEF CredentialsAsTyped, ClientOwned, FrameFresh, NoClient, Stopping,
             OnePending, Kinds, Running, Op, Auth, Loop
<1>4. Unhurried'
      BY <1>0 DEF Unhurried, ClientOwned, NoClient, Kinds, FrameFresh, Stopping,
             Fits, Busy, Op, Auth, Widgets, Lists, Loop
<1> QED BY <1>1, <1>2, <1>3, <1>4 DEF IInv

\* Either the account's login goes on, or its state is left.
LEMMA CreateAccountStep == IInv /\ CreateAccount => IInv'
<1> SUFFICES ASSUME IInv, CreateAccount PROVE IInv'
    OBVIOUS
<1> USE DEF CreateAccount, Refused, sharedVars, widgetVars, guiVars, workerVars, Live,
           UsesPointer, UsesReference, UsesWidgets
<1>0. TypeOK /\ OnePending /\ CredentialsAsTyped /\ ClientOwned /\ Buffers
       /\ FrameFresh /\ Kinds /\ NoClient /\ Unhurried /\ Stopping
      BY DEF IInv
<1>1. TypeOK'
      BY <1>0 DEF TypeOK, WorkerPlaces, ClientState, ListState, Event, Ops
<1>2. OnePending' /\ Buffers' /\ Kinds'
      BY <1>0 DEF OnePending, Buffers, Kinds, FrameFresh, Awaited, Running, Op,
             Auth, Widgets, Lists
<1>3. CredentialsAsTyped' /\ ClientOwned' /\ FrameFresh' /\ NoClient' /\ Stopping'
      BY <1>0 DEF CredentialsAsTyped, ClientOwned, FrameFresh, NoClient, Stopping,
             OnePending, Kinds, Running, Op, Auth, Loop
<1>4. Unhurried'
      BY <1>0 DEF Unhurried, ClientOwned, NoClient, Kinds, FrameFresh, Stopping,
             Fits, Busy, Op, Auth, Widgets, Lists, Loop
<1> QED BY <1>1, <1>2, <1>3, <1>4 DEF IInv

\* A lobby changes nothing but where the worker is.
LEMMA RunCreateLobbyStep == IInv /\ RunCreateLobby => IInv'
<1> SUFFICES ASSUME IInv, RunCreateLobby PROVE IInv'
    OBVIOUS
<1> USE DEF RunCreateLobby, sharedVars, widgetVars, guiVars, workerVars, Live, UsesPointer,
           UsesReference, UsesWidgets
<1>0. TypeOK /\ OnePending /\ CredentialsAsTyped /\ ClientOwned /\ Buffers
       /\ FrameFresh /\ Kinds /\ NoClient /\ Unhurried /\ Stopping
      BY DEF IInv
<1>1. TypeOK'
      BY <1>0 DEF TypeOK, WorkerPlaces, ClientState, ListState, Event, Ops
<1>2. OnePending' /\ Buffers' /\ Kinds'
      BY <1>0 DEF OnePending, Buffers, Kinds, FrameFresh, Awaited, Running, Op,
             Auth, Widgets, Lists
<1>3. CredentialsAsTyped' /\ ClientOwned' /\ FrameFresh' /\ NoClient' /\ Stopping'
      BY <1>0 DEF CredentialsAsTyped, ClientOwned, FrameFresh, NoClient, Stopping,
             OnePending, Kinds, Running, Op, Auth, Loop
<1>4. Unhurried'
      BY <1>0 DEF Unhurried, ClientOwned, NoClient, Kinds, FrameFresh, Stopping,
             Fits, Busy, Op, Auth, Widgets, Lists, Loop
<1> QED BY <1>1, <1>2, <1>3, <1>4 DEF IInv

\* A worker that still sees the session has a client.
LEMMA LoadStep == IInv /\ Load => IInv'
<1> SUFFICES ASSUME IInv, Load PROVE IInv'
    OBVIOUS
<1> USE DEF Load, sharedVars, widgetVars, guiVars, workerVars
<1>0. TypeOK /\ OnePending /\ CredentialsAsTyped /\ ClientOwned /\ Buffers
       /\ FrameFresh /\ Kinds /\ NoClient /\ Unhurried /\ Stopping
      BY DEF IInv
<1>1. TypeOK'
      BY <1>0 DEF TypeOK, WorkerPlaces, ClientState, ListState, Event, Ops
<1>2. OnePending' /\ Buffers' /\ Kinds'
      BY <1>0 DEF OnePending, Buffers, Kinds, FrameFresh, Awaited, Running, Op,
             Auth, Widgets, Lists
<1>3. CredentialsAsTyped' /\ ClientOwned' /\ FrameFresh' /\ NoClient' /\ Stopping'
      BY <1>0 DEF CredentialsAsTyped, ClientOwned, FrameFresh, NoClient, Stopping,
             OnePending, Kinds, Running, Op, Auth, Loop
<1>4. Unhurried'
      BY <1>0 DEF Unhurried, ClientOwned, NoClient, Kinds, FrameFresh, Stopping,
             Fits, Busy, Op, Auth, Widgets, Lists, Loop
<1> QED BY <1>1, <1>2, <1>3, <1>4 DEF IInv

\* The refreshes behind a login or a new lobby refer to the client there is.
LEMMA EnlistStep == IInv /\ Enlist => IInv'
<1> SUFFICES ASSUME IInv, Enlist PROVE IInv'
    OBVIOUS
<1> USE DEF Enlist, sharedVars, widgetVars, guiVars, workerVars
<1>0. TypeOK /\ OnePending /\ CredentialsAsTyped /\ ClientOwned /\ Buffers
       /\ FrameFresh /\ Kinds /\ NoClient /\ Unhurried /\ Stopping
      BY DEF IInv
<1> DEFINE more == IF Op = "lobby" THEN <<On("lobbies")>> ELSE <<On("sessions"), On("lobbies")>>
<1>1. client # 0 /\ client \in 0..MaxClients
      BY <1>0 DEF Live, UsesPointer, TypeOK
<1>2. On("sessions") \in Event /\ On("lobbies") \in Event
      BY <1>1 DEF On, Event, Ops, Widgets, Lists
<1>3. more \in Seq(Event) /\ \A i \in 1..Len(more) : more[i].op \in Lists /\ more[i].obj = client
      BY <1>2 DEF On, Lists
<1>4. workQ \in Seq(Event) /\ workQ' = workQ \o more
      BY <1>0 DEF TypeOK
<1> HIDE DEF more
<1>5. /\ workQ' \in Seq(Event)
      /\ \A i \in 1..Len(workQ') :
           \/ i \in 1..Len(workQ) /\ workQ'[i] = workQ[i]
           \/ i - Len(workQ) \in 1..Len(more) /\ workQ'[i] = more[i - Len(workQ)]
  <2>1. more \in Seq(Event)
        BY <1>3
  <2>2. /\ workQ \o more \in Seq(Event)
        /\ \A i \in 1..Len(workQ \o more) :
             \/ i \in 1..Len(workQ) /\ (workQ \o more)[i] = workQ[i]
             \/ i - Len(workQ) \in 1..Len(more) /\ (workQ \o more)[i] = more[i - Len(workQ)]
        BY <1>4, <2>1, Concatenation
  <2> QED BY <1>4, <2>2
<1>6. TypeOK'
      BY <1>0, <1>5 DEF TypeOK, WorkerPlaces
<1>7. OnePending' /\ Buffers' /\ Kinds'
      BY <1>0, <1>3, <1>5 DEF OnePending, Buffers, Kinds, Awaited, Running, Op
<1>8. CredentialsAsTyped' /\ ClientOwned' /\ FrameFresh' /\ NoClient' /\ Stopping'
      BY <1>0 DEF CredentialsAsTyped, ClientOwned, FrameFresh, NoClient, Stopping, Op, Auth, Loop
<1>9. Unhurried'
  <2>1. \A i \in 1..Len(more) : Fits(more[i])
        BY <1>1, <1>3 DEF Fits, Lists
  <2>2. hasty = "no" => gui \in Loop
    <3>1. Busy /\ (hasty = "no" /\ gui \notin Loop => Op = "none")
          BY <1>0 DEF Busy, Unhurried
    <3>2. Op # "none"
          BY <1>0 DEF Kinds, Auth
    <3> QED BY <3>1, <3>2
  <2>3. /\ worker' = "check" /\ gui' = gui /\ guiQ' = guiQ /\ hasty' = hasty
        /\ client' = client
        OBVIOUS
  <2>4. ASSUME NEW e, Fits(e) PROVE Fits(e)'
        BY <2>3, <2>4 DEF Fits
  <2>5. ASSUME hasty = "no", NEW i \in 1..Len(workQ') PROVE Fits(workQ'[i])
    <3>1. CASE i \in 1..Len(workQ) /\ workQ'[i] = workQ[i]
          BY <1>0, <2>5, <3>1 DEF Unhurried
    <3>2. CASE i - Len(workQ) \in 1..Len(more) /\ workQ'[i] = more[i - Len(workQ)]
          BY <2>1, <3>2
    <3> QED BY <1>5, <3>1, <3>2
  <2>6. hasty = "no" => \A i \in 1..Len(guiQ) : Fits(guiQ[i])
        BY <1>0 DEF Unhurried
  <2> HIDE DEF Enlist
  <2> QED BY <2>2, <2>3, <2>4, <2>5, <2>6 DEF Unhurried, Busy
<1> QED BY <1>6, <1>7, <1>8, <1>9 DEF IInv

\* A refresh says so before it asks.
LEMMA BeginRefreshStep == IInv /\ BeginRefresh => IInv'
<1> SUFFICES ASSUME IInv, BeginRefresh PROVE IInv'
    OBVIOUS
<1> USE DEF BeginRefresh, sharedVars, widgetVars, guiVars, workerVars, Live, UsesPointer,
           UsesReference, UsesWidgets
<1>0. TypeOK /\ OnePending /\ CredentialsAsTyped /\ ClientOwned /\ Buffers
       /\ FrameFresh /\ Kinds /\ NoClient /\ Unhurried /\ Stopping
      BY DEF IInv
<1>1. TypeOK'
      BY <1>0 DEF TypeOK, WorkerPlaces, ClientState, ListState, Event, Ops
<1>2. OnePending' /\ Buffers' /\ Kinds'
      BY <1>0 DEF OnePending, Buffers, Kinds, FrameFresh, Awaited, Running, Op,
             Auth, Widgets, Lists
<1>3. CredentialsAsTyped' /\ ClientOwned' /\ FrameFresh' /\ NoClient' /\ Stopping'
      BY <1>0 DEF CredentialsAsTyped, ClientOwned, FrameFresh, NoClient, Stopping,
             OnePending, Kinds, Running, Op, Auth, Loop
<1>4. Unhurried'
      BY <1>0 DEF Unhurried, ClientOwned, NoClient, Kinds, FrameFresh, Stopping,
             Fits, Busy, Op, Auth, Widgets, Lists, Loop
<1> QED BY <1>1, <1>2, <1>3, <1>4 DEF IInv

\* The answer, or the error, of a refresh.
LEMMA RefreshStep == IInv /\ Refresh => IInv'
<1> SUFFICES ASSUME IInv, Refresh PROVE IInv'
    OBVIOUS
<1> USE DEF Refresh, sharedVars, widgetVars, guiVars, workerVars, Live, UsesPointer,
           UsesReference, UsesWidgets
<1>0. TypeOK /\ OnePending /\ CredentialsAsTyped /\ ClientOwned /\ Buffers
       /\ FrameFresh /\ Kinds /\ NoClient /\ Unhurried /\ Stopping
      BY DEF IInv
<1>1. TypeOK'
      BY <1>0 DEF TypeOK, WorkerPlaces, ClientState, ListState, Event, Ops
<1>2. OnePending' /\ Buffers' /\ Kinds'
      BY <1>0 DEF OnePending, Buffers, Kinds, FrameFresh, Awaited, Running, Op,
             Auth, Widgets, Lists
<1>3. CredentialsAsTyped' /\ ClientOwned' /\ FrameFresh' /\ NoClient' /\ Stopping'
      BY <1>0 DEF CredentialsAsTyped, ClientOwned, FrameFresh, NoClient, Stopping,
             OnePending, Kinds, Running, Op, Auth, Loop
<1>4. Unhurried'
      BY <1>0 DEF Unhurried, ClientOwned, NoClient, Kinds, FrameFresh, Stopping,
             Fits, Busy, Op, Auth, Widgets, Lists, Loop
<1> QED BY <1>1, <1>2, <1>3, <1>4 DEF IInv

\* The requests of a message event.
LEMMA TalkStep == \A o \in {"send", "messages"} : IInv /\ Talk(o) => IInv'
<1> SUFFICES ASSUME NEW o \in {"send", "messages"}, IInv, Talk(o) PROVE IInv'
    OBVIOUS
<1> USE DEF Talk, sharedVars, widgetVars, guiVars, workerVars
<1>0. TypeOK /\ OnePending /\ CredentialsAsTyped /\ ClientOwned /\ Buffers
       /\ FrameFresh /\ Kinds /\ NoClient /\ Unhurried /\ Stopping
      BY DEF IInv
<1>1. TypeOK'
      BY <1>0 DEF TypeOK, WorkerPlaces
<1>2. ~Running /\ ~Running'
      BY DEF Running, Op, Auth
<1>3. OnePending' /\ Buffers' /\ Kinds'
      BY <1>0, <1>2 DEF OnePending, Buffers, Kinds, Awaited, Op, Widgets, Lists, Auth
<1>4. CredentialsAsTyped' /\ ClientOwned' /\ FrameFresh' /\ NoClient' /\ Stopping'
      BY <1>0 DEF CredentialsAsTyped, ClientOwned, FrameFresh, NoClient, Stopping, Op, Auth, Loop
<1>5. Unhurried'
      BY <1>0 DEF Unhurried, Fits, Busy, Op, Loop
<1> QED BY <1>1, <1>3, <1>4, <1>5 DEF IInv

\* The end of the spin.
LEMMA WriteStep == IInv /\ Write => IInv'
<1> SUFFICES ASSUME IInv, Write PROVE IInv'
    OBVIOUS
<1> USE DEF Write, sharedVars, widgetVars, guiVars, workerVars, Live, UsesPointer,
           UsesReference, UsesWidgets
<1>0. TypeOK /\ OnePending /\ CredentialsAsTyped /\ ClientOwned /\ Buffers
       /\ FrameFresh /\ Kinds /\ NoClient /\ Unhurried /\ Stopping
      BY DEF IInv
<1>1. TypeOK'
      BY <1>0 DEF TypeOK, WorkerPlaces, ClientState, ListState, Event, Ops
<1>2. OnePending' /\ Buffers' /\ Kinds'
      BY <1>0 DEF OnePending, Buffers, Kinds, FrameFresh, Awaited, Running, Op,
             Auth, Widgets, Lists
<1>3. CredentialsAsTyped' /\ ClientOwned' /\ FrameFresh' /\ NoClient' /\ Stopping'
      BY <1>0 DEF CredentialsAsTyped, ClientOwned, FrameFresh, NoClient, Stopping,
             OnePending, Kinds, Running, Op, Auth, Loop
<1>4. Unhurried'
      BY <1>0 DEF Unhurried, ClientOwned, NoClient, Kinds, FrameFresh, Stopping,
             Fits, Busy, Op, Auth, Widgets, Lists, Loop
<1> QED BY <1>1, <1>2, <1>3, <1>4 DEF IInv

\* The store of a mailbox, and the state of the list behind it.
LEMMA PublishStep == IInv /\ Publish => IInv'
<1> SUFFICES ASSUME IInv, Publish PROVE IInv'
    OBVIOUS
<1> USE DEF Publish, sharedVars, widgetVars, guiVars, workerVars
<1>0. TypeOK /\ OnePending /\ CredentialsAsTyped /\ ClientOwned /\ Buffers
       /\ FrameFresh /\ Kinds /\ NoClient /\ Unhurried /\ Stopping
      BY DEF IInv
<1>1. bit' \in [Widgets -> {"clear", "set"}] /\ list' \in [Lists -> ListState]
      BY <1>0 DEF TypeOK, AfterWrite, ListState
<1>2. TypeOK'
      BY <1>0, <1>1 DEF TypeOK, WorkerPlaces
<1>3. OnePending' /\ Buffers' /\ Kinds'
      BY <1>0 DEF OnePending, Buffers, Kinds, Awaited, Running, Op
<1>4. CredentialsAsTyped' /\ ClientOwned' /\ FrameFresh' /\ NoClient' /\ Stopping'
      BY <1>0 DEF CredentialsAsTyped, ClientOwned, FrameFresh, NoClient, Stopping, Op, Auth, Loop
<1>5. Unhurried'
      BY <1>0 DEF Unhurried, Fits, Busy, Op, Loop
<1> QED BY <1>2, <1>3, <1>4, <1>5 DEF IInv

\* The end of a send.
LEMMA PollStep == IInv /\ Poll => IInv'
<1> SUFFICES ASSUME IInv, Poll PROVE IInv'
    OBVIOUS
<1> USE DEF Poll, sharedVars, widgetVars, guiVars, workerVars, Live, UsesPointer,
           UsesReference, UsesWidgets
<1>0. TypeOK /\ OnePending /\ CredentialsAsTyped /\ ClientOwned /\ Buffers
       /\ FrameFresh /\ Kinds /\ NoClient /\ Unhurried /\ Stopping
      BY DEF IInv
<1>1. TypeOK'
      BY <1>0 DEF TypeOK, WorkerPlaces, ClientState, ListState, Event, Ops
<1>2. OnePending' /\ Buffers' /\ Kinds'
      BY <1>0 DEF OnePending, Buffers, Kinds, FrameFresh, Awaited, Running, Op,
             Auth, Widgets, Lists
<1>3. CredentialsAsTyped' /\ ClientOwned' /\ FrameFresh' /\ NoClient' /\ Stopping'
      BY <1>0 DEF CredentialsAsTyped, ClientOwned, FrameFresh, NoClient, Stopping,
             OnePending, Kinds, Running, Op, Auth, Loop
<1>4. Unhurried'
      BY <1>0 DEF Unhurried, ClientOwned, NoClient, Kinds, FrameFresh, Stopping,
             Fits, Busy, Op, Auth, Widgets, Lists, Loop
<1> QED BY <1>1, <1>2, <1>3, <1>4 DEF IInv

-----------------------------------------------------------------------------
(* Every step, and what follows. *)

\* Nothing changes in a stuttering step.
LEMMA Stutter == IInv /\ UNCHANGED vars => IInv'
<1> SUFFICES ASSUME IInv, UNCHANGED vars PROVE IInv'
    OBVIOUS
<1> USE DEF vars, sharedVars, widgetVars, guiVars, workerVars
<1>0. TypeOK /\ OnePending /\ CredentialsAsTyped /\ ClientOwned /\ Buffers
       /\ FrameFresh /\ Kinds /\ NoClient /\ Unhurried /\ Stopping
      BY DEF IInv
<1>1. TypeOK' /\ Unhurried' /\ Stopping'
      BY <1>0 DEF TypeOK, Unhurried, Stopping, Fits, Busy, Op
<1>2. OnePending' /\ Buffers' /\ Kinds'
      BY <1>0 DEF OnePending, Buffers, Kinds, Awaited, Running, Op
<1>3. CredentialsAsTyped' /\ ClientOwned' /\ FrameFresh' /\ NoClient'
      BY <1>0 DEF CredentialsAsTyped, ClientOwned, FrameFresh, NoClient, Op
<1> QED BY <1>1, <1>2, <1>3 DEF IInv

\* Every step preserves the invariant.
LEMMA Preserved == IInv /\ [Next]_vars => IInv'
BY Stutter, TalkStep, BeginFrameStep, DrawListsStep, EditStep, ConnectStep, AuthenticateStep,
   DisconnectStep, LogoutStep, CreateLobbyStep, NoButtonStep, DrawMessagesStep,
   RequestStopStep, EnqueueLastStep, DestroyWidgetsStep, JoinStep, MisuseStep,
   CheckStopStep, DequeueStep, RunNoneStep, RunConnectStep, ConnectedStep,
   LoginStep, CreateAccountStep, RunCreateLobbyStep, LoadStep, EnlistStep,
   BeginRefreshStep, RefreshStep, WriteStep, PublishStep, PollStep
   DEF Next, Shutdown, Step

\* The inductive invariant holds in every reachable state.
THEOREM Inductive == Spec => []IInv
BY Start, Preserved, PTL DEF Spec

\* Type correctness of the gui client.
THEOREM TypeCorrect == Spec => []TypeOK
<1>1. IInv => TypeOK
      BY DEF IInv
<1> QED BY <1>1, Inductive, PTL

\* At most one event that will change the state is ever pending, and the state
\* says which, although buttons act on a state read earlier in the frame.
THEOREM ChangesOneAtATime == Spec => []OnePending
<1>1. IInv => OnePending
      BY DEF IInv
<1> QED BY <1>1, Inductive, PTL

\* A login uses the user name and password that were there at the click.
THEOREM LogsInAsTyped == Spec => []CredentialsAsTyped
<1>1. IInv => CredentialsAsTyped
      BY DEF IInv
<1> QED BY <1>1, Inductive, PTL

\* The gui never follows a null pointer to the client, nor one being assigned.
THEOREM ClientThere == Spec => []ClientOwned
<1>1. IInv => ClientOwned
      BY DEF IInv
<1> QED BY <1>1, Inductive, PTL

\* Events use objects that exist unless the user left while some were pending.
THEOREM EventsRunLive == Spec => []EventsLive
<1>1. IInv => EventsLive
      BY DEF IInv, TypeOK, Unhurried, EventsLive
<1> QED BY <1>1, Inductive, PTL

\* The gui thread never joins a worker nothing will wake.
THEOREM WorkerWakes == Spec => []WorkerWoken
<1>1. IInv => WorkerWoken
      BY DEF IInv, Stopping, WorkerWoken
<1> QED BY <1>1, Inductive, PTL
=============================================================================
