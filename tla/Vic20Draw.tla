------------------------------ MODULE Vic20Draw ------------------------------
(* The frames of Vic20DrawContext (draw/src/next/vic20.cpp): a compute queue *)
(* fills one texture, mTarget, and the direct queue draws it, ordered by one *)
(* fence that both queues signal (draw/src/resources/compute.cpp).  The gui  *)
(* thread submits frame after frame without waiting for the device, except   *)
(* where CoreContext does: for the older frame of the slot it takes next,    *)
(* and for all of them around a resize and a change of device.               *)
(*                                                                           *)
(* A queue is what was submitted to it since the device was created and how  *)
(* much of that is executed.  The first command not executed may be running. *)
EXTENDS Integers, Sequences

CONSTANTS
  Length,     \* mSwapChainInfo.length; every program keeps it
  MaxFrames   \* bound: frames of one device

ASSUME Vic20Assumption == Length \in Nat \ {0} /\ MaxFrames \in Nat

VARIABLES
  pc,         \* where the gui thread stands in Vic20DrawContext::end
  n,          \* frames recorded on this device
  slot,       \* mCurrentBackBuffer
  last,       \* for each slot the frame whose present signals the slot's fence value
  compute,    \* commands submitted to mComputeQueue
  computed,   \* how many of them are executed
  direct,     \* commands submitted to mDirectQueue
  drawn,      \* how many of them are executed
  mFenceValue,
  fence       \* completed value of mComputeFence

vars == <<pc, n, slot, last, compute, computed, direct, drawn, mFenceValue, fence>>
cpu == <<pc, n, slot, last, mFenceValue>>
computeQueue == <<compute, computed>>
directQueue == <<direct, drawn>>

Slots == 0 .. Length - 1

-----------------------------------------------------------------------------
(* Commands.  A dispatch reads one element of the character map and one of   *)
(* the screen; its command list lives in the allocator of its slot.          *)

CharacterElement(index) == index        \* mCharacterMap.elementAddress(index)
ScreenElement(index) == 0               \* mScreenBuffer.deviceAddress()

Dispatch(frame, index) ==
  [op |-> "dispatch", arg |-> frame, slot |-> index,
   characters |-> CharacterElement(index), screen |-> ScreenElement(index)]
Draw(frame) == [op |-> "draw", arg |-> frame]
Present(frame) == [op |-> "present", arg |-> frame]
Signal(value) == [op |-> "signal", arg |-> value]
Wait(value) == [op |-> "wait", arg |-> value]

\* The two halves of syncDeviceTimeline.
Signals(q, value) == Append(q, Signal(value))

Waits_Skipped(q, value) == q
Waits_Previous(q, value) == Append(q, Wait(value - 1))
Waits(q, value) == Append(q, Wait(value))

NextValue_Same == mFenceValue
NextValue == mFenceValue + 1

Completed_After(value) == fence > value
Completed(value) == fence >= value

Pending(q, done) == {q[k] : k \in done + 1 .. Len(q)}
Dispatches == {c \in Pending(compute, computed) : c.op = "dispatch"}
Running(q, done, op) == done < Len(q) /\ q[done + 1].op = op

\* mTarget holds the picture of a frame: it is the last one dispatched.
Shows(frame) ==
  \E k \in 1 .. computed :
    /\ compute[k].op = "dispatch" /\ compute[k].arg = frame
    /\ \A j \in k + 1 .. computed : compute[j].op # "dispatch"

\* mPresentFence has reached the value signalled behind a frame's present.
Presented(frame) == \E k \in 1 .. drawn : direct[k].op = "present" /\ direct[k].arg = frame

-----------------------------------------------------------------------------
(* The gui thread.                                                           *)

Init ==
  /\ pc = "record" /\ n = 0
  /\ slot \in Slots /\ last = [s \in Slots |-> 1]
  /\ compute = <<>> /\ computed = 0
  /\ direct = <<>> /\ drawn = 0
  /\ mFenceValue = 0 /\ fence = 0

\* mCompute->begin(index) resets the allocator of the slot, record writes its
\* elements of the buffers and records the dispatch, mCompute->end executes it.
RecordCompute ==
  /\ pc = "record" /\ n < MaxFrames
  /\ n' = n + 1
  /\ compute' = Append(compute, Dispatch(n + 1, slot))
  /\ pc' = "block"
  /\ UNCHANGED <<slot, last, computed, directQueue, mFenceValue, fence>>

\* mCompute->blockQueueUntil(mDirectQueue)
BlockQueueUntil ==
  /\ pc = "block"
  /\ mFenceValue' = NextValue
  /\ compute' = Signals(compute, mFenceValue')
  /\ direct' = Waits(direct, mFenceValue')
  /\ pc' = "draw"
  /\ UNCHANGED <<n, slot, last, computed, drawn, fence>>

\* endCommands, executeCommands: the list that draws mTarget.
ExecuteCommands ==
  /\ pc = "draw"
  /\ direct' = Append(direct, Draw(n))
  /\ pc' = "back"
  /\ UNCHANGED <<n, slot, last, computeQueue, drawn, mFenceValue, fence>>

\* mCompute->waitOnQueue(mDirectQueue)
WaitOnQueue ==
  /\ pc = "back"
  /\ mFenceValue' = NextValue
  /\ direct' = Signals(direct, mFenceValue')
  /\ compute' = Waits(compute, mFenceValue')
  /\ pc' = "present"
  /\ UNCHANGED <<n, slot, last, computed, drawn, fence>>

\* presentSurface up to the wait: the swap chain chooses the next slot.
PresentSurface ==
  /\ pc = "present"
  /\ direct' = Append(direct, Present(n))
  /\ slot' \in Slots
  /\ pc' = "wait"
  /\ UNCHANGED <<n, last, computeQueue, drawn, mFenceValue, fence>>

\* advanceFrame: the wait for the fence value of the slot, which then gets the value
\* the next present will signal.  A back buffer that is new has that value from the
\* start, so that the second frame waits for the first.
MayAdvance_Early == Presented(last[slot]) \/ Presented(last[slot] - 1)
MayAdvance == Presented(last[slot])
AdvanceFrame ==
  /\ pc = "wait" /\ MayAdvance
  /\ last' = [last EXCEPT ![slot] = n + 1]
  /\ pc' = "record"
  /\ UNCHANGED <<n, slot, computeQueue, directQueue, mFenceValue, fence>>

Flushed == drawn = Len(direct)

\* updateSwapChain between two frames: flushDevice, then new back buffers and, in
\* ComputeContext::update, new allocators.
UpdateSwapChain ==
  /\ pc = "record" /\ Flushed
  /\ slot' \in Slots
  /\ last' = [s \in Slots |-> n + 1]
  /\ UNCHANGED <<pc, n, computeQueue, directQueue, mFenceValue, fence>>

\* setAdapter and ~CoreContext: flushDevice, then every resource is reset, in the
\* order of an unordered_set: ComputeContext waits for its queue, Vic20Display
\* gives up the target and the buffers, before or after that.
ResetResources ==
  /\ pc = "record" /\ Flushed
  /\ mFenceValue' = NextValue
  /\ compute' = Signals(compute, mFenceValue')
  /\ pc' = "reset"
  /\ UNCHANGED <<n, slot, last, computed, directQueue, fence>>

\* The wait of ComputeContext::reset has ended; the device is created anew ...
CreateResources ==
  /\ pc = "reset" /\ Completed(mFenceValue)
  /\ pc' = "record" /\ n' = 0
  /\ slot' \in Slots /\ last' = [s \in Slots |-> 1]
  /\ compute' = <<>> /\ computed' = 0
  /\ direct' = <<>> /\ drawn' = 0
  /\ mFenceValue' = 0 /\ fence' = 0

\* ... or the context is gone.
Destroyed ==
  /\ pc = "reset" /\ Completed(mFenceValue)
  /\ pc' = "done"
  /\ UNCHANGED <<n, slot, last, computeQueue, directQueue, mFenceValue, fence>>

-----------------------------------------------------------------------------
(* The device.                                                               *)

MayExecute(command) == command.op = "wait" => fence >= command.arg
Signalled(command) == IF command.op = "signal" THEN command.arg ELSE fence

ExecuteCompute ==
  /\ computed < Len(compute) /\ MayExecute(compute[computed + 1])
  /\ computed' = computed + 1
  /\ fence' = Signalled(compute[computed + 1])
  /\ UNCHANGED <<cpu, compute, directQueue>>

ExecuteDirect ==
  /\ drawn < Len(direct) /\ MayExecute(direct[drawn + 1])
  /\ drawn' = drawn + 1
  /\ fence' = Signalled(direct[drawn + 1])
  /\ UNCHANGED <<cpu, computeQueue, direct>>

-----------------------------------------------------------------------------
Gui ==
  \/ RecordCompute \/ BlockQueueUntil \/ ExecuteCommands \/ WaitOnQueue
  \/ PresentSurface \/ AdvanceFrame \/ UpdateSwapChain \/ ResetResources
  \/ CreateResources \/ Destroyed
Next == Gui \/ ExecuteCompute \/ ExecuteDirect

\* The device executes what it is given, and a wait of the gui thread ends once
\* it may; nothing makes the program draw, resize, change the device or end.
Fairness ==
  /\ WF_vars(ExecuteCompute) /\ WF_vars(ExecuteDirect)
  /\ WF_vars(BlockQueueUntil) /\ WF_vars(ExecuteCommands) /\ WF_vars(WaitOnQueue)
  /\ WF_vars(PresentSurface) /\ WF_vars(AdvanceFrame)
  /\ WF_vars(CreateResources \/ Destroyed)

Spec == Init /\ [][Next]_vars /\ Fairness

-----------------------------------------------------------------------------
Commands ==
  [op : {"draw", "present", "signal", "wait"}, arg : Nat]
    \cup [op : {"dispatch"}, arg : Nat, slot : Slots, characters : Slots, screen : {0}]

TypeOK ==
  /\ pc \in {"record", "block", "draw", "back", "present", "wait", "reset", "done"}
  /\ n \in Nat /\ slot \in Slots /\ last \in [Slots -> Nat \ {0}]
  /\ compute \in Seq(Commands) /\ computed \in 0 .. Len(compute)
  /\ direct \in Seq(Commands) /\ drawn \in 0 .. Len(direct)
  /\ mFenceValue \in Nat /\ fence \in Nat


\* The two queues are never at the target at the same time, although nothing but
\* the fence orders them (vic20.cpp:36 and :100).
TargetExclusive ==
  ~(Running(compute, computed, "dispatch") /\ Running(direct, drawn, "draw"))

\* What the direct queue draws is the picture of its own frame: the dispatch
\* before it is executed, the next one not (vic20.cpp:35, "block the direct queue
\* until all compute work is done").
DrawsOwnPicture ==
  Running(direct, drawn, "draw") => Shows(direct[drawn + 1].arg)

\* Where the thread resets the allocator of its slot and writes the slot's
\* character map, no dispatch that uses them is unfinished, and where it gives
\* all of them and the target up, none at all: the compute queue is not waited
\* for, the direct queue is (compute.cpp:50 and :54, vic20.cpp:143).
SlotIdle ==
  /\ pc = "record" => \A c \in Dispatches : c.slot # slot /\ c.characters # slot
  /\ (pc = "record" /\ Flushed) \/ pc \in {"reset", "done"} => Dispatches = {}

\* A signal never takes the fence back: the queues signal it in turn
\* (compute.cpp:63-69).
FenceIncreases ==
  /\ Running(compute, computed, "signal") => compute[computed + 1].arg > fence
  /\ Running(direct, drawn, "signal") => direct[drawn + 1].arg > fence

\* The waits of the thread for the two queues, which wait for each other, end
\* (core.cpp:303, compute.cpp:39).
WaitsEnd == pc \in {"wait", "reset"} ~> pc \in {"record", "done"}

\* The inductive invariant.  Frame i is three commands of the compute queue and
\* four of the direct queue, at places and with fence values that follow from i
\* (Submitted, ComputeLog, DirectLog); how far the queues are decides the fence
\* (FenceFollows), and its values let neither get ahead (TakeTurns).
Submitted ==
  /\ pc = "record" => Len(compute) = 3 * n /\ Len(direct) = 4 * n /\ mFenceValue = 2 * n
  /\ pc = "block" =>
       n > 0 /\ Len(compute) = 3 * n - 2 /\ Len(direct) = 4 * n - 4 /\ mFenceValue = 2 * n - 2
  /\ pc = "draw" =>
       n > 0 /\ Len(compute) = 3 * n - 1 /\ Len(direct) = 4 * n - 3 /\ mFenceValue = 2 * n - 1
  /\ pc = "back" =>
       n > 0 /\ Len(compute) = 3 * n - 1 /\ Len(direct) = 4 * n - 2 /\ mFenceValue = 2 * n - 1
  /\ pc = "present" =>
       n > 0 /\ Len(compute) = 3 * n /\ Len(direct) = 4 * n - 1 /\ mFenceValue = 2 * n
  /\ pc = "wait" =>
       n > 0 /\ Len(compute) = 3 * n /\ Len(direct) = 4 * n /\ mFenceValue = 2 * n
  /\ pc \in {"reset", "done"} =>
       /\ Len(compute) = 3 * n + 1 /\ Len(direct) = 4 * n /\ mFenceValue = 2 * n + 1
       /\ drawn = 4 * n
ComputeFrame(i) ==
  /\ 3 * i - 2 <= Len(compute) =>
       /\ compute[3 * i - 2].op = "dispatch" /\ compute[3 * i - 2].arg = i
       /\ compute[3 * i - 2].slot \in Slots
       /\ compute[3 * i - 2].characters = compute[3 * i - 2].slot
  /\ 3 * i - 1 <= Len(compute) => compute[3 * i - 1] = Signal(2 * i - 1)
  /\ 3 * i <= Len(compute) => compute[3 * i] = Wait(2 * i)
ComputeLog ==
  /\ \A i \in 1 .. n : ComputeFrame(i)
  /\ Len(compute) = 3 * n + 1 => compute[3 * n + 1] = Signal(2 * n + 1)
DirectFrame(i) ==
  /\ 4 * i - 3 <= Len(direct) => direct[4 * i - 3] = Wait(2 * i - 1)
  /\ 4 * i - 2 <= Len(direct) => direct[4 * i - 2] = Draw(i)
  /\ 4 * i - 1 <= Len(direct) => direct[4 * i - 1] = Signal(2 * i)
  /\ 4 * i <= Len(direct) => direct[4 * i] = Present(i)
DirectLog == \A i \in 1 .. n : DirectFrame(i)
FenceFollows ==
  /\ \A i \in 1 .. n :
       /\ fence >= 2 * i - 1 <=> computed >= 3 * i - 1
       /\ fence >= 2 * i <=> drawn >= 4 * i - 1
  /\ computed <= 3 * n => fence <= 2 * n
TakeTurns ==
  \A i \in 1 .. n :
    /\ computed >= 3 * i => drawn >= 4 * i - 1
    /\ drawn >= 4 * i - 3 => computed >= 3 * i - 1
SlotsKept ==
  /\ pc = "record" => last[slot] = n + 1
  /\ \A i \in 1 .. n :
       /\ i <= last[compute[3 * i - 2].slot]
       /\ pc = "record" /\ compute[3 * i - 2].slot = slot => computed >= 3 * i - 2
IInv ==
  /\ TypeOK /\ Submitted /\ ComputeLog /\ DirectLog
  /\ FenceFollows /\ TakeTurns /\ SlotsKept

\* The argument of the last command of a kind that a queue has executed.
Latest(q, done, op) ==
  LET places == {k \in 1 .. done : q[k].op = op}
  IN  IF places = {} THEN 0 ELSE q[CHOOSE k \in places : \A j \in places : j <= k].arg

\* The two queues hand mTarget to each other, frame by frame: no picture is lost
\* or drawn twice, however far the thread is ahead of the device, and whenever
\* the device is replaced (vic20.cpp:30-105).
Target == INSTANCE Handoff WITH
  picture <- Latest(compute, computed, "dispatch"),
  shown   <- Latest(direct, drawn, "draw"),
  use     <- IF Running(compute, computed, "dispatch") THEN "fill"
             ELSE IF Running(direct, drawn, "draw") THEN "draw" ELSE "none"
ImplementsHandoff == Target!Spec

\* Neither queue is stuck: while anything is submitted and not executed, one of
\* them may execute its next command, so that nothing the thread waits for is
\* out of reach, wherever it stands in its frame.
NoStall ==
  computed < Len(compute) \/ drawn < Len(direct) =>
    \/ computed < Len(compute) /\ MayExecute(compute[computed + 1])
    \/ drawn < Len(direct) /\ MayExecute(direct[drawn + 1])

\* What the thread waits for is submitted: the present of the frame that used
\* its next slot last, or the signal of the compute queue.
WaitSubmitted ==
  /\ pc = "wait" => \E k \in 1 .. Len(direct) : direct[k] = Present(last[slot])
  /\ pc = "reset" => \E k \in 1 .. Len(compute) : compute[k] = Signal(mFenceValue)

\* resource.cpp:55 has the screen "buffered per frame": the element the thread
\* writes is not one a dispatch of an older frame still reads.
ScreenStable == pc = "record" => \A c \in Dispatches : c.screen # slot
=============================================================================
