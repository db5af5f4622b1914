----------------------------- MODULE CoreContext -----------------------------
(***************************************************************************)
(* The render context (render/src/next/context/core.cpp): one thread       *)
(* records frames, hands them to the gpu's direct queue and presents them; *)
(* a fence tells it how far the gpu is.  Each back buffer has a command    *)
(* allocator, a render target view and a fence value of its own.  Between  *)
(* frames the swap chain may be resized, the context moved to another      *)
(* adapter, or destroyed, and the device may be removed at any time.       *)
(*                                                                         *)
(* A batch is what the thread executes between two signals of the fence.   *)
(* The gpu takes batches in order; it is done with a batch when the signal *)
(* behind it has been executed.  The swap chain is the virtual one: the    *)
(* window's has the same indices and no commands of its own.               *)
(***************************************************************************)
EXTENDS Integers, Sequences

CONSTANTS
  MinLength, MaxLength,  \* SwapChainLimits
  ExtraRtvs,             \* ContextConfig::rtvHeapSize
  Adapters, NoDevice,
  MaxSignals             \* bound: signals of one fence

ASSUME CoreContextAssumption ==
  /\ MinLength \in Nat /\ MaxLength \in Nat /\ 2 <= MinLength /\ MinLength <= MaxLength
  /\ ExtraRtvs \in Nat /\ MaxSignals \in Nat
  /\ NoDevice \notin Adapters

VARIABLES
  phase,    \* where the thread is, see Phases
  request,  \* what the flush is for
  current,  \* the local of advanceFrame and flushDevice
  device,   \* mDevice.luid()
  health,   \* "ok", or "removed" when the device was removed
  length,   \* mBackBuffers.size()
  cur,      \* mCurrentBackBuffer
  value,    \* BackBuffer::value
  rtvs,     \* handles of mRtvHeap the context holds
  mIndex,   \* the swap chain's current surface
  sig,      \* the values mDirectQueue was told to signal, in order
  done,     \* how many of them the gpu has signalled
  use,      \* mDirectCommandSet: last batch recorded on an allocator, 0 if none
  copies    \* the same of the swap chain's mCommandList

cpuVars == <<phase, request, current>>
deviceVars == <<device, health>>
bufferVars == <<length, cur, value, rtvs>>
chainVars == <<mIndex, use, copies>>
gpuVars == <<sig, done>>
vars == <<cpuVars, deviceVars, bufferVars, chainVars, gpuVars>>

\* "advance" and "flush" are the waits of advanceFrame and flushDevice.  In
\* "broken" a resize or a change of adapter threw half way: mBackBuffers is
\* empty, and every operation, the destructor included, reads past its end; or
\* the command lists are missing or the old ones.  No program goes on from there.
Phases == {"idle", "recording", "advance", "flush", "flushed", "broken", "destroyed"}
Lengths == MinLength..MaxLength
Requests == [op : {"resize"}, to : Lengths] \cup [op : {"adapter"}, to : Adapters]
              \cup {[op |-> "destroy"]}

Lost == health = "removed"
Completed == IF done = 0 THEN 0 ELSE sig[done]
\* A removed device completes every fence.
Reached(v) == Lost \/ Completed >= v
Finished(batch) == Lost \/ batch <= done

Fresh(n, v) == [i \in 0..(n - 1) |-> v]
RtvHeapSize == MaxLength + ExtraRtvs

\* createBackBuffers and setFrameIndex on the surfaces of a new or resized swap
\* chain, whose first one is the current one.
CreateBuffers(n, initialValue, held) ==
  /\ held + n <= RtvHeapSize
  /\ length' = n /\ cur' = 0 /\ mIndex' = 0
  /\ value' = Fresh(n, initialValue)
  /\ rtvs' = held + n
  /\ copies' = Fresh(n, 0)
\* A throw ahead of that.
NoBuffers(held) ==
  /\ length' = 0 /\ value' = Fresh(0, 0) /\ rtvs' = held
  /\ UNCHANGED <<cur, mIndex, copies>>

Init ==
  /\ phase = "idle" /\ request = [op |-> "destroy"] /\ current = 0
  /\ device \in Adapters /\ health = "ok"
  /\ length \in Lengths /\ cur = 0 /\ mIndex = 0
  /\ value = Fresh(length, 1) /\ rtvs = length
  /\ use = Fresh(length, 0) /\ copies = Fresh(length, 0)
  /\ sig = <<>> /\ done = 0

Signal(v) == Len(sig) < MaxSignals /\ sig' = Append(sig, v)
Next1(i) == IF i + 1 = length THEN 0 ELSE i + 1

\* What a buffer's fence value becomes when its wait is over.
NextValue_Same == current
NextValue == current + 1
MayAdvance_Early == Reached(value[cur] - 1)
MayAdvance_Late == Reached(current + 1)
MayAdvance == Reached(value[cur])
MayRelease_Early == Reached(current - 1)
MayRelease == Reached(current)

\* The reset of the current buffer's allocator opens the command list.
Begin ==
  /\ phase = "idle" /\ phase' = "recording"
  /\ UNCHANGED <<request, current, deviceVars, bufferVars, chainVars, gpuVars>>

\* end, or endCommands, executeCommands and presentSurface, up to the wait.
\* VirtualSwapChain::present executes its copy and resets the allocator of the
\* next surface.
End ==
  /\ phase = "recording" /\ ~Lost
  /\ Signal(value[cur])
  /\ current' = value[cur]
  /\ use' = [use EXCEPT ![cur] = Len(sig) + 1]
  /\ copies' = [copies EXCEPT ![mIndex] = Len(sig) + 1]
  /\ mIndex' = Next1(mIndex)
  /\ cur' = mIndex'
  /\ phase' = "advance"
  /\ UNCHANGED <<request, deviceVars, length, value, rtvs, done>>

\* Present or the signal throws; the virtual swap chain has moved on by then.
EndLost ==
  /\ phase = "recording" /\ Lost
  /\ mIndex' \in {mIndex, Next1(mIndex)}
  /\ phase' = "idle"
  /\ UNCHANGED <<request, current, deviceVars, bufferVars, use, copies, gpuVars>>

FinishAdvance ==
  /\ phase = "advance" /\ MayAdvance
  /\ value' = [value EXCEPT ![cur] = NextValue]
  /\ phase' = "idle"
  /\ UNCHANGED <<request, current, deviceVars, length, cur, rtvs, chainVars, gpuVars>>

\* flushDevice up to the wait, for updateSwapChain, setAdapter or ~CoreContext.
Flush(r) ==
  /\ phase = "idle" /\ ~Lost
  /\ Signal(value[cur])
  /\ current' = value[cur]
  /\ request' = r
  /\ phase' = "flush"
  /\ UNCHANGED <<deviceVars, bufferVars, chainVars, done>>

\* The signal throws: only flushDeviceForCleanup goes on.
FlushLost(r) ==
  /\ phase = "idle" /\ Lost
  /\ request' = r
  /\ phase' = IF r.op = "resize" THEN "idle" ELSE "flushed"
  /\ UNCHANGED <<current, deviceVars, bufferVars, chainVars, gpuVars>>

FinishFlush ==
  /\ phase = "flush" /\ MayRelease
  /\ value' = [value EXCEPT ![cur] = NextValue]
  /\ phase' = "flushed"
  /\ UNCHANGED <<request, current, deviceVars, length, cur, rtvs, chainVars, gpuVars>>

\* What the handles count after resetBackBuffers.
HeldAfterReset_Kept == rtvs
HeldAfterReset == rtvs - length

UpdateSwapChain ==
  /\ phase = "flushed" /\ request.op = "resize"
  /\ CreateBuffers(request.to, value[cur], HeldAfterReset)
  /\ use' = Fresh(request.to, 0)
  /\ phase' = "idle"
  /\ UNCHANGED <<request, current, deviceVars, gpuVars>>

Break == phase' = "broken" /\ UNCHANGED <<request, current>>

\* checkSurfaceLimits or the swap chain throws behind resetBackBuffers, or
\* createDirectCommandList behind createBackBuffers, with the old lists in place.
UpdateSwapChainFails ==
  /\ phase = "flushed" /\ request.op = "resize"
  /\ \/ NoBuffers(HeldAfterReset)
     \/ CreateBuffers(request.to, value[cur], HeldAfterReset)
  /\ Break
  /\ UNCHANGED <<use, deviceVars, gpuVars>>

\* createNewDevice and createDeviceState, with a fence and heaps of their own.
SetAdapter ==
  /\ phase = "flushed" /\ request.op = "adapter"
  /\ device' = request.to /\ health' = "ok"
  /\ CreateBuffers(length, 1, 0) /\ use' = Fresh(length, 0)
  /\ sig' = <<>> /\ done' = 0
  /\ phase' = "idle"
  /\ UNCHANGED <<request, current>>

\* resetDeviceResources: the fence and the command lists go too.
ResetDevice ==
  /\ NoBuffers(0) /\ use' = Fresh(0, 0)
  /\ sig' = <<>> /\ done' = 0
  /\ health' = "ok"

\* recreateCurrentDevice resets everything before it asks for the device.
RecreateFails ==
  /\ phase = "flushed" /\ request.op = "adapter" /\ request.to = device
  /\ ResetDevice /\ device' = NoDevice
  /\ Break

MoveFails_ResetFirst ==
  /\ phase = "flushed" /\ request.op = "adapter" /\ request.to # device
  /\ ResetDevice /\ device' = NoDevice
  /\ Break
\* moveToNewDevice has the device before it resets anything.
MoveFails ==
  /\ phase = "flushed" /\ request.op = "adapter" /\ request.to # device
  /\ phase' = "idle"
  /\ UNCHANGED <<request, current, deviceVars, bufferVars, chainVars, gpuVars>>

\* createDeviceState throws on the device just created: ahead of
\* createBackBuffers, or behind it, without the command lists or with them.
CreateStateFails ==
  /\ phase = "flushed" /\ request.op = "adapter"
  /\ \/ ResetDevice
     \/ /\ CreateBuffers(length, 1, 0) /\ use' \in {Fresh(0, 0), Fresh(length, 0)}
        /\ sig' = <<>> /\ done' = 0
        /\ health' = "ok"
  /\ device' = request.to
  /\ Break

Destroy ==
  /\ phase = "flushed" /\ request.op = "destroy"
  /\ phase' = "destroyed"
  /\ UNCHANGED <<request, current, deviceVars, bufferVars, chainVars, gpuVars>>

\* External: the driver, or removeDevice.
RemoveDevice ==
  /\ phase \notin {"broken", "destroyed"} /\ ~Lost
  /\ health' = "removed"
  /\ UNCHANGED <<cpuVars, device, bufferVars, chainVars, gpuVars>>

\* External: the direct queue finishes a batch and signals.
GpuStep ==
  /\ ~Lost /\ done < Len(sig)
  /\ done' = done + 1
  /\ UNCHANGED <<cpuVars, deviceVars, bufferVars, chainVars, sig>>

Next ==
  \/ Begin \/ End \/ EndLost \/ FinishAdvance \/ FinishFlush
  \/ \E r \in Requests : Flush(r) \/ FlushLost(r)
  \/ UpdateSwapChain \/ UpdateSwapChainFails
  \/ SetAdapter \/ RecreateFails \/ MoveFails \/ CreateStateFails
  \/ Destroy \/ RemoveDevice \/ GpuStep

\* The gpu works off what it was given; a wait whose value is reached returns.
Fairness == WF_vars(GpuStep) /\ WF_vars(FinishAdvance) /\ WF_vars(FinishFlush)
Spec == Init /\ [][Next]_vars /\ Fairness

-----------------------------------------------------------------------------
Alive == phase \notin {"broken", "destroyed"}

TypeOK ==
  /\ phase \in Phases /\ request \in Requests /\ current \in Nat
  /\ device \in Adapters \cup {NoDevice} /\ health \in {"ok", "removed"}
  /\ length \in Nat /\ cur \in Nat /\ mIndex \in Nat /\ rtvs \in Nat
  /\ value \in [0..(length - 1) -> Nat]
  /\ sig \in Seq(Nat) /\ done \in 0..Len(sig)
  /\ Alive => /\ length \in Lengths /\ cur < length /\ mIndex < length
              /\ use \in [0..(length - 1) -> Nat]
              /\ copies \in [0..(length - 1) -> Nat]

\* The allocator of the current back buffer is reset, and its surface drawn to,
\* only when the gpu is done with the frame that used them last: whatever mix of
\* frames, resizes, moves and removals came before.
FrameReusable == phase \in {"idle", "recording"} => Finished(use[cur])

\* A fence never goes back: a later signal has a larger value, also across a
\* resize, which starts all buffers at one value.
FenceIncreases == \A a, b \in 1..Len(sig) : a < b => sig[a] < sig[b]

\* No wait is for a value nobody has signalled.
AwaitedIsSignalled ==
  /\ phase = "advance" => \E b \in 1..Len(sig) : sig[b] >= value[cur]
  /\ phase = "flush" => \E b \in 1..Len(sig) : sig[b] >= current

\* When updateSwapChain, setAdapter or the destructor release buffers, command
\* allocators and bound resources, the gpu has finished everything.
FlushedBeforeRelease == phase = "flushed" => Finished(Len(sig))

\* Between frames the gpu is behind by fewer frames than there are buffers.
FramesInFlight == phase = "idle" => Lost \/ Len(sig) - done < length

\* Resizing neither leaks handles of the rtv heap nor frees one twice.
RtvsBalanced == rtvs = length

\* How many frames from now a back buffer is current again.
Distance(i) == IF i >= cur THEN i - cur ELSE i + length - cur

\* The inductive invariant.  The values signalled are 1, 2, 3, ...; a buffer's
\* value is at least the number of the batch that used it last and at most the
\* next value to be signalled; it, or the gpu, is not further behind the last
\* signal than the buffers that come before its turn allow.
InWait == phase \in {"advance", "flush"}
Turn == IF phase = "flush" THEN Len(sig) - 1 ELSE Len(sig)
ValuesOrdered ==
  \A i \in 0..(length - 1) :
    /\ use[i] <= value[i]
    /\ value[i] <= IF InWait THEN Len(sig) ELSE Len(sig) + 1
    /\ \/ Lost
       \/ value[i] + length > Turn + Distance(i)
       \/ done + length > Turn + Distance(i)
Waiting ==
  /\ InWait => current = Len(sig) /\ Len(sig) > 0
  /\ phase = "flush" => value[cur] = current
Ready ==
  (Alive /\ ~InWait) =>
    /\ value[cur] = Len(sig) + 1
    /\ Finished(use[cur])
    /\ Lost \/ Len(sig) - done < length
IInv ==
  /\ TypeOK
  /\ \A b \in 1..Len(sig) : sig[b] = b
  /\ rtvs = length
  /\ Alive => (Lost \/ mIndex = cur) /\ ValuesOrdered
  /\ Waiting /\ Ready
  /\ phase = "flushed" => Finished(Len(sig))

\* "this is to ensure we don't leave ourselves in an invalid state if the new
\* device creation fails" (core.cpp:335): a move that breaks the context has
\* got its device.
MoveKeepsContext ==
  [][ (phase = "flushed" /\ request.op = "adapter" /\ request.to # device
       /\ phase' = "broken") => device' = request.to ]_vars

\* The back buffers are a pool of slots: none is recorded to or released while
\* the gpu uses it, whatever resizes, moves and removals lie between frames.
Owner == [i \in DOMAIN use |-> IF Finished(use[i]) THEN 0 ELSE use[i]]
Pool == INSTANCE SlotPool WITH
  Batches <- 1..MaxSignals,
  owner <- Owner,
  held  <- IF phase = "recording" THEN cur ELSE -1
ImplementsSlotPool == Pool!Spec

\* Every wait of the thread ends.
WaitsEnd == phase \in {"advance", "flush"} ~> phase \notin {"advance", "flush"}

\* "ensure the image is the same as the clear colour" (virtual.cpp:47, after
\* present returned): the copy of the surface just presented is complete.
ImageReady ==
  phase = "idle" => Finished(copies[IF mIndex = 0 THEN length - 1 ELSE mIndex - 1])
=============================================================================
