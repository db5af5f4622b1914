------------------------------ MODULE Mailbox -------------------------------
(***************************************************************************)
(* NonBlockingMailBox<T> of common/threads/include/threads/mailbox.hpp: two *)
(* slots, and one atomic int whose bits name the writer's slot (kIndexBit) *)
(* and hold the writer back (kWriteBit).  One thread writes, the other     *)
(* reads under std::lock_guard, as the widgets of server/src/client.cpp do *)
(* with their worker thread and the gui.  A T is copied part by part.      *)
(***************************************************************************)
EXTENDS Naturals, FiniteSets

CONSTANTS
  Parts,     \* the pieces of a T that are copied one at a time
  Nothing,   \* what a reader holds outside lock and unlock
  MaxWrites  \* bound: calls of write

Slots  == {0, 1}
NoSlot == 2

ASSUME MailboxAssumption ==
  /\ MaxWrites \in Nat /\ Parts # {}
  /\ Nothing \notin [Parts -> Nat]

VARIABLES
  mState,  \* the two bits
  mSlots,  \* the two slots: which write each part is of
  writer,  \* "out" of write, in its "spin", or in the "copy"
  state,   \* write's local `state`
  left,    \* parts of the slot not assigned yet
  writes,  \* calls of write so far
  ref      \* the slot the reader has a reference to

vars == <<mState, mSlots, writer, state, left, writes, ref>>

Bits == [index : Slots, write : BOOLEAN]

Other(slot) == 1 - slot

Init ==
  /\ mState = [index |-> 0, write |-> FALSE]
  /\ mSlots = [s \in Slots |-> [p \in Parts |-> 0]]
  /\ writer = "out" /\ state = mState /\ left = {} /\ writes = 0
  /\ ref = NoSlot

CallWrite ==
  /\ writer = "out" /\ writes < MaxWrites
  /\ writer' = "spin"
  /\ writes' = writes + 1
  /\ UNCHANGED <<mState, mSlots, state, left, ref>>

\* The load that ends the spin; one that finds kWriteBit changes nothing.
MayWrite_NoSpin == TRUE
MayWrite == ~mState.write

Load ==
  /\ writer = "spin" /\ MayWrite
  /\ state' = mState
  /\ left' = Parts
  /\ writer' = "copy"
  /\ UNCHANGED <<mState, mSlots, writes, ref>>

\* mSlots[newIndex] = data, in any order of its parts.
Copy(p) ==
  /\ writer = "copy" /\ p \in left
  /\ mSlots' = [mSlots EXCEPT ![state.index][p] = writes]
  /\ left' = left \ {p}
  /\ UNCHANGED <<mState, writer, state, writes, ref>>

\* state ^ (kIndexBit | kWriteBit): whatever an unlock toggled meanwhile is
\* overwritten.
Published_KeepsWrite(bits) == [index |-> Other(bits.index), write |-> bits.write]
Published(bits) == [index |-> Other(bits.index), write |-> ~bits.write]

Store ==
  /\ writer = "copy" /\ left = {}
  /\ mState' = Published(state)
  /\ writer' = "out"
  /\ UNCHANGED <<mSlots, state, left, writes, ref>>

\* read: mSlots[!(mState & kIndexBit)]; lock does nothing.
ReadSlot_Writers == mState.index
ReadSlot == Other(mState.index)

Read ==
  /\ ref = NoSlot
  /\ ref' = ReadSlot
  /\ UNCHANGED <<mState, mSlots, writer, state, left, writes>>

\* unlock: fetch_xor(kWriteBit), which also sets the bit when it was clear.
Toggled_Never(bits) == bits
Toggled(bits) == [index |-> bits.index, write |-> ~bits.write]

Unlock ==
  /\ ref # NoSlot
  /\ ref' = NoSlot
  /\ mState' = Toggled(mState)
  /\ UNCHANGED <<mSlots, writer, state, left, writes>>

Write == CallWrite \/ Load \/ (\E p \in Parts : Copy(p)) \/ Store

Next == Write \/ Read \/ Unlock

Spec == Init /\ [][Next]_vars

\* The gui draws its table every frame, and the spin polls many times in the
\* frame that passes between two unlocks: a bit that is clear again and again
\* is found clear.
FairSpec ==
  /\ Spec
  /\ SF_vars(Load) /\ WF_vars(\E p \in Parts : Copy(p)) /\ WF_vars(Store)
  /\ WF_vars(Read) /\ WF_vars(Unlock)
-----------------------------------------------------------------------------
TypeOK ==
  /\ mState \in Bits
  /\ mSlots \in [Slots -> [Parts -> Nat]]
  /\ writer \in {"out", "spin", "copy"}
  /\ state \in Bits
  /\ left \in SUBSET Parts
  /\ writes \in Nat
  /\ ref \in Slots \cup {NoSlot}

\* Completed calls of write.
Count == IF writer = "out" THEN writes ELSE writes - 1

Whole(k) == [p \in Parts |-> k]

\* The writer never assigns the slot a reference was handed out to, although
\* read never waits and an unlock that comes late may toggle the bit either way.
NoTornRead == writer = "copy" => ref # state.index

\* What a reader holds is one whole write: the latest, or the one before it
\* when a single write completed since read was called.
AtMostOneBehind ==
  ref # NoSlot => /\ mSlots[ref] \in {Whole(Count), Whole(Count - 1)}
                  /\ mSlots[Other(mState.index)] = Whole(Count)

\* The inductive invariant behind the two properties above: the slot read hands
\* out holds the last completed write; a reader left behind in the other slot
\* means the bit is set and the writer has to wait; past its spin the writer
\* still knows the index.
IInv ==
  /\ TypeOK
  /\ writer # "out" => writes > 0
  /\ writer = "copy" => /\ state.index = mState.index /\ ~state.write
                        /\ \A p \in Parts \ left : mSlots[state.index][p] = writes
  /\ mSlots[Other(mState.index)] = Whole(Count)
  /\ ref = mState.index =>
       /\ mState.write /\ writer # "copy"
       /\ Count > 0 /\ mSlots[ref] = Whole(Count - 1)

\* The mailbox is an atomic register to its reader.
Register == INSTANCE AtomicRegister WITH
  count <- Count,
  held  <- IF ref = NoSlot THEN Nothing ELSE mSlots[ref]
ImplementsRegister == Register!Spec

\* While the reader goes on drawing, every write comes to its end.
WriteEnds == writer = "spin" ~> writer = "out"
=============================================================================
