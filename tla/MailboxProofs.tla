---------------------------- MODULE MailboxProofs ----------------------------
(***************************************************************************)
(* Theorems about Mailbox, for every set of parts and every number of      *)
(* writes: IInv is inductive, and the properties follow from it.           *)
(***************************************************************************)
EXTENDS Mailbox, TLAPS

\* What the definitions give for the two slots.
LEMMA OtherSlot ==
  \A s \in Slots : Other(s) \in Slots /\ Other(s) # s /\ Other(Other(s)) = s
                   /\ Other(s) # NoSlot /\ s # NoSlot
BY DEF Slots, Other, NoSlot

\* The mailbox starts with two default values and nobody in it.
LEMMA InitIInv == Init => IInv
<1> SUFFICES ASSUME Init PROVE IInv
  OBVIOUS
<1>1. TypeOK
  BY DEF Init, TypeOK, Bits, Slots, NoSlot
<1>2. mSlots[Other(mState.index)] = Whole(Count)
  BY DEF Init, Other, Slots, Whole, Count
<1> QED
  BY <1>1, <1>2 DEF Init, IInv, NoSlot

\* Each step of the writer and of the reader keeps the inductive invariant.
LEMMA NextIInv == IInv /\ [Next]_vars => IInv'
<1> SUFFICES ASSUME IInv, [Next]_vars PROVE IInv'
  OBVIOUS
<1> USE DEF NoSlot
<1>1. CASE CallWrite
  BY <1>1 DEF CallWrite, IInv, TypeOK, Count, Whole, Other
<1>2. CASE Load
  BY <1>2 DEF Load, MayWrite, IInv, TypeOK, Count, Whole, Other, Bits
<1>3. ASSUME NEW p \in Parts, Copy(p) PROVE IInv'
  <2> USE <1>3 DEF Copy
  <2>1. state.index = mState.index /\ mState.index \in Slots
    BY DEF IInv, TypeOK, Bits
  <2>2. TypeOK'
    BY <2>1 DEF IInv, TypeOK
  <2>3. /\ mSlots'[state.index] = [mSlots[state.index] EXCEPT ![p] = writes]
        /\ mSlots'[Other(mState.index)] = mSlots[Other(mState.index)]
    BY <2>1, OtherSlot DEF IInv, TypeOK
  <2>4. \A q \in Parts \ left' : mSlots'[state'.index][q] = writes'
    BY <2>1, <2>3 DEF IInv, TypeOK
  <2>5. ref # mState.index
    BY DEF IInv
  <2> QED
    BY <2>1, <2>2, <2>3, <2>4, <2>5 DEF IInv, Count, Whole, Other
<1>4. CASE Store
  <2> USE <1>4 DEF Store
  <2>1. /\ state.index = mState.index /\ mState.index \in Slots
        /\ mState' = [index |-> Other(mState.index), write |-> TRUE]
    BY DEF IInv, TypeOK, Bits, Published
  <2>2. TypeOK'
    BY <2>1, OtherSlot DEF IInv, TypeOK, Bits
  <2>3. /\ mSlots[mState.index] \in [Parts -> Nat]
        /\ \A p \in Parts : mSlots[mState.index][p] = writes
    BY <2>1 DEF IInv, TypeOK
  <2>4. mSlots[mState.index] = Whole(writes)
    BY <2>3 DEF Whole
  <2>5. Count = writes - 1 /\ Count' = writes /\ writes \in Nat /\ writes > 0
    BY DEF Count, IInv, TypeOK
  <2>6. mSlots'[Other(mState'.index)] = Whole(Count)'
    BY <2>1, <2>4, <2>5, OtherSlot DEF Whole
  <2>7. ref' = mState'.index =>
          /\ mState'.write /\ writer' # "copy"
          /\ Count' > 0 /\ mSlots'[ref'] = Whole(Count - 1)'
    BY <2>1, <2>5 DEF IInv, Whole
  <2> QED
    BY <2>2, <2>5, <2>6, <2>7 DEF IInv
<1>5. CASE Read
  BY <1>5, OtherSlot DEF Read, ReadSlot, IInv, TypeOK, Bits, Count, Whole
<1>6. CASE Unlock
  BY <1>6, OtherSlot DEF Unlock, Toggled, IInv, TypeOK, Bits, Count, Whole, Slots
<1>7. CASE UNCHANGED vars
  BY <1>7 DEF vars, IInv, TypeOK, Count, Whole, Other
<1> QED
  BY <1>1, <1>2, <1>3, <1>4, <1>5, <1>6, <1>7 DEF Next, Write

\* IInv holds in every reachable state of the mailbox.
THEOREM Inductive == Spec => []IInv
BY InitIInv, NextIInv, PTL DEF Spec

\* No part of a slot is assigned while the reader has a reference to it.
THEOREM ReadsUntorn == Spec => []NoTornRead
<1>1. IInv => NoTornRead
  BY DEF IInv, NoTornRead
<1> QED
  BY <1>1, Inductive, PTL

\* A reader holds one whole write, at most one publication old.
THEOREM ReadsRecent == Spec => []AtMostOneBehind
<1>1. IInv => AtMostOneBehind
  <2> SUFFICES ASSUME IInv, ref # NoSlot PROVE AtMostOneBehind
    BY DEF AtMostOneBehind
  <2>1. ref \in Slots /\ mState.index \in Slots
    BY DEF IInv, TypeOK, Bits
  <2>2. ref = mState.index \/ ref = Other(mState.index)
    BY <2>1 DEF Slots, Other
  <2> QED
    BY <2>2 DEF IInv, AtMostOneBehind
<1> QED
  BY <1>1, Inductive, PTL

\* What the refinement maps a state to.
Held == IF ref = NoSlot THEN Nothing ELSE mSlots[ref]

\* Every step of the mailbox is a step of the register, or stutters: a store
\* publishes, read acquires, unlock releases, and a copy shows to nobody.
LEMMA StepMaps ==
  IInv /\ [Next]_vars => \/ Register!Next
                         \/ Count' = Count /\ Held' = Held
<1> SUFFICES ASSUME IInv, [Next]_vars
             PROVE  Register!Next \/ (Count' = Count /\ Held' = Held)
  OBVIOUS
<1> USE DEF NoSlot, Held
<1>0. /\ mState.index \in Slots /\ ref \in Slots \cup {NoSlot}
      /\ mSlots \in [Slots -> [Parts -> Nat]] /\ writes \in Nat
  BY DEF IInv, TypeOK, Bits
<1>1. CASE CallWrite
  BY <1>0, <1>1 DEF CallWrite, Count
<1>2. CASE Load
  BY <1>2 DEF Load, Count
<1>3. ASSUME NEW p \in Parts, Copy(p) PROVE Count' = Count /\ Held' = Held
  <2>1. state.index = mState.index /\ ref # mState.index
    BY <1>3 DEF Copy, IInv
  <2> QED
    BY <1>0, <1>3, <2>1 DEF Copy, Count
<1>4. CASE Store
  <2>1. Count' = Count + 1 /\ Held' = Held
    BY <1>0, <1>4 DEF Store, Count, IInv
  <2> QED
    BY <2>1 DEF Register!Next, Register!Publish
<1>5. CASE Read
  <2>1. Held = Nothing /\ Count' = Count
    BY <1>5 DEF Read, Count
  <2>2. Held' = Whole(Count)
    BY <1>0, <1>5, OtherSlot DEF Read, ReadSlot, IInv
  <2> QED
    BY <2>1, <2>2 DEF Register!Next, Register!Acquire, Register!Whole, Whole
<1>6. CASE Unlock
  <2>1. Held \in [Parts -> Nat] /\ Held' = Nothing /\ Count' = Count
    BY <1>0, <1>6 DEF Unlock, Count
  <2> QED
    BY <2>1, MailboxAssumption DEF Register!Next, Register!Release
<1>7. CASE UNCHANGED vars
  BY <1>7 DEF vars, Count
<1> QED
  BY <1>1, <1>2, <1>3, <1>4, <1>5, <1>6, <1>7 DEF Next, Write

\* The mailbox implements an atomic register.
THEOREM Refinement == Spec => ImplementsRegister
<1>1. Init => Register!Init
  BY DEF Init, Register!Init, Count, NoSlot
<1>2. IInv /\ [Next]_vars => [Register!Next]_<<Count, Held>>
  BY StepMaps
<1>3. [Register!Next]_<<Count, Held>> =>
      [Register!Next]_<<Count, IF ref = NoSlot THEN Nothing ELSE mSlots[ref]>>
  BY DEF Held
<1> QED
  BY <1>1, <1>2, <1>3, Inductive, PTL DEF Spec, ImplementsRegister, Register!Spec
=============================================================================
