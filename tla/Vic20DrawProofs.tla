--------------------------- MODULE Vic20DrawProofs ---------------------------
(* Proofs about Vic20Draw, for every length of the swap chain and every      *)
(* number of frames.                                                         *)
EXTENDS Vic20Draw, TLAPS

USE Vic20Assumption

-----------------------------------------------------------------------------
(* Places in the queues.                                                     *)

LEMMA Thirds ==
  ASSUME NEW k \in Nat \ {0}
  PROVE  \E i \in Nat \ {0} : k = 3 * i - 2 \/ k = 3 * i - 1 \/ k = 3 * i
<1>1. (k + 2) \div 3 \in Nat \ {0}
      OBVIOUS
<1>2. \/ k = 3 * ((k + 2) \div 3) - 2
      \/ k = 3 * ((k + 2) \div 3) - 1
      \/ k = 3 * ((k + 2) \div 3)
      OBVIOUS
<1> QED BY <1>1, <1>2

LEMMA Quarters ==
  ASSUME NEW k \in Nat \ {0}
  PROVE  \E i \in Nat \ {0} : k = 4 * i - 3 \/ k = 4 * i - 2 \/ k = 4 * i - 1 \/ k = 4 * i
<1>1. (k + 3) \div 4 \in Nat \ {0}
      OBVIOUS
<1>2. \/ k = 4 * ((k + 3) \div 4) - 3
      \/ k = 4 * ((k + 3) \div 4) - 2
      \/ k = 4 * ((k + 3) \div 4) - 1
      \/ k = 4 * ((k + 3) \div 4)
      OBVIOUS
<1> QED BY <1>1, <1>2

LEMMA Appended ==
  ASSUME NEW S, NEW q \in Seq(S), NEW x \in S
  PROVE  /\ Append(q, x) \in Seq(S) /\ Len(Append(q, x)) = Len(q) + 1
         /\ Append(q, x)[Len(q) + 1] = x
         /\ \A k \in 1 .. Len(q) : Append(q, x)[k] = q[k]
OBVIOUS

LEMMA AreCommands ==
  ASSUME NEW f \in Nat, NEW s \in Slots
  PROVE  /\ Dispatch(f, s) \in Commands /\ Draw(f) \in Commands /\ Present(f) \in Commands
         /\ Signal(f) \in Commands /\ Wait(f) \in Commands
BY DEF Dispatch, Draw, Present, Signal, Wait, Commands, CharacterElement, ScreenElement, Slots

\* What a queue executes next tells the frame it is at.
LEMMA NextOfCompute ==
  ASSUME IInv, computed < Len(compute)
  PROVE  \/ \E i \in 1 .. n :
              \/ computed = 3 * i - 3 /\ compute[computed + 1].op = "dispatch"
                                      /\ compute[computed + 1].arg = i
              \/ computed = 3 * i - 2 /\ compute[computed + 1] = Signal(2 * i - 1)
              \/ computed = 3 * i - 1 /\ compute[computed + 1] = Wait(2 * i)
         \/ /\ computed = 3 * n /\ drawn = 4 * n /\ pc \in {"reset", "done"}
            /\ compute[computed + 1] = Signal(2 * n + 1)
<1>1. TypeOK /\ Submitted /\ ComputeLog
      BY DEF IInv
<1>2. n \in Nat /\ computed \in Nat /\ Len(compute) \in Nat /\ Len(compute) <= 3 * n + 1
      BY <1>1 DEF TypeOK, Submitted
<1>3. PICK i \in Nat \ {0} :
        computed + 1 = 3 * i - 2 \/ computed + 1 = 3 * i - 1 \/ computed + 1 = 3 * i
  <2>1. computed + 1 \in Nat \ {0}
        BY <1>2
  <2> QED BY <2>1, Thirds
<1>4. CASE i \in 1 .. n
  <2>0. ComputeFrame(i)
        BY <1>1, <1>4 DEF ComputeLog
  <2>1. CASE computed + 1 = 3 * i - 2
    <3>1. compute[3 * i - 2].op = "dispatch" /\ compute[3 * i - 2].arg = i
          BY <1>2, <2>0, <2>1 DEF ComputeFrame
    <3>2. computed = 3 * i - 3
          BY <1>2, <2>1
    <3> QED BY <1>4, <2>1, <3>1, <3>2
  <2>2. CASE computed + 1 = 3 * i - 1
    <3>1. compute[3 * i - 1] = Signal(2 * i - 1)
          BY <1>2, <2>0, <2>2 DEF ComputeFrame
    <3>2. computed = 3 * i - 2
          BY <1>2, <2>2
    <3> QED BY <1>4, <2>2, <3>1, <3>2
  <2>3. CASE computed + 1 = 3 * i
    <3>1. compute[3 * i] = Wait(2 * i)
          BY <1>2, <2>0, <2>3 DEF ComputeFrame
    <3>2. computed = 3 * i - 1
          BY <1>2, <2>3
    <3> QED BY <1>4, <2>3, <3>1, <3>2
  <2> QED BY <1>3, <2>1, <2>2, <2>3
<1>5. CASE i \notin 1 .. n
  <2>1. computed = 3 * n /\ Len(compute) = 3 * n + 1
        BY <1>2, <1>3, <1>5
  <2>2. drawn = 4 * n /\ pc \in {"reset", "done"}
        BY <1>1, <1>2, <2>1 DEF Submitted, TypeOK
  <2> QED BY <1>1, <2>1, <2>2 DEF ComputeLog
<1> QED BY <1>4, <1>5

LEMMA NextOfDirect ==
  ASSUME IInv, drawn < Len(direct)
  PROVE  \E i \in 1 .. n :
           \/ drawn = 4 * i - 4 /\ direct[drawn + 1] = Wait(2 * i - 1)
           \/ drawn = 4 * i - 3 /\ direct[drawn + 1] = Draw(i)
           \/ drawn = 4 * i - 2 /\ direct[drawn + 1] = Signal(2 * i)
           \/ drawn = 4 * i - 1 /\ direct[drawn + 1] = Present(i)
<1>1. TypeOK /\ Submitted /\ DirectLog
      BY DEF IInv
<1>2. n \in Nat /\ drawn \in Nat /\ Len(direct) \in Nat /\ Len(direct) <= 4 * n
      BY <1>1 DEF TypeOK, Submitted
<1>3. PICK i \in Nat \ {0} :
        \/ drawn + 1 = 4 * i - 3 \/ drawn + 1 = 4 * i - 2
        \/ drawn + 1 = 4 * i - 1 \/ drawn + 1 = 4 * i
  <2>1. drawn + 1 \in Nat \ {0}
        BY <1>2
  <2> QED BY <2>1, Quarters
<1>4. i \in 1 .. n
      BY <1>2, <1>3
<1> DirectFrame(i)
    BY <1>1, <1>4 DEF DirectLog
<1>5. CASE drawn + 1 = 4 * i - 3
  <2>1. direct[4 * i - 3] = Wait(2 * i - 1) /\ drawn = 4 * i - 4
        BY <1>2, <1>5 DEF DirectFrame
  <2> QED BY <1>4, <1>5, <2>1
<1>6. CASE drawn + 1 = 4 * i - 2
  <2>1. direct[4 * i - 2] = Draw(i) /\ drawn = 4 * i - 3
        BY <1>2, <1>6 DEF DirectFrame
  <2> QED BY <1>4, <1>6, <2>1
<1>7. CASE drawn + 1 = 4 * i - 1
  <2>1. direct[4 * i - 1] = Signal(2 * i) /\ drawn = 4 * i - 2
        BY <1>2, <1>7 DEF DirectFrame
  <2> QED BY <1>4, <1>7, <2>1
<1>8. CASE drawn + 1 = 4 * i
  <2>1. direct[4 * i] = Present(i) /\ drawn = 4 * i - 1
        BY <1>2, <1>8 DEF DirectFrame
  <2> QED BY <1>4, <1>8, <2>1
<1> QED BY <1>3, <1>5, <1>6, <1>7, <1>8

\* A queue that gets longer keeps what it has.
LEMMA ComputeExtended ==
  ASSUME TypeOK, NEW i \in Nat \ {0}, NEW c \in Commands,
         compute' = Append(compute, c), ComputeFrame(i),
         Len(compute) + 1 = 3 * i - 2 =>
           /\ c.op = "dispatch" /\ c.arg = i /\ c.slot \in Slots /\ c.characters = c.slot,
         Len(compute) + 1 = 3 * i - 1 => c = Signal(2 * i - 1),
         Len(compute) + 1 = 3 * i => c = Wait(2 * i)
  PROVE  ComputeFrame(i)'
<1>1. compute \in Seq(Commands) /\ Len(compute) \in Nat
      BY DEF TypeOK
<1>2. /\ Len(compute') = Len(compute) + 1
      /\ compute'[Len(compute) + 1] = c
      /\ \A k \in 1 .. Len(compute) : compute'[k] = compute[k]
      BY <1>1, Appended
<1>3. 3 * i - 2 <= Len(compute') =>
        /\ compute'[3 * i - 2].op = "dispatch" /\ compute'[3 * i - 2].arg = i
        /\ compute'[3 * i - 2].slot \in Slots
        /\ compute'[3 * i - 2].characters = compute'[3 * i - 2].slot
  <2>1. CASE 3 * i - 2 <= Len(compute)
    <3>1. compute'[3 * i - 2] = compute[3 * i - 2]
          BY <1>1, <1>2, <2>1
    <3> QED BY <2>1, <3>1 DEF ComputeFrame
  <2>2. CASE 3 * i - 2 = Len(compute) + 1
        BY <1>2, <2>2
  <2>3. 3 * i - 2 <= Len(compute') => 3 * i - 2 <= Len(compute) \/ 3 * i - 2 = Len(compute) + 1
    <3>1. Len(compute) \in Nat /\ Len(compute') = Len(compute) + 1
          BY <1>1, <1>2
    <3> QED BY <3>1
  <2> QED BY <2>1, <2>2, <2>3
<1>4. 3 * i - 1 <= Len(compute') => compute'[3 * i - 1] = Signal(2 * i - 1)
  <2>1. CASE 3 * i - 1 <= Len(compute)
    <3>1. compute'[3 * i - 1] = compute[3 * i - 1]
          BY <1>1, <1>2, <2>1
    <3> QED BY <2>1, <3>1 DEF ComputeFrame
  <2>2. CASE 3 * i - 1 = Len(compute) + 1
        BY <1>2, <2>2
  <2>3. 3 * i - 1 <= Len(compute') => 3 * i - 1 <= Len(compute) \/ 3 * i - 1 = Len(compute) + 1
    <3>1. Len(compute) \in Nat /\ Len(compute') = Len(compute) + 1
          BY <1>1, <1>2
    <3> QED BY <3>1
  <2> QED BY <2>1, <2>2, <2>3
<1>5. 3 * i <= Len(compute') => compute'[3 * i] = Wait(2 * i)
  <2>1. CASE 3 * i <= Len(compute)
    <3>1. compute'[3 * i] = compute[3 * i]
          BY <1>1, <1>2, <2>1
    <3> QED BY <2>1, <3>1 DEF ComputeFrame
  <2>2. CASE 3 * i = Len(compute) + 1
        BY <1>2, <2>2
  <2>3. 3 * i <= Len(compute') => 3 * i <= Len(compute) \/ 3 * i = Len(compute) + 1
    <3>1. Len(compute) \in Nat /\ Len(compute') = Len(compute) + 1
          BY <1>1, <1>2
    <3> QED BY <3>1
  <2> QED BY <2>1, <2>2, <2>3
<1> QED BY <1>3, <1>4, <1>5 DEF ComputeFrame, Signal, Wait

LEMMA DirectExtended ==
  ASSUME TypeOK, NEW i \in Nat \ {0}, NEW c \in Commands,
         direct' = Append(direct, c), DirectFrame(i),
         Len(direct) + 1 = 4 * i - 3 => c = Wait(2 * i - 1),
         Len(direct) + 1 = 4 * i - 2 => c = Draw(i),
         Len(direct) + 1 = 4 * i - 1 => c = Signal(2 * i),
         Len(direct) + 1 = 4 * i => c = Present(i)
  PROVE  DirectFrame(i)'
<1>1. direct \in Seq(Commands) /\ Len(direct) \in Nat
      BY DEF TypeOK
<1>2. /\ Len(direct') = Len(direct) + 1
      /\ direct'[Len(direct) + 1] = c
      /\ \A k \in 1 .. Len(direct) : direct'[k] = direct[k]
      BY <1>1, Appended
<1>3. 4 * i - 3 <= Len(direct') => direct'[4 * i - 3] = Wait(2 * i - 1)
  <2>1. CASE 4 * i - 3 <= Len(direct)
        BY <1>1, <1>2, <2>1 DEF DirectFrame
  <2>2. CASE 4 * i - 3 = Len(direct) + 1
        BY <1>2, <2>2
  <2>3. 4 * i - 3 <= Len(direct') => 4 * i - 3 <= Len(direct) \/ 4 * i - 3 = Len(direct) + 1
    <3>1. Len(direct) \in Nat /\ Len(direct') = Len(direct) + 1
          BY <1>1, <1>2
    <3> QED BY <3>1
  <2> QED BY <2>1, <2>2, <2>3
<1>4. 4 * i - 2 <= Len(direct') => direct'[4 * i - 2] = Draw(i)
  <2>1. CASE 4 * i - 2 <= Len(direct)
        BY <1>1, <1>2, <2>1 DEF DirectFrame
  <2>2. CASE 4 * i - 2 = Len(direct) + 1
        BY <1>2, <2>2
  <2>3. 4 * i - 2 <= Len(direct') => 4 * i - 2 <= Len(direct) \/ 4 * i - 2 = Len(direct) + 1
    <3>1. Len(direct) \in Nat /\ Len(direct') = Len(direct) + 1
          BY <1>1, <1>2
    <3> QED BY <3>1
  <2> QED BY <2>1, <2>2, <2>3
<1>5. 4 * i - 1 <= Len(direct') => direct'[4 * i - 1] = Signal(2 * i)
  <2>1. CASE 4 * i - 1 <= Len(direct)
        BY <1>1, <1>2, <2>1 DEF DirectFrame
  <2>2. CASE 4 * i - 1 = Len(direct) + 1
        BY <1>2, <2>2
  <2>3. 4 * i - 1 <= Len(direct') => 4 * i - 1 <= Len(direct) \/ 4 * i - 1 = Len(direct) + 1
    <3>1. Len(direct) \in Nat /\ Len(direct') = Len(direct) + 1
          BY <1>1, <1>2
    <3> QED BY <3>1
  <2> QED BY <2>1, <2>2, <2>3
<1>6. 4 * i <= Len(direct') => direct'[4 * i] = Present(i)
  <2>1. CASE 4 * i <= Len(direct)
        BY <1>1, <1>2, <2>1 DEF DirectFrame
  <2>2. CASE 4 * i = Len(direct) + 1
        BY <1>2, <2>2
  <2>3. 4 * i <= Len(direct') => 4 * i <= Len(direct) \/ 4 * i = Len(direct) + 1
    <3>1. Len(direct) \in Nat /\ Len(direct') = Len(direct) + 1
          BY <1>1, <1>2
    <3> QED BY <3>1
  <2> QED BY <2>1, <2>2, <2>3
<1> QED BY <1>3, <1>4, <1>5, <1>6 DEF DirectFrame, Wait, Draw, Signal, Present

-----------------------------------------------------------------------------
(* Steps of the gui thread.                                                  *)

THEOREM Start == Init => IInv
<1> SUFFICES ASSUME Init PROVE IInv
    OBVIOUS
<1> USE DEF Init
<1>1. TypeOK /\ Submitted /\ ComputeLog
      BY DEF TypeOK, Submitted, ComputeLog, Slots
<1>2. DirectLog /\ FenceFollows /\ TakeTurns /\ SlotsKept
      BY DEF DirectLog, FenceFollows, TakeTurns, SlotsKept
<1> QED BY <1>1, <1>2 DEF IInv

LEMMA RecordComputeStep == IInv /\ RecordCompute => IInv'
<1> SUFFICES ASSUME IInv, RecordCompute PROVE IInv'
    OBVIOUS
<1> USE DEF RecordCompute, directQueue
<1>0. TypeOK /\ Submitted /\ ComputeLog /\ DirectLog /\ FenceFollows /\ TakeTurns /\ SlotsKept
      BY DEF IInv
<1> DEFINE c == Dispatch(n + 1, slot)
<1>1. /\ n \in Nat /\ slot \in Slots /\ c \in Commands
      /\ compute \in Seq(Commands) /\ Len(compute) = 3 * n /\ Len(direct) = 4 * n
      BY <1>0, AreCommands DEF TypeOK, Submitted
<1>2. /\ c.op = "dispatch" /\ c.arg = n + 1 /\ c.slot = slot /\ c.characters = c.slot
      BY DEF Dispatch, CharacterElement
<1> HIDE DEF c
<1>3. compute' = Append(compute, c)
      BY DEF c
<1>4. /\ compute' \in Seq(Commands) /\ Len(compute') = 3 * n + 1 /\ compute'[3 * n + 1] = c
      /\ \A k \in 1 .. 3 * n : compute'[k] = compute[k]
  <2>1. compute \in Seq(Commands) /\ c \in Commands
        BY <1>1
  <2>2. /\ Append(compute, c) \in Seq(Commands) /\ Len(Append(compute, c)) = Len(compute) + 1
        /\ Append(compute, c)[Len(compute) + 1] = c
        /\ \A k \in 1 .. Len(compute) : Append(compute, c)[k] = compute[k]
        BY <2>1, Appended
  <2> QED BY <1>1, <1>3, <2>2
<1>5. TypeOK'
      BY <1>0, <1>1, <1>4 DEF TypeOK
<1>6. Submitted'
  <2>1. mFenceValue = 2 * n
        BY <1>0 DEF Submitted
  <2>2. n' = n + 1 /\ Len(direct') = 4 * n /\ mFenceValue' = 2 * n
        BY <1>1, <2>1
  <2>3. n' > 0 /\ Len(compute') = 3 * n' - 2 /\ Len(direct') = 4 * n' - 4 /\ mFenceValue' = 2 * n' - 2
        BY <1>1, <1>4, <2>2
  <2> QED BY <2>3 DEF Submitted
<1>7. ComputeLog'
  <2>1. ASSUME NEW i \in 1 .. n' PROVE ComputeFrame(i)'
    <3>1. ComputeFrame(i)
      <4>1. CASE i \in 1 .. n
            BY <1>0, <4>1 DEF ComputeLog
      <4>2. CASE i = n + 1
            BY <1>1, <4>2 DEF ComputeFrame
      <4> QED BY <1>1, <4>1, <4>2
    <3>2. i \in Nat \ {0} /\ (3 * n + 1 = 3 * i - 2 => i = n + 1)
          BY <1>1
    <3> QED BY <1>0, <1>1, <1>2, <1>3, <3>1, <3>2, ComputeExtended
  <2>2. Len(compute') # 3 * n' + 1
        BY <1>1, <1>4
  <2> QED BY <2>1, <2>2 DEF ComputeLog
<1>8. DirectLog'
  <2>1. ASSUME NEW i \in 1 .. n' PROVE DirectFrame(i)'
    <3>1. DirectFrame(i)
      <4>1. CASE i \in 1 .. n
            BY <1>0, <4>1 DEF DirectLog
      <4>2. CASE i = n + 1
            BY <1>1, <4>2 DEF DirectFrame
      <4> QED BY <1>1, <4>1, <4>2
    <3> QED BY <3>1 DEF DirectFrame
  <2> QED BY <2>1 DEF DirectLog
<1>9. /\ computed \in Nat /\ drawn \in Nat /\ fence \in Nat
      /\ computed <= 3 * n /\ drawn <= 4 * n /\ fence <= 2 * n
  <2>1. computed \in Nat /\ drawn \in Nat /\ fence \in Nat /\ computed <= 3 * n /\ drawn <= 4 * n
        BY <1>0, <1>1 DEF TypeOK
  <2> QED BY <1>0, <2>1 DEF FenceFollows
<1>10. FenceFollows' /\ TakeTurns'
  <2>1. ASSUME NEW i \in 1 .. n'
        PROVE  /\ fence >= 2 * i - 1 <=> computed >= 3 * i - 1
               /\ fence >= 2 * i <=> drawn >= 4 * i - 1
               /\ computed >= 3 * i => drawn >= 4 * i - 1
               /\ drawn >= 4 * i - 3 => computed >= 3 * i - 1
    <3>1. CASE i \in 1 .. n
          BY <1>0, <3>1 DEF FenceFollows, TakeTurns
    <3>2. CASE i = n + 1
          BY <1>1, <1>9, <3>2
    <3> QED BY <1>1, <3>1, <3>2
  <2>2. fence <= 2 * n'
        BY <1>1, <1>9
  <2> QED BY <2>1, <2>2 DEF FenceFollows, TakeTurns
<1>11. SlotsKept'
  <2>1. ASSUME NEW i \in 1 .. n' PROVE i <= last[compute'[3 * i - 2].slot]
    <3>1. CASE i \in 1 .. n
      <4>1. compute'[3 * i - 2] = compute[3 * i - 2]
            BY <1>1, <1>4, <3>1
      <4> QED BY <1>0, <3>1, <4>1 DEF SlotsKept
    <3>2. CASE i = n + 1
      <4>0. 3 * i - 2 = 3 * n + 1
            BY <1>1, <3>2
      <4>1. compute'[3 * i - 2] = c /\ last[slot] = i
            BY <1>0, <1>4, <3>2, <4>0 DEF SlotsKept
      <4>2. i \in Nat
            BY <1>1, <3>2
      <4>3. compute'[3 * i - 2].slot = slot
            BY <1>2, <4>1
      <4>4. last[compute'[3 * i - 2].slot] = i
            BY <4>1, <4>3
      <4> QED BY <4>2, <4>4
    <3> QED BY <1>1, <3>1, <3>2
  <2> QED BY <2>1 DEF SlotsKept
<1> QED BY <1>5, <1>6, <1>7, <1>8, <1>10, <1>11 DEF IInv

\* The compute queue signals an odd value, the direct queue waits for it.
LEMMA BlockQueueUntilStep == IInv /\ BlockQueueUntil => IInv'
<1> SUFFICES ASSUME IInv, BlockQueueUntil PROVE IInv'
    OBVIOUS
<1> USE DEF BlockQueueUntil, NextValue, computeQueue, directQueue
<1>0. TypeOK /\ Submitted /\ ComputeLog /\ DirectLog /\ FenceFollows /\ TakeTurns /\ SlotsKept
      BY DEF IInv
<1>1. /\ n \in Nat /\ n > 0 /\ slot \in Slots /\ compute \in Seq(Commands) /\ direct \in Seq(Commands)
      /\ Len(compute) = 3 * n - 2 /\ Len(direct) = 4 * n - 4 /\ mFenceValue = 2 * n - 2
      BY <1>0 DEF TypeOK, Submitted
<1> DEFINE c == Signal(2 * n - 1)
<1>2. c \in Commands /\ compute' = Append(compute, c)
  <2>1. 2 * n - 1 \in Nat /\ mFenceValue' = 2 * n - 1
        BY <1>1
  <2> QED BY <1>1, <2>1, AreCommands DEF Signals, Waits
<1> HIDE DEF c
<1>3. /\ compute' \in Seq(Commands) /\ Len(compute') = Len(compute) + 1
      /\ \A k \in 1 .. Len(compute) : compute'[k] = compute[k]
  <2>0. compute \in Seq(Commands) /\ c \in Commands
        BY <1>1, <1>2
  <2>1. /\ Append(compute, c) \in Seq(Commands) /\ Len(Append(compute, c)) = Len(compute) + 1
        /\ \A k \in 1 .. Len(compute) : Append(compute, c)[k] = compute[k]
        BY <2>0, Appended
  <2> QED BY <1>2, <2>1
<1> DEFINE d == Wait(2 * n - 1)
<1>4. d \in Commands /\ direct' = Append(direct, d)
  <2>1. 2 * n - 1 \in Nat /\ mFenceValue' = 2 * n - 1
        BY <1>1
  <2> QED BY <1>1, <2>1, AreCommands DEF Signals, Waits
<1> HIDE DEF d
<1>5. direct' \in Seq(Commands) /\ Len(direct') = Len(direct) + 1
  <2>0. direct \in Seq(Commands) /\ d \in Commands
        BY <1>1, <1>4
  <2>1. Append(direct, d) \in Seq(Commands) /\ Len(Append(direct, d)) = Len(direct) + 1
        BY <2>0, Appended
  <2> QED BY <1>4, <2>1
<1>6. TypeOK'
      BY <1>0, <1>1, <1>3, <1>5 DEF TypeOK
<1>7. Submitted'
      BY <1>0, <1>1, <1>3, <1>5 DEF Submitted
<1>8. ComputeLog'
  <2>1. ASSUME NEW i \in 1 .. n PROVE ComputeFrame(i)'
    <3>1. ComputeFrame(i) /\ i \in Nat \ {0}
          BY <1>0, <1>1 DEF ComputeLog
    <3>2. /\ Len(compute) + 1 # 3 * i - 2
          /\ Len(compute) + 1 = 3 * i - 1 => i = n
          /\ Len(compute) + 1 # 3 * i
          BY <1>1
    <3> QED BY <1>0, <1>1, <1>2, <3>1, <3>2, ComputeExtended DEF c
  <2>2. Len(compute') # 3 * n + 1
        BY <1>1, <1>3
  <2> QED BY <2>1, <2>2 DEF ComputeLog
<1>9. DirectLog'
  <2>1. ASSUME NEW i \in 1 .. n PROVE DirectFrame(i)'
    <3>1. DirectFrame(i) /\ i \in Nat \ {0}
          BY <1>0, <1>1 DEF DirectLog
    <3>2. /\ Len(direct) + 1 = 4 * i - 3 => i = n
          /\ Len(direct) + 1 # 4 * i - 2
          /\ Len(direct) + 1 # 4 * i - 1
          /\ Len(direct) + 1 # 4 * i
          BY <1>1
    <3>3. i = n => d = Wait(2 * i - 1)
          BY DEF d
    <3> QED BY <1>0, <1>1, <1>4, <3>1, <3>2, <3>3, DirectExtended
  <2> QED BY <2>1 DEF DirectLog
<1>10. FenceFollows' /\ TakeTurns'
      BY <1>0 DEF FenceFollows, TakeTurns
<1>11. SlotsKept'
  <2>1. ASSUME NEW i \in 1 .. n PROVE compute'[3 * i - 2] = compute[3 * i - 2]
    <3>1. 3 * i - 2 \in 1 .. Len(compute)
          BY <1>1
    <3> QED BY <1>3, <3>1
  <2> QED BY <1>0, <2>1 DEF SlotsKept
<1> QED BY <1>6, <1>7, <1>8, <1>9, <1>10, <1>11 DEF IInv

\* The direct queue draws the frame just dispatched.
LEMMA ExecuteCommandsStep == IInv /\ ExecuteCommands => IInv'
<1> SUFFICES ASSUME IInv, ExecuteCommands PROVE IInv'
    OBVIOUS
<1> USE DEF ExecuteCommands, NextValue, computeQueue, directQueue
<1>0. TypeOK /\ Submitted /\ ComputeLog /\ DirectLog /\ FenceFollows /\ TakeTurns /\ SlotsKept
      BY DEF IInv
<1>1. /\ n \in Nat /\ n > 0 /\ slot \in Slots /\ compute \in Seq(Commands) /\ direct \in Seq(Commands)
      /\ Len(compute) = 3 * n - 1 /\ Len(direct) = 4 * n - 3 /\ mFenceValue = 2 * n - 1
      BY <1>0 DEF TypeOK, Submitted
<1> DEFINE d == Draw(n)
<1>2. d \in Commands /\ direct' = Append(direct, d)
  <2>1. n \in Nat
        BY <1>1
  <2> QED BY <1>1, <2>1, AreCommands DEF Signals, Waits
<1> HIDE DEF d
<1>3. direct' \in Seq(Commands) /\ Len(direct') = Len(direct) + 1
  <2>0. direct \in Seq(Commands) /\ d \in Commands
        BY <1>1, <1>2
  <2>1. Append(direct, d) \in Seq(Commands) /\ Len(Append(direct, d)) = Len(direct) + 1
        BY <2>0, Appended
  <2> QED BY <1>2, <2>1
<1>4. TypeOK'
      BY <1>0, <1>1, <1>3 DEF TypeOK
<1>5. Submitted'
      BY <1>0, <1>1, <1>3 DEF Submitted
<1>6. ComputeLog'
      BY <1>0 DEF ComputeLog, ComputeFrame
<1>7. DirectLog'
  <2>1. ASSUME NEW i \in 1 .. n PROVE DirectFrame(i)'
    <3>1. DirectFrame(i) /\ i \in Nat \ {0}
          BY <1>0, <1>1 DEF DirectLog
    <3>2. /\ Len(direct) + 1 # 4 * i - 3
          /\ Len(direct) + 1 = 4 * i - 2 => i = n
          /\ Len(direct) + 1 # 4 * i - 1
          /\ Len(direct) + 1 # 4 * i
          BY <1>1
    <3>3. i = n => d = Draw(i)
          BY DEF d
    <3> QED BY <1>0, <1>1, <1>2, <3>1, <3>2, <3>3, DirectExtended
  <2> QED BY <2>1 DEF DirectLog
<1>8. FenceFollows' /\ TakeTurns'
      BY <1>0 DEF FenceFollows, TakeTurns
<1>9. SlotsKept'
      BY <1>0 DEF SlotsKept
<1> QED BY <1>4, <1>5, <1>6, <1>7, <1>8, <1>9 DEF IInv

\* The direct queue signals an even value, the compute queue waits for it.
LEMMA WaitOnQueueStep == IInv /\ WaitOnQueue => IInv'
<1> SUFFICES ASSUME IInv, WaitOnQueue PROVE IInv'
    OBVIOUS
<1> USE DEF WaitOnQueue, NextValue, computeQueue, directQueue
<1>0. TypeOK /\ Submitted /\ ComputeLog /\ DirectLog /\ FenceFollows /\ TakeTurns /\ SlotsKept
      BY DEF IInv
<1>1. /\ n \in Nat /\ n > 0 /\ slot \in Slots /\ compute \in Seq(Commands) /\ direct \in Seq(Commands)
      /\ Len(compute) = 3 * n - 1 /\ Len(direct) = 4 * n - 2 /\ mFenceValue = 2 * n - 1
      BY <1>0 DEF TypeOK, Submitted
<1> DEFINE c == Wait(2 * n)
<1>2. c \in Commands /\ compute' = Append(compute, c)
  <2>1. 2 * n \in Nat /\ mFenceValue' = 2 * n
        BY <1>1
  <2> QED BY <1>1, <2>1, AreCommands DEF Signals, Waits
<1> HIDE DEF c
<1>3. /\ compute' \in Seq(Commands) /\ Len(compute') = Len(compute) + 1
      /\ \A k \in 1 .. Len(compute) : compute'[k] = compute[k]
  <2>0. compute \in Seq(Commands) /\ c \in Commands
        BY <1>1, <1>2
  <2>1. /\ Append(compute, c) \in Seq(Commands) /\ Len(Append(compute, c)) = Len(compute) + 1
        /\ \A k \in 1 .. Len(compute) : Append(compute, c)[k] = compute[k]
        BY <2>0, Appended
  <2> QED BY <1>2, <2>1
<1> DEFINE d == Signal(2 * n)
<1>4. d \in Commands /\ direct' = Append(direct, d)
  <2>1. 2 * n \in Nat /\ mFenceValue' = 2 * n
        BY <1>1
  <2> QED BY <1>1, <2>1, AreCommands DEF Signals, Waits
<1> HIDE DEF d
<1>5. direct' \in Seq(Commands) /\ Len(direct') = Len(direct) + 1
  <2>0. direct \in Seq(Commands) /\ d \in Commands
        BY <1>1, <1>4
  <2>1. Append(direct, d) \in Seq(Commands) /\ Len(Append(direct, d)) = Len(direct) + 1
        BY <2>0, Appended
  <2> QED BY <1>4, <2>1
<1>6. TypeOK'
      BY <1>0, <1>1, <1>3, <1>5 DEF TypeOK
<1>7. Submitted'
      BY <1>0, <1>1, <1>3, <1>5 DEF Submitted
<1>8. ComputeLog'
  <2>1. ASSUME NEW i \in 1 .. n PROVE ComputeFrame(i)'
    <3>1. ComputeFrame(i) /\ i \in Nat \ {0}
          BY <1>0, <1>1 DEF ComputeLog
    <3>2. /\ Len(compute) + 1 # 3 * i - 2
          /\ Len(compute) + 1 = 3 * i => i = n
          /\ Len(compute) + 1 # 3 * i - 1
          BY <1>1
    <3> QED BY <1>0, <1>1, <1>2, <3>1, <3>2, ComputeExtended DEF c
  <2>2. Len(compute') # 3 * n + 1
        BY <1>1, <1>3
  <2> QED BY <2>1, <2>2 DEF ComputeLog
<1>9. DirectLog'
  <2>1. ASSUME NEW i \in 1 .. n PROVE DirectFrame(i)'
    <3>1. DirectFrame(i) /\ i \in Nat \ {0}
          BY <1>0, <1>1 DEF DirectLog
    <3>2. /\ Len(direct) + 1 # 4 * i - 3
          /\ Len(direct) + 1 # 4 * i - 2
          /\ Len(direct) + 1 = 4 * i - 1 => i = n
          /\ Len(direct) + 1 # 4 * i
          BY <1>1
    <3>3. i = n => d = Signal(2 * i)
          BY DEF d
    <3> QED BY <1>0, <1>1, <1>4, <3>1, <3>2, <3>3, DirectExtended
  <2> QED BY <2>1 DEF DirectLog
<1>10. FenceFollows' /\ TakeTurns'
      BY <1>0 DEF FenceFollows, TakeTurns
<1>11. SlotsKept'
  <2>1. ASSUME NEW i \in 1 .. n PROVE compute'[3 * i - 2] = compute[3 * i - 2]
    <3>1. 3 * i - 2 \in 1 .. Len(compute)
          BY <1>1
    <3> QED BY <1>3, <3>1
  <2> QED BY <1>0, <2>1 DEF SlotsKept
<1> QED BY <1>6, <1>7, <1>8, <1>9, <1>10, <1>11 DEF IInv

\* The frame's last command; the slot changes, and no slot's frames do.
LEMMA PresentSurfaceStep == IInv /\ PresentSurface => IInv'
<1> SUFFICES ASSUME IInv, PresentSurface PROVE IInv'
    OBVIOUS
<1> USE DEF PresentSurface, NextValue, computeQueue, directQueue
<1>0. TypeOK /\ Submitted /\ ComputeLog /\ DirectLog /\ FenceFollows /\ TakeTurns /\ SlotsKept
      BY DEF IInv
<1>1. /\ n \in Nat /\ n > 0 /\ slot \in Slots /\ compute \in Seq(Commands) /\ direct \in Seq(Commands)
      /\ Len(compute) = 3 * n /\ Len(direct) = 4 * n - 1 /\ mFenceValue = 2 * n
      BY <1>0 DEF TypeOK, Submitted
<1> DEFINE d == Present(n)
<1>2. d \in Commands /\ direct' = Append(direct, d)
  <2>1. n \in Nat
        BY <1>1
  <2> QED BY <1>1, <2>1, AreCommands DEF Signals, Waits
<1> HIDE DEF d
<1>3. direct' \in Seq(Commands) /\ Len(direct') = Len(direct) + 1
  <2>0. direct \in Seq(Commands) /\ d \in Commands
        BY <1>1, <1>2
  <2>1. Append(direct, d) \in Seq(Commands) /\ Len(Append(direct, d)) = Len(direct) + 1
        BY <2>0, Appended
  <2> QED BY <1>2, <2>1
<1>4. TypeOK'
      BY <1>0, <1>1, <1>3 DEF TypeOK
<1>5. Submitted'
      BY <1>0, <1>1, <1>3 DEF Submitted
<1>6. ComputeLog'
      BY <1>0 DEF ComputeLog, ComputeFrame
<1>7. DirectLog'
  <2>1. ASSUME NEW i \in 1 .. n PROVE DirectFrame(i)'
    <3>1. DirectFrame(i) /\ i \in Nat \ {0}
          BY <1>0, <1>1 DEF DirectLog
    <3>2. /\ Len(direct) + 1 # 4 * i - 3
          /\ Len(direct) + 1 # 4 * i - 2
          /\ Len(direct) + 1 # 4 * i - 1
          /\ Len(direct) + 1 = 4 * i => i = n
          BY <1>1
    <3>3. i = n => d = Present(i)
          BY DEF d
    <3> QED BY <1>0, <1>1, <1>2, <3>1, <3>2, <3>3, DirectExtended
  <2> QED BY <2>1 DEF DirectLog
<1>8. FenceFollows' /\ TakeTurns'
      BY <1>0 DEF FenceFollows, TakeTurns
<1>9. SlotsKept'
      BY <1>0 DEF SlotsKept
<1> QED BY <1>4, <1>5, <1>6, <1>7, <1>8, <1>9 DEF IInv

\* A present that is executed tells how far both queues are.
LEMMA PresentedMeans ==
  ASSUME IInv, NEW f \in Nat, Presented(f)
  PROVE  f \in 1 .. n /\ drawn >= 4 * f
<1>0. TypeOK /\ Submitted /\ ComputeLog /\ DirectLog /\ FenceFollows /\ TakeTurns /\ SlotsKept
      BY DEF IInv
<1>1. n \in Nat /\ drawn \in Nat /\ Len(direct) \in Nat /\ drawn <= Len(direct) /\ Len(direct) <= 4 * n
      BY <1>0 DEF TypeOK, Submitted
<1>2. PICK k \in 1 .. drawn : direct[k].op = "present" /\ direct[k].arg = f
      BY DEF Presented
<1>3. PICK i \in Nat \ {0} : k = 4 * i - 3 \/ k = 4 * i - 2 \/ k = 4 * i - 1 \/ k = 4 * i
  <2>1. k \in Nat \ {0}
        BY <1>1, <1>2
  <2> QED BY <2>1, Quarters
<1>4. i \in 1 .. n
      BY <1>1, <1>2, <1>3
<1>5. DirectFrame(i)
      BY <1>0, <1>4 DEF DirectLog
<1>6. k <= Len(direct)
      BY <1>1, <1>2
<1>7. k # 4 * i - 3
  <2> SUFFICES ASSUME k = 4 * i - 3 PROVE FALSE
      OBVIOUS
  <2>1. direct[k] = Wait(2 * i - 1)
        BY <1>5, <1>6 DEF DirectFrame
  <2> QED BY <1>2, <2>1 DEF Wait
<1>8. k # 4 * i - 2
  <2> SUFFICES ASSUME k = 4 * i - 2 PROVE FALSE
      OBVIOUS
  <2>1. direct[k] = Draw(i)
        BY <1>5, <1>6 DEF DirectFrame
  <2> QED BY <1>2, <2>1 DEF Draw
<1>9. k # 4 * i - 1
  <2> SUFFICES ASSUME k = 4 * i - 1 PROVE FALSE
      OBVIOUS
  <2>1. direct[k] = Signal(2 * i)
        BY <1>5, <1>6 DEF DirectFrame
  <2> QED BY <1>2, <2>1 DEF Signal
<1>10. k = 4 * i /\ direct[k] = Present(i)
      BY <1>3, <1>5, <1>6, <1>7, <1>8, <1>9 DEF DirectFrame
<1>11. f = i
      BY <1>2, <1>10 DEF Present
<1> QED BY <1>1, <1>2, <1>4, <1>10, <1>11

\* The wait for the direct queue is one for the compute queue: the direct queue
\* itself waited for the frame's dispatch.
LEMMA AdvanceFrameStep == IInv /\ AdvanceFrame => IInv'
<1> SUFFICES ASSUME IInv, AdvanceFrame PROVE IInv'
    OBVIOUS
<1> USE DEF AdvanceFrame, MayAdvance, computeQueue, directQueue
<1>0. TypeOK /\ Submitted /\ ComputeLog /\ DirectLog /\ FenceFollows /\ TakeTurns /\ SlotsKept
      BY DEF IInv
<1>1. n \in Nat /\ slot \in Slots /\ last[slot] \in Nat /\ drawn \in Nat /\ computed \in Nat
      BY <1>0 DEF TypeOK
<1>2. last[slot] \in 1 .. n /\ drawn >= 4 * last[slot]
      BY <1>1, PresentedMeans
<1>3. /\ last' \in [Slots -> Nat \ {0}] /\ last'[slot] = n + 1
      /\ \A s \in Slots : s # slot => last'[s] = last[s]
      BY <1>0, <1>1 DEF TypeOK
<1>4. TypeOK'
      BY <1>0, <1>3 DEF TypeOK
<1>5. Submitted'
      BY <1>0 DEF Submitted
<1>6. ComputeLog' /\ DirectLog'
      BY <1>0 DEF ComputeLog, DirectLog, ComputeFrame, DirectFrame
<1>7. FenceFollows' /\ TakeTurns'
      BY <1>0 DEF FenceFollows, TakeTurns
<1>8. SlotsKept'
  <2>1. ASSUME NEW i \in 1 .. n
        PROVE  /\ i <= last'[compute[3 * i - 2].slot]
               /\ compute[3 * i - 2].slot = slot => computed >= 3 * i - 2
    <3>1. compute[3 * i - 2].slot \in Slots
      <4>1. ComputeFrame(i)
            BY <1>0 DEF ComputeLog
      <4>2. 3 * i - 2 <= Len(compute)
            BY <1>0, <1>1 DEF Submitted
      <4> QED BY <4>1, <4>2 DEF ComputeFrame
    <3>2. i <= last[compute[3 * i - 2].slot]
          BY <1>0 DEF SlotsKept
    <3>3. CASE compute[3 * i - 2].slot = slot
      <4>1. drawn >= 4 * i - 3
            BY <1>1, <1>2, <3>2, <3>3
      <4>2. computed >= 3 * i - 1
            BY <1>0, <4>1 DEF TakeTurns
      <4>3. i <= n + 1
            BY <1>1
      <4>4. last'[compute[3 * i - 2].slot] = n + 1
            BY <1>3, <3>3
      <4>5. computed >= 3 * i - 2
            BY <1>1, <4>2
      <4> QED BY <4>3, <4>4, <4>5
    <3>4. CASE compute[3 * i - 2].slot # slot
          BY <1>3, <3>1, <3>2, <3>4
    <3> QED BY <3>3, <3>4
  <2> QED BY <1>3, <2>1 DEF SlotsKept
<1> QED BY <1>4, <1>5, <1>6, <1>7, <1>8 DEF IInv

LEMMA UpdateSwapChainStep == IInv /\ UpdateSwapChain => IInv'
<1> SUFFICES ASSUME IInv, UpdateSwapChain PROVE IInv'
    OBVIOUS
<1> USE DEF UpdateSwapChain, Flushed, computeQueue, directQueue
<1>0. TypeOK /\ Submitted /\ ComputeLog /\ DirectLog /\ FenceFollows /\ TakeTurns /\ SlotsKept
      BY DEF IInv
<1>1. n \in Nat /\ computed \in Nat /\ drawn = 4 * n /\ Len(compute) = 3 * n
      BY <1>0 DEF TypeOK, Submitted
<1>2. TypeOK'
      BY <1>0 DEF TypeOK
<1>3. Submitted'
      BY <1>0 DEF Submitted
<1>4. ComputeLog' /\ DirectLog'
      BY <1>0 DEF ComputeLog, DirectLog, ComputeFrame, DirectFrame
<1>5. FenceFollows' /\ TakeTurns'
      BY <1>0 DEF FenceFollows, TakeTurns
<1>6. SlotsKept'
  <2>1. ASSUME NEW i \in 1 .. n
        PROVE  i <= last'[compute[3 * i - 2].slot] /\ computed >= 3 * i - 2
    <3>1. ComputeFrame(i)
          BY <1>0 DEF ComputeLog
    <3>2. compute[3 * i - 2].slot \in Slots
          BY <1>1, <3>1 DEF ComputeFrame
    <3>3. computed >= 3 * i - 1
          BY <1>0, <1>1 DEF TakeTurns
    <3> QED BY <1>1, <3>2, <3>3
  <2> QED BY <2>1 DEF SlotsKept
<1> QED BY <1>2, <1>3, <1>4, <1>5, <1>6 DEF IInv

\* One more signal behind the frames, when the direct queue has nothing left.
LEMMA ResetResourcesStep == IInv /\ ResetResources => IInv'
<1> SUFFICES ASSUME IInv, ResetResources PROVE IInv'
    OBVIOUS
<1> USE DEF ResetResources, Flushed, NextValue, directQueue
<1>0. TypeOK /\ Submitted /\ ComputeLog /\ DirectLog /\ FenceFollows /\ TakeTurns /\ SlotsKept
      BY DEF IInv
<1>1. /\ n \in Nat /\ slot \in Slots /\ compute \in Seq(Commands) /\ drawn = 4 * n
      /\ Len(compute) = 3 * n /\ Len(direct) = 4 * n /\ mFenceValue = 2 * n
      BY <1>0 DEF TypeOK, Submitted
<1> DEFINE c == Signal(2 * n + 1)
<1>2. c \in Commands /\ compute' = Append(compute, c)
  <2>1. 2 * n + 1 \in Nat /\ mFenceValue' = 2 * n + 1
        BY <1>1
  <2> QED BY <1>1, <2>1, AreCommands DEF Signals
<1> HIDE DEF c
<1>3. /\ compute' \in Seq(Commands) /\ Len(compute') = 3 * n + 1 /\ compute'[3 * n + 1] = c
      /\ \A k \in 1 .. 3 * n : compute'[k] = compute[k]
  <2>0. compute \in Seq(Commands) /\ c \in Commands
        BY <1>1, <1>2
  <2>1. /\ Append(compute, c) \in Seq(Commands) /\ Len(Append(compute, c)) = Len(compute) + 1
        /\ Append(compute, c)[Len(compute) + 1] = c
        /\ \A k \in 1 .. Len(compute) : Append(compute, c)[k] = compute[k]
        BY <2>0, Appended
  <2> QED BY <1>1, <1>2, <2>1
<1>4. TypeOK'
      BY <1>0, <1>1, <1>3 DEF TypeOK
<1>5. Submitted'
      BY <1>0, <1>1, <1>3 DEF Submitted
<1>6. ComputeLog'
  <2>1. ASSUME NEW i \in 1 .. n PROVE ComputeFrame(i)'
    <3>1. ComputeFrame(i) /\ i \in Nat \ {0}
          BY <1>0, <1>1 DEF ComputeLog
    <3>2. /\ Len(compute) + 1 # 3 * i - 2 /\ Len(compute) + 1 # 3 * i - 1
          /\ Len(compute) + 1 # 3 * i
          BY <1>1
    <3> QED BY <1>0, <1>1, <1>2, <3>1, <3>2, ComputeExtended
  <2>2. compute'[3 * n + 1] = Signal(2 * n + 1)
        BY <1>3 DEF c
  <2> QED BY <2>1, <2>2 DEF ComputeLog
<1>7. DirectLog'
      BY <1>0 DEF DirectLog, DirectFrame
<1>8. FenceFollows' /\ TakeTurns'
      BY <1>0 DEF FenceFollows, TakeTurns
<1>9. SlotsKept'
  <2>1. ASSUME NEW i \in 1 .. n PROVE compute'[3 * i - 2] = compute[3 * i - 2]
    <3>1. 3 * i - 2 \in 1 .. 3 * n
          BY <1>1
    <3> QED BY <1>3, <3>1
  <2> QED BY <1>0, <2>1 DEF SlotsKept
<1> QED BY <1>4, <1>5, <1>6, <1>7, <1>8, <1>9 DEF IInv

LEMMA CreateResourcesStep == IInv /\ CreateResources => IInv'
<1> SUFFICES ASSUME IInv, CreateResources PROVE IInv'
    OBVIOUS
<1> USE DEF CreateResources
<1>1. TypeOK' /\ Submitted' /\ ComputeLog'
      BY DEF TypeOK, Submitted, ComputeLog
<1>2. DirectLog' /\ FenceFollows' /\ TakeTurns' /\ SlotsKept'
      BY DEF DirectLog, FenceFollows, TakeTurns, SlotsKept
<1> QED BY <1>1, <1>2 DEF IInv

LEMMA DestroyedStep == IInv /\ Destroyed => IInv'
<1> SUFFICES ASSUME IInv, Destroyed PROVE IInv'
    OBVIOUS
<1> USE DEF Destroyed, computeQueue, directQueue
<1>0. TypeOK /\ Submitted /\ ComputeLog /\ DirectLog /\ FenceFollows /\ TakeTurns /\ SlotsKept
      BY DEF IInv
<1>1. TypeOK' /\ Submitted'
      BY <1>0 DEF TypeOK, Submitted
<1>2. ComputeLog' /\ DirectLog'
      BY <1>0 DEF ComputeLog, DirectLog, ComputeFrame, DirectFrame
<1>3. FenceFollows' /\ TakeTurns' /\ SlotsKept'
      BY <1>0 DEF FenceFollows, TakeTurns, SlotsKept
<1> QED BY <1>1, <1>2, <1>3 DEF IInv

-----------------------------------------------------------------------------
(* Steps of the device: the fence is where the two queues are, and lets each *)
(* of them past its wait only when the other is where the frame needs it.    *)

LEMMA ExecuteComputeStep == IInv /\ ExecuteCompute => IInv'
<1> SUFFICES ASSUME IInv, ExecuteCompute PROVE IInv'
    OBVIOUS
<1> USE DEF ExecuteCompute, cpu, directQueue
<1>0. TypeOK /\ Submitted /\ ComputeLog /\ DirectLog /\ FenceFollows /\ TakeTurns /\ SlotsKept
      BY DEF IInv
<1>1. /\ n \in Nat /\ computed \in Nat /\ drawn \in Nat /\ fence \in Nat
      /\ Len(compute) \in Nat /\ computed < Len(compute)
      BY <1>0 DEF TypeOK
<1>2. fence' \in Nat /\ FenceFollows' /\ TakeTurns'
  <2>1. ASSUME NEW i \in 1 .. n, computed = 3 * i - 3, compute[computed + 1].op = "dispatch"
        PROVE  fence' \in Nat /\ FenceFollows' /\ TakeTurns'
    <3>1. fence' = fence /\ computed' = 3 * i - 2 /\ drawn' = drawn /\ n' = n
          BY <1>1, <2>1 DEF Signalled
    <3>2. ASSUME NEW j \in 1 .. n
          PROVE  /\ computed' >= 3 * j - 1 <=> computed >= 3 * j - 1
                 /\ computed' >= 3 * j <=> computed >= 3 * j
          BY <1>1, <2>1, <3>1
    <3>3. computed <= 3 * n
          BY <1>1, <2>1
    <3>4. FenceFollows'
          BY <1>0, <3>1, <3>2, <3>3 DEF FenceFollows
    <3>5. TakeTurns'
          BY <1>0, <3>1, <3>2 DEF TakeTurns
    <3> QED BY <1>1, <3>1, <3>4, <3>5
  <2>2. ASSUME NEW i \in 1 .. n, computed = 3 * i - 2, compute[computed + 1] = Signal(2 * i - 1)
        PROVE  fence' \in Nat /\ FenceFollows' /\ TakeTurns'
    <3>1. fence' = 2 * i - 1 /\ computed' = 3 * i - 1
          BY <1>1, <2>2 DEF Signalled, Signal
    <3>2. i > 1 => drawn >= 4 * (i - 1) - 1
      <4> SUFFICES ASSUME i > 1 PROVE drawn >= 4 * (i - 1) - 1
          OBVIOUS
      <4>1. i - 1 \in 1 .. n /\ computed >= 3 * (i - 1)
            BY <1>1, <2>2
      <4> QED BY <1>0, <4>1 DEF TakeTurns
    <3>3. fence < 2 * i - 1
      <4>1. ~(computed >= 3 * i - 1)
            BY <1>1, <2>2
      <4> QED BY <1>0, <1>1, <4>1 DEF FenceFollows
    <3>4. \A j \in 1 .. n : j < i => drawn >= 4 * j - 1
          BY <1>1, <3>2
    <3>5. \A j \in 1 .. n : drawn >= 4 * j - 1 => j < i
          BY <1>0, <1>1, <3>3 DEF FenceFollows
    <3>6. FenceFollows'
      <4>1. ASSUME NEW j \in 1 .. n PROVE fence' >= 2 * j - 1 <=> computed' >= 3 * j - 1
            BY <1>1, <3>1
      <4>2. ASSUME NEW j \in 1 .. n PROVE fence' >= 2 * j <=> drawn >= 4 * j - 1
        <5>1. fence' >= 2 * j <=> j < i
              BY <3>1
        <5> QED BY <3>4, <3>5, <5>1
      <4>3. fence' <= 2 * n
            BY <1>1, <3>1
      <4> QED BY <4>1, <4>2, <4>3 DEF FenceFollows
    <3>7. TakeTurns'
          BY <1>0, <1>1, <2>2, <3>1 DEF TakeTurns
    <3> QED BY <3>1, <3>6, <3>7
  <2>3. ASSUME NEW i \in 1 .. n, computed = 3 * i - 1, compute[computed + 1] = Wait(2 * i)
        PROVE  fence' \in Nat /\ FenceFollows' /\ TakeTurns'
    <3>1. fence' = fence /\ computed' = 3 * i /\ fence >= 2 * i
          BY <1>1, <2>3 DEF Signalled, MayExecute, Wait
    <3>2. FenceFollows'
          BY <1>0, <1>1, <2>3, <3>1 DEF FenceFollows
    <3>3. drawn >= 4 * i - 1
          BY <1>0, <3>1 DEF FenceFollows
    <3>4. TakeTurns'
          BY <1>0, <1>1, <2>3, <3>1, <3>3 DEF TakeTurns
    <3> QED BY <1>1, <3>1, <3>2, <3>4
  <2>4. ASSUME computed = 3 * n, drawn = 4 * n, compute[computed + 1] = Signal(2 * n + 1)
        PROVE  fence' \in Nat /\ FenceFollows' /\ TakeTurns'
    <3>1. fence' = 2 * n + 1 /\ computed' = 3 * n + 1
          BY <1>1, <2>4 DEF Signalled, Signal
    <3> QED BY <1>0, <1>1, <2>4, <3>1 DEF FenceFollows, TakeTurns
  <2> QED BY <1>1, <2>1, <2>2, <2>3, <2>4, NextOfCompute
<1>3. TypeOK'
      BY <1>0, <1>1, <1>2 DEF TypeOK
<1>4. Submitted'
      BY <1>0 DEF Submitted
<1>5. ComputeLog' /\ DirectLog'
      BY <1>0 DEF ComputeLog, DirectLog, ComputeFrame, DirectFrame
<1>6. SlotsKept'
      BY <1>0, <1>1 DEF SlotsKept
<1> QED BY <1>2, <1>3, <1>4, <1>5, <1>6 DEF IInv

LEMMA ExecuteDirectStep == IInv /\ ExecuteDirect => IInv'
<1> SUFFICES ASSUME IInv, ExecuteDirect PROVE IInv'
    OBVIOUS
<1> USE DEF ExecuteDirect, cpu, computeQueue
<1>0. TypeOK /\ Submitted /\ ComputeLog /\ DirectLog /\ FenceFollows /\ TakeTurns /\ SlotsKept
      BY DEF IInv
<1>1. /\ n \in Nat /\ computed \in Nat /\ drawn \in Nat /\ fence \in Nat
      /\ Len(direct) \in Nat /\ drawn < Len(direct)
      BY <1>0 DEF TypeOK
<1>2. fence' \in Nat /\ FenceFollows' /\ TakeTurns'
  <2>1. ASSUME NEW i \in 1 .. n, drawn = 4 * i - 4, direct[drawn + 1] = Wait(2 * i - 1)
        PROVE  fence' \in Nat /\ FenceFollows' /\ TakeTurns'
    <3>1. fence' = fence /\ drawn' = 4 * i - 3 /\ fence >= 2 * i - 1
          BY <1>1, <2>1 DEF Signalled, MayExecute, Wait
    <3>2. FenceFollows'
          BY <1>0, <1>1, <2>1, <3>1 DEF FenceFollows
    <3>3. computed >= 3 * i - 1
          BY <1>0, <3>1 DEF FenceFollows
    <3>4. TakeTurns'
          BY <1>0, <1>1, <2>1, <3>1, <3>3 DEF TakeTurns
    <3> QED BY <1>1, <3>1, <3>2, <3>4
  <2>2. ASSUME NEW i \in 1 .. n, drawn = 4 * i - 3, direct[drawn + 1] = Draw(i)
        PROVE  fence' \in Nat /\ FenceFollows' /\ TakeTurns'
    <3>1. fence' = fence /\ drawn' = 4 * i - 2
          BY <1>1, <2>2 DEF Signalled, Draw
    <3> QED BY <1>0, <1>1, <2>2, <3>1 DEF FenceFollows, TakeTurns
  <2>3. ASSUME NEW i \in 1 .. n, drawn = 4 * i - 2, direct[drawn + 1] = Signal(2 * i)
        PROVE  fence' \in Nat /\ FenceFollows' /\ TakeTurns'
    <3>1. fence' = 2 * i /\ drawn' = 4 * i - 1
          BY <1>1, <2>3 DEF Signalled, Signal
    <3>2. computed >= 3 * i - 1
          BY <1>0, <1>1, <2>3 DEF TakeTurns
    <3>3. fence < 2 * i
      <4>1. ~(drawn >= 4 * i - 1)
            BY <1>1, <2>3
      <4> QED BY <1>0, <1>1, <4>1 DEF FenceFollows
    <3>4. \A j \in 1 .. n : j <= i => computed >= 3 * j - 1
          BY <1>1, <3>2
    <3>5. \A j \in 1 .. n : computed >= 3 * j - 1 => j <= i
          BY <1>0, <1>1, <3>3 DEF FenceFollows
    <3>6. FenceFollows'
      <4>1. ASSUME NEW j \in 1 .. n PROVE fence' >= 2 * j - 1 <=> computed >= 3 * j - 1
        <5>1. fence' >= 2 * j - 1 <=> j <= i
              BY <3>1
        <5> QED BY <3>4, <3>5, <5>1
      <4>2. ASSUME NEW j \in 1 .. n PROVE fence' >= 2 * j <=> drawn' >= 4 * j - 1
            BY <1>1, <3>1
      <4>3. fence' <= 2 * n
            BY <1>1, <3>1
      <4> QED BY <4>1, <4>2, <4>3 DEF FenceFollows
    <3>7. TakeTurns'
          BY <1>0, <1>1, <2>3, <3>1 DEF TakeTurns
    <3> QED BY <3>1, <3>6, <3>7
  <2>4. ASSUME NEW i \in 1 .. n, drawn = 4 * i - 1, direct[drawn + 1] = Present(i)
        PROVE  fence' \in Nat /\ FenceFollows' /\ TakeTurns'
    <3>1. fence' = fence /\ drawn' = 4 * i
          BY <1>1, <2>4 DEF Signalled, Present
    <3> QED BY <1>0, <1>1, <2>4, <3>1 DEF FenceFollows, TakeTurns
  <2> QED BY <1>1, <2>1, <2>2, <2>3, <2>4, NextOfDirect
<1>3. TypeOK'
      BY <1>0, <1>1, <1>2 DEF TypeOK
<1>4. Submitted'
      BY <1>0, <1>1 DEF Submitted
<1>5. ComputeLog' /\ DirectLog'
      BY <1>0 DEF ComputeLog, DirectLog, ComputeFrame, DirectFrame
<1>6. SlotsKept'
      BY <1>0 DEF SlotsKept
<1> QED BY <1>2, <1>3, <1>4, <1>5, <1>6 DEF IInv

LEMMA StutterStep == IInv /\ UNCHANGED vars => IInv'
<1> SUFFICES ASSUME IInv, UNCHANGED vars PROVE IInv'
    OBVIOUS
<1> USE DEF vars
<1>0. TypeOK /\ Submitted /\ ComputeLog /\ DirectLog /\ FenceFollows /\ TakeTurns /\ SlotsKept
      BY DEF IInv
<1>1. TypeOK' /\ Submitted'
      BY <1>0 DEF TypeOK, Submitted
<1>2. ComputeLog' /\ DirectLog'
      BY <1>0 DEF ComputeLog, DirectLog, ComputeFrame, DirectFrame
<1>3. FenceFollows' /\ TakeTurns' /\ SlotsKept'
      BY <1>0 DEF FenceFollows, TakeTurns, SlotsKept
<1> QED BY <1>1, <1>2, <1>3 DEF IInv

-----------------------------------------------------------------------------
(* Where a queue is when a command of a kind runs.                           *)

LEMMA RunningDispatch ==
  ASSUME IInv, Running(compute, computed, "dispatch")
  PROVE  \E i \in 1 .. n : computed = 3 * i - 3
<1>1. computed < Len(compute) /\ compute[computed + 1].op = "dispatch"
      BY DEF Running
<1>2. \A v : Signal(v).op # "dispatch" /\ Wait(v).op # "dispatch"
      BY DEF Signal, Wait
<1>3. \A v : compute[computed + 1] # Signal(v) /\ compute[computed + 1] # Wait(v)
      BY <1>1, <1>2
<1> QED BY <1>1, <1>3, NextOfCompute

LEMMA RunningDraw ==
  ASSUME IInv, Running(direct, drawn, "draw")
  PROVE  \E i \in 1 .. n : drawn = 4 * i - 3 /\ direct[drawn + 1] = Draw(i)
<1>1. drawn < Len(direct) /\ direct[drawn + 1].op = "draw"
      BY DEF Running
<1>2. \A v : Signal(v).op # "draw" /\ Wait(v).op # "draw" /\ Present(v).op # "draw"
      BY DEF Signal, Wait, Present
<1>3. \A v : /\ direct[drawn + 1] # Signal(v) /\ direct[drawn + 1] # Wait(v)
             /\ direct[drawn + 1] # Present(v)
      BY <1>1, <1>2
<1> QED BY <1>1, <1>3, NextOfDirect

LEMMA ComputeSignals ==
  ASSUME IInv, Running(compute, computed, "signal")
  PROVE  \/ \E i \in 1 .. n : computed = 3 * i - 2 /\ compute[computed + 1] = Signal(2 * i - 1)
         \/ computed = 3 * n /\ compute[computed + 1] = Signal(2 * n + 1)
<1>1. computed < Len(compute) /\ compute[computed + 1].op = "signal"
      BY DEF Running
<1>2. \A v : Wait(v).op # "signal"
      BY DEF Wait
<1>3. \A v : compute[computed + 1] # Wait(v)
      BY <1>1, <1>2
<1>4. compute[computed + 1].op # "dispatch"
      BY <1>1
<1> QED BY <1>1, <1>3, <1>4, NextOfCompute

LEMMA DirectSignals ==
  ASSUME IInv, Running(direct, drawn, "signal")
  PROVE  \E i \in 1 .. n : drawn = 4 * i - 2 /\ direct[drawn + 1] = Signal(2 * i)
<1>1. drawn < Len(direct) /\ direct[drawn + 1].op = "signal"
      BY DEF Running
<1>2. \A v : Draw(v).op # "signal" /\ Wait(v).op # "signal" /\ Present(v).op # "signal"
      BY DEF Draw, Wait, Present
<1>3. \A v : /\ direct[drawn + 1] # Draw(v) /\ direct[drawn + 1] # Wait(v)
             /\ direct[drawn + 1] # Present(v)
      BY <1>1, <1>2
<1> QED BY <1>1, <1>3, NextOfDirect

-----------------------------------------------------------------------------
(* The results.                                                              *)

\* Where the queues are follows from the frames submitted, in every reachable
\* state, for every length of the swap chain (vic20.cpp:30-105).
THEOREM Inductive == Spec => []IInv
<1>1. IInv /\ [Next]_vars => IInv'
      BY RecordComputeStep, BlockQueueUntilStep, ExecuteCommandsStep, WaitOnQueueStep,
         PresentSurfaceStep, AdvanceFrameStep, UpdateSwapChainStep, ResetResourcesStep,
         CreateResourcesStep, DestroyedStep, ExecuteComputeStep, ExecuteDirectStep,
         StutterStep DEF Next, Gui
<1> QED BY <1>1, Start, PTL DEF Spec

LEMMA NeverBoth == IInv => TargetExclusive
<1> SUFFICES ASSUME IInv, Running(compute, computed, "dispatch"), Running(direct, drawn, "draw")
             PROVE  FALSE
    BY DEF TargetExclusive
<1>0. TypeOK /\ TakeTurns
      BY DEF IInv
<1>1. n \in Nat /\ computed \in Nat /\ drawn \in Nat
      BY <1>0 DEF TypeOK
<1>2. PICK i \in 1 .. n : computed = 3 * i - 3
      BY RunningDispatch
<1>3. PICK j \in 1 .. n : drawn = 4 * j - 3
      BY RunningDraw
<1>4. computed >= 3 * j - 1
      BY <1>0, <1>1, <1>3 DEF TakeTurns
<1>5. ~(computed >= 3 * j)
      BY <1>0, <1>1, <1>3 DEF TakeTurns
<1> QED BY <1>1, <1>2, <1>4, <1>5

\* The queues use the texture in turn: where the direct queue draws, the compute
\* queue stands behind the signal of the same frame (vic20.cpp:36 and :100).
THEOREM TargetInTurn == Spec => []TargetExclusive
BY NeverBoth, Inductive, PTL

\* What is drawn is the picture dispatched for the same frame (vic20.cpp:35).
THEOREM PicturesMatch == Spec => []DrawsOwnPicture
<1>1. IInv => DrawsOwnPicture
  <2> SUFFICES ASSUME IInv, Running(direct, drawn, "draw")
               PROVE  Shows(direct[drawn + 1].arg)
      BY DEF DrawsOwnPicture
  <2>0. TypeOK /\ Submitted /\ ComputeLog /\ TakeTurns
        BY DEF IInv
  <2>1. n \in Nat /\ computed \in Nat /\ drawn \in Nat /\ computed <= Len(compute) /\ Len(compute) \in Nat
        BY <2>0 DEF TypeOK
  <2>2. PICK j \in 1 .. n : drawn = 4 * j - 3 /\ direct[drawn + 1] = Draw(j)
        BY RunningDraw
  <2>3. computed = 3 * j - 1
        BY <2>0, <2>1, <2>2 DEF TakeTurns
  <2>4. ComputeFrame(j)
        BY <2>0 DEF ComputeLog
  <2>5. compute[3 * j - 2].op = "dispatch" /\ compute[3 * j - 2].arg = j
        BY <2>1, <2>3, <2>4 DEF ComputeFrame
  <2>6. compute[computed].op # "dispatch"
        BY <2>1, <2>3, <2>4 DEF ComputeFrame, Signal
  <2>7. /\ 3 * j - 2 \in 1 .. computed
        /\ \A k \in (3 * j - 2) + 1 .. computed : k = computed
        BY <2>1, <2>3
  <2> QED BY <2>2, <2>5, <2>6, <2>7 DEF Shows, Draw
<1> QED BY <1>1, Inductive, PTL

\* What the thread reuses or releases, the compute queue is done with, although the
\* thread waits for the direct queue only (compute.cpp:50 and :54, vic20.cpp:143).
THEOREM SlotsReuseSafely == Spec => []SlotIdle
<1>1. IInv => SlotIdle
  <2> SUFFICES ASSUME IInv PROVE SlotIdle
      OBVIOUS
  <2>0. TypeOK /\ Submitted /\ ComputeLog /\ TakeTurns /\ SlotsKept
        BY DEF IInv
  <2>1. /\ n \in Nat /\ computed \in Nat /\ drawn \in Nat /\ computed <= Len(compute)
        /\ Len(compute) \in Nat /\ Len(compute) <= 3 * n + 1
        BY <2>0 DEF TypeOK, Submitted
  <2>2. ASSUME NEW c \in Dispatches
        PROVE  \E i \in 1 .. n : /\ compute[3 * i - 2] = c /\ computed < 3 * i - 2
                                 /\ c.characters = c.slot
    <3>1. PICK k \in computed + 1 .. Len(compute) : compute[k] = c /\ c.op = "dispatch"
          BY DEF Dispatches, Pending
    <3>2. k \in Nat \ {0}
          BY <2>1
    <3>3. PICK i \in Nat \ {0} : k = 3 * i - 2 \/ k = 3 * i - 1 \/ k = 3 * i
          BY <3>2, Thirds
    <3>4. CASE i \in 1 .. n
      <4>1. ComputeFrame(i)
            BY <2>0, <3>4 DEF ComputeLog
      <4>2. k = 3 * i - 2
            BY <2>1, <3>1, <3>3, <4>1 DEF ComputeFrame, Signal, Wait
      <4>3. compute[3 * i - 2].characters = compute[3 * i - 2].slot
            BY <2>1, <4>1, <4>2 DEF ComputeFrame
      <4> QED BY <2>1, <3>1, <3>4, <4>2, <4>3
    <3>5. CASE i \notin 1 .. n
      <4>1. k = 3 * n + 1 /\ Len(compute) = 3 * n + 1
            BY <2>1, <3>3, <3>5
      <4>2. compute[k].op = "signal"
            BY <2>0, <4>1 DEF ComputeLog, Signal
      <4> QED BY <3>1, <4>2
    <3> QED BY <3>4, <3>5
  <2>3. ASSUME pc = "record", NEW c \in Dispatches PROVE c.slot # slot /\ c.characters # slot
    <3>1. PICK i \in 1 .. n : /\ compute[3 * i - 2] = c /\ computed < 3 * i - 2
                              /\ c.characters = c.slot
          BY <2>2
    <3> QED BY <2>0, <2>1, <2>3, <3>1 DEF SlotsKept
  <2>4. ASSUME (pc = "record" /\ Flushed) \/ pc \in {"reset", "done"} PROVE Dispatches = {}
    <3> SUFFICES ASSUME NEW c \in Dispatches PROVE FALSE
        OBVIOUS
    <3>1. PICK i \in 1 .. n : computed < 3 * i - 2
          BY <2>2
    <3>2. drawn = 4 * n
          BY <2>0, <2>4 DEF Submitted, Flushed
    <3>3. computed >= 3 * i - 1
          BY <2>0, <2>1, <3>2 DEF TakeTurns
    <3> QED BY <2>1, <3>1, <3>3
  <2> QED BY <2>3, <2>4 DEF SlotIdle
<1> QED BY <1>1, Inductive, PTL

\* Neither queue takes the fence back (compute.cpp:63-69).
THEOREM FenceOnlyRises == Spec => []FenceIncreases
<1>1. IInv => FenceIncreases
  <2> SUFFICES ASSUME IInv PROVE FenceIncreases
      OBVIOUS
  <2>0. TypeOK /\ FenceFollows
        BY DEF IInv
  <2>1. n \in Nat /\ computed \in Nat /\ drawn \in Nat /\ fence \in Nat
        BY <2>0 DEF TypeOK
  <2>2. ASSUME Running(compute, computed, "signal") PROVE compute[computed + 1].arg > fence
    <3>1. CASE computed = 3 * n /\ compute[computed + 1] = Signal(2 * n + 1)
          BY <2>0, <2>1, <3>1 DEF FenceFollows, Signal
    <3>2. ASSUME NEW i \in 1 .. n, computed = 3 * i - 2, compute[computed + 1] = Signal(2 * i - 1)
          PROVE  compute[computed + 1].arg > fence
      <4>1. ~(computed >= 3 * i - 1)
            BY <2>1, <3>2
      <4>2. fence < 2 * i - 1
            BY <2>0, <2>1, <4>1 DEF FenceFollows
      <4> QED BY <2>1, <3>2, <4>2 DEF Signal
    <3> QED BY <2>2, <3>1, <3>2, ComputeSignals
  <2>3. ASSUME Running(direct, drawn, "signal") PROVE direct[drawn + 1].arg > fence
    <3>1. PICK i \in 1 .. n : drawn = 4 * i - 2 /\ direct[drawn + 1] = Signal(2 * i)
          BY <2>3, DirectSignals
    <3>2. ~(drawn >= 4 * i - 1)
          BY <2>1, <3>1
    <3>3. fence < 2 * i
          BY <2>0, <2>1, <3>2 DEF FenceFollows
    <3> QED BY <2>1, <3>1, <3>3 DEF Signal
  <2> QED BY <2>2, <2>3 DEF FenceIncreases
<1> QED BY <1>1, Inductive, PTL

-----------------------------------------------------------------------------
(* The refinement of Handoff.  AtTarget and AtShown say which frame's picture *)
(* the texture holds and which was drawn last, from how far the queues are.   *)

AtTarget(f) ==
  /\ f \in 0 .. n
  /\ f > 0 => computed >= 3 * f - 2
  /\ f < n => computed <= 3 * f

AtShown(g) ==
  /\ g \in 0 .. n
  /\ g > 0 => drawn >= 4 * g - 2
  /\ g < n => drawn <= 4 * g + 1

Filling == Running(compute, computed, "dispatch")
Drawing == Running(direct, drawn, "draw")
Picture == Latest(compute, computed, "dispatch")
Shown == Latest(direct, drawn, "draw")

LEMMA LatestIs ==
  ASSUME NEW q, NEW done \in Nat, NEW op, NEW k \in 1 .. done, q[k].op = op,
         \A j \in k + 1 .. done : q[j].op # op
  PROVE  Latest(q, done, op) = q[k].arg
<1> DEFINE places == {j \in 1 .. done : q[j].op = op}
<1>1. k \in places /\ \A j \in places : j \in 1 .. done /\ j <= k
  <2>1. \A j \in places : j \in 1 .. done /\ ~(j \in k + 1 .. done)
        OBVIOUS
  <2> QED BY <2>1
<1>2. \A m \in places : (\A j \in places : j <= m) => m = k
      BY <1>1
<1>3. (CHOOSE m \in places : \A j \in places : j <= m) = k
      BY <1>1, <1>2
<1> QED BY <1>1, <1>3 DEF Latest

LEMMA LatestNone ==
  ASSUME NEW q, NEW done, NEW op, \A j \in 1 .. done : q[j].op # op
  PROVE  Latest(q, done, op) = 0
BY DEF Latest

LEMMA TargetHolds ==
  ASSUME IInv, NEW f, AtTarget(f)
  PROVE  Picture = f
<1>1. TypeOK /\ Submitted /\ ComputeLog
      BY DEF IInv
<1>2. /\ n \in Nat /\ computed \in Nat /\ Len(compute) \in Nat
      /\ computed <= Len(compute) /\ Len(compute) <= 3 * n + 1 /\ f \in 0 .. n
      BY <1>1 DEF TypeOK, Submitted, AtTarget
<1>3. ASSUME NEW j \in 1 .. computed, 3 * f - 2 < j PROVE compute[j].op # "dispatch"
  <2>1. CASE j = 3 * n + 1
        BY <1>1, <1>2, <2>1 DEF ComputeLog, Signal
  <2>2. CASE j # 3 * n + 1
    <3>1. f > 0 /\ f \in 1 .. n /\ (j = 3 * f - 1 \/ j = 3 * f)
          BY <1>2, <1>3, <2>2 DEF AtTarget
    <3>2. ComputeFrame(f)
          BY <1>1, <3>1 DEF ComputeLog
    <3> QED BY <1>2, <3>1, <3>2 DEF ComputeFrame, Signal, Wait
  <2> QED BY <2>1, <2>2
<1>4. CASE f = 0
  <2>1. \A j \in 1 .. computed : compute[j].op # "dispatch"
        BY <1>2, <1>3, <1>4
  <2> QED BY <1>4, <2>1, LatestNone DEF Picture
<1>5. CASE f > 0
  <2>1. f \in 1 .. n /\ 3 * f - 2 \in 1 .. computed
        BY <1>2, <1>5 DEF AtTarget
  <2>2. compute[3 * f - 2].op = "dispatch" /\ compute[3 * f - 2].arg = f
        BY <1>1, <1>2, <2>1 DEF ComputeLog, ComputeFrame
  <2>3. \A j \in (3 * f - 2) + 1 .. computed : compute[j].op # "dispatch"
        BY <1>2, <1>3, <2>1
  <2> DEFINE k == 3 * f - 2
  <2>4. /\ computed \in Nat /\ k \in 1 .. computed /\ compute[k].op = "dispatch"
        /\ \A j \in k + 1 .. computed : compute[j].op # "dispatch"
        BY <1>2, <2>1, <2>2, <2>3
  <2>5. compute[k].arg = f
        BY <2>2
  <2> HIDE DEF k
  <2>6. Latest(compute, computed, "dispatch") = compute[k].arg
        BY <2>4, LatestIs
  <2> QED BY <2>5, <2>6 DEF Picture
<1> QED BY <1>2, <1>4, <1>5

LEMMA ShownHolds ==
  ASSUME IInv, NEW g, AtShown(g)
  PROVE  Shown = g
<1>1. TypeOK /\ Submitted /\ DirectLog
      BY DEF IInv
<1>2. /\ n \in Nat /\ drawn \in Nat /\ Len(direct) \in Nat
      /\ drawn <= Len(direct) /\ Len(direct) <= 4 * n /\ g \in 0 .. n
      BY <1>1 DEF TypeOK, Submitted, AtShown
<1>3. ASSUME NEW j \in 1 .. drawn, 4 * g - 2 < j PROVE direct[j].op # "draw"
  <2>1. CASE j <= 4 * g
    <3>1. g \in 1 .. n /\ (j = 4 * g - 1 \/ j = 4 * g)
          BY <1>2, <1>3, <2>1
    <3>2. DirectFrame(g)
          BY <1>1, <3>1 DEF DirectLog
    <3>3. CASE j = 4 * g - 1
      <4>1. direct[4 * g - 1] = Signal(2 * g)
            BY <1>2, <3>1, <3>2, <3>3 DEF DirectFrame
      <4> QED BY <3>3, <4>1 DEF Signal
    <3>4. CASE j = 4 * g
      <4>1. direct[4 * g] = Present(g)
            BY <1>2, <3>1, <3>2, <3>4 DEF DirectFrame
      <4> QED BY <3>4, <4>1 DEF Present
    <3> QED BY <3>1, <3>3, <3>4
  <2>2. CASE j > 4 * g
    <3>1. g + 1 \in 1 .. n /\ j = 4 * (g + 1) - 3
          BY <1>2, <1>3, <2>2 DEF AtShown
    <3>2. DirectFrame(g + 1)
          BY <1>1, <3>1 DEF DirectLog
    <3>3. direct[4 * (g + 1) - 3] = Wait(2 * (g + 1) - 1)
          BY <1>2, <3>1, <3>2 DEF DirectFrame
    <3> QED BY <3>1, <3>3 DEF Wait
  <2> QED BY <1>2, <2>1, <2>2
<1>4. CASE g = 0
  <2>1. \A j \in 1 .. drawn : direct[j].op # "draw"
        BY <1>2, <1>3, <1>4
  <2> QED BY <1>4, <2>1, LatestNone DEF Shown
<1>5. CASE g > 0
  <2>1. g \in 1 .. n /\ 4 * g - 2 \in 1 .. drawn
        BY <1>2, <1>5 DEF AtShown
  <2>2. direct[4 * g - 2] = Draw(g)
        BY <1>1, <1>2, <2>1 DEF DirectLog, DirectFrame
  <2>3. direct[4 * g - 2].op = "draw" /\ direct[4 * g - 2].arg = g
        BY <2>2 DEF Draw
  <2>4. \A j \in (4 * g - 2) + 1 .. drawn : direct[j].op # "draw"
        BY <1>2, <1>3, <2>1
  <2> DEFINE k == 4 * g - 2
  <2>5. /\ drawn \in Nat /\ k \in 1 .. drawn /\ direct[k].op = "draw"
        /\ \A j \in k + 1 .. drawn : direct[j].op # "draw"
        BY <1>2, <2>1, <2>3, <2>4
  <2>6. direct[k].arg = g
        BY <2>3
  <2> HIDE DEF k
  <2>7. Latest(direct, drawn, "draw") = direct[k].arg
        BY <2>5, LatestIs
  <2> QED BY <2>6, <2>7 DEF Shown
<1> QED BY <1>2, <1>4, <1>5

LEMMA FramesThere ==
  ASSUME IInv
  PROVE  (\E f \in 0 .. n : AtTarget(f)) /\ (\E g \in 0 .. n : AtShown(g))
<1>1. TypeOK /\ Submitted
      BY DEF IInv
<1>2. /\ n \in Nat /\ computed \in Nat /\ drawn \in Nat /\ Len(compute) \in Nat
      /\ Len(direct) \in Nat /\ computed <= Len(compute) /\ drawn <= Len(direct)
      /\ Len(compute) <= 3 * n + 1 /\ Len(direct) <= 4 * n
      BY <1>1 DEF TypeOK, Submitted
<1>3. \E f \in 0 .. n : AtTarget(f)
  <2>1. CASE computed = 0
    <3>1. AtTarget(0)
          BY <1>2, <2>1 DEF AtTarget
    <3> QED BY <1>2, <3>1
  <2>2. CASE computed # 0
    <3>1. PICK i \in Nat \ {0} : computed = 3 * i - 2 \/ computed = 3 * i - 1 \/ computed = 3 * i
      <4>1. computed \in Nat \ {0}
            BY <1>2, <2>2
      <4> QED BY <4>1, Thirds
    <3>2. CASE i \in 1 .. n
      <4>1. AtTarget(i)
            BY <1>2, <3>1, <3>2 DEF AtTarget
      <4> QED BY <1>2, <3>2, <4>1
    <3>3. CASE i \notin 1 .. n
      <4>1. AtTarget(n)
            BY <1>2, <3>1, <3>3 DEF AtTarget
      <4> QED BY <1>2, <4>1
    <3> QED BY <3>2, <3>3
  <2> QED BY <2>1, <2>2
<1>4. \E g \in 0 .. n : AtShown(g)
  <2>1. drawn + 3 \in Nat \ {0}
        BY <1>2
  <2>2. PICK i \in Nat \ {0} : \/ drawn + 3 = 4 * i - 3 \/ drawn + 3 = 4 * i - 2
                               \/ drawn + 3 = 4 * i - 1 \/ drawn + 3 = 4 * i
        BY <2>1, Quarters
  <2>3. i - 1 \in 0 .. n
        BY <1>2, <2>2
  <2>4. AtShown(i - 1)
        BY <1>2, <2>2, <2>3 DEF AtShown
  <2> QED BY <2>3, <2>4
<1> QED BY <1>3, <1>4

\* What an appended command does to the head of its queue.
LEMMA RunningAppended ==
  ASSUME NEW q \in Seq(Commands), NEW c \in Commands, NEW done \in 0 .. Len(q), NEW op
  PROVE  /\ done < Len(q) => (Running(Append(q, c), done, op) <=> Running(q, done, op))
         /\ done = Len(q) => /\ Running(Append(q, c), done, op) <=> c.op = op
                             /\ ~Running(q, done, op)
BY DEF Running

Located ==
  /\ \A f : AtTarget(f) => Picture = f
  /\ \A g : AtShown(g) => Shown = g
  /\ \E f \in 0 .. n : AtTarget(f)
  /\ \E g \in 0 .. n : AtShown(g)
  /\ Filling => \E i \in 1 .. n : computed = 3 * i - 3
  /\ Drawing => \E i \in 1 .. n : drawn = 4 * i - 3
  /\ ~(Filling /\ Drawing)

LEMMA Locates == IInv => Located
<1> SUFFICES ASSUME IInv PROVE Located
    OBVIOUS
<1>1. (\A f : AtTarget(f) => Picture = f) /\ (\A g : AtShown(g) => Shown = g)
      BY TargetHolds, ShownHolds
<1>2. Filling => \E i \in 1 .. n : computed = 3 * i - 3
      BY RunningDispatch DEF Filling
<1>3. Drawing => \E i \in 1 .. n : drawn = 4 * i - 3
      BY RunningDraw DEF Drawing
<1>4. ~(Filling /\ Drawing)
      BY NeverBoth DEF TargetExclusive, Filling, Drawing
<1> QED BY <1>1, <1>2, <1>3, <1>4, FramesThere DEF Located

LEMMA LocatesNext == IInv' => Located'
BY Locates, PTL

\* Where the thread submits nothing that fills or draws, no one notices.
LEMMA NothingHandedOver ==
  ASSUME Picture' = Picture, Shown' = Shown, Filling' <=> Filling, Drawing' <=> Drawing
  PROVE  UNCHANGED Target!vars
BY DEF Target!vars, Picture, Shown, Filling, Drawing

\* No step of the thread changes what the queues executed last.
LEMMA GuiKeepsPlaces ==
  ASSUME IInv, IInv', computed' = computed, drawn' = drawn,
         n' = n \/ (n' = n + 1 /\ pc = "record")
  PROVE  Picture' = Picture /\ Shown' = Shown
<1>1. Located /\ Located' /\ TypeOK /\ Submitted
      BY Locates, LocatesNext DEF IInv
<1>2. /\ n \in Nat /\ computed \in Nat /\ drawn \in Nat
      /\ pc = "record" => computed <= 3 * n /\ drawn <= 4 * n
      BY <1>1 DEF TypeOK, Submitted
<1>3. PICK f \in 0 .. n : AtTarget(f)
      BY <1>1 DEF Located
<1>4. PICK g \in 0 .. n : AtShown(g)
      BY <1>1 DEF Located
<1>5. AtTarget(f)'
      BY <1>2, <1>3 DEF AtTarget
<1>6. AtShown(g)'
      BY <1>2, <1>4 DEF AtShown
<1>7. Picture = f /\ Shown = g
      BY <1>1, <1>3, <1>4 DEF Located
<1>8. Picture' = f /\ Shown' = g
      BY <1>1, <1>5, <1>6 DEF Located
<1> QED BY <1>7, <1>8

LEMMA RecordComputeHandsOver == IInv /\ IInv' /\ RecordCompute => [Target!Next]_Target!vars
<1> SUFFICES ASSUME IInv, IInv', RecordCompute PROVE [Target!Next]_Target!vars
    OBVIOUS
<1>1. Located /\ Located' /\ TypeOK /\ Submitted /\ TakeTurns
      BY Locates, LocatesNext DEF IInv
<1>2. /\ n \in Nat /\ computed \in Nat /\ drawn \in Nat /\ Len(compute) = 3 * n
      /\ computed \in 0 .. Len(compute) /\ compute \in Seq(Commands) /\ drawn <= 4 * n
      BY <1>1 DEF RecordCompute, TypeOK, Submitted
<1>3. Picture' = Picture /\ Shown' = Shown
      BY GuiKeepsPlaces DEF RecordCompute, directQueue
<1>4. Drawing' <=> Drawing
      BY DEF RecordCompute, directQueue, Drawing
<1> DEFINE c == Dispatch(n + 1, slot)
<1>5. c \in Commands /\ c.op = "dispatch" /\ compute' = Append(compute, c) /\ computed' = computed
  <2>1. slot \in Slots /\ n + 1 \in Nat
        BY <1>1, <1>2 DEF TypeOK
  <2> QED BY <2>1, AreCommands DEF RecordCompute, Dispatch
<1> HIDE DEF c
<1>6. CASE computed < Len(compute)
  <2>1. Filling' <=> Filling
        BY <1>2, <1>5, <1>6, RunningAppended DEF Filling
  <2> QED BY <1>3, <1>4, <2>1, NothingHandedOver
<1>7. CASE computed = Len(compute)
  <2>1. Filling' /\ ~Filling
        BY <1>2, <1>5, <1>7, RunningAppended DEF Filling
  <2>2. AtTarget(n)
        BY <1>2, <1>7 DEF AtTarget
  <2>3. n > 0 => drawn >= 4 * n - 1
        BY <1>1, <1>2, <1>7 DEF TakeTurns
  <2>4. AtShown(n)
        BY <1>2, <2>3 DEF AtShown
  <2>5. ~Drawing
        BY <1>1, <1>2, <2>3 DEF Located
  <2>6. Picture = n /\ Shown = n
        BY <1>1, <2>2, <2>4 DEF Located
  <2>7. Target!StartFill
        BY <1>3, <2>1, <2>5, <2>6
        DEF Target!StartFill, Picture, Shown, Filling, Drawing
  <2> QED BY <2>7 DEF Target!Next
<1> QED BY <1>2, <1>6, <1>7

LEMMA ExecuteCommandsHandsOver ==
  IInv /\ IInv' /\ ExecuteCommands => [Target!Next]_Target!vars
<1> SUFFICES ASSUME IInv, IInv', ExecuteCommands PROVE [Target!Next]_Target!vars
    OBVIOUS
<1>1. Located /\ Located' /\ TypeOK /\ Submitted /\ TakeTurns
      BY Locates, LocatesNext DEF IInv
<1>2. /\ n \in Nat /\ n > 0 /\ computed \in Nat /\ drawn \in Nat /\ Len(direct) = 4 * n - 3
      /\ drawn \in 0 .. Len(direct) /\ direct \in Seq(Commands) /\ computed <= 3 * n - 1
      BY <1>1 DEF ExecuteCommands, TypeOK, Submitted
<1>3. Picture' = Picture /\ Shown' = Shown
      BY GuiKeepsPlaces DEF ExecuteCommands, computeQueue
<1>4. Filling' <=> Filling
      BY DEF ExecuteCommands, computeQueue, Filling
<1> DEFINE c == Draw(n)
<1>5. c \in Commands /\ c.op = "draw" /\ direct' = Append(direct, c) /\ drawn' = drawn
  <2>1. slot \in Slots
        BY <1>1 DEF TypeOK
  <2> QED BY <1>2, <2>1, AreCommands DEF ExecuteCommands, Draw
<1> HIDE DEF c
<1>6. CASE drawn < Len(direct)
  <2>1. Drawing' <=> Drawing
        BY <1>2, <1>5, <1>6, RunningAppended DEF Drawing
  <2> QED BY <1>3, <1>4, <2>1, NothingHandedOver
<1>7. CASE drawn = Len(direct)
  <2>1. Drawing' /\ ~Drawing
        BY <1>2, <1>5, <1>7, RunningAppended DEF Drawing
  <2>2. ~Filling
        BY <1>1, <1>4, <2>1 DEF Located
  <2>3. drawn >= 4 * n - 3
        BY <1>2, <1>7
  <2>4. computed >= 3 * n - 1
        BY <1>1, <1>2, <2>3 DEF TakeTurns
  <2>5. AtTarget(n)
        BY <1>2, <2>4 DEF AtTarget
  <2>6. AtShown(n - 1)
        BY <1>2, <1>7 DEF AtShown
  <2>7. Picture = n /\ Shown = n - 1
        BY <1>1, <2>5, <2>6 DEF Located
  <2>8. Shown # Picture
        BY <1>2, <2>7
  <2>9. Target!StartDraw
        BY <1>3, <1>4, <2>1, <2>2, <2>8
        DEF Target!StartDraw, Picture, Shown, Filling, Drawing
  <2> QED BY <2>9 DEF Target!Next
<1> QED BY <1>2, <1>6, <1>7

\* The other commands the thread submits are signals, waits and presents.
LEMMA OthersHandOverNothing ==
  ASSUME IInv, IInv',
         \/ BlockQueueUntil \/ WaitOnQueue \/ PresentSurface \/ AdvanceFrame
         \/ UpdateSwapChain \/ ResetResources \/ Destroyed
  PROVE  UNCHANGED Target!vars
<1>1. TypeOK /\ TypeOK'
      BY DEF IInv
<1>2. n' = n /\ computed' = computed /\ drawn' = drawn
      BY DEF BlockQueueUntil, WaitOnQueue, PresentSurface, AdvanceFrame, UpdateSwapChain,
         ResetResources, Destroyed, computeQueue, directQueue
<1>3. Picture' = Picture /\ Shown' = Shown
      BY <1>2, GuiKeepsPlaces
<1>4. slot \in Slots /\ mFenceValue + 1 \in Nat /\ n \in Nat
      BY <1>1 DEF TypeOK
<1>5. \/ compute' = compute
      \/ \E c \in Commands : c.op # "dispatch" /\ compute' = Append(compute, c)
  <2>1. /\ Signal(mFenceValue + 1) \in Commands /\ Wait(mFenceValue + 1) \in Commands
        /\ Signal(mFenceValue + 1).op # "dispatch" /\ Wait(mFenceValue + 1).op # "dispatch"
        BY <1>4, AreCommands DEF Signal, Wait
  <2> QED BY <2>1 DEF BlockQueueUntil, WaitOnQueue, PresentSurface, AdvanceFrame,
             UpdateSwapChain, ResetResources, Destroyed, computeQueue, Signals, Waits, NextValue
<1>6. \/ direct' = direct
      \/ \E c \in Commands : c.op # "draw" /\ direct' = Append(direct, c)
  <2>1. /\ Signal(mFenceValue + 1) \in Commands /\ Wait(mFenceValue + 1) \in Commands
        /\ Present(n) \in Commands /\ Present(n).op # "draw"
        /\ Signal(mFenceValue + 1).op # "draw" /\ Wait(mFenceValue + 1).op # "draw"
        BY <1>4, AreCommands DEF Signal, Wait, Present
  <2> QED BY <2>1 DEF BlockQueueUntil, WaitOnQueue, PresentSurface, AdvanceFrame,
             UpdateSwapChain, ResetResources, Destroyed, directQueue, Signals, Waits, NextValue
<1>7. Filling' <=> Filling
  <2>1. /\ compute \in Seq(Commands) /\ computed \in 0 .. Len(compute)
        /\ computed < Len(compute) \/ computed = Len(compute)
        BY <1>1 DEF TypeOK
  <2>2. ASSUME NEW c \in Commands, c.op # "dispatch", compute' = Append(compute, c)
        PROVE  Filling' <=> Filling
        BY <1>2, <2>1, <2>2, RunningAppended DEF Filling
  <2> QED BY <1>2, <1>5, <2>2 DEF Filling
<1>8. Drawing' <=> Drawing
  <2>1. /\ direct \in Seq(Commands) /\ drawn \in 0 .. Len(direct)
        /\ drawn < Len(direct) \/ drawn = Len(direct)
        BY <1>1 DEF TypeOK
  <2>2. ASSUME NEW c \in Commands, c.op # "draw", direct' = Append(direct, c)
        PROVE  Drawing' <=> Drawing
        BY <1>2, <2>1, <2>2, RunningAppended DEF Drawing
  <2> QED BY <1>2, <1>6, <2>2 DEF Drawing
<1> QED BY <1>3, <1>7, <1>8, NothingHandedOver

\* The device is replaced when the compute queue has executed the last signal of
\* the thread, behind the direct queue: the picture in the texture is drawn.
LEMMA CreateResourcesHandsOver ==
  IInv /\ IInv' /\ CreateResources => [Target!Next]_Target!vars
<1> SUFFICES ASSUME IInv, IInv', CreateResources PROVE [Target!Next]_Target!vars
    OBVIOUS
<1>1. Located /\ Located' /\ TypeOK /\ Submitted /\ FenceFollows
      BY Locates, LocatesNext DEF IInv
<1>2. /\ n \in Nat /\ computed \in Nat /\ computed <= 3 * n + 1 /\ drawn = 4 * n
      /\ fence \in Nat /\ fence >= 2 * n + 1
      BY <1>1 DEF CreateResources, Completed, TypeOK, Submitted
<1>3. computed = 3 * n + 1
      BY <1>1, <1>2 DEF FenceFollows
<1>4. AtTarget(n) /\ AtShown(n)
      BY <1>2, <1>3 DEF AtTarget, AtShown
<1>5. Picture = n /\ Shown = n /\ ~Filling /\ ~Drawing
      BY <1>1, <1>2, <1>3, <1>4 DEF Located
<1>6. n' = 0 /\ computed' = 0 /\ drawn' = 0
      BY DEF CreateResources
<1>7. AtTarget(0)' /\ AtShown(0)'
      BY <1>6 DEF AtTarget, AtShown
<1>8. Picture' = 0 /\ Shown' = 0 /\ ~Filling' /\ ~Drawing'
      BY <1>1, <1>6, <1>7 DEF Located
<1>9. Target!Replace
      BY <1>5, <1>8 DEF Target!Replace, Picture, Shown, Filling, Drawing
<1> QED BY <1>9 DEF Target!Next

\* The end of a dispatch is the new picture; a wait that ends may be followed by
\* the next dispatch, when the picture in the texture has been drawn.
LEMMA ExecuteComputeHandsOver ==
  IInv /\ IInv' /\ ExecuteCompute => [Target!Next]_Target!vars
<1> SUFFICES ASSUME IInv, IInv', ExecuteCompute PROVE [Target!Next]_Target!vars
    OBVIOUS
<1>1. Located /\ Located' /\ TypeOK /\ FenceFollows /\ TakeTurns
      BY Locates, LocatesNext DEF IInv
<1>2. /\ n \in Nat /\ computed \in Nat /\ drawn \in Nat /\ fence \in Nat
      /\ computed < Len(compute) /\ computed' = computed + 1
      /\ n' = n /\ drawn' = drawn /\ direct' = direct
      BY <1>1 DEF TypeOK, ExecuteCompute, cpu, directQueue
<1>3. Drawing' <=> Drawing
      BY <1>2 DEF Drawing
<1>4. PICK g \in 0 .. n : AtShown(g)
      BY <1>1 DEF Located
<1>5. AtShown(g)'
      BY <1>2, <1>4 DEF AtShown
<1>6. Shown' = Shown /\ Shown = g
      BY <1>1, <1>4, <1>5 DEF Located
<1>7. ASSUME NEW i \in 1 .. n, computed = 3 * i - 3, compute[computed + 1].op = "dispatch"
      PROVE  Target!EndFill
  <2>1. AtTarget(i - 1)
        BY <1>2, <1>7 DEF AtTarget
  <2>2. AtTarget(i)'
        BY <1>2, <1>7 DEF AtTarget
  <2>3. Picture = i - 1 /\ Picture' = i
        BY <1>1, <2>1, <2>2 DEF Located
  <2>4. Filling
        BY <1>2, <1>7 DEF Filling, Running
  <2>5. ~Filling'
        BY <1>1, <1>2, <1>7 DEF Located
  <2>6. ~Drawing /\ ~Drawing'
        BY <1>1, <1>3, <2>4 DEF Located
  <2>7. Picture' = Picture + 1
        BY <2>3
  <2> QED BY <1>6, <2>4, <2>5, <2>6, <2>7
          DEF Target!EndFill, Picture, Shown, Filling, Drawing
<1>8. ASSUME NEW f \in 0 .. n, computed = 3 * f - 2 \/ (f = n /\ computed = 3 * n)
      PROVE  compute[computed + 1].op = "dispatch" \/ UNCHANGED Target!vars
  <2> SUFFICES ASSUME compute[computed + 1].op # "dispatch" PROVE UNCHANGED Target!vars
      OBVIOUS
  <2>1. AtTarget(f) /\ AtTarget(f)'
        BY <1>2, <1>8 DEF AtTarget
  <2>2. Picture' = Picture
        BY <1>1, <2>1 DEF Located
  <2>3. ~Filling
        BY <1>2 DEF Filling, Running
  <2>4. ~Filling'
        BY <1>1, <1>2, <1>8 DEF Located
  <2> QED BY <1>3, <1>6, <2>2, <2>3, <2>4, NothingHandedOver
<1>9. ASSUME NEW i \in 1 .. n, computed = 3 * i - 1, compute[computed + 1] = Wait(2 * i)
      PROVE  [Target!Next]_Target!vars
  <2>1. fence >= 2 * i
        BY <1>9 DEF ExecuteCompute, MayExecute, Wait
  <2>2. drawn >= 4 * i - 1
        BY <1>1, <2>1 DEF FenceFollows
  <2>3. i < n => drawn <= 4 * i
    <3> SUFFICES ASSUME i < n, drawn >= 4 * (i + 1) - 3 PROVE FALSE
        BY <1>2
    <3>1. i + 1 \in 1 .. n
          BY <1>2
    <3>2. computed >= 3 * (i + 1) - 1
          BY <1>1, <3>1 DEF TakeTurns
    <3> QED BY <1>2, <1>9, <3>2
  <2>4. AtTarget(i) /\ AtTarget(i)' /\ AtShown(i)
        BY <1>2, <1>9, <2>2, <2>3 DEF AtTarget, AtShown
  <2>5. Picture' = i /\ Picture = i /\ Shown = i
        BY <1>1, <2>4 DEF Located
  <2>6. ~Filling
        BY <1>1, <1>2, <1>9 DEF Located
  <2>7. CASE Filling'
    <3>1. ~Drawing
          BY <1>1, <1>3, <2>7 DEF Located
    <3>2. Target!StartFill
          BY <1>3, <1>6, <2>5, <2>6, <2>7, <3>1
          DEF Target!StartFill, Picture, Shown, Filling, Drawing
    <3> QED BY <3>2 DEF Target!Next
  <2>8. CASE ~Filling'
        BY <1>3, <1>6, <2>5, <2>6, <2>8, NothingHandedOver
  <2> QED BY <2>7, <2>8
<1>10. ASSUME NEW i \in 1 .. n, computed = 3 * i - 2, compute[computed + 1] = Signal(2 * i - 1)
       PROVE  UNCHANGED Target!vars
  <2>1. i \in 0 .. n /\ compute[computed + 1].op # "dispatch"
        BY <1>10 DEF Signal
  <2> QED BY <1>8, <1>10, <2>1
<1>11. ASSUME computed = 3 * n, compute[computed + 1] = Signal(2 * n + 1)
       PROVE  UNCHANGED Target!vars
  <2>1. n \in 0 .. n /\ compute[computed + 1].op # "dispatch"
        BY <1>2, <1>11 DEF Signal
  <2> QED BY <1>8, <1>11, <2>1
<1> QED BY <1>2, <1>7, <1>9, <1>10, <1>11, NextOfCompute DEF Target!Next

\* The end of a draw; a wait that ends may be followed by the draw of the picture
\* in the texture, which is new.
LEMMA ExecuteDirectHandsOver ==
  IInv /\ IInv' /\ ExecuteDirect => [Target!Next]_Target!vars
<1> SUFFICES ASSUME IInv, IInv', ExecuteDirect PROVE [Target!Next]_Target!vars
    OBVIOUS
<1>1. Located /\ Located' /\ TypeOK /\ FenceFollows /\ TakeTurns
      BY Locates, LocatesNext DEF IInv
<1>2. /\ n \in Nat /\ computed \in Nat /\ drawn \in Nat /\ fence \in Nat
      /\ drawn < Len(direct) /\ drawn' = drawn + 1
      /\ n' = n /\ computed' = computed /\ compute' = compute
      BY <1>1 DEF TypeOK, ExecuteDirect, cpu, computeQueue
<1>3. Filling' <=> Filling
      BY <1>2 DEF Filling
<1>4. PICK f \in 0 .. n : AtTarget(f)
      BY <1>1 DEF Located
<1>5. AtTarget(f)'
      BY <1>2, <1>4 DEF AtTarget
<1>6. Picture' = Picture
      BY <1>1, <1>4, <1>5 DEF Located
<1>7. ASSUME NEW i \in 1 .. n, drawn = 4 * i - 3, direct[drawn + 1] = Draw(i)
      PROVE  Target!EndDraw
  <2>1. AtShown(i)'
        BY <1>2, <1>7 DEF AtShown
  <2>2. computed >= 3 * i - 1 /\ ~(computed >= 3 * i)
        BY <1>1, <1>2, <1>7 DEF TakeTurns
  <2>3. AtTarget(i)
        BY <1>2, <2>2 DEF AtTarget
  <2>4. Shown' = i /\ Picture = i
        BY <1>1, <2>1, <2>3 DEF Located
  <2>5. Drawing
        BY <1>2, <1>7 DEF Drawing, Running, Draw
  <2>6. ~Drawing'
        BY <1>1, <1>2, <1>7 DEF Located
  <2>7. ~Filling /\ ~Filling'
        BY <1>1, <1>3, <2>5 DEF Located
  <2> QED BY <1>6, <2>4, <2>5, <2>6, <2>7
          DEF Target!EndDraw, Picture, Shown, Filling, Drawing
<1>8. ASSUME NEW i \in 1 .. n, drawn = 4 * i - 4, direct[drawn + 1] = Wait(2 * i - 1)
      PROVE  [Target!Next]_Target!vars
  <2>1. fence >= 2 * i - 1
        BY <1>8 DEF ExecuteDirect, MayExecute, Wait
  <2>2. computed >= 3 * i - 1
        BY <1>1, <2>1 DEF FenceFollows
  <2>3. ~(computed >= 3 * i)
        BY <1>1, <1>2, <1>8 DEF TakeTurns
  <2>4. AtTarget(i)
        BY <1>2, <2>2, <2>3 DEF AtTarget
  <2>5. AtShown(i - 1) /\ AtShown(i - 1)'
        BY <1>2, <1>8 DEF AtShown
  <2>6. Picture = i /\ Shown = i - 1 /\ Shown' = i - 1
        BY <1>1, <2>4, <2>5 DEF Located
  <2>7. ~Filling /\ ~Drawing /\ Shown # Picture
        BY <1>1, <1>2, <1>8, <2>2, <2>3, <2>6 DEF Located
  <2>8. CASE Drawing'
    <3>1. Target!StartDraw
          BY <1>3, <1>6, <2>6, <2>7, <2>8
          DEF Target!StartDraw, Picture, Shown, Filling, Drawing
    <3> QED BY <3>1 DEF Target!Next
  <2>9. CASE ~Drawing'
        BY <1>3, <1>6, <2>6, <2>7, <2>9, NothingHandedOver
  <2> QED BY <2>8, <2>9
<1>9. ASSUME NEW i \in 1 .. n, drawn = 4 * i - 2 \/ drawn = 4 * i - 1
      PROVE  UNCHANGED Target!vars
  <2>1. AtShown(i) /\ AtShown(i)'
        BY <1>2, <1>9 DEF AtShown
  <2>2. Shown' = Shown /\ ~Drawing /\ ~Drawing'
        BY <1>1, <1>2, <1>9, <2>1 DEF Located
  <2> QED BY <1>3, <1>6, <2>2, NothingHandedOver
<1> QED BY <1>2, <1>7, <1>8, <1>9, NextOfDirect DEF Target!Next

\* The queues hand the texture to each other as Handoff has it, for every number
\* of slots and of frames, through resizes and changes of device (vic20.cpp:30-105).
THEOREM Refinement == Spec => ImplementsHandoff
<1>1. Init => Target!Init
  <2>1. Init => /\ Latest(compute, computed, "dispatch") = 0 /\ Latest(direct, drawn, "draw") = 0
                /\ ~Running(compute, computed, "dispatch") /\ ~Running(direct, drawn, "draw")
        BY LatestNone DEF Init, Running
  <2> QED BY <2>1 DEF Target!Init
<1>2. IInv /\ IInv' /\ [Next]_vars => [Target!Next]_Target!vars
  <2>1. UNCHANGED vars => UNCHANGED Target!vars
        BY DEF vars, Target!vars
  <2> QED BY <2>1, RecordComputeHandsOver, ExecuteCommandsHandsOver, OthersHandOverNothing,
             CreateResourcesHandsOver, ExecuteComputeHandsOver, ExecuteDirectHandsOver
          DEF Next, Gui
<1> QED BY <1>1, <1>2, Inductive, PTL DEF Spec, ImplementsHandoff, Target!Spec

\* A queue at a wait is let go by a command of the other queue that is submitted
\* already and waits for nothing later (vic20.cpp:100).
THEOREM QueuesNeverStuck == Spec => []NoStall
<1>1. IInv => NoStall
  <2> SUFFICES ASSUME IInv, computed < Len(compute) \/ drawn < Len(direct)
               PROVE  \/ computed < Len(compute) /\ MayExecute(compute[computed + 1])
                      \/ drawn < Len(direct) /\ MayExecute(direct[drawn + 1])
      BY DEF NoStall
  <2>0. TypeOK /\ Submitted /\ FenceFollows
        BY DEF IInv
  <2>1. /\ n \in Nat /\ computed \in Nat /\ drawn \in Nat /\ fence \in Nat
        /\ Len(compute) \in Nat /\ Len(direct) \in Nat
        /\ computed <= Len(compute) /\ drawn <= Len(direct)
        BY <2>0 DEF TypeOK
  <2>2. ASSUME NEW i \in 1 .. n
        PROVE  /\ Len(compute) >= 3 * i => Len(direct) >= 4 * i - 1
               /\ Len(direct) >= 4 * i - 3 => Len(compute) >= 3 * i - 1
        BY <2>0, <2>1 DEF TypeOK, Submitted
  <2>3. ASSUME drawn < Len(direct),
               \A i \in 1 .. n : drawn = 4 * i - 4 => computed >= 3 * i - 1
        PROVE  MayExecute(direct[drawn + 1])
    <3>1. ASSUME NEW i \in 1 .. n, drawn = 4 * i - 4, direct[drawn + 1] = Wait(2 * i - 1)
          PROVE  MayExecute(direct[drawn + 1])
          BY <2>0, <2>3, <3>1 DEF FenceFollows, MayExecute, Wait
    <3>2. PICK i \in 1 .. n : \/ drawn = 4 * i - 4 /\ direct[drawn + 1] = Wait(2 * i - 1)
                              \/ direct[drawn + 1] = Draw(i)
                              \/ direct[drawn + 1] = Signal(2 * i)
                              \/ direct[drawn + 1] = Present(i)
          BY <2>3, NextOfDirect
    <3>3. CASE direct[drawn + 1].op # "wait"
          BY <3>3 DEF MayExecute
    <3>4. CASE direct[drawn + 1].op = "wait"
      <4>1. drawn = 4 * i - 4 /\ direct[drawn + 1] = Wait(2 * i - 1)
            BY <3>2, <3>4 DEF Draw, Signal, Present
      <4> QED BY <3>1, <4>1
    <3> QED BY <3>3, <3>4
  <2>4. CASE computed = Len(compute)
    <3>1. drawn < Len(direct)
          BY <2>1, <2>4
    <3>2. ASSUME NEW i \in 1 .. n, drawn = 4 * i - 4 PROVE computed >= 3 * i - 1
      <4>1. Len(direct) >= 4 * i - 3
            BY <2>1, <3>1, <3>2
      <4> QED BY <2>2, <2>4, <4>1
    <3> QED BY <2>3, <3>1, <3>2
  <2>5. CASE computed < Len(compute)
    <3>1. ASSUME NEW i \in 1 .. n, computed = 3 * i - 1, compute[computed + 1] = Wait(2 * i)
          PROVE  \/ MayExecute(compute[computed + 1])
                 \/ drawn < Len(direct) /\ MayExecute(direct[drawn + 1])
      <4>1. CASE drawn >= 4 * i - 1
            BY <2>0, <3>1, <4>1 DEF FenceFollows, MayExecute, Wait
      <4>2. CASE drawn < 4 * i - 1
        <5>1. Len(direct) >= 4 * i - 1
              BY <2>1, <2>2, <2>5, <3>1
        <5>2. drawn < Len(direct)
              BY <2>1, <4>2, <5>1
        <5>3. \A j \in 1 .. n : drawn = 4 * j - 4 => computed >= 3 * j - 1
              BY <2>1, <3>1, <4>2
        <5> QED BY <2>3, <5>2, <5>3
      <4> QED BY <2>1, <4>1, <4>2
    <3>2. CASE compute[computed + 1].op # "wait"
          BY <2>5, <3>2 DEF MayExecute
    <3>3. CASE compute[computed + 1].op = "wait"
      <4>1. \A v : Signal(v).op # "wait"
            BY DEF Signal
      <4>2. \E i \in 1 .. n : computed = 3 * i - 1 /\ compute[computed + 1] = Wait(2 * i)
            BY <2>5, <3>3, <4>1, NextOfCompute
      <4> QED BY <2>5, <3>1, <4>2
    <3> QED BY <3>2, <3>3
  <2> QED BY <2>1, <2>4, <2>5
<1> QED BY <1>1, Inductive, PTL

\* No slot waits for a frame that is not submitted, or is not the next one.
LastSubmitted ==
  \A s \in Slots : last[s] <= IF pc \in {"record", "reset", "done"} THEN n + 1 ELSE n

LEMMA NextLastSubmitted == TypeOK /\ LastSubmitted /\ [Next]_vars => LastSubmitted'
<1> SUFFICES ASSUME TypeOK, LastSubmitted, [Next]_vars PROVE LastSubmitted'
    OBVIOUS
<1>1. n \in Nat /\ last \in [Slots -> Nat \ {0}] /\ slot \in Slots
      BY DEF TypeOK
<1>2. CASE RecordCompute \/ BlockQueueUntil \/ ExecuteCommands \/ WaitOnQueue
      BY <1>1, <1>2 DEF LastSubmitted, RecordCompute, BlockQueueUntil, ExecuteCommands, WaitOnQueue
<1>3. CASE PresentSurface \/ UpdateSwapChain \/ ResetResources \/ Destroyed
      BY <1>1, <1>3 DEF LastSubmitted, PresentSurface, UpdateSwapChain, ResetResources, Destroyed
<1>4. CASE AdvanceFrame
      BY <1>1, <1>4 DEF LastSubmitted, AdvanceFrame
<1>5. CASE CreateResources
      BY <1>5 DEF LastSubmitted, CreateResources
<1>6. CASE ExecuteCompute \/ ExecuteDirect \/ UNCHANGED vars
      BY <1>6 DEF LastSubmitted, ExecuteCompute, ExecuteDirect, vars, cpu
<1> QED BY <1>2, <1>3, <1>4, <1>5, <1>6 DEF Next, Gui

\* The thread waits for nothing that is still its own to submit (core.cpp:303,
\* compute.cpp:39).
THEOREM WaitsForSubmitted == Spec => []WaitSubmitted
<1>1. Init => LastSubmitted
      BY DEF Init, LastSubmitted
<1>2. IInv => TypeOK
      BY DEF IInv
<1>3. Spec => []LastSubmitted
      BY <1>1, <1>2, Inductive, NextLastSubmitted, PTL DEF Spec
<1>4. IInv /\ LastSubmitted => WaitSubmitted
  <2> SUFFICES ASSUME IInv, LastSubmitted PROVE WaitSubmitted
      OBVIOUS
  <2>0. TypeOK /\ Submitted /\ ComputeLog /\ DirectLog
        BY DEF IInv
  <2>1. n \in Nat /\ last \in [Slots -> Nat \ {0}] /\ slot \in Slots
        BY <2>0 DEF TypeOK
  <2>2. ASSUME pc = "wait" PROVE \E k \in 1 .. Len(direct) : direct[k] = Present(last[slot])
    <3>1. last[slot] \in 1 .. n /\ Len(direct) = 4 * n
          BY <2>0, <2>1, <2>2 DEF LastSubmitted, Submitted
    <3>2. direct[4 * last[slot]] = Present(last[slot])
          BY <2>0, <2>1, <3>1 DEF DirectLog, DirectFrame
    <3> QED BY <2>1, <3>1, <3>2
  <2>3. ASSUME pc = "reset" PROVE \E k \in 1 .. Len(compute) : compute[k] = Signal(mFenceValue)
    <3>1. Len(compute) = 3 * n + 1 /\ mFenceValue = 2 * n + 1
          BY <2>0, <2>3 DEF Submitted
    <3>2. compute[3 * n + 1] = Signal(mFenceValue)
          BY <2>0, <3>1 DEF ComputeLog
    <3> QED BY <2>1, <3>1, <3>2
  <2> QED BY <2>2, <2>3 DEF WaitSubmitted
<1> QED BY <1>3, <1>4, Inductive, PTL
=============================================================================
