-------------------------- MODULE CoreContextProofs --------------------------
(***************************************************************************)
(* Proofs about CoreContext for every limit of the swap chain, every set   *)
(* of adapters and every bound on the number of signals.                   *)
(***************************************************************************)
EXTENDS CoreContext, TLAPS

USE DEF Lost

LEMMA RequestTypes ==
  ASSUME NEW r \in Requests
  PROVE  /\ r.op = "resize" => r.to \in Lengths
         /\ r.op = "adapter" => r.to \in Adapters
BY DEF Requests

\* A buffer's place is a natural number, and below the number of buffers.
LEMMA Turns ==
  ASSUME TypeOK, Alive, NEW i \in 0..(length - 1)
  PROVE  /\ Distance(i) \in 0..(length - 1)
         /\ Distance(cur) = 0
         /\ Next1(cur) \in 0..(length - 1)
         /\ Next1(mIndex) \in 0..(length - 1)
         /\ cur \in 0..(length - 1) /\ length \in Nat /\ length >= 2
BY CoreContextAssumption DEF TypeOK, Alive, Distance, Next1, Lengths

\* The types of the parts, one by one.
LEMMA Types ==
  ASSUME TypeOK, Alive
  PROVE  /\ use \in [0..(length - 1) -> Nat] /\ copies \in [0..(length - 1) -> Nat]
         /\ value \in [0..(length - 1) -> Nat]
         /\ Len(sig) \in Nat /\ done \in Nat /\ done <= Len(sig)
         /\ length \in Nat /\ length >= 2 /\ cur \in 0..(length - 1)
         /\ \A i \in 0..(length - 1) :
              use[i] \in Nat /\ value[i] \in Nat /\ Distance(i) \in 0..(length - 1)
<1>1. /\ use \in [0..(length - 1) -> Nat] /\ copies \in [0..(length - 1) -> Nat]
      /\ value \in [0..(length - 1) -> Nat]
      /\ Len(sig) \in Nat /\ done \in Nat /\ done <= Len(sig)
      /\ length \in Nat /\ length >= 2 /\ cur \in 0..(length - 1)
  <2>1. sig \in Seq(Nat) /\ done \in 0..Len(sig) /\ value \in [0..(length - 1) -> Nat]
    BY DEF TypeOK
  <2>2. /\ length \in Lengths /\ cur \in Nat /\ cur < length
        /\ use \in [0..(length - 1) -> Nat] /\ copies \in [0..(length - 1) -> Nat]
    BY DEF TypeOK
  <2>3. Len(sig) \in Nat /\ done \in Nat /\ done <= Len(sig)
    BY <2>1
  <2>4. length \in Nat /\ length >= 2 /\ cur \in 0..(length - 1)
    BY <2>2, CoreContextAssumption DEF Lengths
  <2> QED
    BY <2>1, <2>2, <2>3, <2>4
<1>2. \A i \in 0..(length - 1) : Distance(i) \in 0..(length - 1)
  BY Turns
<1> QED
  BY <1>1, <1>2

\* What the invariant says of one buffer.
LEMMA OrderedAt ==
  ASSUME TypeOK, Alive, ValuesOrdered, NEW i \in 0..(length - 1)
  PROVE  /\ use[i] \in Nat /\ value[i] \in Nat /\ Distance(i) \in Nat
         /\ Distance(i) < length
         /\ use[i] <= value[i] /\ value[i] <= Len(sig) + 1
         /\ InWait => value[i] <= Len(sig)
         /\ \/ Lost
            \/ value[i] + length > Turn + Distance(i)
            \/ done + length > Turn + Distance(i)
<1>1. use[i] \in Nat /\ value[i] \in Nat /\ Len(sig) \in Nat
  BY Types
<1>2. Distance(i) \in Nat /\ Distance(i) < length
  BY Turns, Types
<1>3. /\ use[i] <= value[i]
      /\ value[i] <= IF InWait THEN Len(sig) ELSE Len(sig) + 1
      /\ \/ Lost
         \/ value[i] + length > Turn + Distance(i)
         \/ done + length > Turn + Distance(i)
  BY DEF ValuesOrdered
<1>4. value[i] <= Len(sig) + 1 /\ (InWait => value[i] <= Len(sig))
  BY <1>1, <1>3
<1> QED
  BY <1>1, <1>2, <1>3, <1>4

\* What is completed is the number of the batches done.
LEMMA CompletedIsDone ==
  ASSUME TypeOK, \A b \in 1..Len(sig) : sig[b] = b
  PROVE  Completed = done
BY DEF TypeOK, Completed

LEMMA InitInductive == Init => IInv
<1> SUFFICES ASSUME Init PROVE IInv
  OBVIOUS
<1>1. length \in Nat /\ length >= 2 /\ length \in Lengths
  BY CoreContextAssumption DEF Init, Lengths
<1>2. TypeOK
  BY <1>1 DEF Init, TypeOK, Phases, Requests, Fresh, Alive
<1>3. ValuesOrdered
  BY <1>1, <1>2, Turns DEF Init, ValuesOrdered, Fresh, InWait, Turn, Distance
<1> QED
  BY <1>1, <1>2, <1>3 DEF Init, IInv, Waiting, Ready, InWait, Fresh, Finished

LEMMA BeginStep == IInv /\ Begin => IInv'
<1> SUFFICES ASSUME IInv, Begin PROVE IInv'
  OBVIOUS
<1>1. TypeOK'
  BY DEF IInv, TypeOK, Begin, Alive, Phases, cpuVars, deviceVars, bufferVars,
         chainVars, gpuVars, Lengths
<1>2. ValuesOrdered'
  BY DEF IInv, ValuesOrdered, Begin, Alive, InWait, Turn, Distance,
         deviceVars, bufferVars, chainVars, gpuVars
<1> QED
  BY <1>1, <1>2 DEF IInv, Begin, Alive, InWait, Waiting, Ready, Finished,
         deviceVars, bufferVars, chainVars, gpuVars

LEMMA EndStep == IInv /\ End => IInv'
<1> SUFFICES ASSUME IInv, End PROVE IInv'
  OBVIOUS
<1>0. /\ TypeOK /\ Waiting /\ Ready /\ rtvs = length /\ (Alive => ValuesOrdered /\ (Lost \/ mIndex = cur))
      /\ \A b \in 1..Len(sig) : sig[b] = b
      /\ phase = "flushed" => Finished(Len(sig))
  BY DEF IInv
<1>1. /\ Alive /\ Alive' /\ InWait' /\ ~InWait /\ phase' = "advance"
      /\ cur \in 0..(length - 1) /\ cur' = Next1(cur) /\ mIndex' = cur'
      /\ length' = length /\ health' = health /\ ~Lost /\ ~Lost' /\ done' = done /\ rtvs' = rtvs
      /\ cur' \in 0..(length - 1) /\ length \in Nat /\ length >= 2
  BY <1>0, Turns DEF End, Alive, InWait, TypeOK, deviceVars
<1>2. value[cur] = Len(sig) + 1 /\ current' = Len(sig) + 1 /\ value' = value
  BY <1>0, <1>1 DEF Ready, End
<1>3. /\ sig' \in Seq(Nat) /\ Len(sig') = Len(sig) + 1 /\ Len(sig) \in Nat
      /\ \A b \in 1..Len(sig') : sig'[b] = b
  BY <1>0, <1>2 DEF End, Signal, TypeOK
<1>4. /\ use' \in [0..(length - 1) -> Nat] /\ copies' \in [0..(length - 1) -> Nat]
      /\ \A i \in 0..(length - 1) :
           use'[i] = IF i = cur THEN Len(sig) + 1 ELSE use[i]
  <2>1. /\ use' = [use EXCEPT ![cur] = Len(sig) + 1]
        /\ copies' = [copies EXCEPT ![mIndex] = Len(sig) + 1]
        /\ Len(sig) + 1 \in Nat
    BY <1>3 DEF End
  <2>2. use \in [0..(length - 1) -> Nat] /\ copies \in [0..(length - 1) -> Nat]
    BY <1>0, <1>1, Types
  <2> QED
    BY <2>1, <2>2
<1>5. TypeOK'
  <2>1. /\ length' \in Lengths /\ cur' \in Nat /\ cur' < length' /\ mIndex' = cur'
        /\ rtvs' \in Nat /\ request' \in Requests /\ device' \in Adapters \cup {NoDevice}
        /\ health' \in {"ok", "removed"} /\ current' \in Nat
    <3>1. request' = request /\ device' = device
      BY DEF End, deviceVars
    <3>2. /\ request \in Requests /\ device \in Adapters \cup {NoDevice}
          /\ health \in {"ok", "removed"} /\ length \in Lengths /\ rtvs \in Nat
      BY <1>0, <1>1 DEF TypeOK
    <3> QED
      BY <1>1, <1>2, <1>3, <3>1, <3>2
  <2>2. value' \in [0..(length' - 1) -> Nat] /\ done' \in 0..Len(sig')
    <3>1. value \in [0..(length - 1) -> Nat] /\ done \in Nat /\ done <= Len(sig)
      BY <1>0, <1>1, Types
    <3> QED
      BY <1>1, <1>2, <1>3, <3>1
  <2> QED
    BY <1>1, <1>3, <1>4, <2>1, <2>2 DEF TypeOK, Phases
<1>6. ValuesOrdered'
  <2> SUFFICES ASSUME NEW i \in 0..(length - 1)
               PROVE  /\ use'[i] <= value[i] /\ value[i] <= Len(sig)+ 1
                      /\ \/ value[i] + length > Len(sig) + 1 + Distance(i)'
                         \/ done + length > Len(sig) + 1 + Distance(i)'
    BY <1>0, <1>1, <1>2, <1>3 DEF ValuesOrdered, Turn
  <2>1. /\ use[i] <= value[i] /\ value[i] <= Len(sig) + 1
        /\ \/ value[i] + length > Len(sig) + Distance(i)
           \/ done + length > Len(sig) + Distance(i)
    BY <1>0, <1>1 DEF ValuesOrdered, Turn, InWait
  <2>2. Distance(i)' = IF i = cur THEN length - 1 ELSE Distance(i) - 1
    BY <1>1 DEF Distance, Next1
  <2>3. /\ value[i] \in Nat /\ use[i] \in Nat /\ done \in Nat /\ Distance(i) \in Nat
        /\ Len(sig) \in Nat /\ length \in Nat
    <3>1. done \in Nat /\ Len(sig) \in Nat /\ length \in Nat
      BY <1>0, <1>1, Types
    <3>2. value[i] \in Nat /\ use[i] \in Nat /\ Distance(i) \in Nat
      BY <1>0, <1>1, OrderedAt
    <3> QED
      BY <3>1, <3>2
  <2>4. CASE i = cur
    BY <1>2, <1>4, <2>2, <2>3, <2>4
  <2>5. CASE i # cur
    <3>1. use'[i] = use[i] /\ Distance(i)' = Distance(i) - 1
      BY <1>4, <2>2, <2>5
    <3> QED
      BY <2>1, <2>3, <3>1
  <2> QED
    BY <2>4, <2>5
<1> QED
  BY <1>0, <1>1, <1>2, <1>3, <1>5, <1>6 DEF IInv, Waiting, Ready, InWait

LEMMA EndLostStep == IInv /\ EndLost => IInv'
<1> SUFFICES ASSUME IInv, EndLost PROVE IInv'
  OBVIOUS
<1> USE DEF IInv
<1>0. Next1(mIndex) \in 0..(length - 1)
  BY Turns DEF EndLost, Alive, TypeOK, Lengths, Next1
<1>1. TypeOK'
  <2>1. mIndex' \in Nat /\ mIndex' < length'
    BY <1>0 DEF TypeOK, EndLost, Alive, bufferVars
  <2> QED
    BY <2>1 DEF TypeOK, EndLost, Alive, Phases, deviceVars, bufferVars, gpuVars
<1>2. ValuesOrdered'
  BY DEF ValuesOrdered, EndLost, Alive, InWait, Turn, Distance, deviceVars,
         bufferVars, gpuVars
<1> QED
  BY <1>1, <1>2 DEF EndLost, Alive, InWait, Waiting, Ready, Finished, deviceVars,
         bufferVars, gpuVars

\* Both waits end alike: the current buffer's value becomes the next to signal.
LEMMA FinishAdvanceStep == IInv /\ FinishAdvance => IInv'
<1> SUFFICES ASSUME IInv, FinishAdvance PROVE IInv'
  OBVIOUS
<1>0. /\ TypeOK /\ Waiting /\ Ready /\ rtvs = length /\ (Alive => ValuesOrdered /\ (Lost \/ mIndex = cur))
      /\ \A b \in 1..Len(sig) : sig[b] = b
      /\ phase = "flushed" => Finished(Len(sig))
  BY DEF IInv
<1>1. /\ Alive /\ Alive' /\ InWait /\ ~InWait' /\ phase' = "idle" /\ phase = "advance"
      /\ cur \in 0..(length - 1) /\ length \in Nat /\ Distance(cur) = 0
      /\ current = Len(sig) /\ Len(sig) \in Nat /\ done \in Nat
      /\ UNCHANGED <<length, cur, mIndex, rtvs, use, copies, sig, done, health, device,
                     request, current>>
  BY <1>0, Turns DEF FinishAdvance, Alive, InWait, TypeOK, Waiting, deviceVars, chainVars, gpuVars
<1>2. /\ value' \in [0..(length - 1) -> Nat]
      /\ \A i \in 0..(length - 1) :
           value'[i] = IF i = cur THEN Len(sig) + 1 ELSE value[i]
  <2>1. value' = [value EXCEPT ![cur] = Len(sig) + 1] /\ Len(sig) + 1 \in Nat
    BY <1>1 DEF FinishAdvance, NextValue
  <2>2. value \in [0..(length - 1) -> Nat]
    BY <1>0 DEF TypeOK
  <2> QED
    BY <2>1, <2>2
<1>3. TypeOK'
  BY <1>0, <1>1, <1>2 DEF TypeOK, Phases, Alive
<1>4. Lost \/ done >= value[cur]
  BY <1>0, <1>1, CompletedIsDone DEF FinishAdvance, MayAdvance, Reached
<1>5. ASSUME NEW i \in 0..(length - 1)
      PROVE  /\ use[i] \in Nat /\ value[i] \in Nat /\ Distance(i) \in Nat
             /\ use[i] <= value[i] /\ value[i] <= Len(sig)
             /\ \/ Lost
                \/ value[i] + length > Len(sig) + Distance(i)
                \/ done + length > Len(sig) + Distance(i)
  BY <1>0, <1>1, OrderedAt DEF Turn
<1>6. ValuesOrdered'
  <2> SUFFICES ASSUME NEW i \in 0..(length - 1)
               PROVE  /\ use[i] <= value'[i] /\ value'[i] <= Len(sig) + 1
                      /\ \/ Lost
                         \/ value'[i] + length > Len(sig) + Distance(i)
                         \/ done + length > Len(sig) + Distance(i)
    BY <1>1 DEF ValuesOrdered, Turn, Distance
  <2>1. /\ use[i] \in Nat /\ value[i] \in Nat /\ Distance(i) \in Nat
        /\ use[i] <= value[i] /\ value[i] <= Len(sig)
        /\ \/ Lost
           \/ value[i] + length > Len(sig) + Distance(i)
           \/ done + length > Len(sig) + Distance(i)
    BY <1>5
  <2>2. value'[i] = value[i] \/ value'[i] = Len(sig) + 1
    BY <1>2
  <2>3. Len(sig) \in Nat /\ length \in Nat /\ done \in Nat
    BY <1>1
  <2> QED
    BY <2>1, <2>2, <2>3
<1>7. Ready'
  <2>1. value'[cur] = Len(sig) + 1
    BY <1>1, <1>2
  <2>2. /\ use[cur] \in Nat /\ value[cur] \in Nat /\ use[cur] <= value[cur]
        /\ \/ Lost
           \/ value[cur] + length > Len(sig) + Distance(cur)
           \/ done + length > Len(sig) + Distance(cur)
    BY <1>1, <1>5
  <2>3. Len(sig) \in Nat /\ length \in Nat /\ done \in Nat /\ Distance(cur) = 0
    BY <1>1
  <2>4. (Lost \/ use[cur] <= done) /\ (Lost \/ Len(sig) - done < length)
    BY <1>4, <2>2, <2>3
  <2> QED
    BY <1>1, <2>1, <2>4 DEF Ready, Finished
<1> QED
  BY <1>0, <1>1, <1>3, <1>6, <1>7 DEF IInv, Waiting

LEMMA FlushStep ==
  ASSUME IInv, NEW r \in Requests, Flush(r)
  PROVE  IInv'
<1>0. /\ TypeOK /\ Waiting /\ Ready /\ rtvs = length /\ (Alive => ValuesOrdered /\ (Lost \/ mIndex = cur))
      /\ \A b \in 1..Len(sig) : sig[b] = b
      /\ phase = "flushed" => Finished(Len(sig))
  BY DEF IInv
<1>1. /\ Alive /\ Alive' /\ ~InWait /\ InWait' /\ phase' = "flush" /\ ~Lost
      /\ cur \in 0..(length - 1) /\ value[cur] = Len(sig) + 1
      /\ current' = Len(sig) + 1 /\ request' = r
      /\ UNCHANGED <<length, cur, mIndex, rtvs, use, copies, value, done, health, device>>
  BY <1>0, Turns DEF Flush, Alive, InWait, TypeOK, Ready, deviceVars, bufferVars, chainVars
<1>2. /\ sig' \in Seq(Nat) /\ Len(sig') = Len(sig) + 1 /\ Len(sig) \in Nat
      /\ \A b \in 1..Len(sig') : sig'[b] = b
  BY <1>0, <1>1 DEF Flush, Signal, TypeOK
<1>3. TypeOK'
  <2>1. /\ phase' \in Phases /\ request' \in Requests /\ current' \in Nat
        /\ device' \in Adapters \cup {NoDevice} /\ health' \in {"ok", "removed"}
    BY <1>0, <1>1, <1>2 DEF TypeOK, Phases
  <2>2. /\ length' \in Nat /\ cur' \in Nat /\ mIndex' \in Nat /\ rtvs' \in Nat
        /\ value' \in [0..(length' - 1) -> Nat]
    BY <1>0, <1>1, <1>2 DEF TypeOK
  <2>3. sig' \in Seq(Nat) /\ done' \in 0..Len(sig')
    BY <1>0, <1>1, <1>2 DEF TypeOK
  <2>4. /\ length' \in Lengths /\ cur' < length' /\ mIndex' < length'
        /\ use' \in [0..(length' - 1) -> Nat] /\ copies' \in [0..(length' - 1) -> Nat]
    BY <1>0, <1>1, <1>2 DEF TypeOK
  <2> QED
    BY <2>1, <2>2, <2>3, <2>4 DEF TypeOK
<1>4. ValuesOrdered'
  BY <1>0, <1>1, <1>2 DEF ValuesOrdered, Turn, Distance, Flush
<1> QED
  BY <1>0, <1>1, <1>2, <1>3, <1>4 DEF IInv, Waiting, Ready

LEMMA FlushLostStep ==
  ASSUME IInv, NEW r \in Requests, FlushLost(r)
  PROVE  IInv'
<1> USE DEF IInv
<1>1. TypeOK'
  BY DEF TypeOK, FlushLost, Alive, Phases, deviceVars, bufferVars, chainVars, gpuVars
<1>2. ValuesOrdered'
  BY DEF ValuesOrdered, FlushLost, Alive, InWait, Turn, Distance, deviceVars,
         bufferVars, chainVars, gpuVars
<1> QED
  BY <1>1, <1>2 DEF FlushLost, Alive, InWait, Waiting, Ready, Finished, deviceVars,
         bufferVars, chainVars, gpuVars

LEMMA FinishFlushStep == IInv /\ FinishFlush => IInv'
<1> SUFFICES ASSUME IInv, FinishFlush PROVE IInv'
  OBVIOUS
<1>0. /\ TypeOK /\ Waiting /\ Ready /\ rtvs = length /\ (Alive => ValuesOrdered /\ (Lost \/ mIndex = cur))
      /\ \A b \in 1..Len(sig) : sig[b] = b
      /\ phase = "flushed" => Finished(Len(sig))
  BY DEF IInv
<1>1. /\ Alive /\ Alive' /\ InWait /\ ~InWait' /\ phase' = "flushed" /\ phase = "flush"
      /\ cur \in 0..(length - 1) /\ length \in Nat /\ length >= 2
      /\ current = Len(sig) /\ Len(sig) \in Nat /\ done \in Nat /\ done <= Len(sig)
      /\ UNCHANGED <<length, cur, mIndex, rtvs, use, copies, sig, done, health, device,
                     request, current>>
  BY <1>0, Turns DEF FinishFlush, Alive, InWait, TypeOK, Waiting, deviceVars, chainVars, gpuVars
<1>2. /\ value' \in [0..(length - 1) -> Nat]
      /\ \A i \in 0..(length - 1) :
           value'[i] = IF i = cur THEN Len(sig) + 1 ELSE value[i]
  <2>1. value' = [value EXCEPT ![cur] = Len(sig) + 1] /\ Len(sig) + 1 \in Nat
    BY <1>1 DEF FinishFlush, NextValue
  <2>2. value \in [0..(length - 1) -> Nat]
    BY <1>0 DEF TypeOK
  <2> QED
    BY <2>1, <2>2
<1>3. TypeOK'
  BY <1>0, <1>1, <1>2 DEF TypeOK, Phases, Alive
<1>4. Lost \/ done = Len(sig)
  BY <1>0, <1>1, CompletedIsDone DEF FinishFlush, MayRelease, Reached
<1>5. ASSUME NEW i \in 0..(length - 1)
      PROVE  /\ use[i] \in Nat /\ value[i] \in Nat /\ Distance(i) \in Nat
             /\ Distance(i) < length /\ use[i] <= value[i] /\ value[i] <= Len(sig)
  BY <1>0, <1>1, OrderedAt
<1>6. ValuesOrdered'
  <2> SUFFICES ASSUME NEW i \in 0..(length - 1)
               PROVE  /\ use[i] <= value'[i] /\ value'[i] <= Len(sig) + 1
                      /\ Lost \/ done + length > Len(sig) + Distance(i)
    BY <1>1 DEF ValuesOrdered, Turn, Distance
  <2>1. /\ use[i] \in Nat /\ value[i] \in Nat /\ Distance(i) \in Nat
        /\ Distance(i) < length /\ use[i] <= value[i] /\ value[i] <= Len(sig)
    BY <1>5
  <2>2. value'[i] = value[i] \/ value'[i] = Len(sig) + 1
    BY <1>2
  <2>3. Len(sig) \in Nat /\ length \in Nat /\ done \in Nat
    BY <1>1
  <2> QED
    BY <1>4, <2>1, <2>2, <2>3
<1>7. Ready'
  <2>1. value'[cur] = Len(sig) + 1
    BY <1>1, <1>2
  <2>2. use[cur] \in Nat /\ use[cur] <= value[cur] /\ value[cur] <= Len(sig)
        /\ value[cur] \in Nat
    BY <1>1, <1>5
  <2>3. (Lost \/ use[cur] <= done) /\ (Lost \/ Len(sig) - done < length)
    BY <1>1, <1>4, <2>2
  <2> QED
    BY <1>1, <2>1, <2>3 DEF Ready, Finished
<1> QED
  BY <1>0, <1>1, <1>3, <1>4, <1>6, <1>7 DEF IInv, Waiting, Finished

\* Command lists just created have not been used.
LEMMA FreshLists ==
  ASSUME NEW n, NEW v
  PROVE  Fresh(n, v) = [i \in 0..(n - 1) |-> v]
BY DEF Fresh

\* Buffers just created are all at one value.
LEMMA CreatedBuffers ==
  ASSUME NEW n \in Lengths, NEW v \in Nat, NEW held \in Nat,
         CreateBuffers(n, v, held)
  PROVE  /\ length' = n /\ n \in Nat /\ n >= 2 /\ cur' = 0 /\ mIndex' = 0
         /\ rtvs' = held + n
         /\ value' \in [0..(n - 1) -> Nat]
         /\ copies' \in [0..(n - 1) -> Nat]
         /\ \A i \in 0..(n - 1) : value'[i] = v
BY CoreContextAssumption DEF CreateBuffers, Fresh, Lengths

LEMMA UpdateSwapChainStep == IInv /\ UpdateSwapChain => IInv'
<1> SUFFICES ASSUME IInv, UpdateSwapChain PROVE IInv'
  OBVIOUS
<1>0. /\ TypeOK /\ Waiting /\ Ready /\ rtvs = length /\ (Alive => ValuesOrdered /\ (Lost \/ mIndex = cur))
      /\ \A b \in 1..Len(sig) : sig[b] = b
      /\ phase = "flushed" => Finished(Len(sig))
  BY DEF IInv
<1>1. /\ Alive /\ ~InWait /\ request.to \in Lengths /\ value[cur] = Len(sig) + 1
      /\ Len(sig) \in Nat /\ done \in Nat /\ HeldAfterReset = 0 /\ Finished(Len(sig))
      /\ done <= Len(sig)
  <2>1. phase = "flushed" /\ request.op = "resize"
    BY DEF UpdateSwapChain
  <2>2. Alive /\ ~InWait /\ Finished(Len(sig))
    BY <1>0, <2>1 DEF Alive, InWait
  <2>3. value[cur] = Len(sig) + 1
    BY <1>0, <2>2 DEF Ready
  <2>4. request.to \in Lengths
    BY <1>0, <2>1, RequestTypes DEF TypeOK
  <2>5. length \in Nat /\ Len(sig) \in Nat /\ done \in Nat /\ done <= Len(sig)
    BY <1>0 DEF TypeOK
  <2>6. HeldAfterReset = 0
    BY <1>0, <2>5 DEF HeldAfterReset
  <2> QED
    BY <2>2, <2>3, <2>4, <2>5, <2>6
<1> DEFINE n == request.to
<1>2. /\ length' = n /\ n \in Nat /\ n >= 2 /\ cur' = 0 /\ mIndex' = 0 /\ rtvs' = n
      /\ value' \in [0..(n - 1) -> Nat] /\ use' \in [0..(n - 1) -> Nat]
      /\ copies' \in [0..(n - 1) -> Nat]
      /\ \A i \in 0..(n - 1) : value'[i] = Len(sig) + 1 /\ use'[i] = 0
  <2>1. use' = [i \in 0..(n - 1) |-> 0]
    BY FreshLists DEF UpdateSwapChain
  <2> QED
    BY <1>1, <2>1, CreatedBuffers DEF UpdateSwapChain
<1>3. /\ phase' = "idle" /\ UNCHANGED <<request, current, health, device, sig, done>>
      /\ Alive' /\ ~InWait'
  BY <1>0 DEF UpdateSwapChain, deviceVars, gpuVars, Alive, InWait
<1>4. TypeOK'
  <2>1. /\ length' \in Lengths /\ length' \in Nat /\ rtvs' \in Nat
        /\ cur' \in Nat /\ cur' < length' /\ mIndex' \in Nat /\ mIndex' < length'
    BY <1>1, <1>2
  <2>2. /\ value' \in [0..(length' - 1) -> Nat] /\ use' \in [0..(length' - 1) -> Nat]
        /\ copies' \in [0..(length' - 1) -> Nat]
    BY <1>2
  <2> QED
    BY <1>0, <1>3, <2>1, <2>2 DEF TypeOK, Phases
<1>5. ValuesOrdered'
  BY <1>0, <1>1, <1>2, <1>3 DEF ValuesOrdered, Turn, Distance
<1>6. Ready'
  BY <1>0, <1>1, <1>2, <1>3 DEF Ready, Finished
<1> QED
  BY <1>0, <1>1, <1>2, <1>3, <1>4, <1>5, <1>6 DEF IInv, Waiting

LEMMA SetAdapterStep == IInv /\ SetAdapter => IInv'
<1> SUFFICES ASSUME IInv, SetAdapter PROVE IInv'
  OBVIOUS
<1>0. /\ TypeOK /\ Waiting /\ Ready /\ rtvs = length /\ (Alive => ValuesOrdered /\ (Lost \/ mIndex = cur))
      /\ \A b \in 1..Len(sig) : sig[b] = b
      /\ phase = "flushed" => Finished(Len(sig))
  BY DEF IInv
<1>1. length \in Lengths /\ request.to \in Adapters
  BY <1>0, RequestTypes DEF SetAdapter, Alive, TypeOK
<1>2. /\ length' = length /\ length \in Nat /\ length >= 2 /\ cur' = 0 /\ mIndex' = 0
      /\ rtvs' = length
      /\ value' \in [0..(length - 1) -> Nat] /\ use' \in [0..(length - 1) -> Nat]
      /\ copies' \in [0..(length - 1) -> Nat]
      /\ \A i \in 0..(length - 1) : value'[i] = 1 /\ use'[i] = 0
  <2>1. use' = [i \in 0..(length - 1) |-> 0]
    BY FreshLists DEF SetAdapter
  <2> QED
    BY <1>1, <2>1, CreatedBuffers DEF SetAdapter
<1>3. /\ phase' = "idle" /\ UNCHANGED <<request, current>> /\ health' = "ok"
      /\ device' \in Adapters /\ Alive' /\ ~InWait'
      /\ sig' \in Seq(Nat) /\ Len(sig') = 0 /\ done' = 0
  BY <1>0, <1>1 DEF SetAdapter, Alive, InWait
<1>4. TypeOK'
  <2>1. /\ phase' \in Phases /\ request' \in Requests /\ current' \in Nat
        /\ device' \in Adapters \cup {NoDevice} /\ health' \in {"ok", "removed"}
    BY <1>0, <1>1, <1>2, <1>3 DEF TypeOK, Phases
  <2>2. /\ length' \in Nat /\ cur' \in Nat /\ mIndex' \in Nat /\ rtvs' \in Nat
        /\ value' \in [0..(length' - 1) -> Nat]
    BY <1>0, <1>1, <1>2, <1>3 DEF TypeOK
  <2>3. sig' \in Seq(Nat) /\ done' \in 0..Len(sig')
    BY <1>0, <1>1, <1>2, <1>3 DEF TypeOK
  <2>4. /\ length' \in Lengths /\ cur' < length' /\ mIndex' < length'
        /\ use' \in [0..(length' - 1) -> Nat] /\ copies' \in [0..(length' - 1) -> Nat]
    BY <1>0, <1>1, <1>2, <1>3 DEF TypeOK
  <2> QED
    BY <2>1, <2>2, <2>3, <2>4 DEF TypeOK
<1>5. ValuesOrdered'
  BY <1>0, <1>2, <1>3 DEF ValuesOrdered, Turn, Distance
<1>6. Ready'
  BY <1>0, <1>2, <1>3 DEF Ready, Finished
<1> QED
  BY <1>0, <1>2, <1>3, <1>4, <1>5, <1>6 DEF IInv, Waiting

\* An exception half way, with as many views held as there are buffers.
LEMMA BreakStep ==
  ASSUME IInv, Break,
         device' \in Adapters \cup {NoDevice}, health' \in {"ok", "removed"},
         rtvs' = length', length' \in Nat, cur' \in Nat, mIndex' \in Nat,
         value' \in [0..(length' - 1) -> Nat],
         UNCHANGED <<sig, done>> \/ (sig' = <<>> /\ done' = 0)
  PROVE  IInv'
<1>1. /\ phase' = "broken" /\ UNCHANGED <<request, current>> /\ ~Alive' /\ ~InWait'
  BY DEF Break, Alive, InWait
<1>2. /\ sig' \in Seq(Nat) /\ done' \in 0..Len(sig') /\ \A b \in 1..Len(sig') : sig'[b] = b
  <2>1. CASE UNCHANGED <<sig, done>>
    BY <2>1 DEF IInv, TypeOK
  <2>2. CASE sig' = <<>> /\ done' = 0
    BY <2>2
  <2> QED
    BY <2>1, <2>2
<1>3. TypeOK'
  BY <1>1, <1>2 DEF IInv, TypeOK, Phases
<1> QED
  BY <1>1, <1>2, <1>3 DEF IInv, Waiting, Ready

\* What an exception leaves of the buffers: none, or all that were created.
LEMMA BuffersLeft ==
  ASSUME IInv,
         \/ NoBuffers(0)
         \/ \E n \in Lengths, v \in Nat : CreateBuffers(n, v, 0)
  PROVE  /\ rtvs' = length' /\ length' \in Nat /\ cur' \in Nat /\ mIndex' \in Nat
         /\ value' \in [0..(length' - 1) -> Nat]
<1>1. CASE NoBuffers(0)
  BY <1>1 DEF NoBuffers, Fresh, IInv, TypeOK
<1>2. CASE \E n \in Lengths, v \in Nat : CreateBuffers(n, v, 0)
  <2>1. PICK n \in Lengths, v \in Nat : CreateBuffers(n, v, 0)
    BY <1>2
  <2> QED
    BY <2>1, CreatedBuffers
<1> QED
  BY <1>1, <1>2

LEMMA FailureStep ==
  IInv /\ (UpdateSwapChainFails \/ RecreateFails \/ CreateStateFails) => IInv'
<1> SUFFICES ASSUME IInv, UpdateSwapChainFails \/ RecreateFails \/ CreateStateFails
             PROVE  IInv'
  OBVIOUS
<1>1. CASE UpdateSwapChainFails
  <2>1. HeldAfterReset = 0
    BY DEF IInv, TypeOK, HeldAfterReset
  <2>2. request.to \in Lengths /\ value[cur] \in Nat
    <3>1. Alive /\ TypeOK
      BY <1>1 DEF UpdateSwapChainFails, Alive, IInv
    <3> QED
      BY <1>1, <3>1, RequestTypes, Types DEF UpdateSwapChainFails, TypeOK
  <2>3. NoBuffers(0) \/ \E n \in Lengths, v \in Nat : CreateBuffers(n, v, 0)
    BY <1>1, <2>1, <2>2 DEF UpdateSwapChainFails
  <2>4. Break /\ UNCHANGED <<device, health, sig, done>>
    BY <1>1 DEF UpdateSwapChainFails, deviceVars, gpuVars
  <2>5. device \in Adapters \cup {NoDevice} /\ health \in {"ok", "removed"}
    BY DEF IInv, TypeOK
  <2> QED
    BY <2>3, <2>4, <2>5, BreakStep, BuffersLeft
<1>2. CASE RecreateFails
  <2>1. NoBuffers(0) /\ Break /\ device' = NoDevice /\ health' = "ok" /\ sig' = <<>> /\ done' = 0
    BY <1>2 DEF RecreateFails, ResetDevice
  <2> QED
    BY <2>1, BreakStep, BuffersLeft
<1>3. CASE CreateStateFails
  <2>1. /\ NoBuffers(0) \/ CreateBuffers(length, 1, 0)
        /\ Break /\ device' = request.to /\ health' = "ok" /\ sig' = <<>> /\ done' = 0
    BY <1>3 DEF CreateStateFails, ResetDevice
  <2>2. length \in Lengths /\ request.to \in Adapters
    BY <1>3, RequestTypes DEF CreateStateFails, Alive, IInv, TypeOK
  <2> QED
    BY <2>1, <2>2, BreakStep, BuffersLeft
<1> QED
  BY <1>1, <1>2, <1>3

\* Steps of the thread that leave buffers and batches alone.
LEMMA QuietStep == IInv /\ (MoveFails \/ Destroy) => IInv'
<1> SUFFICES ASSUME IInv, MoveFails \/ Destroy PROVE IInv'
  OBVIOUS
<1> USE DEF IInv, MoveFails, Destroy
<1>1. TypeOK'
  BY DEF TypeOK, Alive, Phases, deviceVars, bufferVars, chainVars, gpuVars
<1>2. ValuesOrdered'
  BY DEF ValuesOrdered, Alive, InWait, Turn, Distance, deviceVars, bufferVars,
         chainVars, gpuVars
<1> QED
  BY <1>1, <1>2 DEF Alive, InWait, Waiting, Ready, Finished, deviceVars, bufferVars,
         chainVars, gpuVars

LEMMA RemoveDeviceStep == IInv /\ RemoveDevice => IInv'
<1> SUFFICES ASSUME IInv, RemoveDevice PROVE IInv'
  OBVIOUS
<1> USE DEF IInv, RemoveDevice
<1>1. TypeOK'
  BY DEF TypeOK, Alive, cpuVars, bufferVars, chainVars, gpuVars
<1>2. ValuesOrdered'
  BY DEF ValuesOrdered, Alive, InWait, cpuVars, bufferVars, chainVars, gpuVars
<1> QED
  BY <1>1, <1>2 DEF Alive, InWait, Waiting, Ready, Finished, cpuVars, bufferVars,
         chainVars, gpuVars

LEMMA GpuStepStep == IInv /\ GpuStep => IInv'
<1> SUFFICES ASSUME IInv, GpuStep PROVE IInv'
  OBVIOUS
<1> USE DEF IInv, GpuStep
<1>1. /\ TypeOK' /\ done \in Nat /\ done' = done + 1 /\ Len(sig) \in Nat
  BY DEF TypeOK, Alive, cpuVars, deviceVars, bufferVars, chainVars
<1>2. UNCHANGED <<phase, request, current, device, health, length, cur, value, rtvs, mIndex,
                  use, copies, sig>>
  BY DEF cpuVars, deviceVars, bufferVars, chainVars
<1>3. Alive => ValuesOrdered'
  <2> SUFFICES ASSUME Alive, NEW i \in 0..(length - 1)
               PROVE  \/ Lost
                      \/ value[i] + length > Turn + Distance(i)
                      \/ done + 1 + length > Turn + Distance(i)
    BY <1>1, <1>2 DEF ValuesOrdered, InWait, Turn, Distance
  <2>1. Turn \in Int /\ Distance(i) \in Nat /\ length \in Nat
    BY <1>1, Turns DEF Turn
  <2> QED
    BY <1>1, <2>1 DEF ValuesOrdered
<1>4. Ready'
  <2>1. (Alive /\ ~InWait) => use[cur] \in Nat /\ length \in Nat
    BY Turns DEF TypeOK
  <2> QED
    BY <1>1, <1>2, <2>1 DEF Ready, Alive, InWait, Finished
<1>5. phase = "flushed" => Finished(Len(sig))'
  BY <1>1, <1>2 DEF Finished
<1> QED
  BY <1>1, <1>2, <1>3, <1>4, <1>5 DEF Alive, InWait, Waiting

LEMMA Preserved == IInv /\ [Next]_vars => IInv'
<1> SUFFICES ASSUME IInv, [Next]_vars PROVE IInv'
  OBVIOUS
<1>1. CASE UNCHANGED vars
  BY <1>1 DEF vars, cpuVars, deviceVars, bufferVars, chainVars, gpuVars, IInv, TypeOK,
              Alive, InWait, ValuesOrdered, Turn, Distance, Waiting, Ready, Finished
<1>2. CASE \E r \in Requests : Flush(r) \/ FlushLost(r)
  BY <1>2, FlushStep, FlushLostStep
<1> QED
  BY <1>1, <1>2, BeginStep, EndStep, EndLostStep, FinishAdvanceStep, FinishFlushStep,
     UpdateSwapChainStep, SetAdapterStep, FailureStep, QuietStep, RemoveDeviceStep,
     GpuStepStep DEF Next

\* The invariant holds in every reachable state.
THEOREM Inductive == Spec => []IInv
<1> QED
  BY InitInductive, Preserved, PTL DEF Spec

\* Every variable has its type.
THEOREM TypeCorrect == Spec => []TypeOK
<1>1. IInv => TypeOK
  BY DEF IInv
<1> QED
  BY <1>1, Inductive, PTL

\* No frame starts on an allocator or a surface the gpu still works with.
THEOREM FramesReuseSafely == Spec => []FrameReusable
<1>1. IInv => FrameReusable
  BY DEF IInv, FrameReusable, Ready, Alive, InWait
<1> QED
  BY <1>1, Inductive, PTL

\* The fence of the direct queue is only ever raised.
THEOREM FenceOnlyRises == Spec => []FenceIncreases
<1>1. IInv => FenceIncreases
  BY DEF IInv, FenceIncreases, TypeOK
<1> QED
  BY <1>1, Inductive, PTL

\* What the thread waits for has been handed to the gpu.
THEOREM WaitsForSignals == Spec => []AwaitedIsSignalled
<1>1. ASSUME IInv PROVE AwaitedIsSignalled
  <2>1. InWait => /\ Len(sig) \in 1..Len(sig) /\ sig[Len(sig)] = Len(sig)
                  /\ value[cur] <= Len(sig) /\ current = Len(sig)
    <3>1. ASSUME InWait
          PROVE  /\ TypeOK /\ Alive /\ ValuesOrdered /\ current = Len(sig) /\ Len(sig) > 0
                 /\ \A b \in 1..Len(sig) : sig[b] = b
      BY <1>1, <3>1 DEF IInv, Waiting, Alive, InWait
    <3>2. ASSUME InWait
          PROVE  value[cur] <= Len(sig) /\ Len(sig) \in Nat
      BY <3>1, <3>2, Types, OrderedAt
    <3> QED
      BY <3>1, <3>2
  <2> QED
    BY <1>1, <2>1 DEF AwaitedIsSignalled, InWait, IInv, TypeOK
<1> QED
  BY <1>1, Inductive, PTL

\* What a flush precedes is released by the gpu.
THEOREM ReleasesFlushed == Spec => []FlushedBeforeRelease
<1>1. IInv => FlushedBeforeRelease
  BY DEF IInv, FlushedBeforeRelease
<1> QED
  BY <1>1, Inductive, PTL

\* The thread is never a whole round of buffers ahead of the gpu.
THEOREM InFlightBounded == Spec => []FramesInFlight
<1>1. IInv => FramesInFlight
  BY DEF IInv, FramesInFlight, Ready, Alive, InWait
<1> QED
  BY <1>1, Inductive, PTL

\* The rtv heap holds one view of every back buffer, whatever resizes came.
THEOREM ViewsBalanced == Spec => []RtvsBalanced
<1>1. IInv => RtvsBalanced
  BY DEF IInv, RtvsBalanced
<1> QED
  BY <1>1, Inductive, PTL

\* A failed move either leaves the context as it was or has its new device.
THEOREM MovesKeepContext == Spec => MoveKeepsContext
<1>1. [Next]_vars =>
        [ (phase = "flushed" /\ request.op = "adapter" /\ request.to # device
           /\ phase' = "broken") => device' = request.to ]_vars
  <2> SUFFICES ASSUME Next, phase = "flushed", request.op = "adapter",
                      request.to # device, phase' = "broken"
               PROVE  device' = request.to
    BY DEF vars
  <2> QED
    BY DEF Next, Begin, End, EndLost, FinishAdvance, Flush, FlushLost, FinishFlush,
           UpdateSwapChain, UpdateSwapChainFails, SetAdapter, RecreateFails, MoveFails,
           CreateStateFails, Destroy, RemoveDevice, GpuStep, cpuVars
<1> QED
  BY <1>1, PTL DEF Spec, MoveKeepsContext

-----------------------------------------------------------------------------
(* The ring of back buffers is a pool of slots.  The refinement needs one    *)
(* more invariant: no allocator is used by a batch that was not submitted,   *)
(* and a context broken by an exception, or gone, has nothing on the gpu.    *)

BuffersUsed ==
  /\ \A i \in DOMAIN use : use[i] \in Nat /\ use[i] <= Len(sig)
  /\ phase \in {"broken", "destroyed"} => Finished(Len(sig))

LEMMA InitUsed == Init => BuffersUsed
BY DEF Init, BuffersUsed, Fresh

\* New command lists have not been used, and a new fence has signalled nothing.
LEMMA CreatedUnused ==
  ASSUME IInv, UpdateSwapChain \/ SetAdapter \/ RecreateFails \/ CreateStateFails
  PROVE  /\ \A i \in DOMAIN use' : use'[i] = 0
         /\ \/ UNCHANGED <<sig, done, health>>
            \/ sig' = <<>> /\ done' = 0
<1>1. \E n \in {0, length, request.to} : use' = Fresh(n, 0)
  BY DEF UpdateSwapChain, SetAdapter, RecreateFails, CreateStateFails, ResetDevice
<1>2. PICK n : use' = [i \in 0..(n - 1) |-> 0]
  BY <1>1, FreshLists
<1>3. UNCHANGED <<sig, done, health>> \/ (sig' = <<>> /\ done' = 0)
  BY DEF UpdateSwapChain, SetAdapter, RecreateFails, CreateStateFails, ResetDevice, gpuVars,
         deviceVars
<1> QED
  BY <1>2, <1>3

LEMMA NextUsed == IInv /\ BuffersUsed /\ [Next]_vars => BuffersUsed'
<1> SUFFICES ASSUME IInv, BuffersUsed, [Next]_vars PROVE BuffersUsed'
  OBVIOUS
<1>0. /\ TypeOK /\ Len(sig) \in Nat /\ done \in Nat /\ done <= Len(sig)
      /\ sig \in Seq(Nat)
      /\ phase = "flushed" => Finished(Len(sig))
  BY DEF IInv, TypeOK
<1>1. CASE End
  <2>1. /\ Alive /\ use' = [use EXCEPT ![cur] = Len(sig) + 1] /\ length' = length
        /\ phase' = "advance" /\ sig' = Append(sig, value[cur])
    BY <1>1 DEF End, Signal, Alive
  <2>2. use \in [0..(length - 1) -> Nat] /\ value[cur] \in Nat
    BY <1>0, <2>1, Types
  <2>3. Len(sig') = Len(sig) + 1
    BY <1>0, <2>1, <2>2
  <2> QED
    BY <1>0, <2>1, <2>2, <2>3 DEF BuffersUsed
<1>2. CASE \E r \in Requests : Flush(r)
  <2>1. /\ Alive /\ UNCHANGED <<use, length>> /\ phase' = "flush" /\ sig' = Append(sig, value[cur])
    BY <1>2 DEF Flush, Signal, Alive, chainVars, bufferVars
  <2>2. value[cur] \in Nat
    BY <1>0, <2>1, Types
  <2>3. Len(sig') = Len(sig) + 1
    BY <1>0, <2>1, <2>2
  <2> QED
    BY <1>0, <2>1, <2>3 DEF BuffersUsed
<1>3. CASE UpdateSwapChain \/ SetAdapter \/ RecreateFails \/ CreateStateFails
  <2>1. phase = "flushed"
    BY <1>3 DEF UpdateSwapChain, SetAdapter, RecreateFails, CreateStateFails
  <2>2. \A i \in DOMAIN use' : use'[i] = 0
    BY <1>3, CreatedUnused
  <2>3. CASE UNCHANGED <<sig, done, health>>
    BY <1>0, <2>1, <2>2, <2>3 DEF BuffersUsed, Finished
  <2>4. CASE sig' = <<>> /\ done' = 0
    <3>1. Len(sig') = 0
      BY <2>4
    <3> QED
      BY <2>2, <2>4, <3>1 DEF BuffersUsed, Finished
  <2> QED
    BY <1>3, <2>3, <2>4, CreatedUnused
<1>5. CASE UpdateSwapChainFails
  BY <1>0, <1>5 DEF BuffersUsed, UpdateSwapChainFails, Finished, deviceVars, gpuVars
<1>6. CASE GpuStep
  BY <1>0, <1>6 DEF BuffersUsed, GpuStep, Finished, cpuVars, bufferVars, chainVars, deviceVars
<1>7. CASE Begin \/ EndLost \/ FinishAdvance \/ FinishFlush \/ MoveFails \/ Destroy
             \/ RemoveDevice
  BY <1>0, <1>7 DEF BuffersUsed, Begin, EndLost, FinishAdvance, FinishFlush, MoveFails,
    Destroy, RemoveDevice, Finished, cpuVars, bufferVars, chainVars, deviceVars, gpuVars
<1>8. CASE \E r \in Requests : FlushLost(r)
  BY <1>0, <1>8 DEF BuffersUsed, FlushLost, Finished, bufferVars, chainVars, deviceVars, gpuVars
<1>9. CASE UNCHANGED vars
  BY <1>9 DEF BuffersUsed, Finished, vars, cpuVars, bufferVars, chainVars, deviceVars, gpuVars
<1> QED
  BY <1>1, <1>2, <1>3, <1>5, <1>6, <1>7, <1>8, <1>9 DEF Next

Held == IF phase = "recording" THEN cur ELSE -1

LEMMA OwnerDomain == DOMAIN Owner = DOMAIN use
BY DEF Owner

\* What the ring says of one slot.
LEMMA OwnerAt ==
  ASSUME BuffersUsed, NEW i \in DOMAIN use
  PROVE  /\ Owner[i] = IF Finished(use[i]) THEN 0 ELSE use[i]
         /\ Owner[i] \in Nat /\ Owner[i] <= use[i]
BY DEF Owner, BuffersUsed

\* When the gpu has finished everything, no slot has an owner.
LEMMA FlushedFree ==
  ASSUME TypeOK, BuffersUsed, Finished(Len(sig))
  PROVE  Pool!AllFree(Owner)
<1>1. Len(sig) \in Nat /\ done \in Nat
  BY DEF TypeOK
<1>2. \A i \in DOMAIN use : Owner[i] = 0
  BY <1>1 DEF Owner, BuffersUsed, Finished
<1> QED
  BY <1>2, OwnerDomain DEF Pool!AllFree, Pool!Free

LEMMA InitPool == Init => Pool!Init
<1> SUFFICES ASSUME Init PROVE Pool!Init
  OBVIOUS
<1>1. \A i \in DOMAIN use : Owner[i] = 0
  BY DEF Init, Fresh, Owner, Finished
<1> QED
  BY <1>1, OwnerDomain DEF Init, Pool!Init, Pool!AllFree, Pool!Free, Pool!NoSlot

\* Steps that leave the allocators' batches and the gpu alone.
LEMMA OwnerKept ==
  ASSUME UNCHANGED <<use, done, health>>
  PROVE  UNCHANGED Owner
BY DEF Owner, Finished

LEMMA TakeStep ==
  ASSUME IInv, BuffersUsed, Begin
  PROVE  Pool!Take
<1>1. UNCHANGED Owner
  BY OwnerKept DEF Begin, bufferVars, chainVars, gpuVars, deviceVars
<1>2. TypeOK /\ Ready /\ Alive /\ ~InWait /\ phase = "idle" /\ phase' = "recording" /\ cur' = cur
  BY DEF IInv, Begin, Alive, InWait, bufferVars
<1>3. cur \in DOMAIN use /\ Finished(use[cur])
  BY <1>2, Types DEF Ready
<1>4. Owner[cur] = 0
  BY <1>3, OwnerAt
<1>5. cur \in DOMAIN Owner /\ Owner[cur] = Pool!Free
  BY <1>3, <1>4, OwnerDomain DEF Pool!Free
<1> QED
  BY <1>1, <1>2, <1>5 DEF Pool!Take, Pool!NoSlot

LEMMA SubmitStep ==
  ASSUME IInv, BuffersUsed, End
  PROVE  Pool!Submit
<1>1. /\ TypeOK /\ Ready /\ Alive /\ ~InWait /\ ~Lost
      /\ phase = "recording" /\ phase' = "advance"
      /\ UNCHANGED <<length, done, health>>
      /\ use' = [use EXCEPT ![cur] = Len(sig) + 1] /\ Len(sig) < MaxSignals
  BY DEF IInv, End, Alive, InWait, deviceVars, Signal
<1>2. /\ cur \in 0..(length - 1) /\ Finished(use[cur])
      /\ use \in [0..(length - 1) -> Nat]
      /\ Len(sig) \in Nat /\ done \in Nat /\ done <= Len(sig)
  BY <1>1, Types DEF Ready
<1> DEFINE batch == Len(sig) + 1
<1>3. batch \in 1..MaxSignals
  BY <1>1, <1>2, CoreContextAssumption
<1>4. \A s \in DOMAIN Owner : Owner[s] < batch
  <2> SUFFICES ASSUME NEW s \in DOMAIN use PROVE Owner[s] < batch
    BY OwnerDomain
  <2>1. Owner[s] \in Nat /\ Owner[s] <= use[s]
    BY OwnerAt
  <2>2. use[s] \in Nat /\ use[s] <= Len(sig)
    BY DEF BuffersUsed
  <2> QED
    BY <1>2, <2>1, <2>2
<1>5. Owner' = [Owner EXCEPT ![cur] = batch]
  <2>1. ~Lost' /\ length' = length /\ done' = done
    BY <1>1
  <2>2. Owner' = [i \in 0..(length - 1) |-> IF Finished(use[i])' THEN 0 ELSE use'[i]]
    <3>1. DOMAIN use' = 0..(length - 1)
      BY <1>1, <1>2
    <3> QED
      BY <3>1 DEF Owner
  <2>3. ASSUME NEW i \in 0..(length - 1)
        PROVE  (IF Finished(use[i])' THEN 0 ELSE use'[i]) = IF i = cur THEN batch ELSE Owner[i]
    <3>1. CASE i = cur
      <4>1. use'[i] = batch /\ ~(batch <= done)
        BY <1>1, <1>2, <3>1
      <4> QED
        BY <2>1, <3>1, <4>1 DEF Finished
    <3>2. CASE i # cur
      <4>1. use'[i] = use[i]
        BY <1>1, <1>2, <3>2
      <4>2. i \in DOMAIN use
        BY <1>2
      <4>3. Owner[i] = IF Finished(use[i]) THEN 0 ELSE use[i]
        BY <4>2 DEF Owner
      <4>4. Finished(use[i])' <=> Finished(use[i])
        BY <1>1, <2>1, <4>1 DEF Finished
      <4> QED
        BY <3>2, <4>1, <4>3, <4>4
    <3> QED
      BY <3>1, <3>2
  <2>4. Owner' = [i \in 0..(length - 1) |-> IF i = cur THEN batch ELSE Owner[i]]
    BY <2>2, <2>3
  <2>5. DOMAIN Owner = 0..(length - 1)
    BY <1>2, OwnerDomain
  <2> QED
    BY <2>4, <2>5
<1>6. Owner[cur] = 0
  BY <1>2, OwnerAt
<1>7. Held = cur /\ Held' = -1 /\ cur # -1
  BY <1>1, <1>2 DEF Held
<1> HIDE DEF batch
<1> QED
  BY <1>3, <1>4, <1>5, <1>6, <1>7 DEF Held, Pool!Submit, Pool!NoSlot, Pool!Free

LEMMA GiveUpStep ==
  ASSUME IInv, EndLost
  PROVE  Pool!GiveUp
<1>1. UNCHANGED Owner
  BY OwnerKept DEF EndLost, bufferVars, gpuVars, deviceVars
<1>2. TypeOK /\ Alive /\ phase = "recording" /\ phase' = "idle"
  BY DEF IInv, EndLost, Alive
<1>3. cur \in 0..(length - 1)
  BY <1>2, Types
<1>4. cur # -1
  BY <1>3
<1> QED
  BY <1>1, <1>2, <1>4 DEF Pool!GiveUp, Pool!NoSlot

\* The gpu finishes a batch, or loses all there are.
LEMMA CompleteStep ==
  ASSUME IInv, BuffersUsed, GpuStep \/ RemoveDevice
  PROVE  Pool!Complete
<1>1. /\ UNCHANGED <<phase, length, cur, use>>
      /\ \/ Lost'
         \/ ~Lost /\ ~Lost' /\ done' = done + 1
      /\ done \in Nat
  BY DEF GpuStep, RemoveDevice, cpuVars, deviceVars, bufferVars, chainVars, IInv, TypeOK
<1> DEFINE ended == {i \in DOMAIN use : Finished(use[i])'}
<1>2. ended \in SUBSET DOMAIN Owner
  BY OwnerDomain
<1>3. ASSUME NEW s \in ended, NEW t \in DOMAIN Owner \ ended, Owner[t] # 0
      PROVE  Owner[s] < Owner[t]
  <2>1. s \in DOMAIN use /\ t \in DOMAIN use /\ Finished(use[s])' /\ ~Finished(use[t])'
    BY <1>3, OwnerDomain
  <2>2. use[s] \in Nat /\ use[t] \in Nat
    BY <2>1 DEF BuffersUsed
  <2>3. ~Lost' /\ use[s] <= done' /\ ~(use[t] <= done') /\ done' \in Nat
    BY <1>1, <2>1 DEF Finished
  <2>4. Owner[s] \in Nat /\ Owner[s] <= use[s]
    BY <2>1, OwnerAt
  <2>5. Owner[t] = use[t]
    BY <1>3, <2>1, OwnerAt
  <2> QED
    BY <2>2, <2>3, <2>4, <2>5
<1>4. Owner' = [s \in DOMAIN Owner |-> IF s \in ended THEN 0 ELSE Owner[s]]
  <2>1. Owner' = [i \in DOMAIN use |-> IF Finished(use[i])' THEN 0 ELSE use[i]]
    BY <1>1 DEF Owner
  <2>2. ASSUME NEW i \in DOMAIN use
        PROVE  (IF Finished(use[i])' THEN 0 ELSE use[i]) = IF i \in ended THEN 0 ELSE Owner[i]
    <3>1. CASE i \in ended
      BY <3>1
    <3>2. CASE i \notin ended
      <4>1. ~Finished(use[i])'
        BY <3>2
      <4>2. use[i] \in Nat
        BY DEF BuffersUsed
      <4>3. ~Finished(use[i])
        BY <1>1, <4>1, <4>2 DEF Finished
      <4> QED
        BY <3>2, <4>1, <4>3, OwnerAt
    <3> QED
      BY <3>1, <3>2
  <2> HIDE DEF ended
  <2> QED
    BY <2>1, <2>2, OwnerDomain
<1> HIDE DEF ended
<1> QED
  BY <1>1, <1>2, <1>3, <1>4 DEF Pool!Complete, Pool!Free

\* Buffers are exchanged, or lost to an exception, behind a flush.
LEMMA ExchangeStep ==
  ASSUME IInv, BuffersUsed, BuffersUsed',
         \/ UpdateSwapChain \/ SetAdapter
         \/ UpdateSwapChainFails \/ RecreateFails \/ CreateStateFails
  PROVE  Pool!Exchange
<1>1. TypeOK /\ phase = "flushed" /\ Finished(Len(sig)) /\ phase' \in {"idle", "broken"}
  BY DEF IInv, UpdateSwapChain, SetAdapter, UpdateSwapChainFails, RecreateFails,
         CreateStateFails, Break
<1>2. Pool!AllFree(Owner)
  BY <1>1, FlushedFree
<1>3. Pool!AllFree(Owner)'
  <2>1. CASE UpdateSwapChainFails
    <3>1. UNCHANGED Owner
      BY <2>1, OwnerKept DEF UpdateSwapChainFails, deviceVars, gpuVars
    <3> QED
      BY <1>2, <3>1 DEF Pool!AllFree
  <2>2. CASE UpdateSwapChain \/ SetAdapter \/ RecreateFails \/ CreateStateFails
    <3>1. done' \in Nat
      BY <1>1, <2>2, CreatedUnused DEF TypeOK
    <3>2. \A i \in DOMAIN use' : use'[i] = 0
      BY <2>2, CreatedUnused
    <3>3. \A i \in DOMAIN use' : Owner'[i] = 0
      BY <3>1, <3>2 DEF Owner, Finished
    <3>4. DOMAIN Owner' = DOMAIN use'
      BY DEF Owner
    <3> QED
      BY <3>3, <3>4 DEF Pool!AllFree, Pool!Free
  <2> QED
    BY <2>1, <2>2
<1> QED
  BY <1>1, <1>2, <1>3 DEF Pool!Exchange, Pool!NoSlot

\* Every step of the context is a step of the pool, or leaves it alone.
LEMMA NextPool ==
  ASSUME IInv, BuffersUsed, BuffersUsed', [Next]_vars
  PROVE  [Pool!Next]_(Pool!vars)
<1>1. CASE Begin
  BY <1>1, TakeStep DEF Pool!Next
<1>2. CASE End
  BY <1>2, SubmitStep DEF Pool!Next
<1>3. CASE EndLost
  BY <1>3, GiveUpStep DEF Pool!Next
<1>4. CASE GpuStep \/ RemoveDevice
  BY <1>4, CompleteStep DEF Pool!Next
<1>5. CASE \/ UpdateSwapChain \/ SetAdapter
           \/ UpdateSwapChainFails \/ RecreateFails \/ CreateStateFails
  BY <1>5, ExchangeStep DEF Pool!Next
<1>6. CASE \/ FinishAdvance \/ FinishFlush \/ MoveFails \/ Destroy
           \/ \E r \in Requests : Flush(r) \/ FlushLost(r)
           \/ UNCHANGED vars
  <2>1. UNCHANGED <<length, use, done, health, cur>>
    BY <1>6 DEF FinishAdvance, FinishFlush, MoveFails, Destroy, Flush, FlushLost, vars,
      cpuVars, deviceVars, bufferVars, chainVars, gpuVars
  <2>2. (phase = "recording") = (phase' = "recording")
    BY <1>6 DEF FinishAdvance, FinishFlush, MoveFails, Destroy, Flush, FlushLost, vars,
      cpuVars
  <2>3. UNCHANGED Owner
    BY <2>1, OwnerKept
  <2> QED
    BY <2>1, <2>2, <2>3 DEF Pool!vars
<1> QED
  BY <1>1, <1>2, <1>3, <1>4, <1>5, <1>6 DEF Next

\* The context implements a pool of slots: a frame begins on a free slot only,
\* and the buffers are exchanged, moved or given up when all are free.
THEOREM Refinement == Spec => ImplementsSlotPool
<1>1. Spec => []BuffersUsed
  <2>1. BuffersUsed /\ IInv /\ [Next]_vars => BuffersUsed'
    BY NextUsed
  <2> QED
    BY <2>1, InitUsed, Inductive, PTL DEF Spec
<1>2. IInv /\ BuffersUsed /\ BuffersUsed' /\ [Next]_vars => [Pool!Next]_(Pool!vars)
  BY NextPool
<1> QED
  BY <1>1, <1>2, InitPool, Inductive, PTL DEF Spec, ImplementsSlotPool, Pool!Spec
=============================================================================
