------------------------------ MODULE SlotPool -------------------------------
(* What a ring of frame slots promises: the recorder takes a slot only when  *)
(* the device is done with what was recorded in it before, the device works  *)
(* the slots off in the order they were submitted, and the ring is exchanged *)
(* for another only when nothing in it is in use.                            *)
EXTENDS Integers

CONSTANT Batches  \* the numbers batches may have

NoSlot == -1
Free == 0

VARIABLES
  owner,  \* for each slot the batch of the device that uses it, or Free
  held    \* the slot that is recorded, or NoSlot

vars == <<owner, held>>

AllFree(slots) == \A s \in DOMAIN slots : slots[s] = Free

Init == AllFree(owner) /\ held = NoSlot

Take ==
  /\ held = NoSlot
  /\ \E s \in DOMAIN owner : owner[s] = Free /\ held' = s
  /\ UNCHANGED owner

\* Later batches have larger numbers.
Submit ==
  /\ held # NoSlot /\ owner[held] = Free
  /\ \E batch \in Batches :
       /\ \A s \in DOMAIN owner : owner[s] < batch
       /\ owner' = [owner EXCEPT ![held] = batch]
  /\ held' = NoSlot

GiveUp ==
  /\ held # NoSlot /\ held' = NoSlot
  /\ UNCHANGED owner

\* The device is done with some batches, and with all before them.
Complete ==
  /\ \E done \in SUBSET DOMAIN owner :
       /\ \A s \in done, t \in DOMAIN owner \ done : owner[t] # Free => owner[s] < owner[t]
       /\ owner' = [s \in DOMAIN owner |-> IF s \in done THEN Free ELSE owner[s]]
  /\ UNCHANGED held

Exchange ==
  /\ held = NoSlot /\ AllFree(owner) /\ AllFree(owner')
  /\ UNCHANGED held

Next == Take \/ Submit \/ GiveUp \/ Complete \/ Exchange

Spec == Init /\ [][Next]_vars
=============================================================================
