--------------------------- MODULE AtomicRegister ---------------------------
(***************************************************************************)
(* What a mailbox promises the thread that reads it: the value it acquires *)
(* is the last one published, whole, and stays what it is until released.  *)
(***************************************************************************)
EXTENDS Naturals

CONSTANTS
  Parts,   \* the pieces a value is copied in
  Nothing  \* what a reader holds outside lock and unlock

VARIABLES
  count,  \* values published so far
  held    \* the value the reader holds

\* The k-th value written; the 0-th is the default T().
Whole(k) == [p \in Parts |-> k]

Init == count = 0 /\ held = Nothing

Publish == count' = count + 1 /\ UNCHANGED held

Acquire == held = Nothing /\ held' = Whole(count) /\ UNCHANGED count

Release == held # Nothing /\ held' = Nothing /\ UNCHANGED count

Next == Publish \/ Acquire \/ Release

Spec == Init /\ [][Next]_<<count, held>>
=============================================================================
