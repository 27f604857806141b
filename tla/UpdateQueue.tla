----------------------------- MODULE UpdateQueue -----------------------------
(***************************************************************************)
(* The ring buffer inside convex_subscription: queue, queue_start and      *)
(* queue_count, with the three places of convex.c that touch it, each      *)
(* under the manager's mutex.  A slot holds an update or Empty (the        *)
(* memset that releases it).                                               *)
(***************************************************************************)
EXTENDS Naturals

CONSTANTS Capacity, Updates, Empty

ASSUME CapacityAssumption == Capacity \in Nat \ {0}
ASSUME EmptyAssumption == Empty \notin Updates

VARIABLES queue, queue_start, queue_count,
          returned      \* the update convex_subscription_next gave its caller

vars == <<queue, queue_start, queue_count, returned>>

Slots == 0 .. Capacity - 1
Slot(n) == (queue_start + n) % Capacity

\* Definitions whose name starts with Slip are plausible mistakes in the
\* definition below them, kept to show which property notices them.
Advance(i) == (i + 1) % Capacity

SlipNotReleased(slots) == queue
Release(slots) == [i \in Slots |-> IF i \in slots THEN Empty ELSE queue[i]]

Init == /\ queue = [i \in Slots |-> Empty]
        /\ queue_start = 0
        /\ queue_count = 0
        /\ returned = Empty

(***************************************************************************)
(* enqueue_update_locked: at capacity the oldest slot is freed first, then *)
(* the update goes behind the last one.  When the queue is full the freed  *)
(* slot and the written one are the same slot.                             *)
(***************************************************************************)
Full == queue_count = Capacity
SlipDropNewest == queue_start
FirstKept == IF Full THEN Advance(queue_start) ELSE queue_start
Kept == IF Full THEN queue_count - 1 ELSE queue_count

EnqueueUpdate(u) ==
  /\ queue' = [queue EXCEPT ![(FirstKept + Kept) % Capacity] = u]
  /\ queue_start' = FirstKept
  /\ queue_count' = Kept + 1
  /\ returned' = Empty

\* convex_subscription_next on a non-empty queue: take the head, clear its slot.
SubscriptionNext ==
  /\ queue_count > 0
  /\ returned' = queue[queue_start]
  /\ queue' = Release({queue_start})
  /\ queue_start' = Advance(queue_start)
  /\ queue_count' = queue_count - 1

\* convex_close releases the occupied slots and rewinds the indices.
Clear ==
  /\ queue' = Release({Slot(n) : n \in 0 .. queue_count - 1})
  /\ queue_start' = 0
  /\ queue_count' = 0
  /\ returned' = Empty

Next == (\E u \in Updates : EnqueueUpdate(u)) \/ SubscriptionNext \/ Clear

Spec == Init /\ [][Next]_vars
-----------------------------------------------------------------------------
(* The indices stay in range and the queue never exceeds its capacity. *)
TypeOK == /\ queue \in [Slots -> Updates \cup {Empty}]
          /\ queue_start \in Slots
          /\ queue_count \in 0 .. Capacity
          /\ returned \in Updates \cup {Empty}

(* Exactly the queue_count slots from queue_start on hold an update: a slot *)
(* that is read is never one that was released, and a released update is   *)
(* never kept alive in a slot nobody will read (a leak of its JSON value). *)
OccupiedSlots ==
  \A i \in Slots :
    queue[i] # Empty <=> \E n \in 0 .. queue_count - 1 : i = Slot(n)

(* The ring implements the queue that keeps the newest Capacity updates in *)
(* order: what convex_subscription_next returns is what LatestQueue hands  *)
(* out at the same step.                                                   *)
Pending == [n \in 1 .. queue_count |-> queue[Slot(n - 1)]]

Latest == INSTANCE LatestQueue
            WITH pending  <- Pending,
                 consumed <- IF returned = Empty THEN <<>> ELSE <<returned>>

KeepsLatest == Latest!Spec
=============================================================================
