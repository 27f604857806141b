----------------------------- MODULE LatestQueue -----------------------------
(***************************************************************************)
(* What one subscription queue promises: its consumer sees, in publication *)
(* order, the newest Capacity updates it has not consumed yet.             *)
(* UpdateQueue is the ring buffer of the C client that keeps this promise; *)
(* LiveClient uses PushLatest for its queues on the strength of it.        *)
(***************************************************************************)
EXTENDS NewestQueue

CONSTANT Updates        \* what can be published

VARIABLES pending,      \* published and not consumed, oldest first
          consumed      \* what the last step handed to the consumer, if anything

NothingConsumed == <<>>

Init == pending = <<>> /\ consumed = NothingConsumed

Publish(u) == /\ pending' = PushLatest(pending, u)
              /\ consumed' = NothingConsumed

Consume == /\ pending # <<>>
           /\ consumed' = <<Head(pending)>>
           /\ pending' = Tail(pending)

Discard == pending' = <<>> /\ consumed' = NothingConsumed

Next == (\E u \in Updates : Publish(u)) \/ Consume \/ Discard

Spec == Init /\ [][Next]_<<pending, consumed>>
=============================================================================
