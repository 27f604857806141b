------------------------------ MODULE NewestQueue ------------------------------
(***************************************************************************)
(* A publication never blocks and never fails: a queue that holds Capacity *)
(* updates forgets its oldest one.                                         *)
(***************************************************************************)
EXTENDS Naturals, Sequences

CONSTANT Capacity       \* LIVE_QUEUE_CAPACITY

\* A plausible mistake in PushLatest, kept to show which property notices it.
SlipUnboundedQueue(s, u) == Append(s, u)
PushLatest(s, u) == Append(IF Len(s) = Capacity THEN Tail(s) ELSE s, u)
=============================================================================
