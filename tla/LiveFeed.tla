-------------------------------- MODULE LiveFeed --------------------------------
(***************************************************************************)
(* What the Live client promises to the holder of one convex_subscription. *)
(* While the subscription is open the client may put updates in its queue; *)
(* from the call of convex_unsubscribe on it puts in nothing more, though  *)
(* what is already there can still be taken; the Remove completes once;    *)
(* and the client may stop.  LiveClient keeps this promise for every       *)
(* subscription (its property FeedsKept), and AdapterRelay relies on it.   *)
(***************************************************************************)
EXTENDS NewestQueue

CONSTANT Updates

VARIABLES feed,         \* where the subscription is in its life
          queue         \* published and not taken

States == {"absent", "open", "leaving", "left", "stopped"}

Init == feed = "absent" /\ queue = <<>>

\* A subscription can still be made while the client closes: nothing feeds it.
Subscribe == /\ feed = "absent"
             /\ feed' \in {"open", "stopped"}
             /\ UNCHANGED queue

Publish(u) == /\ feed = "open"
              /\ queue' = PushLatest(queue, u)
              /\ UNCHANGED feed

Take == /\ queue # <<>>
        /\ queue' = Tail(queue)
        /\ UNCHANGED feed

Unsubscribe == /\ feed = "open"
               /\ feed' = "leaving"
               /\ UNCHANGED queue

Removed == /\ feed = "leaving"
           /\ feed' = "left"
           /\ UNCHANGED queue

Stop == /\ feed \in {"open", "leaving"}
        /\ feed' = "stopped"
        /\ UNCHANGED queue

\* convex_close has the client stop, then frees what nobody has taken.
Release == /\ feed \in {"left", "stopped"}
           /\ queue' = <<>>
           /\ UNCHANGED feed

Next == \/ Subscribe \/ (\E u \in Updates : Publish(u)) \/ Take
        \/ Unsubscribe \/ Removed \/ Stop \/ Release

Spec == Init /\ [][Next]_<<feed, queue>>
=============================================================================
