----------------------------- MODULE MCLiveClient -----------------------------
(***************************************************************************)
(* LiveClient on small instances.  The bounds of each run are in its cfg:  *)
(*   MCLiveTwo         two subscriptions, one commit, one fault, under     *)
(*                     fairness                                            *)
(*   MCLiveOrder       one subscription, three commits (the second makes   *)
(*                     the query fail), a fault, a forced disconnect and   *)
(*                     fragmented messages                                 *)
(*   MCLiveCount, MCLiveFragment, MCLiveErrorLast   the three findings     *)
(* MCLiveThreads is its threads under fairness.                            *)
(***************************************************************************)
EXTENDS LiveClient

=============================================================================
