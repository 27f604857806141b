----------------------------- MODULE MCLiveThreads -----------------------------
(***************************************************************************)
(* LiveClient with its application threads under fairness, in two          *)
(* scenarios whose product is too large for one run:                       *)
(*   two threads force a disconnect, one call each, beside a reader and    *)
(*   convex_unsubscribe; or                                                *)
(*   a commit, a reader, convex_unsubscribe and convex_close.              *)
(* The action constraint leaves out calls of the application and commits   *)
(* only, steps which no fairness condition asks for: a behaviour that is   *)
(* fair among the remaining steps is fair among all of LiveClient's.       *)
(***************************************************************************)
EXTENDS LiveClient

CONSTANTS d1, d2               \* the two threads of Debuggers

(* Threads are interchangeable: d1 makes the first call.  Once it has been  *)
(* made, a subscription is given up only after its reader drained it.      *)
Scenarios ==
  /\ debug_generation' > 0 => ~closing' /\ now' = 0
  /\ debug_wait'[d1] # 2 /\ debug_wait'[d2] # 1
  /\ debug_generation > 0 /\ remove_pending' # remove_pending =>
       \A q \in Readers : reader[q] = "asleep"
=============================================================================
