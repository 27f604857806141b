----------------------------- MODULE AdapterRelay -----------------------------
(***************************************************************************)
(* The conformance adapter of the C client                                 *)
(* (src/c/client/tests/conformance/main.c): serve reads one command at a   *)
(* time and answers it; every subscription has a record and a relay thread *)
(* that takes its updates and writes them out as events.  The record's     *)
(* state_mutex orders the end of a subscription with the events of its     *)
(* relay.  The client behind it is what LiveFeed promises.                 *)
(*                                                                         *)
(* Commands that touch no record (hello, query, mutation, action, setAuth, *)
(* debugDisconnect) are answered by serve alone and are left out, as is    *)
(* the failure of convex_unsubscribe: it fails only when the worker has    *)
(* stopped, which only the adapter's own convex_close brings about.        *)
(***************************************************************************)
EXTENDS NewestQueue, FiniteSets

CONSTANTS
  Ids,            \* subscriptionIds the harness uses
  MaxSubs,        \* bound: subscriptions ever made
  MaxUpdates      \* bound: updates the client publishes for each of them

ASSUME BoundsAssumption ==
  /\ Capacity \in Nat \ {0}
  /\ MaxSubs \in Nat \ {0}
  /\ MaxUpdates \in Nat
  /\ Ids # {}

Subs == 0 .. MaxSubs - 1
None == MaxSubs
Updates == 1 .. MaxUpdates     \* the updates of a subscription, in their order
Ops == {"subscribe", "unsubscribe", "close", "end"}

VARIABLES
  \* adapter_subscription; records are numbered in the order they are made
  made, subscriptions, id, active, generation,
  \* forward_updates: one thread per record
  relay, own_generation, update,
  \* serve: program counter, command being executed, record being stopped
  serve, op, target,
  \* the client: the life of each convex_subscription, its queue
  feed, queue, publications,
  \* history, for the properties
  emitted,        \* the updates written out for each subscription
  invalidated     \* the records stop_record has invalidated

record  == <<id, active, generation>>
relays  == <<relay, own_generation, update>>
control == <<serve, op, target>>
client  == <<feed, queue, publications>>
vars == <<made, subscriptions, record, relays, control, client, emitted, invalidated>>

Init ==
  /\ made = 0 /\ subscriptions = {}
  /\ id = [n \in Subs |-> CHOOSE i \in Ids : TRUE]
  /\ active = [n \in Subs |-> FALSE]
  /\ generation = [n \in Subs |-> 0]
  /\ relay = [n \in Subs |-> "none"]
  /\ own_generation = [n \in Subs |-> 0]
  /\ update = [n \in Subs |-> 0]
  /\ serve = "read" /\ op = "subscribe" /\ target = None
  /\ feed = [n \in Subs |-> "absent"]
  /\ queue = [n \in Subs |-> <<>>]
  /\ publications = [n \in Subs |-> 0]
  /\ emitted = [n \in Subs |-> <<>>]
  /\ invalidated = {}
-----------------------------------------------------------------------------
(* serve.                                                                  *)

\* Definitions whose name starts with Slip are plausible mistakes in the
\* definition below them, kept to show which property notices them.
SlipNoRecord(i) == {}
Found(i) == {n \in subscriptions : id[n] = i}

\* close and the end of the input stop every record, the newest first.
NextToStop(records) ==
  IF records = {} THEN serve' = "free" /\ target' = None
  ELSE /\ serve' = "stop"
       /\ target' \in {n \in records : \A m \in records : m <= n}

ReadCommand(o, i) ==
  /\ serve = "read"
  /\ op' = o
  /\ id' = IF o = "subscribe" /\ made < MaxSubs THEN [id EXCEPT ![made] = i] ELSE id
  /\ \/ o \in {"close", "end"} /\ NextToStop(subscriptions)
     \/ o = "subscribe" /\ made < MaxSubs /\ Found(i) = {}
        /\ serve' = "open" /\ target' = None
     \/ o = "unsubscribe" /\ Found(i) = {} /\ serve' = "ack" /\ target' = None
     \/ (o = "subscribe" => made < MaxSubs) /\ o \in {"subscribe", "unsubscribe"}
        /\ serve' = "stop" /\ target' \in Found(i)
  /\ UNCHANGED <<made, subscriptions, active, generation, relays, client, emitted,
                 invalidated>>

(* stop_record: invalidate the record under its mutex, have the client      *)
(* remove the query, and wait for the relay thread before freeing anything. *)
Invalidate ==
  /\ serve = "stop"
  /\ active' = [active EXCEPT ![target] = FALSE]
  /\ generation' = [generation EXCEPT ![target] = @ + 1]
  /\ invalidated' = invalidated \cup {target}
  /\ serve' = "unsubscribe"
  /\ UNCHANGED <<made, subscriptions, id, relays, op, target, client, emitted>>

Unsubscribe ==
  /\ serve = "unsubscribe" /\ feed[target] = "open"
  /\ feed' = [feed EXCEPT ![target] = "leaving"]
  /\ serve' = "join"
  /\ UNCHANGED <<made, subscriptions, record, relays, op, target, queue,
                 publications, emitted, invalidated>>

SlipNotJoined(n) == feed[n] = "left"
Joined(n) == feed[n] = "left" /\ relay[n] = "ended"

FreeRecord ==
  /\ serve = "join" /\ Joined(target)
  /\ subscriptions' = subscriptions \ {target}
  /\ \/ op = "subscribe" /\ serve' = "open" /\ target' = None
     \/ op = "unsubscribe" /\ serve' = "ack" /\ target' = None
     \/ op \in {"close", "end"} /\ NextToStop(subscriptions \ {target})
  /\ UNCHANGED <<made, record, relays, op, client, emitted, invalidated>>

(* convex_subscribe gives a subscription: a record, and a thread for it.    *)
Open ==
  /\ serve = "open"
  /\ made' = made + 1
  /\ subscriptions' = subscriptions \cup {made}
  /\ active' = [active EXCEPT ![made] = TRUE]
  /\ generation' = [generation EXCEPT ![made] = 1]
  /\ relay' = [relay EXCEPT ![made] = "starting"]
  /\ feed' = [feed EXCEPT ![made] = "open"]
  /\ serve' = "ack"
  /\ UNCHANGED <<id, own_generation, update, op, target, queue, publications,
                 emitted, invalidated>>

\* Or it gives none: an error is written.
Refuse ==
  /\ serve = "open"
  /\ serve' = "read"
  /\ UNCHANGED <<made, subscriptions, record, relays, op, target, client,
                 emitted, invalidated>>

Acknowledge ==
  /\ serve = "ack"
  /\ serve' = "read"
  /\ UNCHANGED <<made, subscriptions, record, relays, op, target, client,
                 emitted, invalidated>>

\* convex_close and convex_free: the worker stops, the subscriptions are freed.
FreeClient ==
  /\ serve = "free"
  /\ serve' = "done"
  /\ feed' = [n \in Subs |-> IF feed[n] \in {"open", "leaving"} THEN "stopped"
                             ELSE feed[n]]
  /\ queue' = [n \in Subs |-> <<>>]
  /\ UNCHANGED <<made, subscriptions, record, relays, op, target, publications,
                 emitted, invalidated>>
-----------------------------------------------------------------------------
(* forward_updates.                                                        *)
RelayStart(n) ==
  /\ relay[n] = "starting"
  /\ own_generation' = [own_generation EXCEPT ![n] = generation[n]]
  /\ relay' = [relay EXCEPT ![n] = "next"]
  /\ UNCHANGED <<made, subscriptions, record, update, control, client, emitted,
                 invalidated>>

RelayTake(n) ==
  /\ relay[n] = "next" /\ queue[n] # <<>>
  /\ update' = [update EXCEPT ![n] = Head(queue[n])]
  /\ queue' = [queue EXCEPT ![n] = Tail(queue[n])]
  /\ relay' = [relay EXCEPT ![n] = "taken"]
  /\ UNCHANGED <<made, subscriptions, record, own_generation, control, feed,
                 publications, emitted, invalidated>>

\* convex_subscription_next waits while the query may still be fed.
SlipEndsIdle(n) == TRUE
SlipEndsAtClose(n) == feed[n] = "stopped"
Ended(n) == feed[n] \in {"left", "stopped"}

RelayEnd(n) ==
  /\ relay[n] = "next" /\ queue[n] = <<>> /\ Ended(n)
  /\ relay' = [relay EXCEPT ![n] = "ended"]
  /\ UNCHANGED <<made, subscriptions, record, own_generation, update, control,
                 client, emitted, invalidated>>

\* The test and the write are one hold of state_mutex.
SlipSameGeneration(n) == generation[n] = own_generation[n]
MayPublish(n) == active[n] /\ generation[n] = own_generation[n]

RelayForward(n) ==
  /\ relay[n] = "taken"
  /\ emitted' = IF MayPublish(n) THEN [emitted EXCEPT ![n] = Append(@, update[n])]
                ELSE emitted
  /\ relay' = [relay EXCEPT ![n] = "next"]
  /\ update' = [update EXCEPT ![n] = 0]
  /\ UNCHANGED <<made, subscriptions, record, own_generation, control, client,
                 invalidated>>
-----------------------------------------------------------------------------
(* The client's worker, as LiveFeed allows.                                *)
SlipFedToTheLast(n) == feed[n] \in {"open", "leaving"}
Fed(n) == feed[n] = "open"

Publish(n) ==
  /\ Fed(n) /\ publications[n] < MaxUpdates
  /\ publications' = [publications EXCEPT ![n] = @ + 1]
  /\ queue' = [queue EXCEPT ![n] = PushLatest(@, publications[n] + 1)]
  /\ UNCHANGED <<made, subscriptions, record, relays, control, feed, emitted,
                 invalidated>>

Removed(n) ==
  /\ feed[n] = "leaving"
  /\ feed' = [feed EXCEPT ![n] = "left"]
  /\ UNCHANGED <<made, subscriptions, record, relays, control, queue,
                 publications, emitted, invalidated>>
-----------------------------------------------------------------------------
Serve == \/ Invalidate \/ Unsubscribe \/ FreeRecord \/ Open \/ Refuse
         \/ Acknowledge \/ FreeClient
Relay(n) == RelayStart(n) \/ RelayTake(n) \/ RelayEnd(n) \/ RelayForward(n)

Next == \/ \E o \in Ops, i \in Ids : ReadCommand(o, i)
        \/ Serve
        \/ \E n \in Subs : Relay(n)
        \/ \E n \in Subs : Publish(n) \/ Removed(n)

Spec == Init /\ [][Next]_vars

(* Threads run, and the client completes a Remove (LiveClient's property    *)
(* UnsubscribeReturns); the harness need not send another command.         *)
FairSpec == /\ Spec
            /\ WF_vars(Serve)
            /\ \A n \in Subs : WF_vars(Relay(n)) /\ WF_vars(Removed(n))
-----------------------------------------------------------------------------
(* Types.  serve names a record that is in the list while it stops it, and  *)
(* no queue holds more than Capacity updates.                              *)
Queues == {s \in Seq(Updates) : Len(s) <= Capacity}

RecordType == /\ made \in 0 .. MaxSubs /\ subscriptions \subseteq 0 .. made - 1
              /\ id \in [Subs -> Ids]
              /\ active \in [Subs -> BOOLEAN]
              /\ generation \in [Subs -> 0 .. 2]
              /\ invalidated \subseteq Subs
RelayType == /\ relay \in [Subs -> {"none", "starting", "next", "taken", "ended"}]
             /\ own_generation \in [Subs -> 0 .. 2]
             /\ update \in [Subs -> Updates \cup {0}]
             /\ emitted \in [Subs -> Seq(Updates)]
ServeType ==
  /\ serve \in {"read", "stop", "unsubscribe", "join", "open", "ack", "free", "done"}
  /\ op \in Ops
  /\ target \in Subs \cup {None}
  /\ serve \in {"stop", "unsubscribe", "join"} => target \in subscriptions
ClientType == /\ feed \in [Subs -> {"absent", "open", "leaving", "left", "stopped"}]
              /\ queue \in [Subs -> Queues]
              /\ publications \in [Subs -> 0 .. MaxUpdates]

TypeOK == RecordType /\ RelayType /\ ServeType /\ ClientType

(* A subscriptionId names one record: subscribing again with an id that is  *)
(* in use ends the older subscription first, so that find_record, which    *)
(* stops at its first match, never leaves a second one behind.             *)
OneRecordPerId ==
  \A m, n \in subscriptions : id[m] = id[n] => m = n

(* A relay thread never outlives what it uses: while it runs its record is  *)
(* in the list, and neither client nor output is freed.                    *)
Running(n) == relay[n] \in {"starting", "next", "taken"}
RecordOutlivesRelay ==
  \A n \in Subs : Running(n) => n \in subscriptions /\ serve \notin {"free", "done"}

(* Once unsubscribe, a same-id subscribe or close has invalidated a record  *)
(* no event of it is written, not even an update its relay had already     *)
(* taken, nor one taken by a relay that starts only now.                   *)
SilentOnceInvalidated ==
  [][\A n \in invalidated : emitted'[n] = emitted[n]]_vars

(* Every command is answered: no unsubscribe, replacement or close waits    *)
(* for ever for a relay that waits for an update.                          *)
CommandsAnswered == serve # "read" ~> serve \in {"read", "done"}

(* The newest update of a subscription that is kept is written out.         *)
NewestForwarded ==
  <>[](\A n \in subscriptions :
         n \in invalidated \/ publications[n] = 0
           \/ (emitted[n] # <<>> /\ emitted[n][Len(emitted[n])] = publications[n]))

(* The client part of this module is the one LiveClient implements.         *)
Feed(n) == INSTANCE LiveFeed WITH feed <- feed[n], queue <- queue[n]
ClientAsPromised ==
  [][\A n \in Subs : Feed(n)!Next \/ UNCHANGED <<feed[n], queue[n]>>]_vars
=============================================================================
