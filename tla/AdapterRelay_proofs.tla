-------------------------- MODULE AdapterRelay_proofs --------------------------
(***************************************************************************)
(* The adapter's records, relays and output, for any number of             *)
(* subscriptions, ids and updates.                                         *)
(***************************************************************************)
EXTENDS AdapterRelay, TLAPS

Stopping == serve \in {"stop", "unsubscribe", "join"}

(* serve opens a subscription only while one is left, and only once no      *)
(* record has its id: while it stops a record for it, that record is the   *)
(* only one with the id.                                                   *)
RoomToOpen ==
  serve = "open" \/ (op = "subscribe" /\ Stopping) => made < MaxSubs
IdIsFree ==
  /\ serve = "open" => \A n \in subscriptions : id[n] # id[made]
  /\ op = "subscribe" /\ Stopping =>
       \A n \in subscriptions : n # target => id[n] # id[made]

(* A record that has not been made has no state; one that has been made is  *)
(* active in its first generation until it is invalidated.                 *)
Unmade(n) == /\ relay[n] = "none" /\ feed[n] = "absent" /\ n \notin invalidated
             /\ ~active[n] /\ generation[n] = 0 /\ queue[n] = <<>>
Generations(n) ==
  /\ active[n] <=> n \notin invalidated
  /\ generation[n] = IF n \in invalidated THEN 2 ELSE 1

(* Only the record being stopped is invalidated and still in the list; a    *)
(* record leaves the list after its query was removed and its relay ended; *)
(* nothing is left in it when the client is freed.                         *)
OnlyTargetInvalidated ==
  /\ \A n \in subscriptions \cap invalidated :
       serve \in {"unsubscribe", "join"} /\ n = target
  /\ serve \in {"unsubscribe", "join"} => target \in invalidated
LeftAfterEnd ==
  \A n \in Subs : n < made /\ n \notin subscriptions => relay[n] = "ended" /\ feed[n] = "left"
NothingLeft == serve \in {"free", "done"} => subscriptions = {}

TakenIsUpdate == \A n \in Subs : relay[n] = "taken" => update[n] \in Updates

AdapterInv ==
  /\ RoomToOpen /\ IdIsFree /\ OneRecordPerId
  /\ \A n \in Subs : IF n < made THEN Generations(n) ELSE Unmade(n)
  /\ OnlyTargetInvalidated /\ LeftAfterEnd /\ NothingLeft /\ TakenIsUpdate
-----------------------------------------------------------------------------
(* enqueue_update_locked keeps a queue within its capacity. *)
LEMMA PushLatestType ==
  ASSUME NEW s \in Queues, NEW u \in Updates
  PROVE  PushLatest(s, u) \in Queues
BY BoundsAssumption DEF BoundsAssumption, Queues, PushLatest

(* convex_subscription_next leaves a queue behind. *)
LEMMA TakenType ==
  ASSUME NEW s \in Queues, s # <<>>
  PROVE  Head(s) \in Updates /\ Tail(s) \in Queues
BY BoundsAssumption DEF BoundsAssumption, Queues

(* convex_free leaves no updates. *)
LEMMA EmptyQueueType == <<>> \in Queues
BY BoundsAssumption DEF BoundsAssumption, Queues

(* One more event is written. *)
LEMMA EmittedType ==
  ASSUME NEW s \in Seq(Updates), NEW u \in Updates
  PROVE  Append(s, u) \in Seq(Updates)
OBVIOUS

(* The adapter starts with nothing. *)
LEMMA AdapterInit == Init => TypeOK /\ AdapterInv
<1> SUFFICES ASSUME Init PROVE TypeOK /\ AdapterInv
  OBVIOUS
<1> USE BoundsAssumption DEF BoundsAssumption, Init
<1>1. (CHOOSE i \in Ids : TRUE) \in Ids
  OBVIOUS
<1>2. <<>> \in Queues /\ <<>> \in Seq(Updates)
  BY DEF Queues
<1>3. TypeOK
  BY <1>1, <1>2 DEF TypeOK, RecordType, RelayType, ServeType, ClientType, Subs, None, Ops,
    Queues
<1>4. AdapterInv
  BY DEF AdapterInv, RoomToOpen, Stopping, IdIsFree, OneRecordPerId, Unmade, Subs,
    OnlyTargetInvalidated, LeftAfterEnd, NothingLeft, TakenIsUpdate
<1> QED BY <1>3, <1>4

(* What NextToStop may do: stop a record that is there, or free the client  *)
(* when there is none.                                                     *)
LEMMA NextToStopIs ==
  ASSUME NEW R, NextToStop(R)
  PROVE  \/ R = {} /\ serve' = "free" /\ target' = None
         \/ serve' = "stop" /\ target' \in R
BY DEF NextToStop

(* What a relay or the client's worker does leaves what serve works on as   *)
(* it is, so only their own part of the types and invariant is at stake.   *)
LEMMA Besides ==
  ASSUME TypeOK, AdapterInv,
         UNCHANGED <<made, subscriptions, record, control, invalidated>>,
         RelayType', ClientType', TakenIsUpdate',
         \A n \in Subs : /\ Unmade(n) => UNCHANGED <<relay[n], feed[n], queue[n]>>
                         /\ relay[n] = "ended" => relay'[n] = "ended"
                         /\ feed[n] = "left" => feed'[n] = "left"
  PROVE  TypeOK' /\ AdapterInv'
<1> USE DEF record, control, AdapterInv
<1>1. TypeOK'
  BY DEF TypeOK, RecordType, ServeType
<1>2. RoomToOpen' /\ IdIsFree' /\ OneRecordPerId' /\ OnlyTargetInvalidated' /\ NothingLeft'
  BY DEF RoomToOpen, IdIsFree, Stopping, OneRecordPerId, OnlyTargetInvalidated, NothingLeft
<1>3. (\A n \in Subs : IF n < made THEN Generations(n) ELSE Unmade(n))'
  BY DEF Generations, Unmade
<1>4. LeftAfterEnd'
  BY DEF LeftAfterEnd
<1> QED BY <1>1, <1>2, <1>3, <1>4

(* A step of serve other than the one that opens a subscription leaves the  *)
(* relays alone.                                                           *)
LEMMA RelayTypeKept ==
  ASSUME TypeOK, AdapterInv, UNCHANGED <<relays, emitted>>
  PROVE  RelayType' /\ TakenIsUpdate'
BY DEF TypeOK, RelayType, AdapterInv, TakenIsUpdate, relays

(* Reading a command. *)
LEMMA ReadCommandStep ==
  ASSUME TypeOK, AdapterInv, NEW o \in Ops, NEW i \in Ids, ReadCommand(o, i)
  PROVE  TypeOK' /\ AdapterInv'
<1> USE BoundsAssumption DEF BoundsAssumption, ReadCommand, client, AdapterInv
<1>1. RelayType' /\ TakenIsUpdate'
  BY RelayTypeKept
<1>2. RecordType' /\ ClientType'
  BY DEF TypeOK, RecordType, ClientType, Subs
<1>3. /\ op' = o
      /\ \/ serve' \in {"free", "ack"} /\ target' = None
            /\ (serve' = "free" => subscriptions = {})
         \/ /\ serve' = "open" /\ target' = None /\ o = "subscribe"
            /\ made < MaxSubs /\ Found(i) = {}
         \/ serve' = "stop" /\ target' \in subscriptions /\ o # "subscribe"
         \/ /\ serve' = "stop" /\ target' \in Found(i) /\ o = "subscribe"
            /\ made < MaxSubs
  <2>1. CASE o \in {"close", "end"} /\ NextToStop(subscriptions)
    BY <2>1, NextToStopIs
  <2>2. CASE ~(o \in {"close", "end"} /\ NextToStop(subscriptions))
    BY <2>2 DEF Found
  <2> QED BY <2>1, <2>2
<1>4. Found(i) \subseteq subscriptions /\ subscriptions \subseteq Subs
  BY DEF Found, TypeOK, RecordType, Subs
<1>5. ServeType'
  BY <1>3, <1>4 DEF ServeType, None
<1>6. \A n \in subscriptions : n # made /\ id'[n] = id[n]
  BY DEF TypeOK, RecordType, Subs
<1>7. o = "subscribe" /\ made < MaxSubs => id'[made] = i
  BY DEF TypeOK, RecordType, Subs
<1>8. RoomToOpen' /\ OneRecordPerId' /\ NothingLeft'
  BY <1>3, <1>6 DEF RoomToOpen, Stopping, OneRecordPerId, NothingLeft
<1>9. IdIsFree'
  <2>1. CASE serve' = "open"
    BY <2>1, <1>3, <1>6, <1>7 DEF IdIsFree, Stopping, Found
  <2>2. CASE serve' = "stop" /\ o = "subscribe"
    BY <2>2, <1>3, <1>6, <1>7 DEF IdIsFree, Stopping, Found, OneRecordPerId
  <2> QED BY <2>1, <2>2, <1>3 DEF IdIsFree, Stopping
<1>10. OnlyTargetInvalidated'
  BY <1>3 DEF OnlyTargetInvalidated
<1>11. (\A n \in Subs : IF n < made THEN Generations(n) ELSE Unmade(n))' /\ LeftAfterEnd'
  BY DEF Generations, Unmade, LeftAfterEnd, relays
<1> QED BY <1>1, <1>2, <1>5, <1>8, <1>9, <1>10, <1>11 DEF TypeOK

(* stop_record's first part. *)
LEMMA InvalidateStep ==
  ASSUME TypeOK, AdapterInv, Invalidate
  PROVE  TypeOK' /\ AdapterInv'
<1> USE BoundsAssumption DEF BoundsAssumption, Invalidate, client, AdapterInv
<1>1. RelayType' /\ TakenIsUpdate'
  BY RelayTypeKept
<1>2. target \in Subs /\ target < made /\ target \in subscriptions /\ target \notin invalidated
  BY DEF TypeOK, RecordType, ServeType, Subs, OnlyTargetInvalidated
<1>3. generation[target] = 1
  BY <1>2 DEF Generations
<1>4. TypeOK'
  BY <1>1, <1>2, <1>3 DEF TypeOK, RecordType, ServeType, ClientType
<1>5. RoomToOpen' /\ IdIsFree' /\ OneRecordPerId' /\ NothingLeft'
  BY DEF RoomToOpen, IdIsFree, Stopping, OneRecordPerId, NothingLeft
<1>6. OnlyTargetInvalidated'
  BY DEF OnlyTargetInvalidated
<1>7. (\A n \in Subs : IF n < made THEN Generations(n) ELSE Unmade(n))' /\ LeftAfterEnd'
  BY <1>2, <1>3 DEF Generations, Unmade, LeftAfterEnd, relays, TypeOK, RecordType
<1> QED BY <1>1, <1>4, <1>5, <1>6, <1>7

(* convex_unsubscribe. *)
LEMMA UnsubscribeStep ==
  ASSUME TypeOK, AdapterInv, Unsubscribe
  PROVE  TypeOK' /\ AdapterInv'
<1> USE DEF Unsubscribe, record, AdapterInv
<1>1. RelayType' /\ TakenIsUpdate'
  BY RelayTypeKept
<1>2. TypeOK'
  BY <1>1 DEF TypeOK, RecordType, ServeType, ClientType
<1>3. RoomToOpen' /\ IdIsFree' /\ OneRecordPerId' /\ NothingLeft' /\ OnlyTargetInvalidated'
  BY DEF RoomToOpen, IdIsFree, Stopping, OneRecordPerId, NothingLeft, OnlyTargetInvalidated
<1>4. (\A n \in Subs : IF n < made THEN Generations(n) ELSE Unmade(n))' /\ LeftAfterEnd'
  BY DEF Generations, Unmade, LeftAfterEnd, relays, TypeOK, ClientType
<1> QED BY <1>1, <1>2, <1>3, <1>4

(* The end of stop_record: its relay has ended. *)
LEMMA FreeRecordStep ==
  ASSUME TypeOK, AdapterInv, FreeRecord
  PROVE  TypeOK' /\ AdapterInv'
<1> USE BoundsAssumption DEF BoundsAssumption, FreeRecord, record, client, AdapterInv
<1>1. RelayType' /\ TakenIsUpdate'
  BY RelayTypeKept
<1>2. /\ subscriptions' \subseteq subscriptions
      /\ \A n \in subscriptions : n \in subscriptions' <=> n # target
  OBVIOUS
<1>3. \/ serve' \in {"free", "ack"} /\ target' = None
         /\ (serve' = "free" => subscriptions' = {})
      \/ serve' = "open" /\ target' = None /\ op = "subscribe"
      \/ serve' = "stop" /\ target' \in subscriptions' /\ op # "subscribe"
  <2>1. CASE op \in {"close", "end"} /\ NextToStop(subscriptions \ {target})
    BY <2>1, NextToStopIs
  <2>2. CASE ~(op \in {"close", "end"} /\ NextToStop(subscriptions \ {target}))
    BY <2>2
  <2> QED BY <2>1, <2>2
<1>4. RecordType' /\ ClientType'
  BY <1>2 DEF TypeOK, RecordType, ClientType
<1>5. subscriptions' \subseteq Subs
  <2>1. subscriptions \subseteq Subs
    BY DEF TypeOK, RecordType, Subs
  <2> QED BY <1>2, <2>1
<1>6. ServeType'
  BY <1>3, <1>5 DEF TypeOK, ServeType, None
<1>7. RoomToOpen' /\ OneRecordPerId' /\ NothingLeft'
  BY <1>2, <1>3 DEF RoomToOpen, Stopping, OneRecordPerId, NothingLeft
<1>8. IdIsFree'
  BY <1>2, <1>3 DEF IdIsFree, Stopping
<1>9. OnlyTargetInvalidated'
  BY <1>2, <1>3 DEF OnlyTargetInvalidated
<1>10. (\A n \in Subs : IF n < made THEN Generations(n) ELSE Unmade(n))' /\ LeftAfterEnd'
  BY <1>2 DEF Generations, Unmade, LeftAfterEnd, relays, Joined
<1> QED BY <1>1, <1>4, <1>6, <1>7, <1>8, <1>9, <1>10 DEF TypeOK

(* A new record and its relay. *)
LEMMA OpenStep ==
  ASSUME TypeOK, AdapterInv, Open
  PROVE  TypeOK' /\ AdapterInv'
<1> USE BoundsAssumption DEF BoundsAssumption, Open, AdapterInv
<1>1. made \in Subs /\ made \notin subscriptions /\ Unmade(made)
  BY DEF TypeOK, RecordType, Subs, RoomToOpen
<1>2. RecordType'
  BY <1>1 DEF TypeOK, RecordType, Subs
<1>3. RelayType' /\ ServeType' /\ ClientType' /\ TakenIsUpdate'
  BY <1>1 DEF TypeOK, RecordType, RelayType, ServeType, ClientType, TakenIsUpdate
<1>4. OneRecordPerId'
  BY DEF IdIsFree, OneRecordPerId
<1>5. RoomToOpen' /\ IdIsFree' /\ NothingLeft'
  BY DEF RoomToOpen, IdIsFree, Stopping, NothingLeft
<1>6. OnlyTargetInvalidated'
  BY <1>1 DEF OnlyTargetInvalidated, Unmade
<1>7. (\A n \in Subs : IF n < made THEN Generations(n) ELSE Unmade(n))'
  BY <1>1 DEF Generations, Unmade, TypeOK, RecordType, RelayType, ClientType, Subs
<1>8. LeftAfterEnd'
  BY <1>1 DEF LeftAfterEnd, TypeOK, RecordType, RelayType, Subs
<1> QED BY <1>2, <1>3, <1>4, <1>5, <1>6, <1>7, <1>8 DEF TypeOK

(* Writing a result or an error. *)
LEMMA AnswerStep ==
  ASSUME TypeOK, AdapterInv, Refuse \/ Acknowledge
  PROVE  TypeOK' /\ AdapterInv'
<1> USE DEF Refuse, Acknowledge, record, client, AdapterInv
<1>1. RelayType' /\ TakenIsUpdate'
  BY RelayTypeKept
<1>2. TypeOK'
  BY <1>1 DEF TypeOK, RecordType, ServeType, ClientType
<1>3. RoomToOpen' /\ IdIsFree' /\ OneRecordPerId' /\ NothingLeft' /\ OnlyTargetInvalidated'
  BY DEF RoomToOpen, IdIsFree, Stopping, OneRecordPerId, NothingLeft, OnlyTargetInvalidated
<1>4. (\A n \in Subs : IF n < made THEN Generations(n) ELSE Unmade(n))' /\ LeftAfterEnd'
  BY DEF Generations, Unmade, LeftAfterEnd, relays
<1> QED BY <1>1, <1>2, <1>3, <1>4

(* convex_close and convex_free. *)
LEMMA FreeClientStep ==
  ASSUME TypeOK, AdapterInv, FreeClient
  PROVE  TypeOK' /\ AdapterInv'
<1> USE DEF FreeClient, record, AdapterInv
<1>1. RelayType' /\ TakenIsUpdate'
  BY RelayTypeKept
<1>2. ClientType'
  BY EmptyQueueType DEF TypeOK, ClientType
<1>3. RecordType' /\ ServeType'
  BY DEF TypeOK, RecordType, ServeType
<1>4. RoomToOpen' /\ IdIsFree' /\ OneRecordPerId' /\ NothingLeft' /\ OnlyTargetInvalidated'
  BY DEF RoomToOpen, IdIsFree, Stopping, OneRecordPerId, NothingLeft, OnlyTargetInvalidated
<1>5. (\A n \in Subs : IF n < made THEN Generations(n) ELSE Unmade(n))' /\ LeftAfterEnd'
  BY DEF Generations, Unmade, LeftAfterEnd, relays
<1> QED BY <1>1, <1>2, <1>3, <1>4, <1>5 DEF TypeOK

(* forward_updates. *)
LEMMA RelayStep ==
  ASSUME TypeOK, AdapterInv, NEW n \in Subs, Relay(n)
  PROVE  TypeOK' /\ AdapterInv'
<1> USE BoundsAssumption DEF BoundsAssumption, AdapterInv
<1>1. UNCHANGED <<made, subscriptions, record, control, invalidated>>
  BY DEF Relay, RelayStart, RelayTake, RelayEnd, RelayForward
<1>2. \A m \in Subs : /\ Unmade(m) => UNCHANGED <<relay[m], feed[m], queue[m]>>
                      /\ relay[m] = "ended" => relay'[m] = "ended"
                      /\ feed[m] = "left" => feed'[m] = "left"
  BY DEF Relay, RelayStart, RelayTake, RelayEnd, RelayForward, Unmade, client, TypeOK,
    RelayType, ClientType
<1>3. RelayType' /\ ClientType' /\ TakenIsUpdate'
  <2>1. CASE RelayStart(n) \/ RelayEnd(n)
    BY <2>1 DEF RelayStart, RelayEnd, TypeOK, RecordType, RelayType, ClientType,
      TakenIsUpdate, client
  <2>2. CASE RelayTake(n)
    <3>1. Head(queue[n]) \in Updates /\ Tail(queue[n]) \in Queues
      BY <2>2, TakenType DEF RelayTake, TypeOK, ClientType
    <3> QED
      BY <2>2, <3>1 DEF RelayTake, TypeOK, RelayType, ClientType, TakenIsUpdate
  <2>3. CASE RelayForward(n)
    <3>1. Append(emitted[n], update[n]) \in Seq(Updates)
      BY <2>3, EmittedType DEF RelayForward, TypeOK, RelayType, TakenIsUpdate
    <3> QED
      BY <2>3, <3>1 DEF RelayForward, TypeOK, RelayType, ClientType, TakenIsUpdate,
        client
  <2> QED BY <2>1, <2>2, <2>3 DEF Relay
<1> QED BY <1>1, <1>2, <1>3, Besides

(* The client's worker. *)
LEMMA WorkerStep ==
  ASSUME TypeOK, AdapterInv, NEW n \in Subs, Publish(n) \/ Removed(n)
  PROVE  TypeOK' /\ AdapterInv'
<1> USE BoundsAssumption DEF BoundsAssumption, AdapterInv
<1>1. UNCHANGED <<made, subscriptions, record, control, invalidated>>
  BY DEF Publish, Removed
<1>2. \A m \in Subs : /\ Unmade(m) => UNCHANGED <<relay[m], feed[m], queue[m]>>
                      /\ relay[m] = "ended" => relay'[m] = "ended"
                      /\ feed[m] = "left" => feed'[m] = "left"
  BY DEF Publish, Removed, Fed, Unmade, relays, TypeOK, ClientType
<1>3. RelayType' /\ TakenIsUpdate'
  BY DEF Publish, Removed, relays, TypeOK, RelayType, TakenIsUpdate
<1>4. ClientType'
  <2>1. CASE Removed(n)
    BY <2>1 DEF Removed, TypeOK, ClientType
  <2>2. CASE Publish(n)
    <3>1. publications[n] + 1 \in Updates /\ publications[n] + 1 \in 0 .. MaxUpdates
      BY <2>2 DEF Publish, TypeOK, ClientType, Updates
    <3>2. PushLatest(queue[n], publications[n] + 1) \in Queues
      BY <3>1, PushLatestType DEF TypeOK, ClientType
    <3> QED
      BY <2>2, <3>1, <3>2 DEF Publish, TypeOK, ClientType
  <2> QED BY <2>1, <2>2
<1> QED BY <1>1, <1>2, <1>3, <1>4, Besides

(* Every step keeps the types and the invariant. *)
LEMMA AdapterStep == TypeOK /\ AdapterInv /\ [Next]_vars => TypeOK' /\ AdapterInv'
<1> SUFFICES ASSUME TypeOK, AdapterInv, [Next]_vars PROVE TypeOK' /\ AdapterInv'
  OBVIOUS
<1>1. CASE Next
  BY <1>1, ReadCommandStep, InvalidateStep, UnsubscribeStep, FreeRecordStep, OpenStep,
    AnswerStep, FreeClientStep, RelayStep, WorkerStep DEF Next, Serve
<1>2. CASE UNCHANGED vars
  BY <1>2, Besides DEF vars, relays, client, TypeOK, RelayType, ClientType, AdapterInv,
    TakenIsUpdate
<1> QED BY <1>1, <1>2
-----------------------------------------------------------------------------
(* The invariant behind the theorems. *)
LEMMA AdapterAlways == Spec => [](TypeOK /\ AdapterInv)
<1>1. Init => TypeOK /\ AdapterInv
  BY AdapterInit
<1>2. TypeOK /\ AdapterInv /\ [Next]_vars => TypeOK' /\ AdapterInv'
  BY AdapterStep
<1> QED BY <1>1, <1>2, PTL DEF Spec

(* The variables of the adapter keep their types: serve only ever stops a   *)
(* record that is in the list, a generation never passes 2, and a queue    *)
(* never holds more than its capacity.                                     *)
THEOREM AdapterTypes == Spec => []TypeOK
BY AdapterAlways, PTL

(* A subscriptionId names one record (upsert_subscription, find_record). *)
THEOREM OneRecord == Spec => []OneRecordPerId
<1>1. TypeOK /\ AdapterInv => OneRecordPerId
  BY DEF AdapterInv
<1> QED BY <1>1, AdapterAlways, PTL

(* A relay thread never outlives its record, the client or the output it    *)
(* writes to (stop_record joins it first).                                 *)
THEOREM RelaysEndFirst == Spec => []RecordOutlivesRelay
<1>1. TypeOK /\ AdapterInv => RecordOutlivesRelay
  <2> SUFFICES ASSUME TypeOK, AdapterInv, NEW n \in Subs, Running(n)
               PROVE  n \in subscriptions /\ serve \notin {"free", "done"}
    BY DEF RecordOutlivesRelay
  <2>1. n < made
    BY DEF Running, AdapterInv, Unmade
  <2>2. n \in subscriptions
    BY <2>1 DEF Running, AdapterInv, LeftAfterEnd
  <2> QED BY <2>2 DEF AdapterInv, NothingLeft
<1> QED BY <1>1, AdapterAlways, PTL

(* No event of a subscription is written once stop_record has invalidated   *)
(* its record, whatever its relay holds or is about to take.               *)
THEOREM Silence == Spec => SilentOnceInvalidated
<1> DEFINE Silent == \A n \in invalidated : emitted'[n] = emitted[n]
<1>1. TypeOK /\ AdapterInv /\ [Next]_vars => [Silent]_vars
  <2> SUFFICES ASSUME TypeOK, AdapterInv, Next, NEW n \in invalidated
               PROVE  emitted'[n] = emitted[n]
    BY DEF vars
  <2>1. n \in Subs /\ ~active[n]
    BY DEF TypeOK, RecordType, AdapterInv, Generations, Unmade
  <2>2. ASSUME NEW m \in Subs, RelayForward(m) PROVE emitted'[n] = emitted[n]
    BY <2>1, <2>2 DEF RelayForward, MayPublish, TypeOK, RelayType
  <2>3. CASE Serve \/ \E o \in Ops, i \in Ids : ReadCommand(o, i)
    BY <2>3 DEF Serve, Invalidate, Unsubscribe, FreeRecord, Open, Refuse, Acknowledge,
      FreeClient, ReadCommand
  <2>4. ASSUME NEW m \in Subs,
               RelayStart(m) \/ RelayTake(m) \/ RelayEnd(m) \/ Publish(m) \/ Removed(m)
        PROVE  emitted'[n] = emitted[n]
    BY <2>4 DEF RelayStart, RelayTake, RelayEnd, Publish, Removed
  <2> QED BY <2>2, <2>3, <2>4 DEF Next, Relay
<1> QED BY <1>1, AdapterAlways, PTL DEF Spec, SilentOnceInvalidated

(* What the adapter and its client do to a subscription is what LiveFeed    *)
(* lets a client and its caller do: convex_free in particular finds every  *)
(* query removed.                                                          *)
THEOREM AdapterKeepsFeed == Spec => ClientAsPromised
<1> DEFINE Promised(n) == Feed(n)!Next \/ UNCHANGED <<feed[n], queue[n]>>
<1>1. TypeOK /\ AdapterInv /\ [Next]_vars => [\A n \in Subs : Promised(n)]_vars
  <2> SUFFICES ASSUME TypeOK, AdapterInv, Next, NEW n \in Subs PROVE Promised(n)
    BY DEF vars
  <2> USE DEF Feed!Next
  <2>1. ASSUME UNCHANGED <<feed, queue>> PROVE Promised(n)
    BY <2>1
  <2>2. CASE Unsubscribe
    <3>1. feed'[n] = IF n = target THEN "leaving" ELSE feed[n]
      BY <2>2 DEF Unsubscribe, TypeOK, ClientType
    <3> QED BY <2>2, <3>1 DEF Unsubscribe, Feed!Unsubscribe
  <2>3. CASE Open
    <3>1. made \in Subs /\ feed[made] = "absent"
      BY <2>3, BoundsAssumption DEF Open, BoundsAssumption, TypeOK, RecordType, Subs,
        AdapterInv, RoomToOpen, Unmade
    <3>2. feed'[n] = IF n = made THEN "open" ELSE feed[n]
      BY <2>3, <3>1 DEF Open, TypeOK, ClientType
    <3> QED BY <2>3, <3>1, <3>2 DEF Open, Feed!Subscribe
  <2>4. CASE FreeClient
    <3>1. feed[n] = "left" \/ (feed[n] = "absent" /\ queue[n] = <<>>)
      BY <2>4 DEF FreeClient, AdapterInv, NothingLeft, LeftAfterEnd, Unmade
    <3>2. feed'[n] = feed[n] /\ queue'[n] = <<>>
      BY <2>4, <3>1 DEF FreeClient
    <3> QED BY <3>1, <3>2 DEF Feed!Release
  <2>5. ASSUME NEW m \in Subs, RelayTake(m) PROVE Promised(n)
    <3>1. queue'[n] = IF n = m THEN Tail(queue[n]) ELSE queue[n]
      BY <2>5 DEF RelayTake, TypeOK, ClientType
    <3> QED BY <2>5, <3>1 DEF RelayTake, Feed!Take
  <2>6. ASSUME NEW m \in Subs, Publish(m) PROVE Promised(n)
    <3>1. publications[n] + 1 \in Updates \/ n # m
      BY <2>6, BoundsAssumption DEF Publish, BoundsAssumption, TypeOK, ClientType, Updates
    <3>2. queue'[n] = IF n = m THEN PushLatest(queue[n], publications[n] + 1) ELSE queue[n]
      BY <2>6 DEF Publish, TypeOK, ClientType
    <3> QED BY <2>6, <3>1, <3>2 DEF Publish, Fed, Feed!Publish, Feed!PushLatest, PushLatest
  <2>7. ASSUME NEW m \in Subs, Removed(m) PROVE Promised(n)
    <3>1. feed'[n] = IF n = m THEN "left" ELSE feed[n]
      BY <2>7 DEF Removed, TypeOK, ClientType
    <3> QED BY <2>7, <3>1 DEF Removed, Feed!Removed
  <2>8. Next => \/ UNCHANGED <<feed, queue>>
                \/ Unsubscribe \/ Open \/ FreeClient
                \/ \E m \in Subs : RelayTake(m) \/ Publish(m) \/ Removed(m)
    BY DEF Next, Serve, Relay, ReadCommand, Invalidate, FreeRecord, Refuse, Acknowledge,
      RelayStart, RelayEnd, RelayForward, client
  <2> QED BY <2>1, <2>2, <2>3, <2>4, <2>5, <2>6, <2>7, <2>8
<1> QED BY <1>1, AdapterAlways, PTL DEF Spec, ClientAsPromised
=============================================================================
