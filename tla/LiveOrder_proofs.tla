---------------------------- MODULE LiveOrder_proofs ----------------------------
(***************************************************************************)
(* Theorems about what reaches the queues of LiveClient: the queries that  *)
(* were answered on a connection show one commit, and a queue shows the    *)
(* results of its query in order, each value once.  The inductive          *)
(* invariant follows a result from the commit through the backend's        *)
(* Transitions to the queue, and over reconnects through last_value.       *)
(***************************************************************************)
EXTENDS LiveClient_proofs

-----------------------------------------------------------------------------
(* The clock of the database is behind nothing anyone has seen.             *)
ClockInv ==
  /\ server_version.ts <= now /\ remote.ts <= now
  /\ \A q \in Subs : /\ result[q] <= now
                     /\ published[q] # NoValue => published[q] <= result[q]

(* last_value is the last result queued, unless that was a failure.         *)
CacheInv ==
  \A q \in Subs : /\ last_value[q] # NoValue => last_value[q] = published[q]
                  /\ published[q] \in Times /\ last_value[q] = NoValue =>
                       published[q] \in FailedAt

(* What nobody has subscribed to appears nowhere.                           *)
NewId(q) == /\ published[q] = NoValue /\ ~add_pending[q]
            /\ ~Held(q) /\ q \notin snapshot
            /\ \A k \in 1 .. Len(s2c) : s2c[k].mods[q] = NoValue
NewIds == \A q \in Subs : q >= next_query_id => NewId(q)

(* An Add is sent once on a connection: what waits for its Add is neither   *)
(* held by the backend nor on the wire, and the Adds on the wire are of    *)
(* different queries, none of which the backend holds.                     *)
AddsNew == \A k \in 1 .. Len(c2s) : \A q \in c2s[k].adds : q \notin server_queries
AddsDisjoint == \A j, k \in 1 .. Len(c2s) : j < k => c2s[j].adds \cap c2s[k].adds = {}
AddedOnce ==
  /\ AddsNew /\ AddsDisjoint
  /\ ~socket \/ pc = "modify" => server_queries = {}
  /\ link # "up" => c2s = <<>>
  /\ pc # "modify" => \A q \in Subs : add_pending[q] => ~Held(q)
  /\ pc = "add" => add_pending[current]
  /\ pc = "modify" => \A q \in snapshot : q < snapshot_sequence

(* Transitions do not overlap in time.                                      *)
Answering(k) == s2c[k].type = "Transition"
Intervals ==
  /\ link = "up" => remote.ts <= server_version.ts
  /\ \A k \in 1 .. Len(s2c) : Answering(k) =>
       /\ remote.ts <= s2c[k].start.ts /\ s2c[k].start.ts <= s2c[k].end.ts
       /\ s2c[k].end.ts <= server_version.ts
  /\ \A j, k \in 1 .. Len(s2c) :
       j < k /\ Answering(j) /\ Answering(k) => s2c[j].end.ts <= s2c[k].start.ts

(* A Transition reports results as of its end, never older than what the    *)
(* subscription has been given.                                            *)
Reports(k, q) == s2c[k].mods[q] # NoValue
Truthful ==
  \A k \in 1 .. Len(s2c) : \A q \in Subs : Reports(k, q) =>
    /\ Answering(k)
    /\ s2c[k].mods[q] <= s2c[k].end.ts
    /\ s2c[k].mods[q] <= result[q]
    /\ result[q] <= s2c[k].end.ts => s2c[k].mods[q] = result[q]
    /\ published[q] # NoValue => published[q] <= s2c[k].mods[q]

(* Once a live query was answered on this connection, the backend holds it, *)
(* and each Transition reports every change that falls into it, and only   *)
(* those.                                                                  *)
Answered(q) == ~rehydrating[q] /\ published[q] # NoValue
Told(q, k) == Answered(q) \/ \E i \in 1 .. k - 1 : Reports(i, q)
Covers(k, q) ==
  IF Reports(k, q) THEN s2c[k].mods[q] > s2c[k].start.ts
  ELSE result[q] <= s2c[k].start.ts \/ result[q] > s2c[k].end.ts
Complete ==
  \A q \in Subs : Live(q) =>
    /\ Told(q, Len(s2c) + 1) => q \in server_queries
    /\ \A k \in 1 .. Len(s2c) : Told(q, k) /\ Answering(k) => Covers(k, q)

(* A live query that was answered shows the commit the client has reached.  *)
UpToDate ==
  \A q \in Subs : Live(q) /\ Answered(q) =>
    /\ published[q] <= remote.ts
    /\ result[q] <= remote.ts => published[q] = result[q]

(* No queue holds a result that is newer than the last one published.       *)
QueuedBefore ==
  \A q \in Subs : \A i \in 1 .. Len(queue[q]) :
    queue[q][i].kind \in ResultKinds =>
      published[q] # NoValue /\ queue[q][i].at <= published[q]

CourseInv == /\ ClockInv /\ CacheInv /\ Intervals
             /\ Truthful /\ Complete /\ UpToDate
OrderInv == CourseInv /\ NewIds /\ AddedOnce /\ QueuedBefore /\ DeliveredInOrder

-----------------------------------------------------------------------------
(* Commits are numbers, and "no value" is one beyond them.                  *)
LEMMA Numbers ==
  ASSUME TypeOK
  PROVE  /\ MaxNow \in Nat /\ NoValue \in Nat /\ Times \subseteq Nat /\ Outcomes \subseteq Nat
         /\ NoValue \notin Times /\ now \in Nat
         /\ remote.ts \in Nat /\ server_version.ts \in Nat /\ server_version.querySet \in Nat
         /\ \A q \in Subs : /\ result[q] \in Times /\ published[q] \in Outcomes
                            /\ last_value[q] \in Outcomes
<1>1. MaxNow \in Nat
  BY BoundsAssumption DEF BoundsAssumption
<1>2. /\ remote \in Version /\ server_version \in Version /\ now \in Times
      /\ result \in [Subs -> Times] /\ published \in [Subs -> Outcomes]
      /\ last_value \in [Subs -> Outcomes]
  BY DEF TypeOK, ManagerType, ServerType, FeedType
<1> QED BY <1>1, <1>2 DEF Times, Outcomes, NoValue, Version

(* So are the times a message speaks of.                                    *)
LEMMA MessageTypes ==
  ASSUME TypeOK, NEW k \in 1 .. Len(s2c)
  PROVE  /\ s2c[k] \in Message /\ s2c[k].start.ts \in Nat /\ s2c[k].end.ts \in Nat
         /\ \A q \in Subs : s2c[k].mods[q] \in Outcomes /\ s2c[k].mods[q] \in Nat
<1>1. s2c[k] \in Message
  BY DEF TypeOK, WireType
<1>2. Times \subseteq Nat /\ Outcomes \subseteq Nat
  BY Numbers
<1> QED BY <1>1, <1>2 DEF Message, Version

Everything == Context /\ AddsInv /\ OrderInv

(* Before anything has been committed, sent or subscribed to.               *)
LEMMA OrderInit == Init => OrderInv
<1> SUFFICES ASSUME Init PROVE OrderInv
  OBVIOUS
<1>1. s2c = <<>> /\ c2s = <<>> /\ Len(s2c) = 0 /\ Len(c2s) = 0
  BY DEF Init
<1>2. \A q \in Subs : published[q] = NoValue /\ last_value[q] = NoValue /\ ~add_pending[q]
  BY DEF Init
<1>3. NoValue \notin Times
  BY BoundsAssumption DEF BoundsAssumption, NoValue, Times
<1>4. ClockInv
  BY <1>2 DEF Init, ClockInv, InitialVersion
<1>5. CacheInv
  BY <1>2, <1>3 DEF CacheInv
<1>6. NewIds
  BY <1>1, <1>2 DEF Init, NewIds, NewId, Held
<1>7. AddedOnce
  BY <1>1, <1>2 DEF Init, AddedOnce, AddsNew, AddsDisjoint, Held
<1>8. Intervals /\ Truthful
  BY <1>1 DEF Init, InitialVersion, Intervals, Truthful
<1>9. Complete /\ UpToDate
  BY <1>1, <1>2 DEF Complete, UpToDate, Told, Answered
<1>10. QueuedBefore /\ DeliveredInOrder
  BY DEF Init, QueuedBefore, DeliveredInOrder
<1> QED BY <1>4, <1>5, <1>6, <1>7, <1>8, <1>9, <1>10 DEF OrderInv, CourseInv

-----------------------------------------------------------------------------
(* What a step does to the course of the results.                           *)
course == <<now, result, remote, published, last_value, rehydrating, link, s2c,
            server_version, server_queries>>
LiveBefore == \A q \in Subs : Live(q)' => Live(q)

Quiet == UNCHANGED course /\ LiveBefore

\* The wire is empty and no live query has been answered on what comes next.
Cleared ==
  /\ s2c' = <<>> /\ server_version' = InitialVersion /\ server_queries' = {}
  /\ remote' \in {remote, InitialVersion}
  /\ link' = "up" => remote' = InitialVersion
  /\ UNCHANGED <<now, result, published, last_value>>
  /\ LiveBefore
  /\ \A q \in Subs : Live(q)' => ~Answered(q)'

(* Most steps leave the results where they are, or drop the link; the others *)
(* are looked at one by one.                                                *)
LEMMA StepKinds ==
  ASSUME Everything, [Next]_vars
  PROVE  \/ Quiet \/ Cleared \/ Subscribe \/ ReceiveTransition
         \/ ServerModify \/ ServerPush \/ Break \/ \E q \in Subs : Write(q)
<1> USE DEF removal, hydration, feed, data, server, wire, versions, subscriptions,
     manager, backend
<1>1. ASSUME UNCHANGED <<course, active, remove_pending>> PROVE Quiet
  BY <1>1 DEF Quiet, LiveBefore, Live
<1>2. CASE EnsureLive \/ Close \/ CloseWait \/ CloseTimeout \/ UNCHANGED vars
  BY <1>1, <1>2 DEF course, EnsureLive, Close, CloseWait, CloseTimeout, vars
<1>3. CASE \/ \E q \in Subs : UnsubscribeWait(q) \/ SubscriptionNext(q)
           \/ \E d \in Debuggers : DebugDisconnect(d) \/ DebugWait(d)
  BY <1>1, <1>3 DEF course, UnsubscribeWait, SubscriptionNext, DebugDisconnect, DebugWait
<1>4. CASE \/ BeginExit \/ PickMessage \/ AddSent \/ DialFailed \/ SnapshotSent
           \/ ReceiveNothing \/ ReceiveFragment
  BY <1>1, <1>4 DEF course, BeginExit, PickMessage, AddSent, DialFailed, SnapshotSent,
    ReceiveNothing, ReceiveFragment
<1>5. ASSUME NEW p \in Subs, Unsubscribe(p) PROVE Quiet
  <2>1. remove_pending \in [Subs -> BOOLEAN]
    BY DEF Everything, Context, TypeOK, RemovalType
  <2>2. \A q \in Subs : remove_pending[q] => remove_pending'[q]
    BY <1>5, <2>1 DEF Unsubscribe
  <2> QED BY <1>5, <2>2 DEF Quiet, LiveBefore, course, Live, Unsubscribe
<1>6. CASE Idle
  BY <1>6 DEF Quiet, LiveBefore, course, Live, Idle, CompleteRemoves
<1>7. CASE RemoveSent
  <2>1. active \in [Subs -> BOOLEAN]
    BY DEF Everything, Context, TypeOK, RemovalType
  <2> QED BY <1>7, <2>1 DEF Quiet, LiveBefore, course, Live, RemoveSent
<1>8. CASE HandleDebug \/ AddFailed \/ RemoveFailed \/ ReceiveProtocolError
             \/ ReceiveTransportError
  <2>1. /\ DisconnectSocket /\ UNCHANGED <<now, result, published, last_value, remove_pending>>
        /\ \A q \in Subs : active'[q] => active[q]
    BY <1>8 DEF HandleDebug, AddFailed, RemoveFailed, ReceiveProtocolError,
      ReceiveTransportError, CompleteRemoves
  <2> QED BY <2>1 DEF Cleared, LiveBefore, Live, Answered, DisconnectSocket, DropLink
<1>9. ASSUME server_queries = {} PROVE \A q \in Subs : Live(q) => ~Answered(q)
  BY <1>9 DEF Everything, OrderInv, CourseInv, Complete, Told
<1>10. CASE SnapshotFailed \/ Connected
  <2>1. server_queries = {}
    BY <1>10 DEF Everything, OrderInv, AddedOnce, SnapshotFailed, Connected, Context,
      VersionInv, Attached
  <2>2. /\ s2c' = <<>> /\ server_version' = InitialVersion /\ server_queries' = {}
        /\ link' = "up" => remote = InitialVersion
        /\ UNCHANGED <<remote, now, result, published, last_value, rehydrating, active,
                       remove_pending>>
    BY <1>10 DEF SnapshotFailed, Connected, DropLink, Everything, Context, VersionInv,
      Attached
  <2> QED BY <1>9, <2>1, <2>2 DEF Cleared, LiveBefore, Live, Answered
<1>11. CASE Exit
  BY <1>11 DEF Exit, DropLink, Cleared, LiveBefore, Live
<1> QED BY <1>2, <1>3, <1>4, <1>5, <1>6, <1>7, <1>8, <1>10, <1>11
  DEF Next, Worker, Application, Environment

-----------------------------------------------------------------------------
(* The course of the results over each kind of step.                        *)

(* A step elsewhere.                                                        *)
LEMMA QuietKeeps ==
  ASSUME CourseInv, Quiet PROVE CourseInv'
BY DEF Quiet, LiveBefore, course, CourseInv, ClockInv, CacheInv, Intervals, Truthful,
  Complete, UpToDate, Answering, Reports, Answered, Told, Covers

(* A dropped link: nothing is on the wire, and every live query is to be    *)
(* answered anew.                                                           *)
LEMMA ClearedKeeps ==
  ASSUME TypeOK, CourseInv, Cleared PROVE CourseInv'
<1>1. Len(s2c') = 0 /\ 1 .. Len(s2c') = {}
  BY DEF Cleared
<1>2. ClockInv'
  BY Numbers DEF Cleared, CourseInv, ClockInv, InitialVersion
<1>3. CacheInv' /\ UpToDate'
  BY DEF Cleared, CourseInv, CacheInv, UpToDate
<1>4. Intervals' /\ Truthful'
  BY <1>1 DEF Cleared, Intervals, Truthful, InitialVersion
<1>5. Complete'
  BY <1>1 DEF Cleared, Complete, Told
<1> QED BY <1>2, <1>3, <1>4, <1>5 DEF CourseInv

(* A new subscription has not been answered, and no answer is on its way.   *)
LEMMA SubscribeKeeps ==
  ASSUME TypeOK, CourseInv, NewIds, Subscribe PROVE CourseInv'
<1> DEFINE new == next_query_id
<1>0. new \in Subs /\ NewId(new)
  <2>1. new \in 0 .. MaxSubs /\ new < MaxSubs /\ MaxSubs \in Nat
    BY BoundsAssumption DEF BoundsAssumption, Subscribe, TypeOK, ThreadType, ManagerType
  <2> QED BY <2>1 DEF Subs, NewIds
<1>1. /\ NewId(new)
      /\ active' = [active EXCEPT ![new] = TRUE]
      /\ UNCHANGED <<remove_pending, course>>
  BY <1>0 DEF Subscribe, hydration, feed, manager, versions, wire, server, data,
    backend, course
<1>2. \A q \in Subs : Live(q)' => q = new \/ Live(q)
  BY <1>1 DEF Live, TypeOK, RemovalType
<1>3. ~Answered(new) /\ \A k \in 1 .. Len(s2c) : ~Reports(k, new)
  BY <1>0 DEF NewId, Answered, Reports
<1>4. /\ \A q \in Subs : Answered(q)' = Answered(q)
      /\ \A q \in Subs : \A k \in 1 .. Len(s2c) : /\ Reports(k, q)' = Reports(k, q)
                                                  /\ Covers(k, q)' = Covers(k, q)
  BY <1>1 DEF course, Answered, Reports, Covers
<1>5. UpToDate'
  BY <1>1, <1>2, <1>3, <1>4 DEF course, CourseInv, UpToDate
<1>6. ASSUME NEW k \in 1 .. Len(s2c) + 1, Told(new, k) PROVE FALSE
  BY <1>3, <1>6 DEF Told
<1>7. Complete'
  <2>1. Len(s2c) \in Nat
    BY DEF TypeOK, WireType
  <2>2. \A q \in Subs : \A k \in 1 .. Len(s2c) + 1 : Told(q, k)' = Told(q, k)
    BY <1>1 DEF course, Told, Answered, Reports
  <2> QED BY <1>1, <1>2, <1>4, <1>6, <2>1, <2>2 DEF course, CourseInv, Complete, Answering
<1> QED BY <1>1, <1>5, <1>7 DEF course, CourseInv, ClockInv, CacheInv, Intervals, Truthful,
  Answering, Reports

(* A commit is newer than everything the backend has sent.                  *)
LEMMA WriteKeeps ==
  ASSUME TypeOK, CourseInv, NEW p \in Subs, Write(p) PROVE CourseInv'
<1>1. /\ now' = now + 1
      /\ UNCHANGED <<remote, published, last_value, rehydrating, link, s2c,
                     server_version, server_queries, active, remove_pending>>
  BY DEF Write, subscriptions, removal, hydration, feed, manager, versions, wire, server
<1>2. \A q \in Subs : result'[q] = IF q = p THEN now + 1 ELSE result[q]
  BY DEF Write, TypeOK, ServerType
<1>3. ClockInv'
  BY <1>1, <1>2, Numbers DEF CourseInv, ClockInv
<1>4. CacheInv' /\ Intervals'
  BY <1>1 DEF CourseInv, CacheInv, Intervals, Answering
<1>5. \A k \in 1 .. Len(s2c) : Answering(k) => s2c[k].end.ts < now + 1
  BY Numbers, MessageTypes DEF CourseInv, ClockInv, Intervals
<1>6. Truthful'
  <2> SUFFICES ASSUME NEW k \in 1 .. Len(s2c), NEW q \in Subs, Reports(k, q)
               PROVE  /\ Answering(k)
                      /\ s2c[k].mods[q] <= s2c[k].end.ts
                      /\ s2c[k].mods[q] <= result'[q]
                      /\ result'[q] <= s2c[k].end.ts => s2c[k].mods[q] = result'[q]
                      /\ published[q] # NoValue => published[q] <= s2c[k].mods[q]
    BY <1>1 DEF Truthful, Reports, Answering
  <2>1. s2c[k].end.ts \in Nat /\ s2c[k].mods[q] \in Nat /\ now \in Nat /\ result[q] \in Nat
    BY Numbers, MessageTypes
  <2>2. /\ Answering(k) /\ s2c[k].end.ts < now + 1
        /\ s2c[k].mods[q] <= s2c[k].end.ts
        /\ s2c[k].mods[q] <= result[q]
        /\ result[q] <= s2c[k].end.ts => s2c[k].mods[q] = result[q]
        /\ published[q] # NoValue => published[q] <= s2c[k].mods[q]
    BY <1>5 DEF CourseInv, Truthful
  <2> QED BY <1>2, <2>1, <2>2
<1>7. ASSUME NEW q \in Subs, NEW k \in 1 .. Len(s2c), Answering(k), Covers(k, q)
      PROVE  Covers(k, q)'
  BY <1>1, <1>2, <1>5, <1>7, Numbers, MessageTypes DEF Covers, Reports
<1>8. Complete'
  <2>1. \A q \in Subs : \A k \in 1 .. Len(s2c) + 1 : Told(q, k)' = Told(q, k)
    BY <1>1 DEF Told, Answered, Reports
  <2>2. Len(s2c) \in Nat
    BY DEF TypeOK, WireType
  <2> QED BY <1>1, <1>7, <2>1, <2>2 DEF CourseInv, Complete, Live, Answering
<1>9. UpToDate'
  BY <1>1, <1>2, Numbers DEF CourseInv, ClockInv, UpToDate, Live, Answered
<1> QED BY <1>3, <1>4, <1>6, <1>8, <1>9 DEF CourseInv

(* The backend sends the results of some queries as of now: those that have *)
(* changed since its last Transition, and those that are new to it.        *)
LEMMA AnswerKeeps ==
  ASSUME Everything, link = "up", NEW S, NEW known, NEW version \in Version,
         version.ts = now,
         s2c' = Append(s2c, Transition(server_version, version, ResultsOf(S))),
         server_version' = version, server_queries' = known,
         UNCHANGED <<now, result, remote, published, last_value, rehydrating,
                     active, remove_pending>>,
         \A q \in Subs : Live(q) /\ (q \in server_queries \/ q \in S) => q \in known,
         \A q \in server_queries :
           /\ q \in S => result[q] > server_version.ts
           /\ Live(q) /\ q \notin S => result[q] <= server_version.ts
  PROVE  CourseInv'
<1> USE DEF Everything, Context, OrderInv, CourseInv
<1>0. PICK last \in Nat : last = Len(s2c) + 1
  BY DEF TypeOK, WireType
<1> DEFINE m == Transition(server_version, version, ResultsOf(S))
<1>1. /\ Len(s2c) \in Nat /\ last = Len(s2c) + 1 /\ Len(s2c') = last
      /\ \A k \in 1 .. Len(s2c) : s2c'[k] = s2c[k]
      /\ s2c'[last] = m
  BY <1>0 DEF TypeOK, WireType
<1>2. /\ m.type = "Transition" /\ m.start = server_version /\ m.end = version
      /\ \A q \in Subs : m.mods[q] = IF q \in S THEN result[q] ELSE NoValue
  BY DEF Transition, ResultsOf
<1>3. /\ server_version.ts \in Nat /\ now \in Nat /\ remote.ts \in Nat /\ NoValue \in Nat
      /\ remote.ts <= server_version.ts /\ server_version.ts <= now
      /\ \A q \in Subs : result[q] \in Nat /\ result[q] # NoValue /\ result[q] <= now
  BY Numbers DEF ClockInv, Intervals
<1> HIDE DEF m
<1>4. \A k \in 1 .. last : k \in 1 .. Len(s2c) \/ k = last
  BY <1>1
<1>5. ClockInv' /\ CacheInv' /\ UpToDate'
  BY <1>3 DEF ClockInv, CacheInv, UpToDate, Live, Answered
<1>6. /\ \A k \in 1 .. Len(s2c) : Answering(k)' = Answering(k)
      /\ Answering(last)'
      /\ \A k \in 1 .. Len(s2c) : \A q \in Subs : /\ Reports(k, q)' = Reports(k, q)
                                                 /\ Covers(k, q)' = Covers(k, q)
      /\ \A q \in Subs : Reports(last, q)' <=> q \in S
  <2>1. /\ \A k \in 1 .. Len(s2c) : Answering(k)' = Answering(k)
        /\ Answering(last)'
    BY <1>1, <1>2 DEF Answering
  <2>2. \A k \in 1 .. Len(s2c) : \A q \in Subs : Reports(k, q)' = Reports(k, q)
    BY <1>1 DEF Reports
  <2>3. \A k \in 1 .. Len(s2c) : \A q \in Subs : Covers(k, q)' = Covers(k, q)
    BY <1>1, <2>2 DEF Covers
  <2>4. \A q \in Subs : Reports(last, q)' <=> q \in S
    BY <1>1, <1>2, <1>3 DEF Reports
  <2> QED BY <2>1, <2>2, <2>3, <2>4
<1>7. Intervals'
  <2>1. \A k \in 1 .. Len(s2c) : Answering(k) => s2c[k].end.ts <= server_version.ts
    BY DEF Intervals
  <2>2. \A k \in 1 .. Len(s2c) : s2c[k].end.ts \in Nat
    BY MessageTypes
  <2>3. \A k \in 1 .. last : Answering(k)' =>
           /\ remote.ts <= s2c'[k].start.ts /\ s2c'[k].start.ts <= s2c'[k].end.ts
           /\ s2c'[k].end.ts <= now
    BY <1>1, <1>2, <1>3, <1>4, <1>6, <2>1, <2>2 DEF Intervals
  <2>4. ASSUME NEW j \in 1 .. last, NEW k \in 1 .. last, j < k, Answering(j)', Answering(k)'
        PROVE  s2c'[j].end.ts <= s2c'[k].start.ts
    <3>1. j \in 1 .. Len(s2c) /\ Answering(j)
      BY <1>1, <1>6, <2>4
    <3>2. CASE k \in 1 .. Len(s2c)
      BY <1>1, <1>6, <2>4, <3>1, <3>2 DEF Intervals
    <3>3. CASE k = last
      BY <1>1, <1>2, <2>1, <3>1, <3>3
    <3> QED BY <1>4, <3>2, <3>3
  <2> QED BY <1>1, <1>3, <2>3, <2>4 DEF Intervals
<1>8. Truthful'
  <2> SUFFICES ASSUME NEW k \in 1 .. last, NEW q \in Subs, Reports(k, q)'
               PROVE  /\ Answering(k)'
                      /\ s2c'[k].mods[q] <= s2c'[k].end.ts
                      /\ s2c'[k].mods[q] <= result[q]
                      /\ result[q] <= s2c'[k].end.ts => s2c'[k].mods[q] = result[q]
                      /\ published[q] # NoValue => published[q] <= s2c'[k].mods[q]
    BY <1>1 DEF Truthful
  <2>1. CASE k \in 1 .. Len(s2c)
    BY <1>1, <1>6, <2>1 DEF Truthful
  <2>2. CASE k = last
    <3>1. q \in S /\ Answering(k)' /\ s2c'[k].end.ts = now /\ s2c'[k].mods[q] = result[q]
      BY <1>1, <1>2, <1>6, <2>2
    <3> QED BY <1>3, <3>1 DEF ClockInv
  <2> QED BY <1>4, <2>1, <2>2
<1>9. Complete'
  <2> SUFFICES ASSUME NEW q \in Subs, Live(q)
               PROVE  /\ Told(q, last + 1)' => q \in known
                      /\ \A k \in 1 .. last : Told(q, k)' /\ Answering(k)' => Covers(k, q)'
    <3>1. (\A p \in Subs : Live(p)' = Live(p)) /\ server_queries' = known
      BY DEF Live
    <3> QED BY <1>1, <3>1 DEF Complete
  <2>0. Answered(q)' = Answered(q)
    BY DEF Answered
  <2>1. \A k \in 1 .. last : Told(q, k)' = Told(q, k)
    BY <1>1, <1>6, <2>0 DEF Told
  <2>2. Told(q, last + 1)' => Told(q, last) \/ q \in S
    <3>1. last + 1 - 1 = last
      BY <1>1
    <3>2. ASSUME NEW i \in 1 .. last, Reports(i, q)', q \notin S
          PROVE  \E k \in 1 .. last - 1 : Reports(k, q)
      BY <1>1, <1>4, <1>6, <3>2
    <3> QED BY <2>0, <3>1, <3>2 DEF Told
  <2>3. Told(q, last) => q \in server_queries
    BY <1>1 DEF Complete
  <2>4. ASSUME NEW k \in 1 .. last, Told(q, k)', Answering(k)' PROVE Covers(k, q)'
    <3>1. CASE k \in 1 .. Len(s2c)
      BY <1>6, <2>1, <2>4, <3>1 DEF Complete
    <3>2. CASE k = last
      <4>1. q \in server_queries /\ q \in Subs
        BY <2>1, <2>3, <2>4, <3>2
      <4>2. /\ s2c'[k].start.ts = server_version.ts
            /\ q \in S => Reports(k, q)' /\ s2c'[k].mods[q] = result[q]
            /\ q \notin S => ~Reports(k, q)'
        BY <1>1, <1>2, <1>6, <3>2
      <4> QED BY <1>3, <4>1, <4>2 DEF Covers
    <3> QED BY <1>4, <3>1, <3>2
  <2> QED BY <2>2, <2>3, <2>4
<1> QED BY <1>5, <1>7, <1>8, <1>9

(* A Transition pushed after commits.                                       *)
LEMMA PushKeeps ==
  ASSUME Everything, ServerPush PROVE CourseInv'
<1> DEFINE version == [server_version EXCEPT !.ts = now]
           S == {q \in server_queries : result[q] > server_version.ts}
<1>1. /\ link = "up" /\ server_version' = version /\ server_queries' = server_queries
      /\ s2c' = Append(s2c, Transition(server_version, version, ResultsOf(S)))
      /\ UNCHANGED <<now, result, remote, published, last_value, rehydrating,
                     active, remove_pending>>
  BY DEF ServerPush, subscriptions, removal, hydration, feed, manager, versions, data
<1>2. version \in Version /\ version.ts = now /\ server_queries \subseteq Subs
  BY DEF Everything, Context, TypeOK, ServerType, Version
<1>3. \A q \in Subs : result[q] \in Nat /\ server_version.ts \in Nat
  BY Numbers DEF Everything, Context
<1>4. \A q \in server_queries :
           /\ q \in S => result[q] > server_version.ts
           /\ Live(q) /\ q \notin S => result[q] <= server_version.ts
  BY <1>2, <1>3
<1> HIDE DEF version, S
<1>5. \A q \in Subs : Live(q) /\ (q \in server_queries \/ q \in S) => q \in server_queries
  BY DEF S
<1> QED BY <1>1, <1>2, <1>4, <1>5, AnswerKeeps

(* The answer to a ModifyQuerySet.  Its base agrees, its Adds are new to    *)
(* the backend, and its Removes are of no live query.                      *)
LEMMA ModifyAccepted ==
  ASSUME Everything, ServerModify
  PROVE  LET m == Head(c2s)
             version == [querySet |-> server_version.querySet + 1, ts |-> now]
             known == (server_queries \cup m.adds) \ m.removes
         IN /\ link = "up" /\ link' = "up" /\ socket /\ pc # "modify"
            /\ server_version' = version /\ server_queries' = known
            /\ s2c' = Append(s2c, Transition(server_version, version, ResultsOf(
                     m.adds \cup {q \in known : result[q] > server_version.ts})))
            /\ m = c2s[1] /\ c2s \in Seq(Modification) /\ c2s # <<>> /\ c2s' = Tail(c2s)
            /\ m.adds \subseteq Subs /\ m.adds \cap server_queries = {}
            /\ \A q \in Subs : Live(q) => q \notin m.removes
<1> USE DEF Everything, Context
<1>1. /\ link = "up" /\ c2s # <<>> /\ c2s \in Seq(Modification) /\ c2s' = Tail(c2s)
  BY DEF ServerModify, TypeOK, WireType
<1>2. /\ Head(c2s) = c2s[1] /\ 1 \in 1 .. Len(c2s) /\ Head(c2s).adds \subseteq Subs
  BY <1>1, NextModificationType DEF TypeOK
<1>3. Head(c2s).base = server_version.querySet
  BY <1>1, <1>2, Numbers DEF VersionInv, BasesCountUp
<1>4. socket /\ pc # "modify"
  BY <1>1 DEF VersionInv, Attached
<1>5. Head(c2s).adds \cap server_queries = {}
  BY <1>2 DEF OrderInv, AddedOnce, AddsNew
<1>6. \A q \in Subs : Live(q) => q \notin Head(c2s).removes
  BY <1>2 DEF AddsInv, RemovesDone, FeedInv, Live
<1> QED BY <1>1, <1>2, <1>3, <1>4, <1>5, <1>6 DEF ServerModify

(* A Transition sent in answer to a ModifyQuerySet.                         *)
LEMMA ModifyKeeps ==
  ASSUME Everything, ServerModify PROVE CourseInv'
<1> DEFINE m == Head(c2s)
           version == [querySet |-> server_version.querySet + 1, ts |-> now]
           known == (server_queries \cup m.adds) \ m.removes
           S == m.adds \cup {q \in known : result[q] > server_version.ts}
<1>1. /\ link = "up" /\ server_version' = version /\ server_queries' = known
      /\ s2c' = Append(s2c, Transition(server_version, version, ResultsOf(S)))
      /\ m.adds \subseteq Subs /\ m.adds \cap server_queries = {}
      /\ \A q \in Subs : Live(q) => q \notin m.removes
  BY ModifyAccepted
<1>2. UNCHANGED <<now, result, remote, published, last_value, rehydrating,
                     active, remove_pending>>
  BY DEF ServerModify, subscriptions, removal, hydration, feed, manager, versions, data
<1>3. version \in Version /\ version.ts = now /\ server_queries \subseteq Subs
  BY DEF Everything, Context, TypeOK, ServerType, Version
<1>4. \A q \in Subs : result[q] \in Nat /\ server_version.ts \in Nat
  BY Numbers DEF Everything, Context
<1>5. \A q \in server_queries :
           /\ q \in S => result[q] > server_version.ts
           /\ Live(q) /\ q \notin S => result[q] <= server_version.ts
  BY <1>1, <1>3, <1>4
<1>6. \A q \in Subs : Live(q) /\ (q \in server_queries \/ q \in S) => q \in known
  BY <1>1
<1> HIDE DEF m, version, known, S
<1> QED BY <1>1, <1>2, <1>3, <1>5, <1>6, AnswerKeeps

(* A broken link, perhaps with a last message that is no Transition.        *)
LEMMA BreakKeeps ==
  ASSUME TypeOK, CourseInv, Break PROVE CourseInv'
<1>1. /\ s2c' \in {s2c, Append(s2c, FatalError)} /\ link' = "broken"
      /\ UNCHANGED <<now, result, remote, published, last_value, rehydrating,
                     server_version, server_queries, active, remove_pending>>
  BY DEF Break, subscriptions, removal, hydration, feed, manager, versions, server, data
<1>2. CASE s2c' = s2c
  BY <1>1, <1>2 DEF CourseInv, ClockInv, CacheInv, Intervals, Truthful, Complete, UpToDate,
    Answering, Reports, Answered, Told, Covers, Live
<1>3. CASE s2c' = Append(s2c, FatalError)
  <2>0. PICK last \in Nat : last = Len(s2c) + 1
    BY DEF TypeOK, WireType
  <2>1. /\ Len(s2c) \in Nat /\ last = Len(s2c) + 1 /\ Len(s2c') = last
        /\ \A k \in 1 .. Len(s2c) : s2c'[k] = s2c[k]
        /\ \A k \in 1 .. last : k \in 1 .. Len(s2c) \/ k = last
        /\ s2c'[last] = FatalError
    BY <1>3, <2>0 DEF TypeOK, WireType
  <2>2. /\ ~Answering(last)' /\ \A q \in Subs : ~Reports(last, q)'
        /\ \A k \in 1 .. Len(s2c) : Answering(k)' = Answering(k)
        /\ \A k \in 1 .. Len(s2c) : \A q \in Subs : /\ Reports(k, q)' = Reports(k, q)
                                                   /\ Covers(k, q)' = Covers(k, q)
    <3>1. ~Answering(last)' /\ \A q \in Subs : ~Reports(last, q)'
      BY <2>1 DEF Answering, Reports, FatalError
    <3>2. /\ \A k \in 1 .. Len(s2c) : Answering(k)' = Answering(k)
          /\ \A k \in 1 .. Len(s2c) : \A q \in Subs : Reports(k, q)' = Reports(k, q)
      BY <2>1 DEF Answering, Reports
    <3>3. \A k \in 1 .. Len(s2c) : \A q \in Subs : Covers(k, q)' = Covers(k, q)
      BY <1>1, <2>1, <3>2 DEF Covers
    <3> QED BY <3>1, <3>2, <3>3
  <2>3. ClockInv' /\ CacheInv' /\ UpToDate'
    BY <1>1 DEF CourseInv, ClockInv, CacheInv, UpToDate, Live, Answered
  <2>a. \A k \in 1 .. last : Answering(k)' => k \in 1 .. Len(s2c) /\ Answering(k)
    BY <2>1, <2>2
  <2>b. \A k \in 1 .. last : \A q \in Subs :
          Reports(k, q)' => k \in 1 .. Len(s2c) /\ Reports(k, q)
    BY <2>1, <2>2
  <2>4. Intervals'
    BY <1>1, <2>1, <2>a DEF CourseInv, Intervals
  <2>t. Truthful'
    BY <1>1, <2>1, <2>2, <2>b DEF CourseInv, Truthful
  <2>5. \A q \in Subs : /\ \A k \in 1 .. last : Told(q, k)' = Told(q, k)
                        /\ Told(q, last + 1)' = Told(q, last)
    <3>1. \A q \in Subs : Answered(q)' = Answered(q)
      BY <1>1 DEF Answered
    <3>2. \A q \in Subs : \A k \in 1 .. last : Told(q, k)' = Told(q, k)
      BY <2>1, <2>2, <3>1 DEF Told
    <3>3. last + 1 - 1 = last /\ last - 1 = Len(s2c)
      BY <2>1
    <3>4. \A q \in Subs : (\E i \in 1 .. last : Reports(i, q)') <=>
                          \E i \in 1 .. Len(s2c) : Reports(i, q)
      BY <2>1, <2>2, <2>b
    <3> QED BY SMTT(30), <3>1, <3>2, <3>3, <3>4 DEF Told
  <2>6. Complete'
    <3> SUFFICES ASSUME NEW q \in Subs, Live(q)
                 PROVE  /\ Told(q, last + 1)' => q \in server_queries
                        /\ \A k \in 1 .. last : Told(q, k)' /\ Answering(k)' => Covers(k, q)'
      BY <1>1, <2>1 DEF Complete, Live
    <3>1. Told(q, last) => q \in server_queries
      BY <2>1 DEF CourseInv, Complete
    <3> QED BY <2>2, <2>5, <2>a, <3>1 DEF CourseInv, Complete
  <2> QED BY <2>3, <2>4, <2>t, <2>6 DEF CourseInv
<1> QED BY <1>1, <1>2, <1>3

(* What handle_transition makes of the first message: a result that applies *)
(* is the last one published, whether it is put in the queue or suppressed. *)
LEMMA Handled ==
  ASSUME Everything, ReceiveTransition
  PROVE  /\ Len(s2c) \in Nat /\ Len(s2c) >= 1 /\ Len(s2c') = Len(s2c) - 1
         /\ \A k \in 1 .. Len(s2c) - 1 : s2c'[k] = s2c[k + 1]
         /\ Head(s2c) = s2c[1] /\ Answering(1) /\ s2c[1].start = remote
         /\ remote' = s2c[1].end
         /\ UNCHANGED <<now, result, link, server_version, server_queries,
                        active, remove_pending>>
         /\ \A q \in Subs :
              IF Live(q) /\ Reports(1, q)
              THEN /\ published'[q] = s2c[1].mods[q]
                   /\ last_value'[q] = CachedValue(s2c[1].mods[q])
                   /\ ~rehydrating'[q]
              ELSE UNCHANGED <<published[q], last_value[q], rehydrating[q]>>
<1> USE DEF Everything, Context
<1>1. s2c \in Seq(Message) /\ s2c # <<>> /\ s2c' = Tail(s2c) /\ Head(s2c) = s2c[1]
  BY DEF ReceiveTransition, Readable, TypeOK, WireType
<1>2. /\ Len(s2c) \in Nat /\ Len(s2c) >= 1 /\ Len(s2c') = Len(s2c) - 1
      /\ \A k \in 1 .. Len(s2c) - 1 : s2c'[k] = s2c[k + 1]
  BY <1>1, TailElements
<1>3. Answering(1) /\ s2c[1].start = remote /\ remote' = s2c[1].end
  BY <1>1 DEF ReceiveTransition, HandleTransition, Continues, Answering
<1>4. UNCHANGED <<now, result, link, server_version, server_queries, active, remove_pending>>
  BY DEF ReceiveTransition, removal, server, data, backend
<1>5. ASSUME NEW q \in Subs
      PROVE  IF Live(q) /\ Reports(1, q)
              THEN /\ published'[q] = s2c[1].mods[q]
                   /\ last_value'[q] = CachedValue(s2c[1].mods[q])
                   /\ ~rehydrating'[q]
              ELSE UNCHANGED <<published[q], last_value[q], rehydrating[q]>>
  <2> DEFINE mods == s2c[1].mods
  <2>1. HandleTransition(s2c[1])
    BY <1>1 DEF ReceiveTransition
  <2>2. /\ q \in Published(mods) => published'[q] = mods[q]
        /\ q \notin Published(mods) => published'[q] = published[q]
    BY <2>1 DEF HandleTransition
  <2>3. /\ Applies(q, mods) => last_value'[q] = CachedValue(mods[q]) /\ ~rehydrating'[q]
        /\ ~Applies(q, mods) => last_value'[q] = last_value[q]
    BY <2>1 DEF HandleTransition
  <2>4. ~Applies(q, mods) => rehydrating'[q] = rehydrating[q]
    <3>1. rehydrating[q] \in BOOLEAN
      BY DEF TypeOK, FeedType
    <3>2. ~Applies(q, mods) => rehydrating'[q] = (rehydrating[q] /\ TRUE)
      BY <2>1 DEF HandleTransition
    <3> QED BY <3>1, <3>2
  <2>5. Applies(q, mods) <=> Live(q) /\ Reports(1, q)
    BY DEF Applies, Reports
  <2>6. Applies(q, mods) /\ q \notin Published(mods) => published[q] = mods[q]
    <3>1. Applies(q, mods) /\ q \notin Published(mods) => last_value[q] = mods[q]
      BY DEF Published, Suppressed
    <3>2. Applies(q, mods) => mods[q] # NoValue
      BY DEF Applies
    <3> QED BY <3>1, <3>2 DEF OrderInv, CourseInv, CacheInv
  <2> QED BY <2>2, <2>3, <2>4, <2>5, <2>6 DEF Published
<1> QED BY <1>1, <1>2, <1>3, <1>4, <1>5

(* A Transition handled.                                                    *)
LEMMA ReceiveKeeps ==
  ASSUME Everything, ReceiveTransition PROVE CourseInv'
<1> USE DEF Everything, Context, OrderInv, CourseInv
<1>h. /\ Len(s2c) \in Nat /\ Len(s2c) >= 1 /\ Len(s2c') = Len(s2c) - 1
      /\ \A k \in 1 .. Len(s2c) - 1 : s2c'[k] = s2c[k + 1]
      /\ Answering(1) /\ s2c[1].start = remote
      /\ remote' = s2c[1].end
      /\ UNCHANGED <<now, result, link, server_version, server_queries,
                     active, remove_pending>>
  BY Handled
<1>q. \A q \in Subs :
        IF Live(q) /\ Reports(1, q)
        THEN /\ published'[q] = s2c[1].mods[q]
             /\ last_value'[q] = CachedValue(s2c[1].mods[q])
             /\ ~rehydrating'[q]
        ELSE UNCHANGED <<published[q], last_value[q], rehydrating[q]>>
  BY Handled
<1>1. /\ 1 \in 1 .. Len(s2c)
      /\ \A k \in 1 .. Len(s2c') : k + 1 \in 1 .. Len(s2c) /\ s2c'[k] = s2c[k + 1]
  BY <1>h
<1>2. /\ s2c[1].end.ts <= server_version.ts /\ remote.ts <= s2c[1].end.ts
      /\ s2c[1].end.ts \in Nat
  BY <1>h, <1>1, MessageTypes, Numbers DEF Intervals
<1>3. /\ \A k \in 1 .. Len(s2c') : Answering(k)' = Answering(k + 1)
      /\ \A k \in 1 .. Len(s2c') : \A q \in Subs : Reports(k, q)' = Reports(k + 1, q)
  BY <1>1 DEF Answering, Reports
<1>4. \A k \in 1 .. Len(s2c') : \A q \in Subs : Covers(k, q)' = Covers(k + 1, q)
  BY <1>1, <1>3, <1>h DEF Covers
<1>5. \A q \in Subs : Live(q)' = Live(q)
  BY <1>h DEF Live
<1>6. \A q \in Subs : Reports(1, q) => /\ s2c[1].mods[q] <= s2c[1].end.ts
                                       /\ s2c[1].mods[q] <= result[q]
                                       /\ s2c[1].mods[q] \in Outcomes \ {NoValue}
  BY <1>1, MessageTypes DEF Truthful, Reports
<1>7. ClockInv'
  <2>1. \A q \in Subs : published'[q] # NoValue => published'[q] <= result[q]
    BY <1>q, <1>6 DEF ClockInv
  <2>2. remote'.ts <= now
    BY <1>h, <1>2, Numbers DEF ClockInv
  <2> QED BY <1>h, <2>1, <2>2 DEF ClockInv
<1>8. CacheInv'
  <2> SUFFICES ASSUME NEW q \in Subs
               PROVE  /\ last_value'[q] # NoValue => last_value'[q] = published'[q]
                      /\ published'[q] \in Times /\ last_value'[q] = NoValue =>
                           published'[q] \in FailedAt
    BY DEF CacheInv
  <2> QED BY <1>q, <1>6 DEF CacheInv, CachedValue, Outcomes
<1>9. Intervals'
  <2>1. \A k \in 2 .. Len(s2c) : Answering(k) => s2c[1].end.ts <= s2c[k].start.ts
    BY <1>h, <1>1 DEF Intervals
  <2>2. ASSUME NEW k \in 1 .. Len(s2c'), Answering(k)'
        PROVE  /\ remote'.ts <= s2c'[k].start.ts /\ s2c'[k].start.ts <= s2c'[k].end.ts
               /\ s2c'[k].end.ts <= server_version'.ts
    <3>1. k + 1 \in 2 .. Len(s2c) /\ Answering(k + 1) /\ s2c'[k] = s2c[k + 1]
      BY <1>h, <1>1, <1>3, <2>2
    <3> QED BY <1>h, <1>1, <2>1, <3>1 DEF Intervals
  <2>3. ASSUME NEW j \in 1 .. Len(s2c'), NEW k \in 1 .. Len(s2c'), j < k,
               Answering(j)', Answering(k)'
        PROVE  s2c'[j].end.ts <= s2c'[k].start.ts
    <3>1. j + 1 < k + 1
      BY <2>3, <1>h
    <3> QED BY <1>1, <1>3, <2>3, <3>1 DEF Intervals
  <2> QED BY <1>h, <1>2, <2>2, <2>3 DEF Intervals
<1>10. ASSUME NEW q \in Subs, Live(q), Reports(1, q), NEW k \in 1 .. Len(s2c'), Reports(k + 1, q)
       PROVE  s2c[1].mods[q] <= s2c[k + 1].mods[q]
  <2>1. k + 1 \in 1 .. Len(s2c) /\ Answering(k + 1) /\ 1 < k + 1
    BY <1>h, <1>1, <1>10 DEF Truthful
  <2>2. Told(q, k + 1)
    BY <1>10, <2>1, <1>h DEF Told
  <2>3. s2c[k + 1].mods[q] > s2c[k + 1].start.ts
    BY <1>10, <2>1, <2>2 DEF Complete, Covers
  <2>4. s2c[1].end.ts <= s2c[k + 1].start.ts
    BY <1>h, <1>1, <2>1 DEF Intervals
  <2>5. /\ s2c[1].mods[q] \in Nat /\ s2c[k + 1].mods[q] \in Nat
        /\ s2c[k + 1].start.ts \in Nat
    BY <1>1, <2>1, MessageTypes
  <2> QED BY <1>2, <1>6, <1>10, <2>3, <2>4, <2>5
<1>11. Truthful'
  <2> SUFFICES ASSUME NEW k \in 1 .. Len(s2c'), NEW q \in Subs, Reports(k, q)'
               PROVE  /\ Answering(k)'
                      /\ s2c'[k].mods[q] <= s2c'[k].end.ts
                      /\ s2c'[k].mods[q] <= result'[q]
                      /\ result'[q] <= s2c'[k].end.ts => s2c'[k].mods[q] = result'[q]
                      /\ published'[q] # NoValue => published'[q] <= s2c'[k].mods[q]
    BY DEF Truthful
  <2>1. k + 1 \in 1 .. Len(s2c) /\ Reports(k + 1, q) /\ s2c'[k] = s2c[k + 1]
    BY <1>1, <1>3
  <2>2. published'[q] # NoValue => published'[q] <= s2c[k + 1].mods[q]
    BY <1>q, <1>10, <2>1 DEF Truthful
  <2> QED BY <1>h, <1>3, <2>1, <2>2 DEF Truthful
<1>12. ASSUME NEW q \in Subs, Live(q), Answered(q)' PROVE Answered(q) \/ Reports(1, q)
  BY <1>q, <1>12 DEF Answered
<1>13. ASSUME NEW q \in Subs, Live(q), NEW k \in 1 .. Len(s2c), Told(q, k)' PROVE Told(q, k + 1)
  <2>1. CASE Answered(q)'
    BY <1>12, <1>13, <1>1, <2>1 DEF Told
  <2>2. CASE ~Answered(q)'
    <3>1. PICK i \in 1 .. k - 1 : Reports(i, q)'
      BY <1>13, <2>2 DEF Told
    <3>2. i \in 1 .. Len(s2c') /\ i + 1 \in 1 .. k + 1 - 1
      BY <1>h, <3>1
    <3>3. Reports(i + 1, q)
      BY <1>3, <3>1, <3>2
    <3> QED BY <3>2, <3>3 DEF Told
  <2> QED BY <2>1, <2>2
<1>14. Complete'
  <2>1. PICK last \in Nat : last = Len(s2c)
    BY <1>h
  <2>2. Len(s2c') + 1 = last /\ last \in 1 .. Len(s2c)
    BY <1>h, <2>1
  <2> SUFFICES ASSUME NEW q \in Subs, Live(q)
               PROVE  /\ Told(q, last)' => q \in server_queries
                      /\ \A k \in 1 .. Len(s2c') : Told(q, k)' /\ Answering(k)' => Covers(k, q)'
    BY <1>h, <1>5, <2>2 DEF Complete
  <2>3. Told(q, last)' => q \in server_queries
    <3>1. Told(q, last)' => Told(q, last + 1)
      BY <1>13, <2>2
    <3> QED BY <2>1, <3>1 DEF Complete
  <2>4. ASSUME NEW k \in 1 .. Len(s2c'), Told(q, k)', Answering(k)' PROVE Covers(k, q)'
    <3>1. k \in 1 .. Len(s2c) /\ k + 1 \in 1 .. Len(s2c)
      BY <1>h, <1>1
    <3> QED BY <1>3, <1>4, <1>13, <2>4, <3>1 DEF Complete
  <2> QED BY <2>3, <2>4
<1>15. UpToDate'
  <2> SUFFICES ASSUME NEW q \in Subs, Live(q), Answered(q)'
               PROVE  /\ published'[q] <= s2c[1].end.ts
                      /\ result[q] <= s2c[1].end.ts => published'[q] = result[q]
    BY <1>h, <1>5 DEF UpToDate
  <2>1. CASE Reports(1, q)
    BY <1>q, <1>1, <1>6, <2>1 DEF Truthful
  <2>2. CASE ~Reports(1, q)
    <3>1. Answered(q) /\ Told(q, 1) /\ published'[q] = published[q]
      BY <1>q, <1>12, <2>2 DEF Told
    <3>2. Covers(1, q)
      BY <1>h, <1>1, <3>1 DEF Complete
    <3>3. result[q] <= remote.ts \/ result[q] > s2c[1].end.ts
      BY <1>h, <2>2, <3>2 DEF Covers
    <3>4. published[q] <= remote.ts /\ published[q] \in Nat /\ result[q] \in Nat /\ remote.ts \in Nat
      BY <3>1, Numbers DEF UpToDate
    <3>5. result[q] <= remote.ts => published[q] = result[q]
      BY <3>1 DEF UpToDate
    <3> QED BY <1>2, <3>1, <3>3, <3>4, <3>5
  <2> QED BY <2>1, <2>2
<1> QED BY <1>7, <1>8, <1>9, <1>11, <1>14, <1>15

(* Every step keeps the course of the results.                              *)
LEMMA CourseStep ==
  ASSUME Everything, [Next]_vars PROVE CourseInv'
<1>1. TypeOK /\ CourseInv /\ NewIds
  BY DEF Everything, Context, OrderInv
<1>2. CASE Quiet
  BY <1>1, <1>2, QuietKeeps
<1>3. CASE Cleared
  BY <1>1, <1>3, ClearedKeeps
<1>4. CASE Subscribe
  BY <1>1, <1>4, SubscribeKeeps
<1>5. CASE ReceiveTransition
  BY <1>5, ReceiveKeeps
<1>6. CASE ServerModify
  BY <1>6, ModifyKeeps
<1>7. CASE ServerPush
  BY <1>7, PushKeeps
<1>8. CASE Break
  BY <1>1, <1>8, BreakKeeps
<1>9. CASE \E q \in Subs : Write(q)
  BY <1>1, <1>9, WriteKeeps
<1> QED BY <1>2, <1>3, <1>4, <1>5, <1>6, <1>7, <1>8, <1>9, StepKinds
-----------------------------------------------------------------------------
(* The Adds.                                                                *)

(* What writing one more ModifyQuerySet does to the queries held.           *)
LEMMA AddsWritten ==
  ASSUME TypeOK, NEW adds \in SUBSET Subs, NEW removes,
         SendOkay(Modify(query_set_version, adds, removes)),
         UNCHANGED <<link, server_queries>>
  PROVE  /\ \A q \in Subs : Held(q)' => Held(q) \/ q \in adds
         /\ link # "up" => c2s' = c2s
         /\ AddsNew /\ (\A q \in adds : ~Held(q)) => AddsNew'
         /\ AddsDisjoint /\ (\A q \in adds : ~Held(q)) => AddsDisjoint'
<1>1. CASE link # "up"
  BY <1>1 DEF SendOkay, Held, AddsNew, AddsDisjoint
<1>2. CASE link = "up"
  <2> DEFINE m == Modify(query_set_version, adds, removes)
  <2>1. c2s \in Seq(Modification) /\ c2s' = Append(c2s, m) /\ m.adds = adds
    BY <1>2 DEF SendOkay, Modify, TypeOK, WireType
  <2> HIDE DEF m
  <2>2. /\ Len(c2s) \in Nat /\ Len(c2s') = Len(c2s) + 1
        /\ \A k \in 1 .. Len(c2s) : c2s'[k] = c2s[k]
        /\ c2s'[Len(c2s) + 1] = m
    BY <2>1
  <2>3. \A q \in Subs : Held(q)' => Held(q) \/ q \in adds
    BY <2>1, <2>2 DEF Held
  <2>4. ASSUME AddsNew, \A q \in adds : ~Held(q) PROVE AddsNew'
    BY <2>1, <2>2, <2>4 DEF AddsNew, Held
  <2>5. ASSUME AddsDisjoint, \A q \in adds : ~Held(q) PROVE AddsDisjoint'
    <3>1. \A k \in 1 .. Len(c2s) : c2s[k].adds \cap adds = {}
      BY <2>5 DEF Held
    <3>2. ASSUME NEW j \in 1 .. Len(c2s'), NEW k \in 1 .. Len(c2s'), j < k
          PROVE  c2s'[j].adds \cap c2s'[k].adds = {}
      <4>1. j \in 1 .. Len(c2s) /\ c2s'[j] = c2s[j]
        BY <2>2, <3>2
      <4>2. CASE k \in 1 .. Len(c2s)
        BY <2>2, <2>5, <3>2, <4>1, <4>2 DEF AddsDisjoint
      <4>3. CASE k = Len(c2s) + 1
        BY <2>1, <2>2, <3>1, <4>1, <4>3
      <4> QED BY <2>2, <4>2, <4>3
    <3> QED BY <3>2 DEF AddsDisjoint
  <2> QED BY <1>2, <2>3, <2>4, <2>5
<1> QED BY <1>1, <1>2

(* Every step leaves what nobody has subscribed to out of everything.       *)
LEMMA NewIdsStep ==
  ASSUME Everything, [Next]_vars PROVE NewIds'
<1> USE DEF Everything, Context, OrderInv, removal, hydration, feed, subscriptions,
     versions, connecting, manager, worker, locals, data, wire, server, backend
<1> DEFINE Fresh(q) == q >= next_query_id
<1>0. /\ next_query_id \in 0 .. MaxSubs /\ NoValue \in Nat
      /\ \A q \in Subs : Fresh(q) => NewId(q) /\ ~active[q]
  BY Numbers DEF NewIds, FeedInv, Untouched, TypeOK, ManagerType
<1>1. ASSUME next_query_id' = next_query_id,
             \A q \in Subs : NewId(q) /\ ~active[q] => NewId(q)'
      PROVE  NewIds'
  BY <1>0, <1>1 DEF NewIds
<1>2. CASE \/ EnsureLive \/ Close \/ CloseWait \/ CloseTimeout \/ BeginExit \/ PickMessage
           \/ Idle \/ DialFailed \/ ReceiveNothing \/ ReceiveFragment \/ UNCHANGED vars
  <2>1. UNCHANGED <<published, add_pending, server_queries, c2s, s2c, snapshot, next_query_id>>
    BY <1>2 DEF EnsureLive, Close, CloseWait, CloseTimeout, BeginExit, PickMessage, Idle,
      DialFailed, ReceiveNothing, ReceiveFragment, vars
  <2> QED BY <1>1, <2>1 DEF NewId, Held
<1>3. CASE \/ \E q \in Subs : \/ UnsubscribeWait(q) \/ SubscriptionNext(q) \/ Write(q)
                             \/ Unsubscribe(q)
           \/ \E d \in Debuggers : DebugDisconnect(d) \/ DebugWait(d)
  <2>1. UNCHANGED <<published, add_pending, server_queries, c2s, s2c, snapshot, next_query_id>>
    BY <1>3 DEF UnsubscribeWait, SubscriptionNext, Write, Unsubscribe, DebugDisconnect,
      DebugWait
  <2> QED BY <1>1, <2>1 DEF NewId, Held
<1>4. CASE Subscribe
  <2>1. /\ UNCHANGED <<published, server_queries, c2s, s2c, snapshot>>
        /\ next_query_id' = next_query_id + 1
        /\ add_pending' = [add_pending EXCEPT ![next_query_id] = TRUE]
    BY <1>4 DEF Subscribe
  <2>2. ASSUME NEW q \in Subs, q >= next_query_id' PROVE NewId(q)'
    <3>1. NewId(q) /\ q # next_query_id
      BY <1>0, <2>1, <2>2 DEF Subs
    <3>2. ~add_pending'[q]
      BY <2>1, <3>1 DEF NewId, TypeOK, RemovalType
    <3> QED BY <2>1, <3>1, <3>2 DEF NewId, Held
  <2> QED BY <2>2 DEF NewIds
<1>5. CASE \/ HandleDebug \/ AddFailed \/ RemoveFailed \/ ReceiveProtocolError
           \/ ReceiveTransportError \/ SnapshotFailed \/ Exit
  <2>1. /\ DropLink /\ UNCHANGED <<published, add_pending, next_query_id>>
        /\ snapshot' \in {snapshot, {}}
    BY <1>5 DEF HandleDebug, AddFailed, RemoveFailed, ReceiveProtocolError, PublishError,
      ReceiveTransportError, SnapshotFailed, Exit, DisconnectSocket
  <2> QED BY <1>1, <2>1 DEF NewId, Held, DropLink
<1>6. CASE AddSent
  <2>1. /\ UNCHANGED <<published, server_queries, link, s2c, snapshot, next_query_id>>
        /\ current \in Subs /\ add_pending[current]
        /\ SendOkay(Modify(query_set_version, {current}, {}))
        /\ \A q \in Subs : add_pending'[q] => add_pending[q]
    BY <1>6 DEF AddSent, AddedOnce, TypeOK, WorkerType, RemovalType
  <2>2. \A q \in Subs : Held(q)' => Held(q) \/ q = current
    BY <2>1, AddsWritten
  <2> QED BY <1>1, <2>1, <2>2 DEF NewId
<1>7. CASE RemoveSent
  <2>1. /\ UNCHANGED <<published, add_pending, server_queries, link, s2c, snapshot, next_query_id>>
        /\ SendOkay(Modify(query_set_version, {}, {current}))
    BY <1>7 DEF RemoveSent
  <2>2. \A q \in Subs : Held(q)' => Held(q)
    BY <2>1, AddsWritten
  <2> QED BY <1>1, <2>1, <2>2 DEF NewId
<1>8. CASE SnapshotSent
  <2>1. /\ UNCHANGED <<published, server_queries, link, s2c, next_query_id>>
        /\ snapshot \in SUBSET Subs /\ snapshot' = {}
        /\ SendOkay(Modify(query_set_version, snapshot, {}))
        /\ \A q \in Subs : add_pending'[q] => add_pending[q]
    BY <1>8 DEF SnapshotSent, TypeOK, WorkerType
  <2>2. \A q \in Subs : Held(q)' => Held(q) \/ q \in snapshot
    BY <2>1, AddsWritten
  <2> QED BY <1>1, <2>1, <2>2 DEF NewId
<1>9. CASE Connected
  <2>1. /\ UNCHANGED <<published, add_pending, next_query_id>>
        /\ c2s' = <<>> /\ s2c' = <<>> /\ server_queries' = {}
        /\ snapshot' \in {snapshot, {q \in Subs : Live(q)}}
    BY <1>9 DEF Connected
  <2> QED BY <1>1, <2>1 DEF NewId, Held, Live
<1>10. CASE ReceiveTransition
  <2>1. UNCHANGED <<add_pending, server_queries, c2s, snapshot, next_query_id>>
    BY <1>10 DEF ReceiveTransition
  <2>2. ASSUME NEW q \in Subs, NewId(q), ~active[q] PROVE NewId(q)'
    <3>1. published'[q] = published[q]
      BY <1>10, <2>2, Handled DEF Live
    <3>2. \A k \in 1 .. Len(s2c') : k + 1 \in 1 .. Len(s2c) /\ s2c'[k] = s2c[k + 1]
      BY <1>10, Handled
    <3> QED BY <2>1, <2>2, <3>1, <3>2 DEF NewId, Held
  <2> QED BY <1>1, <2>1, <2>2
<1>11. CASE ServerPush
  <2>1. /\ UNCHANGED <<published, add_pending, server_queries, c2s, snapshot, next_query_id>>
        /\ \E start, end, S : S \subseteq server_queries
              /\ s2c' = Append(s2c, Transition(start, end, ResultsOf(S)))
    BY <1>11 DEF ServerPush
  <2>2. \A q \in Subs : q \notin server_queries =>
          \A S \in SUBSET server_queries : ResultsOf(S)[q] = NoValue
    BY DEF ResultsOf
  <2>3. s2c \in Seq(Message)
    BY DEF TypeOK, WireType
  <2> QED BY <1>1, <2>1, <2>2, <2>3 DEF NewId, Held, Transition
<1>12. CASE ServerModify
  <2>1. /\ UNCHANGED <<published, add_pending, snapshot, next_query_id>>
        /\ c2s # <<>> /\ c2s \in Seq(Modification) /\ c2s' = Tail(c2s) /\ Head(c2s) = c2s[1]
        /\ server_queries' \subseteq server_queries \cup c2s[1].adds
        /\ \E start, end, S : S \subseteq server_queries \cup c2s[1].adds
              /\ s2c' = Append(s2c, Transition(start, end, ResultsOf(S)))
    BY <1>12, ModifyAccepted DEF ServerModify
  <2>2. /\ 1 \in 1 .. Len(c2s)
        /\ \A k \in 1 .. Len(c2s') : k + 1 \in 1 .. Len(c2s) /\ c2s'[k] = c2s[k + 1]
    BY <2>1, TailElements
  <2>3. \A q \in Subs : /\ Held(q)' => Held(q)
                        /\ q \in c2s[1].adds \/ q \in server_queries => Held(q)
    BY <2>1, <2>2 DEF Held
  <2>4. \A q \in Subs : ~Held(q) =>
          \A S \in SUBSET (server_queries \cup c2s[1].adds) : ResultsOf(S)[q] = NoValue
    BY <2>3 DEF ResultsOf
  <2>5. s2c \in Seq(Message)
    BY DEF TypeOK, WireType
  <2> QED BY <1>1, <2>1, <2>3, <2>4, <2>5 DEF NewId, Transition
<1>13. CASE Break
  <2>1. /\ UNCHANGED <<published, add_pending, snapshot, server_queries, next_query_id>>
        /\ c2s' = <<>> /\ s2c' \in {s2c, Append(s2c, FatalError)} /\ s2c \in Seq(Message)
    BY <1>13 DEF Break, TypeOK, WireType
  <2>2. \A q \in Subs : FatalError.mods[q] = NoValue
    BY DEF FatalError
  <2> QED BY <1>1, <2>1, <2>2 DEF NewId, Held
<1> QED BY <1>2, <1>3, <1>4, <1>5, <1>6, <1>7, <1>8, <1>9, <1>10, <1>11, <1>12, <1>13
  DEF Next, Worker, Application, Environment

adding == <<add_pending, link, c2s, server_queries, socket, snapshot, snapshot_sequence>>

(* Every step sends an Add at most once on a connection.                    *)
LEMMA AddedOnceStep ==
  ASSUME Everything, [Next]_vars PROVE AddedOnce'
<1> USE DEF Everything, Context, OrderInv, removal, hydration, feed, subscriptions,
     versions, connecting, manager, worker, locals, data, wire, server, backend
<1>1. ASSUME UNCHANGED adding, pc' = "modify" <=> pc = "modify",
             pc' = "add" => add_pending[current']
      PROVE  AddedOnce'
  BY <1>1 DEF adding, AddedOnce, AddsNew, AddsDisjoint, Held
<1>2. CASE \/ EnsureLive \/ Close \/ CloseWait \/ CloseTimeout \/ UNCHANGED vars
  BY <1>1, <1>2 DEF adding, AddedOnce, EnsureLive, Close, CloseWait, CloseTimeout, vars
<1>3. CASE \/ \E q \in Subs : \/ UnsubscribeWait(q) \/ SubscriptionNext(q) \/ Write(q)
                             \/ Unsubscribe(q)
           \/ \E d \in Debuggers : DebugDisconnect(d) \/ DebugWait(d)
  BY <1>1, <1>3 DEF adding, AddedOnce, UnsubscribeWait, SubscriptionNext, Write, Unsubscribe,
    DebugDisconnect, DebugWait
<1>4. CASE \/ BeginExit \/ PickMessage \/ Idle \/ DialFailed \/ ReceiveNothing
           \/ ReceiveFragment \/ ReceiveTransition
  <2>1. UNCHANGED adding /\ pc # "modify" /\ pc' # "modify"
    BY <1>4 DEF adding, BeginExit, PickMessage, Idle, DialFailed, ReceiveNothing,
      ReceiveFragment, ReceiveTransition
  <2>2. pc' = "add" => add_pending[current']
    BY <1>4 DEF BeginExit, PickMessage, Idle, DialFailed, ReceiveNothing,
      ReceiveFragment, ReceiveTransition, Newest, PendingAdds
  <2> QED BY <1>1, <2>1, <2>2
<1>5. CASE Subscribe
  <2> DEFINE new == next_query_id
  <2>1. /\ UNCHANGED <<link, c2s, server_queries, socket, snapshot, snapshot_sequence, pc, current>>
        /\ add_pending' = [add_pending EXCEPT ![new] = TRUE]
    BY <1>5 DEF Subscribe
  <2>2. \A q \in Subs : add_pending'[q] => add_pending[q] \/ q = new
    BY <2>1 DEF TypeOK, RemovalType
  <2>3. ASSUME NEW q \in Subs, q = new PROVE ~Held(q)
    BY <2>3 DEF NewIds, NewId, Subs
  <2>4. pc = "add" => add_pending'[current]
    BY <2>1 DEF AddedOnce, TypeOK, RemovalType, WorkerType
  <2> QED BY <2>1, <2>2, <2>3, <2>4 DEF AddedOnce, AddsNew, AddsDisjoint, Held
<1>6. CASE \/ HandleDebug \/ AddFailed \/ RemoveFailed \/ ReceiveProtocolError
           \/ ReceiveTransportError \/ SnapshotFailed \/ Exit
  <2>1. DropLink /\ pc' \notin {"add", "modify"}
    BY <1>6 DEF HandleDebug, AddFailed, NextMessage, RemoveFailed, ReceiveProtocolError,
      ReceiveTransportError, SnapshotFailed, Exit, DisconnectSocket
  <2> QED BY <2>1 DEF DropLink, AddedOnce, AddsNew, AddsDisjoint, Held
<1>7. CASE AddSent
  <2>1. /\ UNCHANGED <<server_queries, link, socket>> /\ socket
        /\ current \in Subs /\ add_pending[current] /\ pc = "add"
        /\ SendOkay(Modify(query_set_version, {current}, {}))
        /\ add_pending' = [add_pending EXCEPT ![current] = FALSE]
        /\ pc' \in {"receive", "remove"}
    BY <1>7 DEF AddSent, AddedOnce, TypeOK, WorkerType, NextMessage, SendOkay
  <2>2. \A q \in Subs : add_pending'[q] => add_pending[q] /\ q # current
    BY <2>1 DEF TypeOK, RemovalType
  <2>3. ~Held(current)
    BY <2>1 DEF AddedOnce
  <2>4. /\ \A q \in Subs : Held(q)' => Held(q) \/ q = current
        /\ link # "up" => c2s' = c2s
        /\ AddsNew' /\ AddsDisjoint'
    BY <2>1, <2>3, AddsWritten DEF AddedOnce
  <2> QED BY <2>1, <2>2, <2>4 DEF AddedOnce
<1>8. CASE RemoveSent
  <2>1. /\ UNCHANGED <<server_queries, link, socket, add_pending>> /\ socket
        /\ SendOkay(Modify(query_set_version, {}, {current}))
        /\ pc' = "receive" /\ pc = "remove"
    BY <1>8 DEF RemoveSent, SendOkay
  <2>2. /\ \A q \in Subs : Held(q)' => Held(q)
        /\ link # "up" => c2s' = c2s
        /\ AddsNew' /\ AddsDisjoint'
    BY <2>1, AddsWritten DEF AddedOnce
  <2> QED BY <2>1, <2>2 DEF AddedOnce
<1>9. CASE SnapshotSent
  <2>1. /\ UNCHANGED <<server_queries, link, socket>> /\ socket
        /\ snapshot \in SUBSET Subs
        /\ SendOkay(Modify(query_set_version, snapshot, {}))
        /\ add_pending' = [q \in Subs |-> add_pending[q] /\ ~Covered(q)]
        /\ pc' = "top" /\ pc = "modify"
    BY <1>9 DEF SnapshotSent, TypeOK, WorkerType, SendOkay
  <2>2. c2s = <<>> /\ server_queries = {}
    BY <2>1 DEF VersionInv, Attached, AddedOnce
  <2>3. \A q \in Subs : ~Held(q)
    BY <2>2 DEF Held
  <2>4. /\ \A q \in Subs : Held(q)' => q \in snapshot
        /\ link # "up" => c2s' = c2s
        /\ AddsNew' /\ AddsDisjoint'
    BY <2>1, <2>3, AddsWritten DEF AddedOnce
  <2>5. \A q \in snapshot : Covered(q)
    BY <2>1 DEF AddedOnce, Covered, add_sequence, Subs, TypeOK, WorkerType
  <2> QED BY <2>1, <2>2, <2>4, <2>5 DEF AddedOnce
<1>10. CASE Connected
  <2>1. /\ socket' /\ link' = "up" /\ c2s' = <<>> /\ server_queries' = {}
        /\ UNCHANGED <<add_pending, current>> /\ pc' \in {"modify", "top"}
        /\ pc' = "modify" => /\ snapshot' = {q \in Subs : Live(q)}
                             /\ snapshot_sequence' = next_query_id
    BY <1>10 DEF Connected
  <2>2. \A q \in Subs : Live(q) => q < next_query_id
    BY DEF Live, FeedInv, Untouched, Subs, TypeOK, ManagerType
  <2> QED BY <2>1, <2>2 DEF AddedOnce, AddsNew, AddsDisjoint, Held
<1>11. CASE ServerModify
  <2>1. /\ UNCHANGED <<add_pending, socket, pc, current>> /\ link' = "up" /\ socket /\ pc # "modify"
        /\ c2s # <<>> /\ c2s \in Seq(Modification) /\ c2s' = Tail(c2s)
        /\ server_queries' \subseteq server_queries \cup c2s[1].adds
    BY <1>11, ModifyAccepted DEF ServerModify
  <2>2. /\ 1 \in 1 .. Len(c2s)
        /\ \A k \in 1 .. Len(c2s') : k + 1 \in 1 .. Len(c2s) /\ c2s'[k] = c2s[k + 1] /\ 1 < k + 1
    BY <2>1, TailElements
  <2>3. \A q \in Subs : Held(q)' => Held(q)
    BY <2>1, <2>2 DEF Held
  <2>4. AddsNew'
    BY <2>1, <2>2 DEF AddedOnce, AddsNew, AddsDisjoint
  <2>5. AddsDisjoint'
    <3> SUFFICES ASSUME NEW j \in 1 .. Len(c2s'), NEW k \in 1 .. Len(c2s'), j < k
                 PROVE  c2s'[j].adds \cap c2s'[k].adds = {}
      BY DEF AddsDisjoint
    <3>1. j + 1 < k + 1
      OBVIOUS
    <3> QED BY <2>2, <3>1 DEF AddedOnce, AddsDisjoint
  <2> QED BY <2>1, <2>3, <2>4, <2>5 DEF AddedOnce
<1>12. CASE ServerPush
  BY <1>1, <1>12 DEF adding, AddedOnce, ServerPush
<1>13. CASE Break
  BY <1>13 DEF Break, AddedOnce, AddsNew, AddsDisjoint, Held
<1> QED BY <1>2, <1>3, <1>4, <1>5, <1>6, <1>7, <1>8, <1>9, <1>10, <1>11, <1>12, <1>13
  DEF Next, Worker, Application, Environment
-----------------------------------------------------------------------------
(* The queues.                                                              *)

(* What a queue may hold when the last result published is given: its       *)
(* results are in order, and none is newer.                                *)
Follows(u, v) == \/ u.at < v.at
                 \/ u.at = v.at /\ v.kind = "FunctionError"
InOrder(s, last) ==
  /\ \A i \in 1 .. Len(s) :
       s[i].kind \in ResultKinds => last # NoValue /\ s[i].at <= last
  /\ \A i, j \in 1 .. Len(s) :
       i < j /\ s[i].kind \in ResultKinds /\ s[j].kind \in ResultKinds => Follows(s[i], s[j])

(* Taking the oldest update keeps the order.                                *)
LEMMA TailInOrder ==
  ASSUME NEW s \in Queues, s # <<>>, NEW last, InOrder(s, last)
  PROVE  InOrder(Tail(s), last)
<1>1. s \in Seq(Updates)
  BY DEF Queues
<1>2. /\ Len(s) \in Nat /\ Len(Tail(s)) = Len(s) - 1
      /\ \A k \in 1 .. Len(Tail(s)) : k + 1 \in 1 .. Len(s) /\ Tail(s)[k] = s[k + 1]
  BY <1>1, TailElements
<1>3. \A i, j \in 1 .. Len(Tail(s)) : i < j => i + 1 < j + 1
  BY <1>2
<1> HIDE DEF Follows
<1> QED BY <1>2, <1>3 DEF InOrder

(* Putting an update in keeps it, unless it is a result that is older than  *)
(* the last one, or the same value again.                                  *)
LEMMA PushInOrder ==
  ASSUME NEW s \in Queues, NEW last \in Outcomes, InOrder(s, last), NEW u \in Updates,
         NEW next \in Outcomes,
         IF u.kind \in ResultKinds
         THEN /\ next = u.at /\ next # NoValue
              /\ last # NoValue => \/ last < next
                                   \/ last = next /\ u.kind = "FunctionError"
         ELSE next = last
  PROVE  InOrder(PushLatest(s, u), next)
<1> DEFINE t == IF Len(s) = Capacity THEN Tail(s) ELSE s
<1>1. t \in Queues /\ InOrder(t, last)
  <2>1. Len(s) = Capacity => s # <<>>
    BY BoundsAssumption DEF BoundsAssumption, Queues
  <2> QED BY <2>1, TailInOrder, TailQueueType
<1>2. PushLatest(s, u) = Append(t, u)
  BY DEF PushLatest
<1>3. \A i \in 1 .. Len(t) : t[i] \in Updates /\ t[i].at \in Nat
  <2>1. Times \subseteq Nat /\ NoValue \in Nat
    BY BoundsAssumption DEF BoundsAssumption, Times, NoValue
  <2>2. \A i \in 1 .. Len(t) : t[i] \in Updates
    BY <1>1 DEF Queues
  <2> QED BY <2>1, <2>2 DEF Updates
<1>4. last \in Nat /\ next \in Nat
  BY BoundsAssumption DEF BoundsAssumption, Outcomes, Times, NoValue
<1> HIDE DEF t
<1>5. /\ Len(t) \in Nat /\ Len(Append(t, u)) = Len(t) + 1
      /\ \A i \in 1 .. Len(t) : Append(t, u)[i] = t[i]
      /\ Append(t, u)[Len(t) + 1] = u
      /\ \A i \in 1 .. Len(t) + 1 : i \in 1 .. Len(t) \/ i = Len(t) + 1
  BY <1>1 DEF Queues
<1>6. \A i \in 1 .. Len(t) : t[i].kind \in ResultKinds =>
        /\ next # NoValue /\ t[i].at <= next
        /\ u.kind \in ResultKinds => Follows(t[i], u)
  BY <1>1, <1>3, <1>4 DEF InOrder, Follows
<1>7. \A i \in 1 .. Len(t) + 1 : Append(t, u)[i].kind \in ResultKinds =>
        next # NoValue /\ Append(t, u)[i].at <= next
  BY <1>4, <1>5, <1>6
<1>8. ASSUME NEW i \in 1 .. Len(t) + 1, NEW j \in 1 .. Len(t) + 1, i < j,
             Append(t, u)[i].kind \in ResultKinds, Append(t, u)[j].kind \in ResultKinds
      PROVE  Follows(Append(t, u)[i], Append(t, u)[j])
  <2>1. i \in 1 .. Len(t)
    BY <1>5, <1>8
  <2>2. CASE j = Len(t) + 1
    BY <1>5, <1>6, <1>8, <2>1, <2>2
  <2>3. CASE j \in 1 .. Len(t)
    BY <1>1, <1>5, <1>8, <2>1, <2>3 DEF InOrder
  <2> QED BY <1>5, <2>2, <2>3
<1> QED BY <1>2, <1>5, <1>7, <1>8 DEF InOrder

(* The two invariants of the queues, one queue at a time.                   *)
LEMMA QueuesInOrder ==
  QueuedBefore /\ DeliveredInOrder <=> \A q \in Subs : InOrder(queue[q], published[q])
BY DEF QueuedBefore, DeliveredInOrder, InOrder, Follows

(* A result that is delivered is newer than the last one published, or the  *)
(* same failure again: a value that only comes back after a reconnect is    *)
(* suppressed, and on one connection a Transition reports only changes.     *)
LEMMA DeliveredIsNewer ==
  ASSUME Everything, ReceiveTransition, NEW q \in Subs,
         q \in Published(Head(s2c).mods), published[q] # NoValue
  PROVE  \/ published[q] < Head(s2c).mods[q]
         \/ published[q] = Head(s2c).mods[q] /\ Head(s2c).mods[q] \in FailedAt
<1> USE DEF Everything, Context, OrderInv, CourseInv
<1>1. /\ 1 \in 1 .. Len(s2c) /\ Head(s2c) = s2c[1] /\ Answering(1) /\ s2c[1].start = remote
  BY Handled
<1> DEFINE at == s2c[1].mods[q]
<1>2. /\ Live(q) /\ Reports(1, q)
      /\ at \in FailedAt \/ ~(rehydrating[q] /\ last_value[q] = at)
  BY <1>1 DEF Published, Applies, Reports, Suppressed
<1>3. /\ published[q] \in Nat /\ at \in Nat /\ remote.ts \in Nat
      /\ published[q] \in Outcomes
  BY <1>1, Numbers, MessageTypes
<1>4. published[q] <= at
  BY <1>1, <1>2 DEF Truthful
<1> SUFFICES ASSUME published[q] = at, at \notin FailedAt PROVE FALSE
  BY <1>1, <1>3, <1>4
<1>5. last_value[q] = at
  BY <1>3 DEF CacheInv, Outcomes
<1>6. Answered(q)
  BY <1>2, <1>5 DEF Answered
<1>7. Told(q, 1)
  BY <1>6 DEF Told
<1>8. at > remote.ts
  BY <1>1, <1>2, <1>7 DEF Complete, Covers
<1>9. published[q] <= remote.ts
  BY <1>2, <1>6 DEF UpToDate
<1> QED BY <1>3, <1>8, <1>9

(* Every step keeps the queues in order.                                    *)
LEMMA QueueStep ==
  ASSUME Everything, [Next]_vars PROVE QueuedBefore' /\ DeliveredInOrder'
<1> USE DEF Everything, Context, OrderInv, removal, hydration, feed, subscriptions,
     versions, connecting, manager, worker, locals, data, wire, server, backend
<1> SUFFICES ASSUME NEW q \in Subs PROVE InOrder(queue'[q], published'[q])
  BY DEF QueuedBefore, DeliveredInOrder, InOrder, Follows
<1>0. /\ queue[q] \in Queues /\ published[q] \in Outcomes
      /\ InOrder(queue[q], published[q])
  BY QueuesInOrder DEF TypeOK, QueueType, FeedType
<1>1. ASSUME UNCHANGED <<queue[q], published[q]>> PROVE InOrder(queue'[q], published'[q])
  BY <1>0, <1>1
<1>2. CASE \/ EnsureLive \/ Close \/ CloseTimeout \/ UNCHANGED vars \/ Subscribe
           \/ \E p \in Subs : UnsubscribeWait(p) \/ Write(p) \/ Unsubscribe(p)
           \/ \E d \in Debuggers : DebugDisconnect(d) \/ DebugWait(d)
           \/ ServerModify \/ ServerPush \/ Break
  BY <1>1, <1>2 DEF EnsureLive, Close, CloseTimeout, vars, Subscribe, UnsubscribeWait, Write,
    Unsubscribe, DebugDisconnect, DebugWait, ServerModify, ServerPush, Break
<1>3. CASE \/ BeginExit \/ HandleDebug \/ Idle \/ PickMessage \/ AddSent \/ AddFailed
           \/ RemoveSent \/ RemoveFailed \/ Connected \/ DialFailed \/ SnapshotSent
           \/ SnapshotFailed \/ ReceiveNothing \/ ReceiveFragment \/ Exit
  BY <1>1, <1>3 DEF BeginExit, HandleDebug, Idle, PickMessage, AddSent, AddFailed,
    RemoveSent, RemoveFailed, Connected, DialFailed, SnapshotSent, SnapshotFailed,
    ReceiveNothing, ReceiveFragment, Exit
<1>4. ASSUME NEW p \in Subs, SubscriptionNext(p) PROVE InOrder(queue'[q], published'[q])
  <2>1. published' = published
    BY <1>4 DEF SubscriptionNext
  <2>2. queue'[q] = queue[q] \/ (queue[q] # <<>> /\ queue'[q] = Tail(queue[q]))
    BY <1>4 DEF SubscriptionNext, TypeOK, QueueType
  <2> QED BY <1>0, <2>1, <2>2, TailInOrder
<1>5. CASE CloseWait
  <2>1. published' = published /\ (queue'[q] = queue[q] \/ queue'[q] = <<>>)
    BY <1>5 DEF CloseWait
  <2>2. InOrder(<<>>, published[q])
    BY DEF InOrder
  <2> QED BY <1>0, <2>1, <2>2
<1>6. CASE ReceiveProtocolError \/ ReceiveTransportError
  <2>1. /\ published' = published
        /\ \/ queue'[q] = queue[q]
           \/ \E kind \in ErrorKinds : queue'[q] = PushLatest(queue[q], Update(kind, NoValue))
    BY <1>6 DEF ReceiveProtocolError, ReceiveTransportError, PublishError, ErrorKinds
  <2>2. ASSUME NEW kind \in ErrorKinds
        PROVE  InOrder(PushLatest(queue[q], Update(kind, NoValue)), published[q])
    <3>1. Update(kind, NoValue).kind \notin ResultKinds
      BY DEF Update, ErrorKinds, ResultKinds
    <3> QED BY <1>0, <3>1, ErrorUpdateType, PushInOrder
  <2> QED BY <1>0, <2>1, <2>2
<1>7. CASE ReceiveTransition
  <2> DEFINE m == Head(s2c)
  <2>1. HandleTransition(m) /\ m.mods \in [Subs -> Outcomes]
    BY <1>7, NextMessageType DEF ReceiveTransition, Readable, TypeOK
  <2> HIDE DEF m
  <2>2. CASE q \notin Published(m.mods)
    BY <1>1, <2>1, <2>2 DEF HandleTransition
  <2>3. CASE q \in Published(m.mods)
    <3>1. /\ queue'[q] = PushLatest(queue[q], ResultUpdate(m.mods[q]))
          /\ published'[q] = m.mods[q]
      BY <2>1, <2>3 DEF HandleTransition
    <3>2. m.mods[q] \in Outcomes /\ m.mods[q] # NoValue
      BY <2>1, <2>3 DEF Published, Applies
    <3>3. published[q] # NoValue =>
            \/ published[q] < m.mods[q]
            \/ published[q] = m.mods[q] /\ m.mods[q] \in FailedAt
      BY <1>7, <2>3, DeliveredIsNewer DEF m
    <3> DEFINE u == ResultUpdate(m.mods[q])
    <3>4. /\ u \in Updates /\ u.kind \in ResultKinds /\ u.at = m.mods[q]
          /\ m.mods[q] \in FailedAt => u.kind = "FunctionError"
      BY <3>2, ResultUpdateType DEF ResultUpdate, Update, ResultKinds
    <3> HIDE DEF u
    <3>5. InOrder(PushLatest(queue[q], u), m.mods[q])
      BY <1>0, <3>2, <3>3, <3>4, PushInOrder
    <3> QED BY <3>1, <3>5 DEF u
  <2> QED BY <2>2, <2>3
<1> QED BY <1>2, <1>3, <1>4, <1>5, <1>6, <1>7 DEF Next, Worker, Application, Environment
-----------------------------------------------------------------------------
(* All of it is inductive.                                                  *)
LEMMA OrderInvariant == Spec => []Everything
<1>1. Context /\ AddsInv /\ OrderInv /\ [Next]_vars => OrderInv'
  BY CourseStep, NewIdsStep, AddedOnceStep, QueueStep DEF Everything, OrderInv
<1>2. Spec => [](Context /\ AddsInv)
  BY AddsInvariant
<1> QED BY <1>1, <1>2, OrderInit, PTL DEF Spec, Everything

(* The queries answered on a connection show one commit of the database,    *)
(* whatever reconnects, failures and suppressed results came before.       *)
THEOREM OneSnapshot == Spec => []SnapshotConsistent
<1>1. Everything => SnapshotConsistent
  BY DEF Everything, OrderInv, CourseInv, UpToDate, Answered, SnapshotConsistent
<1> QED BY <1>1, OrderInvariant, PTL

(* No queue shows an older result behind a newer one, nor the same value    *)
(* twice, over any number of reconnects and overflows of the queue.        *)
THEOREM InOrderDelivery == Spec => []DeliveredInOrder
<1>1. Everything => DeliveredInOrder
  BY DEF Everything, OrderInv
<1> QED BY <1>1, OrderInvariant, PTL
=============================================================================
