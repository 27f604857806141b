------------------------------ MODULE LiveClient ------------------------------
(***************************************************************************)
(* The Live half of the C client (src/c/client/convex.c): one worker       *)
(* thread owns the WebSocket; application threads subscribe, wait for      *)
(* updates, unsubscribe, force a disconnect and close.  They meet in the   *)
(* manager's mutex and its two condition variables, changed and updates.   *)
(*                                                                         *)
(* A step of the model is what a thread does under one hold of the mutex,  *)
(* together with the socket operation that leads to it: dialling, writing  *)
(* and reading happen with the mutex released, touch only the worker's     *)
(* locals and the wire, and so commute with what the other threads do in   *)
(* between.  The backend is external: one Convex deployment that keeps the *)
(* query set of the connection and sends Transitions, on a link that may   *)
(* break and lose what is on it.  Clocks, wording, log lines and the       *)
(* telemetry of Connect other than connectionCount are left out; deadlines *)
(* and timers may or may not have passed.                                  *)
(***************************************************************************)
EXTENDS NewestQueue

CONSTANTS
  MaxSubs,        \* bound: subscriptions ever made; query ids are 0 .. MaxSubs-1
  MaxNow,         \* bound: writes committed by the backend
  FailedAt,       \* commits after which the written query fails
  MaxFaults,      \* bound: broken links, failed dials and writes, FatalErrors
  Debuggers,      \* threads that may call convex_debug_disconnect
  MaxDebug,       \* bound: calls of convex_debug_disconnect
  Fragments,      \* TRUE when the backend sends fragmented text messages
  Readers,        \* the subscriptions whose application waits for updates
  MayClose        \* TRUE when the application may call convex_close

ASSUME BoundsAssumption ==
  /\ MaxSubs \in Nat \ {0}
  /\ Capacity \in Nat \ {0}
  /\ MaxNow \in Nat
  /\ MaxFaults \in Nat
  /\ MaxDebug \in Nat
  /\ Fragments \in BOOLEAN
  /\ MayClose \in BOOLEAN

Subs == 0 .. MaxSubs - 1
None == MaxSubs                \* no subscription
NoValue == MaxNow + 1          \* has_last_value = 0, and "not in this Transition"
Times == 0 .. MaxNow
InitialVersion == [querySet |-> 0, ts |-> 0]

VARIABLES
  \* convex_subscription, one component per query_id
  active, add_pending, remove_pending, remove_done, rehydrating, last_value,
  queue,
  \* live_manager
  next_query_id, query_set_version, remote, connection_count, closing, stopped,
  debug_requested, connected, debug_generation, debug_completed, socket,
  \* the worker: program counter and locals
  pc, current, snapshot, snapshot_sequence, receive_state,
  \* the application threads
  subscriber, unsubscriber, reader, debugger, debug_wait, closer,
  \* the link and the backend
  link, c2s, s2c, server_version, server_queries, now, result, faults,
  \* history, for the properties
  published,      \* the last result put in the subscription's queue
  errored,        \* an error update was put in the queue after it
  dials,          \* calls of connect_socket
  debug_conn      \* dials at the time of a convex_debug_disconnect

removal       == <<active, remove_pending, remove_done>>
hydration     == <<rehydrating, last_value>>
feed          == <<queue, published, errored>>
versions      == <<query_set_version, remote>>
counts        == <<connection_count, dials>>
lifecycle     == <<closing, stopped>>
debugging     == <<debug_requested, debug_generation, debug_completed>>
connecting    == <<socket, connected>>
locals        == <<current, snapshot, snapshot_sequence>>
waiters       == <<unsubscriber, debugger, closer>>
debugCalls    == <<debug_wait, debug_conn>>
wire          == <<link, c2s, s2c>>
server        == <<server_version, server_queries>>
data          == <<now, result>>
subscriptions == <<removal, add_pending, hydration, feed, next_query_id>>
manager       == <<versions, counts, lifecycle, debugging, connecting>>
worker        == <<pc, locals, receive_state>>
threads       == <<subscriber, waiters, reader, debugCalls>>
backend       == <<server, data, faults>>

vars == <<subscriptions, manager, worker, threads, wire, backend>>
-----------------------------------------------------------------------------
(* Updates and wire messages.  A query result is named by the commit that   *)
(* produced it; FailedAt says which of them are failures.                   *)
Update(kind, at) == [kind |-> kind, at |-> at]
ResultKinds == {"value", "FunctionError"}
ErrorKinds == {"TransportError", "ProtocolError"}
ResultUpdate(at) == Update(IF at \in FailedAt THEN "FunctionError" ELSE "value", at)
Updates == [kind : ResultKinds \cup ErrorKinds, at : Times \cup {NoValue}]

(* Definitions whose name starts with Slip are not part of the model: each  *)
(* is a plausible mistake in the definition below it, kept to show which   *)
(* property notices it.                                                    *)
SlipRemoveAsAdd(base, adds, removes) ==
  [base |-> base, adds |-> adds \cup removes, removes |-> {}]
Modify(base, adds, removes) ==
  [base |-> base, adds |-> adds, removes |-> removes]
Transition(start, end, mods) ==
  [type |-> "Transition", start |-> start, end |-> end, mods |-> mods]
FatalError == [type |-> "FatalError", start |-> InitialVersion,
               end |-> InitialVersion, mods |-> [q \in Subs |-> NoValue]]

Live(q) == active[q] /\ ~remove_pending[q]
active_count == \E q \in Subs : Live(q)
add_sequence(q) == q + 1       \* both counters advance under one hold of the mutex

(* The loops over the LIFO list stop at its first match: the newest query id. *)
Newest(q, S) == q \in S /\ \A p \in S : p <= q
PendingAdds == {q \in Subs : Live(q) /\ add_pending[q]}
PendingRemoves == {q \in Subs : remove_pending[q] /\ ~remove_done[q]}

(* A broadcast wakes every thread asleep on the condition variable: changed *)
(* for convex_unsubscribe, convex_debug_disconnect and convex_close,       *)
(* updates for convex_subscription_next.                                   *)
Awakened(state) ==
  [t \in DOMAIN state |-> IF state[t] = "asleep" THEN "awake" ELSE state[t]]
SlipCloserAsleep == closer' = closer
WakeCloser == closer' = IF closer = "asleep" THEN "awake" ELSE closer
SlipWakeOne ==
  /\ IF closer = "asleep" THEN WakeCloser /\ UNCHANGED debugger
     ELSE debugger' = Awakened(debugger) /\ UNCHANGED closer
  /\ UNCHANGED unsubscriber
WakeChanged == /\ unsubscriber' = Awakened(unsubscriber)
               /\ debugger' = Awakened(debugger)
               /\ WakeCloser
SlipWakeNoReader == reader' = reader
WakeUpdates == reader' = Awakened(reader)
-----------------------------------------------------------------------------
Init ==
  /\ active = [q \in Subs |-> FALSE]
  /\ add_pending = [q \in Subs |-> FALSE]
  /\ remove_pending = [q \in Subs |-> FALSE]
  /\ remove_done = [q \in Subs |-> FALSE]
  /\ rehydrating = [q \in Subs |-> FALSE]
  /\ last_value = [q \in Subs |-> NoValue]
  /\ queue = [q \in Subs |-> <<>>]
  /\ next_query_id = 0
  /\ query_set_version = 0
  /\ remote = InitialVersion
  /\ connection_count = 0
  /\ closing = FALSE /\ stopped = FALSE
  /\ debug_requested = FALSE /\ debug_generation = 0 /\ debug_completed = 0
  /\ socket = FALSE /\ connected = FALSE
  /\ pc = "top" /\ current = None /\ snapshot = {} /\ snapshot_sequence = 0
  /\ receive_state = "empty"
  /\ subscriber = "idle"
  /\ unsubscriber = [q \in Subs |-> "idle"]
  /\ reader = [q \in Subs |-> "idle"]
  /\ debugger = [d \in Debuggers |-> "idle"]
  /\ debug_wait = [d \in Debuggers |-> 0]
  /\ debug_conn = [d \in Debuggers |-> 0]
  /\ closer = "idle"
  /\ link = "none" /\ c2s = <<>> /\ s2c = <<>>
  /\ server_version = InitialVersion /\ server_queries = {}
  /\ now = 0 /\ result = [q \in Subs |-> 0]
  /\ faults = 0
  /\ published = [q \in Subs |-> NoValue]
  /\ errored = [q \in Subs |-> FALSE]
  /\ dials = 0
-----------------------------------------------------------------------------
(* The application threads.                                                *)

(* convex_subscribe: ensure_live looks at client->closed without the mutex, *)
(* the subscription is linked in under it.                                 *)
EnsureLive ==
  /\ subscriber = "idle" /\ ~closing /\ next_query_id < MaxSubs
  /\ subscriber' = "admitted"
  /\ UNCHANGED <<subscriptions, manager, worker, waiters, reader, debugCalls,
                 wire, backend>>

Subscribe ==
  LET q == next_query_id IN
  /\ subscriber = "admitted"
  /\ subscriber' = "idle"
  /\ next_query_id' = q + 1
  /\ active' = [active EXCEPT ![q] = TRUE]
  /\ add_pending' = [add_pending EXCEPT ![q] = TRUE]
  /\ reader' = IF q \in Readers THEN [reader EXCEPT ![q] = "awake"] ELSE reader
  /\ WakeChanged
  /\ UNCHANGED <<remove_pending, remove_done, hydration, feed, manager,
                 worker, debugCalls, wire, backend>>

(* convex_unsubscribe: request the Remove, then sleep until the worker has  *)
(* completed it or has stopped.                                            *)
Unsubscribe(q) ==
  /\ q < next_query_id /\ unsubscriber[q] = "idle"
  /\ IF active[q]
     THEN /\ remove_pending' = [remove_pending EXCEPT ![q] = TRUE]
          /\ unsubscriber' = [Awakened(unsubscriber) EXCEPT ![q] = "awake"]
          /\ debugger' = Awakened(debugger)
          /\ WakeCloser
     ELSE /\ unsubscriber' = [unsubscriber EXCEPT ![q] = "done"]
          /\ UNCHANGED <<remove_pending, debugger, closer>>
  /\ UNCHANGED <<active, remove_done, add_pending, hydration, feed,
                 next_query_id, manager, worker, subscriber, reader,
                 debugCalls, wire, backend>>

UnsubscribeWait(q) ==
  /\ unsubscriber[q] = "awake"
  /\ unsubscriber' = [unsubscriber EXCEPT ![q] =
       IF remove_done[q] THEN "done" ELSE IF stopped THEN "failed" ELSE "asleep"]
  /\ UNCHANGED <<subscriptions, manager, worker, subscriber, reader,
                 debugger, closer, debugCalls, wire, backend>>

(* convex_subscription_next, called again and again by one reader: take the *)
(* oldest update, sleep when there is none, give up once none can come.    *)
SubscriptionNext(q) ==
  /\ reader[q] = "awake"
  /\ IF queue[q] # <<>>
     THEN queue' = [queue EXCEPT ![q] = Tail(queue[q])] /\ UNCHANGED reader
     ELSE /\ reader' = [reader EXCEPT ![q] =
                          IF active[q] /\ ~stopped THEN "asleep" ELSE "ended"]
          /\ UNCHANGED queue
  /\ UNCHANGED <<removal, add_pending, hydration, published, errored,
                 next_query_id, manager, worker, subscriber, waiters,
                 debugCalls, wire, backend>>

(* convex_debug_disconnect: refused when not connected, else ask the worker *)
(* and sleep until it has completed this generation or has stopped.        *)
DebugDisconnect(d) ==
  /\ debugger[d] = "idle" /\ connected /\ debug_generation < MaxDebug
  /\ debug_generation' = debug_generation + 1
  /\ debug_requested' = TRUE
  /\ debug_wait' = [debug_wait EXCEPT ![d] = debug_generation + 1]
  /\ debug_conn' = [debug_conn EXCEPT ![d] = dials]
  /\ debugger' = [Awakened(debugger) EXCEPT ![d] = "awake"]
  /\ unsubscriber' = Awakened(unsubscriber)
  /\ WakeCloser
  /\ UNCHANGED <<subscriptions, versions, counts, lifecycle, debug_completed,
                 connecting, worker, subscriber, reader, wire, backend>>

SlipAcknowledged(d) == debug_generation >= debug_wait[d]
Acknowledged(d) == debug_completed >= debug_wait[d]

DebugWait(d) ==
  /\ debugger[d] = "awake"
  /\ IF Acknowledged(d) \/ stopped
     THEN /\ debugger' = [debugger EXCEPT ![d] = "idle"]
          /\ debug_wait' = [debug_wait EXCEPT ![d] = 0]
          /\ debug_conn' = [debug_conn EXCEPT ![d] = 0]
     ELSE /\ debugger' = [debugger EXCEPT ![d] = "asleep"]
          /\ UNCHANGED debugCalls
  /\ UNCHANGED <<subscriptions, manager, worker, subscriber, unsubscriber,
                 reader, closer, wire, backend>>

(* convex_close: ask the worker to exit and sleep until it has stopped; the *)
(* caller whose timeout expires is told so and may call again.  Afterwards *)
(* every queue is released.                                                *)
Close ==
  /\ MayClose /\ closer = "idle"
  /\ closing' = TRUE
  /\ closer' = "awake"
  /\ unsubscriber' = Awakened(unsubscriber)
  /\ debugger' = Awakened(debugger)
  /\ UNCHANGED <<subscriptions, versions, counts, stopped, debugging,
                 connecting, worker, subscriber, reader, debugCalls, wire,
                 backend>>

CloseWait ==
  /\ closer = "awake"
  /\ IF stopped
     THEN closer' = "closed" /\ queue' = [q \in Subs |-> <<>>]
     ELSE closer' = "asleep" /\ UNCHANGED queue
  /\ UNCHANGED <<removal, add_pending, hydration, published, errored,
                 next_query_id, manager, worker, subscriber, unsubscriber,
                 reader, debugger, debugCalls, wire, backend>>

CloseTimeout ==
  /\ closer = "asleep"
  /\ closer' = "idle"
  /\ UNCHANGED <<subscriptions, manager, worker, subscriber, unsubscriber,
                 reader, debugger, debugCalls, wire, backend>>
-----------------------------------------------------------------------------
(* The worker.  Each action is one hold of the mutex in live_worker or in a *)
(* function it calls.                                                      *)

DropLink == /\ link' = "none" /\ c2s' = <<>> /\ s2c' = <<>>
            /\ server_version' = InitialVersion /\ server_queries' = {}

(* disconnect_socket_locked.  It is also called when the socket is already  *)
(* gone, and it does not touch the message being assembled.                *)
SlipKeepsBase ==
  /\ socket' = FALSE /\ connected' = FALSE
  /\ connection_count' = connection_count + 1
  /\ UNCHANGED query_set_version /\ remote' = InitialVersion
  /\ rehydrating' = [q \in Subs |-> rehydrating[q] \/ Live(q)]
  /\ DropLink
SlipKeepsRemote ==
  /\ socket' = FALSE /\ connected' = FALSE
  /\ connection_count' = connection_count + 1
  /\ query_set_version' = 0 /\ UNCHANGED remote
  /\ rehydrating' = [q \in Subs |-> rehydrating[q] \/ Live(q)]
  /\ DropLink
DisconnectSocket ==
  /\ socket' = FALSE /\ connected' = FALSE
  /\ connection_count' = connection_count + 1
  /\ query_set_version' = 0 /\ remote' = InitialVersion
  /\ rehydrating' = [q \in Subs |-> rehydrating[q] \/ Live(q)]
  /\ DropLink
Leftover == IF receive_state = "partial" THEN "stale" ELSE receive_state

(* With no socket a requested Remove is complete at once. *)
CompleteRemoves ==
  /\ active' = [q \in Subs |-> active[q] /\ q \notin PendingRemoves]
  /\ remove_done' = [q \in Subs |-> remove_done[q] \/ q \in PendingRemoves]
  /\ IF PendingRemoves = {} THEN UNCHANGED reader ELSE WakeUpdates

BeginExit ==
  /\ pc = "top" /\ closing
  /\ pc' = "exit"
  /\ UNCHANGED <<subscriptions, manager, locals, receive_state, threads,
                 wire, backend>>

(* One disconnect answers every convex_debug_disconnect asked so far. *)
SlipOneGeneration == debug_completed + 1
AnsweredGeneration == debug_generation

HandleDebug ==
  /\ pc = "top" /\ ~closing /\ debug_requested
  /\ debug_requested' = FALSE
  /\ debug_completed' = AnsweredGeneration
  /\ DisconnectSocket
  /\ receive_state' = Leftover
  /\ CompleteRemoves
  /\ WakeChanged
  /\ UNCHANGED <<remove_pending, add_pending, last_value, feed,
                 next_query_id, dials, lifecycle, debug_generation, pc,
                 locals, subscriber, debugCalls, data, faults>>

(* No socket: complete the Removes, then dial if some subscription wants it *)
(* and the backoff has passed, else wait on changed for 20 ms.             *)
Idle ==
  /\ pc = "top" /\ ~closing /\ ~debug_requested /\ ~socket
  /\ CompleteRemoves
  /\ IF PendingRemoves = {} THEN UNCHANGED <<waiters>>
                            ELSE WakeChanged
  /\ pc' \in {"top"} \cup (IF active_count THEN {"dial"} ELSE {})
  /\ UNCHANGED <<remove_pending, add_pending, hydration, feed, next_query_id,
                 manager, locals, receive_state, subscriber, debugCalls,
                 wire, backend>>

(* With a socket: one pending Add, else one pending Remove, else receive.   *)
(* The message is built before the mutex is released, and written after.   *)
PickMessage ==
  /\ pc = "top" /\ ~closing /\ ~debug_requested /\ socket
  /\ \/ /\ \E q \in Subs : Newest(q, PendingAdds) /\ current' = q
        /\ pc' = "add"
     \/ /\ PendingAdds = {}
        /\ \E q \in Subs : Newest(q, PendingRemoves) /\ current' = q
        /\ pc' = "remove"
     \/ /\ PendingAdds = {} /\ PendingRemoves = {}
        /\ pc' = "receive" /\ current' = None
  /\ UNCHANGED <<subscriptions, manager, snapshot, snapshot_sequence,
                 receive_state, threads, wire, backend>>

(* ws_send_json: the whole message gets onto the wire, or the send fails:   *)
(* the link is broken, the peer stalls for LIVE_SEND_TIMEOUT_MS, there is   *)
(* no socket, or send_cancelled says so.  Without a socket the code hands  *)
(* curl_ws_send a NULL handle; that libcurl refuses it is an assumption.   *)
SendOkay(message) ==
  /\ socket
  /\ c2s' = IF link = "up" THEN Append(c2s, message) ELSE c2s
SendFails(cancelled) ==
  \/ /\ cancelled \/ ~socket \/ link = "broken"
     /\ UNCHANGED faults
  \/ /\ faults < MaxFaults
     /\ faults' = faults + 1

(* After an Add the same hold of the mutex looks for a Remove to send, even *)
(* when the Add has just failed and the socket is gone.                    *)
NextMessage(otherwise) ==
  IF PendingRemoves = {} THEN pc' = otherwise /\ current' = None
  ELSE pc' = "remove" /\ \E q \in Subs : Newest(q, PendingRemoves) /\ current' = q

AddSent ==
  /\ pc = "add"
  /\ SendOkay(Modify(query_set_version, {current}, {}))
  /\ query_set_version' = query_set_version + 1
  /\ add_pending' = [add_pending EXCEPT ![current] = FALSE]
  /\ NextMessage("receive")
  /\ UNCHANGED <<removal, hydration, feed, next_query_id, remote, counts,
                 lifecycle, debugging, connecting, snapshot,
                 snapshot_sequence, receive_state, threads, link, s2c,
                 backend>>

AddFailed ==
  /\ pc = "add"
  /\ SendFails(closing \/ remove_pending[current])
  /\ DisconnectSocket
  /\ receive_state' = Leftover
  /\ NextMessage("top")
  /\ UNCHANGED <<removal, add_pending, last_value, feed, next_query_id,
                 dials, lifecycle, debugging, snapshot, snapshot_sequence,
                 threads, data>>

RemoveSent ==
  /\ pc = "remove"
  /\ SendOkay(Modify(query_set_version, {}, {current}))
  /\ query_set_version' = query_set_version + 1
  /\ active' = [active EXCEPT ![current] = FALSE]
  /\ remove_done' = [remove_done EXCEPT ![current] = TRUE]
  /\ WakeChanged /\ WakeUpdates
  /\ pc' = "receive" /\ current' = None
  /\ UNCHANGED <<remove_pending, add_pending, hydration, feed, next_query_id,
                 remote, counts, lifecycle, debugging, connecting, snapshot,
                 snapshot_sequence, receive_state, subscriber, debugCalls,
                 link, s2c, backend>>

RemoveFailed ==
  /\ pc = "remove"
  /\ SendFails(closing)
  /\ DisconnectSocket
  /\ receive_state' = Leftover
  /\ pc' = "top" /\ current' = None
  /\ UNCHANGED <<removal, add_pending, last_value, feed, next_query_id,
                 dials, lifecycle, debugging, snapshot, snapshot_sequence,
                 threads, data>>

(* connect_socket: dial and send Connect; under the mutex capture the Adds  *)
(* of every live subscription and the sequence number up to which they are *)
(* covered; send them; clear add_pending up to that number.                *)
Connected ==
  /\ pc = "dial"
  /\ dials' = dials + 1
  /\ socket' = TRUE
  /\ link' = "up" /\ c2s' = <<>> /\ s2c' = <<>>
  /\ server_version' = InitialVersion /\ server_queries' = {}
  /\ IF active_count
     THEN /\ snapshot' = {q \in Subs : Live(q)}
          /\ snapshot_sequence' = next_query_id
          /\ pc' = "modify"
          /\ UNCHANGED <<connected, waiters>>
     ELSE /\ connected' = TRUE /\ WakeChanged
          /\ pc' = "top"
          /\ UNCHANGED <<snapshot, snapshot_sequence>>
  /\ UNCHANGED <<subscriptions, versions, connection_count, lifecycle,
                 debugging, current, receive_state, subscriber, reader,
                 debugCalls, data, faults>>

DialFailed ==
  /\ pc = "dial"
  /\ \/ closing /\ UNCHANGED faults
     \/ faults < MaxFaults /\ faults' = faults + 1
  /\ dials' = dials + 1
  /\ connection_count' = connection_count + 1
  /\ pc' = "top"
  /\ UNCHANGED <<subscriptions, versions, lifecycle, debugging, connecting,
                 locals, receive_state, threads, wire, server, data>>

SlipAllCovered(q) == TRUE
Covered(q) == add_sequence(q) <= snapshot_sequence

SnapshotSent ==
  /\ pc = "modify"
  /\ SendOkay(Modify(query_set_version, snapshot, {}))
  /\ query_set_version' = 1
  /\ add_pending' = [q \in Subs |-> add_pending[q] /\ ~Covered(q)]
  /\ connected' = TRUE
  /\ WakeChanged
  /\ pc' = "top" /\ snapshot' = {} /\ snapshot_sequence' = 0
  /\ UNCHANGED <<removal, hydration, feed, next_query_id, remote, counts,
                 lifecycle, debugging, socket, current, receive_state,
                 subscriber, reader, debugCalls, link, s2c, backend>>

SnapshotFailed ==
  /\ pc = "modify"
  /\ SendFails(closing)
  /\ socket' = FALSE
  /\ connection_count' = connection_count + 1
  /\ DropLink
  /\ pc' = "top" /\ snapshot' = {} /\ snapshot_sequence' = 0
  /\ UNCHANGED <<subscriptions, versions, dials, lifecycle, debugging,
                 connected, current, receive_state, threads, data>>

(* receive_message.  One fragment of the next message may arrive by itself; *)
(* it is kept in receive_state until the rest is read.                     *)
Readable == s2c # <<>>

ReceiveNothing ==
  /\ pc = "receive" /\ ~Readable /\ link = "up"
  /\ pc' = "top"
  /\ UNCHANGED <<subscriptions, manager, locals, receive_state, threads,
                 wire, backend>>

ReceiveFragment ==
  /\ Fragments /\ pc = "receive" /\ Readable /\ receive_state = "empty"
  /\ receive_state' = "partial"
  /\ pc' \in {"receive", "top"}
  /\ UNCHANGED <<subscriptions, manager, locals, threads, wire, backend>>

(* handle_transition on modification at of query q: nothing for a query     *)
(* that is unknown, inactive or about to be removed; a value equal to the  *)
(* last one is suppressed when it only rehydrates the query.               *)
SlipAppliesRemoving(q, mods) == mods[q] # NoValue /\ active[q]
Applies(q, mods) == mods[q] # NoValue /\ Live(q)
SlipSuppressNothing(q, at) == FALSE
SlipSuppressChanged(q, at) == rehydrating[q] /\ last_value[q] # NoValue
Suppressed(q, at) == rehydrating[q] /\ last_value[q] = at
Published(mods) ==
  {q \in Subs : Applies(q, mods)
                /\ (mods[q] \in FailedAt \/ ~Suppressed(q, mods[q]))}

CachedValue(at) == IF at \in FailedAt THEN NoValue ELSE at

HandleTransition(m) ==
  LET delivered == Published(m.mods)
      applied   == {q \in Subs : Applies(q, m.mods)} IN
  /\ last_value' = [q \in Subs |-> IF q \in applied THEN CachedValue(m.mods[q])
                                   ELSE last_value[q]]
  /\ rehydrating' = [q \in Subs |-> rehydrating[q] /\ q \notin applied]
  /\ queue' = [q \in Subs |-> IF q \in delivered
                              THEN PushLatest(queue[q], ResultUpdate(m.mods[q]))
                              ELSE queue[q]]
  /\ published' = [q \in Subs |-> IF q \in delivered THEN m.mods[q]
                                  ELSE published[q]]
  /\ errored' = [q \in Subs |-> errored[q] /\ q \notin delivered]
  /\ remote' = m.end
  /\ IF delivered = {} THEN UNCHANGED reader ELSE WakeUpdates

(* The start version must be the version this connection has reached.      *)
Continues(m) == m.type = "Transition" /\ m.start = remote

ReceiveTransition ==
  /\ pc = "receive" /\ Readable
  /\ receive_state # "stale" /\ Continues(Head(s2c))
  /\ HandleTransition(Head(s2c))
  /\ s2c' = Tail(s2c)
  /\ receive_state' = "empty"
  /\ pc' = "top"
  /\ UNCHANGED <<removal, add_pending, next_query_id, query_set_version,
                 counts, lifecycle, debugging, connecting, locals,
                 subscriber, waiters, debugCalls, link, c2s, backend>>

(* publish_error_locked: to the given subscriptions, then drop the socket.  *)
PublishError(kind, subs) ==
  /\ queue' = [q \in Subs |-> IF q \in subs
                              THEN PushLatest(queue[q], Update(kind, NoValue))
                              ELSE queue[q]]
  /\ errored' = [q \in Subs |-> errored[q] \/ q \in subs]
  /\ WakeUpdates

(* Bytes left over from an earlier connection make the first message of     *)
(* this one undecodable; FatalError and a Transition that does not continue *)
(* the current version are the other protocol errors.                      *)
ReceiveProtocolError ==
  /\ pc = "receive" /\ Readable
  /\ receive_state = "stale" \/ ~Continues(Head(s2c))
  /\ PublishError("ProtocolError", {q \in Subs : Live(q)})
  /\ DisconnectSocket
  /\ receive_state' = "empty"
  /\ pc' = "top"
  /\ UNCHANGED <<removal, add_pending, last_value, published, next_query_id,
                 dials, lifecycle, debugging, locals, subscriber, waiters,
                 debugCalls, data, faults>>

ReceiveTransportError ==
  /\ pc = "receive" /\ link = "broken"
  /\ IF closing \/ debug_requested
     THEN UNCHANGED <<queue, errored, reader>>
     ELSE PublishError("TransportError",
                       {q \in Subs : Live(q) /\ ~add_pending[q]})
  /\ DisconnectSocket
  /\ receive_state' = "empty"
  /\ pc' = "top"
  /\ UNCHANGED <<removal, add_pending, last_value, published, next_query_id,
                 dials, lifecycle, debugging, locals, subscriber, waiters,
                 debugCalls, data, faults>>

Exit ==
  /\ pc = "exit"
  /\ pc' = "done"
  /\ socket' = FALSE
  /\ DropLink
  /\ stopped' = TRUE
  /\ active' = [q \in Subs |-> FALSE]
  /\ WakeChanged /\ WakeUpdates
  /\ UNCHANGED <<remove_pending, remove_done, add_pending, hydration, feed,
                 next_query_id, versions, counts, closing, debugging,
                 connected, locals, receive_state, subscriber, debugCalls,
                 data, faults>>
-----------------------------------------------------------------------------
(* The backend (external).  It applies each ModifyQuerySet whose base is    *)
(* the version it is at, answers with the results of the queries added,    *)
(* and later sends the results that have changed since its last Transition. *)
ResultsOf(queries) ==
  [q \in Subs |-> IF q \in queries THEN result[q] ELSE NoValue]

ServerModify ==
  LET m == Head(c2s)
      new == [querySet |-> server_version.querySet + 1, ts |-> now]
      known == (server_queries \cup m.adds) \ m.removes
  IN /\ link = "up" /\ c2s # <<>>
     /\ IF m.base = server_version.querySet
        THEN /\ s2c' = Append(s2c, Transition(server_version, new, ResultsOf(
                  m.adds \cup {q \in known : result[q] > server_version.ts})))
             /\ server_version' = new
             /\ server_queries' = known
             /\ UNCHANGED link
        ELSE /\ s2c' = Append(s2c, FatalError)
             /\ link' = "broken"
             /\ UNCHANGED server
     /\ c2s' = Tail(c2s)
     /\ UNCHANGED <<subscriptions, manager, worker, threads, data, faults>>

ServerPush ==
  /\ link = "up" /\ server_version.ts < now
  /\ \E q \in server_queries : result[q] > server_version.ts
  /\ s2c' = Append(s2c, Transition(server_version, [server_version EXCEPT !.ts = now],
              ResultsOf({q \in server_queries : result[q] > server_version.ts})))
  /\ server_version' = [server_version EXCEPT !.ts = now]
  /\ UNCHANGED <<subscriptions, manager, worker, threads, link, c2s,
                 server_queries, data, faults>>

(* A mutation by somebody commits and changes the result of query q. *)
Write(q) ==
  /\ now < MaxNow
  /\ now' = now + 1
  /\ result' = [result EXCEPT ![q] = now + 1]
  /\ UNCHANGED <<subscriptions, manager, worker, threads, wire, server,
                 faults>>

(* The link breaks, or the backend gives up with a FatalError; what it had  *)
(* sent may still be read, what it had not read is lost.                   *)
Break ==
  /\ link = "up" /\ faults < MaxFaults
  /\ faults' = faults + 1
  /\ link' = "broken" /\ c2s' = <<>>
  /\ s2c' \in {s2c, Append(s2c, FatalError)}
  /\ UNCHANGED <<subscriptions, manager, worker, threads, server, data>>
-----------------------------------------------------------------------------
Worker == \/ BeginExit \/ HandleDebug \/ Idle \/ PickMessage
          \/ AddSent \/ AddFailed \/ RemoveSent \/ RemoveFailed
          \/ Connected \/ DialFailed \/ SnapshotSent \/ SnapshotFailed
          \/ ReceiveNothing \/ ReceiveFragment \/ ReceiveTransition
          \/ ReceiveProtocolError \/ ReceiveTransportError \/ Exit
Application == \/ EnsureLive \/ Subscribe
               \/ \E q \in Subs : Unsubscribe(q)
               \/ \E q \in Subs : UnsubscribeWait(q)
               \/ \E q \in Subs : SubscriptionNext(q)
               \/ \E d \in Debuggers : DebugDisconnect(d)
               \/ \E d \in Debuggers : DebugWait(d)
               \/ Close \/ CloseWait \/ CloseTimeout
Environment == \/ ServerModify \/ ServerPush \/ Break
               \/ \E q \in Subs : Write(q)

Next == Worker \/ Application \/ Environment

Spec == Init /\ [][Next]_vars

(* The operating system runs every thread that is not asleep, readers call  *)
(* convex_subscription_next again, and the backend answers.                *)
Fairness ==
  /\ WF_vars(Worker)
  /\ WF_vars(Subscribe)
  /\ \A q \in Subs : WF_vars(UnsubscribeWait(q)) /\ WF_vars(SubscriptionNext(q))
  /\ \A d \in Debuggers : WF_vars(DebugWait(d))
  /\ WF_vars(CloseWait)
  /\ WF_vars(ServerModify) /\ WF_vars(ServerPush)

FairSpec == Spec /\ Fairness
-----------------------------------------------------------------------------
(* Types.  Every queue holds at most Capacity updates, subscription threads *)
(* are admitted only while a query id is left, and the worker names a      *)
(* subscription while it writes an Add or a Remove.                        *)
Version == [querySet : Nat, ts : Times]
Outcomes == Times \cup {NoValue}
Message == [type : {"Transition", "FatalError"}, start : Version, end : Version,
            mods : [Subs -> Outcomes]]
Queues == {s \in Seq(Updates) : Len(s) <= Capacity}
Modification == [base : Nat, adds : SUBSET Subs, removes : SUBSET Subs]

RemovalType == /\ active \in [Subs -> BOOLEAN]
               /\ remove_pending \in [Subs -> BOOLEAN]
               /\ remove_done \in [Subs -> BOOLEAN]
               /\ add_pending \in [Subs -> BOOLEAN]
FeedType == /\ rehydrating \in [Subs -> BOOLEAN]
            /\ last_value \in [Subs -> Outcomes]
            /\ published \in [Subs -> Outcomes]
            /\ errored \in [Subs -> BOOLEAN]
QueueType == queue \in [Subs -> Queues]
ManagerType == /\ next_query_id \in 0 .. MaxSubs
               /\ query_set_version \in Nat
               /\ remote \in Version
               /\ connection_count \in Nat /\ dials \in Nat
FlagType == /\ closing \in BOOLEAN /\ stopped \in BOOLEAN
            /\ socket \in BOOLEAN /\ connected \in BOOLEAN
DebugType == /\ debug_requested \in BOOLEAN
             /\ debug_generation \in 0 .. MaxDebug
             /\ debug_completed \in 0 .. MaxDebug
             /\ debug_wait \in [Debuggers -> 0 .. MaxDebug]
             /\ debug_conn \in [Debuggers -> Nat]
WorkerType == /\ pc \in {"top", "add", "remove", "dial", "modify", "receive",
                         "exit", "done"}
              /\ current \in Subs \cup {None}
              /\ pc \in {"add", "remove"} => current \in Subs
              /\ snapshot \subseteq Subs
              /\ snapshot_sequence \in 0 .. MaxSubs
              /\ receive_state \in {"empty", "partial", "stale"}
ThreadType ==
  /\ subscriber \in {"idle", "admitted"}
  /\ subscriber = "admitted" => next_query_id < MaxSubs
  /\ unsubscriber \in [Subs -> {"idle", "awake", "asleep", "done", "failed"}]
  /\ reader \in [Subs -> {"idle", "awake", "asleep", "ended"}]
  /\ debugger \in [Debuggers -> {"idle", "awake", "asleep"}]
  /\ closer \in {"idle", "awake", "asleep", "closed"}
WireType == /\ link \in {"none", "up", "broken"}
            /\ c2s \in Seq(Modification)
            /\ s2c \in Seq(Message)
ServerType == /\ server_version \in Version
              /\ server_queries \subseteq Subs
              /\ now \in Times
              /\ result \in [Subs -> Times]
              /\ faults \in 0 .. MaxFaults

TypeOK == /\ RemovalType /\ FeedType /\ QueueType /\ ManagerType /\ FlagType
          /\ DebugType /\ WorkerType /\ ThreadType /\ WireType /\ ServerType

-----------------------------------------------------------------------------
(* The ModifyQuerySet the backend reads next is based on the version the    *)
(* backend is at: query_set_version stays in step with the connection over *)
(* snapshots, single Adds and Removes, failed sends and reconnects.        *)
BaseVersionAgrees ==
  link = "up" /\ c2s # <<>> => Head(c2s).base = server_version.querySet

(* Every Transition of this connection starts where the previous one ended, *)
(* the first unread one at the client's remote version: with a compliant   *)
(* backend handle_transition never reports a start version mismatch.       *)
VersionsContinue ==
  \A k \in 1 .. Len(s2c) :
    s2c[k].type = "Transition" =>
      s2c[k].start = IF k = 1 THEN remote ELSE s2c[k - 1].end

(* No Add is lost.  Once a live subscription no longer waits for its Add,   *)
(* the backend holds its query on this connection or the Add is on the     *)
(* wire, and no Remove of it follows - in particular for a subscription    *)
(* made while the Adds of a new connection were being written.             *)
Held(q) == q \in server_queries \/ \E k \in 1 .. Len(c2s) : q \in c2s[k].adds
Dropped(q) == \E k \in 1 .. Len(c2s) : q \in c2s[k].removes

NoLostAdd ==
  link = "up" /\ pc # "modify" =>
    \A q \in Subs : Live(q) /\ ~add_pending[q] => Held(q) /\ ~Dropped(q)

(* A subscription whose Remove is complete is not fed for ever: if the      *)
(* backend still holds its query, the Remove is on the wire.               *)
NoLingeringQuery ==
  link = "up" => \A q \in Subs : remove_done[q] /\ Held(q) => Dropped(q)

(* The queries answered on this connection show one commit of the database: *)
(* whatever was committed up to the version the client has reached has     *)
(* been given to the subscription, however many reconnects came before.    *)
SnapshotConsistent ==
  socket => \A q \in Subs :
    Live(q) /\ ~rehydrating[q] /\ published[q] # NoValue
      /\ result[q] <= remote.ts => published[q] = result[q]

(* A queue never shows an older result behind a newer one, nor the same     *)
(* value twice, across reconnects and queue overflow.  A failure may be    *)
(* repeated: handle_transition forgets the value a failure replaces.       *)
DeliveredInOrder ==
  \A q \in Subs : \A i, j \in 1 .. Len(queue[q]) :
    i < j /\ queue[q][i].kind \in ResultKinds /\ queue[q][j].kind \in ResultKinds =>
      \/ queue[q][i].at < queue[q][j].at
      \/ queue[q][i].at = queue[q][j].at /\ queue[q][j].kind = "FunctionError"

(* Every subscription is what LiveFeed promises its holder: in particular,   *)
(* once convex_unsubscribe has asked for the Remove nothing is added to the *)
(* queue, neither a result nor an error, whatever messages, reconnects and *)
(* failures the worker still has to handle.                                *)
FeedState(q) == IF q >= next_query_id THEN "absent"
                ELSE IF remove_done[q] THEN "left"
                ELSE IF stopped THEN "stopped"
                ELSE IF remove_pending[q] THEN "leaving" ELSE "open"

Feed(q) == INSTANCE LiveFeed WITH feed <- FeedState(q), queue <- queue[q]

FeedsKept == /\ \A q \in Subs : Feed(q)!Init
             /\ [][\A q \in Subs : Feed(q)!Next
                     \/ UNCHANGED <<FeedState(q), queue[q]>>]_vars

(* When convex_debug_disconnect reports success the connection that was up  *)
(* at the call is gone, also when several threads ask at once.             *)
DebugAckDropsConnection ==
  [][\A d \in Debuggers :
       debugger[d] = "awake" /\ debugger'[d] = "idle" /\ ~stopped =>
         dials > debug_conn[d] \/ ~socket]_vars

(* When commits and faults end, every live subscription has been given the  *)
(* current result of its query.                                            *)
Converges ==
  <>[](\A q \in Subs : Live(q) /\ ~closing => published[q] = result[q])

(* convex_unsubscribe returns whatever the worker is doing when it is       *)
(* called: dialling, a failing send, a reconnect, a close.                 *)
UnsubscribeReturns ==
  \A q \in Subs :
    unsubscriber[q] = "awake" ~> unsubscriber[q] \in {"done", "failed"}

(* Every convex_debug_disconnect returns, also when one disconnect answers  *)
(* the calls of several threads.                                           *)
DebugReturns ==
  \A d \in Debuggers : debugger[d] = "awake" ~> debugger[d] = "idle"

(* After convex_close the worker stops and the caller returns.              *)
CloseCompletes == closing ~> (stopped /\ closer \in {"idle", "closed"})

(* A reader blocked in convex_subscription_next gets to its end once the    *)
(* Remove is complete or the client has stopped.                           *)
ReaderEnds ==
  \A q \in Readers :
    (q < next_query_id /\ (remove_done[q] \/ stopped)) ~> (reader[q] = "ended")

-----------------------------------------------------------------------------
(* Statements of the repository's tests and documents that the code refutes. *)

(* The test server's "connectionCount did not advance exactly": the count a *)
(* Connect carries advances once per connection attempt.                   *)
ConnectionCountExact == connection_count <= dials

(* Losing the transport does not surface as a protocol failure: with a      *)
(* backend that never misbehaves no subscriber sees a ProtocolError.       *)
NoSpuriousProtocolError ==
  \A q \in Subs : \A i \in 1 .. Len(queue[q]) : queue[q][i].kind # "ProtocolError"

(* "Live query recovers after an established transport failure": a live     *)
(* subscription that was given an error is given a result afterwards.      *)
ErrorIsFollowedByResult ==
  <>[](\A q \in Subs : Live(q) /\ ~closing => ~errored[q])
=============================================================================
