-------------------------------- MODULE CppLive --------------------------------
(***************************************************************************)
(* A Live subscription of the C++ client (src/cpp/client/live.cpp).  Every  *)
(* subscription has a worker of its own that dials, reads and reconnects;  *)
(* a consumer waits for updates, other threads force a disconnect or       *)
(* close.  All of them sleep on ONE condition variable, of which a         *)
(* published update wakes one sleeper and everything else wakes all.       *)
(*                                                                         *)
(* A step is one hold of the mutex with the socket work that leads to it.  *)
(* The backend and the link are external.  Which delays and deadlines pass *)
(* is left open; wording, log lines and session telemetry are left out.    *)
(***************************************************************************)
EXTENDS NewestQueue

CONSTANTS
  MaxNow,         \* bound: writes committed by the backend
  FailedAt,       \* commits after which the query fails
  MaxFaults,      \* bound: failed dials, broken links, malformed messages
  Debuggers,      \* threads that may call debug_disconnect
  MaxDebug,       \* bound: calls of debug_disconnect
  MayClose        \* TRUE when the application may call close

ASSUME BoundsAssumption ==
  /\ Capacity \in Nat \ {0}
  /\ MaxNow \in Nat
  /\ MaxFaults \in Nat
  /\ MaxDebug \in Nat
  /\ MayClose \in BOOLEAN

NoValue == MaxNow + 1
Times == 0 .. MaxNow

VARIABLES
  \* Subscription::State
  queue, stopped, connected, command, next_debug_ticket, completed_debug_ticket,
  connection_count, last_value, last_delivery_was_error,
  \* the worker: where it is, where the unwinding of exchange leads, locals
  pc, unwind, ticket, version, awaiting_rehydration, reason,
  \* the other threads
  consumer, debugger, debug_wait, closer,
  \* the link and the backend
  link, s2c, server_version, now, faults,
  \* history: updates put in the queue; connections made, and at each call
  published, sockets, debug_socket

debugging == <<command, next_debug_ticket, completed_debug_ticket>>
delivery  == <<last_value, last_delivery_was_error>>
locals    == <<unwind, ticket, version, awaiting_rehydration, reason>>
waiters   == <<consumer, debugger>>
calls     == <<debug_wait, debug_socket>>
backend   == <<server_version, now, faults>>
feeding   == <<queue, published>>
vars == <<feeding, stopped, connected, debugging, connection_count, delivery, pc, locals,
          waiters, calls, closer, link, s2c, backend, sockets>>

ResultKinds == {"value", "FunctionError"}
Updates == [kind : ResultKinds \cup {"TransportError", "ProtocolError"},
            at : Times \cup {NoValue}]
Update(kind, at) == [kind |-> kind, at |-> at]
Zero == 0                        \* zero_state_version; others are 1 + a commit
Transition(start, end) == [type |-> "Transition", start |-> start, end |-> end]
Malformed == [type |-> "Malformed", start |-> Zero, end |-> Zero]

Init ==
  /\ queue = <<>> /\ stopped = FALSE /\ connected = FALSE /\ command = "none"
  /\ next_debug_ticket = 0 /\ completed_debug_ticket = 0
  /\ connection_count = 0 /\ last_value = NoValue /\ last_delivery_was_error = FALSE
  /\ pc = "loop" /\ unwind = "loop" /\ ticket = 0 /\ version = Zero
  /\ awaiting_rehydration = FALSE /\ reason = "TransportError"
  /\ consumer = "idle" /\ debugger = [d \in Debuggers |-> "idle"]
  /\ debug_wait = [d \in Debuggers |-> 0] /\ closer = "idle"
  /\ link = "down" /\ s2c = <<>> /\ server_version = Zero /\ now = 0 /\ faults = 0
  /\ published = NoValue /\ sockets = 0
  /\ debug_socket = [d \in Debuggers |-> 0]
-----------------------------------------------------------------------------
(* The condition variable.  SlipXxx definitions are plausible mistakes in   *)
(* the definition below them.                                              *)
Roused(s) == IF s = "asleep" THEN "awake" ELSE s
NotifyAll == /\ consumer' = Roused(consumer)
             /\ debugger' = [d \in Debuggers |-> Roused(debugger[d])]
SlipNotifyNobody == UNCHANGED waiters
NotifyOne ==
  \/ consumer = "asleep" /\ consumer' = "awake" /\ UNCHANGED debugger
  \/ \E d \in Debuggers : /\ debugger[d] = "asleep"
                          /\ debugger' = [debugger EXCEPT ![d] = "awake"]
                          /\ UNCHANGED consumer
  \/ /\ consumer # "asleep" /\ \A d \in Debuggers : debugger[d] # "asleep"
     /\ UNCHANGED waiters

push(u) ==
  IF stopped THEN UNCHANGED <<feeding, waiters>>
  ELSE /\ queue' = PushLatest(queue, u)
       /\ published' = IF u.kind \in ResultKinds THEN u.at ELSE published
       /\ NotifyOne
-----------------------------------------------------------------------------
(* The worker (run, session, exchange).                                    *)
RunLoop ==
  /\ pc = "loop"
  /\ pc' = IF stopped THEN "returned" ELSE "resolve"
  /\ UNCHANGED <<feeding, stopped, connected, debugging, connection_count, delivery,
                 locals, waiters, calls, closer, link, s2c, backend, sockets>>

\* pump_until sees a stop while the operation it pumps is outstanding.
SlipNoCancel == FALSE
StopSeen == stopped
PumpCancelled ==
  /\ pc \in {"resolve", "dial"} /\ StopSeen
  /\ pc' = "returned"
  /\ UNCHANGED <<feeding, stopped, connected, debugging, connection_count, delivery,
                 locals, waiters, calls, closer, link, s2c, backend, sockets>>

Resolved ==
  /\ pc = "resolve"
  /\ connection_count' = connection_count + 1
  /\ awaiting_rehydration' = (connection_count > 0)
  /\ pc' = "dial"
  /\ UNCHANGED <<feeding, stopped, connected, debugging, delivery, unwind, ticket, version,
                 reason, waiters, calls, closer, link, s2c, backend, sockets>>

\* The socket is up and Connect and Add are written.
Established ==
  /\ pc = "dial"
  /\ connected' = TRUE
  /\ NotifyAll
  /\ version' = Zero
  /\ link' = "up" /\ s2c' = <<>> /\ server_version' = Zero
  /\ sockets' = sockets + 1
  /\ pc' = "poll"
  /\ UNCHANGED <<feeding, stopped, debugging, connection_count, delivery, unwind, ticket,
                 awaiting_rehydration, reason, calls, closer, now, faults>>

DialFailed ==
  /\ pc \in {"resolve", "dial"} /\ faults < MaxFaults
  /\ faults' = faults + 1
  /\ reason' = "TransportError" /\ pc' = "report"
  /\ UNCHANGED <<feeding, stopped, connected, debugging, connection_count, delivery,
                 unwind, ticket, version, awaiting_rehydration, waiters, calls, closer,
                 link, s2c, server_version, now, sockets>>

\* Before every wait for the socket the owner looks for a stop and a command.
SlipLateTicket == next_debug_ticket + 1
TakenTicket == next_debug_ticket
Poll ==
  /\ pc = "poll"
  /\ \/ stopped /\ pc' = "unguard" /\ unwind' = "returned" /\ link' = "down"
        /\ UNCHANGED <<command, ticket>>
     \/ /\ ~stopped /\ command = "debug_disconnect"
        /\ command' = "none" /\ ticket' = TakenTicket
        /\ pc' = "unguard" /\ unwind' = "ack" /\ link' = "down"
     \/ /\ ~stopped /\ command = "none"
        /\ pc' = "run" /\ UNCHANGED <<command, unwind, ticket, link>>
  /\ UNCHANGED <<feeding, stopped, connected, next_debug_ticket, completed_debug_ticket,
                 connection_count, delivery, version, awaiting_rehydration, reason,
                 waiters, calls, closer, s2c, backend, sockets>>

RunElapsed ==
  /\ pc = "run" /\ s2c = <<>> /\ link = "up"
  /\ pc' = "poll"
  /\ UNCHANGED <<feeding, stopped, connected, debugging, connection_count, delivery,
                 locals, waiters, calls, closer, link, s2c, backend, sockets>>

\* validate_and_deliver_transition.  A result is named by its commit; the first
\* one of a connection is dropped when it is what was delivered last.
SlipDeliverAll(at) == FALSE
SlipDropFirst(at) == awaiting_rehydration
Rehydrated(at) == /\ awaiting_rehydration /\ last_value = at
                  /\ ~last_delivery_was_error

ReceiveTransition ==
  /\ pc = "run" /\ s2c # <<>> /\ Head(s2c).type = "Transition"
  /\ Head(s2c).start = version
  /\ version' = Head(s2c).end
  /\ awaiting_rehydration' = FALSE
  /\ LET at == Head(s2c).end - 1 IN
     \/ /\ at \in FailedAt
        /\ last_delivery_was_error' = TRUE /\ UNCHANGED last_value
        /\ push(Update("FunctionError", at))
     \/ /\ at \notin FailedAt /\ Rehydrated(at)
        /\ UNCHANGED <<delivery, feeding, waiters>>
     \/ /\ at \notin FailedAt /\ ~Rehydrated(at)
        /\ last_value' = at /\ last_delivery_was_error' = FALSE
        /\ push(Update("value", at))
  /\ s2c' = Tail(s2c)
  /\ pc' = "poll"
  /\ UNCHANGED <<stopped, connected, debugging, connection_count, unwind, ticket, reason,
                 calls, closer, link, backend, sockets>>

ReceiveInvalid ==
  /\ pc = "run" /\ s2c # <<>>
  /\ Head(s2c).type # "Transition" \/ Head(s2c).start # version
  /\ s2c' = Tail(s2c)
  /\ reason' = "ProtocolError" /\ pc' = "unguard" /\ unwind' = "report" /\ link' = "down"
  /\ UNCHANGED <<feeding, stopped, connected, debugging, connection_count, delivery,
                 ticket, version, awaiting_rehydration, waiters, calls, closer, backend,
                 sockets>>

ReadFailed ==
  /\ pc = "run" /\ s2c = <<>> /\ link = "broken"
  /\ reason' = "TransportError" /\ pc' = "unguard" /\ unwind' = "report" /\ link' = "down"
  /\ UNCHANGED <<feeding, stopped, connected, debugging, connection_count, delivery,
                 ticket, version, awaiting_rehydration, waiters, calls, closer, s2c,
                 backend, sockets>>

\* ~ConnectedGuard, before any handler of the exception runs.
Unguard ==
  /\ pc = "unguard"
  /\ connected' = FALSE
  /\ NotifyAll
  /\ s2c' = <<>>
  /\ pc' = unwind
  /\ UNCHANGED <<feeding, stopped, debugging, connection_count, delivery, locals, calls,
                 closer, link, backend, sockets>>

AckDebug ==
  /\ pc = "ack"
  /\ completed_debug_ticket' = ticket
  /\ NotifyAll
  /\ pc' = "loop"
  /\ UNCHANGED <<feeding, stopped, connected, command, next_debug_ticket, connection_count,
                 delivery, locals, calls, closer, link, s2c, backend, sockets>>

Report ==
  /\ pc = "report"
  /\ push(Update(reason, NoValue))
  /\ pc' = "pause"
  /\ UNCHANGED <<stopped, connected, debugging, connection_count, delivery, locals, calls,
                 closer, link, s2c, backend, sockets>>

\* The wait before the next attempt ends with its time or with a stop.
Pause ==
  /\ pc \in {"pause", "backoff"}
  /\ pc' = CASE pc = "backoff" -> "loop" [] stopped -> "returned" [] OTHER -> "backoff"
  /\ UNCHANGED <<feeding, stopped, connected, debugging, connection_count, delivery,
                 locals, waiters, calls, closer, link, s2c, backend, sockets>>
-----------------------------------------------------------------------------
(* next_update, debug_disconnect and close.                                *)
MayTake == stopped \/ queue # <<>>

NextUpdate ==
  /\ consumer \in {"idle", "awake"}
  /\ IF MayTake
     THEN /\ consumer' = "idle"
          /\ queue' = IF queue = <<>> THEN queue ELSE Tail(queue)
     ELSE consumer' = "asleep" /\ UNCHANGED queue
  /\ UNCHANGED <<published, stopped, connected, debugging, connection_count, delivery, pc,
                 locals, debugger, calls, closer, link, s2c, backend, sockets>>

\* The timeout passes: the predicate is evaluated once more.
NextTimeout ==
  /\ consumer \in {"asleep", "awake"}
  /\ consumer' = "idle"
  /\ queue' = IF queue = <<>> THEN queue ELSE Tail(queue)
  /\ UNCHANGED <<published, stopped, connected, debugging, connection_count, delivery, pc,
                 locals, debugger, calls, closer, link, s2c, backend, sockets>>

DebugDisconnect(d) ==
  /\ debugger[d] = "idle" /\ next_debug_ticket < MaxDebug
  /\ connected /\ ~stopped
  /\ next_debug_ticket' = next_debug_ticket + 1
  /\ debug_wait' = [debug_wait EXCEPT ![d] = next_debug_ticket + 1]
  /\ debug_socket' = [debug_socket EXCEPT ![d] = sockets]
  /\ command' = "debug_disconnect"
  /\ consumer' = Roused(consumer)
  /\ debugger' = [e \in Debuggers |-> IF e = d THEN "asleep" ELSE Roused(debugger[e])]
  /\ UNCHANGED <<feeding, stopped, connected, completed_debug_ticket, connection_count,
                 delivery, pc, locals, closer, link, s2c, backend, sockets>>

Acked(d) == completed_debug_ticket >= debug_wait[d]

\* It returns with an answer, sleeps on, or after two seconds gives up.
DebugWait(d) ==
  /\ debugger[d] \in {"awake", "asleep"}
  /\ \/ debugger[d] = "awake" /\ ~stopped /\ ~Acked(d)
        /\ debugger' = [debugger EXCEPT ![d] = "asleep"]
     \/ debugger[d] = "awake" /\ (stopped \/ Acked(d))
        /\ debugger' = [debugger EXCEPT ![d] = "idle"]
     \/ debugger[d] = "asleep" /\ debugger' = [debugger EXCEPT ![d] = "idle"]
  /\ UNCHANGED <<feeding, stopped, connected, debugging, connection_count, delivery, pc,
                 locals, consumer, calls, closer, link, s2c, backend, sockets>>

Close ==
  /\ MayClose /\ closer = "idle"
  /\ stopped' = TRUE
  /\ NotifyAll
  /\ closer' = "joining"
  /\ UNCHANGED <<feeding, connected, debugging, connection_count, delivery, pc, locals,
                 calls, link, s2c, backend, sockets>>

Joined ==
  /\ closer = "joining" /\ pc = "returned"
  /\ closer' = "joined"
  /\ UNCHANGED <<feeding, stopped, connected, debugging, connection_count, delivery, pc,
                 locals, waiters, calls, link, s2c, backend, sockets>>
-----------------------------------------------------------------------------
(* The link and the backend, external.                                     *)
Commit ==
  /\ now < MaxNow
  /\ now' = now + 1
  /\ UNCHANGED <<feeding, stopped, connected, debugging, connection_count, delivery, pc,
                 locals, waiters, calls, closer, link, s2c, server_version, faults, sockets>>

ServerPush ==
  /\ link = "up" /\ server_version # now + 1
  /\ s2c' = Append(s2c, Transition(server_version, now + 1))
  /\ server_version' = now + 1
  /\ UNCHANGED <<feeding, stopped, connected, debugging, connection_count, delivery, pc,
                 locals, waiters, calls, closer, link, now, faults, sockets>>

ServerMalformed ==
  /\ link = "up" /\ faults < MaxFaults
  /\ s2c' = Append(s2c, Malformed)
  /\ faults' = faults + 1
  /\ UNCHANGED <<feeding, stopped, connected, debugging, connection_count, delivery, pc,
                 locals, waiters, calls, closer, link, server_version, now, sockets>>

Break ==
  /\ link = "up" /\ faults < MaxFaults
  /\ link' = "broken" /\ faults' = faults + 1
  /\ \E k \in 0 .. Len(s2c) : s2c' = SubSeq(s2c, 1, k)
  /\ UNCHANGED <<feeding, stopped, connected, debugging, connection_count, delivery, pc,
                 locals, waiters, calls, closer, server_version, now, sockets>>
-----------------------------------------------------------------------------
Worker == \/ RunLoop \/ PumpCancelled \/ Resolved \/ Established \/ DialFailed
          \/ Poll \/ RunElapsed \/ ReceiveTransition \/ ReceiveInvalid \/ ReadFailed
          \/ Unguard \/ AckDebug \/ Report \/ Pause
Application == \/ NextUpdate \/ NextTimeout \/ Close \/ Joined
               \/ \E d \in Debuggers : DebugDisconnect(d) \/ DebugWait(d)
Environment == Commit \/ ServerPush \/ ServerMalformed \/ Break

Next == Worker \/ Application \/ Environment
Spec == Init /\ [][Next]_vars

(* Threads that are not asleep run, and an operation that is pumped ends    *)
(* when it is cancelled.                                                   *)
Unpumped == \/ RunLoop \/ PumpCancelled \/ Poll \/ RunElapsed \/ ReceiveTransition
            \/ ReceiveInvalid \/ ReadFailed \/ Unguard \/ AckDebug \/ Report \/ Pause
Running == Spec /\ WF_vars(Unpumped) /\ WF_vars(Joined)

(* A peer that answers: what nothing here relies on, except convergence.    *)
PeerAnswers == /\ WF_vars(Resolved) /\ WF_vars(Established)
               /\ WF_vars(ServerPush) /\ WF_vars(Commit)
-----------------------------------------------------------------------------
(* What is queued is in the order of the commits, and across any number of  *)
(* reconnects no value is queued twice: only a failing query repeats.      *)
DeliveredInOrder ==
  \A i, j \in DOMAIN queue :
    i < j /\ queue[i].kind \in ResultKinds /\ queue[j].kind \in ResultKinds =>
      \/ queue[i].at < queue[j].at
      \/ queue[i].at = queue[j].at /\ queue[i].kind = "FunctionError"

(* debug_disconnect is acknowledged only when the socket that was up at the *)
(* call is gone, also when several calls share one disconnect or a new one *)
(* arrives while the worker retires the socket.                            *)
AckMeansRetired ==
  \A d \in Debuggers :
    debugger[d] # "idle" /\ Acked(d) => ~(sockets = debug_socket[d] /\ link = "up")

(* A consumer left asleep beside a queued update - the one wake of push went *)
(* to a caller of debug_disconnect - is always still owed a wake: the       *)
(* disconnect that caller asked for is pending, and when it is carried out *)
(* the worker wakes every sleeper.  No other wake is ever lost.             *)
WakeOwed == command = "debug_disconnect" \/ pc = "unguard"
NotStranded == consumer = "asleep" /\ queue # <<>> => WakeOwed

(* close returns wherever the worker is, also when the peer never answers.  *)
CloseReturns == closer = "joining" ~> closer = "joined"

(* When the peer answers and commits and faults are over, the last result  *)
(* put in the queue is the current one, unless the subscription is closed. *)
Converges == PeerAnswers => <>[](stopped \/ published = now)
-----------------------------------------------------------------------------
(* A statement of the client's README that the code refutes.                *)

(* "Blocks until the worker delivers a value, or 10 seconds pass": once the *)
(* worker has delivered an update and waits for its next attempt or for the *)
(* peer, the consumer is no longer asleep.                                  *)
WokenWhenDelivered ==
  pc \in {"pause", "backoff", "resolve", "dial"} /\ queue # <<>> =>
    consumer # "asleep"
=============================================================================
