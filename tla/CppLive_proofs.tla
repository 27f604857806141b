----------------------------- MODULE CppLive_proofs -----------------------------
(***************************************************************************)
(* Theorems about CppLive: what the queue shows, that an acknowledged      *)
(* debug_disconnect is real, and that a consumer whose wake went to another *)
(* thread is owed one by the worker.                                        *)
(***************************************************************************)
EXTENDS CppLive, TLAPS

Message == [type : {"Transition", "Malformed"}, start : Nat, end : Nat]
Outcomes == Times \cup {NoValue}
Queues == {s \in Seq(Updates) : Len(s) <= Capacity}
Sleeping == {"idle", "awake", "asleep"}

QueueType == queue \in Queues
TicketType ==
  /\ next_debug_ticket \in Nat /\ completed_debug_ticket \in Nat /\ ticket \in Nat
  /\ debug_wait \in [Debuggers -> Nat] /\ debug_socket \in [Debuggers -> Nat]
  /\ sockets \in Nat
  /\ debugger \in [Debuggers -> Sleeping] /\ consumer \in Sleeping
ResultType ==
  /\ published \in Outcomes /\ last_value \in Outcomes
  /\ now \in Times /\ connection_count \in Nat
  /\ version \in Nat /\ server_version \in Nat
  /\ s2c \in Seq(Message)
  /\ reason \in {"TransportError", "ProtocolError"}
TypeOK == QueueType /\ TicketType /\ ResultType

(* The link is up only while the worker polls and reads, and it is the first *)
(* thing to go; a ticket was given out before it is taken and answered.     *)
Connection == {"poll", "run"}
LinkInv ==
  /\ pc \in {"loop", "resolve", "dial", "poll", "run", "unguard", "ack", "report",
             "pause", "backoff", "returned"}
  /\ unwind \in {"loop", "returned", "ack", "report"}
  /\ link = "up" => pc \in Connection
TicketInv ==
  /\ ticket <= next_debug_ticket /\ completed_debug_ticket <= next_debug_ticket
  /\ \A d \in Debuggers : /\ debug_socket[d] <= sockets
                          /\ debugger[d] # "idle" => debug_wait[d] > 0

(* A caller of debug_disconnect without an answer has its command pending,  *)
(* or the worker is on its way to answer a ticket at least as new; and no   *)
(* caller sleeps on an answer it has.                                      *)
Asked(d) ==
  \/ command = "debug_disconnect"
  \/ pc \in {"unguard", "ack"} /\ unwind = "ack" /\ debug_wait[d] <= ticket
PendingInv ==
  /\ completed_debug_ticket <= ticket
  /\ \A d \in Debuggers : /\ debug_wait[d] <= next_debug_ticket
                          /\ debugger[d] # "idle" => Acked(d) \/ Asked(d)
                          /\ debugger[d] = "asleep" => ~Acked(d)

(* The results: while the subscription is open, last_value and              *)
(* last_delivery_was_error describe the last result published.             *)
CacheInv ==
  /\ published # NoValue => published <= now
  /\ ~stopped /\ published # NoValue =>
       /\ last_delivery_was_error <=> published \in FailedAt
       /\ ~last_delivery_was_error => last_value = published
  /\ connection_count = 0 \/ (pc = "dial" /\ ~awaiting_rehydration) => published = NoValue
  /\ pc \in {"dial", "poll", "run"} => connection_count # 0

(* On a connection that has brought a result, nothing published is newer    *)
(* than the version reached; on one that has not, nothing published is     *)
(* newer than what is on the wire.                                         *)
IsTransition(k) == s2c[k].type = "Transition"
WireInv ==
  pc \in Connection =>
    /\ version <= now + 1 /\ server_version <= now + 1
    /\ \A k \in DOMAIN s2c : IsTransition(k) =>
         s2c[k].start < s2c[k].end /\ s2c[k].end <= now + 1
    /\ published # NoValue /\ ~awaiting_rehydration /\ ~stopped => published < version
    /\ published # NoValue /\ awaiting_rehydration /\ ~stopped =>
         \A k \in DOMAIN s2c : IsTransition(k) => published < s2c[k].end

(* The queue holds nothing newer than the last result published.            *)
QueuedBefore ==
  \A i \in DOMAIN queue : queue[i].kind \in ResultKinds =>
    /\ published # NoValue /\ queue[i].at <= published
    /\ queue[i].kind = "value" => queue[i].at \notin FailedAt

LiveInv == /\ TypeOK /\ LinkInv /\ TicketInv /\ CacheInv /\ WireInv /\ QueuedBefore
           /\ DeliveredInOrder /\ AckMeansRetired /\ PendingInv /\ NotStranded

(* Before the worker has started nothing is queued, connected or published. *)
LEMMA LiveInit == Init => LiveInv
<1> SUFFICES ASSUME Init PROVE LiveInv
  OBVIOUS
<1> USE BoundsAssumption DEF BoundsAssumption, Init
<1>1. QueueType
  BY DEF QueueType, Queues
<1>2. TicketType /\ TicketInv
  BY DEF TicketType, TicketInv, Sleeping
<1>3. ResultType
  BY DEF ResultType, Outcomes, Times, NoValue, Zero
<1>4. LinkInv /\ CacheInv /\ WireInv
  BY DEF LinkInv, CacheInv, WireInv, Connection
<1>5. QueuedBefore /\ DeliveredInOrder /\ AckMeansRetired /\ PendingInv /\ NotStranded
  BY DEF QueuedBefore, DeliveredInOrder, AckMeansRetired, PendingInv, NotStranded
<1> QED BY <1>1, <1>2, <1>3, <1>4, <1>5 DEF LiveInv, TypeOK
-----------------------------------------------------------------------------
(* Lemmas about the operators.                                              *)

(* Commits are numbers, and "no value" is one beyond them.                  *)
LEMMA Numbers ==
  ASSUME TypeOK
  PROVE  /\ MaxNow \in Nat /\ NoValue \in Nat /\ Times \subseteq Nat /\ Outcomes \subseteq Nat
         /\ now \in Nat /\ now <= MaxNow /\ NoValue = MaxNow + 1
         /\ version \in Nat /\ server_version \in Nat /\ published \in Nat
BY BoundsAssumption DEF BoundsAssumption, TypeOK, ResultType, Outcomes, Times, NoValue

(* What is left when the first element of a sequence has been read.         *)
LEMMA TailElements ==
  ASSUME NEW S, NEW s \in Seq(S), s # <<>>
  PROVE  /\ Len(s) \in Nat /\ Len(s) >= 1 /\ Head(s) = s[1] /\ 1 \in DOMAIN s
         /\ Tail(s) \in Seq(S) /\ Len(Tail(s)) = Len(s) - 1
         /\ \A k \in DOMAIN Tail(s) : k + 1 \in DOMAIN s /\ Tail(s)[k] = s[k + 1]
<1>1. Len(s) \in Nat /\ Len(s) # 0 /\ Head(s) = s[1] /\ DOMAIN s = 1 .. Len(s)
  OBVIOUS
<1>2. Tail(s) \in Seq(S) /\ Len(Tail(s)) = Len(s) - 1
  BY <1>1
<1>3. DOMAIN Tail(s) = 1 .. Len(s) - 1
  BY <1>1, <1>2
<1>4. \A k \in 1 .. Len(s) - 1 : Tail(s)[k] = s[k + 1]
  BY <1>1
<1> QED BY <1>1, <1>2, <1>3, <1>4

(* What appending a message does to the wire.                               *)
LEMMA AppendElements ==
  ASSUME NEW S, NEW s \in Seq(S), NEW m \in S
  PROVE  /\ Append(s, m) \in Seq(S)
         /\ \A k \in DOMAIN Append(s, m) :
              IF k \in DOMAIN s THEN Append(s, m)[k] = s[k] ELSE Append(s, m)[k] = m
<1>1. /\ Len(s) \in Nat /\ DOMAIN s = 1 .. Len(s)
      /\ DOMAIN Append(s, m) = 1 .. Len(s) + 1
      /\ \A k \in 1 .. Len(s) : Append(s, m)[k] = s[k]
      /\ Append(s, m)[Len(s) + 1] = m
  OBVIOUS
<1> QED BY <1>1

(* The order of a queue, given the last result published.                   *)
InOrder(s, last) ==
  /\ \A i \in DOMAIN s : s[i].kind \in ResultKinds =>
       /\ last # NoValue /\ s[i].at <= last
       /\ s[i].kind = "value" => s[i].at \notin FailedAt
  /\ \A i, j \in DOMAIN s :
       i < j /\ s[i].kind \in ResultKinds /\ s[j].kind \in ResultKinds =>
         \/ s[i].at < s[j].at
         \/ s[i].at = s[j].at /\ s[i].kind = "FunctionError"

(* The two invariants of the queue together.                                *)
LEMMA QueueInOrder == QueuedBefore /\ DeliveredInOrder <=> InOrder(queue, published)
BY DEF QueuedBefore, DeliveredInOrder, InOrder

(* Taking the oldest update keeps the queue typed and in order.             *)
LEMMA TailInOrder ==
  ASSUME NEW s \in Queues, s # <<>>, NEW last, InOrder(s, last)
  PROVE  Tail(s) \in Queues /\ InOrder(Tail(s), last)
<1>1. s \in Seq(Updates) /\ Len(s) <= Capacity /\ Capacity \in Nat
  BY BoundsAssumption DEF BoundsAssumption, Queues
<1>2. /\ Len(s) \in Nat /\ Tail(s) \in Seq(Updates) /\ Len(Tail(s)) = Len(s) - 1
      /\ \A k \in DOMAIN Tail(s) : k + 1 \in DOMAIN s /\ Tail(s)[k] = s[k + 1]
  BY <1>1, TailElements
<1>3. DOMAIN Tail(s) \subseteq Nat
  BY <1>2
<1>4. \A i, j \in DOMAIN Tail(s) : i < j => i + 1 < j + 1
  BY <1>3
<1>5. InOrder(Tail(s), last)
  BY <1>2, <1>4 DEF InOrder
<1> QED BY <1>1, <1>2, <1>5 DEF Queues

(* So does putting in an update that is an error, or a result no older than *)
(* the last one, and newer unless it is the same failure.                  *)
LEMMA PushInOrder ==
  ASSUME NEW s \in Queues, NEW last \in Outcomes, InOrder(s, last), NEW u \in Updates,
         NEW next \in Outcomes,
         IF u.kind \in ResultKinds
         THEN /\ next = u.at /\ next # NoValue
              /\ u.kind = "value" => u.at \notin FailedAt
              /\ last # NoValue => last < next \/ (last = next /\ next \in FailedAt)
         ELSE next = last
  PROVE  PushLatest(s, u) \in Queues /\ InOrder(PushLatest(s, u), next)
<1> DEFINE t == IF Len(s) = Capacity THEN Tail(s) ELSE s
<1>1. t \in Queues /\ InOrder(t, last) /\ Len(t) + 1 <= Capacity
  <2>1. Capacity \in Nat \ {0} /\ s \in Seq(Updates) /\ Len(s) <= Capacity /\ Len(s) \in Nat
    BY BoundsAssumption DEF BoundsAssumption, Queues
  <2>2. Len(s) = Capacity => s # <<>>
    BY <2>1
  <2>3. t \in Queues /\ InOrder(t, last)
    BY <2>2, TailInOrder
  <2>4. Len(s) = Capacity => Len(Tail(s)) = Len(s) - 1
    BY <2>1, <2>2, TailElements
  <2> QED BY <2>1, <2>3, <2>4
<1>2. PushLatest(s, u) = Append(t, u)
  BY DEF PushLatest
<1>3. \A i \in DOMAIN t : t[i] \in Updates /\ t[i].at \in Nat
  <2>1. Times \subseteq Nat /\ NoValue \in Nat
    BY BoundsAssumption DEF BoundsAssumption, Times, NoValue
  <2>2. \A i \in DOMAIN t : t[i] \in Updates
    BY <1>1 DEF Queues
  <2> QED BY <2>1, <2>2 DEF Updates
<1>4. last \in Nat /\ next \in Nat
  BY BoundsAssumption DEF BoundsAssumption, Outcomes, Times, NoValue
<1> HIDE DEF t
<1>5. /\ Len(t) \in Nat /\ DOMAIN t = 1 .. Len(t)
      /\ Append(t, u) \in Queues /\ DOMAIN Append(t, u) = 1 .. Len(t) + 1
      /\ \A i \in DOMAIN t : Append(t, u)[i] = t[i]
      /\ Append(t, u)[Len(t) + 1] = u
  BY <1>1 DEF Queues
<1>6. \A i \in DOMAIN t : t[i].kind \in ResultKinds =>
        /\ next # NoValue /\ t[i].at <= next
        /\ u.kind \in ResultKinds =>
             \/ t[i].at < u.at
             \/ t[i].at = u.at /\ t[i].kind = "FunctionError"
  BY <1>1, <1>3, <1>4 DEF InOrder, ResultKinds
<1>7. \A i \in 1 .. Len(t) + 1 : i \in DOMAIN t \/ i = Len(t) + 1
  BY <1>5
<1>8. \A i \in 1 .. Len(t) + 1 : Append(t, u)[i].kind \in ResultKinds =>
        /\ next # NoValue /\ Append(t, u)[i].at <= next
        /\ Append(t, u)[i].kind = "value" => Append(t, u)[i].at \notin FailedAt
  BY <1>1, <1>4, <1>5, <1>6, <1>7 DEF InOrder
<1>9. ASSUME NEW i \in 1 .. Len(t) + 1, NEW j \in 1 .. Len(t) + 1, i < j,
             Append(t, u)[i].kind \in ResultKinds, Append(t, u)[j].kind \in ResultKinds
      PROVE  \/ Append(t, u)[i].at < Append(t, u)[j].at
             \/ Append(t, u)[i].at = Append(t, u)[j].at /\ Append(t, u)[i].kind = "FunctionError"
  <2>1. i \in DOMAIN t
    BY <1>5, <1>9
  <2>2. CASE j = Len(t) + 1
    BY <1>5, <1>6, <1>9, <2>1, <2>2
  <2>3. CASE j \in DOMAIN t
    BY <1>1, <1>5, <1>9, <2>1, <2>3 DEF InOrder
  <2> QED BY <1>7, <2>2, <2>3
<1> QED BY <1>2, <1>5, <1>8, <1>9 DEF InOrder
-----------------------------------------------------------------------------
(* The link, the tickets and the wakes.                                     *)

(* Every step of the worker leaves the link up only between its polls.      *)
LEMMA LinkStep == LinkInv /\ [Next]_vars => LinkInv'
<1> SUFFICES ASSUME LinkInv, [Next]_vars PROVE LinkInv'
  OBVIOUS
<1> USE DEF LinkInv, Connection, locals, backend
<1>1. CASE \/ RunLoop \/ PumpCancelled \/ Resolved \/ Established \/ DialFailed \/ Poll
           \/ RunElapsed \/ ReceiveTransition \/ ReceiveInvalid \/ ReadFailed
  BY <1>1 DEF RunLoop, PumpCancelled, Resolved, Established, DialFailed, Poll, RunElapsed,
    ReceiveTransition, ReceiveInvalid, ReadFailed
<1>2. CASE Unguard \/ AckDebug \/ Report \/ Pause
  BY <1>2 DEF Unguard, AckDebug, Report, Pause
<1>3. CASE Application \/ Environment
  BY <1>3 DEF Application, NextUpdate, NextTimeout, Close, Joined, DebugDisconnect,
    DebugWait, Environment, Commit, ServerPush, ServerMalformed, Break
<1>4. CASE UNCHANGED vars
  BY <1>4 DEF vars
<1> QED BY <1>1, <1>2, <1>3, <1>4 DEF Next, Worker

(* A wake leaves the threads typed, and puts none to sleep that was idle.   *)
LEMMA WakesType ==
  ASSUME TicketType, NotifyAll \/ NotifyOne \/ UNCHANGED waiters
  PROVE  /\ debugger' \in [Debuggers -> Sleeping] /\ consumer' \in Sleeping
         /\ \A d \in Debuggers : debugger'[d] # "idle" => debugger[d] # "idle"
BY DEF TicketType, Sleeping, NotifyAll, NotifyOne, Roused, waiters

(* push wakes a thread or leaves everybody alone.                           *)
LEMMA PushWakes ==
  ASSUME NEW u, push(u) PROVE NotifyOne \/ UNCHANGED waiters
BY DEF push

(* Every step keeps the tickets in order, and no debug_disconnect is        *)
(* acknowledged while the socket it was called on is up.                    *)
LEMMA TicketStep ==
  ASSUME TicketType, TicketInv, LinkInv, AckMeansRetired, [Next]_vars
  PROVE  TicketType' /\ TicketInv' /\ AckMeansRetired'
<1> USE DEF locals, backend, debugging, calls
<1> DEFINE tickets == <<next_debug_ticket, completed_debug_ticket, ticket, debug_wait,
                        debug_socket, sockets>>
<1>t. /\ next_debug_ticket \in Nat /\ completed_debug_ticket \in Nat /\ ticket \in Nat
      /\ debug_wait \in [Debuggers -> Nat] /\ debug_socket \in [Debuggers -> Nat]
      /\ sockets \in Nat
      /\ debugger \in [Debuggers -> Sleeping] /\ consumer \in Sleeping
  BY DEF TicketType
<1>1. ASSUME UNCHANGED tickets, link' = "up" => link = "up",
             debugger' \in [Debuggers -> Sleeping], consumer' \in Sleeping,
             \A d \in Debuggers : debugger'[d] # "idle" => debugger[d] # "idle"
      PROVE  TicketType' /\ TicketInv' /\ AckMeansRetired'
  BY <1>1 DEF TicketType, TicketInv, AckMeansRetired, Acked
<1>2. CASE RunLoop \/ PumpCancelled \/ Resolved \/ DialFailed \/ RunElapsed
           \/ ReceiveInvalid \/ ReadFailed \/ Pause \/ UNCHANGED vars
  <2>1. UNCHANGED <<tickets, waiters>> /\ (link' = "up" => link = "up")
    BY <1>2 DEF RunLoop, PumpCancelled, Resolved, DialFailed, RunElapsed, ReceiveInvalid,
      ReadFailed, Pause, vars
  <2> QED BY <1>1, <2>1, WakesType
<1>3. CASE ReceiveTransition \/ Report \/ Unguard \/ Close
  <2>1. UNCHANGED <<tickets, link>>
    BY <1>3 DEF ReceiveTransition, Report, Unguard, Close
  <2>2. NotifyAll \/ NotifyOne \/ UNCHANGED waiters
    BY <1>3, PushWakes DEF ReceiveTransition, Report, Unguard, Close
  <2> QED BY <1>1, <2>1, <2>2, WakesType
<1>4. CASE Joined \/ Environment
  <2>1. UNCHANGED <<tickets, waiters>> /\ (link' = "up" => link = "up")
    BY <1>4 DEF Joined, Environment, Commit, ServerPush, ServerMalformed, Break
  <2> QED BY <1>1, <2>1, WakesType
<1>5. CASE NextUpdate \/ NextTimeout
  <2>1. UNCHANGED <<tickets, link, debugger>> /\ consumer' \in Sleeping
    BY <1>5 DEF NextUpdate, NextTimeout, Sleeping
  <2> QED BY <1>1, <1>t, <2>1
<1>6. ASSUME NEW d \in Debuggers, DebugWait(d) PROVE TicketType' /\ TicketInv' /\ AckMeansRetired'
  <2>1. /\ UNCHANGED <<tickets, link, consumer>> /\ debugger[d] # "idle"
        /\ \E s \in Sleeping : debugger' = [debugger EXCEPT ![d] = s]
    BY <1>6 DEF DebugWait, Sleeping
  <2> QED BY <1>1, <1>t, <2>1
<1>7. CASE Established
  <2>1. /\ UNCHANGED <<next_debug_ticket, completed_debug_ticket, ticket, debug_wait, debug_socket>>
        /\ sockets' = sockets + 1 /\ NotifyAll
    BY <1>7 DEF Established
  <2> QED BY <1>t, <2>1, WakesType DEF TicketType, TicketInv, AckMeansRetired
<1>8. CASE Poll
  <2>1. /\ UNCHANGED <<next_debug_ticket, completed_debug_ticket, debug_wait, debug_socket, sockets>>
        /\ UNCHANGED waiters /\ (link' = "up" => link = "up")
        /\ ticket' \in {ticket, next_debug_ticket}
    BY <1>8 DEF Poll, TakenTicket
  <2> QED BY <1>t, <2>1, WakesType DEF TicketType, TicketInv, AckMeansRetired, Acked
<1>9. CASE AckDebug
  <2>1. /\ UNCHANGED <<next_debug_ticket, ticket, debug_wait, debug_socket, sockets, link>>
        /\ NotifyAll /\ completed_debug_ticket' = ticket /\ link # "up"
    BY <1>9 DEF AckDebug, LinkInv, Connection
  <2> QED BY <1>t, <2>1, WakesType DEF TicketType, TicketInv, AckMeansRetired
<1>10. ASSUME NEW d \in Debuggers, DebugDisconnect(d)
       PROVE TicketType' /\ TicketInv' /\ AckMeansRetired'
  <2>1. /\ UNCHANGED <<completed_debug_ticket, ticket, sockets, link>>
        /\ next_debug_ticket' = next_debug_ticket + 1
        /\ debug_wait' = [debug_wait EXCEPT ![d] = next_debug_ticket + 1]
        /\ debug_socket' = [debug_socket EXCEPT ![d] = sockets]
        /\ consumer' = Roused(consumer)
        /\ debugger' = [e \in Debuggers |-> IF e = d THEN "asleep" ELSE Roused(debugger[e])]
    BY <1>10 DEF DebugDisconnect
  <2>2. TicketType'
    BY <1>t, <2>1 DEF TicketType, Sleeping, Roused
  <2>3. \A e \in Debuggers : e # d /\ debugger'[e] # "idle" => debugger[e] # "idle"
    BY <2>1 DEF Roused
  <2>4. TicketInv'
    BY <1>t, <2>1, <2>3 DEF TicketInv
  <2>5. ASSUME NEW e \in Debuggers, debugger'[e] # "idle", Acked(e)'
        PROVE  ~(sockets' = debug_socket'[e] /\ link' = "up")
    <3>1. e # d
      BY <1>t, <2>1, <2>5 DEF Acked, TicketInv
    <3> QED BY <1>t, <2>1, <2>3, <2>5, <3>1 DEF Acked, AckMeansRetired
  <2> QED BY <2>2, <2>4, <2>5 DEF AckMeansRetired
<1> QED BY <1>2, <1>3, <1>4, <1>5, <1>6, <1>7, <1>8, <1>9, <1>10 DEF Next, Worker, Application

(* Every step leaves each caller of debug_disconnect answered or pending.   *)
LEMMA PendingStep ==
  ASSUME TicketType, TicketInv, LinkInv, PendingInv, [Next]_vars
  PROVE  PendingInv'
<1> USE DEF locals, backend, debugging, calls, feeding, waiters
<1> DEFINE tickets == <<next_debug_ticket, completed_debug_ticket, debug_wait>>
<1>t. /\ next_debug_ticket \in Nat /\ completed_debug_ticket \in Nat /\ ticket \in Nat
      /\ debug_wait \in [Debuggers -> Nat]
      /\ debugger \in [Debuggers -> Sleeping]
  BY DEF TicketType
\* Nobody falls asleep, and what was asked stays asked.
<1>1. ASSUME UNCHANGED <<tickets, ticket, command>>,
             \A d \in Debuggers : debugger'[d] \in {debugger[d], Roused(debugger[d])},
             pc \in {"unguard", "ack"} /\ unwind = "ack" =>
               pc' \in {"unguard", "ack"} /\ unwind' = "ack"
      PROVE  PendingInv'
  BY <1>1 DEF PendingInv, Acked, Asked, Roused
<1>2. CASE RunLoop \/ PumpCancelled \/ Resolved \/ DialFailed \/ RunElapsed
           \/ ReceiveInvalid \/ ReadFailed \/ Pause \/ UNCHANGED vars
  BY <1>1, <1>2 DEF RunLoop, PumpCancelled, Resolved, DialFailed, RunElapsed,
    ReceiveInvalid, ReadFailed, Pause, vars
<1>3. CASE \/ Joined \/ Commit \/ ServerPush \/ ServerMalformed \/ Break
           \/ NextUpdate \/ NextTimeout
  BY <1>1, <1>3 DEF Joined, Commit, ServerPush, ServerMalformed, Break, NextUpdate, NextTimeout
<1>4. CASE Established \/ Unguard \/ Close
  <2>1. /\ UNCHANGED <<tickets, ticket, command, unwind>> /\ NotifyAll
        /\ \/ UNCHANGED pc
           \/ pc = "unguard" /\ pc' = unwind
           \/ pc = "dial"
    BY <1>4 DEF Established, Unguard, Close
  <2>2. \A d \in Debuggers : debugger'[d] = Roused(debugger[d])
    BY <2>1 DEF NotifyAll
  <2> QED BY <1>1, <2>1, <2>2
<1>5. ASSUME NEW u, push(u), UNCHANGED <<tickets, ticket, command, unwind>>,
             pc \notin {"unguard", "ack"}
      PROVE  PendingInv'
  <2>1. \A d \in Debuggers : debugger'[d] \in {debugger[d], Roused(debugger[d])}
    BY <1>t, <1>5 DEF push, NotifyOne, Roused
  <2> QED BY <1>1, <1>5, <2>1
<1>6. CASE ReceiveTransition \/ Report
  <2>1. /\ UNCHANGED <<tickets, ticket, command, unwind>> /\ pc \notin {"unguard", "ack"}
        /\ UNCHANGED waiters \/ \E u : push(u)
    BY <1>6 DEF ReceiveTransition, Report
  <2>2. CASE UNCHANGED waiters
    BY <1>1, <2>1, <2>2
  <2> QED BY <1>5, <2>1, <2>2
<1>7. CASE Poll
  <2>1. /\ UNCHANGED <<tickets, debugger>> /\ pc = "poll"
        /\ \/ UNCHANGED <<command, ticket>>
           \/ /\ ticket' = next_debug_ticket
              /\ pc' = "unguard" /\ unwind' = "ack"
    BY <1>7 DEF Poll, TakenTicket
  <2> QED BY <1>t, <2>1 DEF PendingInv, TicketInv, Acked, Asked
<1>8. CASE AckDebug
  <2>1. /\ UNCHANGED <<next_debug_ticket, debug_wait, ticket, command>>
        /\ NotifyAll /\ completed_debug_ticket' = ticket
    BY <1>8 DEF AckDebug
  <2>2. \A d \in Debuggers : debugger'[d] = Roused(debugger[d])
    BY <2>1 DEF NotifyAll
  <2> QED BY <1>t, <2>1, <2>2 DEF PendingInv, Acked, Asked, Roused
<1>9. ASSUME NEW d \in Debuggers, DebugDisconnect(d) PROVE PendingInv'
  <2>1. /\ UNCHANGED <<completed_debug_ticket, ticket>> /\ command' = "debug_disconnect"
        /\ next_debug_ticket' = next_debug_ticket + 1
        /\ debug_wait' = [debug_wait EXCEPT ![d] = next_debug_ticket + 1]
        /\ debugger' = [e \in Debuggers |-> IF e = d THEN "asleep" ELSE Roused(debugger[e])]
    BY <1>9 DEF DebugDisconnect
  <2> QED BY <1>t, <2>1 DEF PendingInv, TicketInv, Acked, Asked, Roused
<1>10. ASSUME NEW d \in Debuggers, DebugWait(d) PROVE PendingInv'
  <2>1. /\ UNCHANGED <<tickets, ticket, command, pc, unwind>> /\ debugger[d] # "idle"
        /\ \/ ~Acked(d) /\ debugger' = [debugger EXCEPT ![d] = "asleep"]
           \/ debugger' = [debugger EXCEPT ![d] = "idle"]
    BY <1>10 DEF DebugWait
  <2> QED BY <1>t, <2>1 DEF PendingInv, Acked, Asked
<1> QED BY <1>2, <1>3, <1>4, <1>6, <1>7, <1>8, <1>9, <1>10
  DEF Next, Worker, Application, Environment

(* Every step leaves the consumer awake to a queue with something in it, or *)
(* owed a wake: push finds another sleeper only while a command is pending. *)
LEMMA StrandStep ==
  ASSUME PendingInv, NotStranded, [Next]_vars
  PROVE  NotStranded'
<1> USE DEF feeding, waiters, debugging
<1> SUFFICES ASSUME consumer' = "asleep", queue' # <<>>, ~WakeOwed'
             PROVE  FALSE
  BY DEF NotStranded
<1>1. CASE UNCHANGED <<consumer, queue, command>> /\ pc # "unguard"
  BY <1>1 DEF NotStranded, WakeOwed
<1>2. CASE RunLoop \/ PumpCancelled \/ Resolved \/ DialFailed \/ RunElapsed
           \/ ReceiveInvalid \/ ReadFailed \/ Pause
  BY <1>1, <1>2 DEF RunLoop, PumpCancelled, Resolved, DialFailed, RunElapsed,
    ReceiveInvalid, ReadFailed, Pause
<1>3. CASE UNCHANGED <<consumer, queue, command, pc>>
  BY <1>3 DEF NotStranded, WakeOwed
<1>4. CASE \/ Joined \/ Environment \/ UNCHANGED vars \/ \E d \in Debuggers : DebugWait(d)
  BY <1>3, <1>4 DEF Joined, Environment, Commit, ServerPush, ServerMalformed, Break,
    DebugWait, vars
<1>5. CASE Poll
  <2>1. UNCHANGED <<consumer, queue>> /\ pc = "poll" /\ (pc' = "unguard" \/ UNCHANGED command)
    BY <1>5 DEF Poll
  <2> QED BY <1>1, <2>1 DEF WakeOwed
<1>6. CASE Established \/ Unguard \/ AckDebug \/ Close
  BY <1>6 DEF Established, Unguard, AckDebug, Close, NotifyAll, Roused
<1>7. CASE NextUpdate \/ NextTimeout
  BY <1>7 DEF NextUpdate, NextTimeout, MayTake
<1>8. ASSUME NEW d \in Debuggers, DebugDisconnect(d) PROVE FALSE
  BY <1>8 DEF DebugDisconnect, Roused
<1>9. ASSUME NEW u, push(u), UNCHANGED command, pc \notin {"unguard", "ack"} PROVE FALSE
  <2>1. CASE stopped
    BY <1>1, <1>9, <2>1 DEF push
  <2>2. CASE ~stopped
    <3>1. \A d \in Debuggers : debugger[d] # "asleep"
      BY <1>9 DEF PendingInv, Asked, WakeOwed
    <3>2. consumer' # "asleep"
      BY <1>9, <2>2, <3>1 DEF push, NotifyOne
    <3> QED BY <3>2
  <2> QED BY <2>1, <2>2
<1>10. CASE ReceiveTransition \/ Report
  <2>1. /\ UNCHANGED command /\ pc \notin {"unguard", "ack"}
        /\ UNCHANGED <<feeding, waiters>> \/ \E u : push(u)
    BY <1>10 DEF ReceiveTransition, Report
  <2> QED BY <1>1, <1>9, <2>1
<1> QED BY <1>2, <1>4, <1>5, <1>6, <1>7, <1>8, <1>10 DEF Next, Worker, Application
-----------------------------------------------------------------------------
(* The results.                                                             *)

(* What reading a Transition does.  The commit it brings is newer than the  *)
(* last result published, or it is the same one over again; and then it is  *)
(* either a failure, or the first result of a connection and dropped.       *)
LEMMA Received ==
  ASSUME LiveInv, ReceiveTransition
  PROVE  LET m == Head(s2c)
             at == m.end - 1
             kind == IF at \in FailedAt THEN "FunctionError" ELSE "value"
         IN /\ m.end \in Nat /\ m.end >= 1 /\ m.end <= now + 1 /\ at \in Times /\ at # NoValue
            /\ version' = m.end /\ ~awaiting_rehydration' /\ pc \in Connection
            /\ ~stopped /\ published # NoValue => published <= at
            /\ \/ /\ push(Update(kind, at))
                  /\ last_delivery_was_error' <=> at \in FailedAt
                  /\ at \notin FailedAt => last_value' = at
                  /\ last_value' \in {at, last_value}
                  /\ ~stopped /\ published = at => at \in FailedAt
               \/ /\ UNCHANGED <<delivery, feeding, waiters>>
                  /\ at \notin FailedAt
                  /\ ~stopped /\ published # NoValue => published = at
<1> DEFINE m == Head(s2c)
           at == m.end - 1
<1>1. /\ s2c \in Seq(Message) /\ s2c # <<>> /\ m = s2c[1] /\ 1 \in DOMAIN s2c
      /\ m \in Message
  <2>1. s2c \in Seq(Message) /\ s2c # <<>>
    BY DEF ReceiveTransition, LiveInv, TypeOK, ResultType
  <2>2. Head(s2c) \in Message
    BY <2>1
  <2> QED BY <2>1, <2>2, TailElements
<1>2. /\ pc \in Connection /\ IsTransition(1) /\ m.start = version
      /\ version' = m.end /\ ~awaiting_rehydration'
  BY <1>1 DEF ReceiveTransition, Connection, IsTransition
<1>3. m.start \in Nat /\ m.end \in Nat
  BY <1>1 DEF Message
<1>4. m.start < m.end /\ m.end <= now + 1
  BY <1>1, <1>2 DEF LiveInv, WireInv
<1>5. /\ now \in Nat /\ now <= MaxNow /\ NoValue = MaxNow + 1 /\ MaxNow \in Nat
      /\ version \in Nat /\ published \in Nat
  BY Numbers DEF LiveInv
<1>6. at \in Times /\ at # NoValue /\ m.end >= 1
  BY <1>3, <1>4, <1>5 DEF Times
<1>7. ~stopped /\ published # NoValue =>
        published <= at /\ (~awaiting_rehydration => published < at)
  <2>1. ~stopped /\ published # NoValue /\ awaiting_rehydration => published < m.end
    BY <1>1, <1>2 DEF LiveInv, WireInv
  <2>2. ~stopped /\ published # NoValue /\ ~awaiting_rehydration => published < version
    BY <1>2 DEF LiveInv, WireInv
  <2> QED BY <1>2, <1>3, <1>4, <1>5, <2>1, <2>2
<1>8. ~stopped /\ published # NoValue =>
        /\ last_delivery_was_error <=> published \in FailedAt
        /\ ~last_delivery_was_error => last_value = published
  BY DEF LiveInv, CacheInv
<1> HIDE DEF m, at
<1>9. CASE at \in FailedAt
  <2>1. last_delivery_was_error' /\ last_value' = last_value /\ push(Update("FunctionError", at))
    BY <1>9 DEF ReceiveTransition, at, m
  <2> QED BY <1>2, <1>3, <1>4, <1>6, <1>7, <1>9, <2>1 DEF at, m
<1>10. CASE at \notin FailedAt /\ ~Rehydrated(at)
  <2>1. ~last_delivery_was_error' /\ last_value' = at /\ push(Update("value", at))
    BY <1>10 DEF ReceiveTransition, at, m
  <2>2. ~(~stopped /\ published = at)
    <3> SUFFICES ASSUME ~stopped, published = at PROVE FALSE
      OBVIOUS
    <3>1. awaiting_rehydration
      BY <1>5, <1>6, <1>7
    <3>2. ~last_delivery_was_error /\ last_value = at
      BY <1>6, <1>8, <1>10
    <3> QED BY <1>10, <3>1, <3>2 DEF Rehydrated
  <2> QED BY <1>2, <1>3, <1>4, <1>6, <1>7, <1>10, <2>1, <2>2 DEF at, m
<1>11. CASE at \notin FailedAt /\ Rehydrated(at)
  <2>1. UNCHANGED <<delivery, feeding, waiters>>
    BY <1>11 DEF ReceiveTransition, at, m
  <2>2. ~stopped /\ published # NoValue => published = at
    BY <1>8, <1>11 DEF Rehydrated
  <2> QED BY <1>2, <1>3, <1>4, <1>6, <1>7, <1>11, <2>1, <2>2 DEF at, m
<1> QED BY <1>9, <1>10, <1>11

results == <<published, last_value, last_delivery_was_error, stopped, now, connection_count,
             version, server_version, awaiting_rehydration>>
Resulting == ResultType /\ CacheInv /\ WireInv

(* Steps that leave the results alone, on a connection that stays or away   *)
(* from one.                                                                *)
LEMMA ResultsUntouched ==
  ASSUME Resulting, UNCHANGED results, s2c' \in {s2c, <<>>},
         reason' \in {"TransportError", "ProtocolError"},
         pc' \in Connection => pc \in Connection, pc' # "dial" \/ pc = "dial"
  PROVE  Resulting'
<1> USE DEF results
<1>1. ResultType'
  <2>1. CASE s2c' = s2c
    BY <2>1 DEF Resulting, ResultType
  <2>2. CASE s2c' = <<>>
    BY <2>2 DEF Resulting, ResultType
  <2> QED BY <2>1, <2>2
<1>2. CacheInv'
  BY DEF Resulting, CacheInv, Connection
<1>3. CASE pc' \notin Connection
  BY <1>1, <1>2, <1>3 DEF Resulting, WireInv
<1>4. CASE pc' \in Connection
  BY <1>1, <1>2, <1>4 DEF Resulting, WireInv, IsTransition
<1> QED BY <1>3, <1>4

(* One more message on the wire of a connection.                            *)
LEMMA MessageSent ==
  ASSUME Resulting, NEW m \in Message, pc \in Connection, s2c' = Append(s2c, m),
         m.type = "Transition" =>
           /\ m.start < m.end /\ m.end <= now + 1
           /\ published # NoValue /\ ~stopped => published < m.end,
         server_version' \in Nat, server_version' <= now + 1,
         UNCHANGED <<published, last_value, last_delivery_was_error, stopped, now, reason,
                     connection_count, version, awaiting_rehydration, pc>>
  PROVE  Resulting'
<1>1. /\ s2c' \in Seq(Message)
      /\ \A k \in DOMAIN s2c' : IF k \in DOMAIN s2c THEN s2c'[k] = s2c[k] ELSE s2c'[k] = m
  BY AppendElements DEF Resulting, ResultType
<1>2. ResultType' /\ CacheInv'
  BY <1>1 DEF Resulting, ResultType, CacheInv
<1>3. \A k \in DOMAIN s2c' : IsTransition(k)' =>
         /\ s2c'[k].start < s2c'[k].end /\ s2c'[k].end <= now + 1
         /\ published # NoValue /\ awaiting_rehydration /\ ~stopped => published < s2c'[k].end
  BY <1>1 DEF Resulting, WireInv, IsTransition
<1> QED BY <1>2, <1>3 DEF Resulting, WireInv

(* Every step keeps what is known of the results.                           *)
LEMMA ResultStep ==
  ASSUME LiveInv, [Next]_vars PROVE Resulting'
<1> USE DEF locals, backend, feeding, delivery, waiters
<1>0. /\ Resulting /\ LinkInv /\ s2c \in Seq(Message)
      /\ reason \in {"TransportError", "ProtocolError"}
  BY DEF LiveInv, TypeOK, Resulting, ResultType
<1>1. CASE RunLoop \/ PumpCancelled \/ DialFailed \/ Poll \/ RunElapsed \/ ReadFailed
           \/ Unguard \/ AckDebug \/ Pause \/ UNCHANGED vars
  BY <1>0, <1>1, ResultsUntouched DEF results, RunLoop, PumpCancelled, DialFailed, Poll,
    RunElapsed, ReadFailed, Unguard, AckDebug, Pause, vars, Connection, LinkInv
<1>2. CASE \/ NextUpdate \/ NextTimeout \/ Joined
           \/ \E d \in Debuggers : DebugDisconnect(d) \/ DebugWait(d)
  BY <1>0, <1>2, ResultsUntouched DEF results, NextUpdate, NextTimeout, Joined,
    DebugDisconnect, DebugWait
<1>3. CASE Report
  <2>1. reason \notin ResultKinds
    BY <1>0 DEF ResultKinds
  <2>2. published' = published
    BY <1>3, <2>1 DEF Report, push, Update
  <2> QED BY <1>0, <1>3, <2>2, ResultsUntouched DEF results, Report, Connection
<1>4. CASE ReceiveInvalid
  <2>1. /\ s2c' = Tail(s2c) /\ s2c # <<>> /\ pc' = "unguard" /\ reason' = "ProtocolError"
        /\ UNCHANGED results
    BY <1>4 DEF ReceiveInvalid, results
  <2>2. s2c' \in Seq(Message)
    BY <1>0, <2>1, TailElements
  <2> QED BY <1>0, <2>1, <2>2 DEF results, Resulting, ResultType, CacheInv, WireInv, Connection
<1>5. CASE Resolved
  <2>1. /\ connection_count' = connection_count + 1
        /\ awaiting_rehydration' = (connection_count > 0) /\ pc' = "dial"
        /\ UNCHANGED <<published, last_value, last_delivery_was_error, stopped, now,
                       version, server_version, s2c, reason>>
    BY <1>5 DEF Resolved
  <2>2. connection_count \in Nat
    BY <1>0 DEF Resulting, ResultType
  <2>3. ~awaiting_rehydration' => connection_count = 0
    <3>1. ~awaiting_rehydration' => ~(connection_count > 0)
      BY <2>1
    <3> QED BY <2>2, <3>1
  <2> QED BY <1>0, <2>1, <2>2, <2>3 DEF Resulting, ResultType, CacheInv, WireInv, Connection
<1>6. CASE Established
  <2>1. /\ pc = "dial" /\ pc' = "poll" /\ version' = Zero /\ server_version' = Zero /\ s2c' = <<>>
        /\ UNCHANGED <<published, last_value, last_delivery_was_error, stopped, now,
                       connection_count, awaiting_rehydration, reason>>
    BY <1>6 DEF Established
  <2>2. now \in Nat
    BY Numbers DEF LiveInv
  <2> QED BY <1>0, <2>1, <2>2 DEF Resulting, ResultType, CacheInv, WireInv, Connection, Zero
<1>7. CASE Close
  <2>1. stopped' = TRUE /\ UNCHANGED <<published, last_value, last_delivery_was_error, now,
          connection_count, version, server_version, awaiting_rehydration, s2c, reason, pc>>
    BY <1>7 DEF Close
  <2> QED BY <1>0, <2>1 DEF Resulting, ResultType, CacheInv, WireInv, IsTransition
<1>8. CASE Commit
  <2>1. now < MaxNow /\ now' = now + 1 /\ UNCHANGED <<published, last_value,
          last_delivery_was_error, stopped, connection_count, version, server_version,
          awaiting_rehydration, s2c, reason, pc>>
    BY <1>8 DEF Commit
  <2>2. /\ now \in Nat /\ MaxNow \in Nat /\ version \in Nat /\ server_version \in Nat
        /\ published \in Nat
    BY Numbers DEF LiveInv
  <2>3. ResultType'
    BY <1>0, <2>1, <2>2 DEF Resulting, ResultType, Times
  <2>4. CacheInv'
    BY <1>0, <2>1, <2>2 DEF Resulting, CacheInv
  <2>5. WireInv'
    <3>0. \A k \in DOMAIN s2c : s2c[k] \in Message
      BY <1>0
    <3>1. \A k \in DOMAIN s2c : s2c[k].end \in Nat
      BY <3>0 DEF Message
    <3> QED BY <1>0, <2>1, <2>2, <3>1 DEF Resulting, WireInv, IsTransition
  <2> QED BY <2>3, <2>4, <2>5 DEF Resulting
<1>9. CASE ServerPush
  <2> DEFINE m == Transition(server_version, now + 1)
  <2>1. /\ pc \in Connection /\ server_version # now + 1
        /\ s2c' = Append(s2c, m) /\ server_version' = now + 1
        /\ UNCHANGED <<published, last_value, last_delivery_was_error, stopped, now, reason,
                       connection_count, version, awaiting_rehydration, pc>>
    BY <1>0, <1>9 DEF ServerPush, LinkInv
  <2>2. now \in Nat /\ server_version \in Nat /\ published \in Nat
    BY Numbers DEF LiveInv
  <2>3. /\ m \in Message /\ m.start = server_version /\ m.end = now + 1
    BY <2>2 DEF Transition, Message
  <2>4. server_version < now + 1
    BY <1>0, <2>1, <2>2 DEF Resulting, WireInv
  <2>5. published # NoValue => published < now + 1
    BY <1>0, <2>2 DEF Resulting, CacheInv
  <2> HIDE DEF m
  <2> QED BY <1>0, <2>1, <2>2, <2>3, <2>4, <2>5, MessageSent
<1>10. CASE ServerMalformed
  <2>1. /\ pc \in Connection /\ s2c' = Append(s2c, Malformed)
        /\ UNCHANGED <<published, last_value, last_delivery_was_error, stopped, now, reason,
                       connection_count, version, awaiting_rehydration, pc, server_version>>
    BY <1>0, <1>10 DEF ServerMalformed, LinkInv
  <2>2. Malformed \in Message /\ Malformed.type # "Transition"
    BY DEF Malformed, Message, Zero
  <2>3. server_version \in Nat /\ server_version <= now + 1
    BY <1>0, <2>1, Numbers DEF LiveInv, Resulting, WireInv
  <2> QED BY <1>0, <2>1, <2>2, <2>3, MessageSent
<1>11. CASE Break
  <2>1. UNCHANGED <<results, pc, reason>> /\ \E k \in 0 .. Len(s2c) : s2c' = SubSeq(s2c, 1, k)
    BY <1>11 DEF Break, results
  <2>2. /\ s2c' \in Seq(Message)
        /\ \A k \in DOMAIN s2c' : k \in DOMAIN s2c /\ s2c'[k] = s2c[k]
    BY <1>0, <2>1
  <2>3. ResultType' /\ CacheInv'
    BY <1>0, <2>1, <2>2 DEF results, Resulting, ResultType, CacheInv
  <2> QED BY <1>0, <2>1, <2>2, <2>3 DEF results, Resulting, WireInv, IsTransition
<1>12. CASE ReceiveTransition
  <2> DEFINE m == Head(s2c)
             at == m.end - 1
             kind == IF at \in FailedAt THEN "FunctionError" ELSE "value"
  <2>1. /\ m.end \in Nat /\ m.end >= 1 /\ m.end <= now + 1 /\ at \in Times /\ at # NoValue
        /\ version' = m.end /\ ~awaiting_rehydration' /\ pc \in Connection
        /\ ~stopped /\ published # NoValue => published <= at
        /\ \/ /\ push(Update(kind, at))
              /\ last_delivery_was_error' <=> at \in FailedAt
              /\ at \notin FailedAt => last_value' = at
              /\ last_value' \in {at, last_value}
           \/ UNCHANGED <<delivery, feeding>>
    BY <1>12, Received
  <2>2. /\ UNCHANGED <<stopped, now, connection_count, server_version, reason>>
        /\ s2c' = Tail(s2c) /\ s2c # <<>> /\ pc' = "poll" /\ pc = "run"
    BY <1>12 DEF ReceiveTransition
  <2>3. /\ s2c' \in Seq(Message)
        /\ \A k \in DOMAIN s2c' : k + 1 \in DOMAIN s2c /\ s2c'[k] = s2c[k + 1]
    BY <1>0, <2>2, TailElements
  <2>4. /\ Update(kind, at).kind \in ResultKinds /\ Update(kind, at).at = at
    BY DEF Update, ResultKinds
  <2>n. now \in Nat /\ published \in Nat
    BY Numbers DEF LiveInv
  <2> HIDE DEF m, kind
  <2>5. /\ stopped => published' = published
        /\ published' \in {published, at}
        /\ ~stopped => \/ published' = at /\ (last_delivery_was_error' <=> at \in FailedAt)
                        /\ (at \notin FailedAt => last_value' = at)
                     \/ UNCHANGED <<delivery, feeding>>
    BY <2>1, <2>4 DEF push
  <2>6. ResultType'
    BY <1>0, <2>1, <2>2, <2>3, <2>5 DEF Resulting, ResultType, Outcomes
  <2>7. CacheInv'
    <3>1. published' # NoValue => published' <= now
      BY <1>0, <2>1, <2>2, <2>5, <2>n DEF Resulting, CacheInv
    <3>2. ~stopped /\ published' # NoValue =>
             /\ last_delivery_was_error' <=> published' \in FailedAt
             /\ ~last_delivery_was_error' => last_value' = published'
      BY <1>0, <2>1, <2>2, <2>5 DEF Resulting, CacheInv
    <3>3. connection_count # 0
      BY <1>0, <2>1 DEF Resulting, CacheInv, Connection
    <3> QED BY <2>2, <3>1, <3>2, <3>3 DEF CacheInv
  <2>8. WireInv'
    BY <1>0, <2>1, <2>2, <2>3, <2>5, <2>n DEF Resulting, WireInv, IsTransition
  <2> QED BY <2>6, <2>7, <2>8 DEF Resulting
<1> QED BY <1>1, <1>2, <1>3, <1>4, <1>5, <1>6, <1>7, <1>8, <1>9, <1>10, <1>11, <1>12
  DEF Next, Worker, Application, Environment
-----------------------------------------------------------------------------
(* The queue.                                                               *)
Queueing == QueueType /\ QueuedBefore /\ DeliveredInOrder

(* Every step keeps the queue in order: what is taken is the oldest, and    *)
(* what is put in is newer than what is there, or the same failure again.   *)
LEMMA QueueStep ==
  ASSUME LiveInv, [Next]_vars PROVE Queueing'
<1> USE DEF feeding, delivery
<1>0. queue \in Queues /\ InOrder(queue, published) /\ published \in Outcomes
  BY QueueInOrder DEF LiveInv, TypeOK, QueueType, ResultType
<1>1. ASSUME queue' \in Queues, InOrder(queue', published')
      PROVE  Queueing'
  BY <1>1 DEF Queueing, QueueType, QueuedBefore, DeliveredInOrder, InOrder
<1>2. CASE UNCHANGED <<queue, published>>
  BY <1>0, <1>1, <1>2
<1>3. CASE \/ RunLoop \/ PumpCancelled \/ Resolved \/ Established \/ DialFailed \/ Poll
           \/ RunElapsed \/ ReceiveInvalid \/ ReadFailed \/ Unguard \/ AckDebug \/ Pause
           \/ UNCHANGED vars
  BY <1>2, <1>3 DEF RunLoop, PumpCancelled, Resolved, Established, DialFailed, Poll,
    RunElapsed, ReceiveInvalid, ReadFailed, Unguard, AckDebug, Pause, vars
<1>4. CASE \/ Close \/ Joined \/ Environment
           \/ \E d \in Debuggers : DebugDisconnect(d) \/ DebugWait(d)
  BY <1>2, <1>4 DEF Close, Joined, Environment, Commit, ServerPush, ServerMalformed, Break,
    DebugDisconnect, DebugWait
<1>5. CASE NextUpdate \/ NextTimeout
  <2>1. /\ published' = published
        /\ queue' = queue \/ (queue # <<>> /\ queue' = Tail(queue))
    BY <1>5 DEF NextUpdate, NextTimeout
  <2>2. CASE queue' = queue
    BY <1>2, <2>1, <2>2
  <2>3. CASE queue # <<>> /\ queue' = Tail(queue)
    <3>1. Tail(queue) \in Queues /\ InOrder(Tail(queue), published)
      BY <1>0, <2>3, TailInOrder
    <3> QED BY <1>1, <2>1, <2>3, <3>1
  <2> QED BY <2>1, <2>2, <2>3
<1>6. CASE Report
  <2> DEFINE u == Update(reason, NoValue)
  <2>1. push(u)
    BY <1>6 DEF Report
  <2>2. u \in Updates /\ u.kind \notin ResultKinds
    BY DEF LiveInv, TypeOK, ResultType, Update, Updates, ResultKinds
  <2> HIDE DEF u
  <2>3. CASE stopped
    BY <1>2, <2>1, <2>3 DEF push
  <2>4. CASE ~stopped
    <3>1. queue' = PushLatest(queue, u) /\ published' = published
      BY <2>1, <2>2, <2>4 DEF push
    <3>2. PushLatest(queue, u) \in Queues /\ InOrder(PushLatest(queue, u), published)
      BY <1>0, <2>2, PushInOrder
    <3> QED BY <1>1, <3>1, <3>2
  <2> QED BY <2>3, <2>4
<1>7. CASE ReceiveTransition
  <2> DEFINE at == Head(s2c).end - 1
             kind == IF at \in FailedAt THEN "FunctionError" ELSE "value"
             u == Update(kind, at)
  <2>1. /\ at \in Times /\ at # NoValue
        /\ ~stopped /\ published # NoValue => published <= at
        /\ \/ push(u) /\ (~stopped /\ published = at => at \in FailedAt)
           \/ UNCHANGED feeding
    BY <1>7, Received
  <2>2. /\ u \in Updates /\ u.kind \in ResultKinds /\ u.at = at
        /\ u.kind = "value" => at \notin FailedAt
    BY <2>1 DEF Update, Updates, ResultKinds
  <2> HIDE DEF u, at
  <2>3. CASE stopped \/ UNCHANGED feeding
    BY <1>2, <2>1, <2>3 DEF push
  <2>4. CASE ~stopped /\ push(u) /\ (published = at => at \in FailedAt)
    <3>1. queue' = PushLatest(queue, u) /\ published' = at
      BY <2>2, <2>4 DEF push
    <3>2. published # NoValue => published < at \/ (published = at /\ at \in FailedAt)
      <4>1. published \in Nat /\ at \in Nat
        BY <2>1, Numbers DEF LiveInv
      <4> QED BY <2>1, <2>4, <4>1
    <3>3. PushLatest(queue, u) \in Queues /\ InOrder(PushLatest(queue, u), at)
      BY <1>0, <2>1, <2>2, <3>2, PushInOrder DEF Outcomes
    <3> QED BY <1>1, <3>1, <3>3
  <2> QED BY <2>1, <2>3, <2>4
<1> QED BY <1>3, <1>4, <1>5, <1>6, <1>7 DEF Next, Worker, Application
-----------------------------------------------------------------------------
(* The theorems.                                                            *)

(* Every step keeps the inductive invariant.                                *)
LEMMA LiveStep == LiveInv /\ [Next]_vars => LiveInv'
<1> SUFFICES ASSUME LiveInv, [Next]_vars PROVE LiveInv'
  OBVIOUS
<1>1. TicketType /\ TicketInv /\ LinkInv /\ AckMeansRetired /\ PendingInv /\ NotStranded
  BY DEF LiveInv, TypeOK
<1>2. LinkInv'
  BY <1>1, LinkStep
<1>3. TicketType' /\ TicketInv' /\ AckMeansRetired'
  BY <1>1, TicketStep
<1>4. PendingInv' /\ NotStranded'
  BY <1>1, PendingStep, StrandStep
<1>5. Resulting' /\ Queueing'
  BY ResultStep, QueueStep
<1> QED BY <1>2, <1>3, <1>4, <1>5 DEF LiveInv, TypeOK, Resulting, Queueing

(* The inductive invariant holds in every reachable state.                  *)
LEMMA AlwaysLive == Spec => []LiveInv
<1>1. Init => LiveInv
  BY LiveInit
<1>2. LiveInv /\ [Next]_vars => LiveInv'
  BY LiveStep
<1> QED BY <1>1, <1>2, PTL DEF Spec

(* For any number of writes, reconnects and failures, and any queue, the    *)
(* consumer finds results in the order of the commits and never the same    *)
(* value twice, although every reconnect of the worker brings the current   *)
(* value over again.                                                       *)
THEOREM ResultsInOrder == Spec => []DeliveredInOrder
<1>1. LiveInv => DeliveredInOrder
  BY DEF LiveInv
<1> QED BY <1>1, AlwaysLive, PTL

(* For any number of debugging threads, a call of debug_disconnect that     *)
(* finds its ticket answered finds the socket of the call gone.             *)
THEOREM AcksAreReal == Spec => []AckMeansRetired
<1>1. LiveInv => AckMeansRetired
  BY DEF LiveInv
<1> QED BY <1>1, AlwaysLive, PTL

(* For any number of debugging threads, whichever sleeper push wakes: a     *)
(* consumer left asleep beside an update has a forced disconnect pending,   *)
(* whose execution wakes it.                                               *)
THEOREM ConsumerIsWoken == Spec => []NotStranded
<1>1. LiveInv => NotStranded
  BY DEF LiveInv
<1> QED BY <1>1, AlwaysLive, PTL
=============================================================================
