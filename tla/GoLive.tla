-------------------------------- MODULE GoLive --------------------------------
(***************************************************************************)
(* The Live half of the Go client (src/go/client/live.go).  One goroutine, *)
(* the owner, selects over the commands of the callers, the close signal,  *)
(* the reconnect timer, the inactivity ticker and the messages that the    *)
(* reader goroutine of each socket puts in a channel.  The owner closes a  *)
(* socket without waiting for its reader, so messages of a retired socket  *)
(* may still be in a reader's hands or in the channel when the next one is *)
(* up.  A step is one turn of the select; dialling is a turn of two steps. *)
(* The backend is external, as in LiveClient, and as strict as the one of  *)
(* live_test.go: a wrong connectionCount or base version ends the session. *)
(* A backend that is heard at all pings often enough for the inactivity    *)
(* limit.  Backoff values, timestamps and remoteResults, which nothing     *)
(* reads, are left out.                                                    *)
(***************************************************************************)
EXTENDS Naturals, Sequences, FiniteSets

CONSTANTS
  MaxSubs,     \* bound: subscriptions ever made; query ids are 0 .. MaxSubs-1
  Capacity,    \* of the updates channel of a subscription
  Buffer,      \* of the incoming channel
  MaxNow,      \* bound: writes committed by the backend
  Written,     \* the queries whose results they change
  FailedAt,    \* commits after which the written query fails
  MaxTrouble,  \* bound: what disturbs the client, which is failed dials and
               \* handshakes, dead links, bad messages, debugDisconnect, Close
  Callers      \* goroutines of the application

ASSUME GoBounds == /\ {MaxSubs, Capacity, Buffer} \subseteq Nat \ {0}
                   /\ {MaxNow, MaxTrouble} \subseteq Nat

VARIABLES
  \* locals of run
  active, conn, generation, query_set_version, remote_version, last_delivered,
  awaiting_rehydration, connection_count, next_query_id, reconnect, pc,
  \* the channels, and the reader goroutines with what they have read
  updates, incoming, close_signal, readers,
  \* the callers: what each of them is doing; the Subscriptions they hold
  call, held, closer,
  \* the link and the backend
  link, s2c, server_version, server_queries, now, result, trouble,
  \* history: attempts to connect, bad messages sent, errors published for one,
  \* the last update given to each subscription
  dials, malformed, protocol_errors, published

counts   == <<connection_count, dials>>
versions == <<query_set_version, remote_version>>
delivery == <<last_delivered, awaiting_rehydration, updates, published>>
registry == <<active, next_query_id>>
socket   == <<conn, generation>>
owner    == <<registry, socket, versions, counts, delivery, reconnect, pc, protocol_errors>>
reading  == <<incoming, readers>>
callers  == <<call, held, closer, close_signal>>
wire     == <<link, s2c>>
server   == <<server_version, server_queries>>
data     == <<now, result>>
vars     == <<owner, reading, callers, wire, server, data, trouble, malformed>>

Subs == 0 .. MaxSubs - 1
Times == 0 .. MaxNow
Nothing == MaxNow + 1
InitialVersion == [querySet |-> 0, ts |-> 0]

Update(kind, at) == [kind |-> kind, at |-> at]
ResultUpdate(at) == Update(IF at \in FailedAt THEN "FunctionError" ELSE "value", at)
NoUpdate == Update("none", Nothing)

\* Messages of the backend; mods says what a Transition reports of each query.
Silence == [q \in Subs |-> Nothing]
Message(type, start, end, mods) ==
  [type |-> type, start |-> start, end |-> end, mods |-> mods, removed |-> {}]
FatalError == Message("FatalError", InitialVersion, InitialVersion, Silence)
ReadError == Message("err", InitialVersion, InitialVersion, Silence)

\* A ModifyQuerySet of the client.
Modify(base, adds, removes) == [base |-> base, adds |-> adds, removes |-> removes]

Idle == [op |-> "none", state |-> "idle", q |-> MaxSubs, ended |-> FALSE]

Init ==
  /\ active = {} /\ conn = FALSE /\ generation = 0
  /\ query_set_version = 0 /\ remote_version = InitialVersion
  /\ last_delivered = [q \in Subs |-> NoUpdate] /\ awaiting_rehydration = {}
  /\ connection_count = 0 /\ next_query_id = 0 /\ reconnect = "nil" /\ pc = "select"
  /\ updates = [q \in Subs |-> <<>>] /\ incoming = <<>> /\ readers = {}
  /\ close_signal = FALSE
  /\ call = [c \in Callers |-> Idle] /\ held = {} /\ closer = "idle"
  /\ link = "down" /\ s2c = <<>>
  /\ server_version = InitialVersion /\ server_queries = {}
  /\ now = 0 /\ result = [q \in Subs |-> 0] /\ trouble = 0
  /\ dials = 0 /\ malformed = 0 /\ protocol_errors = 0
  /\ published = [q \in Subs |-> NoUpdate]

-----------------------------------------------------------------------------
(* The backend and the link, external.  The backend reads what is written  *)
(* to a link that is up; what a break loses is lost from its answers.      *)
ResultsOf(queries) == [q \in Subs |-> IF q \in queries THEN result[q] ELSE Nothing]
News(queries) == {q \in queries : result[q] > server_version.ts}

ServerRead(m) ==
  LET new == [querySet |-> server_version.querySet + 1, ts |-> now]
      known == (server_queries \cup m.adds) \ m.removes
  IN IF link # "up" THEN UNCHANGED <<wire, server>>
     ELSE IF m.base = server_version.querySet
     THEN /\ s2c' = Append(s2c, [Message("Transition", server_version, new,
               ResultsOf(m.adds \cup News(known))) EXCEPT !.removed = m.removes])
          /\ server_version' = new /\ server_queries' = known /\ UNCHANGED link
     ELSE s2c' = Append(s2c, FatalError) /\ link' = "broken" /\ UNCHANGED server

\* Connect, which carries the number of earlier attempts, and the Adds.
ServerAccepts(count, adds) ==
  LET new == [querySet |-> 1, ts |-> now] IN
  IF count = dials - 1
  THEN /\ link' = "up" /\ server_version' = new /\ server_queries' = adds
       /\ s2c' = <<Message("Transition", InitialVersion, new, ResultsOf(adds))>>
  ELSE link' = "broken" /\ s2c' = <<FatalError>> /\ UNCHANGED server

ServerPush ==
  /\ link = "up" /\ News(server_queries) # {}
  /\ s2c' = Append(s2c, Message("Transition", server_version,
              [server_version EXCEPT !.ts = now], ResultsOf(News(server_queries))))
  /\ server_version' = [server_version EXCEPT !.ts = now]
  /\ UNCHANGED <<owner, reading, callers, link, server_queries, data, trouble, malformed>>

\* Commits before the first result, or once Close is called, concern nobody.
Write(q) ==
  /\ now < MaxNow /\ ~close_signal
  /\ q \in Written /\ published[q] # NoUpdate
  /\ now' = now + 1 /\ result' = [result EXCEPT ![q] = now + 1]
  /\ UNCHANGED <<owner, reading, callers, wire, server, trouble, malformed>>

Fault ==
  /\ link = "up" /\ ~close_signal /\ trouble < MaxTrouble /\ trouble' = trouble + 1
  /\ \/ /\ link' \in {"broken", "silent"}
        /\ \E k \in 0 .. Len(s2c) : s2c' = SubSeq(s2c, 1, k)
        /\ UNCHANGED malformed
     \/ /\ s2c' = Append(s2c, Message("Unknown", server_version, server_version,
                                      ResultsOf(server_queries)))
        /\ malformed' = malformed + 1 /\ UNCHANGED link
  /\ UNCHANGED <<owner, reading, callers, server, data>>
-----------------------------------------------------------------------------
(* Helpers of the owner.  Definitions whose name starts with Slip are not   *)
(* part of the model: each is a plausible mistake in the one below it.     *)

\* A write to a dead link may also succeed, into a buffer.
WriteMayFail == link # "up"

SlipScheduled(subs) == IF conn /\ subs # {} THEN "armed" ELSE reconnect
Scheduled(subs) == IF subs # {} THEN "armed" ELSE reconnect

\* closeConnection, with the subscriptions left.
Retire(subs) ==
  /\ conn' = FALSE /\ connection_count' = connection_count + (IF conn THEN 1 ELSE 0)
  /\ query_set_version' = 0 /\ remote_version' = InitialVersion
  /\ reconnect' = Scheduled(subs)
  /\ link' = "down" /\ s2c' = <<>>
  /\ server_version' = InitialVersion /\ server_queries' = {}
  /\ UNCHANGED <<generation, dials>>
KeepConnection == UNCHANGED <<conn, generation, counts, versions, reconnect, wire,
                              server>>

\* deliver: between the failed send and the drop the consumer may take some.
Room(s, u, taken) ==
  IF Len(s) < Capacity THEN Append(s, u)
  ELSE LET left == SubSeq(s, taken + 1, Len(s)) IN
       Append(IF left = <<>> THEN left ELSE Tail(left), u)
Full(q) == Len(updates[q]) = Capacity
Deliver(S, u) ==
  \E taken \in [Subs -> 0 .. Capacity] :
    /\ \A q \in Subs : taken[q] = 0 \/ (q \in S /\ Full(q))
    /\ updates' = [q \in Subs |-> IF q \in S THEN Room(updates[q], u[q], taken[q])
                                  ELSE updates[q]]
    /\ published' = [q \in Subs |-> IF q \in S THEN u[q] ELSE published[q]]

SlipForgetsNothing == last_delivered
MarkedFailed == [q \in Subs |-> IF q \in active THEN Update("failure", Nothing)
                                ELSE last_delivered[q]]
PublishProtocolError ==
  /\ Deliver(active, [q \in Subs |-> Update("ProtocolError", Nothing)])
  /\ last_delivered' = MarkedFailed
  /\ protocol_errors' = protocol_errors + 1
-----------------------------------------------------------------------------
(* Turns of the select: the commands.                                      *)
Offers(c, op) == pc = "select" /\ call[c].state = "offering" /\ call[c].op = op
Answer(c, state, q) == call' = [call EXCEPT ![c].state = state, ![c].q = q]

TakeSubscribe(c) ==
  /\ Offers(c, "subscribe") /\ ~call[c].ended
  /\ LET q == next_query_id IN
     /\ next_query_id' = q + 1 /\ active' = active \cup {q}
     /\ Answer(c, "answered", q)
     /\ \/ ~conn /\ reconnect' = Scheduled(active')
           /\ UNCHANGED <<socket, counts, versions, wire, server>>
        \/ conn /\ WriteMayFail /\ Retire(active')
        \/ conn /\ ServerRead(Modify(query_set_version, {q}, {}))
           /\ query_set_version' = query_set_version + 1
           /\ UNCHANGED <<socket, counts, remote_version, reconnect>>
  /\ UNCHANGED <<delivery, pc, protocol_errors, reading, held, closer, close_signal,
                 data, trouble, malformed>>

\* The caller's context has ended before its command was taken.
RefuseSubscribe(c) ==
  /\ Offers(c, "subscribe") /\ call[c].ended
  /\ Answer(c, "refused", MaxSubs)
  /\ UNCHANGED <<owner, reading, held, closer, close_signal, wire, server, data,
                 trouble, malformed>>

TakeUnsubscribe(c) ==
  /\ Offers(c, "unsubscribe")
  /\ Answer(c, "answered", call[c].q)
  /\ LET q == call[c].q
         left == active \ {q}
     IN IF q \notin active THEN UNCHANGED <<active, delivery>> /\ KeepConnection
        ELSE /\ active' = left
             /\ last_delivered' = [last_delivered EXCEPT ![q] = NoUpdate]
             /\ awaiting_rehydration' = awaiting_rehydration \ {q}
             /\ \/ ~conn /\ reconnect' = (IF left = {} THEN "nil" ELSE reconnect)
                   /\ UNCHANGED <<socket, counts, versions, wire, server>>
                \/ conn /\ WriteMayFail /\ Retire(left)
                \/ conn /\ ServerRead(Modify(query_set_version, {}, {q}))
                   /\ query_set_version' = query_set_version + 1
                   /\ reconnect' = (IF left = {} THEN "nil" ELSE reconnect)
                   /\ UNCHANGED <<socket, counts, remote_version>>
             /\ UNCHANGED <<updates, published>>
  /\ UNCHANGED <<next_query_id, pc, protocol_errors, reading, held, closer,
                 close_signal, data, trouble, malformed>>

TakeDebug(c) ==
  /\ Offers(c, "debug")
  /\ Answer(c, "answered", MaxSubs)
  /\ IF conn THEN Retire(active) ELSE KeepConnection
  /\ UNCHANGED <<registry, delivery, pc, protocol_errors, reading, held, closer,
                 close_signal, data, trouble, malformed>>
-----------------------------------------------------------------------------
(* Turns of the select: the timers, the incoming channel, the close signal. *)
Reconnect ==
  /\ pc = "select" /\ reconnect = "armed"
  /\ reconnect' = "nil"
  /\ IF conn \/ active = {} THEN UNCHANGED <<pc, dials>>
     ELSE pc' = "dialing" /\ dials' = dials + 1
  /\ UNCHANGED <<registry, socket, versions, connection_count, delivery, protocol_errors,
                 reading, callers, wire, server, data, trouble, malformed>>

\* Whatever connect got through when it fails, the attempt is counted.
ConnectFails ==
  /\ pc = "dialing" /\ trouble < MaxTrouble
  /\ trouble' = trouble + 1 /\ pc' = "select"
  /\ connection_count' = connection_count + 1 /\ reconnect' = "armed"
  /\ \/ UNCHANGED <<generation, awaiting_rehydration>>
     \/ /\ generation' = generation + 1
        /\ awaiting_rehydration' \in {awaiting_rehydration,
             awaiting_rehydration \cup {q \in active : last_delivered[q] # NoUpdate}}
  /\ UNCHANGED <<registry, conn, versions, dials, last_delivered, updates, published,
                 protocol_errors, reading, callers, wire, server, data, malformed>>

Connected ==
  /\ pc = "dialing" /\ pc' = "select"
  /\ conn' = TRUE /\ generation' = generation + 1
  /\ awaiting_rehydration' =
       awaiting_rehydration \cup {q \in active : last_delivered[q] # NoUpdate}
  /\ query_set_version' = 1 /\ remote_version' = InitialVersion
  /\ ServerAccepts(connection_count, active)
  /\ readers' = readers \cup {[generation |-> generation + 1, has |-> <<>>]}
  /\ UNCHANGED <<registry, counts, last_delivered, updates, published, reconnect,
                 protocol_errors, incoming, callers, data, trouble, malformed>>

SlipCurrent(e) == conn
Current(e) == conn /\ e.generation = generation

SlipSuppressed(q, at) == FALSE
Suppressed(q, at) == q \in awaiting_rehydration /\ last_delivered[q] = Update("value", at)

\* handleTransition on a message that continues from remoteVersion.
HandleTransition(m) ==
  LET told == {q \in Subs : m.mods[q] # Nothing}
      changed == {q \in told \cap active : ~Suppressed(q, m.mods[q])}
      results == [q \in Subs |-> ResultUpdate(m.mods[q])]
  IN /\ remote_version' = m.end
     /\ awaiting_rehydration' = awaiting_rehydration \ (told \cup m.removed)
     /\ Deliver(changed, results)
     /\ last_delivered' = [q \in Subs |-> IF q \in changed THEN results[q]
                                          ELSE IF q \in m.removed THEN NoUpdate
                                          ELSE last_delivered[q]]
     /\ UNCHANGED <<conn, generation, counts, query_set_version, reconnect, wire, server,
                    protocol_errors>>

\* Of a Transition with an unknown modification those before it are seen.
RejectMessage(m) ==
  /\ PublishProtocolError
  /\ awaiting_rehydration' =
       awaiting_rehydration \ (IF m.type = "Unknown" /\ m.start = remote_version
                               THEN {q \in Subs : m.mods[q] # Nothing} ELSE {})
  /\ Retire(active)

Incoming ==
  /\ pc = "select" /\ incoming # <<>>
  /\ incoming' = Tail(incoming)
  /\ LET e == Head(incoming)
         m == e.has
     IN \/ ~Current(e) /\ KeepConnection /\ UNCHANGED <<delivery, protocol_errors>>
        \/ /\ Current(e) /\ m.type = "err"
           /\ Retire(active) /\ UNCHANGED <<delivery, protocol_errors>>
        \/ /\ Current(e) /\ m.type = "Transition" /\ m.start = remote_version
           /\ HandleTransition(m)
        \/ /\ Current(e) /\ m.type # "err"
           /\ m.type = "Transition" => m.start # remote_version
           /\ RejectMessage(m)
  /\ UNCHANGED <<registry, pc, readers, callers, data, trouble, malformed>>

Inactive ==
  /\ pc = "select" /\ conn /\ link = "silent"
  /\ Retire(active)
  /\ UNCHANGED <<registry, delivery, pc, protocol_errors, reading, callers, data, trouble,
                 malformed>>

\* Cancelling the context ends the readers, wherever they are, and the locals
\* of run end with it.
Stop ==
  /\ pc = "select" /\ close_signal
  /\ pc' = "done" /\ conn' = FALSE /\ reconnect' = "nil" /\ active' = {}
  /\ generation' = 0 /\ connection_count' = 0 /\ dials' = 0
  /\ query_set_version' = 0 /\ remote_version' = InitialVersion
  /\ last_delivered' = [q \in Subs |-> NoUpdate] /\ awaiting_rehydration' = {}
  /\ readers' = {} /\ incoming' = <<>>
  /\ link' = "down" /\ s2c' = <<>>
  /\ server_version' = InitialVersion /\ server_queries' = {}
  /\ UNCHANGED <<next_query_id, updates, published, protocol_errors, callers, data,
                 trouble,
                 malformed>>
-----------------------------------------------------------------------------
(* The reader goroutine of each socket.                                    *)
Open(r) == conn /\ r.generation = generation

Read(r) ==
  /\ r \in readers /\ r.has = <<>>
  /\ \/ /\ Open(r) /\ link # "silent" /\ s2c # <<>>
        /\ readers' = (readers \ {r}) \cup {[r EXCEPT !.has = <<Head(s2c)>>]}
        /\ s2c' = Tail(s2c)
     \/ /\ ~Open(r) \/ (link = "broken" /\ s2c = <<>>)
        /\ readers' = (readers \ {r}) \cup {[r EXCEPT !.has = <<ReadError>>]}
        /\ UNCHANGED s2c
  /\ UNCHANGED <<owner, incoming, callers, link, server, data, trouble, malformed>>

Put(r) ==
  /\ r \in readers /\ r.has # <<>> /\ Len(incoming) < Buffer
  /\ incoming' = Append(incoming, [generation |-> r.generation, has |-> r.has[1]])
  /\ readers' = (readers \ {r}) \cup
       (IF r.has[1] = ReadError THEN {} ELSE {[r EXCEPT !.has = <<>>]})
  /\ UNCHANGED <<owner, callers, wire, server, data, trouble, malformed>>
-----------------------------------------------------------------------------
(* The callers.                                                            *)
Starts(c, op, q) ==
  /\ call[c] = Idle
  /\ call' = [call EXCEPT ![c] = [op |-> op, state |-> "offering", q |-> q, ended |-> FALSE]]

Subscribe(c) ==
  /\ ~close_signal
  /\ next_query_id + Cardinality({d \in Callers : call[d].op = "subscribe" /\
                                    call[d].state = "offering"}) < MaxSubs
  /\ Starts(c, "subscribe", MaxSubs)
  /\ UNCHANGED <<owner, reading, held, closer, close_signal, wire, server, data,
                 trouble, malformed>>

Unsubscribe(c, q) ==
  /\ q \in held /\ held' = held \ {q}
  /\ Starts(c, "unsubscribe", q)
  /\ UNCHANGED <<owner, reading, closer, close_signal, wire, server, data, trouble,
                 malformed>>

DebugDisconnect(c) ==
  /\ trouble < MaxTrouble /\ trouble' = trouble + 1
  /\ Starts(c, "debug", MaxSubs)
  /\ UNCHANGED <<owner, reading, held, closer, close_signal, wire, server, data,
                 malformed>>

ContextEnds(c) ==
  /\ call[c].op = "subscribe" /\ ~call[c].ended
  /\ call' = [call EXCEPT ![c].ended = TRUE]
  /\ UNCHANGED <<owner, reading, held, closer, close_signal, wire, server, data,
                 trouble, malformed>>

\* A call returns with its answer, or for its context, or because the owner is
\* done; when several are so, any of them is taken.
SlipReturns(c) == call[c].state \in {"answered", "refused"} \/ call[c].ended
Returns(c) == \/ call[c].state \in {"answered", "refused"} \/ call[c].ended
              \/ pc = "done"
Return(c) ==
  /\ call[c] # Idle /\ Returns(c)
  /\ call' = [call EXCEPT ![c] = Idle]
  /\ \/ /\ call[c].op = "subscribe" /\ call[c].state = "answered"
        /\ held' = held \cup {call[c].q}
     \/ /\ call[c].op # "subscribe" \/ call[c].state # "answered" \/ call[c].ended
           \/ pc = "done"
        /\ UNCHANGED held
  /\ UNCHANGED <<owner, reading, closer, close_signal, wire, server, data, trouble,
                 malformed>>

Close ==
  /\ closer = "idle" /\ trouble < MaxTrouble /\ trouble' = trouble + 1
  /\ close_signal' = TRUE /\ closer' = "waiting"
  /\ UNCHANGED <<owner, reading, call, held, wire, server, data, malformed>>

CloseReturns ==
  /\ closer = "waiting" /\ pc = "done"
  /\ closer' = "returned"
  /\ UNCHANGED <<owner, reading, call, held, close_signal, wire, server, data,
                 trouble, malformed>>

\* Taking earlier leaves the same updates without the first of them.
Consume(q) ==
  /\ Full(q) /\ updates' = [updates EXCEPT ![q] = Tail(@)]
  /\ UNCHANGED <<registry, socket, versions, counts, last_delivered,
                 awaiting_rehydration, published, reconnect, pc, protocol_errors, reading,
                 callers, wire, server, data, trouble, malformed>>
-----------------------------------------------------------------------------
Commands(c) == \/ TakeSubscribe(c) \/ RefuseSubscribe(c)
               \/ TakeUnsubscribe(c) \/ TakeDebug(c)
Turns == Reconnect \/ Connected \/ Incoming \/ Inactive \/ Stop
Owner == Turns \/ ConnectFails \/ \E c \in Callers : Commands(c)
Reader == \E r \in readers : Read(r) \/ Put(r)
Application == \/ \E c \in Callers : \/ Subscribe(c) \/ DebugDisconnect(c)
                                     \/ ContextEnds(c) \/ Return(c)
                                     \/ \E q \in Subs : Unsubscribe(c, q)
               \/ Close \/ CloseReturns
               \/ \E q \in Subs : Consume(q)
Backend == ServerPush \/ Fault \/ \E q \in Subs : Write(q)

Next == Owner \/ Reader \/ Application \/ Backend
Spec == Init /\ [][Next]_vars

(* The owner and the readers are scheduled, select takes no ready case for  *)
(* ever at the cost of another, calls that can return do, and the backend  *)
(* answers.  Consumers, callers and commits owe nothing.                   *)
FairSpec == /\ Spec /\ WF_vars(Turns) /\ WF_vars(Reader)
            /\ \A c \in Callers : WF_vars(Commands(c)) /\ WF_vars(Return(c))
            /\ WF_vars(CloseReturns) /\ WF_vars(ServerPush)
-----------------------------------------------------------------------------
(* Whenever the owner waits in its select without a connection while a      *)
(* subscription is active, the reconnect timer is set: no order of failed  *)
(* dials, failed writes, forced disconnects, removals and new              *)
(* subscriptions leaves a client that will never connect again.            *)
ReconnectArmed ==
  pc = "select" /\ ~conn /\ active # {} => reconnect = "armed"

(* Subscribers are told of at most one ProtocolError for every bad message  *)
(* the backend sent: what a retired socket leaves in the channel, a base   *)
(* version or a connectionCount out of step never become one.              *)
NoSpuriousProtocolError == protocol_errors <= malformed

(* In a channel of updates the results are in the order of the commits, and *)
(* a value is repeated only after an error came between.                   *)
Results == {"value", "FunctionError"}
DeliveredInOrder ==
  \A q \in Subs : \A i, j \in DOMAIN updates[q] :
    LET a == updates[q][i]
        b == updates[q][j]
    IN i < j /\ a.kind \in Results /\ b.kind \in Results =>
         a.at <= b.at /\ (j = i + 1 /\ b.kind = "value" => a.at < b.at)

(* After the last commit and the last fault the last update of every active *)
(* subscription is the current result of its query, and not an error that  *)
(* a suppressed rehydration left standing.                                 *)
Converges ==
  <>[](pc = "done" \/ \A q \in active : published[q] = ResultUpdate(result[q]))

(* Subscribe, Close of a subscription, debugDisconnect and Close of the     *)
(* client return, also when the owner ends while they wait for it.         *)
CallersReturn ==
  /\ \A c \in Callers : call[c] # Idle ~> call[c] = Idle
  /\ closer = "waiting" ~> closer = "returned"
=============================================================================
