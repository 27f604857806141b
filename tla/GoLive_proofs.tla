----------------------------- MODULE GoLive_proofs -----------------------------
(***************************************************************************)
(* Theorems about GoLive, for any number of subscriptions, callers, commits*)
(* and disturbances and any size of the channels.  First that the client   *)
(* never waits without a connection and without a timer.  Then that every  *)
(* ProtocolError goes back to a bad message of the backend: for it the     *)
(* invariant follows the Transitions of the current socket through the     *)
(* link, the hands of its reader and the incoming channel, where messages  *)
(* of earlier sockets lie between them.                                    *)
(***************************************************************************)
EXTENDS GoLive, TLAPS

-----------------------------------------------------------------------------
(* Whenever the owner waits without a connection while a subscription is    *)
(* active, the timer is set: closeConnection, a failed connect and the     *)
(* first subscription all leave it so, and only the last removal stops it. *)
THEOREM ReconnectKept == Spec => []ReconnectArmed
  <1>1. Init => ReconnectArmed
    BY DEF Init, ReconnectArmed
  <1>2. ReconnectArmed /\ [Next]_vars => ReconnectArmed'
    <2> SUFFICES ASSUME ReconnectArmed, [Next]_vars, pc' = "select", ~conn', active' # {}
                 PROVE  reconnect' = "armed"
      BY DEF ReconnectArmed
    <2> USE DEF ReconnectArmed, Retire, Scheduled
    <2>1. ASSUME NEW c \in Callers, TakeSubscribe(c) PROVE reconnect' = "armed"
      BY <2>1 DEF TakeSubscribe, Offers, socket
    <2>2. ASSUME NEW c \in Callers, RefuseSubscribe(c) PROVE reconnect' = "armed"
      BY <2>2 DEF RefuseSubscribe, owner, registry, socket
    <2>3. ASSUME NEW c \in Callers, TakeUnsubscribe(c) PROVE reconnect' = "armed"
      BY <2>3 DEF TakeUnsubscribe, KeepConnection, Offers, socket
    <2>4. ASSUME NEW c \in Callers, TakeDebug(c) PROVE reconnect' = "armed"
      BY <2>4 DEF TakeDebug, KeepConnection, Offers, registry, socket
    <2>5. CASE Reconnect BY <2>5 DEF Reconnect, registry, socket
    <2>6. CASE ConnectFails BY <2>6 DEF ConnectFails
    <2>7. CASE Connected BY <2>7 DEF Connected
    <2>8. CASE Incoming
      BY <2>8 DEF Incoming, KeepConnection, HandleTransition, RejectMessage, Current,
                  registry, socket
    <2>9. CASE Inactive BY <2>9 DEF Inactive, registry
    <2>10. CASE Stop BY <2>10 DEF Stop
    <2>11. CASE UNCHANGED owner
      BY <2>11 DEF owner, registry, socket
    <2>12. CASE Reader \/ Application \/ Backend \/ UNCHANGED vars
      <3>1. (\E q \in Subs : Consume(q)) => reconnect' = "armed"
        BY DEF Consume, registry, socket
      <3> QED
        BY <2>11, <2>12, <3>1
        DEF Reader, Application, Backend, vars, Read, Put, Subscribe, Unsubscribe,
            DebugDisconnect, ContextEnds, Return, Close, CloseReturns, ServerPush, Fault,
            Write
    <2> QED
      BY <2>1, <2>2, <2>3, <2>4, <2>5, <2>6, <2>7, <2>8, <2>9, <2>10, <2>12
      DEF Next, Owner, Turns, Commands
  <1> QED BY <1>1, <1>2, PTL DEF Spec

-----------------------------------------------------------------------------
(* Sequences whose elements have no type worth naming.                     *)
IsSeq(s) == \E S : s \in Seq(S)

LEMMA EmptyIsSeq == IsSeq(<<>>) /\ Len(<<>>) = 0
  <1>1. <<>> \in Seq({}) OBVIOUS
  <1> QED BY <1>1 DEF IsSeq

LEMMA OneIsSeq ==
  ASSUME NEW e PROVE IsSeq(<<e>>) /\ Len(<<e>>) = 1 /\ <<e>>[1] = e
  <1>1. <<e>> \in Seq({e}) OBVIOUS
  <1> QED BY <1>1 DEF IsSeq

LEMMA AppendIsSeq ==
  ASSUME NEW s, NEW e, IsSeq(s)
  PROVE  /\ IsSeq(Append(s, e)) /\ Len(s) \in Nat /\ Len(Append(s, e)) = Len(s) + 1
         /\ \A i \in 1 .. Len(s) : Append(s, e)[i] = s[i]
         /\ Append(s, e)[Len(s) + 1] = e
         /\ s = <<>> <=> Len(s) = 0
         /\ Append(s, e) # <<>>
  <1>1. PICK S : s \in Seq(S) BY DEF IsSeq
  <1>2. s \in Seq(S \cup {e}) /\ e \in S \cup {e} BY <1>1
  <1>3. Append(s, e) \in Seq(S \cup {e}) BY <1>2
  <1> QED BY <1>2, <1>3 DEF IsSeq

LEMMA TailIsSeq ==
  ASSUME NEW s, IsSeq(s), s # <<>>
  PROVE  /\ IsSeq(Tail(s)) /\ Len(s) \in Nat \ {0} /\ Len(Tail(s)) = Len(s) - 1
         /\ Head(s) = s[1]
         /\ \A i \in 1 .. Len(s) - 1 : Tail(s)[i] = s[i + 1]
         /\ Tail(s) = <<>> <=> Len(s) = 1
  <1>1. PICK S : s \in Seq(S) BY DEF IsSeq
  <1>2. Tail(s) \in Seq(S) BY <1>1
  <1>3. Len(s) \in Nat \ {0} /\ Len(Tail(s)) = Len(s) - 1 BY <1>1
  <1>4. Head(s) = s[1] BY <1>1
  <1>5. \A i \in 1 .. Len(s) - 1 : Tail(s)[i] = s[i + 1] BY <1>1
  <1>6. Tail(s) = <<>> <=> Len(s) = 1 BY <1>1, <1>2, <1>3
  <1> QED BY <1>2, <1>3, <1>4, <1>5, <1>6 DEF IsSeq

LEMMA PrefixIsSeq ==
  ASSUME NEW s, IsSeq(s), NEW k \in 0 .. Len(s)
  PROVE  /\ IsSeq(SubSeq(s, 1, k)) /\ Len(SubSeq(s, 1, k)) = k
         /\ \A i \in 1 .. k : SubSeq(s, 1, k)[i] = s[i]
         /\ SubSeq(s, 1, k) = <<>> <=> k = 0
  <1>1. PICK S : s \in Seq(S) BY DEF IsSeq
  <1>2. k \in Nat /\ Len(s) \in Nat BY <1>1
  <1>3. \A i \in 1 .. k : s[i] \in S BY <1>1, <1>2
  <1>4. SubSeq(s, 1, k) = [i \in 1 .. k |-> s[i]] BY <1>1, <1>2
  <1>5. SubSeq(s, 1, k) \in Seq(S) /\ Len(SubSeq(s, 1, k)) = k BY <1>2, <1>3, <1>4
  <1>6. SubSeq(s, 1, k) = <<>> <=> k = 0 BY <1>2, <1>5
  <1> QED BY <1>4, <1>5, <1>6 DEF IsSeq

LEMMA LenIsNat == ASSUME NEW s, IsSeq(s) PROVE Len(s) \in Nat /\ (s = <<>> <=> Len(s) = 0)
  BY DEF IsSeq

-----------------------------------------------------------------------------
(* The invariant.  First numbers, channels and readers.                    *)
Numbers ==
  /\ conn \in BOOLEAN
  /\ generation \in Nat /\ connection_count \in Nat /\ dials \in Nat
  /\ protocol_errors \in Nat /\ malformed \in Nat

\* connection_count is what the backend expects of the next Connect.
Counting ==
  /\ pc = "select" /\ conn => dials = connection_count + 1
  /\ pc = "select" /\ ~conn => dials = connection_count
  /\ pc = "dialing" => ~conn /\ dials = connection_count + 1

Channels == IsSeq(incoming) /\ IsSeq(s2c)

\* No socket is newer than generation, and each has one reader at most.
Generations ==
  /\ \E H : readers \subseteq [generation : Nat, has : H]
  /\ \A r \in readers : r.generation <= generation
  /\ \A r1, r2 \in readers : r1.generation = r2.generation => r1 = r2
  /\ \A i \in 1 .. Len(incoming) : /\ incoming[i].generation \in Nat
                                   /\ incoming[i].generation <= generation

\* Then, while there is a socket, what it sent and the owner has not seen:
\* on the link, in the hands of its reader, in the channel.
Kinds == {"Transition", "Unknown"}
Unread == {i \in 1 .. Len(incoming) : incoming[i].generation = generation}
Earliest(i) == \A j \in Unread : i <= j
Latest(i) == \A j \in Unread : j <= i
Follows(i, j) == i < j /\ \A k \in Unread : k <= i \/ j <= k
IsError(i) == incoming[i].has.type = "err"

Carried ==
  /\ \A k \in 1 .. Len(s2c) : s2c[k].type \in Kinds
  /\ \A k \in 1 .. Len(s2c) - 1 : s2c[k + 1].start = s2c[k].end
  /\ link = "up" /\ s2c # <<>> => s2c[Len(s2c)].end = server_version

Typed == \A i \in Unread : incoming[i].has.type \in Kinds \cup {"err"}
Begins == \A i \in Unread :
            Earliest(i) => IsError(i) \/ incoming[i].has.start = remote_version
Chained == \A i, j \in Unread :
             Follows(i, j) => /\ ~IsError(i)
                              /\ IsError(j) \/ incoming[j].has.start = incoming[i].has.end
Arrived == Typed /\ Begins /\ Chained

\* The versions at which what has arrived ends and what is on the link begins.
EndsAt(v) ==
  /\ Unread = {} => v = remote_version
  /\ \A i \in Unread : Latest(i) => ~IsError(i) /\ incoming[i].has.end = v
Joins(v) == /\ s2c = <<>> /\ link = "up" => v = server_version
            /\ s2c # <<>> => s2c[1].start = v

FitsNothing == \E v : EndsAt(v) /\ Joins(v)
FitsMessage(m) == m.type \in Kinds /\ EndsAt(m.start) /\ Joins(m.end)
FitsError == \E v : EndsAt(v)
Fits(has) == \/ has = <<>> /\ FitsNothing
             \/ has # <<>> /\ has[1] # ReadError /\ FitsMessage(has[1])
             \/ has = <<ReadError>> /\ FitsError
HeldFits == \A r \in readers : r.generation = generation => Fits(r.has)

\* A bad message that is still to be seen has not been told of.
BadOnLink == \E k \in 1 .. Len(s2c) : s2c[k].type = "Unknown"
BadInHand == \E r \in readers : /\ r.generation = generation
                                /\ r.has # <<>> /\ r.has[1].type = "Unknown"
BadArrived == \E i \in Unread : incoming[i].has.type = "Unknown"
Untold == BadOnLink \/ BadInHand \/ BadArrived => protocol_errors < malformed

Synced == link = "up" => /\ query_set_version = server_version.querySet
                         /\ \E Q, T : server_version \in [querySet : Q, ts : T]
Stream == Carried /\ Arrived /\ HeldFits /\ Untold /\ Synced

StreamInv == /\ Numbers /\ Counting /\ Channels /\ Generations
             /\ NoSpuriousProtocolError
             /\ conn => Stream

-----------------------------------------------------------------------------
LEMMA StreamInit == Init => StreamInv
  <1> SUFFICES ASSUME Init PROVE StreamInv
    OBVIOUS
  <1>1. IsSeq(incoming) /\ IsSeq(s2c) /\ Len(incoming) = 0 BY EmptyIsSeq DEF Init
  <1>2. readers \subseteq [generation : Nat, has : {}] BY DEF Init
  <1>3. Numbers BY DEF Init, Numbers
  <1>4. Counting BY DEF Init, Counting
  <1>5. Generations BY <1>1, <1>2 DEF Init, Generations
  <1>6. ~conn /\ NoSpuriousProtocolError BY DEF Init, NoSpuriousProtocolError
  <1> QED BY <1>1, <1>3, <1>4, <1>5, <1>6 DEF StreamInv, Channels

\* What the parts of StreamInv are about.
arrivals == <<incoming, generation>>
flow == <<arrivals, conn, readers, s2c, link, server_version, remote_version,
          query_set_version, connection_count, dials, protocol_errors, malformed, pc>>

LEMMA UnreadUnmoved ==
  ASSUME UNCHANGED arrivals
  PROVE  /\ Unread' = Unread /\ incoming' = incoming
         /\ \A i : Earliest(i)' <=> Earliest(i)
         /\ \A i : Latest(i)' <=> Latest(i)
         /\ \A i, j : Follows(i, j)' <=> Follows(i, j)
         /\ \A i : IsError(i)' <=> IsError(i)
  <1>1. Unread' = Unread /\ incoming' = incoming BY DEF arrivals, Unread
  <1> QED BY <1>1 DEF Earliest, Latest, Follows, IsError

LEMMA ArrivedUnmoved ==
  ASSUME UNCHANGED <<arrivals, remote_version>>
  PROVE  /\ Arrived' <=> Arrived
         /\ \A v : EndsAt(v)' <=> EndsAt(v)
         /\ BadArrived' <=> BadArrived
  <1>1. UNCHANGED arrivals OBVIOUS
  <1> HIDE DEF arrivals
  <1>2. Typed' <=> Typed BY <1>1, UnreadUnmoved DEF Typed
  <1>3. Begins' <=> Begins BY <1>1, UnreadUnmoved DEF Begins
  <1>4. Chained' <=> Chained BY <1>1, UnreadUnmoved DEF Chained
  <1>5. \A v : EndsAt(v)' <=> EndsAt(v) BY <1>1, UnreadUnmoved DEF EndsAt
  <1>6. BadArrived' <=> BadArrived BY <1>1, UnreadUnmoved DEF BadArrived
  <1> QED BY <1>2, <1>3, <1>4, <1>5, <1>6 DEF Arrived

LEMMA Unmoved == ASSUME StreamInv, UNCHANGED flow PROVE StreamInv'
  <1>1. UNCHANGED <<arrivals, remote_version>> BY DEF flow
  <1>2. (Numbers /\ Counting /\ Channels /\ Generations /\ NoSpuriousProtocolError)'
    BY DEF StreamInv, flow, arrivals, Numbers, Counting, Channels, Generations,
           NoSpuriousProtocolError
  <1> SUFFICES ASSUME conn' PROVE Stream'
    BY <1>2 DEF StreamInv
  <1>3. Carried /\ Arrived /\ HeldFits /\ Untold /\ Synced
    BY DEF StreamInv, Stream, flow
  <1>4. \A v : EndsAt(v)' <=> EndsAt(v) BY <1>1, ArrivedUnmoved
  <1>5. \A v : Joins(v)' <=> Joins(v) BY DEF Joins, flow
  <1>6. Carried' /\ Synced' BY <1>3 DEF Carried, Synced, flow
  <1>7. Arrived' BY <1>1, <1>3, ArrivedUnmoved
  <1>8. HeldFits'
    BY <1>3, <1>4, <1>5
    DEF HeldFits, Fits, FitsNothing, FitsMessage, FitsError, flow, arrivals
  <1>9. Untold'
    <2>1. BadArrived' <=> BadArrived BY <1>1, ArrivedUnmoved
    <2> QED BY <1>3, <2>1 DEF Untold, BadOnLink, BadInHand, flow, arrivals
  <1> QED BY <1>6, <1>7, <1>8, <1>9 DEF Stream

\* Without a socket little is left to hold.
LEMMA WithoutSocket ==
  ASSUME StreamInv, conn' = FALSE, Counting', IsSeq(s2c'),
         generation' \in Nat, generation <= generation',
         connection_count' \in Nat, dials' \in Nat,
         UNCHANGED <<readers, incoming, malformed>>,
         protocol_errors' \in Nat, protocol_errors' <= malformed
  PROVE  StreamInv'
  <1>1. Numbers' BY DEF StreamInv, Numbers
  <1>2. Channels' BY DEF StreamInv, Channels
  <1>3. Generations'
    <2>1. PICK H : readers \subseteq [generation : Nat, has : H]
      BY DEF StreamInv, Generations
    <2>2. \A r \in readers : r.generation \in Nat BY <2>1
    <2>3. generation \in Nat BY DEF StreamInv, Numbers
    <2>4. \A r \in readers : r.generation <= generation'
      BY <2>2, <2>3 DEF StreamInv, Generations
    <2>5. \A i \in 1 .. Len(incoming) : /\ incoming[i].generation \in Nat
                                        /\ incoming[i].generation <= generation'
      BY <2>3 DEF StreamInv, Generations
    <2>6. \A r1, r2 \in readers : r1.generation = r2.generation => r1 = r2
      BY DEF StreamInv, Generations
    <2> QED BY <2>1, <2>4, <2>5, <2>6 DEF Generations
  <1>4. NoSpuriousProtocolError' BY DEF NoSpuriousProtocolError
  <1> QED BY <1>1, <1>2, <1>3, <1>4 DEF StreamInv

\* The backend adds a message that goes on where it is.
LEMMA ServerSends ==
  ASSUME StreamInv, conn, link = "up", NEW m, m.type \in Kinds, m.start = server_version,
         s2c' = Append(s2c, m), server_version' = m.end,
         UNCHANGED <<link, conn, generation, incoming, readers, remote_version,
                     protocol_errors>>,
         malformed' \in Nat, malformed <= malformed',
         m.type = "Unknown" => protocol_errors < malformed'
  PROVE  IsSeq(s2c') /\ (Carried /\ Arrived /\ HeldFits /\ Untold)'
  <1>1. /\ IsSeq(s2c') /\ Len(s2c) \in Nat /\ Len(s2c') = Len(s2c) + 1
        /\ \A i \in 1 .. Len(s2c) : s2c'[i] = s2c[i]
        /\ s2c'[Len(s2c) + 1] = m /\ (s2c = <<>> <=> Len(s2c) = 0) /\ s2c' # <<>>
    BY AppendIsSeq DEF StreamInv, Channels
  <1>2. Carried /\ Arrived /\ HeldFits /\ Untold BY DEF StreamInv, Stream
  <1>3. Carried' BY <1>1, <1>2 DEF Carried
  <1>4. UNCHANGED <<arrivals, remote_version>> BY DEF arrivals
  <1>5. Arrived' BY <1>2, <1>4, ArrivedUnmoved
  <1>6. ASSUME NEW v, Joins(v) PROVE Joins(v)'
    <2>1. CASE s2c = <<>> BY <1>1, <1>6, <2>1 DEF Joins
    <2>2. CASE s2c # <<>>
      <3>1. 1 \in 1 .. Len(s2c) BY <1>1, <2>2
      <3> QED BY <1>1, <1>6, <2>2, <3>1 DEF Joins
    <2> QED BY <2>1, <2>2
  <1>7. \A v : EndsAt(v)' <=> EndsAt(v) BY <1>4, ArrivedUnmoved
  <1>8. HeldFits'
    BY <1>2, <1>6, <1>7 DEF HeldFits, Fits, FitsNothing, FitsMessage, FitsError
  <1>9. Untold'
    <2> SUFFICES ASSUME (BadOnLink \/ BadInHand \/ BadArrived)'
                 PROVE  protocol_errors < malformed'
      BY DEF Untold
    <2>1. BadArrived' => BadArrived BY <1>4, ArrivedUnmoved
    <2>2. BadInHand' => BadInHand BY DEF BadInHand
    <2>3. BadOnLink' => BadOnLink \/ m.type = "Unknown"
      BY <1>1 DEF BadOnLink
    <2>4. BadOnLink \/ BadInHand \/ BadArrived => protocol_errors < malformed'
      BY <1>2 DEF Untold, StreamInv, Numbers
    <2> QED BY <2>1, <2>2, <2>3, <2>4
  <1> QED BY <1>1, <1>3, <1>5, <1>8, <1>9

-----------------------------------------------------------------------------
(* One reader goes on to hold something else.                              *)
LEMMA ReaderTakes ==
  ASSUME Generations, NEW r \in readers, NEW h, UNCHANGED <<incoming, generation>>,
         readers' = (readers \ {r}) \cup {[r EXCEPT !.has = h]}
  PROVE  /\ Generations'
         /\ \A x \in readers' : x.generation = generation =>
              \/ r.generation = generation /\ x.has = h
              \/ r.generation # generation /\ x \in readers
  <1>1. PICK H : readers \subseteq [generation : Nat, has : H] BY DEF Generations
  <1>2. r \in [generation : Nat, has : H] BY <1>1
  <1> DEFINE t == [r EXCEPT !.has = h]
  <1>3. t.generation = r.generation /\ t.has = h /\ t \in [generation : Nat, has : H \cup {h}]
    BY <1>2
  <1>4. \A x \in readers' : x = t \/ (x \in readers /\ x # r) OBVIOUS
  <1>5. readers' \subseteq [generation : Nat, has : H \cup {h}]
    <2> SUFFICES ASSUME NEW x \in readers' PROVE x \in [generation : Nat, has : H \cup {h}]
      OBVIOUS
    <2>1. CASE x = t BY <1>3, <2>1
    <2>2. CASE x \in readers
      <3>1. x \in [generation : Nat, has : H] BY <1>1, <2>2
      <3> QED BY <3>1
    <2> QED BY <1>4, <2>1, <2>2
  <1> HIDE DEF t
  <1>6. \A x \in readers' : x.generation <= generation'
    BY <1>3, <1>4 DEF Generations
  <1>7. \A r1, r2 \in readers' : r1.generation = r2.generation => r1 = r2
    BY <1>3, <1>4 DEF Generations
  <1>8. Generations' BY <1>5, <1>6, <1>7 DEF Generations
  <1>9. \A x \in readers' : x.generation = generation =>
          \/ r.generation = generation /\ x.has = h
          \/ r.generation # generation /\ x \in readers
    BY <1>3, <1>4 DEF Generations
  <1> QED BY <1>8, <1>9

\* The first message leaves the link.
LEMMA LinkShifts ==
  ASSUME Carried, IsSeq(s2c), s2c # <<>>, s2c' = Tail(s2c), NEW m, m = s2c[1],
         UNCHANGED <<link, server_version>>
  PROVE  /\ IsSeq(s2c') /\ Carried' /\ Head(s2c) = m
         /\ m.type \in Kinds /\ Joins(m.end)'
         /\ BadOnLink' => BadOnLink
         /\ m.type = "Unknown" => BadOnLink
  <1>1. /\ IsSeq(s2c') /\ Len(s2c) \in Nat \ {0} /\ Len(s2c') = Len(s2c) - 1
        /\ Head(s2c) = s2c[1]
        /\ \A i \in 1 .. Len(s2c) - 1 : s2c'[i] = s2c[i + 1]
        /\ s2c' = <<>> <=> Len(s2c) = 1
    BY TailIsSeq
  <1>2. 1 \in 1 .. Len(s2c) BY <1>1
  <1>3. m.type \in Kinds BY <1>2 DEF Carried
  <1>4. \A k \in 1 .. Len(s2c') : k + 1 \in 1 .. Len(s2c) /\ s2c'[k] = s2c[k + 1] BY <1>1
  <1>5. Carried'
    <2>1. \A k \in 1 .. Len(s2c') : s2c'[k].type \in Kinds BY <1>4 DEF Carried
    <2>2. ASSUME NEW k \in 1 .. Len(s2c') - 1 PROVE s2c'[k + 1].start = s2c'[k].end
      <3>1. /\ k \in 1 .. Len(s2c') /\ k + 1 \in 1 .. Len(s2c') /\ k + 1 \in 1 .. Len(s2c) - 1
        BY <1>1
      <3>2. s2c'[k] = s2c[k + 1] /\ s2c'[k + 1] = s2c[(k + 1) + 1] BY <1>4, <3>1
      <3> QED BY <3>1, <3>2 DEF Carried
    <2>3. ASSUME link' = "up", s2c' # <<>> PROVE s2c'[Len(s2c')].end = server_version'
      <3>1. Len(s2c') \in 1 .. Len(s2c') /\ Len(s2c') + 1 = Len(s2c) BY <1>1, <2>3
      <3>2. s2c'[Len(s2c')] = s2c[Len(s2c)] BY <1>4, <3>1
      <3> QED BY <2>3, <3>2 DEF Carried
    <2> QED BY <2>1, <2>2, <2>3 DEF Carried
  <1>6. Joins(m.end)'
    <2>1. ASSUME s2c' = <<>>, link' = "up" PROVE m.end = server_version'
      <3>1. Len(s2c) = 1 BY <1>1, <2>1
      <3> QED BY <2>1, <3>1 DEF Carried
    <2>2. ASSUME s2c' # <<>> PROVE s2c'[1].start = m.end
      <3>1. 1 \in 1 .. Len(s2c) - 1 /\ 1 \in 1 .. Len(s2c') BY <1>1, <2>2
      <3>2. s2c'[1] = s2c[1 + 1] BY <1>4, <3>1
      <3> QED BY <3>1, <3>2 DEF Carried
    <2> QED BY <2>1, <2>2 DEF Joins
  <1>7. BadOnLink' => BadOnLink BY <1>4 DEF BadOnLink
  <1>8. m.type = "Unknown" => BadOnLink BY <1>2 DEF BadOnLink
  <1> QED BY <1>1, <1>3, <1>5, <1>6, <1>7, <1>8

LEMMA ReadKeeps == ASSUME StreamInv, NEW r \in readers, Read(r) PROVE StreamInv'
  <1> USE DEF StreamInv, Stream
  <1>1. UNCHANGED <<conn, generation, incoming, link, server_version, remote_version,
                    query_set_version, connection_count, dials, protocol_errors, malformed,
                    pc>>
    BY DEF Read, owner, registry, socket, versions, counts, server
  <1>2. (Numbers /\ Counting /\ NoSpuriousProtocolError)'
    BY <1>1 DEF Numbers, Counting, NoSpuriousProtocolError
  <1>3. UNCHANGED <<arrivals, remote_version>> BY <1>1 DEF arrivals
  <1>4. conn => Synced' BY <1>1 DEF Synced
  <1>5. conn => Arrived' /\ \A v : EndsAt(v)' <=> EndsAt(v) BY <1>3, ArrivedUnmoved
  <1>6. BadArrived' <=> BadArrived BY <1>3, ArrivedUnmoved
  <1>7. CASE /\ Open(r) /\ link # "silent" /\ s2c # <<>>
             /\ readers' = (readers \ {r}) \cup {[r EXCEPT !.has = <<Head(s2c)>>]}
             /\ s2c' = Tail(s2c)
    <2>1. /\ conn /\ r.generation = generation
          /\ Carried /\ HeldFits /\ Untold /\ IsSeq(s2c)
      BY <1>7 DEF Open, Channels
    <2>0. PICK m : m = s2c[1] OBVIOUS
    <2>2. /\ IsSeq(s2c') /\ Carried' /\ Head(s2c) = m
          /\ m.type \in Kinds /\ Joins(m.end)'
          /\ BadOnLink' => BadOnLink
          /\ m.type = "Unknown" => BadOnLink
      BY <1>1, <1>7, <2>1, <2>0, LinkShifts
    <2>3. /\ Generations'
          /\ \A x \in readers' : x.generation = generation =>
               \/ r.generation = generation /\ x.has = <<Head(s2c)>>
               \/ r.generation # generation /\ x \in readers
      BY <1>1, <1>7, ReaderTakes
    <2>4. \A x \in readers' : x.generation = generation' => x.has = <<m>>
      BY <1>1, <2>1, <2>2, <2>3
    <2>5. FitsNothing
      <3>1. r.has = <<>> /\ Fits(r.has) BY <2>1 DEF Read, HeldFits
      <3> QED BY <3>1 DEF Fits
    <2>6. EndsAt(m.start)' BY <1>5, <1>7, <2>0, <2>1, <2>5 DEF FitsNothing, Joins
    <2>7. <<m>> # <<>> /\ <<m>>[1] = m OBVIOUS
    <2>8. m # ReadError BY <2>2 DEF Kinds, ReadError, Message
    <2>9. HeldFits'
      BY <2>2, <2>4, <2>6, <2>7, <2>8 DEF HeldFits, Fits, FitsMessage
    <2>10. Untold'
      <3>1. BadInHand' => BadOnLink BY <2>2, <2>4, <2>7 DEF BadInHand
      <3> QED BY <1>1, <1>6, <2>1, <2>2, <3>1 DEF Untold
    <2>11. Channels' BY <1>1, <2>2 DEF Channels
    <2> QED BY <1>2, <1>4, <1>5, <2>1, <2>2, <2>3, <2>9, <2>10, <2>11
  <1>8. CASE /\ ~Open(r) \/ (link = "broken" /\ s2c = <<>>)
             /\ readers' = (readers \ {r}) \cup {[r EXCEPT !.has = <<ReadError>>]}
             /\ UNCHANGED s2c
    <2>1. /\ Generations'
          /\ \A x \in readers' : x.generation = generation =>
               \/ r.generation = generation /\ x.has = <<ReadError>>
               \/ r.generation # generation /\ x \in readers
      BY <1>1, <1>8, ReaderTakes
    <2>2. Channels' BY <1>1, <1>8 DEF Channels
    <2> SUFFICES ASSUME conn' PROVE Stream'
      BY <1>2, <2>1, <2>2
    <2>3. Carried /\ HeldFits /\ Untold BY <1>1
    <2>4. Carried' BY <1>1, <1>8, <2>3 DEF Carried
    <2>5. \A v : Joins(v)' <=> Joins(v) BY <1>1, <1>8 DEF Joins
    <2>6. ASSUME NEW x \in readers', x.generation = generation' PROVE Fits(x.has)'
      <3>1. CASE r.generation # generation /\ x \in readers
        <4>1. Fits(x.has) BY <1>1, <2>3, <2>6, <3>1 DEF HeldFits
        <4> QED BY <1>1, <1>5, <2>5, <4>1
                DEF Fits, FitsNothing, FitsMessage, FitsError
      <3>2. CASE r.generation = generation /\ x.has = <<ReadError>>
        <4>1. r.has = <<>> /\ Fits(r.has) BY <2>3, <3>2 DEF Read, HeldFits
        <4>2. FitsNothing BY <4>1 DEF Fits
        <4>3. FitsError' BY <1>1, <1>5, <4>2 DEF FitsNothing, FitsError
        <4> QED BY <3>2, <4>3 DEF Fits
      <3> QED BY <1>1, <2>1, <2>6, <3>1, <3>2
    <2>7. HeldFits' BY <2>6 DEF HeldFits
    <2>8. BadInHand' => BadInHand
      <3>1. <<ReadError>>[1].type # "Unknown" BY DEF ReadError, Message
      <3> QED BY <1>1, <2>1, <3>1 DEF BadInHand
    <2>9. Untold' BY <1>1, <1>6, <1>8, <2>3, <2>8 DEF Untold, BadOnLink
    <2> QED BY <1>1, <1>4, <1>5, <2>4, <2>7, <2>9
  <1> QED BY <1>7, <1>8 DEF Read

-----------------------------------------------------------------------------
(* The channel gets one message more.                                      *)
LEMMA ChannelGrows ==
  ASSUME IsSeq(incoming), NEW e, incoming' = Append(incoming, e), UNCHANGED generation,
         NEW n, n = Len(incoming) + 1
  PROVE  /\ IsSeq(incoming') /\ n \in Nat /\ Len(incoming') = n /\ incoming'[n] = e
         /\ \A i \in 1 .. Len(incoming) : incoming'[i] = incoming[i]
         /\ Unread \subseteq Nat
         /\ \A i \in Unread : i < n /\ incoming'[i] = incoming[i]
         /\ e.generation = generation => Unread' = Unread \cup {n}
         /\ e.generation # generation => Unread' = Unread
  <1>1. /\ IsSeq(incoming') /\ Len(incoming) \in Nat /\ Len(incoming') = n
        /\ \A i \in 1 .. Len(incoming) : incoming'[i] = incoming[i]
        /\ incoming'[n] = e
    BY AppendIsSeq
  <1>2. 1 .. n = (1 .. Len(incoming)) \cup {n} BY <1>1
  <1>3. Unread' = {i \in (1 .. Len(incoming)) \cup {n} : incoming'[i].generation = generation}
    BY <1>1, <1>2 DEF Unread
  <1>4. e.generation = generation => Unread' = Unread \cup {n}
    BY <1>1, <1>3 DEF Unread
  <1>5. e.generation # generation => Unread' = Unread
    BY <1>1, <1>3 DEF Unread
  <1>6. \A i \in Unread : i \in Nat /\ i < n /\ incoming'[i] = incoming[i]
    BY <1>1 DEF Unread
  <1>7. n \in Nat BY <1>1
  <1>8. Unread \subseteq Nat BY <1>6
  <1> QED BY <1>1, <1>4, <1>5, <1>6, <1>7, <1>8

\* What a retired socket adds changes nothing.
LEMMA StaleArrives ==
  ASSUME IsSeq(incoming), NEW e, incoming' = Append(incoming, e), e.generation # generation,
         UNCHANGED <<generation, remote_version>>
  PROVE  /\ Arrived => Arrived'
         /\ \A v : EndsAt(v)' <=> EndsAt(v)
         /\ BadArrived' <=> BadArrived
  <1>0. PICK n : n = Len(incoming) + 1 OBVIOUS
  <1>1. Unread' = Unread /\ \A i \in Unread : incoming'[i] = incoming[i]
    BY <1>0, ChannelGrows
  <1>2. /\ \A i : Earliest(i)' <=> Earliest(i)
        /\ \A i : Latest(i)' <=> Latest(i)
        /\ \A i, j : Follows(i, j)' <=> Follows(i, j)
    BY <1>1 DEF Earliest, Latest, Follows
  <1>3. \A i \in Unread : IsError(i)' <=> IsError(i) BY <1>1 DEF IsError
  <1>4. Typed => Typed' BY <1>1 DEF Typed
  <1>5. Begins => Begins' BY <1>1, <1>2, <1>3 DEF Begins
  <1>6. Chained => Chained'
    <2> SUFFICES ASSUME Chained, NEW i \in Unread, NEW j \in Unread, Follows(i, j)'
                 PROVE  /\ ~IsError(i)'
                        /\ IsError(j)' \/ incoming'[j].has.start = incoming'[i].has.end
      BY <1>1 DEF Chained
    <2>1. Follows(i, j) BY <1>2
    <2>2. ~IsError(i) /\ (IsError(j) \/ incoming[j].has.start = incoming[i].has.end)
      BY <2>1 DEF Chained
    <2> QED BY <1>1, <1>3, <2>2
  <1>7. \A v : EndsAt(v)' <=> EndsAt(v) BY <1>1, <1>2, <1>3 DEF EndsAt
  <1>8. BadArrived' <=> BadArrived BY <1>1 DEF BadArrived
  <1> QED BY <1>4, <1>5, <1>6, <1>7, <1>8 DEF Arrived

\* What the current one adds goes on where the channel ended.
LEMMA FreshArrives ==
  ASSUME IsSeq(incoming), Arrived, NEW v, EndsAt(v),
         NEW m, m.type \in Kinds \cup {"err"}, m.type = "err" \/ m.start = v,
         incoming' = Append(incoming, [generation |-> generation, has |-> m]),
         UNCHANGED <<generation, remote_version>>
  PROVE  /\ Arrived'
         /\ m.type # "err" => EndsAt(m.end)'
         /\ BadArrived' => BadArrived \/ m.type = "Unknown"
  <1>0. PICK n : n = Len(incoming) + 1 OBVIOUS
  <1>1. PICK e : e = [generation |-> generation, has |-> m] OBVIOUS
  <1>2. e.generation = generation /\ e.has = m BY <1>1
  <1>3. /\ n \in Nat /\ incoming'[n] = e /\ Unread' = Unread \cup {n} /\ Unread \subseteq Nat
        /\ \A i \in Unread : i < n /\ incoming'[i] = incoming[i]
    BY <1>0, <1>1, <1>2, ChannelGrows
  <1>4. IsError(n)' <=> m.type = "err" BY <1>2, <1>3 DEF IsError
  <1>5. \A i \in Unread : IsError(i)' <=> IsError(i) BY <1>3 DEF IsError
  <1>6. n \notin Unread /\ n \in Unread' BY <1>3
  <1>7. Typed' BY <1>2, <1>3 DEF Typed, Arrived
  <1>8. Begins'
    <2> SUFFICES ASSUME NEW i \in Unread', Earliest(i)'
                 PROVE  IsError(i)' \/ incoming'[i].has.start = remote_version
      BY DEF Begins
    <2>1. CASE i \in Unread
      <3>1. Earliest(i) BY <1>3 DEF Earliest
      <3> QED BY <1>3, <1>5, <2>1, <3>1 DEF Begins, Arrived
    <2>2. CASE i = n
      <3>1. Unread = {} BY <1>3, <1>6, <2>2 DEF Earliest
      <3>2. v = remote_version BY <3>1 DEF EndsAt
      <3> QED BY <1>2, <1>3, <1>4, <2>2, <3>2
    <2> QED BY <1>3, <2>1, <2>2
  <1>9. Chained'
    <2> SUFFICES ASSUME NEW i \in Unread', NEW j \in Unread', Follows(i, j)'
                 PROVE  /\ ~IsError(i)'
                        /\ IsError(j)' \/ incoming'[j].has.start = incoming'[i].has.end
      BY DEF Chained
    <2>1. i < j /\ \A k \in Unread' : k <= i \/ j <= k BY DEF Follows
    <2>2. i \in Unread BY <1>3, <2>1
    <2>3. CASE j \in Unread
      <3>1. Follows(i, j) BY <1>3, <2>1 DEF Follows
      <3> QED BY <1>3, <1>5, <2>2, <2>3, <3>1 DEF Chained, Arrived
    <2>4. CASE j = n
      <3>1. Latest(i) BY <1>3, <2>1, <2>4 DEF Latest
      <3>2. ~IsError(i) /\ incoming[i].has.end = v BY <2>2, <3>1 DEF EndsAt
      <3> QED BY <1>2, <1>3, <1>4, <1>5, <2>2, <2>4, <3>2
    <2> QED BY <1>3, <2>3, <2>4
  <1>10. ASSUME m.type # "err" PROVE EndsAt(m.end)'
    <2>1. ASSUME NEW i \in Unread', Latest(i)' PROVE i = n
      <3>1. n <= i BY <1>6, <2>1 DEF Latest
      <3>2. i \in Unread => i < n /\ i \in Nat BY <1>3
      <3> QED BY <1>3, <3>1, <3>2
    <2> QED BY <1>2, <1>3, <1>4, <1>6, <1>10, <2>1 DEF EndsAt
  <1>11. BadArrived' => BadArrived \/ m.type = "Unknown"
    BY <1>2, <1>3 DEF BadArrived
  <1> QED BY <1>7, <1>8, <1>9, <1>10, <1>11 DEF Arrived

LEMMA PutKeeps == ASSUME StreamInv, NEW r \in readers, Put(r) PROVE StreamInv'
  <1> USE DEF StreamInv, Stream
  <1>1. UNCHANGED <<conn, generation, link, s2c, server_version, remote_version,
                    query_set_version, connection_count, dials, protocol_errors, malformed,
                    pc>>
    BY DEF Put, owner, registry, socket, versions, counts, server, wire
  <1>2. (Numbers /\ Counting /\ NoSpuriousProtocolError)'
    BY <1>1 DEF Numbers, Counting, NoSpuriousProtocolError
  <1>3. PICK m : m = r.has[1] OBVIOUS
  <1>4. PICK e : e = [generation |-> r.generation, has |-> m] OBVIOUS
  <1>5. /\ incoming' = Append(incoming, e) /\ e.generation = r.generation /\ e.has = m
        /\ r.has # <<>> /\ IsSeq(incoming)
    BY <1>3, <1>4 DEF Put, Channels
  <1>6. PICK n : n = Len(incoming) + 1 OBVIOUS
  <1>7. /\ IsSeq(incoming') /\ n \in Nat /\ Len(incoming') = n /\ incoming'[n] = e
        /\ \A i \in 1 .. Len(incoming) : incoming'[i] = incoming[i]
    BY <1>1, <1>5, <1>6, ChannelGrows
  <1>8. /\ readers' \subseteq (readers \ {r}) \cup {[r EXCEPT !.has = <<>>]}
        /\ m = ReadError => readers' = readers \ {r}
    BY <1>3 DEF Put
  <1>9. PICK H : readers \subseteq [generation : Nat, has : H] BY DEF Generations
  <1>10. r \in [generation : Nat, has : H] BY <1>9
  <1> DEFINE t == [r EXCEPT !.has = <<>>]
  <1>11. /\ t.generation = r.generation /\ t.has = <<>>
         /\ t \in [generation : Nat, has : H \cup {<<>>}]
    BY <1>10
  <1> HIDE DEF t
  <1>12. \A x \in readers' : x = t \/ (x \in readers /\ x # r) BY <1>8 DEF t
  <1>13. Generations'
    <2>1. readers' \subseteq [generation : Nat, has : H \cup {<<>>}]
      <3> SUFFICES ASSUME NEW x \in readers' PROVE x \in [generation : Nat, has : H \cup {<<>>}]
        OBVIOUS
      <3>1. CASE x = t BY <1>11, <3>1
      <3>2. CASE x \in readers
        <4>1. x \in [generation : Nat, has : H] BY <1>9, <3>2
        <4> QED BY <4>1
      <3> QED BY <1>12, <3>1, <3>2
    <2>2. \A x \in readers' : x.generation <= generation'
      BY <1>1, <1>11, <1>12 DEF Generations
    <2>3. \A r1, r2 \in readers' : r1.generation = r2.generation => r1 = r2
      BY <1>11, <1>12 DEF Generations
    <2>4. r.generation \in Nat /\ r.generation <= generation BY <1>10 DEF Generations
    <2>5. \A i \in 1 .. Len(incoming') : i = n \/ i \in 1 .. Len(incoming)
      BY <1>5, <1>6, <1>7, LenIsNat
    <2>6. \A i \in 1 .. Len(incoming') : /\ incoming'[i].generation \in Nat
                                         /\ incoming'[i].generation <= generation'
      BY <1>1, <1>5, <1>7, <2>4, <2>5 DEF Generations
    <2> QED BY <2>1, <2>2, <2>3, <2>6 DEF Generations
  <1>14. Channels' BY <1>1, <1>7 DEF Channels
  <1> SUFFICES ASSUME conn' PROVE Stream'
    BY <1>2, <1>13, <1>14
  <1>15. Carried /\ Arrived /\ HeldFits /\ Untold /\ Synced BY <1>1
  <1>16. Carried' /\ Synced' BY <1>1, <1>15 DEF Carried, Synced
  <1>17. \A v : Joins(v)' <=> Joins(v) BY <1>1 DEF Joins
  <1>18. BadOnLink' <=> BadOnLink BY <1>1 DEF BadOnLink
  <1>19. CASE r.generation # generation
    <2>1. /\ Arrived' /\ (BadArrived' <=> BadArrived)
          /\ \A v : EndsAt(v)' <=> EndsAt(v)
      BY <1>1, <1>5, <1>15, <1>19, StaleArrives
    <2>2. \A x \in readers' : x.generation = generation' => x \in readers
      BY <1>1, <1>11, <1>12, <1>19
    <2>3. ASSUME NEW x \in readers', x.generation = generation' PROVE Fits(x.has)'
      <3>1. Fits(x.has) BY <1>1, <1>15, <2>2, <2>3 DEF HeldFits
      <3> QED BY <1>17, <2>1, <3>1 DEF Fits, FitsNothing, FitsMessage, FitsError
    <2>4. HeldFits' BY <2>3 DEF HeldFits
    <2>5. BadInHand' => BadInHand BY <1>1, <2>2 DEF BadInHand
    <2>6. Untold' BY <1>1, <1>15, <1>18, <2>1, <2>5 DEF Untold
    <2> QED BY <1>16, <2>1, <2>4, <2>6
  <1>20. CASE r.generation = generation
    <2>1. Fits(r.has) BY <1>15, <1>20 DEF HeldFits
    <2>2. e = [generation |-> generation, has |-> m] BY <1>4, <1>20
    <2>3. \A x \in readers' : x.generation = generation' => x = t /\ x.has = <<>>
      BY <1>1, <1>11, <1>12, <1>20 DEF Generations
    <2>4. m.type = "Unknown" => BadInHand BY <1>3, <1>5, <1>20 DEF BadInHand
    <2>5. ~BadInHand' BY <2>3 DEF BadInHand
    <2>6. CASE m # ReadError
      <3>1. m \notin {ReadError} /\ r.has # <<ReadError>> BY <1>3, <2>6
      <3>2. FitsMessage(m) BY <1>3, <1>5, <2>1, <3>1 DEF Fits
      <3>3. m.type \in Kinds /\ m.type # "err" /\ EndsAt(m.start) /\ Joins(m.end)
        BY <3>2 DEF FitsMessage, Kinds
      <3>4. /\ Arrived' /\ EndsAt(m.end)'
            /\ BadArrived' => BadArrived \/ m.type = "Unknown"
        BY <1>1, <1>5, <1>15, <2>2, <3>3, FreshArrives
      <3>5. FitsNothing' BY <1>17, <3>3, <3>4 DEF FitsNothing
      <3>6. HeldFits' BY <2>3, <3>5 DEF HeldFits, Fits
      <3>7. Untold' BY <1>1, <1>15, <1>18, <2>4, <2>5, <3>4 DEF Untold
      <3> QED BY <1>16, <3>4, <3>6, <3>7
    <2>7. CASE m = ReadError
      <3>1. m.type = "err" BY <2>7 DEF ReadError, Message
      <3>2. FitsError
        BY <1>3, <1>5, <2>1, <2>7, <3>1 DEF Fits, FitsNothing, FitsMessage, FitsError, Kinds
      <3>3. PICK v : EndsAt(v) BY <3>2 DEF FitsError
      <3>4. /\ Arrived' /\ (BadArrived' => BadArrived \/ m.type = "Unknown")
        BY <1>1, <1>5, <1>15, <2>2, <3>1, <3>3, FreshArrives
      <3>5. \A x \in readers' : x.generation # generation'
        BY <1>1, <1>8, <1>20, <2>7 DEF Generations
      <3>6. HeldFits' BY <3>5 DEF HeldFits
      <3>7. Untold' BY <1>1, <1>15, <1>18, <2>5, <3>1, <3>4 DEF Untold
      <3> QED BY <1>16, <3>4, <3>6, <3>7
    <2> QED BY <2>6, <2>7
  <1> QED BY <1>19, <1>20

-----------------------------------------------------------------------------
(* The first message leaves the channel, and the others move up.           *)
LEMMA ChannelShifts ==
  ASSUME IsSeq(incoming), incoming # <<>>, incoming' = Tail(incoming), UNCHANGED generation
  PROVE  /\ IsSeq(incoming') /\ Len(incoming) \in Nat \ {0}
         /\ Len(incoming') = Len(incoming) - 1 /\ Head(incoming) = incoming[1]
         /\ \A i \in 1 .. Len(incoming') : incoming'[i] = incoming[i + 1]
         /\ Unread \subseteq Nat \ {0} /\ Unread' \subseteq Nat
         /\ \A i \in Unread' : i + 1 \in Unread /\ incoming'[i] = incoming[i + 1]
         /\ \A i \in Unread : i # 1 => \E k \in Unread' : i = k + 1
         /\ incoming[1].generation = generation <=> 1 \in Unread
  <1>1. /\ IsSeq(incoming') /\ Len(incoming) \in Nat \ {0}
        /\ Len(incoming') = Len(incoming) - 1 /\ Head(incoming) = incoming[1]
        /\ \A i \in 1 .. Len(incoming) - 1 : incoming'[i] = incoming[i + 1]
    BY TailIsSeq
  <1>2. Unread \subseteq Nat \ {0} /\ Unread' \subseteq Nat BY <1>1 DEF Unread
  <1>3. \A i \in 1 .. Len(incoming') : incoming'[i] = incoming[i + 1] BY <1>1
  <1>4. ASSUME NEW i \in Unread' PROVE i + 1 \in Unread /\ incoming'[i] = incoming[i + 1]
    <2>1. i \in 1 .. Len(incoming') /\ incoming'[i].generation = generation
      BY DEF Unread
    <2>2. i + 1 \in 1 .. Len(incoming) BY <1>1, <2>1
    <2> QED BY <1>3, <2>1, <2>2 DEF Unread
  <1>5. ASSUME NEW i \in Unread, i # 1 PROVE \E k \in Unread' : i = k + 1
    <2>1. i \in 1 .. Len(incoming) /\ incoming[i].generation = generation BY DEF Unread
    <2>2. i - 1 \in 1 .. Len(incoming') /\ i = (i - 1) + 1 BY <1>1, <1>5, <2>1
    <2>3. i - 1 \in Unread' BY <1>3, <2>1, <2>2 DEF Unread
    <2> QED BY <2>2, <2>3
  <1>6. incoming[1].generation = generation <=> 1 \in Unread BY <1>1 DEF Unread
  <1> QED BY <1>1, <1>2, <1>3, <1>4, <1>5, <1>6

\* Of what was the second message or a later one, the order stays.
LEMMA OrderShifts ==
  ASSUME IsSeq(incoming), incoming # <<>>, incoming' = Tail(incoming), UNCHANGED generation
  PROVE  /\ \A i \in Unread' : IsError(i)' <=> IsError(i + 1)
         /\ \A i, j \in Unread' : Follows(i, j)' => Follows(i + 1, j + 1)
         /\ \A i \in Unread' : Latest(i)' => Latest(i + 1)
         /\ \A i \in Unread' : Earliest(i)' => IF 1 \in Unread THEN Follows(1, i + 1)
                                                               ELSE Earliest(i + 1)
  <1>1. /\ Unread \subseteq Nat \ {0} /\ Unread' \subseteq Nat
        /\ \A i \in Unread' : i + 1 \in Unread /\ incoming'[i] = incoming[i + 1]
        /\ \A i \in Unread : i # 1 => \E k \in Unread' : i = k + 1
    BY ChannelShifts
  <1>2. \A i \in Unread' : i \in Nat /\ i # 0
    BY ChannelShifts DEF Unread
  <1>3. \A i \in Unread' : IsError(i)' <=> IsError(i + 1) BY <1>1 DEF IsError
  <1>4. ASSUME NEW i \in Unread', NEW j \in Unread', Follows(i, j)'
        PROVE  Follows(i + 1, j + 1)
    <2>1. i < j /\ \A k \in Unread' : k <= i \/ j <= k BY <1>4 DEF Follows
    <2>2. i \in Nat /\ j \in Nat BY <1>1
    <2>3. ASSUME NEW k \in Unread PROVE k <= i + 1 \/ j + 1 <= k
      <3>1. CASE k = 1 BY <2>2, <3>1
      <3>2. CASE k # 1
        <4>1. PICK l \in Unread' : k = l + 1 BY <1>1, <3>2
        <4>2. l \in Nat /\ (l <= i \/ j <= l) BY <1>1, <2>1
        <4> QED BY <2>2, <4>1, <4>2
      <3> QED BY <3>1, <3>2
    <2> QED BY <2>1, <2>2, <2>3 DEF Follows
  <1>5. ASSUME NEW i \in Unread', Latest(i)' PROVE Latest(i + 1)
    <2>1. i \in Nat BY <1>1
    <2>2. ASSUME NEW k \in Unread PROVE k <= i + 1
      <3>1. CASE k = 1 BY <2>1, <3>1
      <3>2. CASE k # 1
        <4>1. PICK l \in Unread' : k = l + 1 BY <1>1, <3>2
        <4>2. l \in Nat /\ l <= i BY <1>1, <1>5 DEF Latest
        <4> QED BY <2>1, <4>1, <4>2
      <3> QED BY <3>1, <3>2
    <2> QED BY <2>2 DEF Latest
  <1>6. ASSUME NEW i \in Unread', Earliest(i)'
        PROVE  IF 1 \in Unread THEN Follows(1, i + 1) ELSE Earliest(i + 1)
    <2>1. i \in Nat /\ i # 0 BY <1>2
    <2>2. ASSUME NEW k \in Unread, k # 1 PROVE i + 1 <= k
      <3>1. PICK l \in Unread' : k = l + 1 BY <1>1, <2>2
      <3>2. l \in Nat /\ i <= l BY <1>1, <1>6 DEF Earliest
      <3> QED BY <2>1, <3>1, <3>2
    <2>3. CASE 1 \in Unread
      <3>1. 1 < i + 1 BY <2>1
      <3>2. \A k \in Unread : k <= 1 \/ i + 1 <= k
        <4> SUFFICES ASSUME NEW k \in Unread PROVE k <= 1 \/ i + 1 <= k
          OBVIOUS
        <4>1. CASE k = 1 BY <4>1
        <4>2. CASE k # 1 BY <2>2, <4>2
        <4> QED BY <4>1, <4>2
      <3> QED BY <2>3, <3>1, <3>2 DEF Follows
    <2>4. CASE 1 \notin Unread
      <3>1. \A k \in Unread : i + 1 <= k BY <2>2, <2>4
      <3> QED BY <2>4, <3>1 DEF Earliest
    <2> QED BY <2>3, <2>4
  <1> QED BY <1>3, <1>4, <1>5, <1>6

\* Passing over a message of a retired socket, or having handled the earliest
\* of this one, the owner sees a stream that starts at its version.
LEMMA FirstLeaves ==
  ASSUME IsSeq(incoming), incoming # <<>>, incoming' = Tail(incoming), UNCHANGED generation,
         Arrived,
         1 \notin Unread => UNCHANGED remote_version,
         1 \in Unread => ~IsError(1) /\ remote_version' = incoming[1].has.end
  PROVE  /\ Arrived'
         /\ \A v : EndsAt(v) => EndsAt(v)'
         /\ BadArrived' => BadArrived
  <1>1. /\ Unread \subseteq Nat \ {0} /\ Unread' \subseteq Nat
        /\ \A i \in Unread' : i + 1 \in Unread /\ incoming'[i] = incoming[i + 1]
        /\ \A i \in Unread : i # 1 => \E k \in Unread' : i = k + 1
    BY ChannelShifts
  <1>2. /\ \A i \in Unread' : IsError(i)' <=> IsError(i + 1)
        /\ \A i, j \in Unread' : Follows(i, j)' => Follows(i + 1, j + 1)
        /\ \A i \in Unread' : Latest(i)' => Latest(i + 1)
        /\ \A i \in Unread' : Earliest(i)' => IF 1 \in Unread THEN Follows(1, i + 1)
                                                              ELSE Earliest(i + 1)
    BY OrderShifts
  <1>3. Typed' BY <1>1 DEF Typed, Arrived
  <1>4. Begins'
    <2> SUFFICES ASSUME NEW i \in Unread', Earliest(i)'
                 PROVE  IsError(i)' \/ incoming'[i].has.start = remote_version'
      BY DEF Begins
    <2>1. i + 1 \in Unread /\ incoming'[i] = incoming[i + 1] /\ (IsError(i)' <=> IsError(i + 1))
      BY <1>1, <1>2
    <2>2. CASE 1 \in Unread
      <3>1. Follows(1, i + 1) BY <1>2, <2>2
      <3>2. IsError(i + 1) \/ incoming[i + 1].has.start = incoming[1].has.end
        BY <2>1, <2>2, <3>1 DEF Chained, Arrived
      <3> QED BY <2>1, <2>2, <3>2
    <2>3. CASE 1 \notin Unread
      <3>1. Earliest(i + 1) BY <1>2, <2>3
      <3>2. IsError(i + 1) \/ incoming[i + 1].has.start = remote_version
        BY <2>1, <3>1 DEF Begins, Arrived
      <3> QED BY <2>1, <2>3, <3>2
    <2> QED BY <2>2, <2>3
  <1>5. Chained'
    <2> SUFFICES ASSUME NEW i \in Unread', NEW j \in Unread', Follows(i, j)'
                 PROVE  /\ ~IsError(i)'
                        /\ IsError(j)' \/ incoming'[j].has.start = incoming'[i].has.end
      BY DEF Chained
    <2>1. Follows(i + 1, j + 1) /\ i + 1 \in Unread /\ j + 1 \in Unread BY <1>1, <1>2
    <2>2. /\ ~IsError(i + 1)
          /\ IsError(j + 1) \/ incoming[j + 1].has.start = incoming[i + 1].has.end
      BY <2>1 DEF Chained, Arrived
    <2> QED BY <1>1, <1>2, <2>2
  <1>6. ASSUME NEW v, EndsAt(v) PROVE EndsAt(v)'
    <2>1. ASSUME NEW i \in Unread', Latest(i)' PROVE ~IsError(i)' /\ incoming'[i].has.end = v
      <3>1. i + 1 \in Unread /\ Latest(i + 1) BY <1>1, <1>2, <2>1
      <3>2. ~IsError(i + 1) /\ incoming[i + 1].has.end = v BY <1>6, <3>1 DEF EndsAt
      <3> QED BY <1>1, <1>2, <3>2
    <2>2. ASSUME Unread' = {} PROVE v = remote_version'
      <3>1. Unread \subseteq {1} BY <1>1, <2>2
      <3>2. CASE 1 \in Unread
        <4>1. Latest(1) BY <3>1 DEF Latest
        <4>2. incoming[1].has.end = v BY <1>6, <3>2, <4>1 DEF EndsAt
        <4> QED BY <3>2, <4>2
      <3>3. CASE 1 \notin Unread BY <1>6, <3>1, <3>3 DEF EndsAt
      <3> QED BY <3>2, <3>3
    <2> QED BY <2>1, <2>2 DEF EndsAt
  <1>7. BadArrived' => BadArrived BY <1>1 DEF BadArrived
  <1> QED BY <1>3, <1>4, <1>5, <1>6, <1>7 DEF Arrived

-----------------------------------------------------------------------------
(* The turns of the select.                                                *)

\* closeConnection in any turn.
LEMMA RetireKeeps ==
  ASSUME StreamInv, NEW subs, Retire(subs), pc = "select", conn,
         UNCHANGED <<pc, readers, malformed>>,
         UNCHANGED incoming \/ (incoming # <<>> /\ incoming' = Tail(incoming)),
         protocol_errors' \in Nat, protocol_errors' <= malformed
  PROVE  StreamInv'
  <1> USE DEF StreamInv
  <1>1. /\ conn' = FALSE /\ connection_count' = connection_count + 1
        /\ s2c' = <<>> /\ UNCHANGED <<generation, dials>>
    BY DEF Retire
  <1>2. Numbers'
    <2>1. generation \in Nat /\ connection_count \in Nat /\ dials \in Nat /\ malformed \in Nat
      BY DEF Numbers
    <2>2. malformed' = malformed OBVIOUS
    <2>3. conn' \in BOOLEAN BY <1>1
    <2>4. connection_count' \in Nat /\ generation' \in Nat /\ dials' \in Nat BY <1>1, <2>1
    <2>5. malformed' \in Nat BY <2>1, <2>2
    <2>6. protocol_errors' \in Nat OBVIOUS
    <2> QED BY <2>3, <2>4, <2>5, <2>6 DEF Numbers
  <1>3. Counting' BY <1>1 DEF Counting, Numbers
  <1>4. IsSeq(s2c') BY <1>1, EmptyIsSeq
  <1>5. NoSpuriousProtocolError' BY DEF NoSpuriousProtocolError
  <1>6. IsSeq(incoming) BY DEF Channels
  <1>7. IsSeq(incoming') /\ Generations'
    <2>1. CASE UNCHANGED incoming BY <1>1, <1>6, <2>1 DEF Generations
    <2>2. CASE incoming # <<>> /\ incoming' = Tail(incoming)
      <3>1. /\ IsSeq(incoming') /\ Len(incoming) \in Nat \ {0}
            /\ Len(incoming') = Len(incoming) - 1
            /\ \A i \in 1 .. Len(incoming') : incoming'[i] = incoming[i + 1]
        BY <1>1, <1>6, <2>2, ChannelShifts
      <3>2. \A i \in 1 .. Len(incoming') : i + 1 \in 1 .. Len(incoming) BY <3>1
      <3> QED BY <1>1, <3>1, <3>2 DEF Generations
    <2> QED BY <2>1, <2>2
  <1> QED BY <1>1, <1>2, <1>3, <1>4, <1>5, <1>7 DEF Channels

LEMMA IncomingKeeps == ASSUME StreamInv, Incoming PROVE StreamInv'
  <1> USE DEF StreamInv, Stream
  <1>1. PICK e : e = Head(incoming) OBVIOUS
  <1>2. PICK m : m = e.has OBVIOUS
  <1>3. /\ pc = "select" /\ incoming # <<>> /\ incoming' = Tail(incoming)
        /\ UNCHANGED <<pc, readers, malformed>> /\ IsSeq(incoming)
    BY DEF Incoming, Channels
  <1>4. conn /\ UNCHANGED generation =>
          (incoming[1].generation = generation <=> 1 \in Unread) /\ e = incoming[1]
    BY <1>1, <1>3, ChannelShifts
  <1>5. protocol_errors \in Nat /\ malformed \in Nat /\ protocol_errors <= malformed
    BY DEF Numbers, NoSpuriousProtocolError
  <1>6. ASSUME KeepConnection \/ HandleTransition(m), UNCHANGED protocol_errors,
               conn => IF 1 \in Unread THEN ~IsError(1) /\ remote_version' = incoming[1].has.end
                                       ELSE UNCHANGED remote_version
        PROVE  StreamInv'
    <2>1. UNCHANGED <<conn, generation, connection_count, dials, query_set_version, link, s2c,
                      server_version>>
      BY <1>6 DEF KeepConnection, HandleTransition, counts, versions, wire, server
    <2>2. (Numbers /\ Counting /\ NoSpuriousProtocolError)'
      BY <1>3, <1>6, <2>1 DEF Numbers, Counting, NoSpuriousProtocolError
    <2>3. /\ IsSeq(incoming') /\ Len(incoming) \in Nat \ {0}
          /\ Len(incoming') = Len(incoming) - 1
          /\ \A i \in 1 .. Len(incoming') : incoming'[i] = incoming[i + 1]
      BY <1>3, <2>1, ChannelShifts
    <2>4. Channels' BY <2>1, <2>3 DEF Channels
    <2>5. Generations'
      <3>1. \A i \in 1 .. Len(incoming') : i + 1 \in 1 .. Len(incoming) BY <2>3
      <3> QED BY <1>3, <2>1, <2>3, <3>1 DEF Generations
    <2> SUFFICES ASSUME conn' PROVE Stream'
      BY <2>2, <2>4, <2>5
    <2>6. conn /\ Carried /\ Arrived /\ HeldFits /\ Untold /\ Synced BY <2>1
    <2>7. /\ Arrived' /\ (BadArrived' => BadArrived)
          /\ \A v : EndsAt(v) => EndsAt(v)'
      BY <1>3, <1>6, <2>1, <2>6, FirstLeaves
    <2>8. Carried' /\ Synced' BY <2>1, <2>6 DEF Carried, Synced
    <2>9. \A v : Joins(v)' <=> Joins(v) BY <2>1 DEF Joins
    <2>10. ASSUME NEW r \in readers', r.generation = generation' PROVE Fits(r.has)'
      <3>1. Fits(r.has) BY <1>3, <2>1, <2>6, <2>10 DEF HeldFits
      <3> QED BY <2>7, <2>9, <3>1 DEF Fits, FitsNothing, FitsMessage, FitsError
    <2>11. HeldFits' BY <2>10 DEF HeldFits
    <2>12. Untold'
      BY <1>3, <1>6, <2>1, <2>6, <2>7 DEF Untold, BadOnLink, BadInHand
    <2> QED BY <2>7, <2>8, <2>11, <2>12
  <1>7. CASE ~Current(e) /\ KeepConnection /\ UNCHANGED <<delivery, protocol_errors>>
    <2>1. UNCHANGED <<generation, remote_version>>
      BY <1>7 DEF KeepConnection, versions
    <2>2. conn => 1 \notin Unread BY <1>4, <1>7, <2>1 DEF Current
    <2> QED BY <1>6, <1>7, <2>1, <2>2
  <1>8. CASE Current(e) /\ m.type = "err" /\ Retire(active)
             /\ UNCHANGED <<delivery, protocol_errors>>
    <2>1. conn BY <1>8 DEF Current
    <2> QED BY <1>3, <1>5, <1>8, <2>1, RetireKeeps
  <1>9. CASE Current(e) /\ m.type = "Transition" /\ m.start = remote_version
             /\ HandleTransition(m)
    <2>1. conn /\ UNCHANGED <<generation, protocol_errors>> /\ remote_version' = m.end
      BY <1>9 DEF Current, HandleTransition
    <2>2. 1 \in Unread /\ m = incoming[1].has BY <1>2, <1>4, <1>9, <2>1 DEF Current
    <2>3. ~IsError(1) BY <1>9, <2>2 DEF IsError
    <2> QED BY <1>6, <1>9, <2>1, <2>2, <2>3
  <1>10. CASE Current(e) /\ m.type # "err"
              /\ (m.type = "Transition" => m.start # remote_version) /\ RejectMessage(m)
    <2>1. /\ conn /\ Retire(active) /\ UNCHANGED generation
          /\ protocol_errors' = protocol_errors + 1
      BY <1>10 DEF Current, RejectMessage, PublishProtocolError, Retire
    <2>2. 1 \in Unread /\ m = incoming[1].has BY <1>2, <1>4, <1>10, <2>1 DEF Current
    <2>3. Earliest(1)
      <3>1. Unread \subseteq Nat \ {0} BY <1>3, <2>1, ChannelShifts
      <3> QED BY <3>1 DEF Earliest
    <2>4. ~IsError(1) BY <1>10, <2>2 DEF IsError
    <2>5. m.type \in Kinds /\ m.start = remote_version
      BY <1>10, <2>1, <2>2, <2>3, <2>4 DEF Arrived, Typed, Begins, IsError
    <2>6. BadArrived BY <1>10, <2>2, <2>5 DEF Kinds, BadArrived
    <2>7. protocol_errors < malformed BY <2>1, <2>6 DEF Untold
    <2>8. protocol_errors' \in Nat /\ protocol_errors' <= malformed BY <1>5, <2>1, <2>7
    <2> QED BY <1>3, <2>1, <2>8, RetireKeeps
  <1> QED BY <1>1, <1>2, <1>7, <1>8, <1>9, <1>10 DEF Incoming

\* A socket that is up gets a ModifyQuerySet.
LEMMA ModifyKeeps ==
  ASSUME StreamInv, conn, pc = "select", NEW m, m.base = query_set_version, ServerRead(m),
         query_set_version' = query_set_version + 1,
         UNCHANGED <<conn, generation, connection_count, dials, remote_version, incoming,
                     readers, protocol_errors, malformed, pc>>
  PROVE  StreamInv'
  <1> USE DEF StreamInv, Stream
  <1>1. (Numbers /\ Counting /\ NoSpuriousProtocolError /\ Generations)'
    BY DEF Numbers, Counting, NoSpuriousProtocolError, Generations
  <1>2. CASE link # "up"
    <2>1. UNCHANGED <<s2c, link, server_version>>
      BY <1>2 DEF ServerRead, wire, server
    <2>2. UNCHANGED <<arrivals, remote_version>> BY DEF arrivals
    <2>3. Carried /\ Arrived /\ HeldFits /\ Untold OBVIOUS
    <2>4. Arrived' /\ (BadArrived' <=> BadArrived) /\ \A v : EndsAt(v)' <=> EndsAt(v)
      BY <2>2, <2>3, ArrivedUnmoved
    <2>5. \A v : Joins(v)' <=> Joins(v) BY <2>1 DEF Joins
    <2>6. Carried' /\ Synced' BY <1>2, <2>1, <2>3 DEF Carried, Synced
    <2>7. ASSUME NEW r \in readers', r.generation = generation' PROVE Fits(r.has)'
      <3>1. Fits(r.has) BY <2>3, <2>7 DEF HeldFits
      <3> QED BY <2>4, <2>5, <3>1 DEF Fits, FitsNothing, FitsMessage, FitsError
    <2>8. HeldFits' BY <2>7 DEF HeldFits
    <2>9. Untold' BY <2>1, <2>3, <2>4 DEF Untold, BadOnLink, BadInHand
    <2>10. Channels' BY <2>1 DEF Channels
    <2> QED BY <1>1, <2>4, <2>6, <2>8, <2>9, <2>10
  <1>3. CASE link = "up"
    <2>1. query_set_version = server_version.querySet BY <1>3 DEF Synced
    <2>2. PICK new : new = [querySet |-> server_version.querySet + 1, ts |-> now] OBVIOUS
    <2>3. PICK mods, answer :
            /\ answer = [Message("Transition", server_version, new, mods)
                           EXCEPT !.removed = m.removes]
            /\ s2c' = Append(s2c, answer) /\ server_version' = new /\ UNCHANGED link
      BY <1>3, <2>1, <2>2 DEF ServerRead
    <2>4. /\ answer.type = "Transition" /\ answer.start = server_version /\ answer.end = new
      BY <2>3 DEF Message
    <2>5. malformed' \in Nat /\ malformed <= malformed' BY DEF Numbers
    <2>6. IsSeq(s2c') /\ (Carried /\ Arrived /\ HeldFits /\ Untold)'
      <3>1. answer.type \in Kinds /\ answer.type # "Unknown" BY <2>4 DEF Kinds
      <3> QED BY <1>3, <2>3, <2>4, <2>5, <3>1, ServerSends
    <2>7. Synced'
      <3>1. new.querySet = server_version.querySet + 1 BY <2>2
      <3>2. new \in [querySet : {server_version.querySet + 1}, ts : {now}] BY <2>2
      <3>3. query_set_version' = new.querySet BY <2>1, <3>1
      <3> QED BY <2>3, <3>2, <3>3 DEF Synced
    <2>8. Channels' BY <2>6 DEF Channels
    <2> QED BY <1>1, <2>6, <2>7, <2>8
  <1> QED BY <1>2, <1>3

LEMMA SubscribeKeeps == ASSUME StreamInv, NEW c, TakeSubscribe(c) PROVE StreamInv'
  <1>1. /\ pc = "select" /\ UNCHANGED <<incoming, readers, protocol_errors, malformed, pc>>
        /\ protocol_errors \in Nat /\ protocol_errors <= malformed
    BY DEF TakeSubscribe, Offers, reading, StreamInv, Numbers, NoSpuriousProtocolError
  <1>2. CASE UNCHANGED <<socket, counts, versions, wire, server>>
    BY <1>1, <1>2, Unmoved DEF flow, arrivals, socket, counts, versions, wire, server
  <1>3. CASE conn /\ Retire(active') BY <1>1, <1>3, RetireKeeps
  <1>4. CASE /\ conn /\ ServerRead(Modify(query_set_version, {next_query_id}, {}))
             /\ query_set_version' = query_set_version + 1
             /\ UNCHANGED <<socket, counts, remote_version>>
    <2>1. PICK m : m = Modify(query_set_version, {next_query_id}, {}) OBVIOUS
    <2>2. m.base = query_set_version BY <2>1 DEF Modify
    <2>3. UNCHANGED <<conn, generation, connection_count, dials, remote_version>>
      BY <1>4 DEF socket, counts
    <2> QED BY <1>1, <1>4, <2>1, <2>2, <2>3, ModifyKeeps
  <1> QED BY <1>2, <1>3, <1>4 DEF TakeSubscribe

LEMMA UnsubscribeKeeps == ASSUME StreamInv, NEW c, TakeUnsubscribe(c) PROVE StreamInv'
  <1>1. /\ pc = "select" /\ UNCHANGED <<incoming, readers, protocol_errors, malformed, pc>>
        /\ protocol_errors \in Nat /\ protocol_errors <= malformed
    BY DEF TakeUnsubscribe, Offers, reading, StreamInv, Numbers, NoSpuriousProtocolError
  <1>2. CASE UNCHANGED <<socket, counts, versions, wire, server>>
    BY <1>1, <1>2, Unmoved DEF flow, arrivals, socket, counts, versions, wire, server
  <1>3. CASE KeepConnection
    BY <1>1, <1>3, Unmoved DEF flow, arrivals, KeepConnection, counts, versions, wire, server
  <1>4. CASE conn /\ Retire(active \ {call[c].q}) BY <1>1, <1>4, RetireKeeps
  <1>5. CASE /\ conn /\ ServerRead(Modify(query_set_version, {}, {call[c].q}))
             /\ query_set_version' = query_set_version + 1
             /\ UNCHANGED <<socket, counts, remote_version>>
    <2>1. PICK m : m = Modify(query_set_version, {}, {call[c].q}) OBVIOUS
    <2>2. m.base = query_set_version BY <2>1 DEF Modify
    <2>3. UNCHANGED <<conn, generation, connection_count, dials, remote_version>>
      BY <1>5 DEF socket, counts
    <2> QED BY <1>1, <1>5, <2>1, <2>2, <2>3, ModifyKeeps
  <1> QED BY <1>2, <1>3, <1>4, <1>5 DEF TakeUnsubscribe

LEMMA DebugKeeps == ASSUME StreamInv, NEW c, TakeDebug(c) PROVE StreamInv'
  <1>1. /\ pc = "select" /\ UNCHANGED <<incoming, readers, protocol_errors, malformed, pc>>
        /\ protocol_errors \in Nat /\ protocol_errors <= malformed
    BY DEF TakeDebug, Offers, reading, StreamInv, Numbers, NoSpuriousProtocolError
  <1>2. CASE conn /\ Retire(active) BY <1>1, <1>2, RetireKeeps
  <1>3. CASE KeepConnection
    BY <1>1, <1>3, Unmoved DEF flow, arrivals, KeepConnection, counts, versions, wire, server
  <1> QED BY <1>2, <1>3 DEF TakeDebug

LEMMA InactiveKeeps == ASSUME StreamInv, Inactive PROVE StreamInv'
  <1>1. /\ pc = "select" /\ conn /\ Retire(active)
        /\ UNCHANGED <<incoming, readers, protocol_errors, malformed, pc>>
        /\ protocol_errors \in Nat /\ protocol_errors <= malformed
    BY DEF Inactive, reading, StreamInv, Numbers, NoSpuriousProtocolError
  <1> QED BY <1>1, RetireKeeps

LEMMA ReconnectKeeps == ASSUME StreamInv, Reconnect PROVE StreamInv'
  <1>1. /\ UNCHANGED <<conn, generation, incoming, readers, s2c, link, server_version,
                       remote_version, query_set_version, connection_count,
                       protocol_errors, malformed>>
        /\ pc = "select"
    BY DEF Reconnect, socket, reading, wire, server, versions
  <1>2. CASE UNCHANGED <<pc, dials>> BY <1>1, <1>2, Unmoved DEF flow, arrivals
  <1>3. CASE ~conn /\ pc' = "dialing" /\ dials' = dials + 1
    <2>1. Numbers /\ Counting /\ Channels /\ NoSpuriousProtocolError BY DEF StreamInv
    <2>2. conn' = FALSE /\ IsSeq(s2c') BY <1>1, <1>3, <2>1 DEF Numbers, Channels
    <2>3. /\ connection_count' \in Nat /\ dials' \in Nat /\ generation' \in Nat
          /\ generation <= generation'
      BY <1>1, <1>3, <2>1 DEF Numbers
    <2>4. protocol_errors' \in Nat /\ protocol_errors' <= malformed
      BY <1>1, <2>1 DEF Numbers, NoSpuriousProtocolError
    <2>5. Counting' BY <1>1, <1>3, <2>1 DEF Counting
    <2> QED BY <1>1, <2>2, <2>3, <2>4, <2>5, WithoutSocket
  <1> QED BY <1>2, <1>3 DEF Reconnect

LEMMA ConnectFailsKeeps == ASSUME StreamInv, ConnectFails PROVE StreamInv'
  <1>1. /\ UNCHANGED <<conn, dials, incoming, readers, s2c, protocol_errors, malformed>>
        /\ pc = "dialing" /\ pc' = "select" /\ connection_count' = connection_count + 1
        /\ UNCHANGED generation \/ generation' = generation + 1
    BY DEF ConnectFails, reading, wire
  <1>2. Numbers /\ Counting /\ Channels /\ NoSpuriousProtocolError BY DEF StreamInv
  <1>3. conn' = FALSE /\ IsSeq(s2c') BY <1>1, <1>2 DEF Numbers, Counting, Channels
  <1>4. /\ connection_count' \in Nat /\ dials' \in Nat /\ generation' \in Nat
        /\ generation <= generation'
    BY <1>1, <1>2 DEF Numbers
  <1>5. protocol_errors' \in Nat /\ protocol_errors' <= malformed
    BY <1>1, <1>2 DEF Numbers, NoSpuriousProtocolError
  <1>6. Counting' BY <1>1, <1>2 DEF Counting
  <1> QED BY <1>1, <1>3, <1>4, <1>5, <1>6, WithoutSocket

\* A new socket is newer than whatever is left of the old ones.
LEMMA ConnectedKeeps == ASSUME StreamInv, Connected PROVE StreamInv'
  <1>1. Numbers /\ Counting /\ Channels /\ Generations /\ NoSpuriousProtocolError
    BY DEF StreamInv
  <1>2. /\ pc = "dialing" /\ pc' = "select" /\ conn' = TRUE /\ generation' = generation + 1
        /\ query_set_version' = 1 /\ remote_version' = InitialVersion
        /\ UNCHANGED <<connection_count, dials, protocol_errors, incoming, malformed>>
        /\ readers' = readers \cup {[generation |-> generation + 1, has |-> <<>>]}
    BY DEF Connected, counts
  <1>3. generation \in Nat /\ dials = connection_count + 1 BY <1>1, <1>2 DEF Numbers, Counting
  <1>4. connection_count = dials - 1 BY <1>1, <1>3 DEF Numbers
  <1>5. PICK new, mods :
          /\ new.querySet = 1 /\ new \in [querySet : {1}, ts : {now}]
          /\ link' = "up" /\ server_version' = new
          /\ s2c' = <<Message("Transition", InitialVersion, new, mods)>>
    <2>1. PICK new : new = [querySet |-> 1, ts |-> now] OBVIOUS
    <2>2. ServerAccepts(connection_count, active) BY DEF Connected
    <2>3. new.querySet = 1 /\ new \in [querySet : {1}, ts : {now}] BY <2>1
    <2> QED BY <1>4, <2>1, <2>2, <2>3 DEF ServerAccepts
  <1>6. PICK m : m = Message("Transition", InitialVersion, new, mods) OBVIOUS
  <1>7. m.type = "Transition" /\ m.start = InitialVersion /\ m.end = new
    BY <1>6 DEF Message
  <1>8. IsSeq(s2c') /\ Len(s2c') = 1 /\ s2c'[1] = m /\ s2c' # <<>>
    BY <1>5, <1>6, OneIsSeq
  <1>9. Numbers' BY <1>1, <1>2 DEF Numbers
  <1>10. Counting' BY <1>2, <1>3 DEF Counting
  <1>11. Channels' BY <1>1, <1>2, <1>8 DEF Channels
  <1>12. NoSpuriousProtocolError' BY <1>1, <1>2 DEF NoSpuriousProtocolError
  <1>13. PICK r : r = [generation |-> generation + 1, has |-> <<>>] OBVIOUS
  <1>14. r.generation = generation + 1 /\ r.has = <<>> BY <1>13
  <1>15. \A x \in readers' : x = r \/ (x \in readers /\ x.generation <= generation)
    BY <1>1, <1>2, <1>13 DEF Generations
  <1>16. \A x \in readers : x.generation \in Nat
    <2>1. PICK H : readers \subseteq [generation : Nat, has : H] BY <1>1 DEF Generations
    <2> QED BY <2>1
  <1>17. Generations'
    <2>1. PICK H : readers \subseteq [generation : Nat, has : H] BY <1>1 DEF Generations
    <2>2. r \in [generation : Nat, has : {<<>>}] BY <1>3, <1>13
    <2>3. readers' \subseteq [generation : Nat, has : H \cup {<<>>}]
      <3> SUFFICES ASSUME NEW x \in readers' PROVE x \in [generation : Nat, has : H \cup {<<>>}]
        OBVIOUS
      <3>1. CASE x = r BY <2>2, <3>1
      <3>2. CASE x \in readers
        <4>1. x \in [generation : Nat, has : H] BY <2>1, <3>2
        <4> QED BY <4>1
      <3> QED BY <1>15, <3>1, <3>2
    <2>4. \A x \in readers' : x.generation <= generation'
      BY <1>2, <1>3, <1>14, <1>15, <1>16
    <2>5. \A r1, r2 \in readers' : r1.generation = r2.generation => r1 = r2
      BY <1>1, <1>3, <1>14, <1>15, <1>16 DEF Generations
    <2>6. \A i \in 1 .. Len(incoming') : /\ incoming'[i].generation \in Nat
                                         /\ incoming'[i].generation <= generation'
      BY <1>1, <1>2, <1>3 DEF Generations
    <2> QED BY <2>3, <2>4, <2>5, <2>6 DEF Generations
  <1>18. Unread' = {} BY <1>1, <1>2, <1>3 DEF Unread, Generations
  <1>19. Carried'
    <2>1. \A k \in 1 .. Len(s2c') : s2c'[k].type \in Kinds BY <1>7, <1>8 DEF Kinds
    <2>2. \A k \in 1 .. Len(s2c') - 1 : s2c'[k + 1].start = s2c'[k].end BY <1>8
    <2>3. s2c'[Len(s2c')].end = server_version' BY <1>5, <1>7, <1>8
    <2> QED BY <2>1, <2>2, <2>3 DEF Carried
  <1>20. Arrived' BY <1>18 DEF Arrived, Typed, Begins, Chained
  <1>21. Synced' BY <1>2, <1>5 DEF Synced
  <1>22. FitsNothing'
    <2>1. PICK v : v = InitialVersion OBVIOUS
    <2>2. EndsAt(v)' BY <1>2, <1>18, <2>1 DEF EndsAt
    <2>3. Joins(v)' BY <1>7, <1>8, <2>1 DEF Joins
    <2> QED BY <2>2, <2>3 DEF FitsNothing
  <1>23. \A x \in readers' : x.generation = generation' => x = r
    BY <1>2, <1>3, <1>15, <1>16
  <1>24. HeldFits' BY <1>14, <1>22, <1>23 DEF HeldFits, Fits
  <1>25. Untold'
    <2>1. ~BadOnLink' BY <1>7, <1>8 DEF BadOnLink
    <2>2. ~BadInHand' BY <1>14, <1>23 DEF BadInHand
    <2>3. ~BadArrived' BY <1>18 DEF BadArrived
    <2> QED BY <2>1, <2>2, <2>3 DEF Untold
  <1> QED
    BY <1>9, <1>10, <1>11, <1>12, <1>17, <1>19, <1>20, <1>21, <1>24, <1>25
    DEF StreamInv, Stream

LEMMA StopKeeps == ASSUME StreamInv, Stop PROVE StreamInv'
  <1>1. Numbers /\ NoSpuriousProtocolError BY DEF StreamInv
  <1>2. /\ pc' = "done" /\ conn' = FALSE /\ generation' = 0 /\ connection_count' = 0
        /\ dials' = 0 /\ readers' = {} /\ incoming' = <<>> /\ s2c' = <<>>
        /\ UNCHANGED <<protocol_errors, malformed>>
    BY DEF Stop
  <1>3. Numbers' /\ NoSpuriousProtocolError' BY <1>1, <1>2 DEF Numbers, NoSpuriousProtocolError
  <1>4. Counting' BY <1>2 DEF Counting
  <1>5. Channels' /\ Len(incoming') = 0 BY <1>2, EmptyIsSeq DEF Channels
  <1>6. readers' \subseteq [generation : Nat, has : {}] BY <1>2
  <1>7. Generations' BY <1>2, <1>5, <1>6 DEF Generations
  <1> QED BY <1>2, <1>3, <1>4, <1>5, <1>7 DEF StreamInv

LEMMA PushKeeps == ASSUME StreamInv, ServerPush PROVE StreamInv'
  <1>1. /\ link = "up"
        /\ UNCHANGED <<link, conn, generation, incoming, readers, remote_version,
                       protocol_errors, malformed, query_set_version, connection_count,
                       dials, pc>>
    BY DEF ServerPush, owner, socket, versions, counts, reading
  <1>2. (Numbers /\ Counting /\ NoSpuriousProtocolError /\ Generations)'
    BY <1>1 DEF StreamInv, Numbers, Counting, NoSpuriousProtocolError, Generations
  <1>3. PICK new : new = [server_version EXCEPT !.ts = now] OBVIOUS
  <1>4. PICK mods : mods = ResultsOf(News(server_queries)) OBVIOUS
  <1>5. PICK m : m = Message("Transition", server_version, new, mods) OBVIOUS
  <1>6. s2c' = Append(s2c, m) /\ server_version' = new BY <1>3, <1>4, <1>5 DEF ServerPush
  <1>7. m.type = "Transition" /\ m.start = server_version /\ m.end = new BY <1>5 DEF Message
  <1>8. Channels'
    BY <1>1, <1>6, AppendIsSeq DEF StreamInv, Channels
  <1> SUFFICES ASSUME conn' PROVE Stream'
    BY <1>2, <1>8 DEF StreamInv
  <1>9. malformed' \in Nat /\ malformed <= malformed' BY <1>1 DEF StreamInv, Numbers
  <1>10. (Carried /\ Arrived /\ HeldFits /\ Untold)'
    <2>1. m.type \in Kinds /\ m.type # "Unknown" BY <1>7 DEF Kinds
    <2>2. conn /\ server_version' = m.end BY <1>1, <1>6, <1>7
    <2> QED BY <1>1, <1>6, <1>7, <1>9, <2>1, <2>2, ServerSends
  <1>11. Synced'
    <2>1. server_version.querySet = query_set_version BY <1>1 DEF StreamInv, Stream, Synced
    <2>2. \E Q, T : server_version \in [querySet : Q, ts : T]
      BY <1>1 DEF StreamInv, Stream, Synced
    <2>3. new.querySet = server_version.querySet /\ \E Q, T : new \in [querySet : Q, ts : T]
      <3>1. PICK Q, T : server_version \in [querySet : Q, ts : T] BY <2>2
      <3>2. new \in [querySet : Q, ts : T \cup {now}] BY <1>3, <3>1
      <3>3. new.querySet = server_version.querySet BY <1>3, <3>1
      <3> QED BY <3>2, <3>3
    <2> QED BY <1>1, <1>6, <2>1, <2>3 DEF Synced
  <1> QED BY <1>10, <1>11 DEF Stream

\* A link that dies loses what was last sent on it, or a bad message comes.
LEMMA FaultKeeps == ASSUME StreamInv, Fault PROVE StreamInv'
  <1>1. /\ link = "up"
        /\ UNCHANGED <<conn, generation, incoming, readers, remote_version, server_version,
                       protocol_errors, query_set_version, connection_count, dials, pc>>
    BY DEF Fault, owner, socket, versions, counts, reading, server
  <1>2. Numbers /\ Counting /\ Channels /\ Generations /\ NoSpuriousProtocolError
    BY DEF StreamInv
  <1>3. (Counting /\ Generations)' BY <1>1, <1>2 DEF Counting, Generations
  <1>4. conn => Synced /\ Carried /\ Arrived /\ HeldFits /\ Untold
    BY DEF StreamInv, Stream
  <1>5. CASE /\ link' \in {"broken", "silent"} /\ UNCHANGED malformed
             /\ \E k \in 0 .. Len(s2c) : s2c' = SubSeq(s2c, 1, k)
    <2>1. PICK k \in 0 .. Len(s2c) : s2c' = SubSeq(s2c, 1, k) BY <1>5
    <2>2. /\ IsSeq(s2c') /\ Len(s2c') = k /\ Len(s2c) \in Nat
          /\ \A i \in 1 .. k : s2c'[i] = s2c[i]
          /\ s2c' = <<>> <=> k = 0
      BY <1>2, <2>1, PrefixIsSeq, LenIsNat DEF Channels
    <2>3. (Numbers /\ NoSpuriousProtocolError)'
      BY <1>1, <1>2, <1>5 DEF Numbers, NoSpuriousProtocolError
    <2>4. Channels' BY <1>1, <1>2, <2>2 DEF Channels
    <2> SUFFICES ASSUME conn' PROVE Stream'
      BY <1>3, <2>3, <2>4 DEF StreamInv
    <2>5. Synced /\ Carried /\ Arrived /\ HeldFits /\ Untold BY <1>1, <1>4
    <2>6. UNCHANGED <<arrivals, remote_version>> BY <1>1 DEF arrivals
    <2>7. Arrived' /\ (BadArrived' <=> BadArrived) /\ \A v : EndsAt(v)' <=> EndsAt(v)
      BY <2>5, <2>6, ArrivedUnmoved
    <2>8. Carried'
      <3>1. \A i \in 1 .. Len(s2c') : i \in 1 .. Len(s2c) BY <2>2
      <3>2. \A i \in 1 .. Len(s2c') - 1 :
               i \in 1 .. Len(s2c) - 1 /\ i \in 1 .. k /\ i + 1 \in 1 .. k
        BY <2>2
      <3> QED BY <1>5, <2>2, <2>5, <3>1, <3>2 DEF Carried
    <2>9. Synced' BY <1>5 DEF Synced
    <2>10. ASSUME NEW v, Joins(v) PROVE Joins(v)'
      <3>1. s2c' # <<>> => s2c # <<>> /\ s2c'[1] = s2c[1]
        <4> SUFFICES ASSUME s2c' # <<>> PROVE s2c # <<>> /\ s2c'[1] = s2c[1]
          OBVIOUS
        <4>1. 1 \in 1 .. k /\ Len(s2c) # 0 BY <2>2
        <4>2. s2c # <<>> BY <1>2, <4>1, LenIsNat DEF Channels
        <4> QED BY <2>2, <4>1, <4>2
      <3> QED BY <1>5, <2>10, <3>1 DEF Joins
    <2>11. ASSUME NEW r \in readers', r.generation = generation' PROVE Fits(r.has)'
      <3>1. Fits(r.has) BY <1>1, <2>5, <2>11 DEF HeldFits
      <3> QED BY <2>7, <2>10, <3>1 DEF Fits, FitsNothing, FitsMessage, FitsError
    <2>12. HeldFits' BY <2>11 DEF HeldFits
    <2>13. BadOnLink' => BadOnLink
      <3>1. \A i \in 1 .. Len(s2c') : i \in 1 .. Len(s2c) /\ s2c'[i] = s2c[i] BY <2>2
      <3> QED BY <3>1 DEF BadOnLink
    <2>14. Untold' BY <1>1, <1>5, <2>5, <2>7, <2>13 DEF Untold, BadInHand
    <2> QED BY <2>7, <2>8, <2>9, <2>12, <2>14 DEF Stream
  <1>6. CASE /\ s2c' = Append(s2c, Message("Unknown", server_version, server_version,
                                           ResultsOf(server_queries)))
             /\ malformed' = malformed + 1 /\ UNCHANGED link
    <2>1. PICK m : m = Message("Unknown", server_version, server_version,
                               ResultsOf(server_queries))
      OBVIOUS
    <2>2. /\ s2c' = Append(s2c, m) /\ m.type = "Unknown" /\ m.start = server_version
          /\ m.end = server_version
      BY <1>6, <2>1 DEF Message
    <2>3. /\ malformed' \in Nat /\ malformed <= malformed' /\ protocol_errors < malformed'
      BY <1>2, <1>6 DEF Numbers, NoSpuriousProtocolError
    <2>4. (Numbers /\ NoSpuriousProtocolError)'
      BY <1>1, <1>2, <1>6 DEF Numbers, NoSpuriousProtocolError
    <2>5. Channels' BY <1>1, <1>2, <2>2, AppendIsSeq DEF Channels
    <2> SUFFICES ASSUME conn' PROVE Stream'
      BY <1>3, <2>4, <2>5 DEF StreamInv
    <2>6. m.type \in Kinds /\ server_version' = m.end BY <1>1, <2>2 DEF Kinds
    <2>7. (Carried /\ Arrived /\ HeldFits /\ Untold)'
      BY <1>1, <1>6, <2>2, <2>3, <2>6, ServerSends
    <2>8. Synced' BY <1>1, <1>4, <1>6 DEF Synced
    <2> QED BY <2>7, <2>8 DEF Stream
  <1> QED BY <1>5, <1>6 DEF Fault

\* Every step keeps the invariant.
LEMMA StreamStep == ASSUME StreamInv, [Next]_vars PROVE StreamInv'
  <1>1. ASSUME NEW c \in Callers, Commands(c) PROVE StreamInv'
    <2>1. RefuseSubscribe(c) => UNCHANGED flow
      BY DEF RefuseSubscribe, flow, arrivals, owner, socket, versions, counts, reading, wire,
             server
    <2> QED
      BY <1>1, <2>1, SubscribeKeeps, UnsubscribeKeeps, DebugKeeps, Unmoved DEF Commands
  <1>2. CASE Turns
    BY <1>2, ReconnectKeeps, ConnectedKeeps, IncomingKeeps, InactiveKeeps, StopKeeps DEF Turns
  <1>3. CASE ConnectFails BY <1>3, ConnectFailsKeeps
  <1>4. CASE Reader BY <1>4, ReadKeeps, PutKeeps DEF Reader
  <1>5. CASE Application
    <2>1. (\E q \in Subs : Consume(q)) => UNCHANGED flow
      BY DEF Consume, flow, arrivals, socket, versions, counts, reading, wire, server
    <2>2. ASSUME UNCHANGED <<owner, reading, wire, server, malformed>> PROVE UNCHANGED flow
      BY <2>2 DEF flow, arrivals, owner, socket, versions, counts, reading, wire, server
    <2>3. Application => \/ \E q \in Subs : Consume(q)
                         \/ UNCHANGED <<owner, reading, wire, server, malformed>>
      BY DEF Application, Subscribe, Unsubscribe, DebugDisconnect, ContextEnds, Return, Close,
             CloseReturns
    <2> QED BY <1>5, <2>1, <2>2, <2>3, Unmoved
  <1>6. CASE Backend
    <2>1. (\E q \in Subs : Write(q)) => UNCHANGED flow
      BY DEF Write, flow, arrivals, owner, socket, versions, counts, reading, wire, server
    <2> QED BY <1>6, <2>1, PushKeeps, FaultKeeps, Unmoved DEF Backend
  <1>7. CASE UNCHANGED vars
    <2>1. UNCHANGED flow
      BY <1>7 DEF vars, flow, arrivals, owner, socket, versions, counts, reading, wire, server
    <2> QED BY <2>1, Unmoved
  <1> QED BY <1>1, <1>2, <1>3, <1>4, <1>5, <1>6, <1>7 DEF Next, Owner

-----------------------------------------------------------------------------
(* Subscribers are told of at most one ProtocolError for every bad message  *)
(* the backend sent, whatever a retired socket leaves in the hands of its  *)
(* reader or in the channel: live.go looks at the generation of a message  *)
(* before it compares versions, and starts every connection with the       *)
(* connectionCount and the versions the backend expects.                   *)
THEOREM EveryProtocolErrorHasACause == Spec => []NoSpuriousProtocolError
  <1>1. StreamInv => NoSpuriousProtocolError BY DEF StreamInv
  <1>2. Spec => []StreamInv BY StreamInit, StreamStep, PTL DEF Spec
  <1> QED BY <1>1, <1>2, PTL
=============================================================================
