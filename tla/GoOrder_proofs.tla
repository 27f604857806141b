---------------------------- MODULE GoOrder_proofs ----------------------------
(***************************************************************************)
(* What the channels of updates of GoLive show is in the order of the      *)
(* commits, for any number of subscriptions, callers, commits and          *)
(* disturbances.  The invariant compares what a channel holds with what is *)
(* still on its way to it from the current socket: on the link, in the     *)
(* hands of the reader, and in the incoming channel, of which an earlier   *)
(* lemma knows the order.                                                  *)
(***************************************************************************)
EXTENDS GoLive_proofs

Changes == [kind : {"none", "failure", "ProtocolError"} \cup Results,
            at : Times \cup {Nothing}]
Reports == [Subs -> Times \cup {Nothing}]
IsResult(u) == u.kind \in Results

\* Types; ids are given out in order, and no version is ahead of the commits.
Kept ==
  /\ now \in Times /\ result \in [Subs -> Times]
  /\ next_query_id \in Nat
  /\ \A a \in active \cup server_queries : a \in Nat /\ a < next_query_id
  /\ \E Q : server_version \in [querySet : Q, ts : Times]
  /\ server_version.ts <= now
  /\ \A q \in Subs : result[q] <= now
  /\ updates \in [Subs -> Seq(Changes)] /\ last_delivered \in [Subs -> Changes]

\* A channel holds results of its query, none newer than what was computed, and
\* while the link is up none newer than what the backend has sent.
Told ==
  \A q \in Subs : \A i \in DOMAIN updates[q] : IsResult(updates[q][i]) =>
    /\ updates[q][i] = ResultUpdate(updates[q][i].at) /\ updates[q][i].at <= result[q]
    /\ q < next_query_id
    /\ link = "up" => updates[q][i].at <= server_version.ts

\* last_delivered is the last update in the channel, if that is a result, and
\* it is forgotten only with the subscription.
LastTold ==
  \A q \in Subs : q \in active =>
    /\ updates[q] # <<>> /\ IsResult(updates[q][Len(updates[q])]) =>
         last_delivered[q] = updates[q][Len(updates[q])]
    /\ last_delivered[q] = NoUpdate =>
         \A i \in DOMAIN updates[q] : ~IsResult(updates[q][i])

\* The messages of the current socket, by their place in the order in which the
\* owner will see them.
HandAt == Len(incoming) + 1
Hands == {r \in readers : r.generation = generation /\ r.has # <<>>}
Flight == {[p |-> i, m |-> incoming[i].has] : i \in Unread}
            \cup {[p |-> HandAt, m |-> r.has[1]] : r \in Hands}
            \cup {[p |-> HandAt + k, m |-> s2c[k]] : k \in 1 .. Len(s2c)}
Coming == {x \in Flight : x.m.type = "Transition"}

\* A Transition reports results the backend had computed and sent, of queries it
\* was asked for.  It is newer than what the channel holds, except that the
\* first report of a connection may repeat it.
Truthful(m) ==
  /\ m.mods \in Reports
  /\ \A q \in m.removed : q \in Nat /\ q < next_query_id /\ q \notin active
  /\ \A q \in Subs : m.mods[q] # Nothing =>
       /\ q < next_query_id /\ m.mods[q] <= result[q]
       /\ link = "up" => m.mods[q] <= server_version.ts
       /\ q \in active => \A i \in DOMAIN updates[q] : IsResult(updates[q][i]) =>
            \/ updates[q][i].at < m.mods[q]
            \/ updates[q][i].at = m.mods[q] /\ q \in awaiting_rehydration
Answers == \A x \in Coming : Truthful(x.m)

\* Of two Transitions the later one reports the newer result.
Newer(m1, m2) ==
  \A q \in Subs : m1.mods[q] # Nothing /\ m2.mods[q] # Nothing => m1.mods[q] < m2.mods[q]
Ascending == \A x, y \in Coming : x.p < y.p => Newer(x.m, y.m)

Data == Kept /\ Told /\ LastTold /\ DeliveredInOrder
OrderInv == Data /\ (conn => Answers /\ Ascending)
-----------------------------------------------------------------------------
(* The bounds are natural numbers, and Nothing is none of the times.        *)
LEMMA Constants ==
  /\ MaxNow \in Nat /\ Capacity \in Nat \ {0} /\ Subs \subseteq Nat
  /\ Times \subseteq Nat /\ Nothing \in Nat /\ Nothing \notin Times
BY GoBounds DEF GoBounds, Subs, Times, Nothing

(* A result is told apart from the other updates, and carries its time.     *)
LEMMA UpdateTypes ==
  /\ NoUpdate \in Changes /\ ~IsResult(NoUpdate)
  /\ Update("failure", Nothing) \in Changes /\ Update("failure", Nothing) # NoUpdate
  /\ Update("ProtocolError", Nothing) \in Changes
  /\ ~IsResult(Update("ProtocolError", Nothing))
  /\ \A t \in Times : /\ ResultUpdate(t) \in Changes /\ IsResult(ResultUpdate(t))
                      /\ ResultUpdate(t).at = t /\ ResultUpdate(t) # NoUpdate
                      /\ ResultUpdate(t).kind = "value" => ResultUpdate(t) = Update("value", t)
BY Constants DEF NoUpdate, Update, Changes, IsResult, Results, ResultUpdate

(* The elements of a channel have a kind and a natural number.              *)
LEMMA ElementTypes ==
  ASSUME NEW s \in Seq(Changes)
  PROVE  /\ Len(s) \in Nat /\ DOMAIN s = 1 .. Len(s) /\ (s = <<>> <=> Len(s) = 0)
         /\ \A i \in DOMAIN s : s[i] \in Changes /\ s[i].at \in Nat
<1>1. \A i \in DOMAIN s : s[i] \in Changes
  OBVIOUS
<1>2. \A i \in DOMAIN s : s[i].at \in Nat
  BY <1>1, Constants DEF Changes
<1> QED BY <1>1, <1>2

(* Before the first subscription nothing is told or on its way.             *)
LEMMA OrderInit == Init => OrderInv
<1> SUFFICES ASSUME Init PROVE OrderInv
  OBVIOUS
<1> USE DEF Init
<1>1. 0 \in Times /\ 0 \in Nat
  BY Constants DEF Times
<1>2. InitialVersion \in [querySet : Nat, ts : Times] /\ InitialVersion.ts = 0
  BY <1>1 DEF InitialVersion
<1>3. Kept
  <2>1. updates \in [Subs -> Seq(Changes)] /\ last_delivered \in [Subs -> Changes]
    BY UpdateTypes
  <2> QED BY <1>1, <1>2, <2>1 DEF Kept
<1>4. \A q \in Subs : updates[q] = <<>> /\ DOMAIN updates[q] = {}
  OBVIOUS
<1>5. Told /\ LastTold /\ DeliveredInOrder
  BY <1>4 DEF Told, LastTold, DeliveredInOrder
<1>6. ~conn
  OBVIOUS
<1> QED BY <1>3, <1>5, <1>6 DEF OrderInv, Data
-----------------------------------------------------------------------------
(* What deliver does to a channel: some of the oldest go, the new one comes. *)
Pushed(s, t, u, d) ==
  /\ t \in Seq(Changes) /\ Len(t) = (Len(s) - d) + 1
  /\ \A i \in 1 .. Len(s) - d : t[i] = s[i + d]
  /\ t[Len(t)] = u

LEMMA AppendPushes ==
  ASSUME NEW s \in Seq(Changes), NEW t \in Seq(Changes), NEW d \in 0 .. Len(s), NEW u \in Changes,
         Len(t) = Len(s) - d, \A i \in 1 .. Len(s) - d : t[i] = s[i + d]
  PROVE  Pushed(s, Append(t, u), u, d)
<1>1. /\ Append(t, u) \in Seq(Changes) /\ Len(Append(t, u)) = Len(t) + 1
      /\ \A i \in 1 .. Len(t) : Append(t, u)[i] = t[i]
      /\ Append(t, u)[Len(t) + 1] = u
  OBVIOUS
<1> QED BY <1>1 DEF Pushed

LEMMA RoomPushes ==
  ASSUME NEW s \in Seq(Changes), NEW u \in Changes, NEW taken \in 0 .. Capacity
  PROVE  \E d \in 0 .. Len(s) : Pushed(s, Room(s, u, taken), u, d)
<1>0. Len(s) \in Nat /\ Capacity \in Nat \ {0} /\ taken \in Nat /\ taken <= Capacity
  BY Constants
<1>1. CASE Len(s) < Capacity
  <2>1. Room(s, u, taken) = Append(s, u)
    BY <1>1 DEF Room
  <2>2. 0 \in 0 .. Len(s) /\ Len(s) = Len(s) - 0
    BY <1>0
  <2>3. \A i \in 1 .. Len(s) - 0 : s[i] = s[i + 0]
    BY <1>0
  <2> QED BY <2>1, <2>2, <2>3, AppendPushes
<1>2. CASE ~(Len(s) < Capacity)
  <2> DEFINE left == SubSeq(s, taken + 1, Len(s))
  <2>1. taken <= Len(s)
    BY <1>0, <1>2
  <2>2. left = [i \in 1 .. Len(s) - taken |-> s[taken + i]]
    BY <1>0, <2>1
  <2>3. \A i \in 1 .. Len(s) - taken : s[taken + i] \in Changes
    BY <1>0, <2>1
  <2>4. left \in Seq(Changes) /\ Len(left) = Len(s) - taken
    BY <1>0, <2>1, <2>2, <2>3
  <2>5. \A i \in 1 .. Len(s) - taken : left[i] = s[taken + i]
    BY <2>2
  <2>6. CASE left = <<>>
    <3>1. Room(s, u, taken) = Append(left, u)
      BY <1>2, <2>6 DEF Room
    <3> HIDE DEF left
    <3>0. Len(left) = 0 /\ Len(s) - Len(s) = 0
      BY <1>0, <2>6
    <3>2. Len(left) = Len(s) - Len(s) /\ Len(s) \in 0 .. Len(s)
      BY <1>0, <3>0
    <3>3. \A i \in 1 .. Len(s) - Len(s) : left[i] = s[i + Len(s)]
      BY <1>0
    <3> QED BY <2>4, <3>1, <3>2, <3>3, AppendPushes
  <2>7. CASE left # <<>>
    <3>1. Room(s, u, taken) = Append(Tail(left), u)
      BY <1>2, <2>7 DEF Room
    <3> HIDE DEF left
    <3>2. PICK d : d = taken + 1
      OBVIOUS
    <3>3. Tail(left) \in Seq(Changes) /\ Len(left) >= 1 /\ Len(Tail(left)) = Len(left) - 1
      BY <2>4, <2>7
    <3>4. \A i \in 1 .. Len(left) - 1 : Tail(left)[i] = left[i + 1]
      BY <2>4, <2>7
    <3>5. d \in 0 .. Len(s) /\ Len(Tail(left)) = Len(s) - d
      BY <1>0, <2>1, <2>4, <3>2, <3>3
    <3>6. \A i \in 1 .. Len(s) - d : i \in 1 .. Len(left) - 1 /\ i + 1 \in 1 .. Len(s) - taken
                                     /\ taken + (i + 1) = i + d
      BY <1>0, <2>1, <2>4, <3>2, <3>3
    <3>7. \A i \in 1 .. Len(s) - d : Tail(left)[i] = s[i + d]
      BY <2>5, <3>4, <3>6
    <3> QED BY <3>1, <3>3, <3>5, <3>7, AppendPushes
  <2> QED BY <2>6, <2>7
<1> QED BY <1>1, <1>2

(* Every subscription deliver is called for gets its update.                *)
LEMMA Delivered ==
  ASSUME Kept, NEW S, NEW u, \A q \in Subs : q \in S => u[q] \in Changes, Deliver(S, u)
  PROVE  /\ updates' \in [Subs -> Seq(Changes)]
         /\ \A q \in Subs : IF q \in S
                            THEN \E d \in 0 .. Len(updates[q]) :
                                   Pushed(updates[q], updates'[q], u[q], d)
                            ELSE updates'[q] = updates[q]
<1>1. PICK taken \in [Subs -> 0 .. Capacity] :
        updates' = [q \in Subs |-> IF q \in S THEN Room(updates[q], u[q], taken[q])
                                   ELSE updates[q]]
  BY DEF Deliver
<1>2. \A q \in Subs : updates[q] \in Seq(Changes)
  BY DEF Kept
<1>3. ASSUME NEW q \in Subs, q \in S
      PROVE  \E d \in 0 .. Len(updates[q]) : Pushed(updates[q], updates'[q], u[q], d)
  <2>1. taken[q] \in 0 .. Capacity /\ u[q] \in Changes /\ updates[q] \in Seq(Changes)
    BY <1>2, <1>3
  <2>2. updates'[q] = Room(updates[q], u[q], taken[q])
    BY <1>1, <1>3
  <2> QED BY <2>1, <2>2, RoomPushes
<1>4. \A q \in Subs : q \notin S => updates'[q] = updates[q]
  BY <1>1
<1>5. \A q \in Subs : updates'[q] \in Seq(Changes)
  BY <1>2, <1>3, <1>4 DEF Pushed
<1>6. updates' \in [Subs -> Seq(Changes)]
  BY <1>1, <1>5
<1> QED BY <1>3, <1>4, <1>6

(* The order in one channel.                                                *)
InOrder(s) ==
  \A i, j \in DOMAIN s :
    i < j /\ IsResult(s[i]) /\ IsResult(s[j]) =>
      s[i].at <= s[j].at /\ (j = i + 1 /\ s[j].kind = "value" => s[i].at < s[j].at)

LEMMA ChannelsInOrder == DeliveredInOrder <=> \A q \in Subs : InOrder(updates[q])
BY DEF DeliveredInOrder, InOrder, IsResult

(* What deliver puts in a channel is in order with what it leaves there.    *)
LEMMA PushedInOrder ==
  ASSUME NEW s \in Seq(Changes), InOrder(s), NEW u \in Changes, NEW d \in 0 .. Len(s), NEW t,
         Pushed(s, t, u, d),
         IsResult(u) => \A i \in DOMAIN s : IsResult(s[i]) =>
           s[i].at <= u.at /\ (i = Len(s) /\ u.kind = "value" => s[i].at < u.at)
  PROVE  InOrder(t)
<1>1. Len(s) \in Nat /\ DOMAIN s = 1 .. Len(s) /\ d \in Nat /\ d <= Len(s)
  BY ElementTypes
<1>2. Len(t) = (Len(s) - d) + 1 /\ Len(t) \in Nat /\ DOMAIN t = 1 .. Len(t) /\ t[Len(t)] = u
  BY <1>1 DEF Pushed
<1>3. \A i \in 1 .. Len(t) : i # Len(t) =>
        i \in 1 .. Len(s) - d /\ i + d \in DOMAIN s /\ t[i] = s[i + d]
  <2>1. \A i \in 1 .. Len(t) : i # Len(t) => i \in 1 .. Len(s) - d /\ i + d \in DOMAIN s
    BY <1>1, <1>2
  <2> QED BY <2>1 DEF Pushed
<1> SUFFICES ASSUME NEW i \in 1 .. Len(t), NEW j \in 1 .. Len(t), i < j,
                    IsResult(t[i]), IsResult(t[j])
             PROVE  t[i].at <= t[j].at /\ (j = i + 1 /\ t[j].kind = "value" => t[i].at < t[j].at)
  BY <1>2 DEF InOrder
<1>4. i # Len(t)
  BY <1>2
<1>5. i + d \in DOMAIN s /\ t[i] = s[i + d]
  BY <1>3, <1>4
<1>6. CASE j = Len(t)
  <2>1. j = i + 1 => i + d = Len(s)
    BY <1>1, <1>2, <1>6
  <2> QED BY <1>2, <1>5, <1>6, <2>1
<1>7. CASE j # Len(t)
  <2>1. j + d \in DOMAIN s /\ t[j] = s[j + d]
    BY <1>3, <1>7
  <2>2. i + d < j + d /\ (j = i + 1 => j + d = (i + d) + 1)
    BY <1>1
  <2> QED BY <1>5, <2>1, <2>2 DEF InOrder
<1> QED BY <1>6, <1>7
-----------------------------------------------------------------------------
(* Steps that leave the channels alone.                                     *)

(* The data stay in order when a subscription is made or removed, a write   *)
(* is committed, or the backend answers.                                   *)
LEMMA DataQuiet ==
  ASSUME Data, Kept', UNCHANGED updates,
         \A q \in Subs : result[q] <= result'[q],
         next_query_id <= next_query_id',
         link' = "up" => \/ link = "up" /\ UNCHANGED server_version
                         \/ server_version'.ts = now',
         \A q \in Subs : q \in active' =>
           (q \in active /\ last_delivered'[q] = last_delivered[q]) \/ ~(q < next_query_id)
  PROVE  Data'
<1>0. /\ Times \subseteq Nat /\ Subs \subseteq Nat
      /\ next_query_id \in Nat /\ next_query_id' \in Nat /\ now' \in Nat
      /\ \A q \in Subs : result[q] \in Nat /\ result'[q] \in Nat /\ result'[q] <= now'
  BY Constants DEF Data, Kept
<1>1. \A q \in Subs : \A i \in DOMAIN updates[q] : updates[q][i].at \in Nat
  BY ElementTypes DEF Data, Kept
<1>2. Told'
  <2> SUFFICES ASSUME NEW q \in Subs, NEW i \in DOMAIN updates[q], IsResult(updates[q][i])
               PROVE  /\ updates[q][i] = ResultUpdate(updates[q][i].at)
                      /\ updates[q][i].at <= result'[q]
                      /\ q < next_query_id'
                      /\ link' = "up" => updates[q][i].at <= server_version'.ts
    BY DEF Told
  <2>1. /\ updates[q][i] = ResultUpdate(updates[q][i].at) /\ updates[q][i].at <= result[q]
        /\ q < next_query_id
        /\ link = "up" => updates[q][i].at <= server_version.ts
    BY DEF Data, Told
  <2>2. updates[q][i].at \in Nat /\ q \in Nat
    BY <1>0, <1>1
  <2> HIDE DEF ResultUpdate
  <2>3. updates[q][i].at <= result'[q] /\ q < next_query_id' /\ updates[q][i].at <= now'
    BY <1>0, <2>1, <2>2
  <2> QED BY <2>1, <2>3
<1>3. LastTold'
  <2> SUFFICES ASSUME NEW q \in Subs, q \in active'
               PROVE  /\ updates[q] # <<>> /\ IsResult(updates[q][Len(updates[q])]) =>
                           last_delivered'[q] = updates[q][Len(updates[q])]
                      /\ last_delivered'[q] = NoUpdate =>
                           \A i \in DOMAIN updates[q] : ~IsResult(updates[q][i])
    BY DEF LastTold
  <2>1. CASE q \in active /\ last_delivered'[q] = last_delivered[q]
    BY <2>1 DEF Data, LastTold
  <2>2. CASE ~(q < next_query_id)
    <3>1. \A i \in DOMAIN updates[q] : ~IsResult(updates[q][i])
      BY <2>2 DEF Data, Told
    <3>2. updates[q] # <<>> => Len(updates[q]) \in DOMAIN updates[q]
      BY ElementTypes DEF Data, Kept
    <3> QED BY <3>1, <3>2
  <2> QED BY <2>1, <2>2
<1>4. DeliveredInOrder'
  BY DEF Data, DeliveredInOrder
<1> QED BY <1>2, <1>3, <1>4 DEF Data

(* A message on its way stays true when nothing is told meanwhile.          *)
LEMMA StillTruthful ==
  ASSUME Kept, NEW m, Truthful(m), UNCHANGED updates,
         next_query_id' \in Nat, next_query_id <= next_query_id',
         \A q \in Subs : result'[q] \in Nat /\ result[q] <= result'[q],
         link' = "up" => /\ link = "up" /\ server_version'.ts \in Nat
                         /\ server_version.ts <= server_version'.ts,
         \A q \in active' : q \in active \/ ~(q < next_query_id),
         awaiting_rehydration \cap active' \subseteq awaiting_rehydration'
  PROVE  Truthful(m)'
<1>0. /\ Subs \subseteq Nat /\ next_query_id \in Nat /\ server_version.ts \in Nat
      /\ \A q \in Subs : result[q] \in Nat
      /\ \A q \in Subs : m.mods[q] # Nothing => m.mods[q] \in Nat
  BY Constants DEF Kept, Truthful, Reports
<1>1. \A q \in m.removed : q \in Nat /\ q < next_query_id' /\ q \notin active'
  BY <1>0 DEF Truthful
<1>2. ASSUME NEW q \in Subs, m.mods[q] # Nothing
      PROVE  /\ q < next_query_id' /\ m.mods[q] <= result'[q]
             /\ link' = "up" => m.mods[q] <= server_version'.ts
             /\ q \in active' => q \in active
  <2>1. /\ q < next_query_id /\ m.mods[q] <= result[q]
        /\ link = "up" => m.mods[q] <= server_version.ts
    BY <1>2 DEF Truthful
  <2> QED BY <1>0, <1>2, <2>1
<1>3. \A q \in Subs : m.mods[q] # Nothing /\ q \in active' =>
        \A i \in DOMAIN updates[q] : IsResult(updates[q][i]) =>
            \/ updates[q][i].at < m.mods[q]
            \/ updates[q][i].at = m.mods[q] /\ q \in awaiting_rehydration'
  BY <1>2 DEF Truthful
<1>4. m.mods \in Reports
  BY DEF Truthful
<1> QED BY <1>1, <1>2, <1>3, <1>4 DEF Truthful
-----------------------------------------------------------------------------
(* The messages on their way.                                               *)

(* A step brings no message and changes no order when each one can be found *)
(* among those of before, and each two in the same order.                  *)
Thins ==
  /\ \A x \in Coming' : \E z \in Coming : z.m = x.m
  /\ \A x, y \in Coming' : x.p < y.p =>
       \E z, w \in Coming : z.m = x.m /\ w.m = y.m /\ z.p < w.p

LEMMA ThinsKeep ==
  ASSUME Kept, Answers, Ascending, Thins, UNCHANGED updates,
         next_query_id' \in Nat, next_query_id <= next_query_id',
         \A q \in Subs : result'[q] \in Nat /\ result[q] <= result'[q],
         link' = "up" => /\ link = "up" /\ server_version'.ts \in Nat
                         /\ server_version.ts <= server_version'.ts,
         \A q \in active' : q \in active \/ ~(q < next_query_id),
         awaiting_rehydration \cap active' \subseteq awaiting_rehydration'
  PROVE  (Answers /\ Ascending)'
<1>1. ASSUME NEW x \in Coming' PROVE Truthful(x.m)'
  <2>1. PICK m : m = x.m
    OBVIOUS
  <2>2. Truthful(m)
    BY <2>1 DEF Thins, Answers
  <2>3. Truthful(m)'
    BY <2>2, StillTruthful
  <2> QED BY <2>1, <2>3
<1>2. Ascending'
  BY DEF Thins, Ascending, Newer
<1> QED BY <1>1, <1>2 DEF Answers

(* Where a message is.                                                      *)
LEMMA Places ==
  ASSUME StreamInv
  PROVE  /\ Len(incoming) \in Nat /\ HandAt \in Nat /\ HandAt = Len(incoming) + 1
         /\ Len(s2c) \in Nat
         /\ Unread \subseteq 1 .. Len(incoming)
         /\ \A x \in Flight :
              \/ x.p \in Unread /\ x.m = incoming[x.p].has
              \/ x.p = HandAt /\ \E r \in Hands : x.m = r.has[1]
              \/ \E k \in 1 .. Len(s2c) : x.p = HandAt + k /\ x.m = s2c[k]
         /\ \A x \in Flight : x.p \in Nat /\ 1 <= x.p /\ x.p <= HandAt + Len(s2c)
<1>1. Len(incoming) \in Nat /\ Len(s2c) \in Nat
  BY LenIsNat DEF StreamInv, Channels
<1>2. HandAt \in Nat /\ HandAt = Len(incoming) + 1
  BY <1>1 DEF HandAt
<1>3. Unread \subseteq 1 .. Len(incoming)
  BY DEF Unread
<1> HIDE DEF HandAt
<1>4. \A x \in Flight :
        \/ x.p \in Unread /\ x.m = incoming[x.p].has
        \/ x.p = HandAt /\ \E r \in Hands : x.m = r.has[1]
        \/ \E k \in 1 .. Len(s2c) : x.p = HandAt + k /\ x.m = s2c[k]
  BY DEF Flight
<1>5. ASSUME NEW x \in Flight
      PROVE  x.p \in Nat /\ 1 <= x.p /\ x.p <= HandAt + Len(s2c)
  <2>1. CASE x.p \in Unread
    <3>1. x.p \in 1 .. Len(incoming)
      BY <1>3, <2>1
    <3> QED BY <1>1, <1>2, <3>1
  <2>2. CASE x.p = HandAt
    BY <1>1, <1>2, <2>2
  <2>3. ASSUME NEW k \in 1 .. Len(s2c), x.p = HandAt + k
        PROVE  x.p \in Nat /\ 1 <= x.p /\ x.p <= HandAt + Len(s2c)
    <3>1. k \in Nat /\ 1 <= k /\ k <= Len(s2c)
      BY <1>1
    <3> QED BY <1>1, <1>2, <2>3, <3>1
  <2> QED BY <1>4, <2>1, <2>2, <2>3
<1> QED BY <1>1, <1>2, <1>3, <1>4, <1>5

(* The messages are where they were.                                        *)
LEMMA SameFlight ==
  ASSUME UNCHANGED <<incoming, readers, generation, s2c>> PROVE Coming' = Coming /\ Thins
<1>1. Unread' = Unread /\ HandAt' = HandAt /\ Hands' = Hands
  BY DEF Unread, HandAt, Hands
<1>2. Flight' = Flight
  BY <1>1 DEF Flight
<1>3. Coming' = Coming
  BY <1>2 DEF Coming
<1> QED BY <1>3 DEF Thins

(* What came of a move of messages by at most one place: mapping each place *)
(* to the one before shows that the step thins the messages out.           *)
LEMMA MovesThin ==
  ASSUME NEW f,
         \A x \in Coming' : [p |-> f[x.p], m |-> x.m] \in Coming,
         \A x, y \in Coming' : x.p < y.p => f[x.p] < f[y.p]
  PROVE  Thins
BY DEF Thins

(* The reader takes a message off the link, or an error.                    *)
LEMMA ReadThins == ASSUME StreamInv, conn, NEW r \in readers, Read(r) PROVE Thins
<1>1. /\ UNCHANGED <<incoming, generation>> /\ Generations /\ Carried
      /\ IsSeq(s2c)
  BY DEF Read, owner, socket, StreamInv, Stream, Channels
<1>2. Unread' = Unread /\ HandAt' = HandAt
  BY <1>1 DEF Unread, HandAt
<1>3. /\ Len(incoming) \in Nat /\ HandAt \in Nat /\ HandAt = Len(incoming) + 1
      /\ Len(s2c) \in Nat /\ Unread \subseteq 1 .. Len(incoming)
  BY Places
<1> HIDE DEF HandAt
<1>4. CASE /\ Open(r) /\ s2c # <<>>
           /\ readers' = (readers \ {r}) \cup {[r EXCEPT !.has = <<Head(s2c)>>]}
           /\ s2c' = Tail(s2c)
  <2>1. /\ Len(s2c') = Len(s2c) - 1 /\ Len(s2c) >= 1 /\ Head(s2c) = s2c[1]
        /\ \A k \in 1 .. Len(s2c) - 1 : s2c'[k] = s2c[k + 1]
    BY <1>1, <1>4, TailIsSeq
  <2>2. PICK h : h = <<s2c[1]>>
    OBVIOUS
  <2>3. \A x \in readers' : x.generation = generation => x.has = h
    <3>1. readers' = (readers \ {r}) \cup {[r EXCEPT !.has = h]} /\ r.generation = generation
      BY <1>4, <2>1, <2>2 DEF Open
    <3> QED BY <1>1, <3>1, ReaderTakes
  <2>4. \A x \in Hands' : x.has[1] = s2c[1]
    BY <1>1, <2>2, <2>3 DEF Hands
  <2> DEFINE f == [p \in Nat |-> IF p < HandAt THEN p ELSE p + 1]
  <2>5. ASSUME NEW x \in Coming'
        PROVE  x.p \in Nat /\ [p |-> f[x.p], m |-> x.m] \in Coming
    <3>0. x \in Flight' /\ x.m.type = "Transition"
      BY DEF Coming
    <3>1. CASE \E i \in Unread' : x = [p |-> i, m |-> incoming'[i].has]
      <4>1. PICK i \in Unread : x = [p |-> i, m |-> incoming[i].has]
        BY <1>1, <1>2, <3>1
      <4>2. i \in Nat /\ i < HandAt
        BY <1>3
      <4>3. f[x.p] = i
        BY <4>1, <4>2
      <4> QED BY <3>0, <4>1, <4>2, <4>3 DEF Coming, Flight
    <3>2. CASE \E y \in Hands' : x = [p |-> HandAt', m |-> y.has[1]]
      <4>1. x.p = HandAt /\ x.m = s2c[1]
        BY <1>2, <2>4, <3>2
      <4>2. f[x.p] = HandAt + 1
        BY <1>3, <4>1
      <4>3. 1 \in 1 .. Len(s2c)
        BY <1>3, <2>1
      <4>4. [p |-> HandAt + 1, m |-> s2c[1]] \in Flight
        BY <4>3 DEF Flight
      <4> QED BY <1>3, <3>0, <4>1, <4>2, <4>4 DEF Coming
    <3>3. CASE \E k \in 1 .. Len(s2c') : x = [p |-> HandAt' + k, m |-> s2c'[k]]
      <4>1. PICK k \in 1 .. Len(s2c') : x = [p |-> HandAt + k, m |-> s2c'[k]]
        BY <1>2, <3>3
      <4>2. /\ k \in Nat /\ k + 1 \in 1 .. Len(s2c) /\ s2c'[k] = s2c[k + 1]
        BY <1>3, <2>1
      <4>3. f[x.p] = HandAt + (k + 1)
        BY <1>3, <4>1, <4>2
      <4>4. [p |-> HandAt + (k + 1), m |-> s2c[k + 1]] \in Flight
        BY <4>2 DEF Flight
      <4>5. x.m = s2c[k + 1] /\ x.p = HandAt + k /\ x.p \in Nat
        BY <1>3, <4>1, <4>2
      <4> HIDE DEF f
      <4> QED BY <3>0, <4>3, <4>4, <4>5 DEF Coming
    <3> QED BY <3>0, <3>1, <3>2, <3>3 DEF Flight
  <2>6. \A x, y \in Coming' : x.p < y.p => f[x.p] < f[y.p]
    <3> SUFFICES ASSUME NEW x \in Coming', NEW y \in Coming', x.p < y.p PROVE f[x.p] < f[y.p]
      OBVIOUS
    <3>1. x.p \in Nat /\ y.p \in Nat
      BY <2>5
    <3>2. \A a, b \in Nat : a < b => f[a] < f[b]
      BY <1>3
    <3> QED BY <3>1, <3>2
  <2> HIDE DEF f
  <2> QED BY <2>5, <2>6, MovesThin
<1>5. CASE /\ readers' = (readers \ {r}) \cup {[r EXCEPT !.has = <<ReadError>>]}
           /\ UNCHANGED s2c
  <2>1. PICK h : h = <<ReadError>>
    OBVIOUS
  <2>2. h[1].type # "Transition"
    BY <2>1 DEF ReadError, Message
  <2>3. \A x \in readers' : x.generation = generation => x.has = h \/ x \in readers
    BY <1>1, <1>5, <2>1, ReaderTakes
  <2>4. \A x \in Hands' : x.has[1].type # "Transition" \/ x \in Hands
    BY <1>1, <2>2, <2>3 DEF Hands
  <2>5. Coming' \subseteq Coming
    BY <1>1, <1>2, <1>5, <2>4 DEF Coming, Flight
  <2> QED BY <2>5 DEF Thins
<1> QED BY <1>4, <1>5 DEF Read

(* The reader puts what it holds in the channel.                            *)
LEMMA PutThins == ASSUME StreamInv, conn, NEW r \in readers, Put(r) PROVE Thins
<1>1. /\ UNCHANGED <<s2c, generation>> /\ Generations /\ IsSeq(incoming)
      /\ r.has # <<>>
  BY DEF Put, owner, socket, wire, StreamInv, Channels
<1>2. /\ Len(incoming) \in Nat /\ HandAt \in Nat /\ HandAt = Len(incoming) + 1
      /\ Len(s2c) \in Nat /\ Unread \subseteq 1 .. Len(incoming)
  BY Places
<1>3. PICK e : e = [generation |-> r.generation, has |-> r.has[1]]
  OBVIOUS
<1>4. PICK n : n = Len(incoming) + 1
  OBVIOUS
<1>5. /\ incoming' = Append(incoming, e) /\ e.generation = r.generation /\ e.has = r.has[1]
  BY <1>3 DEF Put
<1>6. /\ n \in Nat /\ Len(incoming') = n /\ incoming'[n] = e
      /\ \A i \in Unread : i < n /\ incoming'[i] = incoming[i]
      /\ e.generation = generation => Unread' = Unread \cup {n}
      /\ e.generation # generation => Unread' = Unread
  BY <1>1, <1>4, <1>5, ChannelGrows
<1>7. HandAt' = HandAt + 1 /\ HandAt = n
  BY <1>2, <1>4, <1>6 DEF HandAt
<1>8. /\ \A x \in Hands' : x \in Hands
      /\ r.generation = generation => Hands' = {}
  <2>1. PICK H : readers \subseteq [generation : Nat, has : H]
    BY <1>1 DEF Generations
  <2>2. r \in [generation : Nat, has : H]
    BY <2>1
  <2> DEFINE t == [r EXCEPT !.has = <<>>]
  <2>3. t.generation = r.generation /\ t.has = <<>>
    BY <2>2
  <2>4. \A x \in readers' : x = t \/ (x \in readers /\ x # r)
    BY DEF Put
  <2> HIDE DEF t
  <2> QED BY <1>1, <2>3, <2>4 DEF Hands, Generations
<1> HIDE DEF HandAt
<1> DEFINE f == [p \in Nat |-> IF p <= HandAt THEN p ELSE p - 1]
<1>9. ASSUME NEW x \in Coming'
      PROVE  /\ x.p \in Nat /\ [p |-> f[x.p], m |-> x.m] \in Coming
             /\ r.generation = generation => x.p # HandAt + 1
             /\ r.generation # generation => x.p # HandAt
  <2>0. x \in Flight' /\ x.m.type = "Transition"
    BY DEF Coming
  <2>1. CASE \E i \in Unread : x = [p |-> i, m |-> incoming'[i].has]
    <3>1. PICK i \in Unread : x = [p |-> i, m |-> incoming[i].has]
      BY <1>6, <2>1
    <3>2. i \in Nat /\ i < HandAt /\ i # HandAt + 1
      BY <1>2
    <3>3. f[x.p] = i
      BY <1>2, <3>1, <3>2
    <3> QED BY <2>0, <3>1, <3>2, <3>3 DEF Coming, Flight
  <2>2. CASE r.generation = generation /\ x = [p |-> n, m |-> incoming'[n].has]
    <3>1. x.p = HandAt /\ x.m = r.has[1] /\ r \in Hands
      BY <1>1, <1>5, <1>6, <1>7, <2>2 DEF Hands
    <3>2. f[x.p] = HandAt /\ HandAt # HandAt + 1
      BY <1>2, <3>1
    <3> QED BY <1>2, <2>0, <2>2, <3>1, <3>2 DEF Coming, Flight
  <2>3. CASE \E y \in Hands' : x = [p |-> HandAt', m |-> y.has[1]]
    <3>1. PICK y \in Hands : x = [p |-> HandAt + 1, m |-> y.has[1]]
      BY <1>7, <1>8, <2>3
    <3>2. f[x.p] = HandAt /\ HandAt # HandAt + 1 /\ x.p = HandAt + 1 /\ x.p \in Nat
      BY <1>2, <3>1
    <3>3. r.generation # generation
      BY <1>8, <2>3
    <3> QED BY <2>0, <3>1, <3>2, <3>3 DEF Coming, Flight
  <2>4. CASE \E k \in 1 .. Len(s2c) : x = [p |-> HandAt' + k, m |-> s2c[k]]
    <3>1. PICK k \in 1 .. Len(s2c) : x = [p |-> (HandAt + 1) + k, m |-> s2c[k]]
      BY <1>7, <2>4
    <3>2. k \in Nat /\ k >= 1
      BY <1>2
    <3>3. x.p = (HandAt + 1) + k /\ x.m = s2c[k]
      BY <3>1
    <3>4. f[x.p] = HandAt + k /\ x.p \in Nat /\ x.p # HandAt + 1 /\ x.p # HandAt
      BY <1>2, <3>2, <3>3
    <3> QED BY <2>0, <3>3, <3>4 DEF Coming, Flight
  <2> QED BY <1>1, <1>5, <1>6, <2>0, <2>1, <2>2, <2>3, <2>4 DEF Flight
<1>10. \A x, y \in Coming' : x.p < y.p => f[x.p] < f[y.p]
  <2> SUFFICES ASSUME NEW x \in Coming', NEW y \in Coming', x.p < y.p PROVE f[x.p] < f[y.p]
    OBVIOUS
  <2>1. x.p \in Nat /\ y.p \in Nat /\ ~(x.p = HandAt /\ y.p = HandAt + 1)
    BY <1>9
  <2> QED BY <1>2, <2>1
<1> HIDE DEF f
<1> QED BY <1>9, <1>10, MovesThin

(* A link that dies loses the last messages; a bad message is no answer.    *)
LEMMA FaultThins == ASSUME StreamInv, conn, Fault PROVE Thins
<1>1. UNCHANGED <<incoming, readers, generation>> /\ IsSeq(s2c)
  BY DEF Fault, owner, socket, reading, StreamInv, Channels
<1>2. Unread' = Unread /\ HandAt' = HandAt /\ Hands' = Hands
  BY <1>1 DEF Unread, HandAt, Hands
<1>3. Len(s2c) \in Nat
  BY Places
<1> SUFFICES Coming' \subseteq Coming
  BY DEF Thins
<1>4. CASE \E k \in 0 .. Len(s2c) : s2c' = SubSeq(s2c, 1, k)
  <2>1. PICK k \in 0 .. Len(s2c) : s2c' = SubSeq(s2c, 1, k)
    BY <1>4
  <2>2. Len(s2c') = k /\ \A i \in 1 .. k : s2c'[i] = s2c[i]
    BY <1>1, <2>1, PrefixIsSeq
  <2>3. \A i \in 1 .. Len(s2c') : i \in 1 .. Len(s2c) /\ s2c'[i] = s2c[i]
    BY <1>3, <2>2
  <2> QED BY <1>1, <1>2, <2>3 DEF Coming, Flight
<1>5. CASE s2c' = Append(s2c, Message("Unknown", server_version, server_version,
                                      ResultsOf(server_queries)))
  <2>1. PICK m : m = Message("Unknown", server_version, server_version,
                             ResultsOf(server_queries))
    OBVIOUS
  <2>2. m.type # "Transition" /\ s2c' = Append(s2c, m)
    BY <1>5, <2>1 DEF Message
  <2>3. /\ Len(s2c') = Len(s2c) + 1 /\ s2c'[Len(s2c) + 1] = m
        /\ \A i \in 1 .. Len(s2c) : s2c'[i] = s2c[i]
    BY <1>1, <2>2, AppendIsSeq
  <2>4. \A i \in 1 .. Len(s2c') :
          s2c'[i].type # "Transition" \/ (i \in 1 .. Len(s2c) /\ s2c'[i] = s2c[i])
    BY <1>3, <2>2, <2>3
  <2> QED BY <1>1, <1>2, <2>4 DEF Coming, Flight
<1> QED BY <1>4, <1>5 DEF Fault

(* The owner takes the first message of the channel: the others move up,    *)
(* and one of the current socket was before all of them.                   *)
LEMMA TakeThins ==
  ASSUME StreamInv, incoming # <<>>, incoming' = Tail(incoming),
         UNCHANGED <<readers, generation, s2c>>
  PROVE  /\ Thins
         /\ 1 \in Unread /\ incoming[1].has.type = "Transition" =>
              \E first \in Coming : /\ first.m = incoming[1].has
                                    /\ \A x \in Coming' : \E z \in Coming : z.m = x.m /\ first.p < z.p
<1>1. IsSeq(incoming)
  BY DEF StreamInv, Channels
<1>2. /\ Len(incoming) \in Nat /\ HandAt \in Nat /\ HandAt = Len(incoming) + 1
      /\ Len(s2c) \in Nat /\ Unread \subseteq 1 .. Len(incoming)
  BY Places
<1>3. /\ Len(incoming') = Len(incoming) - 1 /\ Len(incoming) \in Nat \ {0}
      /\ Unread' \subseteq Nat
      /\ \A i \in Unread' : i + 1 \in Unread /\ incoming'[i] = incoming[i + 1]
  BY <1>1, ChannelShifts
<1>4. HandAt = HandAt' + 1 /\ HandAt' \in Nat /\ HandAt' >= 1 /\ Hands' = Hands
  BY <1>2, <1>3 DEF HandAt, Hands
<1>5. \A i \in Unread' : i >= 1
  BY <1>3 DEF Unread
<1> HIDE DEF HandAt
<1>h. PICK h \in Nat : h = HandAt' /\ HandAt = h + 1 /\ h >= 1
  BY <1>4
<1> DEFINE f == [p \in Nat |-> p + 1]
<1>6. ASSUME NEW x \in Coming'
      PROVE  x.p \in Nat /\ x.p >= 1 /\ f[x.p] = x.p + 1 /\ [p |-> x.p + 1, m |-> x.m] \in Coming
  <2>0. x \in Flight' /\ x.m.type = "Transition"
    BY DEF Coming
  <2>1. CASE \E i \in Unread' : x = [p |-> i, m |-> incoming'[i].has]
    <3>1. PICK i \in Unread' : x = [p |-> i, m |-> incoming[i + 1].has]
      BY <1>3, <2>1
    <3>2. i \in Nat /\ i >= 1 /\ i + 1 \in Unread
      BY <1>3, <1>5
    <3>3. [p |-> i + 1, m |-> incoming[i + 1].has] \in Flight
      BY <3>2 DEF Flight
    <3> QED BY <2>0, <3>1, <3>2, <3>3 DEF Coming
  <2>2. CASE \E y \in Hands : x = [p |-> HandAt', m |-> y.has[1]]
    <3>1. PICK y \in Hands : x = [p |-> HandAt', m |-> y.has[1]]
      BY <2>2
    <3>2. [p |-> HandAt, m |-> y.has[1]] \in Flight
      BY <3>1 DEF Flight
    <3> QED BY <1>4, <2>0, <3>1, <3>2 DEF Coming
  <2>3. CASE \E k \in 1 .. Len(s2c) : x = [p |-> HandAt' + k, m |-> s2c[k]]
    <3>1. PICK k \in 1 .. Len(s2c) : x = [p |-> HandAt' + k, m |-> s2c[k]]
      BY <2>3
    <3>2. k \in Nat
      BY <1>2
    <3>3. HandAt = h + 1 /\ h >= 1
      BY <1>h
    <3>4. h + k >= 1 /\ h + k \in Nat
      BY <3>2, <3>3
    <3>5. (h + k) + 1 = HandAt + k
      BY <3>2, <3>3
    <3>6. [p |-> HandAt + k, m |-> s2c[k]] \in Flight
      BY <3>1 DEF Flight
    <3>7. x.p = h + k /\ x.m = s2c[k]
      BY <1>h, <3>1
    <3> QED BY <2>0, <3>4, <3>5, <3>6, <3>7 DEF Coming
  <2> QED BY <1>4, <2>0, <2>1, <2>2, <2>3 DEF Flight
<1>7. \A x, y \in Coming' : x.p < y.p => f[x.p] < f[y.p]
  <2> SUFFICES ASSUME NEW x \in Coming', NEW y \in Coming', x.p < y.p PROVE f[x.p] < f[y.p]
    OBVIOUS
  <2>1. x.p \in Nat /\ y.p \in Nat
    BY <1>6
  <2>2. \A a, b \in Nat : a < b => f[a] < f[b]
    OBVIOUS
  <2> QED BY <2>1, <2>2
<1>8. Thins
  <2>1. \A x \in Coming' : [p |-> f[x.p], m |-> x.m] \in Coming
    BY <1>6
  <2> HIDE DEF f
  <2> QED BY <1>7, <2>1, MovesThin
<1>9. ASSUME 1 \in Unread, incoming[1].has.type = "Transition"
      PROVE  \E first \in Coming : /\ first.m = incoming[1].has
               /\ \A x \in Coming' : \E z \in Coming : z.m = x.m /\ first.p < z.p
  <2>1. PICK first : first = [p |-> 1, m |-> incoming[1].has]
    OBVIOUS
  <2>2. first \in Coming /\ first.m = incoming[1].has /\ first.p = 1
    BY <1>9, <2>1 DEF Coming, Flight
  <2>3. ASSUME NEW x \in Coming' PROVE \E z \in Coming : z.m = x.m /\ first.p < z.p
    <3>1. PICK z : z = [p |-> x.p + 1, m |-> x.m]
      OBVIOUS
    <3>2. x.p \in Nat /\ x.p >= 1 /\ [p |-> x.p + 1, m |-> x.m] \in Coming
      BY <1>6
    <3>3. z \in Coming /\ z.m = x.m /\ z.p = x.p + 1
      BY <3>1, <3>2
    <3>4. 1 < z.p
      BY <3>2, <3>3
    <3> QED BY <2>2, <3>3, <3>4
  <2> QED BY <2>2, <2>3
<1> QED BY <1>8, <1>9
-----------------------------------------------------------------------------
(* The backend answers.                                                     *)

(* One message more on the link comes after all that is on its way.         *)
LEMMA AppendFlight ==
  ASSUME StreamInv, NEW m, s2c' = Append(s2c, m), UNCHANGED <<incoming, readers, generation>>,
         NEW n, n = (HandAt + Len(s2c)) + 1
  PROVE  /\ \A x \in Coming : x.p < n
         /\ \A x \in Coming' : x \in Coming \/ (x.p = n /\ x.m = m /\ m.type = "Transition")
<1>1. IsSeq(s2c)
  BY DEF StreamInv, Channels
<1>2. Unread' = Unread /\ HandAt' = HandAt /\ Hands' = Hands
  BY DEF Unread, HandAt, Hands
<1>3. /\ HandAt \in Nat /\ Len(s2c) \in Nat
      /\ \A x \in Flight : x.p \in Nat /\ x.p <= HandAt + Len(s2c)
  BY Places
<1>4. /\ Len(s2c') = Len(s2c) + 1 /\ s2c'[Len(s2c) + 1] = m
      /\ \A i \in 1 .. Len(s2c) : s2c'[i] = s2c[i]
  BY <1>1, AppendIsSeq
<1> HIDE DEF HandAt
<1>5. \A x \in Flight : x.p < n
  <2> SUFFICES ASSUME NEW x \in Flight PROVE x.p < n
    OBVIOUS
  <2>1. x.p \in Nat /\ x.p <= HandAt + Len(s2c)
    BY <1>3
  <2> QED BY <1>3, <2>1
<1>6. ASSUME NEW k \in 1 .. Len(s2c')
      PROVE  \/ k \in 1 .. Len(s2c) /\ s2c'[k] = s2c[k]
             \/ HandAt + k = n /\ s2c'[k] = m
  <2>1. CASE k \in 1 .. Len(s2c)
    BY <1>4, <2>1
  <2>2. CASE k \notin 1 .. Len(s2c)
    <3>1. k = Len(s2c) + 1
      BY <1>3, <1>4, <2>2
    <3>2. HandAt + k = n
      BY <1>3, <3>1
    <3> QED BY <1>4, <3>1, <3>2
  <2> QED BY <2>1, <2>2
<1>7. ASSUME NEW x \in Coming' PROVE x \in Coming \/ (x.p = n /\ x.m = m /\ m.type = "Transition")
  <2>1. x \in Flight' /\ x.m.type = "Transition"
    BY DEF Coming
  <2>2. CASE \E k \in 1 .. Len(s2c') : x = [p |-> HandAt + k, m |-> s2c'[k]]
    <3>1. PICK k \in 1 .. Len(s2c') : x = [p |-> HandAt + k, m |-> s2c'[k]]
      BY <2>2
    <3>2. CASE k \in 1 .. Len(s2c) /\ s2c'[k] = s2c[k]
      BY <2>1, <3>1, <3>2 DEF Coming, Flight
    <3>3. CASE HandAt + k = n /\ s2c'[k] = m
      BY <2>1, <3>1, <3>3
    <3> QED BY <1>6, <3>2, <3>3
  <2>3. CASE \/ \E i \in Unread : x = [p |-> i, m |-> incoming[i].has]
             \/ \E r \in Hands : x = [p |-> HandAt, m |-> r.has[1]]
    BY <2>1, <2>3 DEF Coming, Flight
  <2> QED BY <1>2, <2>1, <2>2, <2>3 DEF Flight
<1> QED BY <1>5, <1>7 DEF Coming

(* It is in order with them when it is true, and newer than what they say.  *)
LEMMA SendsKeep ==
  ASSUME StreamInv, Kept, Answers, Ascending, UNCHANGED updates,
         next_query_id' \in Nat, next_query_id <= next_query_id',
         \A q \in Subs : result'[q] \in Nat /\ result[q] <= result'[q],
         link' = "up" => /\ link = "up" /\ server_version'.ts \in Nat
                         /\ server_version.ts <= server_version'.ts,
         \A q \in active' : q \in active \/ ~(q < next_query_id),
         awaiting_rehydration \cap active' \subseteq awaiting_rehydration',
         NEW m, s2c' = Append(s2c, m), UNCHANGED <<incoming, readers, generation>>,
         Truthful(m)', \A x \in Coming : Newer(x.m, m)
  PROVE  (Answers /\ Ascending)'
<1>1. PICK n : n = (HandAt + Len(s2c)) + 1
  OBVIOUS
<1>2. /\ \A x \in Coming : x.p < n
      /\ \A x \in Coming' : x \in Coming \/ (x.p = n /\ x.m = m /\ m.type = "Transition")
  BY <1>1, AppendFlight
<1>3. /\ HandAt \in Nat /\ Len(s2c) \in Nat
      /\ \A x \in Coming : x.p \in Nat
  BY Places DEF Coming
<1>4. n \in Nat
  BY <1>1, <1>3
<1>5. ASSUME NEW x \in Coming' PROVE Truthful(x.m)'
  <2>1. PICK k : k = x.m
    OBVIOUS
  <2>2. CASE x \in Coming
    <3>1. Truthful(k)
      BY <2>1, <2>2 DEF Answers
    <3>2. Truthful(k)'
      BY <3>1, StillTruthful
    <3> QED BY <2>1, <3>2
  <2>3. CASE x.m = m
    BY <2>3
  <2> QED BY <1>2, <2>2, <2>3
<1>6. ASSUME NEW x \in Coming', NEW y \in Coming', x.p < y.p PROVE Newer(x.m, y.m)
  <2>1. x \in Coming
    <3>1. y.p \in Nat /\ y.p <= n
      BY <1>2, <1>3, <1>4
    <3>2. x.p # n
      BY <1>4, <1>6, <3>1
    <3> QED BY <1>2, <3>2
  <2>2. CASE y \in Coming
    BY <1>6, <2>1, <2>2 DEF Ascending
  <2>3. CASE y.m = m
    BY <2>1, <2>3
  <2> QED BY <1>2, <2>2, <2>3
<1>7. Ascending'
  BY <1>6 DEF Ascending, Newer
<1> QED BY <1>5, <1>7 DEF Answers

(* What the backend reports of a set of queries.                            *)
LEMMA ResultsReported ==
  ASSUME Kept, NEW S
  PROVE  /\ ResultsOf(S) \in Reports
         /\ \A q \in Subs : ResultsOf(S)[q] # Nothing => q \in S /\ ResultsOf(S)[q] = result[q]
BY DEF Kept, ResultsOf, Reports

(* A message with the results that are new to the link, and with those of   *)
(* queries nobody asked for before, is true and newer than all before.     *)
LEMMA ReportsAreTrue ==
  ASSUME Data, Kept', UNCHANGED <<result, updates>>, link = "up", server_version'.ts = now,
         NEW m, m.mods \in Reports,
         \A q \in Subs : m.mods[q] # Nothing =>
           /\ m.mods[q] = result[q] /\ q < next_query_id'
           /\ server_version.ts < result[q] \/ ~(q < next_query_id),
         \A q \in m.removed : q \in Nat /\ q < next_query_id' /\ q \notin active'
  PROVE  /\ Truthful(m)'
         /\ \A z : Truthful(z) => Newer(z, m)
<1>0. /\ Times \subseteq Nat /\ server_version.ts \in Nat /\ server_version.ts <= now
      /\ \A q \in Subs : result[q] \in Nat /\ result[q] <= now
  BY Constants DEF Data, Kept
<1>1. \A q \in Subs : \A i \in DOMAIN updates[q] : updates[q][i].at \in Nat
  BY ElementTypes DEF Data, Kept
<1>2. ASSUME NEW q \in Subs, m.mods[q] # Nothing
      PROVE  /\ q < next_query_id' /\ m.mods[q] <= result'[q]
             /\ m.mods[q] <= server_version'.ts
             /\ \A i \in DOMAIN updates[q] : IsResult(updates[q][i]) =>
                  updates[q][i].at < m.mods[q]
  <2>1. \A i \in DOMAIN updates[q] : IsResult(updates[q][i]) =>
          updates[q][i].at <= server_version.ts /\ q < next_query_id
    BY DEF Data, Told
  <2> QED BY <1>0, <1>1, <1>2, <2>1
<1>3. Truthful(m)'
  <2>1. m.mods \in Reports'
    BY DEF Reports
  <2> QED BY <1>2, <2>1 DEF Truthful
<1>4. ASSUME NEW z, Truthful(z) PROVE Newer(z, m)
  <2> SUFFICES ASSUME NEW q \in Subs, z.mods[q] # Nothing, m.mods[q] # Nothing
               PROVE  z.mods[q] < m.mods[q]
    BY DEF Newer
  <2>1. /\ q < next_query_id /\ z.mods[q] <= server_version.ts /\ z.mods[q] \in Nat
    BY <1>4, Constants DEF Truthful, Reports
  <2> QED BY <1>0, <2>1
<1> QED BY <1>3, <1>4

(* Writing a ModifyQuerySet keeps the types of the backend.                 *)
LEMMA ServerReadTypes ==
  ASSUME Kept, NEW m, ServerRead(m), next_query_id <= next_query_id', next_query_id' \in Nat,
         \A q \in m.adds : q \in Nat /\ q < next_query_id'
  PROVE  /\ \A q \in server_queries' : q \in Nat /\ q < next_query_id'
         /\ \E Q : server_version' \in [querySet : Q, ts : Times]
         /\ server_version'.ts <= now
         /\ link' = "up" => /\ link = "up"
                            /\ UNCHANGED server_version \/ server_version'.ts = now
<1>0. /\ \E Q : server_version \in [querySet : Q, ts : Times]
      /\ server_version.ts <= now /\ now \in Times /\ next_query_id \in Nat
      /\ \A q \in server_queries : q \in Nat /\ q < next_query_id
      /\ now \in Nat
  BY Constants DEF Kept
<1>1. CASE UNCHANGED server /\ (link' = "up" => link = "up")
  BY <1>0, <1>1 DEF server
<1>2. CASE /\ server_version' = [querySet |-> server_version.querySet + 1, ts |-> now]
           /\ server_queries' = (server_queries \cup m.adds) \ m.removes
           /\ UNCHANGED link /\ link = "up"
  <2>1. /\ server_version' \in [querySet : {server_version.querySet + 1}, ts : Times]
        /\ server_version'.ts = now
    BY <1>0, <1>2
  <2>2. \E Q : server_version' \in [querySet : Q, ts : Times]
    BY <2>1
  <2>3. \A q \in server_queries' : q \in Nat /\ q < next_query_id'
    BY <1>0, <1>2
  <2>4. server_version'.ts <= now
    BY <1>0, <2>1
  <2> QED BY <1>2, <2>1, <2>2, <2>3, <2>4
<1> QED BY <1>1, <1>2 DEF ServerRead, wire

(* And it keeps the messages on their way in order.                         *)
LEMMA ServerReadKeeps ==
  ASSUME StreamInv, Data, Answers, Ascending, Kept', NEW m, ServerRead(m),
         UNCHANGED <<incoming, readers, generation, now, result, updates>>,
         next_query_id <= next_query_id',
         \A q \in m.adds : q \in Nat /\ q < next_query_id' /\ ~(q < next_query_id),
         \A q \in m.removes : q \in Nat /\ q < next_query_id' /\ q \notin active',
         \A q \in active' : q \in active \/ ~(q < next_query_id),
         awaiting_rehydration \cap active' \subseteq awaiting_rehydration'
  PROVE  (Answers /\ Ascending)'
<1>0. /\ Kept /\ next_query_id' \in Nat /\ next_query_id \in Nat
      /\ \A q \in Subs : result'[q] \in Nat /\ result[q] <= result'[q]
      /\ now \in Nat /\ server_version.ts \in Nat /\ server_version'.ts \in Nat
      /\ server_version.ts <= now
      /\ \A q \in server_queries : q \in Nat /\ q < next_query_id
  <2>1. Times \subseteq Nat
    BY Constants
  <2>2. next_query_id' \in Nat /\ server_version'.ts \in Nat
    BY <2>1 DEF Kept
  <2>3. /\ next_query_id \in Nat /\ server_version.ts \in Nat /\ now \in Nat
        /\ \A q \in Subs : result[q] \in Nat
    BY <2>1 DEF Data, Kept
  <2>4. /\ Kept /\ server_version.ts <= now
        /\ \A q \in server_queries : q \in Nat /\ q < next_query_id
    BY DEF Data, Kept
  <2>5. \A q \in Subs : result'[q] \in Nat /\ result[q] <= result'[q]
    BY <2>3
  <2> QED BY <2>2, <2>3, <2>4, <2>5
<1>1. CASE link # "up"
  <2>1. UNCHANGED <<link, s2c>>
    BY <1>1 DEF ServerRead, wire
  <2>2. Thins
    BY <2>1, SameFlight
  <2> QED BY <1>0, <1>1, <2>1, <2>2, ThinsKeep
<1>2. CASE link = "up" /\ m.base # server_version.querySet
  <2>1. PICK f : f = FatalError
    OBVIOUS
  <2>2. s2c' = Append(s2c, f) /\ link' # "up" /\ f.type # "Transition"
    BY <1>2, <2>1 DEF ServerRead, FatalError, Message
  <2>3. PICK n : n = (HandAt + Len(s2c)) + 1
    OBVIOUS
  <2>4. \A x \in Coming' : x \in Coming
    BY <2>2, <2>3, AppendFlight
  <2>5. Thins
    BY <2>4 DEF Thins
  <2> QED BY <1>0, <2>2, <2>5, ThinsKeep
<1>3. CASE link = "up" /\ m.base = server_version.querySet
  <2>1. PICK known : known = (server_queries \cup m.adds) \ m.removes
    OBVIOUS
  <2>2. PICK S : S = m.adds \cup News(known)
    OBVIOUS
  <2>3. PICK a : a = [Message("Transition", server_version,
                        [querySet |-> server_version.querySet + 1, ts |-> now],
                        ResultsOf(S)) EXCEPT !.removed = m.removes]
    OBVIOUS
  <2>4. /\ s2c' = Append(s2c, a) /\ UNCHANGED link
        /\ server_version' = [querySet |-> server_version.querySet + 1, ts |-> now]
    BY <1>3, <2>1, <2>2, <2>3 DEF ServerRead
  <2>5. a.mods = ResultsOf(S) /\ a.removed = m.removes
    BY <2>3 DEF Message
  <2>6. server_version'.ts = now
    BY <2>4
  <2>7. /\ a.mods \in Reports
        /\ \A q \in Subs : a.mods[q] # Nothing => q \in S /\ a.mods[q] = result[q]
    BY <1>0, <2>5, ResultsReported
  <2>8. ASSUME NEW q \in S
        PROVE  /\ q \in Nat /\ q < next_query_id'
               /\ server_version.ts < result[q] \/ ~(q < next_query_id)
    <3>1. CASE q \in m.adds
      BY <3>1
    <3>2. CASE q \in News(known) /\ q \notin m.adds
      <4>1. q \in server_queries /\ result[q] > server_version.ts
        BY <2>1, <3>2 DEF News
      <4>2. q \in Nat /\ q < next_query_id'
        BY <1>0, <4>1
      <4> QED BY <4>1, <4>2
    <3> QED BY <2>2, <3>1, <3>2
  <2>9. /\ Truthful(a)'
        /\ \A z : Truthful(z) => Newer(z, a)
    BY <1>3, <2>5, <2>6, <2>7, <2>8, ReportsAreTrue
  <2>10. \A x \in Coming : Newer(x.m, a)
    BY <2>9 DEF Answers
  <2> QED BY <1>0, <1>3, <2>4, <2>6, <2>9, <2>10, SendsKeep
<1> QED BY <1>1, <1>2, <1>3

(* A push does, too.                                                        *)
LEMMA PushKeepsOrder == ASSUME StreamInv, OrderInv, ServerPush PROVE OrderInv'
<1>1. /\ link = "up"
      /\ UNCHANGED <<incoming, readers, generation, now, result, updates, active, next_query_id,
                     awaiting_rehydration, last_delivered, link, conn, server_queries>>
  BY DEF ServerPush, owner, registry, socket, delivery, reading, data
<1>0. /\ Data /\ Kept /\ next_query_id \in Nat /\ now \in Nat /\ server_version.ts \in Nat
      /\ \A q \in Subs : result[q] \in Nat
      /\ server_version.ts <= now /\ now \in Times
      /\ \A q \in server_queries : q \in Nat /\ q < next_query_id
  BY Constants DEF OrderInv, Data, Kept
<1>2. PICK S : S = News(server_queries)
  OBVIOUS
<1>3. PICK v : v = [server_version EXCEPT !.ts = now]
  OBVIOUS
<1>4. PICK m : m = Message("Transition", server_version, v, ResultsOf(S))
  OBVIOUS
<1>5. /\ s2c' = Append(s2c, m) /\ server_version' = v
      /\ m.mods = ResultsOf(S) /\ m.removed = {}
  BY <1>2, <1>3, <1>4 DEF ServerPush, Message
<1>6. v.ts = now /\ \E Q : v \in [querySet : Q, ts : Times]
  BY <1>0, <1>3 DEF Kept
<1>7. Kept'
  BY <1>0, <1>1, <1>5, <1>6 DEF Kept
<1>8. Data'
  <2>1. \A q \in Subs : result[q] <= result'[q]
    BY <1>0, <1>1
  <2> QED BY <1>0, <1>1, <1>5, <1>6, <1>7, <2>1, DataQuiet
<1>9. ASSUME conn PROVE (Answers /\ Ascending)'
  <2>1. Answers /\ Ascending
    BY <1>9 DEF OrderInv
  <2>2. /\ m.mods \in Reports
        /\ \A q \in Subs : m.mods[q] # Nothing => q \in S /\ m.mods[q] = result[q]
    BY <1>0, <1>5, ResultsReported
  <2>3. \A q \in S : q < next_query_id' /\ server_version.ts < result[q]
    BY <1>0, <1>1, <1>2 DEF News
  <2>4. /\ Truthful(m)'
        /\ \A z : Truthful(z) => Newer(z, m)
    BY <1>0, <1>1, <1>5, <1>6, <1>7, <2>2, <2>3, ReportsAreTrue
  <2>5. \A x \in Coming : Newer(x.m, m)
    BY <2>1, <2>4 DEF Answers
  <2>6. \A q \in Subs : result'[q] \in Nat /\ result[q] <= result'[q]
    BY <1>0, <1>1
  <2> QED BY <1>0, <1>1, <1>5, <1>6, <2>1, <2>4, <2>5, <2>6, SendsKeep
<1> QED BY <1>1, <1>8, <1>9 DEF OrderInv
-----------------------------------------------------------------------------
(* Steps on which there is no connection afterwards.                        *)

(* The version of a backend without a session is that of no commit.         *)
LEMMA InitialVersionType ==
  InitialVersion \in [querySet : Nat, ts : Times] /\ InitialVersion.ts = 0
<1>1. 0 \in Times /\ 0 \in Nat
  BY Constants DEF Times
<1> QED BY <1>1 DEF InitialVersion

(* closeConnection keeps the types of the backend.                          *)
LEMMA RetireTypes ==
  ASSUME Kept, NEW subs, Retire(subs)
  PROVE  /\ ~conn' /\ link' # "up" /\ server_queries' = {}
         /\ server_version' = InitialVersion
         /\ \E Q : server_version' \in [querySet : Q, ts : Times]
         /\ server_version'.ts <= now
<1>1. /\ ~conn' /\ link' # "up" /\ server_queries' = {}
      /\ server_version' = InitialVersion
  BY DEF Retire
<1>2. now \in Nat
  BY Constants DEF Kept
<1> QED BY <1>1, <1>2, InitialVersionType

(* A subscription is made.  Its id is new, so nothing was told to it.       *)
LEMMA SubscribeKeepsOrder ==
  ASSUME StreamInv, OrderInv, NEW c, TakeSubscribe(c) PROVE OrderInv'
<1> DEFINE q == next_query_id
<1>0. Data /\ Kept /\ next_query_id \in Nat /\ \A s \in Subs : result[s] \in Nat
  BY Constants DEF OrderInv, Data, Kept
<1>1. /\ next_query_id' = q + 1 /\ active' = active \cup {q}
      /\ UNCHANGED <<updates, last_delivered, awaiting_rehydration, incoming, readers, now, result>>
  BY DEF TakeSubscribe, delivery, reading, data
<1>2. ASSUME server_queries' = server_queries \/ \A s \in server_queries' : s \in Nat /\ s < q + 1,
             \E Q : server_version' \in [querySet : Q, ts : Times], server_version'.ts <= now,
             link' = "up" => /\ link = "up"
                             /\ UNCHANGED server_version \/ server_version'.ts = now
      PROVE  Kept' /\ Data'
  <2>1. Kept'
    <3>1. \A a \in active' \cup server_queries' : a \in Nat /\ a < next_query_id'
      BY <1>0, <1>1, <1>2 DEF Kept
    <3> QED BY <1>0, <1>1, <1>2, <3>1 DEF Kept
  <2>2. \A s \in Subs : s \in active' => s \in active \/ ~(s < next_query_id)
    BY <1>0, <1>1
  <2>3. next_query_id <= next_query_id' /\ \A s \in Subs : result[s] <= result'[s]
    BY <1>0, <1>1
  <2>4. Data'
    BY <1>0, <1>1, <1>2, <2>1, <2>2, <2>3, DataQuiet
  <2> QED BY <2>1, <2>4
<1>3. CASE ~conn /\ UNCHANGED <<socket, server, wire>>
  <2>1. UNCHANGED <<server_queries, server_version, link>> /\ ~conn'
    BY <1>3 DEF socket, server, wire
  <2> QED BY <1>0, <1>2, <2>1 DEF OrderInv, Kept
<1>4. CASE conn /\ Retire(active')
  <2>1. PICK subs : Retire(subs)
    BY <1>4
  <2> QED BY <1>0, <1>2, <2>1, RetireTypes DEF OrderInv
<1>5. CASE /\ conn /\ ServerRead(Modify(query_set_version, {q}, {})) /\ UNCHANGED socket
  <2>1. PICK m : m = Modify(query_set_version, {q}, {})
    OBVIOUS
  <2>2. ServerRead(m) /\ m.adds = {q} /\ m.removes = {}
    BY <1>5, <2>1 DEF Modify
  <2>3. /\ next_query_id' \in Nat /\ next_query_id <= next_query_id' /\ q \in Nat
        /\ q < next_query_id' /\ ~(q < next_query_id)
    BY <1>0, <1>1
  <2>4. Kept' /\ Data'
    BY <1>0, <1>1, <1>2, <2>2, <2>3, ServerReadTypes
  <2>5. Answers /\ Ascending /\ UNCHANGED <<generation, conn>>
    BY <1>5 DEF OrderInv, socket
  <2>6. \A s \in active' : s \in active \/ ~(s < next_query_id)
    BY <1>1, <2>3
  <2>7. (Answers /\ Ascending)'
    BY <1>0, <1>1, <2>2, <2>3, <2>4, <2>5, <2>6, ServerReadKeeps
  <2> QED BY <2>4, <2>7 DEF OrderInv
<1> QED BY <1>3, <1>4, <1>5 DEF TakeSubscribe

(* A subscription is removed.                                               *)
LEMMA UnsubscribeKeepsOrder ==
  ASSUME StreamInv, OrderInv, NEW c, TakeUnsubscribe(c) PROVE OrderInv'
<1>q. PICK q : q = call[c].q
  OBVIOUS
<1>0. Data /\ Kept /\ next_query_id \in Nat /\ \A s \in Subs : result[s] \in Nat
  BY Constants DEF OrderInv, Data, Kept
<1>1. UNCHANGED <<next_query_id, incoming, readers, now, result>>
  BY DEF TakeUnsubscribe, reading, data
<1>2. CASE UNCHANGED <<active, delivery>> /\ KeepConnection
  <2>1. UNCHANGED <<active, updates, last_delivered, awaiting_rehydration, server_queries,
                    server_version, link, conn, generation, s2c>>
    BY <1>2 DEF delivery, KeepConnection, server, wire
  <2>2. Kept'
    BY <1>0, <1>1, <2>1 DEF Kept
  <2>3. \A s \in Subs : result[s] <= result'[s] /\ result'[s] \in Nat
    BY <1>0, <1>1
  <2>4. Data'
    BY <1>0, <1>1, <2>1, <2>2, <2>3, DataQuiet
  <2>5. ASSUME conn PROVE (Answers /\ Ascending)'
    <3>1. Thins
      BY <1>1, <2>1, SameFlight
    <3>2. server_version.ts \in Nat
      BY Constants DEF OrderInv, Data, Kept
    <3> QED BY <1>0, <1>1, <2>1, <2>3, <2>5, <3>1, <3>2, ThinsKeep DEF OrderInv
  <2> QED BY <2>1, <2>4, <2>5 DEF OrderInv
<1>3. CASE /\ q \in active /\ active' = active \ {q}
           /\ last_delivered' = [last_delivered EXCEPT ![q] = NoUpdate]
           /\ awaiting_rehydration' = awaiting_rehydration \ {q}
           /\ UNCHANGED updates
           /\ \/ ~conn /\ UNCHANGED <<socket, server, wire>>
              \/ conn /\ Retire(active \ {q})
              \/ /\ conn /\ ServerRead(Modify(query_set_version, {}, {q})) /\ UNCHANGED socket
  <2>1. /\ last_delivered' \in [Subs -> Changes]
        /\ \A s \in Subs : s \in active' => s \in active /\ last_delivered'[s] = last_delivered[s]
    BY <1>0, <1>3, UpdateTypes DEF Kept
  <2>2. /\ q \in Nat /\ q < next_query_id /\ q \notin active'
    BY <1>0, <1>3 DEF Kept
  <2>3. ASSUME \A s \in server_queries' : s \in Nat /\ s < next_query_id,
               \E Q : server_version' \in [querySet : Q, ts : Times], server_version'.ts <= now,
               link' = "up" => /\ link = "up"
                               /\ UNCHANGED server_version \/ server_version'.ts = now
        PROVE  Kept' /\ Data'
    <3>1. \A a \in active' \cup server_queries' : a \in Nat /\ a < next_query_id'
      BY <1>0, <1>1, <1>3, <2>3 DEF Kept
    <3>2. Kept'
      BY <1>0, <1>1, <1>3, <2>1, <2>3, <3>1 DEF Kept
    <3>3. \A s \in Subs : result[s] <= result'[s]
      BY <1>0, <1>1
    <3>4. Data'
      BY <1>0, <1>1, <1>3, <2>1, <2>3, <3>2, <3>3, DataQuiet
    <3> QED BY <3>2, <3>4
  <2>4. CASE ~conn /\ UNCHANGED <<socket, server, wire>>
    <3>1. UNCHANGED <<server_queries, server_version, link>> /\ ~conn'
      BY <2>4 DEF socket, server, wire
    <3> QED BY <1>0, <2>3, <3>1 DEF OrderInv, Kept
  <2>5. CASE conn /\ Retire(active \ {q})
    <3>1. PICK subs : Retire(subs)
      BY <2>5
    <3> QED BY <1>0, <2>3, <3>1, RetireTypes DEF OrderInv
  <2>6. CASE conn /\ ServerRead(Modify(query_set_version, {}, {q})) /\ UNCHANGED socket
    <3>1. PICK m : m = Modify(query_set_version, {}, {q})
      OBVIOUS
    <3>2. ServerRead(m) /\ m.adds = {} /\ m.removes = {q}
      BY <2>6, <3>1 DEF Modify
    <3>3. next_query_id' \in Nat /\ next_query_id <= next_query_id'
      BY <1>0, <1>1
    <3>4. Kept' /\ Data'
      BY <1>0, <1>1, <2>3, <3>2, <3>3, ServerReadTypes
    <3>5. Answers /\ Ascending /\ UNCHANGED <<generation, conn>>
      BY <2>6 DEF OrderInv, socket
    <3>6. (Answers /\ Ascending)'
      BY <1>0, <1>1, <1>3, <2>2, <3>2, <3>3, <3>4, <3>5, ServerReadKeeps
    <3> QED BY <3>4, <3>6 DEF OrderInv
  <2> QED BY <1>3, <2>4, <2>5, <2>6
<1> QED BY <1>q, <1>2, <1>3 DEF TakeUnsubscribe

(* closeConnection, when nothing is published with it.                      *)
LEMMA RetireKeepsOrder ==
  ASSUME OrderInv, NEW subs, Retire(subs),
         UNCHANGED <<active, next_query_id, updates, last_delivered, now, result>>
  PROVE  OrderInv'
<1>0. Data /\ Kept /\ next_query_id \in Nat /\ \A s \in Subs : result[s] \in Nat
  BY Constants DEF OrderInv, Data, Kept
<1>1. /\ ~conn' /\ link' # "up" /\ server_queries' = {}
      /\ \E Q : server_version' \in [querySet : Q, ts : Times]
      /\ server_version'.ts <= now
  BY <1>0, RetireTypes
<1>2. Kept'
  BY <1>0, <1>1 DEF Kept
<1>3. \A s \in Subs : result[s] <= result'[s]
  BY <1>0
<1>4. Data'
  BY <1>0, <1>1, <1>2, <1>3, DataQuiet
<1> QED BY <1>1, <1>4 DEF OrderInv

(* A connect that fails leaves no connection and the channels as they were. *)
LEMMA ConnectFailsKeepsOrder == ASSUME StreamInv, OrderInv, ConnectFails PROVE OrderInv'
<1>0. Data /\ Kept /\ next_query_id \in Nat /\ \A s \in Subs : result[s] \in Nat
  BY Constants DEF OrderInv, Data, Kept
<1>1. /\ UNCHANGED <<active, next_query_id, updates, last_delivered, now, result, conn, link,
                     server_version, server_queries>>
      /\ pc = "dialing"
  BY DEF ConnectFails, registry, wire, server, data
<1>2. ~conn'
  BY <1>1 DEF StreamInv, Counting
<1>3. Kept'
  BY <1>0, <1>1 DEF Kept
<1>4. \A s \in Subs : result[s] <= result'[s]
  BY <1>0, <1>1
<1>5. Data'
  BY <1>0, <1>1, <1>3, <1>4, DataQuiet
<1> QED BY <1>2, <1>5 DEF OrderInv

(* When the owner ends, nobody is subscribed any more.                      *)
LEMMA StopKeepsOrder == ASSUME OrderInv, Stop PROVE OrderInv'
<1>0. Data /\ Kept /\ next_query_id \in Nat /\ \A s \in Subs : result[s] \in Nat /\ now \in Nat
  BY Constants DEF OrderInv, Data, Kept
<1>1. /\ UNCHANGED <<next_query_id, updates, now, result>>
      /\ active' = {} /\ server_queries' = {} /\ ~conn' /\ link' # "up"
      /\ last_delivered' = [q \in Subs |-> NoUpdate] /\ server_version' = InitialVersion
  BY DEF Stop, data
<1>2. Kept'
  BY <1>0, <1>1, InitialVersionType, UpdateTypes, Constants DEF Kept
<1>3. \A s \in Subs : result[s] <= result'[s]
  BY <1>0, <1>1
<1>4. Data'
  BY <1>0, <1>1, <1>2, <1>3, DataQuiet
<1> QED BY <1>1, <1>4 DEF OrderInv

(* A new connection.  All that was on its way is of an older generation; the *)
(* first answer is as new as anything told, and of a query of which         *)
(* something was told, the client expects the same again.                  *)
LEMMA ConnectedKeepsOrder == ASSUME StreamInv, OrderInv, Connected PROVE OrderInv'
<1>0. /\ Data /\ Kept /\ next_query_id \in Nat /\ now \in Times /\ now \in Nat
      /\ \A s \in Subs : result[s] \in Nat /\ result[s] <= now
      /\ \A a \in active : a \in Nat /\ a < next_query_id
  BY Constants DEF OrderInv, Data, Kept
<1>1. /\ UNCHANGED <<active, next_query_id, updates, last_delivered, now, result, incoming>>
      /\ generation' = generation + 1
      /\ readers' = readers \cup {[generation |-> generation + 1, has |-> <<>>]}
      /\ awaiting_rehydration' =
           awaiting_rehydration \cup {q \in active : last_delivered[q] # NoUpdate}
      /\ ServerAccepts(connection_count, active)
  BY DEF Connected, registry, data
<1>2. PICK v : v = [querySet |-> 1, ts |-> now]
  OBVIOUS
<1>3. v \in [querySet : {1}, ts : Times] /\ v.ts = now
  BY <1>0, <1>2
<1>4. PICK m : m = Message("Transition", InitialVersion, v, ResultsOf(active))
  OBVIOUS
<1>5. \/ /\ link' = "up" /\ server_version' = v /\ server_queries' = active /\ s2c' = <<m>>
      \/ link' # "up" /\ UNCHANGED server /\ s2c' = <<FatalError>>
  BY <1>1, <1>2, <1>4 DEF ServerAccepts
<1>6. m.mods = ResultsOf(active) /\ m.removed = {}
  BY <1>4 DEF Message
<1>7. Kept'
  <2>1. CASE server_version' = v /\ server_queries' = active
    <3>1. \E Q : server_version' \in [querySet : Q, ts : Times]
      BY <1>3, <2>1
    <3>2. server_version'.ts <= now
      BY <1>0, <1>3, <2>1
    <3> QED BY <1>0, <1>1, <2>1, <3>1, <3>2 DEF Kept
  <2>2. CASE UNCHANGED server
    BY <1>0, <1>1, <2>2 DEF Kept, server
  <2> QED BY <1>5, <2>1, <2>2
<1>8. Data'
  <2>1. \A s \in Subs : result[s] <= result'[s]
    BY <1>0, <1>1
  <2> QED BY <1>0, <1>1, <1>3, <1>5, <1>7, <2>1, DataQuiet
<1>9. ASSUME NEW x \in Coming' PROVE x.m = m /\ x.p = HandAt' + 1 /\ link' = "up" /\ server_version' = v
  <2>1. Generations /\ generation \in Nat
    BY DEF StreamInv, Numbers
  <2>2. PICK H : readers \subseteq [generation : Nat, has : H]
    BY <2>1 DEF Generations
  <2>3. \A r \in readers : r.generation # generation + 1
    BY <2>1, <2>2 DEF Generations
  <2>4. Unread' = {}
    BY <1>1, <2>1 DEF Unread, Generations
  <2>5. Hands' = {}
    <3>1. \A r \in readers' : r \in readers \/ r.has = <<>>
      BY <1>1
    <3> QED BY <1>1, <2>3, <3>1 DEF Hands
  <2>6. PICK e : s2c' = <<e>> /\ (e.type = "Transition" =>
                   e = m /\ link' = "up" /\ server_version' = v)
    <3>1. CASE link' = "up" /\ server_version' = v /\ s2c' = <<m>>
      BY <3>1
    <3>2. CASE s2c' = <<FatalError>>
      BY <3>2 DEF FatalError, Message
    <3> QED BY <1>5, <3>1, <3>2
  <2>7. Len(s2c') = 1 /\ s2c'[1] = e
    BY <2>6, OneIsSeq
  <2>8. x \in Flight' /\ x.m.type = "Transition"
    BY DEF Coming
  <2>9. PICK k \in 1 .. 1 : x = [p |-> HandAt' + k, m |-> s2c'[k]]
    BY <2>4, <2>5, <2>7, <2>8 DEF Flight
  <2>10. x = [p |-> HandAt' + 1, m |-> e]
    BY <2>7, <2>9
  <2> QED BY <2>6, <2>8, <2>10
<1>10. ASSUME link' = "up", server_version' = v PROVE Truthful(m)'
  <2>1. /\ m.mods \in Reports
        /\ \A q \in Subs : m.mods[q] # Nothing => q \in active /\ m.mods[q] = result[q]
    BY <1>0, <1>6, ResultsReported
  <2>2. ASSUME NEW q \in Subs, m.mods[q] # Nothing
        PROVE  /\ q < next_query_id /\ m.mods[q] <= result[q] /\ m.mods[q] <= now
               /\ \A i \in DOMAIN updates[q] : IsResult(updates[q][i]) =>
                    \/ updates[q][i].at < m.mods[q]
                    \/ updates[q][i].at = m.mods[q] /\ q \in awaiting_rehydration'
    <3>1. q < next_query_id /\ m.mods[q] <= result[q] /\ m.mods[q] <= now
      BY <1>0, <2>1, <2>2
    <3>2. ASSUME NEW i \in DOMAIN updates[q], IsResult(updates[q][i])
          PROVE  updates[q][i].at <= m.mods[q] /\ q \in awaiting_rehydration'
      <4>1. updates[q][i].at <= result[q]
        BY <1>0, <3>2 DEF Data, Told
      <4>2. last_delivered[q] # NoUpdate
        BY <1>0, <2>1, <2>2, <3>2 DEF Data, LastTold
      <4> QED BY <1>1, <2>1, <2>2, <4>1, <4>2
    <3>3. \A i \in DOMAIN updates[q] : updates[q][i].at \in Nat
      BY <1>0, ElementTypes DEF Kept
    <3> QED BY <1>0, <2>1, <2>2, <3>1, <3>2, <3>3
  <2>3. m.mods \in Reports'
    BY <2>1 DEF Reports
  <2> QED BY <1>1, <1>3, <1>6, <1>10, <2>2, <2>3 DEF Truthful
<1>11. Answers'
  BY <1>9, <1>10 DEF Answers
<1>12. Ascending'
  <2>1. HandAt' \in Nat
    BY LenIsNat, <1>1 DEF HandAt, StreamInv, Channels
  <2>2. \A x, y \in Coming' : x.p = y.p /\ x.p \in Nat
    BY <1>9, <2>1
  <2>3. \A x, y \in Coming' : ~(x.p < y.p)
    BY <2>2
  <2> QED BY <2>3 DEF Ascending
<1> QED BY <1>8, <1>11, <1>12 DEF OrderInv

(* A write makes one result newer.                                          *)
LEMMA WriteKeepsOrder == ASSUME StreamInv, OrderInv, NEW w \in Subs, Write(w) PROVE OrderInv'
<1>0. /\ Data /\ Kept /\ next_query_id \in Nat /\ now \in Nat /\ server_version.ts \in Nat
      /\ \A s \in Subs : result[s] \in Nat /\ result[s] <= now
  BY Constants DEF OrderInv, Data, Kept
<1>1. /\ now < MaxNow /\ now' = now + 1 /\ result' = [result EXCEPT ![w] = now + 1]
      /\ UNCHANGED <<active, next_query_id, updates, last_delivered, awaiting_rehydration, conn,
                     generation, incoming, readers, s2c, link, server_version, server_queries>>
  BY DEF Write, owner, registry, socket, delivery, reading, wire, server
<1>2. now + 1 \in Times /\ MaxNow \in Nat
  BY <1>0, <1>1, Constants DEF Times
<1>3. /\ result' \in [Subs -> Times] /\ now' \in Times
      /\ \A s \in Subs : result'[s] <= now' /\ result[s] <= result'[s] /\ result'[s] \in Nat
  BY <1>0, <1>1, <1>2 DEF Kept
<1>4. server_version.ts <= now'
  BY <1>0, <1>1 DEF Kept
<1>5. Kept'
  BY <1>0, <1>1, <1>3, <1>4 DEF Kept
<1>6. Data'
  BY <1>0, <1>1, <1>3, <1>5, DataQuiet
<1>7. ASSUME conn PROVE (Answers /\ Ascending)'
  <2>1. Thins
    BY <1>1, SameFlight
  <2> QED BY <1>0, <1>1, <1>3, <1>7, <2>1, ThinsKeep DEF OrderInv
<1> QED BY <1>1, <1>6, <1>7 DEF OrderInv
-----------------------------------------------------------------------------
(* Steps that tell nobody anything, and end the connection or leave it.     *)

(* A step that leaves what was told and what was written alone keeps the    *)
(* order when it thins out the messages on their way.                      *)
LEMMA QuietKeepsOrder ==
  ASSUME OrderInv, conn => Thins, link' = "up" => link = "up",
         UNCHANGED <<now, result, next_query_id, active, server_version, server_queries,
                     updates, last_delivered, awaiting_rehydration, conn>>
  PROVE  OrderInv'
<1>0. /\ Data /\ Kept /\ next_query_id \in Nat /\ server_version.ts \in Nat
      /\ \A s \in Subs : result[s] \in Nat
  BY Constants DEF OrderInv, Data, Kept
<1>1. Kept'
  BY <1>0 DEF Kept
<1>2. \A s \in Subs : result[s] <= result'[s] /\ result'[s] \in Nat
  BY <1>0
<1>3. Data'
  BY <1>0, <1>1, <1>2, DataQuiet
<1>4. conn => (Answers /\ Ascending)'
  BY <1>0, <1>2, ThinsKeep DEF OrderInv
<1> QED BY <1>3, <1>4 DEF OrderInv

(* The channel of one subscription loses its oldest update to the consumer. *)
LEMMA ConsumeKeepsOrder == ASSUME OrderInv, NEW q \in Subs, Consume(q) PROVE OrderInv'
<1>0. Data /\ Kept /\ updates \in [Subs -> Seq(Changes)]
  BY DEF OrderInv, Data, Kept
<1>1. /\ UNCHANGED <<now, result, next_query_id, active, server_version, server_queries, link,
                     last_delivered, awaiting_rehydration, conn, generation, incoming, readers,
                     s2c>>
      /\ Len(updates[q]) = Capacity /\ updates' = [updates EXCEPT ![q] = Tail(updates[q])]
  BY DEF Consume, Full, registry, socket, reading, wire, server, data
<1>2. PICK s \in Seq(Changes) : s = updates[q]
  BY <1>0
<1>3. PICK t : t = Tail(s)
  OBVIOUS
<1>4. /\ s # <<>> /\ Len(s) \in Nat /\ Len(s) >= 1 /\ t \in Seq(Changes)
      /\ Len(t) = Len(s) - 1 /\ DOMAIN t = 1 .. Len(t) /\ DOMAIN s = 1 .. Len(s)
      /\ t = <<>> <=> Len(t) = 0
  <2>1. Len(s) \in Nat /\ Len(s) >= 1 /\ s # <<>> /\ DOMAIN s = 1 .. Len(s)
    BY <1>1, <1>2, Constants, ElementTypes
  <2>2. t \in Seq(Changes) /\ Len(t) = Len(s) - 1
    BY <1>3, <2>1
  <2> QED BY <2>1, <2>2, ElementTypes
<1>5. \A i \in DOMAIN t : i \in Nat /\ i + 1 \in DOMAIN s /\ t[i] = s[i + 1]
  <2>1. \A i \in 1 .. Len(s) - 1 : t[i] = s[i + 1]
    BY <1>3, <1>4
  <2> QED BY <1>4, <2>1
<1>6. /\ updates'[q] = t /\ updates' \in [Subs -> Seq(Changes)]
      /\ \A o \in Subs : o # q => updates'[o] = updates[o]
  BY <1>0, <1>1, <1>2, <1>3, <1>4
<1>7. \A o \in Subs : \A i \in DOMAIN updates'[o] : \E j \in DOMAIN updates[o] :
        updates'[o][i] = updates[o][j]
  BY SMTT(30), <1>2, <1>5, <1>6
<1>8. \A o \in Subs : updates'[o] # <<>> =>
        updates[o] # <<>> /\ updates'[o][Len(updates'[o])] = updates[o][Len(updates[o])]
  <2>1. ASSUME t # <<>> PROVE s # <<>> /\ t[Len(t)] = s[Len(s)]
    <3>1. Len(t) \in DOMAIN t /\ Len(t) + 1 = Len(s)
      BY <1>4, <2>1
    <3> QED BY <1>4, <1>5, <3>1
  <2> QED BY <1>2, <1>6, <2>1
<1>9. Kept'
  BY <1>0, <1>1, <1>6 DEF Kept
<1>10. Told'
  BY <1>0, <1>1, <1>7 DEF Data, Told
<1>11. LastTold'
  <2> SUFFICES ASSUME NEW o \in Subs, o \in active
               PROVE  /\ updates'[o] # <<>> /\ IsResult(updates'[o][Len(updates'[o])]) =>
                           last_delivered[o] = updates'[o][Len(updates'[o])]
                      /\ last_delivered[o] = NoUpdate =>
                           \A i \in DOMAIN updates'[o] : ~IsResult(updates'[o][i])
    BY <1>1 DEF LastTold
  <2>1. /\ updates[o] # <<>> /\ IsResult(updates[o][Len(updates[o])]) =>
             last_delivered[o] = updates[o][Len(updates[o])]
        /\ last_delivered[o] = NoUpdate =>
             \A i \in DOMAIN updates[o] : ~IsResult(updates[o][i])
    BY <1>0 DEF Data, LastTold
  <2> QED BY <1>7, <1>8, <2>1
<1>12. DeliveredInOrder'
  <2>1. \A o \in Subs : InOrder(updates[o])
    BY <1>0, ChannelsInOrder DEF Data
  <2>2. InOrder(t)
    <3> SUFFICES ASSUME NEW i \in DOMAIN t, NEW j \in DOMAIN t, i < j,
                        IsResult(t[i]), IsResult(t[j])
                 PROVE  t[i].at <= t[j].at /\ (j = i + 1 /\ t[j].kind = "value" => t[i].at < t[j].at)
      BY DEF InOrder
    <3>1. /\ i \in Nat /\ i + 1 \in DOMAIN s /\ t[i] = s[i + 1]
          /\ j \in Nat /\ j + 1 \in DOMAIN s /\ t[j] = s[j + 1]
      BY <1>5
    <3>2. i + 1 < j + 1 /\ (j = i + 1 => j + 1 = (i + 1) + 1)
      BY <3>1
    <3> QED BY <1>2, <2>1, <3>1, <3>2 DEF InOrder
  <2>3. \A o \in Subs : InOrder(updates'[o])
    BY <1>6, <2>1, <2>2
  <2> QED BY <2>3 DEF DeliveredInOrder, InOrder, IsResult
<1>13. ASSUME conn PROVE (Answers /\ Ascending)'
  <2>1. Answers /\ Ascending /\ Coming' = Coming
    BY <1>1, <1>13, SameFlight DEF OrderInv
  <2>2. ASSUME NEW m, Truthful(m) PROVE Truthful(m)'
    BY SMTT(30), <1>1, <1>7, <2>2 DEF Truthful, Reports
  <2>3. ASSUME NEW x \in Coming' PROVE Truthful(x.m)'
    <3>1. PICK m : m = x.m
      OBVIOUS
    <3>2. Truthful(m)
      BY <2>1, <3>1 DEF Answers
    <3>3. Truthful(m)'
      BY <2>2, <3>2
    <3> QED BY <3>1, <3>3
  <2> QED BY <2>1, <2>3 DEF Answers, Ascending, Newer
<1> QED BY <1>1, <1>9, <1>10, <1>11, <1>12, <1>13 DEF OrderInv, Data
-----------------------------------------------------------------------------
(* The owner reads a message.                                               *)

(* What a channel holds after deliver was there or is what it delivered.    *)
LEMMA PushedElements ==
  ASSUME NEW s \in Seq(Changes), NEW t, NEW u, NEW d \in 0 .. Len(s), Pushed(s, t, u, d)
  PROVE  /\ t # <<>> /\ t[Len(t)] = u
         /\ \A i \in DOMAIN t : t[i] = u \/ \E j \in DOMAIN s : t[i] = s[j]
<1>1. Len(s) \in Nat /\ DOMAIN s = 1 .. Len(s) /\ d \in Nat /\ d <= Len(s)
  BY ElementTypes
<1>2. Len(t) = (Len(s) - d) + 1 /\ DOMAIN t = 1 .. Len(t) /\ t[Len(t)] = u /\ t \in Seq(Changes)
  BY DEF Pushed
<1>3. ASSUME NEW i \in 1 .. Len(t), i # Len(t)
      PROVE  i \in 1 .. Len(s) - d /\ i + d \in DOMAIN s
  BY <1>1, <1>2, <1>3
<1>4. \A i \in 1 .. Len(t) : i # Len(t) => t[i] = s[i + d] /\ i + d \in DOMAIN s
  BY <1>3 DEF Pushed
<1>5. Len(t) # 0
  BY <1>1, <1>2
<1> QED BY <1>2, <1>4, <1>5

(* The results of a Transition that continues from remoteVersion.  A result *)
(* already told is recognised, for then it was the last thing told.        *)
LEMMA HandleKeepsOrder ==
  ASSUME OrderInv, conn, NEW m, Truthful(m), HandleTransition(m), Thins,
         \A x \in Coming' : \E z \in Coming : z.m = x.m /\ Newer(m, z.m),
         UNCHANGED <<now, result, next_query_id, active>>
  PROVE  OrderInv'
<1> DEFINE told == {q \in Subs : m.mods[q] # Nothing}
           changed == {q \in told \cap active : ~Suppressed(q, m.mods[q])}
           results == [q \in Subs |-> ResultUpdate(m.mods[q])]
<1>0. /\ Data /\ Kept /\ Answers /\ Ascending
      /\ updates \in [Subs -> Seq(Changes)] /\ last_delivered \in [Subs -> Changes]
  BY DEF OrderInv, Data, Kept
<1>1. /\ awaiting_rehydration' = awaiting_rehydration \ (told \cup m.removed)
      /\ Deliver(changed, results)
      /\ last_delivered' = [q \in Subs |-> IF q \in changed THEN results[q]
                                           ELSE IF q \in m.removed THEN NoUpdate
                                           ELSE last_delivered[q]]
      /\ UNCHANGED <<conn, link, server_version, server_queries>>
  BY DEF HandleTransition, wire, server
<1>2. \A q \in told : /\ m.mods[q] \in Times /\ results[q] \in Changes /\ IsResult(results[q])
                      /\ results[q].at = m.mods[q] /\ results[q] = ResultUpdate(m.mods[q])
                      /\ results[q] # NoUpdate
                      /\ results[q].kind = "value" => results[q] = Update("value", m.mods[q])
  <2>1. \A q \in told : m.mods[q] \in Times
    BY DEF Truthful, Reports
  <2>2. \A q \in told : results[q] = ResultUpdate(m.mods[q])
    OBVIOUS
  <2> HIDE DEF told, results
  <2> QED BY <2>1, <2>2, UpdateTypes
<1>3. \A q \in changed : q \in Subs /\ q \in told /\ q \in active /\ ~Suppressed(q, m.mods[q])
  OBVIOUS
<1>4. \A q \in Subs : q \notin told => m.mods[q] = Nothing
  OBVIOUS
<1>5. \A q \in told : q \in Subs /\ m.mods[q] # Nothing
  OBVIOUS
<1>6. /\ \A q \in changed : last_delivered'[q] = results[q]
      /\ \A q \in Subs : q \in active /\ q \notin changed => last_delivered'[q] = last_delivered[q]
  BY <1>1, <1>3 DEF Truthful
<1> HIDE DEF told, changed, results
<1>7. /\ updates' \in [Subs -> Seq(Changes)]
      /\ \A q \in Subs : IF q \in changed
                         THEN \E d \in 0 .. Len(updates[q]) :
                                Pushed(updates[q], updates'[q], results[q], d)
                         ELSE updates'[q] = updates[q]
  <2>1. \A q \in Subs : q \in changed => results[q] \in Changes
    BY <1>2, <1>3
  <2>2. PICK S : S = changed
    OBVIOUS
  <2>3. PICK u : u = results
    OBVIOUS
  <2> QED BY <1>0, <1>1, <2>1, <2>2, <2>3, Delivered
<1>8. ASSUME NEW q \in changed
      PROVE  /\ updates'[q] # <<>> /\ updates'[q][Len(updates'[q])] = results[q]
             /\ \A i \in DOMAIN updates'[q] : \/ updates'[q][i] = results[q]
                  \/ \E j \in DOMAIN updates[q] : updates'[q][i] = updates[q][j]
  <2>1. PICK s \in Seq(Changes) : s = updates[q]
    BY <1>0, <1>3
  <2>2. PICK t : t = updates'[q]
    OBVIOUS
  <2>3. PICK d \in 0 .. Len(s) : Pushed(s, t, results[q], d)
    BY <1>3, <1>7, <2>1, <2>2
  <2> QED BY <2>1, <2>2, <2>3, PushedElements
<1>9. Kept'
  <2>1. last_delivered' \in [Subs -> Changes]
    <3>1. \A q \in Subs : (IF q \in changed THEN results[q]
                           ELSE IF q \in m.removed THEN NoUpdate
                           ELSE last_delivered[q]) \in Changes
      BY <1>0, <1>2, <1>3, UpdateTypes
    <3> QED BY <1>1, <3>1
  <2> QED BY <1>0, <1>1, <1>7, <2>1 DEF Kept
<1>10. Told'
  <2> SUFFICES ASSUME NEW q \in Subs, NEW i \in DOMAIN updates'[q], IsResult(updates'[q][i])
               PROVE  /\ updates'[q][i] = ResultUpdate(updates'[q][i].at)
                      /\ updates'[q][i].at <= result[q]
                      /\ q < next_query_id
                      /\ link = "up" => updates'[q][i].at <= server_version.ts
    BY <1>1 DEF Told
  <2>1. CASE \E j \in DOMAIN updates[q] : updates'[q][i] = updates[q][j]
    BY <1>0, <2>1 DEF Data, Told
  <2>2. CASE q \in changed /\ updates'[q][i] = results[q]
    <3>1. /\ results[q].at = m.mods[q] /\ results[q] = ResultUpdate(m.mods[q])
          /\ m.mods[q] # Nothing
      BY <1>2, <1>3, <1>5, <2>2
    <3>2. /\ q < next_query_id /\ m.mods[q] <= result[q]
          /\ link = "up" => m.mods[q] <= server_version.ts
      BY <3>1 DEF Truthful
    <3> QED BY <2>2, <3>1, <3>2
  <2> QED BY <1>7, <1>8, <2>1, <2>2
<1>11. LastTold'
  <2> SUFFICES ASSUME NEW q \in Subs, q \in active
               PROVE  /\ updates'[q] # <<>> /\ IsResult(updates'[q][Len(updates'[q])]) =>
                           last_delivered'[q] = updates'[q][Len(updates'[q])]
                      /\ last_delivered'[q] = NoUpdate =>
                           \A i \in DOMAIN updates'[q] : ~IsResult(updates'[q][i])
    BY DEF LastTold
  <2>1. CASE q \in changed
    BY <1>2, <1>3, <1>6, <1>8, <2>1
  <2>2. CASE q \notin changed
    BY <1>0, <1>6, <1>7, <2>2 DEF Data, LastTold
  <2> QED BY <2>1, <2>2
<1>12. ASSUME NEW q \in changed, NEW i \in DOMAIN updates[q], IsResult(updates[q][i])
       PROVE  /\ updates[q][i].at <= results[q].at
              /\ i = Len(updates[q]) /\ results[q].kind = "value" =>
                   updates[q][i].at < results[q].at
  <2>1. /\ q \in Subs /\ q \in active /\ m.mods[q] # Nothing /\ m.mods[q] \in Nat
        /\ results[q].at = m.mods[q] /\ updates[q][i].at \in Nat
    BY <1>0, <1>2, <1>3, <1>5, ElementTypes, Constants
  <2>2. \/ updates[q][i].at < m.mods[q]
        \/ updates[q][i].at = m.mods[q] /\ q \in awaiting_rehydration
    BY <1>12, <2>1 DEF Truthful
  <2>3. CASE updates[q][i].at < m.mods[q]
    BY <2>1, <2>3
  <2>4. CASE updates[q][i].at = m.mods[q] /\ q \in awaiting_rehydration
    <3>1. ASSUME i = Len(updates[q]), results[q].kind = "value" PROVE FALSE
      <4>1. updates[q] # <<>> /\ updates[q][i] = ResultUpdate(m.mods[q])
        BY <1>0, <1>12, <2>1, <2>4, ElementTypes DEF Data, Told
      <4>2. last_delivered[q] = ResultUpdate(m.mods[q])
        BY <1>0, <1>12, <2>1, <3>1, <4>1 DEF Data, LastTold
      <4>3. ResultUpdate(m.mods[q]) = Update("value", m.mods[q])
        BY <1>2, <1>3, <3>1
      <4> QED BY <1>3, <2>4, <4>2, <4>3 DEF Suppressed
    <3> QED BY <2>1, <2>4, <3>1
  <2> QED BY <2>2, <2>3, <2>4
<1>13. DeliveredInOrder'
  <2>1. \A q \in Subs : InOrder(updates[q])
    BY <1>0, ChannelsInOrder DEF Data
  <2>2. ASSUME NEW q \in changed PROVE InOrder(updates'[q])
    <3>1. PICK s \in Seq(Changes) : s = updates[q]
      BY <1>0, <1>3
    <3>2. PICK t : t = updates'[q]
      OBVIOUS
    <3>3. PICK u \in Changes : u = results[q]
      BY <1>2, <1>3
    <3>4. PICK d \in 0 .. Len(s) : Pushed(s, t, u, d)
      BY <1>3, <1>7, <3>1, <3>2, <3>3
    <3>5. \A i \in DOMAIN s : IsResult(s[i]) =>
            s[i].at <= u.at /\ (i = Len(s) /\ u.kind = "value" => s[i].at < u.at)
      BY <1>12, <3>1, <3>3
    <3>6. InOrder(s)
      BY <1>3, <2>1, <3>1
    <3>7. InOrder(t)
      BY <3>4, <3>5, <3>6, PushedInOrder
    <3> QED BY <3>2, <3>7
  <2>3. \A q \in Subs : InOrder(updates'[q])
    BY <1>7, <2>1, <2>2
  <2> QED BY <2>3 DEF DeliveredInOrder, InOrder, IsResult
<1>14. ASSUME NEW k, Truthful(k), Newer(m, k) PROVE Truthful(k)'
  <2>1. ASSUME NEW q \in Subs, k.mods[q] # Nothing, q \in active,
               NEW i \in DOMAIN updates'[q], IsResult(updates'[q][i])
        PROVE  \/ updates'[q][i].at < k.mods[q]
               \/ updates'[q][i].at = k.mods[q] /\ q \in awaiting_rehydration'
    <3>1. CASE q \in told
      <4>1. /\ m.mods[q] < k.mods[q] /\ m.mods[q] \in Nat /\ k.mods[q] \in Nat
        <5>1. m.mods[q] # Nothing /\ m.mods[q] \in Nat
          BY <1>2, <1>5, <3>1, Constants
        <5>2. k.mods[q] \in Nat
          BY <1>14, <2>1, Constants DEF Truthful, Reports
        <5> QED BY <1>14, <2>1, <5>1, <5>2 DEF Newer
      <4>2. CASE q \in changed /\ updates'[q][i] = results[q]
        BY <1>2, <3>1, <4>1, <4>2
      <4>3. CASE \E j \in DOMAIN updates[q] : updates'[q][i] = updates[q][j]
        <5>1. PICK j \in DOMAIN updates[q] : updates'[q][i] = updates[q][j]
          BY <4>3
        <5>2. updates[q][j].at <= m.mods[q]
          <6>1. \/ updates[q][j].at < m.mods[q]
                \/ updates[q][j].at = m.mods[q]
            BY <1>5, <2>1, <3>1, <5>1 DEF Truthful
          <6>2. updates[q][j].at \in Nat
            BY <1>0, <2>1, ElementTypes
          <6> QED BY <4>1, <6>1, <6>2
        <5>3. updates[q][j].at \in Nat
          BY <1>0, <2>1, ElementTypes
        <5> QED BY <4>1, <5>1, <5>2, <5>3
      <4> QED BY <1>7, <1>8, <2>1, <4>2, <4>3
    <3>2. CASE q \notin told
      <4>1. q \notin changed /\ q \notin m.removed
        BY <1>3, <2>1, <3>2 DEF Truthful
      <4>2. /\ updates'[q] = updates[q]
            /\ q \in awaiting_rehydration => q \in awaiting_rehydration'
        BY <1>1, <1>7, <2>1, <3>2, <4>1
      <4> QED BY <1>14, <2>1, <4>2 DEF Truthful
    <3> QED BY <3>1, <3>2
  <2>2. k.mods \in Reports'
    BY <1>14 DEF Truthful, Reports
  <2>3. /\ \A q \in k.removed : q \in Nat /\ q < next_query_id' /\ q \notin active'
        /\ \A q \in Subs : k.mods[q] # Nothing =>
             /\ q < next_query_id' /\ k.mods[q] <= result'[q]
             /\ link' = "up" => k.mods[q] <= server_version'.ts
    BY <1>1, <1>14 DEF Truthful
  <2> QED BY <2>1, <2>2, <2>3 DEF Truthful
<1>15. ASSUME NEW x \in Coming' PROVE Truthful(x.m)'
  <2>1. PICK z \in Coming : z.m = x.m /\ Newer(m, z.m)
    OBVIOUS
  <2>2. PICK k : k = x.m
    OBVIOUS
  <2>3. Truthful(k) /\ Newer(m, k)
    BY <1>0, <2>1, <2>2 DEF Answers
  <2>4. Truthful(k)'
    BY <1>14, <2>3
  <2> QED BY <2>2, <2>4
<1>16. Ascending'
  BY <1>0 DEF Thins, Ascending, Newer
<1> QED BY <1>9, <1>10, <1>11, <1>13, <1>15, <1>16 DEF OrderInv, Data, Answers

(* A bad message is told as a ProtocolError and ends the connection.        *)
LEMMA RejectKeepsOrder ==
  ASSUME OrderInv, NEW m, RejectMessage(m), UNCHANGED <<now, result, next_query_id, active>>
  PROVE  OrderInv'
<1> DEFINE failures == [q \in Subs |-> Update("ProtocolError", Nothing)]
<1>0. /\ Data /\ Kept
      /\ updates \in [Subs -> Seq(Changes)] /\ last_delivered \in [Subs -> Changes]
  BY DEF OrderInv, Data, Kept
<1>1. Deliver(active, failures) /\ last_delivered' = MarkedFailed /\ Retire(active)
  BY DEF RejectMessage, PublishProtocolError
<1>2. PICK u : u = Update("ProtocolError", Nothing)
  OBVIOUS
<1>3. u \in Changes /\ ~IsResult(u) /\ \A q \in Subs : failures[q] = u
  BY <1>2, UpdateTypes
<1>4. /\ ~conn' /\ link' # "up" /\ server_queries' = {}
      /\ \E Q : server_version' \in [querySet : Q, ts : Times]
      /\ server_version'.ts <= now
  <2>1. PICK subs : Retire(subs)
    BY <1>1
  <2> QED BY <1>0, <2>1, RetireTypes
<1> HIDE DEF failures
<1>5. /\ updates' \in [Subs -> Seq(Changes)]
      /\ \A q \in Subs : IF q \in active
                         THEN \E d \in 0 .. Len(updates[q]) :
                                Pushed(updates[q], updates'[q], u, d)
                         ELSE updates'[q] = updates[q]
  <2>1. PICK S : S = active
    OBVIOUS
  <2>2. PICK f : f = failures
    OBVIOUS
  <2>3. Deliver(S, f) /\ \A q \in Subs : f[q] = u
    BY <1>1, <1>3, <2>1, <2>2
  <2>4. \A q \in Subs : q \in S => f[q] \in Changes
    BY <1>3, <2>3
  <2> QED BY <1>0, <2>1, <2>3, <2>4, Delivered
<1>6. ASSUME NEW q \in Subs, q \in active
      PROVE  /\ updates'[q] # <<>> /\ updates'[q][Len(updates'[q])] = u
             /\ \A i \in DOMAIN updates'[q] : \/ updates'[q][i] = u
                  \/ \E j \in DOMAIN updates[q] : updates'[q][i] = updates[q][j]
             /\ InOrder(updates'[q])
  <2>1. PICK s \in Seq(Changes) : s = updates[q]
    BY <1>0
  <2>2. PICK t : t = updates'[q]
    OBVIOUS
  <2>3. PICK d \in 0 .. Len(s) : Pushed(s, t, u, d)
    BY <1>5, <1>6, <2>1, <2>2
  <2>4. InOrder(s)
    BY <1>0, <2>1, ChannelsInOrder DEF Data
  <2>5. InOrder(t)
    BY <1>3, <2>3, <2>4, PushedInOrder
  <2> QED BY <2>1, <2>2, <2>3, <2>5, PushedElements
<1>7. \A q \in Subs : q \in active =>
        last_delivered'[q] = Update("failure", Nothing) /\ last_delivered'[q] # NoUpdate
  BY <1>1, UpdateTypes DEF MarkedFailed
<1>8. Kept'
  <2>1. last_delivered' \in [Subs -> Changes]
    BY <1>0, <1>1, UpdateTypes DEF MarkedFailed
  <2> QED BY <1>0, <1>4, <1>5, <2>1 DEF Kept
<1>9. Told'
  <2> SUFFICES ASSUME NEW q \in Subs, NEW i \in DOMAIN updates'[q], IsResult(updates'[q][i])
               PROVE  /\ updates'[q][i] = ResultUpdate(updates'[q][i].at)
                      /\ updates'[q][i].at <= result[q]
                      /\ q < next_query_id
    BY <1>4 DEF Told
  <2>1. \E j \in DOMAIN updates[q] : updates'[q][i] = updates[q][j]
    BY <1>3, <1>5, <1>6
  <2> QED BY <1>0, <2>1 DEF Data, Told
<1>10. LastTold'
  BY <1>3, <1>6, <1>7 DEF LastTold
<1>11. DeliveredInOrder'
  <2>1. \A q \in Subs : InOrder(updates[q])
    BY <1>0, ChannelsInOrder DEF Data
  <2>2. \A q \in Subs : InOrder(updates'[q])
    BY <1>5, <1>6, <2>1
  <2> QED BY <2>2 DEF DeliveredInOrder, InOrder, IsResult
<1> QED BY <1>4, <1>8, <1>9, <1>10, <1>11 DEF OrderInv, Data

(* A turn with the incoming channel.                                        *)
LEMMA IncomingKeepsOrder == ASSUME StreamInv, OrderInv, Incoming PROVE OrderInv'
<1>1. /\ incoming # <<>> /\ incoming' = Tail(incoming)
      /\ UNCHANGED <<now, result, next_query_id, active, readers>>
  BY DEF Incoming, registry, data
<1>2. PICK e : e = incoming[1] /\ e = Head(incoming)
  OBVIOUS
<1>3. PICK m : m = e.has
  OBVIOUS
<1>4. CASE ~Current(e) /\ KeepConnection /\ UNCHANGED delivery
  <2>1. UNCHANGED <<updates, last_delivered, awaiting_rehydration, conn, generation, link, s2c,
                    server_version, server_queries>>
    BY <1>4 DEF KeepConnection, delivery, wire, server
  <2>2. Thins
    BY <1>1, <2>1, TakeThins
  <2> QED BY <1>1, <2>1, <2>2, QuietKeepsOrder
<1>5. CASE Retire(active) /\ UNCHANGED delivery
  <2>1. PICK subs : Retire(subs)
    BY <1>5
  <2> QED BY <1>1, <1>5, <2>1, RetireKeepsOrder DEF delivery
<1>6. CASE Current(e) /\ m.type = "Transition" /\ HandleTransition(m)
  <2>1. UNCHANGED <<generation, s2c>> /\ conn
    BY <1>6 DEF HandleTransition, wire, Current
  <2>2. 1 \in Unread
    <3>1. Len(incoming) \in Nat /\ Len(incoming) # 0
      BY <1>1, LenIsNat DEF StreamInv, Channels
    <3> QED BY <1>2, <1>6, <3>1 DEF Unread, Current
  <2>3. PICK first \in Coming : /\ first.m = m
          /\ \A x \in Coming' : \E z \in Coming : z.m = x.m /\ first.p < z.p
    BY <1>1, <1>2, <1>3, <1>6, <2>1, <2>2, TakeThins
  <2>4. Thins
    BY <1>1, <2>1, TakeThins
  <2>5. Answers /\ Ascending
    BY <2>1 DEF OrderInv
  <2>6. Truthful(m)
    BY <2>3, <2>5 DEF Answers
  <2>7. \A x \in Coming' : \E z \in Coming : z.m = x.m /\ Newer(m, z.m)
    BY <2>3, <2>5 DEF Ascending
  <2> QED BY <1>1, <1>6, <2>1, <2>4, <2>6, <2>7, HandleKeepsOrder
<1>7. CASE RejectMessage(m)
  BY <1>1, <1>7, RejectKeepsOrder
<1> QED BY <1>2, <1>3, <1>4, <1>5, <1>6, <1>7 DEF Incoming

(* Every step keeps the order.                                              *)
LEMMA OrderStep == ASSUME StreamInv, OrderInv, [Next]_vars PROVE OrderInv'
<1> DEFINE still == <<data, registry, server, updates, last_delivered, awaiting_rehydration,
                      socket, incoming, readers, wire>>
<1>0. ASSUME UNCHANGED still PROVE OrderInv'
  <2>1. Thins
    BY <1>0, SameFlight DEF socket, wire
  <2> QED BY <1>0, <2>1, QuietKeepsOrder DEF data, registry, server, socket, wire
<1>1. ASSUME NEW c \in Callers, Commands(c) PROVE OrderInv'
  <2>1. CASE RefuseSubscribe(c)
    BY <1>0, <2>1 DEF RefuseSubscribe, owner, delivery, reading
  <2>2. CASE TakeDebug(c)
    <3>1. CASE Retire(active)
      <4>1. PICK subs : Retire(subs)
        BY <3>1
      <4> QED BY <2>2, <4>1, RetireKeepsOrder DEF TakeDebug, registry, delivery, data
    <3>2. CASE KeepConnection
      BY <1>0, <2>2, <3>2 DEF TakeDebug, KeepConnection, delivery, reading, socket
    <3> QED BY <2>2, <3>1, <3>2 DEF TakeDebug
  <2> QED BY <1>1, <2>1, <2>2, SubscribeKeepsOrder, UnsubscribeKeepsOrder DEF Commands
<1>2. CASE Turns
  <2>1. CASE Reconnect
    BY <1>0, <2>1 DEF Reconnect, delivery, reading
  <2>2. CASE Inactive
    <3>1. PICK subs : Retire(subs)
      BY <2>2 DEF Inactive
    <3> QED BY <2>2, <3>1, RetireKeepsOrder DEF Inactive, registry, delivery, data
  <2> QED BY <1>2, <2>1, <2>2, ConnectedKeepsOrder, IncomingKeepsOrder, StopKeepsOrder DEF Turns
<1>3. CASE ConnectFails
  BY <1>3, ConnectFailsKeepsOrder
<1>4. CASE Reader
  <2>1. ASSUME NEW r \in readers, Read(r) PROVE OrderInv'
    <3>1. conn => Thins
      BY <2>1, ReadThins
    <3> QED BY <2>1, <3>1, QuietKeepsOrder
            DEF Read, owner, registry, socket, delivery, server, data
  <2>2. ASSUME NEW r \in readers, Put(r) PROVE OrderInv'
    <3>1. conn => Thins
      BY <2>2, PutThins
    <3> QED BY <2>2, <3>1, QuietKeepsOrder
            DEF Put, owner, registry, socket, delivery, wire, server, data
  <2> QED BY <1>4, <2>1, <2>2 DEF Reader
<1>5. CASE Application
  <2>1. ASSUME UNCHANGED <<owner, reading, wire, server, data>> PROVE OrderInv'
    BY <1>0, <2>1 DEF owner, delivery, reading
  <2>2. Application => \/ \E q \in Subs : Consume(q)
                       \/ UNCHANGED <<owner, reading, wire, server, data>>
    BY DEF Application, Subscribe, Unsubscribe, DebugDisconnect, ContextEnds, Return, Close,
           CloseReturns
  <2> QED BY <1>5, <2>1, <2>2, ConsumeKeepsOrder
<1>6. CASE Backend
  <2>1. CASE Fault
    <3>1. conn => Thins
      BY <2>1, FaultThins
    <3> QED BY <2>1, <3>1, QuietKeepsOrder
            DEF Fault, owner, registry, socket, delivery, server, data
  <2> QED BY <1>6, <2>1, PushKeepsOrder, WriteKeepsOrder DEF Backend
<1>7. CASE UNCHANGED vars
  BY <1>0, <1>7 DEF vars, owner, delivery, reading
<1> QED BY <1>1, <1>2, <1>3, <1>4, <1>5, <1>6, <1>7 DEF Next, Owner

(* In a channel of updates the results are in the order of the commits and  *)
(* a value is repeated only after an error came between, whatever sockets  *)
(* die, are replaced or leave messages behind, however full the channels   *)
(* are: live.go recognises the results a new connection repeats, and only  *)
(* those, and forgets them when it publishes a ProtocolError.              *)
THEOREM ResultsStayInOrder == Spec => []DeliveredInOrder
<1>1. OrderInv => DeliveredInOrder
  BY DEF OrderInv, Data
<1>2. Spec => []StreamInv
  BY StreamInit, StreamStep, PTL DEF Spec
<1>3. Spec /\ []StreamInv => []OrderInv
  BY OrderInit, OrderStep, PTL DEF Spec
<1> QED BY <1>1, <1>2, <1>3, PTL
=============================================================================
