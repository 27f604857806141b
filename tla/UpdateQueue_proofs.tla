-------------------------- MODULE UpdateQueue_proofs --------------------------
(***************************************************************************)
(* The ring of UpdateQueue for every capacity: its types, and that exactly *)
(* the queued slots hold an update.  An index is never more than one       *)
(* capacity beyond the ring, so that every % is one comparison and one     *)
(* subtraction; with that the rest is linear arithmetic.                   *)
(***************************************************************************)
EXTENDS UpdateQueue, Integers, Sequences, TLAPS

\* The remainder of an index within, and of one beyond, the ring.
LEMMA WithinRing ==
  ASSUME NEW c \in Nat \ {0}, NEW i \in Nat, i < c
  PROVE  i % c = i
  OBVIOUS

LEMMA BeyondRing ==
  ASSUME NEW c \in Nat \ {0}, NEW i \in Nat, c <= i, i < c + c
  PROVE  i % c = i - c
  OBVIOUS

\* A slot without %.
Wrapped(i) == IF i < Capacity THEN i ELSE i - Capacity

LEMMA Wraps ==
  ASSUME NEW i \in Nat, i < Capacity + Capacity
  PROVE  i % Capacity = Wrapped(i) /\ Wrapped(i) \in Slots
  <1>1. CASE i < Capacity
    BY <1>1, CapacityAssumption, WithinRing DEF Wrapped, Slots
  <1>2. CASE ~(i < Capacity)
    <2>1. Capacity <= i /\ Capacity \in Nat \ {0} BY <1>2, CapacityAssumption
    <2>2. i % Capacity = i - Capacity BY <2>1, BeyondRing
    <2> QED BY <1>2, <2>1, <2>2 DEF Wrapped, Slots
  <1> QED BY <1>1, <1>2

\* The queued slots: from queue_start upwards, and around the end.
Queued(i) == \/ queue_start <= i /\ i < queue_start + queue_count
             \/ i + Capacity < queue_start + queue_count

LEMMA QueuedSlots ==
  ASSUME TypeOK, NEW i \in Slots
  PROVE  (\E n \in 0 .. queue_count - 1 : i = Slot(n)) <=> Queued(i)
  <1> USE CapacityAssumption DEF TypeOK, Slots
  <1>1. ASSUME NEW n \in 0 .. queue_count - 1
        PROVE  Slot(n) = Wrapped(queue_start + n)
    BY Wraps DEF Slot
  <1>2. ASSUME NEW n \in 0 .. queue_count - 1, i = Slot(n)
        PROVE  Queued(i)
    BY <1>1, <1>2 DEF Queued, Wrapped
  <1>3. CASE queue_start <= i /\ i < queue_start + queue_count
    <2>1. i - queue_start \in 0 .. queue_count - 1 BY <1>3
    <2>2. i = Slot(i - queue_start)
      BY <1>1, <2>1 DEF Wrapped
    <2> QED BY <1>3, <2>1, <2>2 DEF Queued
  <1>4. CASE i + Capacity < queue_start + queue_count
    <2>1. (i + Capacity) - queue_start \in 0 .. queue_count - 1 BY <1>4
    <2>2. i = Slot((i + Capacity) - queue_start)
      BY <1>1, <2>1 DEF Wrapped
    <2> QED BY <1>4, <2>1, <2>2 DEF Queued
  <1> QED BY <1>2, <1>3, <1>4 DEF Queued

\* OccupiedSlots without % and without an existential.
Occupied == \A i \in Slots : queue[i] # Empty <=> Queued(i)

LEMMA OccupiedIsLinear ==
  ASSUME TypeOK
  PROVE  OccupiedSlots <=> Occupied
  BY QueuedSlots DEF OccupiedSlots, Occupied

-----------------------------------------------------------------------------
\* Where a publication writes, and which slots are queued after it.
LEMMA EnqueueKeeps ==
  ASSUME TypeOK, Occupied, NEW u \in Updates, EnqueueUpdate(u)
  PROVE  TypeOK' /\ Occupied'
  <1> USE CapacityAssumption, EmptyAssumption
  <1> DEFINE at == (FirstKept + Kept) % Capacity
  <1>1. /\ queue_start \in Nat /\ queue_start < Capacity
        /\ queue_count \in Nat /\ queue_count <= Capacity
    BY DEF TypeOK, Slots
  <1>2. Advance(queue_start) = Wrapped(queue_start + 1) /\ Wrapped(queue_start + 1) \in Slots
    BY <1>1, Wraps DEF Advance
  <1>3. /\ FirstKept \in Slots
        /\ Kept \in 0 .. Capacity - 1
    BY <1>1, <1>2 DEF FirstKept, Kept, Full, Slots
  <1>4. at = Wrapped(FirstKept + Kept) /\ at \in Slots
    BY <1>3, Wraps DEF Slots
  <1>5. TypeOK'
    BY <1>3, <1>4 DEF TypeOK, EnqueueUpdate
  <1>6. ASSUME NEW i \in Slots
        PROVE  queue'[i] # Empty <=> Queued(i)'
    <2>1. queue'[i] = IF i = at THEN u ELSE queue[i]
      BY <1>4, <1>6 DEF EnqueueUpdate, TypeOK
    <2>2. queue[i] # Empty <=> Queued(i) BY <1>6 DEF Occupied
    <2>3. i \in Nat /\ i < Capacity BY <1>6 DEF Slots
    <2>4. queue_start' = FirstKept /\ queue_count' = Kept + 1 BY DEF EnqueueUpdate
    <2>5. Queued(i)' <=> i = at \/ Queued(i)
      <3>1. CASE Full
        BY <3>1, <1>1, <1>2, <1>3, <1>4, <2>3, <2>4 DEF Queued, Wrapped, FirstKept, Kept, Full, Slots
      <3>2. CASE ~Full
        BY <3>2, <1>1, <1>3, <1>4, <2>3, <2>4 DEF Queued, Wrapped, FirstKept, Kept, Full, Slots
      <3> QED BY <3>1, <3>2
    <2> QED BY <2>1, <2>2, <2>5
  <1> QED BY <1>5, <1>6 DEF Occupied, Slots

LEMMA NextKeeps ==
  ASSUME TypeOK, Occupied, SubscriptionNext
  PROVE  TypeOK' /\ Occupied'
  <1> USE CapacityAssumption, EmptyAssumption
  <1>1. /\ queue_start \in Nat /\ queue_start < Capacity
        /\ queue_count \in Nat /\ queue_count <= Capacity /\ queue_count > 0
    BY DEF TypeOK, Slots, SubscriptionNext
  <1>2. Advance(queue_start) = Wrapped(queue_start + 1) /\ Wrapped(queue_start + 1) \in Slots
    BY <1>1, Wraps DEF Advance
  <1>3. TypeOK'
    BY <1>1, <1>2 DEF TypeOK, SubscriptionNext, Release
  <1>4. ASSUME NEW i \in Slots
        PROVE  queue'[i] # Empty <=> Queued(i)'
    <2>1. queue'[i] = IF i = queue_start THEN Empty ELSE queue[i]
      BY <1>4 DEF SubscriptionNext, Release
    <2>2. queue[i] # Empty <=> Queued(i) BY <1>4 DEF Occupied
    <2>3. i \in Nat /\ i < Capacity BY <1>4 DEF Slots
    <2>4. queue_start' = Wrapped(queue_start + 1) /\ queue_count' = queue_count - 1
      BY <1>2 DEF SubscriptionNext
    <2>5. Queued(i)' <=> i # queue_start /\ Queued(i)
      BY <1>1, <2>3, <2>4 DEF Queued, Wrapped
    <2> QED BY <2>1, <2>2, <2>5
  <1> QED BY <1>3, <1>4 DEF Occupied, Slots

LEMMA ClearKeeps ==
  ASSUME TypeOK, Occupied, Clear
  PROVE  TypeOK' /\ Occupied'
  <1> USE CapacityAssumption, EmptyAssumption
  <1>1. TypeOK'
    BY DEF TypeOK, Clear, Release, Slots
  <1>2. ASSUME NEW i \in Slots
        PROVE  queue'[i] = Empty
    <2>1. CASE Queued(i)
      <3>1. i \in {Slot(n) : n \in 0 .. queue_count - 1} BY <1>2, <2>1, QueuedSlots
      <3> QED BY <1>2, <3>1 DEF Clear, Release
    <2>2. CASE ~Queued(i)
      BY <1>2, <2>2 DEF Clear, Release, Occupied
    <2> QED BY <2>1, <2>2
  <1>3. ASSUME NEW i \in Slots
        PROVE  ~Queued(i)'
    BY <1>3 DEF Queued, Clear, Slots
  <1> QED BY <1>1, <1>2, <1>3 DEF Occupied, Slots

(* The types, and the linear form of OccupiedSlots, are inductive.          *)
LEMMA RingInvariant == Spec => [](TypeOK /\ Occupied)
  <1> USE CapacityAssumption, EmptyAssumption
  <1>1. Init => TypeOK /\ Occupied
    BY DEF Init, TypeOK, Occupied, Queued, Slots
  <1>2. TypeOK /\ Occupied /\ [Next]_vars => TypeOK' /\ Occupied'
    <2> SUFFICES ASSUME TypeOK, Occupied, [Next]_vars
                 PROVE  TypeOK' /\ Occupied'
      OBVIOUS
    <2>1. ASSUME NEW u \in Updates, EnqueueUpdate(u)
          PROVE  TypeOK' /\ Occupied'
      BY <2>1, EnqueueKeeps
    <2>2. CASE SubscriptionNext BY <2>2, NextKeeps
    <2>3. CASE Clear BY <2>3, ClearKeeps
    <2>4. CASE UNCHANGED vars
      BY <2>4 DEF vars, TypeOK, Occupied, Queued, Slots
    <2> QED BY <2>1, <2>2, <2>3, <2>4 DEF Next
  <1> QED BY <1>1, <1>2, PTL DEF Spec

(* The indices of the ring stay in range, for every capacity.              *)
THEOREM RingTypes == Spec => []TypeOK
  BY RingInvariant, PTL

(* Exactly the queued slots hold an update: enqueue_update_locked,          *)
(* convex_subscription_next and the clearing in convex_close neither lose  *)
(* an update in a released slot nor keep one alive that nobody will read.  *)
THEOREM SlotsOccupied == Spec => []OccupiedSlots
  <1>1. TypeOK /\ Occupied => OccupiedSlots BY OccupiedIsLinear
  <1> QED BY <1>1, RingInvariant, PTL

-----------------------------------------------------------------------------
\* What a ring holds, as a sequence: Pending of some queue, start and count.
Contents(q, start, count) == [n \in 1 .. count |-> q[(start + (n - 1)) % Capacity]]

LEMMA PendingIsContents ==
  /\ Pending = Contents(queue, queue_start, queue_count)
  /\ Pending' = Contents(queue', queue_start', queue_count')
  BY DEF Pending, Contents, Slot

LEMMA ContentsElements ==
  ASSUME NEW S, NEW q \in [Slots -> S], NEW start \in Slots, NEW count \in 0 .. Capacity
  PROVE  /\ Contents(q, start, count) \in Seq(S)
         /\ Len(Contents(q, start, count)) = count
         /\ \A n \in 1 .. count :
              /\ Contents(q, start, count)[n] = q[Wrapped(start + (n - 1))]
              /\ Wrapped(start + (n - 1)) \in Slots
  <1>1. ASSUME NEW n \in 1 .. count
        PROVE  /\ (start + (n - 1)) % Capacity = Wrapped(start + (n - 1))
               /\ Wrapped(start + (n - 1)) \in Slots
    <2>1. start + (n - 1) \in Nat /\ start + (n - 1) < Capacity + Capacity
      BY CapacityAssumption DEF Slots
    <2> QED BY <2>1, Wraps
  <1>2. Contents(q, start, count) \in [1 .. count -> S]
    BY <1>1 DEF Contents
  <1>3. count \in Nat BY CapacityAssumption
  <1>4. Contents(q, start, count) \in Seq(S) /\ Len(Contents(q, start, count)) = count
    BY <1>2, <1>3
  <1> QED BY <1>1, <1>4 DEF Contents

\* Two sequences with the same elements are the same.
LEMMA SameSequence ==
  ASSUME NEW S, NEW s \in Seq(S), NEW t \in Seq(S), Len(s) = Len(t),
         \A n \in 1 .. Len(s) : s[n] = t[n]
  PROVE  s = t
  OBVIOUS

LEMMA EnqueuePublishes ==
  ASSUME TypeOK, Occupied, NEW u \in Updates, EnqueueUpdate(u)
  PROVE  Latest!Publish(u)
  <1> USE CapacityAssumption, EmptyAssumption
  <1> DEFINE S == Updates \cup {Empty}
             P == Contents(queue, queue_start, queue_count)
             Q == Contents(queue', queue_start', queue_count')
             at == (FirstKept + Kept) % Capacity
             kept == IF Full THEN Tail(P) ELSE P
  <1>1. /\ queue_start \in Nat /\ queue_start < Capacity
        /\ queue_count \in Nat /\ queue_count <= Capacity
        /\ queue \in [Slots -> S] /\ queue_start \in Slots /\ queue_count \in 0 .. Capacity
    BY DEF TypeOK, Slots
  <1>2. TypeOK' BY EnqueueKeeps
  <1>3. /\ P \in Seq(S) /\ Len(P) = queue_count
        /\ \A n \in 1 .. queue_count : /\ P[n] = queue[Wrapped(queue_start + (n - 1))]
                                       /\ Wrapped(queue_start + (n - 1)) \in Slots
    BY ZenonT(30), <1>1, ContentsElements
  <1>4. /\ Q \in Seq(S) /\ Len(Q) = queue_count'
        /\ \A n \in 1 .. queue_count' : /\ Q[n] = queue'[Wrapped(queue_start' + (n - 1))]
                                        /\ Wrapped(queue_start' + (n - 1)) \in Slots
    <2>1. queue' \in [Slots -> S] /\ queue_start' \in Slots /\ queue_count' \in 0 .. Capacity
      BY <1>2 DEF TypeOK
    <2> QED BY ZenonT(30), <2>1, ContentsElements
  <1>5. Advance(queue_start) = Wrapped(queue_start + 1) /\ Wrapped(queue_start + 1) \in Slots
    BY <1>1, Wraps DEF Advance
  <1>6. FirstKept \in Slots /\ Kept \in 0 .. Capacity - 1
    BY <1>1, <1>5 DEF FirstKept, Kept, Full, Slots
  <1>7. at = Wrapped(FirstKept + Kept) /\ at \in Slots
    BY <1>6, Wraps DEF Slots
  <1>8. queue_start' = FirstKept /\ queue_count' = Kept + 1
        /\ \A i \in Slots : queue'[i] = IF i = at THEN u ELSE queue[i]
    BY <1>1, <1>7 DEF EnqueueUpdate
  <1>9. kept \in Seq(S) /\ Len(kept) = Kept
    BY <1>1, <1>3 DEF Full, Kept
  <1>10. ASSUME NEW n \in 1 .. Kept
         PROVE  kept[n] = queue[Wrapped(FirstKept + (n - 1))] /\ Wrapped(FirstKept + (n - 1)) # at
    <2>1. CASE Full
      <3>1. kept[n] = P[n + 1] BY <2>1, <1>1, <1>3 DEF Full, Kept
      <3>2. n + 1 \in 1 .. queue_count BY <2>1, <1>1 DEF Full, Kept
      <3>3. kept[n] = queue[Wrapped(queue_start + n)]
        <4>1. P[n + 1] = queue[Wrapped(queue_start + ((n + 1) - 1))] BY <3>2, <1>3
        <4>2. (n + 1) - 1 = n BY <1>6
        <4> QED BY <3>1, <4>1, <4>2
      <3>4. Wrapped(queue_start + n) = Wrapped(FirstKept + (n - 1))
        BY <2>1, <1>1, <1>5 DEF FirstKept, Kept, Full, Wrapped
      <3>5. Wrapped(FirstKept + (n - 1)) # at
        BY <2>1, <1>1, <1>5, <1>6, <1>7 DEF FirstKept, Kept, Full, Wrapped, Slots
      <3> QED BY <3>3, <3>4, <3>5
    <2>2. CASE ~Full
      <3>1. kept[n] = P[n] /\ n \in 1 .. queue_count BY <2>2, <1>1 DEF Kept
      <3>2. Wrapped(FirstKept + (n - 1)) # at
        BY <2>2, <1>1, <1>6, <1>7 DEF FirstKept, Kept, Full, Wrapped, Slots
      <3> QED BY <2>2, <3>1, <3>2, <1>3 DEF FirstKept
    <2> QED BY <2>1, <2>2
  <1>11. Q = Append(kept, u)
    <2>1. Append(kept, u) \in Seq(S) /\ Len(Append(kept, u)) = Kept + 1
      BY <1>9, <1>6
    <2>2. ASSUME NEW n \in 1 .. Kept + 1
          PROVE  Q[n] = Append(kept, u)[n]
      <3>1. Q[n] = queue'[Wrapped(FirstKept + (n - 1))] /\ Wrapped(FirstKept + (n - 1)) \in Slots
        BY <1>4, <1>8
      <3>2. CASE n = Kept + 1
        <4>1. n - 1 = Kept BY <3>2, <1>6
        <4>2. Append(kept, u)[n] = u BY <3>2, <1>9
        <4> QED BY <3>1, <4>1, <4>2, <1>7, <1>8
      <3>3. CASE n # Kept + 1
        <4>1. n \in 1 .. Kept BY <3>3, <1>6
        <4>2. Append(kept, u)[n] = kept[n] BY <4>1, <1>9
        <4> QED BY <3>1, <4>1, <4>2, <1>8, <1>10
      <3> QED BY <3>2, <3>3
    <2> HIDE DEF P, Q, kept
    <2> QED BY <2>1, <2>2, <1>4, <1>8, SameSequence
  <1>12. kept = IF Len(P) = Capacity THEN Tail(P) ELSE P
    BY <1>3 DEF Full
  <1>13. returned' = Empty BY DEF EnqueueUpdate
  <1> QED BY <1>11, <1>12, <1>13, PendingIsContents DEF Latest!Publish, Latest!PushLatest,
          Latest!NothingConsumed

LEMMA NextConsumes ==
  ASSUME TypeOK, Occupied, SubscriptionNext
  PROVE  Latest!Consume
  <1> USE CapacityAssumption, EmptyAssumption
  <1> DEFINE S == Updates \cup {Empty}
             P == Contents(queue, queue_start, queue_count)
             Q == Contents(queue', queue_start', queue_count')
  <1>1. /\ queue_start \in Nat /\ queue_start < Capacity
        /\ queue_count \in Nat /\ queue_count <= Capacity /\ queue_count > 0
        /\ queue \in [Slots -> S] /\ queue_start \in Slots /\ queue_count \in 0 .. Capacity
    BY DEF TypeOK, Slots, SubscriptionNext
  <1>2. TypeOK' BY NextKeeps
  <1>3. /\ P \in Seq(S) /\ Len(P) = queue_count
        /\ \A n \in 1 .. queue_count : /\ P[n] = queue[Wrapped(queue_start + (n - 1))]
                                       /\ Wrapped(queue_start + (n - 1)) \in Slots
    BY ZenonT(30), <1>1, ContentsElements
  <1>4. /\ Q \in Seq(S) /\ Len(Q) = queue_count'
        /\ \A n \in 1 .. queue_count' : /\ Q[n] = queue'[Wrapped(queue_start' + (n - 1))]
                                        /\ Wrapped(queue_start' + (n - 1)) \in Slots
    <2>1. queue' \in [Slots -> S] /\ queue_start' \in Slots /\ queue_count' \in 0 .. Capacity
      BY <1>2 DEF TypeOK
    <2> QED BY ZenonT(30), <2>1, ContentsElements
  <1>5. Advance(queue_start) = Wrapped(queue_start + 1) /\ Wrapped(queue_start + 1) \in Slots
    BY <1>1, Wraps DEF Advance
  <1>6. /\ queue_start' = Wrapped(queue_start + 1) /\ queue_count' = queue_count - 1
        /\ \A i \in Slots : queue'[i] = IF i = queue_start THEN Empty ELSE queue[i]
    BY <1>5 DEF SubscriptionNext, Release
  <1>7. P[1] = queue[queue_start]
    <2>1. 1 \in 1 .. queue_count /\ queue_start + (1 - 1) = queue_start BY <1>1
    <2>2. Wrapped(queue_start) = queue_start BY <1>1 DEF Wrapped
    <2> QED BY <2>1, <2>2, <1>3
  <1>8. queue[queue_start] # Empty
    BY <1>1 DEF Occupied, Queued
  <1>9. ASSUME NEW n \in 1 .. queue_count - 1
        PROVE  Q[n] = Tail(P)[n]
    <2>1. Q[n] = queue'[Wrapped(Wrapped(queue_start + 1) + (n - 1))]
          /\ Wrapped(Wrapped(queue_start + 1) + (n - 1)) \in Slots
      BY <1>4, <1>6
    <2>2. /\ Wrapped(Wrapped(queue_start + 1) + (n - 1)) = Wrapped(queue_start + n)
          /\ Wrapped(queue_start + n) # queue_start
      BY <1>1 DEF Wrapped
    <2>3. Tail(P)[n] = P[n + 1] BY <1>1, <1>3
    <2>4. P[n + 1] = queue[Wrapped(queue_start + n)]
      <3>1. n + 1 \in 1 .. queue_count /\ (n + 1) - 1 = n BY <1>1
      <3> QED BY <3>1, <1>3
    <2> QED BY <2>1, <2>2, <2>3, <2>4, <1>6
  <1>10. Q = Tail(P)
    <2>1. Tail(P) \in Seq(S) /\ Len(Tail(P)) = queue_count - 1 BY <1>1, <1>3
    <2>2. Len(Q) = queue_count - 1 BY <1>4, <1>6
    <2> HIDE DEF P, Q
    <2> QED BY <2>1, <2>2, <1>4, <1>9, SameSequence
  <1>11. Head(P) = queue[queue_start] /\ P # <<>> BY <1>1, <1>3, <1>7
  <1>12. returned' = queue[queue_start] BY DEF SubscriptionNext
  <1> QED BY <1>8, <1>10, <1>11, <1>12, PendingIsContents DEF Latest!Consume

LEMMA ClearDiscards ==
  ASSUME Clear
  PROVE  Latest!Discard
  <1>1. Contents(queue', queue_start', queue_count') = <<>>
    BY DEF Clear, Contents
  <1>2. returned' = Empty BY DEF Clear
  <1> QED BY <1>1, <1>2, PendingIsContents DEF Latest!Discard, Latest!NothingConsumed

(* The ring implements LatestQueue for every capacity: whatever its         *)
(* rotation and fill level, convex_subscription_next returns the oldest of *)
(* the newest Capacity updates that were published and not yet returned.   *)
THEOREM RingKeepsLatest == Spec => KeepsLatest
  <1>1. Init => Latest!Init
    <2> SUFFICES ASSUME Init PROVE Latest!Init
      OBVIOUS
    <2>1. Pending = <<>> BY DEF Init, Pending
    <2> QED BY <2>1 DEF Init, Latest!Init, Latest!NothingConsumed
  <1>2. TypeOK /\ Occupied /\ [Next]_vars =>
          [Latest!Next]_<<Pending, IF returned = Empty THEN <<>> ELSE <<returned>>>>
    <2> SUFFICES ASSUME TypeOK, Occupied, [Next]_vars
                 PROVE  [Latest!Next]_<<Pending, IF returned = Empty THEN <<>> ELSE <<returned>>>>
      OBVIOUS
    <2>1. ASSUME NEW u \in Updates, EnqueueUpdate(u)
          PROVE  Latest!Next
      BY <2>1, EnqueuePublishes DEF Latest!Next
    <2>2. CASE SubscriptionNext BY <2>2, NextConsumes DEF Latest!Next
    <2>3. CASE Clear BY <2>3, ClearDiscards DEF Latest!Next
    <2>4. CASE UNCHANGED vars BY <2>4 DEF vars, Pending, Slot
    <2> QED BY <2>1, <2>2, <2>3, <2>4 DEF Next
  <1> QED BY <1>1, <1>2, RingInvariant, PTL DEF Spec, KeepsLatest, Latest!Spec
=============================================================================
