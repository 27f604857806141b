--------------------------- MODULE LiveClient_proofs ---------------------------
(***************************************************************************)
(* Theorems about LiveClient: its types, that every subscription is what   *)
(* LiveFeed promises its holder, and what worker and backend know of one   *)
(* another.                                                                *)
(***************************************************************************)
EXTENDS LiveClient, TLAPS
-----------------------------------------------------------------------------
(* The data the client and the backend exchange.                           *)

(* Zero is a commit, "no value" is not mistaken for one, and the version a *)
(* connection starts at is a version.                                      *)
LEMMA InitialData ==
  /\ 0 \in Times
  /\ NoValue \in Outcomes /\ Times \subseteq Outcomes
  /\ InitialVersion \in Version
BY BoundsAssumption DEF BoundsAssumption, Times, Outcomes, NoValue, InitialVersion, Version

(* enqueue_update_locked keeps a queue within its capacity. *)
LEMMA PushLatestType ==
  ASSUME NEW s \in Queues, NEW u \in Updates
  PROVE  PushLatest(s, u) \in Queues
BY BoundsAssumption DEF BoundsAssumption, Queues, PushLatest

(* convex_close leaves empty queues. *)
LEMMA EmptyQueueType == <<>> \in Queues
BY BoundsAssumption DEF BoundsAssumption, Queues

(* convex_subscription_next leaves a queue behind. *)
LEMMA TailQueueType ==
  ASSUME NEW s \in Queues, s # <<>>
  PROVE  Tail(s) \in Queues
BY BoundsAssumption DEF BoundsAssumption, Queues

(* handle_transition enqueues updates. *)
LEMMA ResultUpdateType ==
  ASSUME NEW at \in Outcomes
  PROVE  ResultUpdate(at) \in Updates
BY DEF Outcomes, ResultUpdate, Update, Updates, ResultKinds

(* publish_error_locked enqueues updates. *)
LEMMA ErrorUpdateType ==
  ASSUME NEW kind \in ErrorKinds
  PROVE  Update(kind, NoValue) \in Updates
BY DEF Update, Updates

(* What the backend sends are messages. *)
LEMMA TransitionType ==
  ASSUME NEW start \in Version, NEW end \in Version, NEW mods \in [Subs -> Outcomes]
  PROVE  Transition(start, end, mods) \in Message
BY DEF Transition, Message

(* So is its complaint about a base version. *)
LEMMA FatalErrorType == FatalError \in Message
BY InitialData DEF FatalError, Message

(* modify_message_locked builds ModifyQuerySets. *)
LEMMA ModifyType ==
  ASSUME NEW base \in Nat, NEW adds \in SUBSET Subs, NEW removes \in SUBSET Subs
  PROVE  Modify(base, adds, removes) \in Modification
BY DEF Modify, Modification

(* A Transition carries one outcome for each query. *)
LEMMA ResultsOfType ==
  ASSUME ServerType, NEW S
  PROVE  ResultsOf(S) \in [Subs -> Outcomes]
BY InitialData DEF ServerType, ResultsOf

(* Reading a message leaves messages. *)
LEMMA NextMessageType ==
  ASSUME WireType, s2c # <<>>
  PROVE  /\ Head(s2c) \in Message
         /\ Head(s2c).end \in Version
         /\ Head(s2c).mods \in [Subs -> Outcomes]
         /\ Tail(s2c) \in Seq(Message)
<1>1. Head(s2c) \in Message /\ Tail(s2c) \in Seq(Message)
  BY DEF WireType
<1> QED BY <1>1 DEF Message

(* Reading a ModifyQuerySet leaves ModifyQuerySets. *)
LEMMA NextModificationType ==
  ASSUME WireType, c2s # <<>>
  PROVE  /\ Head(c2s) \in Modification
         /\ Head(c2s).base \in Nat
         /\ Head(c2s).adds \subseteq Subs
         /\ Tail(c2s) \in Seq(Modification)
<1>1. Head(c2s) \in Modification /\ Tail(c2s) \in Seq(Modification)
  BY DEF WireType
<1> QED BY <1>1 DEF Modification
-----------------------------------------------------------------------------
(* The program starts typed. *)
LEMMA TypeInit == Init => TypeOK
<1> SUFFICES ASSUME Init PROVE TypeOK
  OBVIOUS
<1> USE BoundsAssumption, InitialData DEF BoundsAssumption, Init
<1>1. RemovalType
  BY DEF RemovalType
<1>2. FeedType
  BY DEF FeedType
<1>3. QueueType
  BY EmptyQueueType DEF QueueType
<1>4. ManagerType
  BY DEF ManagerType
<1>5. FlagType
  BY DEF FlagType
<1>6. DebugType
  <2>1. debug_wait \in [Debuggers -> 0 .. MaxDebug]
    OBVIOUS
  <2>2. debug_conn \in [Debuggers -> Nat]
    OBVIOUS
  <2>3. debug_generation \in 0 .. MaxDebug /\ debug_completed \in 0 .. MaxDebug
    OBVIOUS
  <2>4. debug_requested \in BOOLEAN
    OBVIOUS
  <2> QED BY ONLY <2>1, <2>2, <2>3, <2>4 DEF DebugType
<1>7. WorkerType
  BY DEF WorkerType, Subs, None
<1>8. ThreadType
  BY DEF ThreadType, Subs
<1>9. WireType
  BY DEF WireType
<1>10. ServerType
  BY DEF ServerType
<1> QED BY ONLY <1>1, <1>2, <1>3, <1>4, <1>5, <1>6, <1>7, <1>8, <1>9, <1>10 DEF
   TypeOK

(* Every step keeps the types. *)
LEMMA TypeStep == TypeOK /\ [Next]_vars => TypeOK'
<1> SUFFICES ASSUME TypeOK, [Next]_vars PROVE TypeOK'
  OBVIOUS
<1> USE DEF TypeOK, removal, hydration, feed, versions, counts, lifecycle,
     debugging, connecting, locals, waiters, debugCalls, wire, server, data,
     subscriptions, manager, worker, threads, backend
<1>1. CASE EnsureLive
  BY <1>1, BoundsAssumption DEF BoundsAssumption, EnsureLive, RemovalType,
     FeedType, QueueType, ManagerType, FlagType, DebugType, WorkerType,
     ThreadType, WireType, ServerType
<1>2. CASE Subscribe
  BY <1>2, BoundsAssumption DEF BoundsAssumption, Subscribe, RemovalType,
     FeedType, QueueType, ManagerType, FlagType, DebugType, WorkerType,
     ThreadType, WireType, ServerType, WakeChanged, WakeCloser, Awakened,
     Subs
<1>3. ASSUME NEW q \in Subs, Unsubscribe(q) PROVE TypeOK'
  <2>1. RemovalType'
    BY <1>3, BoundsAssumption DEF BoundsAssumption, Unsubscribe, RemovalType
  <2>2. ThreadType'
    BY <1>3, BoundsAssumption DEF BoundsAssumption, Unsubscribe, ThreadType,
       WakeChanged, WakeCloser, Awakened
  <2> QED BY <1>3, <2>1, <2>2 DEF Unsubscribe, FeedType, QueueType, ManagerType,
     FlagType, DebugType, WorkerType, WireType, ServerType
<1>4. ASSUME NEW q \in Subs, UnsubscribeWait(q) PROVE TypeOK'
  BY <1>4, BoundsAssumption DEF BoundsAssumption, UnsubscribeWait,
     RemovalType, FeedType, QueueType, ManagerType, FlagType, DebugType,
     WorkerType, ThreadType, WireType, ServerType
<1>5. ASSUME NEW q \in Subs, SubscriptionNext(q) PROVE TypeOK'
  <2>1. QueueType'
    BY <1>5, BoundsAssumption, TailQueueType DEF BoundsAssumption,
       SubscriptionNext, QueueType
  <2>2. ThreadType'
    BY <1>5, BoundsAssumption DEF BoundsAssumption, SubscriptionNext,
       ThreadType
  <2> QED BY <1>5, <2>1, <2>2 DEF SubscriptionNext, RemovalType, FeedType,
     ManagerType, FlagType, DebugType, WorkerType, WireType, ServerType
<1>6. ASSUME NEW d \in Debuggers, DebugDisconnect(d) PROVE TypeOK'
  BY <1>6, BoundsAssumption DEF BoundsAssumption, DebugDisconnect,
     RemovalType, FeedType, QueueType, ManagerType, FlagType, DebugType,
     WorkerType, ThreadType, WireType, ServerType, WakeChanged, WakeCloser,
     Awakened
<1>7. ASSUME NEW d \in Debuggers, DebugWait(d) PROVE TypeOK'
  <2>1. DebugType'
    BY <1>7, BoundsAssumption DEF BoundsAssumption, DebugWait, DebugType
  <2>2. ThreadType'
    BY <1>7, BoundsAssumption DEF BoundsAssumption, DebugWait, ThreadType
  <2> QED BY <1>7, <2>1, <2>2 DEF DebugWait, RemovalType, FeedType, QueueType,
     ManagerType, FlagType, WorkerType, WireType, ServerType
<1>8. CASE Close
  BY <1>8, BoundsAssumption DEF BoundsAssumption, Close, RemovalType,
     FeedType, QueueType, ManagerType, FlagType, DebugType, WorkerType,
     ThreadType, WireType, ServerType, WakeChanged, WakeCloser, Awakened
<1>9. CASE CloseWait
  <2>1. QueueType'
    BY <1>9, BoundsAssumption, EmptyQueueType DEF BoundsAssumption,
       CloseWait, QueueType
  <2>2. ThreadType'
    BY <1>9, BoundsAssumption DEF BoundsAssumption, CloseWait, ThreadType
  <2> QED BY <1>9, <2>1, <2>2 DEF CloseWait, RemovalType, FeedType, ManagerType,
     FlagType, DebugType, WorkerType, WireType, ServerType
<1>10. CASE CloseTimeout
  BY <1>10, BoundsAssumption DEF BoundsAssumption, CloseTimeout,
     RemovalType, FeedType, QueueType, ManagerType, FlagType, DebugType,
     WorkerType, ThreadType, WireType, ServerType
<1>11. CASE BeginExit
  BY <1>11, BoundsAssumption DEF BoundsAssumption, BeginExit, RemovalType,
     FeedType, QueueType, ManagerType, FlagType, DebugType, WorkerType,
     ThreadType, WireType, ServerType
<1>12. CASE HandleDebug
  <2>1. RemovalType'
    BY <1>12, BoundsAssumption DEF BoundsAssumption, HandleDebug,
       RemovalType, CompleteRemoves
  <2>2. FeedType'
    BY <1>12, BoundsAssumption DEF BoundsAssumption, HandleDebug, FeedType,
       DisconnectSocket, DropLink
  <2>3. ManagerType'
    BY <1>12, BoundsAssumption, InitialData DEF BoundsAssumption,
       HandleDebug, ManagerType, DisconnectSocket, DropLink
  <2>4. FlagType'
    BY <1>12, BoundsAssumption DEF BoundsAssumption, HandleDebug, FlagType,
       DisconnectSocket, DropLink
  <2>5. DebugType'
    BY <1>12, BoundsAssumption DEF BoundsAssumption, HandleDebug, DebugType,
       AnsweredGeneration
  <2>6. WorkerType'
    BY <1>12, BoundsAssumption DEF BoundsAssumption, HandleDebug,
       WorkerType, ManagerType, Leftover
  <2>7. ThreadType'
    BY <1>12, BoundsAssumption DEF BoundsAssumption, HandleDebug,
       ThreadType, WakeChanged, WakeCloser, Awakened, CompleteRemoves,
       WakeUpdates
  <2>8. WireType'
    BY <1>12, BoundsAssumption DEF BoundsAssumption, HandleDebug, WireType,
       DisconnectSocket, DropLink
  <2>9. ServerType'
    BY <1>12, BoundsAssumption, InitialData DEF BoundsAssumption,
       HandleDebug, ServerType, DisconnectSocket, DropLink
  <2> QED BY <1>12, <2>1, <2>2, <2>3, <2>4, <2>5, <2>6, <2>7, <2>8, <2>9 DEF
     HandleDebug, QueueType
<1>13. CASE Idle
  BY <1>13, BoundsAssumption DEF BoundsAssumption, Idle, RemovalType,
     FeedType, QueueType, ManagerType, FlagType, DebugType, WorkerType,
     ThreadType, WireType, ServerType, WakeChanged, WakeCloser, Awakened,
     WakeUpdates, CompleteRemoves
<1>14. CASE PickMessage
  BY <1>14, BoundsAssumption DEF BoundsAssumption, PickMessage, RemovalType,
     FeedType, QueueType, ManagerType, FlagType, DebugType, WorkerType,
     ThreadType, WireType, ServerType, PendingAdds, PendingRemoves, Newest
<1>15. CASE AddSent
  <2>1. RemovalType'
    BY <1>15, BoundsAssumption DEF BoundsAssumption, AddSent, RemovalType
  <2>2. ManagerType'
    BY <1>15, BoundsAssumption DEF BoundsAssumption, AddSent, ManagerType
  <2>3. WorkerType'
    BY <1>15, BoundsAssumption DEF BoundsAssumption, AddSent, WorkerType,
       ManagerType, NextMessage, Newest, PendingRemoves
  <2>4. WireType'
    BY <1>15, ModifyType DEF AddSent, WireType, ManagerType, WorkerType,
       SendOkay
  <2> QED BY <1>15, <2>1, <2>2, <2>3, <2>4 DEF AddSent, FeedType, QueueType,
     FlagType, DebugType, ThreadType, ServerType
<1>16. CASE AddFailed
  <2>1. FeedType'
    BY <1>16, BoundsAssumption DEF BoundsAssumption, AddFailed, FeedType,
       DisconnectSocket, DropLink
  <2>2. ManagerType'
    BY <1>16, BoundsAssumption, InitialData DEF BoundsAssumption, AddFailed,
       ManagerType, DisconnectSocket, DropLink
  <2>3. FlagType'
    BY <1>16, BoundsAssumption DEF BoundsAssumption, AddFailed, FlagType,
       DisconnectSocket, DropLink
  <2>4. WorkerType'
    BY <1>16, BoundsAssumption DEF BoundsAssumption, AddFailed, WorkerType,
       ManagerType, Leftover, NextMessage, Newest, PendingRemoves
  <2>5. WireType'
    BY <1>16, BoundsAssumption DEF BoundsAssumption, AddFailed, WireType,
       DisconnectSocket, DropLink
  <2>6. ServerType'
    BY <1>16, BoundsAssumption, InitialData DEF BoundsAssumption, AddFailed,
       ServerType, DisconnectSocket, DropLink, SendFails
  <2> QED BY <1>16, <2>1, <2>2, <2>3, <2>4, <2>5, <2>6 DEF AddFailed, RemovalType,
     QueueType, DebugType, ThreadType
<1>17. CASE RemoveSent
  <2>1. RemovalType'
    BY <1>17, BoundsAssumption DEF BoundsAssumption, RemoveSent, RemovalType
  <2>2. ManagerType'
    BY <1>17, BoundsAssumption DEF BoundsAssumption, RemoveSent, ManagerType
  <2>3. WorkerType'
    BY <1>17, BoundsAssumption DEF BoundsAssumption, RemoveSent, WorkerType,
       ManagerType
  <2>4. ThreadType'
    BY <1>17, BoundsAssumption DEF BoundsAssumption, RemoveSent, ThreadType,
       WakeChanged, WakeCloser, Awakened, WakeUpdates
  <2>5. WireType'
    BY <1>17, ModifyType DEF RemoveSent, WireType, ManagerType, WorkerType,
       SendOkay
  <2> QED BY <1>17, <2>1, <2>2, <2>3, <2>4, <2>5 DEF RemoveSent, FeedType,
     QueueType, FlagType, DebugType, ServerType
<1>18. CASE RemoveFailed
  <2>1. FeedType'
    BY <1>18, BoundsAssumption DEF BoundsAssumption, RemoveFailed, FeedType,
       DisconnectSocket, DropLink
  <2>2. ManagerType'
    BY <1>18, BoundsAssumption, InitialData DEF BoundsAssumption,
       RemoveFailed, ManagerType, DisconnectSocket, DropLink
  <2>3. FlagType'
    BY <1>18, BoundsAssumption DEF BoundsAssumption, RemoveFailed, FlagType,
       DisconnectSocket, DropLink
  <2>4. WorkerType'
    BY <1>18, BoundsAssumption DEF BoundsAssumption, RemoveFailed,
       WorkerType, ManagerType, Leftover
  <2>5. WireType'
    BY <1>18, BoundsAssumption DEF BoundsAssumption, RemoveFailed, WireType,
       DisconnectSocket, DropLink
  <2>6. ServerType'
    BY <1>18, BoundsAssumption, InitialData DEF BoundsAssumption,
       RemoveFailed, ServerType, DisconnectSocket, DropLink, SendFails
  <2> QED BY <1>18, <2>1, <2>2, <2>3, <2>4, <2>5, <2>6 DEF RemoveFailed,
     RemovalType, QueueType, DebugType, ThreadType
<1>19. CASE Connected
  <2>1. ManagerType'
    BY <1>19, BoundsAssumption DEF BoundsAssumption, Connected, ManagerType
  <2>2. FlagType'
    BY <1>19, BoundsAssumption DEF BoundsAssumption, Connected, FlagType
  <2>3. WorkerType'
    BY <1>19, BoundsAssumption DEF BoundsAssumption, Connected, WorkerType,
       ManagerType
  <2>4. ThreadType'
    BY <1>19, BoundsAssumption DEF BoundsAssumption, Connected, ThreadType,
       WakeChanged, WakeCloser, Awakened
  <2>5. WireType'
    BY <1>19, BoundsAssumption DEF BoundsAssumption, Connected, WireType
  <2>6. ServerType'
    BY <1>19, BoundsAssumption, InitialData DEF BoundsAssumption, Connected,
       ServerType
  <2> QED BY <1>19, <2>1, <2>2, <2>3, <2>4, <2>5, <2>6 DEF Connected, RemovalType,
     FeedType, QueueType, DebugType
<1>20. CASE DialFailed
  BY <1>20, BoundsAssumption DEF BoundsAssumption, DialFailed, RemovalType,
     FeedType, QueueType, ManagerType, FlagType, DebugType, WorkerType,
     ThreadType, WireType, ServerType
<1>21. CASE SnapshotSent
  <2>1. RemovalType'
    BY <1>21, BoundsAssumption DEF BoundsAssumption, SnapshotSent,
       RemovalType
  <2>2. ManagerType'
    BY <1>21, BoundsAssumption DEF BoundsAssumption, SnapshotSent,
       ManagerType
  <2>3. FlagType'
    BY <1>21, BoundsAssumption DEF BoundsAssumption, SnapshotSent, FlagType
  <2>4. WorkerType'
    BY <1>21, BoundsAssumption DEF BoundsAssumption, SnapshotSent,
       WorkerType, ManagerType
  <2>5. ThreadType'
    BY <1>21, BoundsAssumption DEF BoundsAssumption, SnapshotSent,
       ThreadType, WakeChanged, WakeCloser, Awakened
  <2>6. WireType'
    BY <1>21, ModifyType DEF SnapshotSent, WireType, ManagerType,
       WorkerType, SendOkay
  <2> QED BY <1>21, <2>1, <2>2, <2>3, <2>4, <2>5, <2>6 DEF SnapshotSent, FeedType,
     QueueType, DebugType, ServerType
<1>22. CASE SnapshotFailed
  <2>1. ManagerType'
    BY <1>22, BoundsAssumption DEF BoundsAssumption, SnapshotFailed,
       ManagerType
  <2>2. FlagType'
    BY <1>22, BoundsAssumption DEF BoundsAssumption, SnapshotFailed,
       FlagType
  <2>3. WorkerType'
    BY <1>22, BoundsAssumption DEF BoundsAssumption, SnapshotFailed,
       WorkerType, ManagerType
  <2>4. WireType'
    BY <1>22, BoundsAssumption DEF BoundsAssumption, SnapshotFailed,
       WireType, DropLink
  <2>5. ServerType'
    BY <1>22, BoundsAssumption, InitialData DEF BoundsAssumption,
       SnapshotFailed, ServerType, DropLink, SendFails
  <2> QED BY <1>22, <2>1, <2>2, <2>3, <2>4, <2>5 DEF SnapshotFailed, RemovalType,
     FeedType, QueueType, DebugType, ThreadType
<1>23. CASE ReceiveNothing
  BY <1>23, BoundsAssumption DEF BoundsAssumption, ReceiveNothing,
     RemovalType, FeedType, QueueType, ManagerType, FlagType, DebugType,
     WorkerType, ThreadType, WireType, ServerType
<1>24. CASE ReceiveFragment
  BY <1>24, BoundsAssumption DEF BoundsAssumption, ReceiveFragment,
     RemovalType, FeedType, QueueType, ManagerType, FlagType, DebugType,
     WorkerType, ThreadType, WireType, ServerType
<1>25. CASE ReceiveTransition
  <2> DEFINE m == Head(s2c)
  <2>0. m \in Message /\ m.end \in Version /\ m.mods \in [Subs -> Outcomes]
         /\ Tail(s2c) \in Seq(Message)
    BY <1>25, NextMessageType DEF ReceiveTransition, Readable
  <2> HIDE DEF m
  <2>h. HandleTransition(m)
    BY <1>25 DEF ReceiveTransition, m
  <2>1. FeedType'
    <3>1. \A q \in Subs : CachedValue(m.mods[q]) \in Outcomes
      BY <2>0, InitialData DEF CachedValue
    <3>2. last_value' \in [Subs -> Outcomes]
      BY <3>1, <2>h DEF HandleTransition, FeedType
    <3>3. published' \in [Subs -> Outcomes]
      BY <2>0, <2>h DEF HandleTransition, FeedType
    <3> QED BY <3>2, <3>3, <2>h DEF HandleTransition, FeedType
  <2>2. QueueType'
    <3>1. \A q \in Subs :
             PushLatest(queue[q], ResultUpdate(m.mods[q])) \in Queues
      BY <2>0, PushLatestType, ResultUpdateType DEF QueueType
    <3> QED BY <3>1, <2>h DEF HandleTransition, QueueType
  <2>3. ManagerType'
    BY <1>25, BoundsAssumption, <2>0, <2>h DEF BoundsAssumption,
       ReceiveTransition, ManagerType, HandleTransition
  <2>4. WorkerType'
    BY <1>25, BoundsAssumption DEF BoundsAssumption, ReceiveTransition,
       WorkerType, ManagerType
  <2>5. ThreadType'
    BY <1>25, BoundsAssumption, <2>h DEF BoundsAssumption,
       ReceiveTransition, ThreadType, HandleTransition, WakeUpdates,
       Awakened
  <2>6. WireType'
    BY <1>25, BoundsAssumption, <2>0 DEF BoundsAssumption,
       ReceiveTransition, WireType
  <2> QED BY <1>25, <2>1, <2>2, <2>3, <2>4, <2>5, <2>6 DEF ReceiveTransition,
     RemovalType, FlagType, DebugType, ServerType
<1>26. CASE ReceiveProtocolError
  <2>1. FeedType'
    BY <1>26, BoundsAssumption DEF BoundsAssumption, ReceiveProtocolError,
       FeedType, PublishError, DisconnectSocket, DropLink
  <2>2. QueueType'
    BY <1>26, BoundsAssumption, PushLatestType, ErrorUpdateType DEF
       BoundsAssumption, ReceiveProtocolError, QueueType, PublishError,
       ErrorKinds
  <2>3. ManagerType'
    BY <1>26, BoundsAssumption, InitialData DEF BoundsAssumption,
       ReceiveProtocolError, ManagerType, DisconnectSocket, DropLink
  <2>4. FlagType'
    BY <1>26, BoundsAssumption DEF BoundsAssumption, ReceiveProtocolError,
       FlagType, DisconnectSocket, DropLink
  <2>5. WorkerType'
    BY <1>26, BoundsAssumption DEF BoundsAssumption, ReceiveProtocolError,
       WorkerType, ManagerType
  <2>6. ThreadType'
    BY <1>26, BoundsAssumption DEF BoundsAssumption, ReceiveProtocolError,
       ThreadType, PublishError, WakeUpdates, Awakened
  <2>7. WireType'
    BY <1>26, BoundsAssumption DEF BoundsAssumption, ReceiveProtocolError,
       WireType, DisconnectSocket, DropLink
  <2>8. ServerType'
    BY <1>26, BoundsAssumption, InitialData DEF BoundsAssumption,
       ReceiveProtocolError, ServerType, DisconnectSocket, DropLink
  <2> QED BY <1>26, <2>1, <2>2, <2>3, <2>4, <2>5, <2>6, <2>7, <2>8 DEF
     ReceiveProtocolError, RemovalType, DebugType
<1>27. CASE ReceiveTransportError
  <2>1. FeedType'
    BY <1>27, BoundsAssumption DEF BoundsAssumption, ReceiveTransportError,
       FeedType, PublishError, DisconnectSocket, DropLink
  <2>2. QueueType'
    BY <1>27, BoundsAssumption, PushLatestType, ErrorUpdateType DEF
       BoundsAssumption, ReceiveTransportError, QueueType, PublishError,
       ErrorKinds
  <2>3. ManagerType'
    BY <1>27, BoundsAssumption, InitialData DEF BoundsAssumption,
       ReceiveTransportError, ManagerType, DisconnectSocket, DropLink
  <2>4. FlagType'
    BY <1>27, BoundsAssumption DEF BoundsAssumption, ReceiveTransportError,
       FlagType, DisconnectSocket, DropLink
  <2>5. WorkerType'
    BY <1>27, BoundsAssumption DEF BoundsAssumption, ReceiveTransportError,
       WorkerType, ManagerType
  <2>6. ThreadType'
    BY <1>27, BoundsAssumption DEF BoundsAssumption, ReceiveTransportError,
       ThreadType, PublishError, WakeUpdates, Awakened
  <2>7. WireType'
    BY <1>27, BoundsAssumption DEF BoundsAssumption, ReceiveTransportError,
       WireType, DisconnectSocket, DropLink
  <2>8. ServerType'
    BY <1>27, BoundsAssumption, InitialData DEF BoundsAssumption,
       ReceiveTransportError, ServerType, DisconnectSocket, DropLink
  <2> QED BY <1>27, <2>1, <2>2, <2>3, <2>4, <2>5, <2>6, <2>7, <2>8 DEF
     ReceiveTransportError, RemovalType, DebugType
<1>28. CASE Exit
  <2>1. RemovalType'
    BY <1>28, BoundsAssumption DEF BoundsAssumption, Exit, RemovalType
  <2>2. FlagType'
    BY <1>28, BoundsAssumption DEF BoundsAssumption, Exit, FlagType
  <2>3. WorkerType'
    BY <1>28, BoundsAssumption DEF BoundsAssumption, Exit, WorkerType,
       ManagerType
  <2>4. ThreadType'
    BY <1>28, BoundsAssumption DEF BoundsAssumption, Exit, ThreadType,
       WakeChanged, WakeCloser, Awakened, WakeUpdates
  <2>5. WireType'
    BY <1>28, BoundsAssumption DEF BoundsAssumption, Exit, WireType,
       DropLink
  <2>6. ServerType'
    BY <1>28, BoundsAssumption, InitialData DEF BoundsAssumption, Exit,
       ServerType, DropLink
  <2> QED BY <1>28, <2>1, <2>2, <2>3, <2>4, <2>5, <2>6 DEF Exit, FeedType,
     QueueType, ManagerType, DebugType
<1>29. CASE ServerModify
  <2> DEFINE modify == Head(c2s)
             new == [querySet |-> server_version.querySet + 1, ts |-> now]
             known == (server_queries \cup modify.adds) \ modify.removes
  <2>0. /\ modify \in Modification /\ modify.adds \subseteq Subs
         /\ Tail(c2s) \in Seq(Modification)
    BY <1>29, NextModificationType DEF ServerModify
  <2>v. new \in Version /\ server_version \in Version
    BY DEF ServerType, Version
  <2>q. known \subseteq Subs
    BY <2>0 DEF ServerType
  <2>m. \A S : Transition(server_version, new, ResultsOf(S)) \in Message
    BY <2>v, ResultsOfType, TransitionType
  <2>1. WireType'
    <3>1. s2c' \in Seq(Message)
      <4>1. CASE modify.base = server_version.querySet
        <5>1. s2c' = Append(s2c, Transition(server_version, new, ResultsOf(
                 modify.adds \cup {q \in known : result[q] > server_version.ts})))
          BY <1>29, <4>1 DEF ServerModify
        <5> QED BY <5>1, <2>m DEF WireType
      <4>2. CASE modify.base # server_version.querySet
        BY <1>29, <4>2, FatalErrorType DEF ServerModify, WireType
      <4> QED BY <4>1, <4>2
    <3> QED BY <1>29, <3>1, <2>0 DEF ServerModify, WireType
  <2>2. ServerType'
    BY <1>29, BoundsAssumption, <2>v, <2>q DEF BoundsAssumption,
       ServerModify, ServerType
  <2> QED BY <1>29, <2>1, <2>2 DEF ServerModify, RemovalType, FeedType, QueueType,
     ManagerType, FlagType, DebugType, WorkerType, ThreadType
<1>30. CASE ServerPush
  <2> DEFINE new == [server_version EXCEPT !.ts = now]
  <2>v. new \in Version /\ server_version \in Version
    BY DEF ServerType, Version
  <2>m. \A S : Transition(server_version, new, ResultsOf(S)) \in Message
    BY <2>v, ResultsOfType, TransitionType
  <2>1. WireType'
    <3>1. s2c' = Append(s2c, Transition(server_version, new, ResultsOf(
             {q \in server_queries : result[q] > server_version.ts})))
      BY <1>30 DEF ServerPush
    <3>2. s2c' \in Seq(Message)
      BY <3>1, <2>m DEF WireType
    <3> QED BY <1>30, <3>2 DEF ServerPush, WireType
  <2>2. ServerType'
    BY <1>30, BoundsAssumption, <2>v DEF BoundsAssumption, ServerPush,
       ServerType
  <2> QED BY <1>30, <2>1, <2>2 DEF ServerPush, RemovalType, FeedType, QueueType,
     ManagerType, FlagType, DebugType, WorkerType, ThreadType
<1>31. ASSUME NEW q \in Subs, Write(q) PROVE TypeOK'
  <2>1. ServerType'
    BY <1>31, BoundsAssumption DEF BoundsAssumption, Write, ServerType,
       Times
  <2> QED BY <1>31, <2>1 DEF Write, RemovalType, FeedType, QueueType, ManagerType,
     FlagType, DebugType, WorkerType, ThreadType, WireType
<1>32. CASE Break
  <2>1. WireType'
    BY <1>32, BoundsAssumption, FatalErrorType DEF BoundsAssumption, Break,
       WireType
  <2>2. ServerType'
    BY <1>32, BoundsAssumption DEF BoundsAssumption, Break, ServerType
  <2> QED BY <1>32, <2>1, <2>2 DEF Break, RemovalType, FeedType, QueueType,
     ManagerType, FlagType, DebugType, WorkerType, ThreadType
<1>33. CASE UNCHANGED vars
  BY <1>33 DEF vars, RemovalType, FeedType, QueueType, ManagerType,
     FlagType, DebugType, WorkerType, ThreadType, WireType, ServerType
<1> QED BY <1>1, <1>2, <1>3, <1>4, <1>5, <1>6, <1>7, <1>8, <1>9, <1>10, <1>11,
   <1>12, <1>13, <1>14, <1>15, <1>16, <1>17, <1>18, <1>19, <1>20, <1>21,
   <1>22, <1>23, <1>24, <1>25, <1>26, <1>27, <1>28, <1>29, <1>30, <1>31,
   <1>32, <1>33 DEF Next, Worker, Application, Environment

(* Every reachable state is well typed: no queue grows beyond its capacity, *)
(* a subscription thread is admitted only while a query id is left, and the *)
(* worker always has a subscription to name while it writes an Add or a    *)
(* Remove.                                                                 *)
THEOREM TypeCorrect == Spec => []TypeOK
BY TypeInit, TypeStep, PTL DEF Spec
-----------------------------------------------------------------------------
(* LiveClient implements LiveFeed for every subscription.                  *)

(* What makes FeedState a refinement mapping: a query id that has not been  *)
(* given out has no flags and no updates, a Remove completes only when it  *)
(* was asked for and leaves the subscription inactive, the worker writes a *)
(* Remove only of a subscription that is leaving, and once stopped it is   *)
(* done for good.                                                          *)
Untouched(q) == /\ ~active[q] /\ ~remove_pending[q] /\ ~remove_done[q]
                /\ queue[q] = <<>>

FeedInv ==
  /\ \A q \in Subs : q >= next_query_id => Untouched(q)
  /\ \A q \in Subs : remove_done[q] => remove_pending[q] /\ ~active[q]
  /\ pc = "remove" => remove_pending[current] /\ ~remove_done[current]
  /\ stopped => pc = "done"

(* Before the first convex_subscribe no query id has been given out. *)
LEMMA FeedInvInit == Init => FeedInv
BY DEF Init, FeedInv, Untouched

life == <<active, remove_pending, remove_done, queue, next_query_id, stopped>>

(* Every step keeps FeedInv. *)
LEMMA FeedInvStep == TypeOK /\ FeedInv /\ [Next]_vars => FeedInv'
<1> SUFFICES ASSUME TypeOK, FeedInv, [Next]_vars PROVE FeedInv'
  OBVIOUS
<1> USE DEF removal, feed, lifecycle, locals, subscriptions, manager, worker
<1>1. CASE EnsureLive \/ Close \/ CloseTimeout \/ UNCHANGED vars
             \/ ServerModify \/ ServerPush \/ Break
  BY <1>1 DEF FeedInv, Untouched, EnsureLive, Close, CloseTimeout, vars,
    ServerModify, ServerPush, Break
<1>2. CASE \/ \E q \in Subs : UnsubscribeWait(q) \/ Write(q)
           \/ \E d \in Debuggers : DebugDisconnect(d) \/ DebugWait(d)
  BY <1>2 DEF FeedInv, Untouched, UnsubscribeWait, Write, DebugDisconnect, DebugWait
<1>3. CASE BeginExit \/ AddSent \/ AddFailed \/ RemoveFailed \/ Connected
             \/ DialFailed \/ SnapshotSent \/ SnapshotFailed
             \/ ReceiveNothing \/ ReceiveFragment \/ PickMessage
  <2>1. UNCHANGED life /\ pc # "done"
    BY <1>3 DEF life, BeginExit, AddSent, AddFailed, RemoveFailed, Connected,
      DialFailed, SnapshotSent, SnapshotFailed, ReceiveNothing, ReceiveFragment,
      PickMessage
  <2>2. pc' = "remove" => current' \in PendingRemoves
    BY <1>3 DEF BeginExit, AddSent, AddFailed, RemoveFailed, Connected,
      DialFailed, SnapshotSent, SnapshotFailed, ReceiveNothing, ReceiveFragment,
      PickMessage, NextMessage, Newest
  <2> QED BY <2>1, <2>2 DEF life, FeedInv, Untouched, PendingRemoves
<1>4. CASE Subscribe
  BY <1>4, BoundsAssumption DEF BoundsAssumption, FeedInv, Untouched, Subscribe,
    TypeOK, RemovalType, ManagerType, Subs
<1>5. ASSUME NEW q \in Subs, Unsubscribe(q) PROVE FeedInv'
  <2>1. /\ UNCHANGED <<active, remove_done, queue, next_query_id, stopped, pc, current>>
        /\ q < next_query_id
    BY <1>5 DEF Unsubscribe
  <2>2. \A p \in Subs : p # q => remove_pending'[p] = remove_pending[p]
    BY <1>5 DEF Unsubscribe, TypeOK, RemovalType
  <2>3. \A p \in Subs : remove_pending[p] => remove_pending'[p]
    BY <1>5 DEF Unsubscribe, TypeOK, RemovalType
  <2>4. \A p \in Subs : p >= next_query_id => p # q
    BY <2>1 DEF Subs, TypeOK, ManagerType
  <2>5. pc = "remove" => current \in Subs
    BY DEF TypeOK, WorkerType
  <2> QED BY <2>1, <2>2, <2>3, <2>4, <2>5 DEF FeedInv, Untouched
<1>6. CASE CloseWait \/ \E q \in Subs : SubscriptionNext(q)
  BY <1>6 DEF FeedInv, Untouched, CloseWait, SubscriptionNext, TypeOK, QueueType
<1>7. CASE HandleDebug \/ Idle
  <2>1. /\ UNCHANGED <<remove_pending, queue, next_query_id, stopped>>
        /\ pc = "top" /\ pc' \in {"top", "dial"}
    BY <1>7 DEF HandleDebug, Idle
  <2>2. \A q \in Subs : /\ active'[q] = (active[q] /\ q \notin PendingRemoves)
                       /\ remove_done'[q] = (remove_done[q] \/ q \in PendingRemoves)
    BY <1>7 DEF HandleDebug, Idle, CompleteRemoves
  <2> QED BY <2>1, <2>2 DEF FeedInv, Untouched, PendingRemoves
<1>8. CASE RemoveSent
  BY <1>8 DEF FeedInv, Untouched, RemoveSent, TypeOK, RemovalType, WorkerType
<1>9. CASE Exit
  BY <1>9 DEF FeedInv, Untouched, Exit
<1>10. CASE ReceiveTransition \/ ReceiveProtocolError \/ ReceiveTransportError
  <2>1. UNCHANGED <<removal, next_query_id, stopped>> /\ pc' = "top" /\ ~stopped
    BY <1>10 DEF FeedInv, ReceiveTransition, ReceiveProtocolError, ReceiveTransportError
  <2>2. \A q \in Subs : queue'[q] = queue[q] \/ Live(q)
    BY <1>10 DEF ReceiveTransition, HandleTransition, Published, Applies,
      ReceiveProtocolError, ReceiveTransportError, PublishError
  <2> QED BY <2>1, <2>2 DEF FeedInv, Untouched, Live
<1> QED BY <1>1, <1>2, <1>3, <1>4, <1>5, <1>6, <1>7, <1>8, <1>9, <1>10
  DEF Next, Worker, Application, Environment

(* Publishing is one Publish step of an open feed. *)
LEMMA PublishStep ==
  ASSUME FeedInv, TypeOK, NEW q \in Subs, Live(q), ~stopped, NEW u \in Updates,
         queue'[q] = PushLatest(queue[q], u),
         UNCHANGED <<removal, next_query_id, stopped>>
  PROVE  Feed(q)!Next
BY DEF FeedInv, Untouched, Feed!Next, Feed!Publish, FeedState, Live, removal, PushLatest, Feed!PushLatest

FeedStep(q) == Feed(q)!Next \/ UNCHANGED <<FeedState(q), queue[q]>>

(* A step that leaves the subscription's life alone is a stutter of its feed. *)
LEMMA FeedStutters ==
  ASSUME NEW q \in Subs, UNCHANGED life PROVE FeedStep(q)
BY DEF FeedStep, FeedState, life

(* Every step of the client is, for every subscription, a step of LiveFeed or *)
(* leaves its feed alone.                                                   *)
LEMMA FeedsStep ==
  ASSUME TypeOK, FeedInv, [Next]_vars, NEW q \in Subs PROVE FeedStep(q)
<1> USE DEF removal, feed, lifecycle, locals, subscriptions, manager, worker
<1>1. CASE EnsureLive \/ Close \/ CloseTimeout \/ UNCHANGED vars
             \/ ServerModify \/ ServerPush \/ Break
  BY <1>1, FeedStutters DEF life, EnsureLive, Close, CloseTimeout, vars,
    ServerModify, ServerPush, Break
<1>2. CASE \/ \E p \in Subs : UnsubscribeWait(p) \/ Write(p)
           \/ \E d \in Debuggers : DebugDisconnect(d) \/ DebugWait(d)
  BY <1>2, FeedStutters DEF life, UnsubscribeWait, Write, DebugDisconnect, DebugWait
<1>3. CASE BeginExit \/ AddSent \/ AddFailed \/ RemoveFailed \/ Connected
             \/ DialFailed \/ SnapshotSent \/ SnapshotFailed
             \/ ReceiveNothing \/ ReceiveFragment \/ PickMessage
  BY <1>3, FeedStutters DEF life, BeginExit, AddSent, AddFailed, RemoveFailed,
    Connected, DialFailed, SnapshotSent, SnapshotFailed, ReceiveNothing,
    ReceiveFragment, PickMessage
<1>4. CASE Subscribe
  <2>1. CASE q = next_query_id
    <3>1. FeedState(q) = "absent" /\ FeedState(q)' \in {"open", "stopped"}
      BY <1>4, <2>1 DEF Subscribe, FeedState, FeedInv, Untouched, TypeOK, ManagerType
    <3>2. queue' = queue
      BY <1>4 DEF Subscribe
    <3> QED BY <3>1, <3>2 DEF FeedStep, Feed!Next, Feed!Subscribe
  <2>2. CASE q # next_query_id
    BY <1>4, <2>2 DEF Subscribe, FeedStep, FeedState, TypeOK, ManagerType, Subs
  <2> QED BY <2>1, <2>2
<1>5. ASSUME NEW p \in Subs, Unsubscribe(p) PROVE FeedStep(q)
  <2>1. UNCHANGED <<active, remove_done, queue, next_query_id, stopped>>
    BY <1>5 DEF Unsubscribe
  <2>2. CASE p # q \/ ~active[p] \/ remove_pending[q] \/ stopped
    BY <1>5, <2>1, <2>2 DEF Unsubscribe, FeedStep, FeedState, FeedInv, TypeOK, RemovalType
  <2>3. CASE p = q /\ active[q] /\ ~remove_pending[q] /\ ~stopped
    <3>0. ~(q >= next_query_id) /\ ~remove_done[q]
      BY <2>3 DEF FeedInv, Untouched
    <3>1. remove_pending'[q] = TRUE
      BY <1>5, <2>3 DEF Unsubscribe, TypeOK, RemovalType
    <3>2. FeedState(q) = "open" /\ FeedState(q)' = "leaving"
      BY <2>1, <2>3, <3>0, <3>1 DEF FeedState
    <3> QED BY <2>1, <3>2 DEF FeedStep, Feed!Next, Feed!Unsubscribe
  <2> QED BY <2>2, <2>3
<1>6. ASSUME NEW p \in Subs, SubscriptionNext(p) PROVE FeedStep(q)
  <2>1. UNCHANGED <<removal, next_query_id, stopped>>
    BY <1>6 DEF SubscriptionNext
  <2>2. \/ queue'[q] = queue[q]
        \/ queue[q] # <<>> /\ queue'[q] = Tail(queue[q])
    <3>1. \/ queue' = queue
          \/ queue[p] # <<>> /\ queue' = [queue EXCEPT ![p] = Tail(queue[p])]
      BY <1>6 DEF SubscriptionNext
    <3> QED BY <3>1 DEF TypeOK, QueueType
  <2> QED BY <2>1, <2>2 DEF FeedStep, FeedState, Feed!Next, Feed!Take
<1>7. CASE CloseWait
  <2>1. UNCHANGED <<removal, next_query_id, stopped>>
    BY <1>7 DEF CloseWait
  <2>2. CASE stopped /\ q < next_query_id
    <3>1. FeedState(q) \in {"left", "stopped"} /\ FeedState(q)' = FeedState(q)
      BY <2>1, <2>2 DEF FeedState, TypeOK, ManagerType, Subs
    <3>2. queue'[q] = <<>>
      BY <1>7, <2>2 DEF CloseWait
    <3> QED BY <3>1, <3>2 DEF FeedStep, Feed!Next, Feed!Release
  <2>3. CASE ~stopped \/ q >= next_query_id
    <3>1. queue'[q] = queue[q]
      BY <1>7, <2>3 DEF CloseWait, FeedInv, Untouched
    <3> QED BY <2>1, <3>1 DEF FeedStep, FeedState
  <2> QED BY <2>2, <2>3 DEF TypeOK, ManagerType, Subs
<1>8. CASE HandleDebug \/ Idle
  <2>1. /\ UNCHANGED <<remove_pending, queue, next_query_id, stopped>> /\ ~stopped
        /\ remove_done'[q] = (remove_done[q] \/ q \in PendingRemoves)
    BY <1>8 DEF HandleDebug, Idle, CompleteRemoves, FeedInv
  <2>2. CASE q \in PendingRemoves
    <3>1. FeedState(q) = "leaving" /\ FeedState(q)' = "left"
      BY <2>1, <2>2 DEF FeedState, PendingRemoves, FeedInv, Untouched, TypeOK, ManagerType,
        Subs
    <3> QED BY <2>1, <3>1 DEF FeedStep, Feed!Next, Feed!Removed
  <2>3. CASE q \notin PendingRemoves
    BY <2>1, <2>3 DEF FeedStep, FeedState
  <2> QED BY <2>2, <2>3
<1>9. CASE RemoveSent
  <2>1. /\ UNCHANGED <<remove_pending, queue, next_query_id, stopped>> /\ ~stopped
        /\ current \in Subs /\ remove_pending[current] /\ ~remove_done[current]
        /\ remove_done' = [remove_done EXCEPT ![current] = TRUE]
    BY <1>9 DEF RemoveSent, FeedInv, TypeOK, WorkerType
  <2>2. CASE q = current
    <3>1. FeedState(q) = "leaving" /\ FeedState(q)' = "left"
      BY <2>1, <2>2 DEF FeedState, FeedInv, Untouched, TypeOK, RemovalType, ManagerType, Subs
    <3> QED BY <2>1, <3>1 DEF FeedStep, Feed!Next, Feed!Removed
  <2>3. CASE q # current
    BY <2>1, <2>3 DEF FeedStep, FeedState, TypeOK, RemovalType
  <2> QED BY <2>2, <2>3
<1>10. CASE Exit
  <2>1. UNCHANGED <<remove_pending, remove_done, queue, next_query_id>> /\ stopped'
    BY <1>10 DEF Exit
  <2>2. CASE q < next_query_id /\ ~remove_done[q] /\ ~stopped
    <3>1. FeedState(q) \in {"open", "leaving"} /\ FeedState(q)' = "stopped"
      BY <2>1, <2>2 DEF FeedState, TypeOK, ManagerType, Subs
    <3> QED BY <2>1, <3>1 DEF FeedStep, Feed!Next, Feed!Stop
  <2>3. CASE q >= next_query_id \/ remove_done[q] \/ stopped
    BY <2>1, <2>3 DEF FeedStep, FeedState
  <2> QED BY <2>2, <2>3 DEF TypeOK, ManagerType, Subs
<1>11. CASE ReceiveTransition
  <2> DEFINE m == Head(s2c)
  <2>1. UNCHANGED <<removal, next_query_id, stopped>> /\ ~stopped
    BY <1>11 DEF ReceiveTransition, FeedInv
  <2>2. CASE q \in Published(m.mods)
    <3>1. queue'[q] = PushLatest(queue[q], ResultUpdate(m.mods[q]))
      BY <1>11, <2>2 DEF ReceiveTransition, HandleTransition
    <3>2. Live(q) /\ ResultUpdate(m.mods[q]) \in Updates
      BY <1>11, <2>2, NextMessageType, ResultUpdateType
      DEF ReceiveTransition, Readable, Published, Applies, TypeOK
    <3> QED BY <2>1, <3>1, <3>2, PublishStep DEF FeedStep
  <2>3. CASE q \notin Published(m.mods)
    <3>1. queue'[q] = queue[q]
      BY <1>11, <2>3 DEF ReceiveTransition, HandleTransition
    <3> QED BY <2>1, <3>1 DEF FeedStep, FeedState
  <2> QED BY <2>2, <2>3
<1>12. CASE ReceiveProtocolError \/ ReceiveTransportError
  <2>1. UNCHANGED <<removal, next_query_id, stopped>> /\ ~stopped
    BY <1>12 DEF ReceiveProtocolError, ReceiveTransportError, FeedInv
  <2>2. \/ queue'[q] = queue[q]
        \/ Live(q) /\ \E kind \in ErrorKinds :
                        queue'[q] = PushLatest(queue[q], Update(kind, NoValue))
    BY <1>12 DEF ReceiveProtocolError, ReceiveTransportError, PublishError, ErrorKinds
  <2>3. CASE queue'[q] = queue[q]
    BY <2>1, <2>3 DEF FeedStep, FeedState
  <2>4. CASE queue'[q] # queue[q]
    BY <2>1, <2>2, <2>4, PublishStep, ErrorUpdateType DEF FeedStep
  <2> QED BY <2>3, <2>4
<1> QED BY <1>1, <1>2, <1>3, <1>4, <1>5, <1>6, <1>7, <1>8, <1>9, <1>10, <1>11, <1>12
  DEF Next, Worker, Application, Environment

(* Every subscription of the client is a LiveFeed, whatever the number of   *)
(* subscriptions, threads, faults and messages: nothing is put in a queue  *)
(* after convex_unsubscribe has asked for the Remove, the Remove completes *)
(* at most once, and after the worker has stopped nothing is published.    *)
THEOREM ImplementsFeeds == Spec => FeedsKept
<1>1. Init => \A q \in Subs : Feed(q)!Init
  BY DEF Init, Feed!Init, FeedState, Subs
<1>2. TypeOK /\ FeedInv /\ [Next]_vars =>
        [\A q \in Subs : Feed(q)!Next \/ UNCHANGED <<FeedState(q), queue[q]>>]_vars
  BY FeedsStep DEF FeedStep
<1> QED BY <1>1, <1>2, TypeCorrect, FeedInvInit, FeedInvStep, PTL DEF Spec, FeedsKept

-----------------------------------------------------------------------------
(* The two directions of the link.  The worker counts the ModifyQuerySets   *)
(* it has sent and remembers where the last Transition ended; the backend   *)
(* does the same on its side.  The first inductive invariant below says how *)
(* the two counts differ by what is on the wire, and what a disconnect must *)
(* have reset before the worker dials again.  The second says what the      *)
(* backend holds for the client: no Add is lost and no query outlives its   *)
(* Remove.                                                                  *)

(* What is left of a queue of messages when its first one has been read. *)
LEMMA TailElements ==
  ASSUME NEW S, NEW s \in Seq(S), s # <<>>
  PROVE  /\ Len(s) \in Nat /\ Len(s) >= 1
         /\ Len(Tail(s)) = Len(s) - 1
         /\ \A k \in 1 .. Len(s) - 1 : Tail(s)[k] = s[k + 1]
<1>1. Len(s) \in Nat /\ Len(s) # 0
  OBVIOUS
<1>2. Len(Tail(s)) = Len(s) - 1
  BY <1>1
<1>3. \A k \in 1 .. Len(s) - 1 : Tail(s)[k] = s[k + 1]
  BY <1>1
<1> QED BY <1>1, <1>2, <1>3

(* A link exists exactly while the worker holds a socket; without one both  *)
(* versions are back at the start, in particular when it dials; it receives *)
(* from a socket; and while it writes the first ModifyQuerySet nothing else *)
(* has been written.                                                       *)
Attached ==
  /\ socket <=> link # "none"
  /\ ~socket /\ pc # "done" => query_set_version = 0 /\ remote = InitialVersion
  /\ pc = "dial" => ~socket
  /\ pc = "receive" => socket
  /\ pc = "modify" => query_set_version = 0 /\ remote = InitialVersion /\ c2s = <<>>

(* The bases on the wire count up from the backend's version to the worker's. *)
BasesCountUp ==
  link = "up" =>
    /\ \A k \in 1 .. Len(c2s) : c2s[k].base = server_version.querySet + k - 1
    /\ query_set_version = server_version.querySet + Len(c2s)

(* The backend goes on where its last unread message ends. *)
ServerGoesOn ==
  link = "up" =>
    server_version = IF s2c = <<>> THEN remote ELSE s2c[Len(s2c)].end

VersionInv == Attached /\ BasesCountUp /\ VersionsContinue /\ ServerGoesOn

connection == <<socket, link, c2s, s2c, query_set_version, remote, server_version>>

(* Both ends start at the initial version, with no link. *)
LEMMA VersionInit == Init => VersionInv
BY DEF Init, VersionInv, Attached, BasesCountUp, VersionsContinue, ServerGoesOn

(* A step that leaves the connection alone keeps the invariant, provided it *)
(* does not start to dial with a socket, to receive without one, or to     *)
(* write the first message.                                                *)
LEMMA ConnectionUntouched ==
  ASSUME VersionInv, UNCHANGED connection,
         \/ pc' = pc \/ pc' \notin {"dial", "modify", "receive"}
         \/ pc' = "dial" /\ ~socket
         \/ pc' = "receive" /\ socket,
         pc # "done" \/ pc' = "done"
  PROVE  VersionInv'
BY DEF VersionInv, Attached, BasesCountUp, VersionsContinue, ServerGoesOn, connection

(* Dropping the link resets both sides. *)
LEMMA LinkDropped ==
  ASSUME DropLink, ~socket', pc' \notin {"dial", "modify", "receive"},
         pc' = "done" \/ (query_set_version' = 0 /\ remote' = InitialVersion)
  PROVE  VersionInv'
BY DEF DropLink, VersionInv, Attached, BasesCountUp, VersionsContinue, ServerGoesOn

(* One more ModifyQuerySet with the worker's version as its base. *)
LEMMA ModifySent ==
  ASSUME TypeOK, VersionInv, NEW adds, NEW removes,
         SendOkay(Modify(query_set_version, adds, removes)),
         query_set_version' = query_set_version + 1,
         UNCHANGED <<socket, link, s2c, remote, server_version>>,
         pc' \notin {"dial", "modify", "done"}
  PROVE  VersionInv'
<1> USE DEF VersionInv
<1>1. Attached' BY DEF Attached, SendOkay
<1>2. VersionsContinue' /\ ServerGoesOn' BY DEF VersionsContinue, ServerGoesOn
<1>3. BasesCountUp'
  <2> SUFFICES ASSUME link = "up" PROVE BasesCountUp'
    BY DEF BasesCountUp
  <2> DEFINE m == Modify(query_set_version, adds, removes)
  <2>1. c2s' = Append(c2s, m) /\ m.base = query_set_version
    BY DEF SendOkay, Modify
  <2>2. c2s \in Seq(Modification) /\ server_version.querySet \in Nat
    BY DEF TypeOK, WireType, ServerType, Version
  <2> HIDE DEF m
  <2> QED BY <2>1, <2>2 DEF BasesCountUp
<1> QED BY <1>1, <1>2, <1>3

(* Every step keeps VersionInv. *)
LEMMA VersionStep == TypeOK /\ VersionInv /\ [Next]_vars => VersionInv'
<1> SUFFICES ASSUME TypeOK, VersionInv, [Next]_vars PROVE VersionInv'
  OBVIOUS
<1> USE DEF versions, connecting, wire, server, manager, worker, backend
<1>1. ASSUME UNCHANGED <<connection, pc>> PROVE VersionInv'
  BY <1>1, ConnectionUntouched
<1>2. CASE Application \/ (\E q \in Subs : Write(q)) \/ UNCHANGED vars
  <2>1. CASE Application
    BY <2>1, <1>1 DEF Application, EnsureLive, Subscribe, Unsubscribe,
      UnsubscribeWait, SubscriptionNext, DebugDisconnect, DebugWait, Close,
      CloseWait, CloseTimeout, connection
  <2>2. CASE \E q \in Subs : Write(q)
    BY <2>2, <1>1 DEF Write, connection
  <2>3. CASE UNCHANGED vars
    BY <2>3, <1>1 DEF vars, connection
  <2> QED BY <1>2, <2>1, <2>2, <2>3
<1>3. CASE BeginExit \/ PickMessage \/ ReceiveNothing \/ ReceiveFragment \/ DialFailed
  BY <1>3, ConnectionUntouched DEF VersionInv, Attached, BeginExit, PickMessage,
    ReceiveNothing, ReceiveFragment, DialFailed, connection
<1>4. CASE Idle
  BY <1>4, ConnectionUntouched DEF Idle, connection
<1>5. CASE HandleDebug \/ AddFailed \/ RemoveFailed \/ ReceiveProtocolError
             \/ ReceiveTransportError
  <2>1. DisconnectSocket /\ pc' \notin {"dial", "modify", "receive"}
    BY <1>5 DEF HandleDebug, AddFailed, NextMessage, RemoveFailed,
      ReceiveProtocolError, ReceiveTransportError
  <2> QED BY <2>1, LinkDropped DEF DisconnectSocket
<1>6. CASE SnapshotFailed
  BY <1>6, LinkDropped DEF SnapshotFailed, VersionInv, Attached
<1>7. CASE Exit
  BY <1>7, LinkDropped DEF Exit
<1>8. CASE AddSent
  <2>1. pc' \in {"receive", "remove"}
    BY <1>8 DEF AddSent, NextMessage
  <2> QED BY <1>8, <2>1, ModifySent DEF AddSent
<1>9. CASE RemoveSent
  BY <1>9, ModifySent DEF RemoveSent
<1>10. CASE SnapshotSent
  <2>1. query_set_version' = query_set_version + 1
    BY <1>10 DEF SnapshotSent, VersionInv, Attached
  <2> QED BY <1>10, <2>1, ModifySent DEF SnapshotSent
<1>11. CASE Connected
  BY <1>11 DEF Connected, VersionInv, Attached, BasesCountUp, VersionsContinue,
    ServerGoesOn, InitialVersion
<1>12. CASE ReceiveTransition
  <2> DEFINE m == Head(s2c)
  <2>1. /\ s2c \in Seq(Message) /\ s2c # <<>> /\ s2c' = Tail(s2c)
        /\ remote' = m.end /\ pc' = "top"
        /\ UNCHANGED <<socket, link, c2s, query_set_version, server_version>>
    BY <1>12 DEF ReceiveTransition, Readable, HandleTransition, TypeOK, WireType
  <2>2. Attached'
    BY <1>12, <2>1 DEF VersionInv, Attached, ReceiveTransition
  <2>3. BasesCountUp'
    BY <2>1 DEF VersionInv, BasesCountUp
  <2>4. ServerGoesOn'
    <3>1. CASE Len(s2c) = 1
      <4>1. s2c' = <<>> /\ s2c[Len(s2c)] = m
        BY <2>1, <3>1
      <4> QED BY <2>1, <4>1 DEF VersionInv, ServerGoesOn
    <3>2. CASE Len(s2c) # 1
      <4>0. /\ Len(s2c) \in Nat /\ Len(s2c) >= 1 /\ Len(s2c') = Len(s2c) - 1
            /\ \A k \in 1 .. Len(s2c) - 1 : s2c'[k] = s2c[k + 1]
        BY <2>1, TailElements
      <4>1. Len(s2c) > 1
        BY ONLY <3>2, <4>0
      <4>2. s2c'[Len(s2c')] = s2c[Len(s2c)]
        BY ONLY <4>0, <4>1
      <4>3. s2c' # <<>>
        BY ONLY <4>0, <4>1
      <4> QED BY <2>1, <4>2, <4>3 DEF VersionInv, ServerGoesOn
    <3> QED BY <3>1, <3>2
  <2>5. VersionsContinue'
    <3> SUFFICES ASSUME NEW k \in 1 .. Len(s2c'), s2c'[k].type = "Transition"
                 PROVE  s2c'[k].start = IF k = 1 THEN remote' ELSE s2c'[k - 1].end
      BY DEF VersionsContinue
    <3>1. k + 1 \in 1 .. Len(s2c) /\ s2c'[k] = s2c[k + 1]
      BY <2>1
    <3>2. s2c'[k].start = s2c[k].end
      BY <3>1 DEF VersionInv, VersionsContinue
    <3>3. CASE k = 1
      BY <2>1, <3>2, <3>3
    <3>4. CASE k # 1
      BY <2>1, <3>2, <3>4
    <3> QED BY <3>3, <3>4
  <2> QED BY <2>2, <2>3, <2>4, <2>5 DEF VersionInv
<1>13. CASE ServerModify
  <2> DEFINE m == Head(c2s)
             new == [querySet |-> server_version.querySet + 1, ts |-> now]
  <2>1. /\ c2s \in Seq(Modification) /\ s2c \in Seq(Message)
        /\ server_version \in Version
    BY DEF TypeOK, WireType, ServerType
  <2>2. /\ link = "up" /\ c2s # <<>> /\ c2s' = Tail(c2s)
        /\ UNCHANGED <<socket, query_set_version, remote, pc>>
    BY <1>13 DEF ServerModify
  <2>3. m.base = server_version.querySet
    BY <2>1, <2>2 DEF VersionInv, BasesCountUp, Version
  <2>4. PICK mods : s2c' = Append(s2c, Transition(server_version, new, mods))
    BY <1>13, <2>3 DEF ServerModify
  <2>5. link' = link /\ server_version' = new
    BY <1>13, <2>3 DEF ServerModify
  <2>6. Attached'
    BY <2>2, <2>5 DEF VersionInv, Attached
  <2>7. BasesCountUp'
    BY <2>1, <2>2, <2>5 DEF VersionInv, BasesCountUp, Version
  <2>8. VersionsContinue' /\ ServerGoesOn'
    BY <2>1, <2>2, <2>4, <2>5 DEF VersionInv, VersionsContinue, ServerGoesOn, Transition
  <2> QED BY <2>6, <2>7, <2>8 DEF VersionInv
<1>14. CASE ServerPush
  <2> DEFINE new == [server_version EXCEPT !.ts = now]
  <2>1. s2c \in Seq(Message) /\ server_version \in Version
    BY DEF TypeOK, WireType, ServerType
  <2>2. /\ link = "up"
        /\ UNCHANGED <<socket, link, query_set_version, remote, pc, c2s>>
        /\ server_version' = new
    BY <1>14 DEF ServerPush
  <2>3. PICK mods : s2c' = Append(s2c, Transition(server_version, new, mods))
    BY <1>14 DEF ServerPush
  <2>4. Attached'
    BY <2>2 DEF VersionInv, Attached
  <2>5. BasesCountUp'
    BY <2>1, <2>2 DEF VersionInv, BasesCountUp, Version
  <2>6. VersionsContinue' /\ ServerGoesOn'
    BY <2>1, <2>2, <2>3 DEF VersionInv, VersionsContinue, ServerGoesOn, Transition
  <2> QED BY <2>4, <2>5, <2>6 DEF VersionInv
<1>15. CASE Break
  <2>1. /\ s2c \in Seq(Message) /\ link' = "broken" /\ link = "up" /\ c2s' = <<>>
        /\ s2c' \in {s2c, Append(s2c, FatalError)}
        /\ UNCHANGED <<socket, query_set_version, remote, pc>>
    BY <1>15 DEF Break, TypeOK, WireType
  <2>2. Attached' /\ BasesCountUp' /\ ServerGoesOn'
    BY <2>1 DEF VersionInv, Attached, BasesCountUp, ServerGoesOn
  <2>3. VersionsContinue'
    <3>1. CASE s2c' = s2c
      BY <2>1, <3>1 DEF VersionInv, VersionsContinue
    <3>2. CASE s2c' = Append(s2c, FatalError)
      <4>1. FatalError.type # "Transition"
        BY DEF FatalError
      <4> QED BY <2>1, <3>2, <4>1 DEF VersionInv, VersionsContinue
    <3> QED BY <2>1, <3>1, <3>2
  <2> QED BY <2>2, <2>3 DEF VersionInv
<1> QED BY <1>2, <1>3, <1>4, <1>5, <1>6, <1>7, <1>8, <1>9, <1>10, <1>11, <1>12,
  <1>13, <1>14, <1>15 DEF Next, Worker, Environment

(* The ModifyQuerySet the backend reads next always has the base it is at,  *)
(* for any number of subscriptions, faults and reconnects.                 *)
THEOREM BaseVersions == Spec => []BaseVersionAgrees
<1>1. TypeOK /\ VersionInv => BaseVersionAgrees
  <2> SUFFICES ASSUME TypeOK, VersionInv, link = "up", c2s # <<>>
               PROVE  Head(c2s).base = server_version.querySet
    BY DEF BaseVersionAgrees
  <2>1. c2s \in Seq(Modification) /\ server_version.querySet \in Nat
    BY DEF TypeOK, WireType, ServerType, Version
  <2> QED BY <2>1 DEF VersionInv, BasesCountUp
<1> QED BY <1>1, TypeCorrect, VersionInit, VersionStep, PTL DEF Spec

(* With a compliant backend no Transition ever fails the start version test *)
(* of handle_transition.                                                   *)
THEOREM TransitionsContinue == Spec => []VersionsContinue
<1>1. VersionInv => VersionsContinue
  BY DEF VersionInv
<1> QED BY <1>1, TypeCorrect, VersionInit, VersionStep, PTL DEF Spec
-----------------------------------------------------------------------------
(* What the backend holds for the client.                                  *)

(* While the Adds of a new connection are being written, the snapshot names *)
(* every live subscription whose add_pending the worker is going to clear. *)
SnapshotCovers ==
  pc = "modify" =>
    /\ link = "up" => server_queries = {}
    /\ snapshot_sequence <= next_query_id
    /\ \A q \in Subs : Live(q) /\ (Covered(q) \/ ~add_pending[q]) => q \in snapshot
    /\ \A q \in snapshot : ~remove_done[q]

(* The worker never writes an Add after the Remove of the same query. *)
AddedIsThere == pc = "add" => ~remove_done[current]
RemovesDone == \A k \in 1 .. Len(c2s) : \A q \in c2s[k].removes : remove_done[q]
NoAddAfterRemove ==
  \A j, k \in 1 .. Len(c2s) :
    j <= k => \A q \in c2s[j].removes : q \notin c2s[k].adds

AddsHeld ==
  link = "up" /\ pc # "modify" =>
    \A q \in Subs : Live(q) /\ ~add_pending[q] => Held(q)

AddsInv == /\ SnapshotCovers /\ AddedIsThere /\ RemovesDone /\ NoAddAfterRemove
           /\ AddsHeld /\ NoLingeringQuery

Context == TypeOK /\ VersionInv /\ FeedInv

(* A client with no link and no subscription holds nothing. *)
LEMMA AddsInit == Init => AddsInv
BY DEF Init, AddsInv, SnapshotCovers, AddedIsThere, RemovesDone, NoAddAfterRemove,
  AddsHeld, NoLingeringQuery, Dropped

(* Without a link there is nothing to hold. *)
LEMMA LinkGone ==
  ASSUME DropLink, pc' \notin {"add", "modify"}
  PROVE  AddsInv'
BY DEF DropLink, AddsInv, SnapshotCovers, AddedIsThere, RemovesDone,
  NoAddAfterRemove, AddsHeld, NoLingeringQuery

(* Writing one more message. *)
LEMMA MessageWritten ==
  ASSUME TypeOK, RemovesDone, NoAddAfterRemove,
         NEW adds \in SUBSET Subs, NEW removes \in SUBSET Subs,
         SendOkay(Modify(query_set_version, adds, removes)),
         \A q \in Subs : remove_done[q] => remove_done'[q],
         \A q \in removes : remove_done'[q],
         \A q \in adds : ~remove_done[q] /\ q \notin removes,
         UNCHANGED <<link, server_queries>>
  PROVE  /\ RemovesDone' /\ NoAddAfterRemove'
         /\ link = "up" => \A q \in Subs : /\ Held(q)' <=> Held(q) \/ q \in adds
                                           /\ Dropped(q)' <=> Dropped(q) \/ q \in removes
<1>0. c2s \in Seq(Modification)
  BY DEF TypeOK, WireType
<1>r. \A k \in 1 .. Len(c2s) : c2s[k].removes \subseteq Subs
  <2>1. \A k \in 1 .. Len(c2s) : c2s[k] \in Modification
    BY <1>0
  <2> QED BY <2>1 DEF Modification
<1>1. CASE link = "up"
  <2> DEFINE m == Modify(query_set_version, adds, removes)
  <2>1. c2s' = Append(c2s, m)
    BY <1>1 DEF SendOkay
  <2>2. m.adds = adds /\ m.removes = removes
    BY DEF Modify
  <2> HIDE DEF m
  <2>3. /\ Len(c2s) \in Nat /\ Len(c2s') = Len(c2s) + 1
        /\ \A k \in 1 .. Len(c2s) : c2s'[k] = c2s[k]
        /\ c2s'[Len(c2s) + 1] = m
    BY <1>0, <2>1
  <2>4. RemovesDone'
    BY <1>r, <2>2, <2>3 DEF RemovesDone
  <2>5. NoAddAfterRemove'
    BY <1>r, <2>2, <2>3 DEF RemovesDone, NoAddAfterRemove
  <2>6. ASSUME NEW q \in Subs PROVE Held(q)' <=> Held(q) \/ q \in adds
    BY <2>2, <2>3 DEF Held
  <2>7. ASSUME NEW q \in Subs PROVE Dropped(q)' <=> Dropped(q) \/ q \in removes
    BY <2>2, <2>3 DEF Dropped
  <2> QED BY <2>4, <2>5, <2>6, <2>7
<1>2. CASE link # "up"
  <2>1. c2s' = c2s
    BY <1>2 DEF SendOkay
  <2> QED BY <1>2, <1>r, <2>1 DEF RemovesDone, NoAddAfterRemove
<1> QED BY <1>1, <1>2

(* The flags the invariant is about, apart from pc and the wire. *)
flags == <<active, remove_pending, remove_done, add_pending, next_query_id>>
held == <<link, c2s, server_queries>>

(* Every step keeps AddsInv; what it needs to know of the versions and of   *)
(* the subscriptions' life is in Context.                                   *)
LEMMA AddsStep == Context /\ AddsInv /\ [Next]_vars => AddsInv'
<1> SUFFICES ASSUME Context, AddsInv, [Next]_vars PROVE AddsInv'
  OBVIOUS
<1> USE DEF Context, removal, subscriptions, connecting, manager, worker, locals, wire,
     server, backend
<1>1. ASSUME UNCHANGED <<flags, held, snapshot, snapshot_sequence, pc, current>>
      PROVE  AddsInv'
  BY <1>1 DEF flags, held, AddsInv, SnapshotCovers, AddedIsThere, RemovesDone,
    NoAddAfterRemove, AddsHeld, NoLingeringQuery, Live, Covered, Held, Dropped
<1>2. CASE EnsureLive \/ Close \/ CloseWait \/ CloseTimeout \/ UNCHANGED vars
  BY <1>1, <1>2 DEF flags, held, EnsureLive, Close, CloseWait, CloseTimeout, vars
<1>3. CASE \/ \E q \in Subs : UnsubscribeWait(q) \/ SubscriptionNext(q) \/ Write(q)
           \/ \E d \in Debuggers : DebugDisconnect(d) \/ DebugWait(d)
  BY <1>1, <1>3 DEF flags, held, UnsubscribeWait, SubscriptionNext, Write,
    DebugDisconnect, DebugWait
<1>4. CASE BeginExit \/ PickMessage \/ DialFailed \/ ReceiveNothing
             \/ ReceiveFragment \/ ReceiveTransition
  <2>1. UNCHANGED <<flags, held>> /\ pc # "modify" /\ pc' # "modify"
    BY <1>4 DEF flags, held, BeginExit, PickMessage, DialFailed, ReceiveNothing,
      ReceiveFragment, ReceiveTransition
  <2>2. AddedIsThere'
    <3>1. pc' = "add" => active[current'] /\ current' \in Subs
      BY <1>4 DEF BeginExit, PickMessage, DialFailed, ReceiveNothing,
        ReceiveFragment, ReceiveTransition, Newest, PendingAdds, Live
    <3> QED BY <2>1, <3>1 DEF flags, AddedIsThere, FeedInv
  <2> QED BY <2>1, <2>2 DEF flags, held, AddsInv, SnapshotCovers, RemovesDone,
    NoAddAfterRemove, AddsHeld, NoLingeringQuery, Live, Held, Dropped
<1>5. CASE HandleDebug \/ AddFailed \/ RemoveFailed \/ ReceiveProtocolError
             \/ ReceiveTransportError \/ SnapshotFailed \/ Exit
  <2>1. DropLink /\ pc' \notin {"add", "modify"}
    BY <1>5 DEF HandleDebug, AddFailed, NextMessage, RemoveFailed,
      ReceiveProtocolError, ReceiveTransportError, SnapshotFailed, Exit,
      DisconnectSocket
  <2> QED BY <2>1, LinkGone
<1>6. CASE Subscribe
  <2> DEFINE new == next_query_id
  <2>1. /\ UNCHANGED <<remove_pending, remove_done, held, snapshot, snapshot_sequence, pc, current>>
        /\ next_query_id' = new + 1
        /\ add_pending' = [add_pending EXCEPT ![new] = TRUE]
        /\ active' = [active EXCEPT ![new] = TRUE]
    BY <1>6 DEF Subscribe, held
  <2>2. add_pending \in [Subs -> BOOLEAN] /\ active \in [Subs -> BOOLEAN]
        /\ new \in 0 .. MaxSubs /\ snapshot_sequence \in 0 .. MaxSubs
    BY DEF TypeOK, RemovalType, ManagerType, WorkerType
  <2>3. \A q \in Subs : Live(q)' /\ ~add_pending'[q] =>
                         q # new /\ Live(q) /\ ~add_pending[q]
    BY <2>1, <2>2 DEF Live
  <2>4. SnapshotCovers'
    <3>1. \A q \in Subs : Live(q)' /\ (Covered(q)' \/ ~add_pending'[q]) /\ pc = "modify" =>
                           Live(q) /\ (Covered(q) \/ ~add_pending[q])
      BY <2>1, <2>2, <2>3 DEF Live, Covered, add_sequence, Subs, AddsInv, SnapshotCovers
    <3> QED BY <2>1, <2>2, <3>1 DEF held, AddsInv, SnapshotCovers
  <2>5. AddsHeld'
    BY <2>1, <2>3 DEF held, AddsInv, AddsHeld, Held
  <2> QED BY <2>1, <2>4, <2>5 DEF held, AddsInv, AddedIsThere, RemovesDone,
    NoAddAfterRemove, NoLingeringQuery, Held, Dropped
<1>7. ASSUME NEW q \in Subs, Unsubscribe(q) PROVE AddsInv'
  <2>1. /\ UNCHANGED <<active, remove_done, add_pending, next_query_id>>
        /\ UNCHANGED <<held, snapshot, snapshot_sequence, pc, current>>
    BY <1>7 DEF Unsubscribe, held
  <2>2. \A p \in Subs : Live(p)' => Live(p)
    BY <1>7, <2>1 DEF Unsubscribe, Live, TypeOK, RemovalType
  <2> QED BY <2>1, <2>2 DEF held, AddsInv, SnapshotCovers, Covered, AddedIsThere,
    RemovesDone, NoAddAfterRemove, AddsHeld, NoLingeringQuery, Held, Dropped
<1>8. CASE Idle
  <2>1. link # "up" /\ link' # "up" /\ pc' \in {"top", "dial"} /\ c2s' = c2s
    BY <1>8 DEF Idle, VersionInv, Attached
  <2>2. \A q \in Subs : remove_done[q] => remove_done'[q]
    BY <1>8 DEF Idle, CompleteRemoves
  <2>3. \A k \in 1 .. Len(c2s) : c2s[k].removes \subseteq Subs
    <3>1. \A k \in 1 .. Len(c2s) : c2s[k] \in Modification
      BY DEF TypeOK, WireType
    <3> QED BY <3>1 DEF Modification
  <2> QED BY <2>1, <2>2, <2>3 DEF AddsInv, SnapshotCovers, AddedIsThere, RemovesDone,
    NoAddAfterRemove, AddsHeld, NoLingeringQuery
<1>9. CASE AddSent
  <2>1. /\ current \in Subs /\ ~remove_done[current]
        /\ SendOkay(Modify(query_set_version, {current}, {}))
        /\ UNCHANGED <<removal, link, server_queries>>
        /\ add_pending' = [add_pending EXCEPT ![current] = FALSE]
        /\ pc' \in {"receive", "remove"} /\ pc = "add"
    BY <1>9 DEF AddSent, NextMessage, AddsInv, AddedIsThere, TypeOK, WorkerType
  <2>2. /\ RemovesDone' /\ NoAddAfterRemove'
        /\ link = "up" => \A q \in Subs : /\ Held(q)' <=> Held(q) \/ q = current
                                          /\ Dropped(q)' <=> Dropped(q)
    BY <2>1, MessageWritten DEF AddsInv
  <2>3. \A q \in Subs : Live(q)' /\ ~add_pending'[q] =>
                         Live(q) /\ (~add_pending[q] \/ q = current)
    BY <2>1 DEF Live, TypeOK, RemovalType
  <2>4. AddsHeld'
    BY <2>1, <2>2, <2>3 DEF AddsInv, AddsHeld
  <2>5. NoLingeringQuery'
    BY <2>1, <2>2 DEF AddsInv, NoLingeringQuery
  <2> QED BY <2>1, <2>2, <2>4, <2>5 DEF AddsInv, SnapshotCovers, AddedIsThere
<1>10. CASE RemoveSent
  <2>1. /\ current \in Subs
        /\ SendOkay(Modify(query_set_version, {}, {current}))
        /\ UNCHANGED <<remove_pending, add_pending, link, server_queries>>
        /\ remove_done' = [remove_done EXCEPT ![current] = TRUE]
        /\ active' = [active EXCEPT ![current] = FALSE]
        /\ pc' = "receive" /\ pc = "remove"
    BY <1>10 DEF RemoveSent, TypeOK, WorkerType
  <2>2. \A q \in Subs : remove_done'[q] <=> remove_done[q] \/ q = current
    BY <2>1 DEF TypeOK, RemovalType
  <2>3. /\ RemovesDone' /\ NoAddAfterRemove'
        /\ link = "up" => \A q \in Subs : /\ Held(q)' <=> Held(q)
                                          /\ Dropped(q)' <=> Dropped(q) \/ q = current
    BY <2>1, <2>2, MessageWritten DEF AddsInv
  <2>4. \A q \in Subs : Live(q)' => Live(q)
    BY <2>1 DEF Live, TypeOK, RemovalType
  <2>5. AddsHeld'
    BY <2>1, <2>3, <2>4 DEF AddsInv, AddsHeld
  <2>6. NoLingeringQuery'
    BY <2>1, <2>2, <2>3 DEF AddsInv, NoLingeringQuery
  <2> QED BY <2>1, <2>3, <2>5, <2>6 DEF AddsInv, SnapshotCovers, AddedIsThere
<1>11. CASE Connected
  <2>1. /\ UNCHANGED flags /\ c2s' = <<>> /\ server_queries' = {}
        /\ pc' \in {"modify", "top"}
    BY <1>11 DEF Connected, flags
  <2>2. CASE active_count
    <3>1. /\ pc' = "modify" /\ snapshot_sequence' = next_query_id
          /\ snapshot' = {q \in Subs : Live(q)}
      BY <1>11, <2>2 DEF Connected
    <3>2. \A q \in Subs : Live(q) => ~remove_done[q]
      BY DEF Live, FeedInv
    <3>3. SnapshotCovers'
      BY <2>1, <3>1, <3>2 DEF flags, SnapshotCovers, Live, TypeOK, ManagerType
    <3> QED BY <2>1, <3>1, <3>3 DEF AddsInv, AddedIsThere, RemovesDone,
      NoAddAfterRemove, AddsHeld, NoLingeringQuery, Held
  <2>3. CASE ~active_count
    <3>1. \A q \in Subs : ~Live(q)'
      BY <2>1, <2>3 DEF active_count, Live, flags
    <3>2. pc' = "top"
      BY <1>11, <2>3 DEF Connected
    <3> QED BY <2>1, <3>1, <3>2 DEF AddsInv, SnapshotCovers, AddedIsThere, RemovesDone,
      NoAddAfterRemove, AddsHeld, NoLingeringQuery, Held
  <2> QED BY <2>2, <2>3
<1>12. CASE SnapshotSent
  <2>1. /\ snapshot \in SUBSET Subs /\ \A q \in snapshot : ~remove_done[q]
        /\ SendOkay(Modify(query_set_version, snapshot, {}))
        /\ UNCHANGED <<removal, link, server_queries>>
        /\ add_pending' = [q \in Subs |-> add_pending[q] /\ ~Covered(q)]
        /\ pc' = "top" /\ pc = "modify"
    BY <1>12 DEF SnapshotSent, AddsInv, SnapshotCovers, TypeOK, WorkerType
  <2>2. /\ RemovesDone' /\ NoAddAfterRemove'
        /\ link = "up" => \A q \in Subs : /\ Held(q)' <=> Held(q) \/ q \in snapshot
                                          /\ Dropped(q)' <=> Dropped(q)
    BY <2>1, MessageWritten DEF AddsInv
  <2>3. \A q \in Subs : Live(q)' /\ ~add_pending'[q] => q \in snapshot
    BY <2>1 DEF Live, AddsInv, SnapshotCovers
  <2>4. AddsHeld'
    BY <2>1, <2>2, <2>3 DEF AddsHeld
  <2>5. NoLingeringQuery'
    BY <2>1, <2>2 DEF AddsInv, NoLingeringQuery
  <2> QED BY <2>1, <2>2, <2>4, <2>5 DEF AddsInv, SnapshotCovers, AddedIsThere
<1>13. CASE ServerModify
  <2> DEFINE m == Head(c2s)
  <2>1. /\ c2s \in Seq(Modification) /\ c2s # <<>> /\ c2s' = Tail(c2s)
        /\ link = "up" /\ UNCHANGED <<flags, snapshot, snapshot_sequence, pc, current>>
    BY <1>13 DEF ServerModify, flags, TypeOK, WireType
  <2>2. pc # "modify"
    BY <2>1 DEF VersionInv, Attached
  <2>3. /\ Len(c2s) \in Nat /\ Len(c2s) >= 1 /\ Len(c2s') = Len(c2s) - 1
        /\ \A k \in 1 .. Len(c2s) - 1 : c2s'[k] = c2s[k + 1]
        /\ m = c2s[1]
    BY <2>1, TailElements
  <2> HIDE DEF m
  <2>4. RemovesDone'
    BY <2>1, <2>3 DEF flags, AddsInv, RemovesDone
  <2>5. NoAddAfterRemove'
    BY <2>3 DEF AddsInv, NoAddAfterRemove
  <2>6. CASE link' # "up"
    BY <2>1, <2>2, <2>4, <2>5, <2>6 DEF flags, AddsInv, SnapshotCovers, AddedIsThere,
      AddsHeld, NoLingeringQuery
  <2>7. CASE link' = "up"
    <3>1. server_queries' = (server_queries \cup m.adds) \ m.removes
      BY <1>13, <2>7 DEF ServerModify, m
    <3>2. ASSUME NEW q \in Subs, Dropped(q), q \notin m.removes PROVE Dropped(q)'
      <4>1. PICK k \in 1 .. Len(c2s) : q \in c2s[k].removes
        BY <3>2 DEF Dropped
      <4>2. k # 1
        BY <2>3, <3>2, <4>1
      <4>3. k - 1 \in 1 .. Len(c2s') /\ c2s'[k - 1] = c2s[k]
        BY <2>3, <4>2
      <4> QED BY <4>1, <4>3 DEF Dropped
    <3>3. ASSUME NEW q \in Subs, Held(q), q \notin m.removes PROVE Held(q)'
      <4>1. CASE q \in server_queries
        BY <3>1, <3>3, <4>1 DEF Held
      <4>2. CASE q \notin server_queries
        <5>1. PICK k \in 1 .. Len(c2s) : q \in c2s[k].adds
          BY <3>3, <4>2 DEF Held
        <5>2. CASE k = 1
          BY <2>3, <3>1, <3>3, <5>1, <5>2 DEF Held
        <5>3. CASE k # 1
          <6>1. k - 1 \in 1 .. Len(c2s') /\ c2s'[k - 1] = c2s[k]
            BY <2>3, <5>3
          <6> QED BY <5>1, <6>1 DEF Held
        <5> QED BY <5>2, <5>3
      <4> QED BY <4>1, <4>2
    <3>4. ASSUME NEW q \in Subs, Held(q)' PROVE Held(q) /\ q \notin m.removes
      <4>1. Held(q)
        BY <2>3, <3>1, <3>4 DEF Held
      <4>2. ASSUME q \in m.removes PROVE FALSE
        <5>1. q \notin server_queries'
          BY <3>1, <4>2
        <5>2. PICK k \in 1 .. Len(c2s) - 1 : q \in c2s[k + 1].adds
          BY <2>3, <3>4, <5>1 DEF Held
        <5> QED BY <2>3, <4>2, <5>2 DEF AddsInv, NoAddAfterRemove
      <4> QED BY <4>1, <4>2
    <3>5. \A q \in Subs : Live(q) => q \notin m.removes
      BY <2>3 DEF AddsInv, RemovesDone, FeedInv, Live
    <3>6. AddsHeld'
      BY <2>1, <2>2, <3>3, <3>5 DEF flags, AddsInv, AddsHeld, Live
    <3>7. NoLingeringQuery'
      BY <2>1, <3>2, <3>4 DEF flags, AddsInv, NoLingeringQuery
    <3> QED BY <2>1, <2>2, <2>4, <2>5, <3>6, <3>7
          DEF flags, AddsInv, SnapshotCovers, AddedIsThere
  <2> QED BY <2>6, <2>7
<1>14. CASE ServerPush
  BY <1>1, <1>14 DEF ServerPush, flags, held
<1>15. CASE Break
  BY <1>15 DEF Break, AddsInv, SnapshotCovers, AddedIsThere, RemovesDone,
    NoAddAfterRemove, AddsHeld, NoLingeringQuery, Live, Covered
<1> QED BY <1>2, <1>3, <1>4, <1>5, <1>6, <1>7, <1>8, <1>9, <1>10, <1>11, <1>12,
  <1>13, <1>14, <1>15 DEF Next, Worker, Application, Environment

(* The three invariants together are inductive. *)
LEMMA AddsInvariant == Spec => [](Context /\ AddsInv)
BY TypeCorrect, VersionInit, VersionStep, FeedInvInit, FeedInvStep, AddsInit, AddsStep, PTL
  DEF Spec, Context

(* No subscription is ever left behind: whatever subscribes, unsubscribes,  *)
(* failures and reconnects interleave with the writing of the snapshot, a  *)
(* live subscription that no longer waits for its Add is held by the       *)
(* backend or its Add is on the wire, and no Remove of it follows.         *)
THEOREM AddsAreNotLost == Spec => []NoLostAdd
<1>1. Context /\ AddsInv => NoLostAdd
  <2> SUFFICES ASSUME Context, AddsInv, link = "up", pc # "modify",
                      NEW q \in Subs, Live(q), ~add_pending[q]
               PROVE  Held(q) /\ ~Dropped(q)
    BY DEF NoLostAdd
  <2> QED BY DEF Context, AddsInv, AddsHeld, RemovesDone, FeedInv, Dropped, Live
<1> QED BY <1>1, AddsInvariant, PTL

(* No query outlives its Remove on the backend, for any number of them.     *)
THEOREM QueriesDoNotLinger == Spec => []NoLingeringQuery
<1>1. Context /\ AddsInv => NoLingeringQuery
  BY DEF AddsInv
<1> QED BY <1>1, AddsInvariant, PTL
-----------------------------------------------------------------------------
(* Forced disconnects.                                                     *)

(* The worker answers no generation that has not been asked for, and once a *)
(* call of convex_debug_disconnect is answered its connection is gone: the *)
(* worker has no socket, or has dialled since.                             *)
Gone(d) == dials > debug_conn[d] \/ ~socket
DebugInv ==
  /\ debug_completed <= debug_generation
  /\ \A d \in Debuggers :
       /\ debug_conn[d] <= dials
       /\ debugger[d] # "idle" /\ Acknowledged(d) => Gone(d)

(* Nobody has asked.                                                        *)
LEMMA DebugInit == Init => DebugInv
BY BoundsAssumption DEF BoundsAssumption, Init, DebugInv

(* Every step keeps DebugInv.                                               *)
LEMMA DebugStep == TypeOK /\ DebugInv /\ [Next]_vars => DebugInv'
<1> SUFFICES ASSUME TypeOK, DebugInv, [Next]_vars PROVE DebugInv'
  OBVIOUS
<1> USE DEF debugging, counts, connecting, waiters, debugCalls, manager, threads
<1>0. /\ debug_generation \in Nat /\ debug_completed \in Nat /\ dials \in Nat
      /\ debug_wait \in [Debuggers -> Nat] /\ debug_conn \in [Debuggers -> Nat]
      /\ DOMAIN debugger = Debuggers
  BY BoundsAssumption DEF BoundsAssumption, TypeOK, DebugType, ManagerType, ThreadType
<1>1. ASSUME UNCHANGED <<debug_completed, debug_generation, debug_conn, debug_wait, dials>>,
             socket' => socket,
             \A d \in Debuggers : debugger'[d] # "idle" => debugger[d] # "idle"
      PROVE  DebugInv'
  BY <1>1 DEF DebugInv, Acknowledged, Gone
<1>2. \A d \in Debuggers : Awakened(debugger)[d] # "idle" => debugger[d] # "idle"
  BY <1>0 DEF Awakened
<1>3. CASE \/ EnsureLive \/ Subscribe \/ Close \/ CloseWait \/ CloseTimeout \/ UNCHANGED vars
           \/ \E q \in Subs : \/ Unsubscribe(q) \/ UnsubscribeWait(q) \/ SubscriptionNext(q)
                             \/ Write(q)
           \/ ServerModify \/ ServerPush \/ Break
  BY <1>1, <1>2, <1>3 DEF EnsureLive, Subscribe, Close, CloseWait, CloseTimeout, vars,
    Unsubscribe, UnsubscribeWait, SubscriptionNext, Write, ServerModify, ServerPush, Break,
    WakeChanged
<1>4. CASE \/ BeginExit \/ Idle \/ PickMessage \/ AddSent \/ AddFailed \/ RemoveSent
           \/ RemoveFailed \/ SnapshotSent \/ SnapshotFailed \/ ReceiveNothing
           \/ ReceiveFragment \/ ReceiveTransition \/ ReceiveProtocolError
           \/ ReceiveTransportError \/ Exit
  BY <1>1, <1>2, <1>4 DEF BeginExit, Idle, PickMessage, AddSent, AddFailed, RemoveSent,
    RemoveFailed, SnapshotSent, SnapshotFailed, ReceiveNothing, ReceiveFragment,
    ReceiveTransition, ReceiveProtocolError, ReceiveTransportError, Exit, WakeChanged,
    DisconnectSocket
<1>5. CASE HandleDebug
  <2>1. /\ UNCHANGED <<debug_generation, debug_conn, dials>> /\ ~socket'
        /\ debug_completed' = debug_generation
    BY <1>5 DEF HandleDebug, AnsweredGeneration, DisconnectSocket
  <2> QED BY <1>0, <2>1 DEF DebugInv, Gone
<1>6. CASE Connected \/ DialFailed
  <2>1. /\ UNCHANGED <<debug_generation, debug_completed, debug_conn>> /\ dials' = dials + 1
    BY <1>6 DEF Connected, DialFailed
  <2> QED BY <1>0, <2>1 DEF DebugInv, Gone
<1>7. ASSUME NEW d \in Debuggers, DebugDisconnect(d) PROVE DebugInv'
  <2>1. /\ debug_generation' = debug_generation + 1
        /\ debug_wait' = [debug_wait EXCEPT ![d] = debug_generation + 1]
        /\ debug_conn' = [debug_conn EXCEPT ![d] = dials]
        /\ debugger' = [Awakened(debugger) EXCEPT ![d] = "awake"]
        /\ UNCHANGED <<debug_completed, dials, socket>>
    BY <1>7 DEF DebugDisconnect
  <2>2. \A e \in Debuggers : e # d /\ debugger'[e] # "idle" => debugger[e] # "idle"
    BY <1>2, <2>1
  <2>3. /\ ~Acknowledged(d)'
        /\ \A e \in Debuggers : e # d => Acknowledged(e)' = Acknowledged(e) /\ Gone(e)' = Gone(e)
    BY <1>0, <2>1 DEF DebugInv, Acknowledged, Gone
  <2>4. \A e \in Debuggers : debug_conn'[e] <= dials'
    BY <1>0, <2>1 DEF DebugInv
  <2> QED BY <1>0, <2>1, <2>2, <2>3, <2>4 DEF DebugInv
<1>8. ASSUME NEW d \in Debuggers, DebugWait(d) PROVE DebugInv'
  <2>1. /\ UNCHANGED <<debug_completed, debug_generation, dials, socket>> /\ debugger[d] # "idle"
        /\ \/ /\ debugger' = [debugger EXCEPT ![d] = "idle"]
              /\ debug_wait' = [debug_wait EXCEPT ![d] = 0]
              /\ debug_conn' = [debug_conn EXCEPT ![d] = 0]
           \/ /\ debugger' = [debugger EXCEPT ![d] = "asleep"]
              /\ UNCHANGED <<debug_wait, debug_conn>>
    BY <1>8 DEF DebugWait
  <2> QED BY <1>0, <2>1 DEF DebugInv, Acknowledged, Gone
<1> QED BY <1>3, <1>4, <1>5, <1>6, <1>7, <1>8 DEF Next, Worker, Application, Environment

(* No convex_debug_disconnect reports success before the connection it was  *)
(* called on is gone, also when one disconnect answers several calls.      *)
THEOREM DisconnectsAreReal == Spec => DebugAckDropsConnection
<1>1. TypeOK /\ DebugInv /\ [Next]_vars =>
        [\A d \in Debuggers : debugger[d] = "awake" /\ debugger'[d] = "idle" /\ ~stopped =>
            dials > debug_conn[d] \/ ~socket]_vars
  <2> SUFFICES ASSUME TypeOK, DebugInv, [Next]_vars, NEW d \in Debuggers,
                      debugger[d] = "awake", debugger'[d] = "idle", ~stopped
               PROVE  Gone(d)
    BY DEF Gone
  <2> USE DEF waiters, threads
  <2>0. DOMAIN debugger = Debuggers
    BY DEF TypeOK, ThreadType
  <2>1. Awakened(debugger)[d] = "awake"
    BY <2>0 DEF Awakened
  <2>2. \E e \in Debuggers : DebugDisconnect(e) \/ DebugWait(e)
    BY <2>1 DEF Next, Worker, Application, Environment,
      EnsureLive, Subscribe, Close, CloseWait, CloseTimeout, vars,
      Unsubscribe, UnsubscribeWait, SubscriptionNext, Write, ServerModify, ServerPush, Break,
      WakeChanged, BeginExit, Idle, PickMessage, AddSent, AddFailed, RemoveSent, HandleDebug,
      RemoveFailed, SnapshotSent, SnapshotFailed, ReceiveNothing, Connected, DialFailed,
      ReceiveFragment, ReceiveTransition, ReceiveProtocolError, ReceiveTransportError, Exit
  <2>3. ASSUME NEW e \in Debuggers, DebugDisconnect(e) PROVE FALSE
    <3>1. debugger' = [Awakened(debugger) EXCEPT ![e] = "awake"]
      BY <2>3 DEF DebugDisconnect
    <3> QED BY <2>0, <2>1, <3>1 DEF Awakened
  <2>4. ASSUME NEW e \in Debuggers, DebugWait(e) PROVE e = d /\ Acknowledged(d)
    BY <2>0, <2>4 DEF DebugWait
  <2> QED BY <2>2, <2>3, <2>4 DEF DebugInv
<1> QED BY <1>1, TypeCorrect, DebugInit, DebugStep, PTL DEF Spec, DebugAckDropsConnection
=============================================================================
