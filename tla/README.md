# Verification of the Convex language clients

This directory holds TLA+ models of the Live-query machinery of this repository, the TLC
configurations that check them on small instances, and TLAPS proofs of the most important
properties for every value of the constants. Paths below are relative to the repository.

## 1. The system

The repository implements one Convex client per programming language against one shared wire
profile (`docs/protocol-profiles.md`), a conformance adapter for each client (a process that
speaks NDJSON on stdin/stdout or TCP), a demo backend, and a harness that drives an adapter
through required scenarios (`docs/architecture.md`, `docs/conformance.md`).

    application ──calls──> client library ──HTTP──────────> Convex deployment
        ▲                      │  ▲                          (external; the demo
        └── updates (queues) ──┘  └──WebSocket /api/sync──>   backend runs in it)
    harness ──NDJSON commands──> adapter ──calls──> client library
            <──NDJSON events───

Components, the state each keeps, and what must hold of it:

| Component | State | Operations | Hard part | Must hold |
|---|---|---|---|---|
| C client, Live (`c/client/convex.c` 343-1298) | list of subscriptions, each with flags, a ring of 16 updates and the last value; query-set version and remote version of the connection; flags of forced disconnect and close | `convex_subscribe`, `convex_subscription_next`, `convex_unsubscribe`, `convex_debug_disconnect`, `convex_close`; one worker thread that dials, sends, receives, reconnects | the mutex is released around every socket operation; four kinds of caller sleep on two condition variables; any connection may be lost at any message | no Add lost and no query left behind across reconnects; results in order, none after unsubscribe; every caller returns |
| C client, HTTP (`convex.c` 113-341) | URL, version, token | `convex_new`, `convex_set_auth`, `convex_call` | size limit of the response | classification of responses |
| C adapter (`c/client/tests/conformance/main.c`) | list of subscription records, one relay thread each | NDJSON commands; `stop_record`; relaying | an update taken before an unsubscribe and written after it; threads and records freed in order | silence after invalidation, one record per id, every command answered |
| C fixture (`c/client/tests/live_test.c`) | a scripted WebSocket server | test scenarios | - | (test code; it shows how the backend answers) |
| Go client, Live (`go/client/live.go`) | maps owned by one goroutine, a generation per socket, a reconnect timer | the same API through channels | messages of a retired socket, contexts that end while a command runs, timers | as for C; a client with subscriptions always has a connection or a timer |
| C++ client, Live (`cpp/client/live.cpp`) | per subscription a worker, a queue of 16, tickets of forced disconnects | `next_update`, `debug_disconnect`, `close` | one condition variable for all sleepers, disconnects that overlap | results in order, truthful acknowledgements, close returns |
| Native transports (22 files such as `algol60/client/convexrt.c`, `cobol/client/convex-native.c`) | a table of handles or heap objects, OpenSSL connections | connect, handshake, read, poll, write, listen, accept, close for languages without sockets or TLS | early returns, one timeout for many waits, signals, half records, OpenSSL's buffers and error queue, full tables | one socket or nothing, deadlines, no byte lost or stuck, no descriptor leaked |
| Harness (`_shared/harness/scripts/`) | pending requests, waiters and queues per subscriptionId | `request`, `nextSubscription`, `expectNoSubscription`, `stop` | timeouts against late events, exit of the child | each event to one waiter, every promise settles |
| Demo backend (`_shared/backend/convex/`) | rooms, counters, messages | queries and mutations | transactional, run by Convex | counts agree with contents |
| `run`, site, schemas, roster, the code of the other clients above their transports | - | - | - | not modelled, see section 8 |

The protocol of a Live connection: the client sends `Connect`, then `ModifyQuerySet` messages,
each naming the version of the query set it starts from (`baseVersion`); the backend answers
with `Transition`s, each naming the state version it starts from and the one it ends at, and
carrying the results that changed. A version that does not fit is a protocol error, and the
connection is dropped. On a new connection both versions start at zero again and the client
re-adds every live query; the value that comes back unchanged ("rehydration") is suppressed.

## 2. Plan

Done, in this order:

1. `UpdateQueue` against `LatestQueue`: the ring buffer of a subscription; later its proof.
2. `LiveClient`: worker, application threads, link and backend; then its abstract promise
   `LiveFeed`, and the refinement.
3. Proofs about `LiveClient`: types, versions, refinement of `LiveFeed`, lost Adds.
4. `AdapterRelay`: the adapter on top of `LiveFeed`, and proofs of its safety properties.
5. `CppLive` and `GoLive`: the same protocol under two other kinds of concurrency.
6. `Dial`, `Receive`, `Send`, `Handles`, composed by `Transports`: what the native transports
   of twenty-two languages have in common, and where each of them differs.
7. Proofs of every safety property a passing run checks: order of delivery in the C, C++ and Go
   clients, one snapshot per connection, truthful acknowledgements, and the eight promises of the
   transports.

Left, most important first:

8. The Go and C++ clients as implementations of `LiveFeed`, as the C client is.
9. The harness's adapter process (waiters, pending requests, timeouts, exit of the child).

## 3. Modules and the code they model

| Module | Models | Role |
|---|---|---|
| `NewestQueue` | `enqueue_update_locked` as an operation on a sequence | shared by every module with a queue |
| `LatestQueue` | - | abstract: the consumer sees the newest `Capacity` updates, in order |
| `UpdateQueue` | the ring: `queue`, `queue_start`, `queue_count` | implements `LatestQueue` |
| `LiveFeed` | - | abstract: the life of one subscription as its holder sees it |
| `LiveClient` | `live_manager`, `convex_subscription`, `live_worker` and the API, with an external backend | implements `LiveFeed` for each subscription |
| `AdapterRelay` | `serve`, `stop_record`, `forward_updates` | the adapter over the client `LiveFeed` describes |
| `CppLive` | `Subscription::State` of the C++ client: worker, consumer, other threads | a second client |
| `GoLive` | `liveManager` of the Go client: owner, readers, callers | a third client |
| `Records` | - | puts the policy of a port together from those of its routines |
| `DialPorts`, `ReadPorts`, `SendPorts`, `HandlePorts` | the routines of each native transport, one record of policies per routine | data of the four modules below |
| `Dial` | a call that opens a connection | parameterised by a port's policy |
| `Receive` | the reads and waits of one connection | the same |
| `Send` | the writes of one connection | the same |
| `Handles` | a port's table of sockets, and accepting | the same |
| `Transports` | a port doing one of the four | composes them, names the ports that do not keep a promise |
| `MCLiveThreads` | - | `LiveClient` in two scenarios of its threads, for TLC |
| `MCUpdateQueue`, `MCLiveClient`, `MCAdapterRelay`, `MCCppLive`, `MCGoLive`, `MCTransports` | - | instances for TLC |
| `UpdateQueue_proofs` | - | theorems about `UpdateQueue` |
| `LiveClient_proofs` | - | theorems about `LiveClient`: types, the link, Adds and Removes, `LiveFeed`, forced disconnects |
| `LiveOrder_proofs` | - | theorems about what `LiveClient` delivers |
| `AdapterRelay_proofs` | - | theorems about `AdapterRelay` |
| `CppLive_proofs` | - | theorems about `CppLive` |
| `GoLive_proofs`, `GoOrder_proofs` | - | theorems about `GoLive`: reconnects and protocol errors; what is delivered |
| `Transports_proofs` | - | theorems about `Dial`, `Receive`, `Send` and `Handles`, put together for `Transports` |

### UpdateQueue
A slot holds an update or `Empty` (after the `memset`). The three actions are the three places
that touch the ring, each a single hold of the mutex. Everything else uses the sequence operator
`PushLatest` of `NewestQueue`; `KeepsLatest` is what justifies that.

### LiveClient
The variables carry the names of the C fields. `pc` is where the worker is between two holds of
the mutex:

| `pc` | `live_worker` |
|---|---|
| `top` | before the hold at the head of the loop (line 951) |
| `add`, `remove` | a single Add or Remove has been built and is being written (980, 999) |
| `dial` | in `connect_socket` before the hold at 633 |
| `modify` | the Adds of the new connection are being written (650) |
| `receive` | after the unlock at 1017, reading |
| `exit`, `done` | left the loop; stopped |

One step is one hold of the mutex together with the socket operation that leads to it. Socket
operations run with the mutex released, but touch only the worker's own socket and the wire, so
merging them with the hold that follows loses no behaviour another thread could see. A caller of
the API is a small state machine: `awake` (about to test its condition), `asleep` (in
`pthread_cond_wait`), and its outcomes; `WakeChanged` and `WakeUpdates` are the two broadcasts,
so a missing broadcast in the code would be a missing wakeup in the model.

`wire` is a pair of FIFO channels with a link that may be up or broken. A write to a broken link
may appear to succeed (kernel buffers) or fail; what was received before the break may still be
read. The backend applies a `ModifyQuerySet` only on the base version it is at, otherwise it
answers with `FatalError`; it coalesces commits into Transitions as it likes. Query results are
named by the commit that produced them, so that a value never occurs twice in the database's
history: the equality test of the rehydration is then exactly "nothing changed".

Details worth knowing:
- `add_sequence` is `query_id + 1`: both counters advance in the same hold and from zero.
- `receive_state` is `empty`, `partial` (fragments of a message of this connection) or `stale`
  (fragments of an earlier one). A failed read empties it; the other disconnects do not.
- A write is tested for cancellation (`closing`, or `remove_pending` of an Add) before each
  chunk. The model lets a cancelled write fail or still succeed, which includes the flag being
  set after the last test.
- Timers and deadlines may or may not have passed: the worker may dial at once or wait, a write
  may time out (counted as a fault), `convex_close` may time out.
- Worker locals are reset to a fixed value when they are dead, to keep the state space small.
- One thread per subscription calls `convex_unsubscribe`, and one reads from it; one thread
  subscribes. Two concurrent `convex_unsubscribe` of the same subscription are not modelled.
- `ensure_live` creates the manager on first use; the model starts with it in place.

### AdapterRelay
Records are numbered in the order they are made. `serve` executes one command at a time: its
program counter follows `stop_record` (invalidate under `state_mutex`, `convex_unsubscribe`,
`pthread_join`, free) and then what the command goes on to do. A relay thread reads its own
generation when it first runs, takes an update (`taken`), and writes it if its record is still
active and of that generation, test and write being one hold of `state_mutex`. The client is
`LiveFeed` for each subscription (property `ClientAsPromised`), which `LiveClient` is shown to
implement.

### CppLive
A C++ subscription has a worker, a socket and a queue of its own, so one is modelled. `pc` is
where the worker is in `run`, `session` and `exchange`; `unwind` where the guard of `exchange`
leads after it has retired the socket (`Unguard`, which is a step of its own because the mutex
is taken again there). `consumer` and `debugger` are the sleepers on the one condition variable:
`NotifyOne` wakes any one of them, as `push` does, `NotifyAll` all. A disconnect carries a ticket;
`TakenTicket` is read under the mutex when the worker takes the command, so that a later call is
not acknowledged by it. `sockets` and `debug_socket` are history: which connection was up when
`debug_disconnect` was called. `RunElapsed` is the end of
`exchange`'s 25 ms slice (`owner_poll_interval`), `PumpCancelled` the
cancellation of an asynchronous operation after `close`. A forced disconnect counts as pending
(`WakeOwed`) until the worker's broadcast that answers it.

### GoLive
One step is one turn of the owner's `select`; dialling takes two, since `Close`, callers and the
backend go on meanwhile. Channels are sequences: `incoming` is bounded (`Buffer`), the command
channel is a rendezvous, so a command is a caller in state `offering` that a turn takes. Each
socket has a reader goroutine with at most one message in its hands; a retired socket's reader
delivers what it holds, then an error, and ends. The owner drops both by their `generation`. A
caller's context may end before its command is taken, after it, or after the answer is ready;
where several cases of a `select` are ready the model takes any. `deliver` drops the oldest
update of a full channel, while the consumer may take some in between: a receive at any earlier
time leads to the same channel, so `Consume` is a step only when the channel is full.
`connectionCount` is checked by the backend against `dials`, the history of attempts: unlike the
C client's it is exact, because only a socket that exists is counted.

### The transports
Many clients are written in languages without sockets or TLS and carry a C extension with the
same dozen routines. They are variations on one theme, so each routine of each port is a record
of choices (`algol60Tcp`, `rexxSend`, `awkAccept`, ...), the fields of which are explained at
the head of the four `Ports` modules, and the four modules say what each choice does. A routine's
record in `PROJECT.json` names the lines it was read from.

- `Dial` runs one connect: name lookup, an attempt per address, handshake, a slot of the table,
  every early return. Addresses accept, refuse or stay silent; the TLS peer completes, fails
  verification, breaks off or stops answering; a signal interrupts a wait.
- `Receive` is a program that keeps reading one connection. The kernel holds whole records, half
  records and tickets; OpenSSL holds what did not fit the caller's buffer (`held`); errors of
  other connections stay in the thread's queue (`dirty`). What a failing connection leaves there
  is what its report did not take (`drains`) and what `SSL_shutdown` adds when it is closed
  afterwards (`shuts`): "shutdown while in init" for a connection that failed or was still shaking
  hands. Another connection fails at most once while the queue is clean; that a later failure
  might drain it again is left out, so `dirty` only ever goes from clean to dirty until a read of
  a port that clears or drains.
- `Send` is a program that sends frames. A frame is cut in units (TLS records); an unfinished
  `SSL_write` has put some of them out (`part`) without saying so.
- `Handles` is a program that connects, lends standard input, listens, accepts and closes. The
  lowest free descriptor and the first free slot are used again at once; an `id` tells sockets
  apart.

`Transports` starts each behaviour with one of the four stages and one port; the variables of the
other stages are 0. Its predicates `LateDial`, `LateRead`, `LateWrite`, `LateAccept`, `Leaky`,
`Forgetful` and `Mixed` say for which ports a promise is not made, each by the policy that breaks
it (section 7).

### Slip definitions
A definition whose name starts with `Slip` is not part of the model. It stands before a
definition of the model and is a plausible mistake in it (a missing reset, a broadcast that
wakes too few, a dropped guard). Putting it in the place of the real one makes TLC violate the
property it is paired with in `PROJECT.json`: every property is known to notice some bug.

## 4. Runs

| Run | Question | Bounds | States |
|---|---|---|---|
| `ring` | Does the ring keep the newest updates in order, and leak or reuse no slot? | 3 slots, 3 updates | 235 |
| `live_two` | Do client and backend agree on the query set: bases, Adds, Removes? Does every live subscription end with the current result? | 2 subscriptions, 1 commit, 1 fault | 440 k |
| `live_order` | Is what the consumer gets right and in order? | 1 subscription, 3 commits (the second fails the query), 1 fault, 1 forced disconnect, fragments, queue of 3 | 525 k |
| `live_threads` | Are concurrent forced disconnects answered, truthfully? Does every caller return; is nothing queued after unsubscribe? | 1 subscription with a reader, unsubscribe, 1 fault; either 2 threads with 1 forced disconnect each, or `convex_close` and 1 commit | 86 k |
| `adapter` | Are records, relays and output consistent, commands answered, updates forwarded? | see `MCAdapterRelay.cfg`: 2 ids, 3 subscriptions, queue of 1 | 945 k |
| `cpp` | Is the C++ queue right, are sleepers woken, acknowledgements true, does close return? | queue of 2, 1 commit, the first result a failure, 1 fault, 1 thread forcing 2 disconnects | 230 k |
| `transports` | Do the native transports keep their promises? | see below | 780 k |
| `go_live` | Does the Go client always have a connection or a timer, tell of no error that was not sent, deliver in order, converge, and return? | 2 subscriptions, channels of 2 and 1, 1 commit (which fails the query), 1 disturbance, 1 caller | 265 k |
| `live_count`, `live_fragment`, `live_error_last`, `cpp_stranded` | The four findings of section 7 (expected violations) | 1 subscription | - |

`live_threads` has two scenarios, since their product is out of TLC's reach: two threads force a
disconnect each, or `convex_close` is called and there is a commit. The action constraint
`Scenarios` of `MCLiveThreads` separates them, names the threads by the order of their calls, and
has `convex_unsubscribe` called, after the first forced disconnect, while the reader sleeps. It
leaves out calls and commits only, steps of which no fairness condition speaks, so a fair
behaviour of what remains is a fair behaviour of the client; `live_two` and `live_order` have
Removes, commits and forced disconnects together, without it.

The bounds of `transports`: a timeout of 2 ticks, 2 addresses, handshakes of 2 flights, 2 signals
in all, 3 records, frames of 3 units of which the socket takes 2, 2 frames, 2 slots and 3
descriptors, 4 sockets ever made, 1 peer waiting. Two addresses are the fewest that tell a budget
per address from one per call, two flights one per flight from one per handshake; a record of two
bytes is the smallest that can arrive in halves and be read by halves; a table of two under three
descriptors fills while the process can still accept. `MCTransports` keeps one port of those with
equal policies, since nothing else of a port enters a step. In `go_live` the one disturbance is a
failed dial or handshake, a dead or silent link, a bad message, a forced disconnect or a `Close`;
each of the properties is violated by its slip within these bounds, and so they do reach the case
they are about. In `cpp` a failing first result makes the suppression of rehydrations tell
failures from values.

Why the bounds suffice. Query ids are interchangeable except for their order, and every guard
looks at one subscription, at the newest of a set, or at "some": two subscriptions already give
a snapshot with one of them missing, an Add and a Remove in one pass, and a Transition for both.
One fault suffices to reach every failure branch; the failed write followed by a Remove without
a socket needs none in addition, since the missing socket is what makes it fail (section 8). Three commits
are needed to tell "suppressed because unchanged" from "older than what was shown", with a
failure between two values. For the properties that are proved (section 6) the bounds matter
only for the time TLC takes.

Deadlock is checked in the runs where `convex_close` is not called: the worker never stops by
itself. It is switched off (`CHECK_DEADLOCK FALSE`) where the program ends: in `live_threads`,
`adapter`, `cpp`, `go_live` and `transports` (a call that is over).

The bounds by name: `MaxSubs` subscriptions ever made, `MaxNow` commits, `MaxFaults` broken links,
failed dials, failed writes and FatalErrors together, `MaxDebug` calls of
`convex_debug_disconnect`; in `AdapterRelay` `MaxSubs` and `MaxUpdates` (updates per
subscription); in `CppLive` `MaxNow`, `MaxFaults`, `MaxDebug`; in `GoLive` `MaxSubs`, `MaxNow`,
`MaxTrouble` (all disturbances together); in `Transports` `MaxSignals`, `MaxUnits`, `Frames`,
`MaxIds`, `MaxBacklog`, and the `Horizon`s, which are beyond every deadline that is promised.

## 5. Fairness

`LiveClient!Fairness` asks for weak fairness of the worker as one process, of each caller that is
awake, of an admitted subscriber, and of the backend's answers: threads that are not asleep run,
and the deployment answers on a link that is up. Nothing is asked of the application (it may
never call anything), of commits, faults, or of the choice between waiting and dialling, except
that a worker that only waits makes no step at all, so weak fairness has it dial eventually, as
its timer does. Faults are bounded, so fairness never requires a fault. `Converges` therefore
says what the protocol promises: once commits and faults end, not before.

`AdapterRelay!FairSpec` asks for weak fairness of `serve` inside a command, of each relay, and of
the client completing a Remove - the last is `LiveClient`'s property `UnsubscribeReturns`.

`CppLive!Running` asks for the worker's own steps and the join only: an operation with the peer
may take for ever, and `CloseReturns` holds all the same, because the pump is cancelled.
`Converges` has the peer's answers as its hypothesis (`PeerAnswers`).

`GoLive!FairSpec`: the owner goroutine and the readers are scheduled, a ready command is
eventually taken (Go's `select` chooses at random among ready cases), calls that can return do,
and the backend answers. A failed dial is a disturbance and never required.

The transports have no liveness property: their promise is a deadline, which is safety.

## 6. Proofs

Every invariant and every safety action property that a passing run checks is also a theorem,
and so are the refinements. All are checked by `tlapm` to the last leaf, for every value of the
constants that satisfies the module's named assumption: `BoundsAssumption` in `LiveClient`,
`AdapterRelay` and `CppLive` (`Capacity` and `MaxSubs` positive, the other bounds natural numbers,
some subscriptionId), `CapacityAssumption` and `EmptyAssumption` in `UpdateQueue`, `GoBounds` in
`GoLive`, `TransportAssumption` in `Transports`.

- `UpdateQueue_proofs`: `RingTypes`, `SlotsOccupied` and `RingKeepsLatest`, for every
  `Capacity`. An index is never more than one capacity beyond the ring, so each `%` is one
  comparison and one subtraction (`Wraps`); the slots in use are then an interval and its overflow
  (`Queued`), and the invariant is linear arithmetic. The refinement shows that what
  `LatestQueue` calls the sequence of pending updates is moved by each operation of the ring as
  `Append`, `Tail` and `<<>>` move it: this is what lets every other module use a sequence.
- `LiveClient_proofs`: `TypeCorrect`, `Spec => []TypeOK`. `TypeOK` includes that queues stay
  within `Capacity`, that a subscriber is admitted only while a query id is left and that the
  worker names a subscription while it writes an Add or a Remove; it is inductive as it stands.
- The same module: `BaseVersions` and `TransitionsContinue`. Neither property is
  inductive: a base agrees because of all messages still on the wire, and the state the next
  connection starts from. `VersionInv` adds `Attached` (a link exists exactly while there is a
  socket; without one the versions are reset), `BasesCountUp` (the k-th message on the wire has
  base `server_version.querySet + k - 1`, and `query_set_version` is what comes after the last)
  and `ServerGoesOn` (the backend continues where its last unread message ends).
- The same module: `ImplementsFeeds`, `Spec => FeedsKept`: for every subscription, every step
  of the client is a step of `LiveFeed` or leaves that feed alone. `FeedInv` says what makes
  `FeedState` a refinement mapping: ids not given out have no state, `remove_done` only after
  `remove_pending` and with `active` cleared, the worker writes a Remove only of a subscription
  that is leaving, and `stopped` is final.
- The same module: `AddsAreNotLost` and `QueriesDoNotLinger`, on top of the two invariants
  before. `AddsInv` adds `SnapshotCovers` (while the Adds of a new connection are written, the
  snapshot names every live subscription whose `add_pending` will be cleared, or which has none:
  this is the race of a subscription made during the write), `NoAddAfterRemove` and `RemovesDone`
  for the messages on the wire.
- The same module: `DisconnectsAreReal`, `Spec => DebugAckDropsConnection`, an action property
  about `convex_debug_disconnect`. Its invariant `DebugInv` says that no generation is answered
  before it was requested, and that the connection of a caller whose generation has been answered
  is gone, which later connections and later requests cannot undo.
- `LiveOrder_proofs`: `OneSnapshot` and `InOrderDelivery`. `OrderInv` follows a result from the
  commit to the queue. On the wire Transitions are disjoint intervals of time (`Intervals`); each
  reports results as of its end, none older than what the subscription has been given
  (`Truthful`); and once a query has been answered on the connection, or is by a message before,
  each later Transition reports every change that falls into it and only those (`Complete`, by
  `Covers`). That is what makes "no modification" mean "unchanged", and so what an answered query
  shows the commit the client has reached (`UpToDate`). Over a reconnect `CacheInv` connects
  `last_value` with the last result queued, except after a failure; the suppression of
  rehydrations is right because of it. `AddedOnce` is needed since an Add sent twice would be
  answered twice.
- `CppLive_proofs`: `ResultsInOrder`, `AcksAreReal` and `ConsumerIsWoken` from `LiveInv`. Order
  takes that nothing published is newer than the version reached or, before the first answer of a
  connection, than anything on the wire (`WireInv`), and that `last_value` and
  `last_delivery_was_error` describe the last result (`CacheInv`). Acknowledgements take that
  a ticket that was taken or answered was given out before, so that a call made later has a higher
  one, and that no call remembers a socket of the future (`TicketInv`); that the link is up only
  while the worker polls or reads (`LinkInv`) makes an answer come after the end of the socket.
  `ConsumerIsWoken` says that a consumer asleep beside a queued update is still owed a wake: a
  forced disconnect is pending, or the worker is at the end of the exchange that answers it, and
  the answer wakes everybody. It needs that a caller of `debug_disconnect` who waits unanswered has
  the command set or its ticket taken (`PendingInv`): `push` can have woken somebody else only
  while an answer was still to come.
- `AdapterRelay_proofs`: `AdapterTypes`, `OneRecord`, `RelaysEndFirst`, `Silence` and
  `AdapterKeepsFeed`, all from one invariant, `AdapterInv`. None of the properties is inductive:
  one record per id needs that `serve`, once it goes on to subscribe, has seen or removed every
  record of that id (`IdIsFree`); silence needs that a record is active exactly until it is
  invalidated (`Generations`); a relay stays within the life of what it uses because a record
  leaves the list only after its query was removed and its relay joined (`LeftAfterEnd`), and the
  client is freed only when the list is empty (`NothingLeft`). Neither silence nor the order of
  ends needs anything of the client but `LiveFeed`. `AdapterKeepsFeed` says that the client inside
  `AdapterRelay` does to a subscription only what `LiveFeed` allows, as `LiveClient` does
  (`ImplementsFeeds`); that `convex_free` is such a step takes the same invariant. Of what
  `LiveFeed` allows, `AdapterRelay` leaves out only the client stopping before the adapter closes
  it, since the adapter is the only caller of `convex_close`.

- `GoLive_proofs`: `ReconnectKept` needs no strengthening: every action that leaves the owner
  without a connection arms the timer or ends it with the last subscription.
  `EveryProtocolErrorHasACause` does. Its invariant `StreamInv` has two halves. `Counting` ties
  `connection_count` to the attempts made, so that a Connect is accepted. `Stream`, while there is a
  socket, follows what the backend sent on it through the three places where it can be: the link
  (`Carried`: each message starts where the one before it ends, the last one at the backend's
  version), the hands of the current reader (`HeldFits`), and the channel (`Arrived`), where
  messages of earlier sockets may lie between those of this one, so that first, next and last are
  meant among the `Unread` ones. Where they meet the versions join (`EndsAt`, `Joins`), so a
  Transition that the owner reads always continues from `remote_version`, and only a bad message
  is rejected; `Untold` says that one that is still to be seen has not been told of. The proof has
  a lemma for each way the channel changes (`StaleArrives`, `FreshArrives`, `FirstLeaves`) and
  one for each action.
- `GoOrder_proofs`: `ResultsStayInOrder`, on top of `StreamInv`. `OrderInv` takes the Transitions
  that are still to come from the current socket, wherever they are (`Coming`, in the order of
  `Flight`), and says that each reports results newer than what the channel of the subscription
  holds, except that the first report of a connection may repeat it (`Truthful`), and that of two
  the later is the newer (`Ascending`). `LastTold` says that `last_delivered` is the last update of
  the channel, if that is a result: this is what the comparison that recognises a repeated result
  rests on. Messages of retired sockets do not count, since a turn that takes one drops it. The
  lemmas about channels (`RoomPushes`, `AppendPushes`) say what is left of a full channel when the
  consumer takes any number in between.
- `Transports_proofs`: `OneOrNothingHolds`, `FallsBackHolds`, `DeadlinesHold`, `EndIsReal`,
  `NoByteWaits`, `FailuresStayApart`, `FramesAreWhole` and `NothingLeaks`. `EndIsReal` and
  `FailuresStayApart` are for every port as long as no other connection left an error in the queue,
  and without that condition for the ports that block, clear the queue, or empty it and do not
  call `SSL_shutdown`; `NoByteWaits` is for every read of every port and for every separate wait
  but the two of `Forgetful`. A theorem about all
  ports needs of a policy only a few facts (`DialPolicies`, `ReadPolicies`, `HandlePolicies`), which
  are proved port by port; a new port keeps the promises if it has them. Each stage has an
  inductive invariant:
  - `DialInv`: which of socket and slot a call has at each of its places (`Holding`, which for the
    ports that search the table first or last differs), that every address before the current one
    refused unless a wait expired or a signal came (`Trying`), and one deadline (`InTime`).
  - `ReadInv`: every byte that was sent was returned, is held, or is in the kernel (`BytesKept`).
    The number of bytes in the kernel is a sum over a sequence of records; it is stated by a
    running total that leads from the bytes returned to the bytes sent (`Leads`), which a record
    that arrives extends and one that is read shortens, so no recursion and no induction are
    needed. An end of the stream is reported on an empty kernel only (`Reported`).
  - `SendInv`: the length of the wire is what the complete frames, the units known to be out and
    the units an unfinished `SSL_write` put out add up to (`OnTheWire`); the place of the next unit
    is then a division with remainder (`Place`).
  - `HandlesInv`: a slot in use has an id of its own, a handle of the program leads to it and its
    descriptor is open for that id and is not the listener's (`Slotted`); handles lead to their
    slots and closed handles have no slot (`Owners`); an open descriptor is in a slot or is the
    listener's (`Sockets`). Distinct ids are what keeps two slots from one descriptor. The
    operations change the store in three ways, each a lemma: a slot is filled (`FillKeeps`), a slot
    is released (`ReleaseKeeps`), a listener outside the table comes, moves or goes
    (`LoneKeeps`). `DescriptorsHeld` needs the invariant while an accept is waiting too, although
    it speaks of the time between calls only. `AcceptInTime` has the deadline of an accept, and that
    one that waited before it accepts has a peer to accept, so that it does not block.
  The clocks are bounded by `Horizon` in the model; no proof uses that bound, so a deadline is kept
  by the routine and not by the end of the model's time.

Only model-checked: the liveness properties (`Converges` of three clients, `UnsubscribeReturns`,
`CloseCompletes`, `CloseReturns`, `CallersReturn`, `ReaderEnds`, `DebugReturns`,
`CommandsAnswered`, `NewestForwarded`), since liveness under fairness and `ENABLED` are beyond the
prover. `TypeOK` of the four stages of `Transports` and of `GoLive` is not a property of a run; the
proofs carry the types they need in their invariants (`DialTypes`, `ReadTypes`, `SendTypes`,
`HandleTypes`, and the first conjuncts of `StreamInv`, `Kept`).

## 7. Findings

Four statements of the repository are not kept, three by the C client and one by the C++ client;
each has a run whose expected result is a violation.

1. `ConnectionCountExact`. `disconnect_socket_locked` advances `connection_count` also when the
   socket is already gone. A disconnect forced at the moment the connection breaks by itself
   counts twice, and the test server's check "connectionCount did not advance exactly"
   (`c/client/tests/live_test.c:528`) would refuse the next `Connect`.
2. `NoSpuriousProtocolError`. A disconnect forced between two fragments of a message (or a failed
   write then) leaves the fragments in `receive_state`; the first message of the next connection
   is appended to them, fails to decode, and every subscriber is given a `ProtocolError`. The
   return codes of `receive_message` (`convex.c:855`) and `docs/conformance.md:33` keep transport
   interruptions apart from such failures.
3. `ErrorIsFollowedByResult`. A subscriber that was given a `TransportError` hears nothing more
   if the value is unchanged after the reconnect, because the rehydration is suppressed against
   the value from before the error. The test "Live query recovers after an established transport
   failure" (`live_test.c:1346`) passes because its server changes the value at the same time.

4. `WokenWhenDelivered`. C++ `push` wakes one sleeper of a condition variable that consumers share
   with `debug_disconnect` (`cpp/client/live.cpp:245`). A disconnect is forced just when the
   exchange ends by itself, with an error to report; the report's one wake goes to the caller of
   `debug_disconnect`, and the consumer sleeps on beside its update while the worker backs off and
   dials, up to its timeout, although `next_update` "blocks until the worker delivers a value"
   (`cpp/README.md:63`). `NotStranded`, which holds, says how far it goes: never without a forced
   disconnect that is still to be answered, and the answer wakes the consumer too.

Divergences that the models made visible and that have no run of their own; the transports' are
the ports a predicate of `Transports` excuses from a promise:

- BCPL `cxconnecttcp` and `cxaccept` forget a socket that finds the table full (`Leaky`;
  `bcpl/client/native/convexext.c:97-99` has the table so that the native layer "cannot grow
  without bound").
- SETL sets no `SO_SNDTIMEO` or `SO_RCVTIMEO`, on which two comments rely
  (`setl/client/callskel.c:271-272`, 404-408): its writes, and its reads of a record of which a
  part came (which 459-462 would report as a timeout), wait for the peer without limit
  (`LateRead`, `LateWrite`).
- Forth counts an interrupted wait anew although `forth/client/convexrt.c:265-266` speaks of an
  absolute deadline; ALGOL 60, Simula and SNOBOL4 do the same.
- Verilog and VHDL `wait_ready` ask OpenSSL but not the shim's own read buffer
  (`verilog/client/native.c:436-449`, `vhdl/client/native.c:383-399`): bytes can wait there for
  the peer's next record (`Forgetful`). The Verilog adapter polls so before every command, again
  and again with no timeout (`verilog/client/tests/conformance/adapter.v:142`), and so leaves the
  second of two commands that came together until more arrives.
- The ports whose non-blocking reads never clear OpenSSL's error queue (`Mixed`) may take an
  error of another connection of the thread for their own; a client has two connections whenever
  it makes an HTTP call beside its Live socket. AWK and Io empty the queue when they report a
  failure, but `SSL_shutdown` of the failed connection comes after that
  (`awk/client/convexext.c:1158`, `io/client/convex_transport.c:202`) and adds "shutdown while in
  init". Io then calls a read that found nothing the end of the stream, where its comment
  (`convex_transport.c:125-128`) has the queue drained so that no call sees the error of another.
- AWK's write marks a connection as failed when a part of a frame was written
  (`awk/client/convexext.c:563-564`), but over TLS nothing is counted before all of it is out, so
  a timeout leaves the mark off. Its callers close the connection anyway, which is why
  `WellFormed` holds.
- Lean and Idris try to accept from a blocking listener before they wait, so that Lean's "accept
  deadline expired" (`lean/client/shim/convex_shim.c:814`) is unreachable (`LateAccept`).
- SNOBOL4 `convexrt.c:625-626` calls closing an unknown handle a no-op; closing a handle twice
  closes whatever has the slot by then. `Handles` has a program close twice only where that cannot happen.
- C++ `debug_disconnect` leaves its command set when the socket fails by itself, and the next
  socket is closed for it (`live.cpp:752`); `docs/conformance.md:123` speaks of the active one.
- Go `Subscribe` whose context ends after the owner took the command returns an error while the
  query stays in the query set until `Close` (`go/client/live.go:202`).

The first three findings are the C client's own: the Go client's `connectionCount` is exact, whole
messages are read, and after an error its next result is always delivered (`MarkedFailed`), which
is why the same questions are answered by passing properties in `go_live`.

## 8. Not modelled

- The HTTP paths: sequential, no shared state with Live.
- Allocation failure and the OS thread API failing.
- The first, unsynchronised creation of the manager (`convex.c:1092`), and json-c's reference
  counts: see the hazards in `PROJECT.json`.
- Malformed messages of the backend beyond those that amount to "a protocol error", or, in
  `GoLive`, to an unknown modification: the field checks come before any change of state.
- `identity` of a state version (always 0 in this profile), timestamps beyond their order,
  `maxObservedTimestamp`, session ids, close reasons and log lines: telemetry that no decision of
  a client depends on. Backoff delays: a timer may or may not have fired.
- What libcurl does with the NULL handle that `ws_send_json` passes to `curl_ws_send`
  (`convex.c:549`) when a Remove follows a failed Add in one pass (lines 987, 999). `SendFails`
  assumes an error return; libcurl (8.14.1 in `c/Dockerfile`) is not part of the repository, and a
  crash there would be outside the model.
- Of the transports: connecting in Io, Eiffel and Modula-3, which have no record in `DialPorts`
  (Io connects in steps driven by its language, and takes up only the first address that accepts
  or is in progress, without going on to the next when that one fails later). Name resolution
  beyond its result, certificate checks beyond their outcome,
  WebSocket framing and JSON in the extensions that hold some, Chapel's and Fortran's use of
  libcurl. TLS renegotiation is off in every port.
- The harness and its scenarios, the demo backend, the site, the scripts around Docker: no part
  of a client, or external to it.
- The code of the other clients above their transports: further implementations of the same
  profile, in languages whose runtimes would have to be modelled first.
