------------------------------ MODULE Handles -------------------------------
(***************************************************************************)
(* The table, or the objects, in which a port keeps its sockets, and a     *)
(* program that connects, lends standard input, listens, accepts and       *)
(* closes.  The operating system gives a new socket the lowest descriptor  *)
(* that is free, a table gives it the first slot that is free: both are    *)
(* used again at once.  An id tells one socket from every other one.  Time *)
(* is counted from the start of a call.                                    *)
(***************************************************************************)
EXTENDS Naturals, FiniteSets

CONSTANTS Handling,     \* the policy of each port, as in HandlePorts
          Slots,        \* the size of a table
          MaxFds,       \* descriptors the process may have beside the lent one
          MaxIds,       \* bound on the sockets made
          MaxBacklog,   \* bound on peers waiting to be accepted
          Budget,       \* the timeout of an accept
          MaxSignals,   \* bound on signals
          Horizon       \* bound on the clock of one call

VARIABLES
  port,
  sock,      \* the open descriptors: the id of the socket, or 0
  table,     \* the slots: [fd, id, kind]
  lone,      \* the descriptor of a listener outside the table, or 0
  owned,     \* the handles the program holds: [slot, id]
  gone,      \* handles it has closed and may close again
  ids, backlog,
  pc, now, limit, signals, result

store == <<sock, table, lone>>
vars == <<port, store, owned, gone, ids, backlog, pc, now, limit, signals, result>>

Policy == Handling[port]
Fds == 1..MaxFds
Lent == 0            \* the descriptor of standard input, never in sock
Empty == [fd |-> 0, id |-> 0, kind |-> "free"]

Init ==
  /\ port \in DOMAIN Handling
  /\ sock = [f \in Fds |-> 0] /\ table = [s \in Fds |-> Empty] /\ lone = 0
  /\ owned = {} /\ gone = {} /\ ids = 0 /\ backlog = 0
  /\ pc = "idle" /\ now = 0 /\ limit = 0 /\ signals = 0 /\ result = "none"

\* Objects and heap records are as many as there are descriptors.
Size == IF Policy.names = "index" THEN Slots ELSE MaxFds
FreeSlots == {s \in 1..Size : table[s].kind = "free"}
FreeFds == {f \in Fds : sock[f] = 0}
Lowest(S) == CHOOSE x \in S : \A y \in S : x <= y

---------------------------------------------------------------------------
(* Slips a change to these routines could make; the properties below tell   *)
(* each of them from the code.                                              *)

\* The socket is registered before anyone looks for a slot.
SlipRegister(fd, id, kind) ==
  IF FreeSlots = {}
  THEN /\ sock' = [sock EXCEPT ![fd] = id] /\ UNCHANGED <<table, owned>>
       /\ result' = "full"
  ELSE LET s == Lowest(FreeSlots) IN
       /\ sock' = [sock EXCEPT ![fd] = id]
       /\ table' = [table EXCEPT ![s] = [fd |-> fd, id |-> id, kind |-> kind]]
       /\ owned' = owned \cup {[slot |-> s, id |-> id]}
       /\ result' = "ok"

---------------------------------------------------------------------------
\* Tables.

\* A socket that has just been made is put in a slot, or finds none.
Register(fd, id, kind) ==
  IF FreeSlots = {}
  THEN /\ sock' = (IF Policy.full = "leak" /\ kind # "listener"
                   THEN [sock EXCEPT ![fd] = id] ELSE sock)
       /\ UNCHANGED <<table, owned>> /\ result' = "full"
  ELSE LET s == Lowest(FreeSlots) IN
       /\ sock' = [sock EXCEPT ![fd] = id]
       /\ table' = [table EXCEPT ![s] = [fd |-> fd, id |-> id, kind |-> kind]]
       /\ owned' = owned \cup {[slot |-> s, id |-> id]}
       /\ result' = "ok"

\* The slot a handle leads to, if it leads anywhere.
Found(h) == /\ table[h.slot].kind # "free"
            /\ Policy.names = "object" => table[h.slot].id = h.id

Release(s) ==
  /\ sock' = (IF table[s].fd = Lent THEN sock ELSE [sock EXCEPT ![table[s].fd] = 0])
  /\ table' = [table EXCEPT ![s] = Empty]

Call == pc = "idle" /\ ids < MaxIds /\ FreeFds # {}

Connect ==
  /\ Call
  /\ ids' = ids + 1
  /\ Register(Lowest(FreeFds), ids + 1, "conn")
  /\ UNCHANGED <<port, lone, gone, backlog, pc, now, limit, signals>>

\* Standard input gets a slot and no socket.
Adopt ==
  /\ pc = "idle" /\ ids < MaxIds /\ Policy.lends
  /\ \A s \in Fds : table[s].kind # "lent"
  /\ ids' = ids + 1
  /\ IF FreeSlots = {}
     THEN result' = "full" /\ UNCHANGED <<table, owned>>
     ELSE LET s == Lowest(FreeSlots) IN
          /\ table' = [table EXCEPT ![s] = [fd |-> Lent, id |-> ids + 1, kind |-> "lent"]]
          /\ owned' = owned \cup {[slot |-> s, id |-> ids + 1]}
          /\ result' = "ok"
  /\ UNCHANGED <<port, sock, lone, gone, backlog, pc, now, limit, signals>>

Listen ==
  /\ Call /\ Policy.listens \in {"table", "only", "raw"}
  /\ \A s \in Fds : table[s].kind # "listener"
  /\ Policy.listens = "raw" => lone = 0
  /\ ids' = ids + 1
  /\ CASE Policy.listens = "table" ->
            Register(Lowest(FreeFds), ids + 1, "listener") /\ UNCHANGED lone
       [] Policy.listens = "raw" ->
            /\ sock' = [sock EXCEPT ![Lowest(FreeFds)] = ids + 1]
            /\ lone' = Lowest(FreeFds)
            /\ result' = "ok" /\ UNCHANGED <<table, owned>>
       [] Policy.listens = "only" ->    \* the one before it is closed first
            LET f == Lowest(FreeFds \cup ({lone} \ {0})) IN
            /\ sock' = [g \in Fds |-> IF g = f THEN ids + 1
                                      ELSE IF g = lone THEN 0 ELSE sock[g]]
            /\ lone' = f
            /\ result' = "ok" /\ UNCHANGED <<table, owned>>
  /\ UNCHANGED <<port, gone, backlog, pc, now, limit, signals>>

Close(h) ==
  /\ pc = "idle" /\ h \in owned
  /\ IF Found(h) THEN Release(h.slot) /\ result' = "ok"
                 ELSE UNCHANGED <<sock, table>> /\ result' = Policy.again
  /\ owned' = owned \ {h} /\ gone' = gone \cup {h}
  /\ UNCHANGED <<port, lone, ids, backlog, pc, now, limit, signals>>

\* A program may close an object twice: only there does the second time not
\* depend on what was opened in between.
CloseAgain(h) ==
  /\ pc = "idle" /\ h \in gone /\ (Policy.names = "object" \/ ~Found(h))
  /\ IF Found(h) THEN Release(h.slot) /\ result' = "ok"
                 ELSE UNCHANGED <<sock, table>> /\ result' = Policy.again
  /\ UNCHANGED <<port, lone, owned, gone, ids, backlog, pc, now, limit, signals>>

CloseListener ==
  /\ pc = "idle" /\ lone # 0 /\ Policy.listens = "raw"
  /\ sock' = [sock EXCEPT ![lone] = 0] /\ lone' = 0
  /\ UNCHANGED <<port, table, owned, gone, ids, backlog, pc, now, limit, signals,
                 result>>

---------------------------------------------------------------------------
\* Accepting.

PeerConnects ==
  /\ backlog < MaxBacklog
  /\ backlog' = backlog + 1
  /\ UNCHANGED <<port, store, owned, gone, ids, pc, now, limit, signals, result>>

Listening == lone # 0 \/ \E h \in owned : Found(h) /\ table[h.slot].kind = "listener"

\* One call of cobol's routine opens the listener it accepts from.
StartAccept ==
  /\ pc = "idle" /\ ids < MaxIds
  /\ IF Policy.listens = "call"
     THEN /\ FreeFds # {}
          /\ sock' = [sock EXCEPT ![Lowest(FreeFds)] = ids + 1]
          /\ lone' = Lowest(FreeFds) /\ ids' = ids + 1
     ELSE Listening /\ UNCHANGED <<sock, lone, ids>>
  /\ now' = 0 /\ limit' = Budget
  /\ IF Policy.probes /\ FreeSlots = {}
     THEN result' = "full" /\ UNCHANGED pc
     ELSE /\ result' = "none"
          /\ pc' = IF Policy.accepts = "wait" THEN "waiting" ELSE "accepting"
  /\ UNCHANGED <<port, table, owned, gone, backlog, signals>>

\* A call that is over closes a listener of its own.
Over(sockets, how) ==
  /\ pc' = "idle" /\ result' = how
  /\ IF Policy.listens = "call"
     THEN sock' = [sockets EXCEPT ![lone] = 0] /\ lone' = 0
     ELSE sock' = sockets /\ UNCHANGED lone

Ready ==
  /\ pc = "waiting" /\ backlog > 0
  /\ pc' = "accepting"
  /\ UNCHANGED <<port, store, owned, gone, ids, backlog, now, limit, signals, result>>

Accepted ==
  /\ pc = "accepting" /\ backlog > 0 /\ FreeFds # {} /\ ids < MaxIds
  /\ backlog' = backlog - 1 /\ ids' = ids + 1 /\ pc' = "idle"
  /\ IF Policy.listens = "call"
     THEN /\ lone' = 0
          /\ LET f == Lowest(FreeFds) IN
             IF FreeSlots = {}
             THEN /\ sock' = [sock EXCEPT ![lone] = 0]
                  /\ UNCHANGED <<table, owned>> /\ result' = "full"
             ELSE LET s == Lowest(FreeSlots) IN
                  /\ sock' = [sock EXCEPT ![lone] = 0, ![f] = ids + 1]
                  /\ table' = [table EXCEPT ![s] = [fd |-> f, id |-> ids + 1, kind |-> "conn"]]
                  /\ owned' = owned \cup {[slot |-> s, id |-> ids + 1]}
                  /\ result' = "ok"
     ELSE Register(Lowest(FreeFds), ids + 1, "conn") /\ UNCHANGED lone
  /\ UNCHANGED <<port, gone, now, limit, signals>>

NothingThere ==
  pc' = (IF Policy.accepts = "ask" THEN "idle" ELSE "waiting") /\ UNCHANGED limit

\* accept finds nobody on a non-blocking listener.
Empties ==
  /\ pc = "accepting" /\ backlog = 0 /\ ~Policy.blocking
  /\ NothingThere
  /\ UNCHANGED <<port, store, owned, gone, ids, backlog, now, signals, result>>

Expired ==
  /\ pc = "waiting" /\ now >= limit /\ backlog = 0
  /\ Over(sock, "timeout")
  /\ UNCHANGED <<port, table, owned, gone, ids, backlog, now, limit, signals>>

\* A blocking accept without SA_RESTART returns and is called again.
Signal ==
  /\ signals < MaxSignals /\ pc = "waiting" /\ backlog = 0
  /\ signals' = signals + 1
  /\ CASE Policy.signal = "fail" -> Over(sock, "error") /\ UNCHANGED limit
       [] Policy.signal = "restart" ->
            limit' = now + Budget /\ UNCHANGED <<sock, lone, pc, result>>
       [] Policy.signal = "resume" -> UNCHANGED <<sock, lone, pc, result, limit>>
  /\ UNCHANGED <<port, table, owned, gone, ids, backlog, now>>

Tick ==
  /\ backlog = 0 /\ now < Horizon
  /\ \/ pc = "waiting" /\ now < limit
     \/ pc = "accepting" /\ Policy.blocking
  /\ now' = now + 1
  /\ UNCHANGED <<port, store, owned, gone, ids, backlog, pc, limit, signals, result>>

Next ==
  \/ Connect \/ Adopt \/ Listen \/ CloseListener \/ PeerConnects \/ StartAccept
  \/ Ready \/ Accepted \/ Empties \/ Expired \/ Signal \/ Tick
  \/ \E h \in owned : Close(h)
  \/ \E h \in gone : CloseAgain(h)

Spec == Init /\ [][Next]_vars

---------------------------------------------------------------------------
TypeOK ==
  /\ sock \in [Fds -> 0..MaxIds] /\ lone \in 0..MaxFds
  /\ \A s \in Fds : /\ table[s].fd \in 0..MaxFds /\ table[s].id \in 0..MaxIds
                    /\ table[s].kind \in {"free", "conn", "listener", "lent"}
  /\ owned \cap gone = {} /\ ids \in 0..MaxIds /\ backlog \in 0..MaxBacklog
  /\ pc \in {"idle", "waiting", "accepting"}
  /\ now \in 0..Horizon /\ limit \in 0..(Horizon + Budget)

(* Between two calls every open descriptor is one that some handle leads   *)
(* to, and every handle of the program leads to the socket it was given    *)
(* for: nothing leaks when the table is full or an accept fails, and a     *)
(* descriptor or a slot that is used again belongs to its new owner only.  *)
DescriptorsHeld ==
  pc = "idle" =>
    /\ \A f \in Fds : sock[f] # 0 =>
         f = lone \/ \E h \in owned : table[h.slot].fd = f /\ h.id = sock[f]
    /\ \A h \in owned :
         /\ table[h.slot].id = h.id
         /\ table[h.slot].fd # Lent => sock[table[h.slot].fd] = h.id

(* An accept is over when its timeout is, whether anyone connects or not.  *)
AcceptBounded == pc # "idle" => now <= Budget
=============================================================================
