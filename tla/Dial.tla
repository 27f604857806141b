-------------------------------- MODULE Dial --------------------------------
(***************************************************************************)
(* One call of a port's connect routine.  The addresses of the host and    *)
(* the TLS peer behave as the environment likes: an address accepts, is    *)
(* refused or stays silent; the peer completes the handshake, shows a      *)
(* certificate that does not verify, breaks off, or stops answering in the *)
(* middle.  Signals may interrupt any wait.  A wait returns when what it   *)
(* waits for happened or when its limit is reached; time passes only while *)
(* the routine waits.                                                      *)
(***************************************************************************)
EXTENDS Naturals

CONSTANTS Dialing,        \* the policy of each port, as in DialPorts
          PlainOnly,      \* the ports whose routine has no handshake
          Addresses,      \* how many addresses the name resolves to
          Budget,         \* the timeout the caller passes
          AddressBudget,  \* the constant timeout of a "address" clock
          Flights,        \* the round trips of a handshake
          MaxSignals,     \* bound on signals during the call
          Horizon         \* bound on the clock

VARIABLES
  port, peer, tlsPeer, secure, full,   \* chosen when the call begins
  pc,         \* where the routine is
  address,    \* the address it tries
  flights,    \* round trips the handshake still needs
  open,       \* sockets this call opened and did not close
  slot,       \* whether the call holds a slot of the handle table
  now,
  resolved,   \* when the name lookup ended
  until,      \* the deadline in force
  since, limit,  \* when the current wait began, and when it gives up
  signals,
  late,       \* whether some wait gave up
  outcome

environment == <<port, peer, tlsPeer, secure, full>>
clocks == <<now, resolved, until, since, limit>>
vars == <<environment, pc, address, flights, open, slot, clocks, signals,
          late, outcome>>

Policy == Dialing[port]

Later(a, b) == IF a > b THEN a ELSE b

\* A table can be full only if there is one.
Init ==
  /\ port \in DOMAIN Dialing
  /\ peer \in [1..Addresses -> {"accept", "refuse", "silent"}]
  /\ tlsPeer \in {"trusted", "untrusted", "alert", "silent"}
  /\ secure \in (IF port \in PlainOnly THEN {FALSE} ELSE BOOLEAN)
  /\ full \in (IF Policy.slot = "none" THEN {FALSE} ELSE BOOLEAN)
  /\ pc = "begin" /\ address = 0 /\ flights = Flights
  /\ open = 0 /\ slot = FALSE
  /\ now = 0 /\ resolved = 0 /\ until = 0 /\ since = 0 /\ limit = 0
  /\ signals = 0 /\ late = FALSE /\ outcome = "none"

---------------------------------------------------------------------------
(* Slips a change to these routines could make; the properties below tell   *)
(* each of them from the code.                                              *)

\* A failure path that forgets the slot.
SlipFinish(how, kept) ==
  /\ pc' = "done" /\ outcome' = how /\ slot' = slot /\ open' = kept

\* The loop gives up one address too early.
SlipConnect ==
  /\ pc = "socket"
  /\ IF address >= Addresses
     THEN SlipFinish("fail", 0) /\ UNCHANGED <<since, limit>>
     ELSE /\ pc' = "connecting" /\ open' = open + 1
          /\ since' = now /\ limit' = now + Budget
          /\ UNCHANGED <<slot, outcome>>
  /\ UNCHANGED <<environment, address, flights, now, resolved, until, signals,
                 late>>

---------------------------------------------------------------------------
\* The call ends; a failed one gives its slot back.
Finish(how, kept) ==
  /\ pc' = IF kept > 0 /\ how = "fail" /\ Policy.cleanup = "collector"
           THEN "garbage" ELSE "done"
  /\ outcome' = how
  /\ slot' = (slot /\ how = "ok")
  /\ open' = kept

Waits(clock) ==
  /\ since' = now
  /\ limit' = CASE clock = "none"    -> Horizon
                [] clock = "address" -> now + AddressBudget
                [] OTHER             -> Later(until, now)

---------------------------------------------------------------------------
Begin ==
  /\ pc = "begin"
  /\ until' = now + Budget
  /\ IF Policy.slot = "first" /\ full
     THEN Finish("fail", 0)
     ELSE /\ pc' = "resolve" /\ slot' = (Policy.slot = "first")
          /\ UNCHANGED <<open, outcome>>
  /\ UNCHANGED <<environment, address, flights, now, resolved, since, limit,
                 signals, late>>

\* getaddrinfo takes the time it takes.
Resolve ==
  /\ pc = "resolve"
  /\ \E d \in 0..1 :
       /\ now' = now + d
       /\ resolved' = now + d
       /\ until' = IF Policy.clock = "resolved" THEN now + d + Budget ELSE until
  /\ \/ pc' = "socket" /\ address' = 1 /\ UNCHANGED <<open, slot, outcome>>
     \/ Finish("fail", 0) /\ UNCHANGED address
  /\ UNCHANGED <<environment, flights, since, limit, signals, late>>

\* socket, non-blocking mode, connect; the loop ends with the last address.
Connect ==
  /\ pc = "socket"
  /\ IF address > Addresses
     THEN Finish("fail", 0) /\ UNCHANGED <<since, limit>>
     ELSE /\ pc' = "connecting" /\ open' = open + 1
          /\ Waits(Policy.clock) /\ UNCHANGED <<slot, outcome>>
  /\ UNCHANGED <<environment, address, flights, now, resolved, until, signals,
                 late>>

TryNext ==
  /\ pc' = "socket" /\ address' = address + 1 /\ open' = open - 1
  /\ UNCHANGED <<slot, outcome>>

\* The socket is writable: SO_ERROR says whether the connect succeeded.
Answered ==
  /\ pc = "connecting" /\ peer[address] # "silent"
  /\ IF peer[address] = "accept"
     THEN pc' = "connected" /\ UNCHANGED <<address, open, slot, outcome>>
     ELSE TryNext
  /\ UNCHANGED <<environment, flights, clocks, signals, late>>

Expired ==
  /\ pc = "connecting" /\ now >= limit /\ Policy.clock # "none"
  /\ late' = TRUE
  /\ IF Policy.expired = "next" THEN TryNext
                                ELSE Finish("fail", 0) /\ UNCHANGED address
  /\ UNCHANGED <<environment, flights, clocks, signals>>

\* A table searched last may be full now that there is a socket.
Connected ==
  /\ pc = "connected"
  /\ IF Policy.slot = "last" /\ full
     THEN /\ Finish("fail", IF Policy.full = "keep" THEN open ELSE 0)
          /\ UNCHANGED <<until, since, limit>>
     ELSE /\ IF secure
             THEN /\ pc' = "shaking" /\ slot' = (Policy.slot # "none")
                  /\ until' = IF Policy.shake = "again" THEN now + Budget
                                                        ELSE until
                  /\ since' = now
                  /\ limit' = IF Policy.shake = "none" THEN Horizon
                                                       ELSE Later(until', now)
                  /\ UNCHANGED <<open, outcome>>
             ELSE /\ pc' = "done" /\ outcome' = "ok"
                  /\ slot' = (Policy.slot # "none")
                  /\ UNCHANGED <<open, until, since, limit>>
  /\ UNCHANGED <<environment, address, flights, now, resolved, signals, late>>

\* One more round trip; the peer may stop answering after the first.
Flight ==
  /\ pc = "shaking" /\ flights > 1
  /\ flights' = flights - 1
  /\ Waits(Policy.shake)
  /\ UNCHANGED <<environment, pc, address, open, slot, now, resolved, until,
                 signals, late, outcome>>

\* The last flight decides; the certificate is checked before success.
Shaken ==
  /\ pc = "shaking" /\ flights = 1 /\ tlsPeer # "silent"
  /\ IF tlsPeer = "trusted"
     THEN pc' = "done" /\ outcome' = "ok" /\ UNCHANGED <<open, slot>>
     ELSE Finish("fail", IF Policy.cleanup = "collector" THEN open ELSE 0)
  /\ UNCHANGED <<environment, address, flights, clocks, signals, late>>

ShakeExpired ==
  /\ pc = "shaking" /\ now >= limit /\ Policy.shake # "none"
  /\ late' = TRUE
  /\ Finish("fail", IF Policy.cleanup = "collector" THEN open ELSE 0)
  /\ UNCHANGED <<environment, address, flights, clocks, signals>>

\* A signal interrupts a wait.
Signal ==
  /\ pc \in {"connecting", "shaking"} /\ signals < MaxSignals
  /\ signals' = signals + 1
  /\ LET choice == IF pc = "connecting" THEN Policy.signal
                                        ELSE Policy.shakeSignal
     IN CASE choice = "resume" ->
               UNCHANGED <<pc, address, open, slot, since, limit, outcome>>
          [] choice = "restart" ->
               /\ since' = now /\ limit' = now + (limit - since)
               /\ UNCHANGED <<pc, address, open, slot, outcome>>
          [] choice = "fail" /\ pc = "connecting" ->
               TryNext /\ UNCHANGED <<since, limit>>
          [] OTHER ->
               Finish("fail", 0) /\ UNCHANGED <<address, since, limit>>
  /\ UNCHANGED <<environment, flights, now, resolved, until, late>>

\* The finalizer of a connection object that nothing refers to any more.
Collect ==
  /\ pc = "garbage"
  /\ pc' = "done" /\ open' = 0
  /\ UNCHANGED <<environment, address, flights, slot, clocks, signals, late,
                 outcome>>

Tick ==
  /\ pc \in {"connecting", "shaking"} /\ now < limit /\ now < Horizon
  /\ now' = now + 1
  /\ UNCHANGED <<environment, pc, address, flights, open, slot, resolved, until,
                 since, limit, signals, late, outcome>>

Next ==
  \/ Begin \/ Resolve \/ Connect \/ Answered \/ Expired \/ Connected
  \/ Flight \/ Shaken \/ ShakeExpired \/ Signal \/ Collect \/ Tick

Spec == Init /\ [][Next]_vars

---------------------------------------------------------------------------
TypeOK ==
  /\ pc \in {"begin", "resolve", "socket", "connecting", "connected",
             "shaking", "garbage", "done"}
  /\ address \in 0..(Addresses + 1) /\ flights \in 1..Flights
  /\ open \in 0..1 /\ slot \in BOOLEAN
  /\ now \in 0..Horizon /\ since \in 0..now
  /\ signals \in 0..MaxSignals /\ late \in BOOLEAN
  /\ outcome \in {"none", "ok", "fail"}

(* A call that ends leaves exactly one socket and one slot if it succeeded  *)
(* and nothing at all if it failed, on whichever of its many early returns  *)
(* it left: a full table, a refused or silent address, a signal, a broken   *)
(* or expired handshake.                                                    *)
OneOrNothing ==
  pc = "done" =>
    /\ open = (IF outcome = "ok" THEN 1 ELSE 0)
    /\ slot = (outcome = "ok" /\ Policy.slot # "none")

(* A connection reported as open is one whose connect really succeeded and, *)
(* if it is a TLS connection, whose peer was verified: a writable socket is *)
(* not a connected one, and the address that accepted is the one in use.    *)
Established ==
  outcome = "ok" =>
    /\ peer[address] = "accept"
    /\ secure => tlsPeer = "trusted" /\ flights = 1

(* An address that is refused does not hide the ones after it: once the     *)
(* name is resolved and a slot is there, and if no wait expired and no      *)
(* signal came, the call fails only when every address refuses, or when the *)
(* first that does not is one whose TLS peer could not be verified.         *)
FallsBack ==
  outcome = "fail" /\ address >= 1 /\ ~full /\ ~late /\ signals = 0 =>
    /\ \A a \in 1..Addresses : a < address => peer[a] = "refuse"
    /\ address <= Addresses =>
         peer[address] = "accept" /\ secure /\ tlsPeer # "trusted"

\* What the port's clocks add up to, counted from the end of the lookup.
Promise ==
  (IF Policy.clock = "address" THEN Addresses * AddressBudget ELSE Budget)
  + (IF secure /\ Policy.shake = "again" THEN Budget ELSE 0)

(* The routine is still running only until its deadline, whatever the      *)
(* addresses, the peer and the signals do.                                 *)
DialBounded ==
  pc \in {"connecting", "connected", "shaking"} => now <= resolved + Promise
=============================================================================
