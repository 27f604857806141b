----------------------------- MODULE Transports -----------------------------
(***************************************************************************)
(* The native transports of this repository's clients: a call that opens a *)
(* connection (Dial), the reads (Receive) and the writes (Send) of an open *)
(* one, and the table or the objects a port keeps its sockets in           *)
(* (Handles).  A behaviour is one of these four for one port, under the    *)
(* same clock and the same budget.  A promise that some ports do not keep   *)
(* names them: the predicates below are read off the ports' policies.       *)
(***************************************************************************)
EXTENDS Naturals, Sequences, FiniteSets, DialPorts, ReadPorts, SendPorts,
        HandlePorts

CONSTANTS
  Budget, MaxSignals,                 \* of every call
  Addresses, AddressBudget, Flights,  \* of Dial
  MaxUnits,                           \* of Receive
  Length, Frames, Capacity,           \* of Send
  Slots, MaxFds, MaxIds, MaxBacklog   \* of Handles

VARIABLES
  stage,                                       \* which of the four
  port, secure, pc, now, limit, signals,       \* of several
  peer, tlsPeer, full, address, flights, open, slot, resolved, until, since,
  late,                                        \* of Dial
  pipe, half, units, ended, sent, held, got, dirty, call,  \* of Receive
  outcome,                                     \* of Dial and Receive
  frame, done, part, start, wire, room, broken, failed,    \* of Send
  sock, table, lone, owned, gone, ids, backlog,            \* of Handles
  result                                       \* of Send and Handles

D == INSTANCE Dial    WITH Horizon <- 4 * Budget
R == INSTANCE Receive WITH Horizon <- 3 * Budget
S == INSTANCE Send    WITH Horizon <- 2 * Budget
H == INSTANCE Handles WITH Horizon <- 3 * Budget

Stages == {"dial", "receive", "send", "handles"}
PortsOf(s) == CASE s = "dial"    -> DOMAIN Dialing
                [] s = "receive" -> DOMAIN Reading
                [] s = "send"    -> DOMAIN Sending
                [] s = "handles" -> DOMAIN Handling

\* A port whose call may outlive its timeout: a wait counted anew for every
\* address or after every signal, a routine that blocks, a wait without limit.
LateDial(p) ==
  \/ Dialing[p].clock \in {"address", "none"}
  \/ Dialing[p].signal = "restart"
  \/ Dialing[p].shake = "none"
LateRead(p) ==
  \/ Reading[p].blocks
  \/ Reading[p].clock = "wait"
  \/ "restart" \in {Reading[p].signal, Reading[p].pollSignal}
LateWrite(p) == Sending[p].blocks \/ ~Sending[p].limited
LateAccept(p) ==
  \/ Handling[p].signal = "restart"
  \/ Handling[p].blocking /\ Handling[p].accepts = "try"

\* BCPL's connect and accept forget a socket that finds the table full.
Leaky == {"bcpl"}

\* The readiness check of these forgets the buffer of its own shim.
Forgetful == {"verilog", "vhdl"}

\* A non-blocking SSL_read judged by an error queue in which another connection
\* of the thread may have left an error, at its failure or when it was closed.
Mixed(p) == /\ ~Reading[p].clears /\ ~Reading[p].blocks
            /\ Reading[p].drains # "all" \/ Reading[p].shuts

ASSUME TransportAssumption ==
  /\ {Budget, Addresses, AddressBudget, Flights, MaxUnits, Length, Frames,
      Capacity, Slots, MaxFds, MaxIds} \subseteq Nat \ {0}
  /\ {MaxSignals, MaxBacklog} \subseteq Nat
  /\ Slots <= MaxFds

---------------------------------------------------------------------------
dialVars == <<peer, tlsPeer, full, address, flights, open, slot, resolved, until,
              since, late>>
receiveVars == <<pipe, half, units, ended, sent, held, got, dirty, call>>
sendVars == <<frame, done, part, start, wire, room, broken, failed>>
handleVars == <<sock, table, lone, owned, gone, ids, backlog>>

\* What the variables of one part are while another is at work.
NoDial == /\ peer = 0 /\ tlsPeer = 0 /\ full = 0 /\ address = 0 /\ flights = 0
          /\ open = 0 /\ slot = 0 /\ resolved = 0 /\ until = 0 /\ since = 0
          /\ late = 0
NoReceive == /\ pipe = 0 /\ half = 0 /\ units = 0 /\ ended = 0 /\ sent = 0
             /\ held = 0 /\ got = 0 /\ dirty = 0 /\ call = 0
NoSend == /\ frame = 0 /\ done = 0 /\ part = 0 /\ start = 0 /\ wire = 0
          /\ room = 0 /\ broken = 0 /\ failed = 0
NoHandles == /\ sock = 0 /\ table = 0 /\ lone = 0 /\ owned = 0 /\ gone = 0
             /\ ids = 0 /\ backlog = 0

vars == <<stage, port, secure, pc, now, limit, signals, dialVars, receiveVars,
          outcome, sendVars, handleVars, result>>

Init ==
  /\ stage \in Stages
  /\ port \in PortsOf(stage)
  /\ IF stage = "dial"    THEN D!Init ELSE NoDial
  /\ IF stage = "receive" THEN R!Init ELSE NoReceive
  /\ IF stage = "send"    THEN S!Init ELSE NoSend
  /\ IF stage = "handles" THEN H!Init ELSE NoHandles
  /\ stage \in {"send", "handles"} => outcome = "none"
  /\ stage \in {"dial", "receive"} => result = "none"
  /\ stage = "handles" => secure = FALSE

Dialling ==
  /\ stage = "dial" /\ D!Next
  /\ UNCHANGED <<stage, receiveVars, sendVars, handleVars, result>>

Receiving ==
  /\ stage = "receive" /\ R!Next
  /\ UNCHANGED <<stage, dialVars, sendVars, handleVars, result>>

Delivering ==
  /\ stage = "send" /\ S!Next
  /\ UNCHANGED <<stage, dialVars, receiveVars, outcome, handleVars>>

Managing ==
  /\ stage = "handles" /\ H!Next
  /\ UNCHANGED <<stage, secure, dialVars, receiveVars, outcome, sendVars>>

Next == Dialling \/ Receiving \/ Delivering \/ Managing

Spec == Init /\ [][Next]_vars

---------------------------------------------------------------------------
(* A connect routine ends with one socket, one slot and a verified peer, or *)
(* with nothing at all, on whichever of its early returns it leaves.        *)
OneOrNothing ==
  stage = "dial" =>
    /\ port \notin Leaky => D!OneOrNothing
    /\ D!Established

(* An address that is refused does not hide the ones after it: a call that  *)
(* saw no signal and no wait expire fails only when all of them refused, or *)
(* at the first that accepted, because of its TLS peer.                     *)
FallsBack == stage = "dial" => D!FallsBack

(* Every call that was given a timeout is over when the timeout is, whatever*)
(* addresses, peer and signals do: connecting and shaking hands, reading a  *)
(* record of which a part came, writing to a peer that does not read,       *)
(* accepting from nobody.                                                   *)
DeadlinesKept ==
  CASE stage = "dial"    -> ~LateDial(port)   => D!DialBounded
    [] stage = "receive" -> ~LateRead(port)   => R!ReceiveBounded
    [] stage = "send"    -> ~LateWrite(port)  => S!SendBounded
    [] stage = "handles" -> ~LateAccept(port) => H!AcceptBounded

(* A stream is reported as ended only when the peer ended it and only after *)
(* every byte that had arrived in full was returned - in a mixed port, as   *)
(* long as no other connection has left an error in the queue.              *)
EndIsEnd == stage = "receive" => R!EndIsEnd \/ (Mixed(port) /\ dirty)

(* No call waits for a descriptor while bytes it would return are already   *)
(* in the process, with OpenSSL or in a buffer of the port's own.  Only the *)
(* separate readiness check of a forgetful port does, none of its reads.    *)
NoByteStranded ==
  stage = "receive" => R!NoByteStranded \/ (port \in Forgetful /\ call = "poll")

(* A connection is reported as broken only because of its own peer or of a  *)
(* signal, never because another connection of the thread failed - in a     *)
(* mixed port, as long as that left no error in the queue.                  *)
FailureIsolated ==
  stage = "receive" => R!FailureIsolated \/ (Mixed(port) /\ dirty)

(* The peer receives the frames whole, once and in order, and a frame       *)
(* reported as written has left entirely, however often a write stalls, is  *)
(* interrupted, returns early or is resumed.                                *)
WellFormed == stage = "send" => S!WellFormed /\ S!ReportedIsWritten

(* Between two calls every open descriptor is one that some handle leads to *)
(* and every handle leads to the socket it was given for, through tables    *)
(* that fill up, accepts that fail, handles closed twice, and descriptors   *)
(* and slots that are used again.                                           *)
DescriptorsHeld ==
  stage = "handles" /\ port \notin Leaky => H!DescriptorsHeld
=============================================================================
