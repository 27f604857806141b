------------------------------ MODULE Receive -------------------------------
(***************************************************************************)
(* One connection of a port and the program that keeps calling its read    *)
(* routine and, where there is one, the separate call that waits.  The     *)
(* peer sends records; TCP may deliver a record in two pieces, and TLS     *)
(* sends records without application data (session tickets).  OpenSSL      *)
(* takes one record at a time out of the kernel and keeps the bytes the    *)
(* caller's buffer has no room for, where no descriptor shows them.  Other *)
(* connections of the same thread fail and leave their errors in the       *)
(* thread's OpenSSL error queue.  A record has two bytes; time is counted  *)
(* from the start of a call and passes while the call waits.               *)
(***************************************************************************)
EXTENDS Naturals, Sequences

CONSTANTS Reading,     \* the policy of each port, as in ReadPorts
          SecureReads, \* the ports that read TLS connections only
          Budget,      \* the timeout the caller passes
          MaxUnits,    \* bound on what the peer sends
          MaxSignals,  \* bound on signals
          Horizon      \* bound on the clock of one call

VARIABLES
  port, secure,
  pipe,      \* what the kernel holds: whole records, pieces, tickets
  half,      \* the peer has sent the first piece of a record only
  units,     \* what the peer has sent so far
  ended,     \* how the peer ended the stream
  sent,      \* bytes the peer has sent in full
  held,      \* bytes taken from the kernel and not yet returned
  got,       \* bytes returned
  dirty,     \* errors of other connections are in the thread's queue
  pc, call, now, limit, signals, outcome

peerVars == <<half, units, ended, sent>>
vars == <<port, secure, pipe, peerVars, held, got, dirty, pc, call, now, limit,
          signals, outcome>>

Policy == Reading[port]

Init ==
  /\ port \in DOMAIN Reading
  /\ secure \in (IF port \in SecureReads THEN {TRUE} ELSE BOOLEAN)
  /\ pipe = <<>> /\ half = FALSE /\ units = 0 /\ ended = "no" /\ sent = 0
  /\ held = 0 /\ got = 0 /\ dirty = FALSE
  /\ pc = "idle" /\ call = "read" /\ now = 0 /\ limit = 0 /\ signals = 0
  /\ outcome = "none"

---------------------------------------------------------------------------
(* Slips a change to these routines could make; the properties below tell   *)
(* each of them from the code.                                              *)

\* A failure path that leaves its errors in the queue.
SlipOtherFails ==
  /\ secure /\ ~dirty
  /\ dirty' = TRUE
  /\ UNCHANGED <<port, secure, pipe, peerVars, held, got, pc, call, now, limit,
                 signals, outcome>>

\* The check for held bytes is lost.
SlipStartRead ==
  /\ pc = "idle"
  /\ pc' = IF Policy.order = "wait" THEN "waiting" ELSE "reading"
  /\ call' = "read" /\ now' = 0 /\ limit' = Budget
  /\ UNCHANGED <<port, secure, pipe, peerVars, held, got, dirty, signals,
                 outcome>>

\* Whatever SSL_read returns that is not positive is the end of the stream.
SlipNoRecordEnds ==
  pc' = "done" /\ outcome' = "eof" /\ UNCHANGED limit

\* The timeout is counted again for every wait of one call.
SlipNoRecordRestarts ==
  /\ pc' = IF Policy.again = "wait" THEN "waiting" ELSE "idle"
  /\ limit' = now + Budget /\ UNCHANGED outcome

---------------------------------------------------------------------------
\* The peer and the rest of the process.

Arrive(unit) ==
  /\ ended = "no" /\ units < MaxUnits
  /\ (unit = "tail") <=> half
  /\ unit = "ticket" => secure
  /\ half' = (unit = "head") /\ units' = units + 1
  /\ sent' = sent + (CASE unit = "data" -> 2
                       [] unit = "ticket" -> 0
                       [] unit = "head" -> IF secure THEN 0 ELSE 1
                       [] OTHER -> IF secure THEN 2 ELSE 1)
  /\ pipe' = Append(pipe, unit)
  /\ UNCHANGED <<port, secure, ended, held, got, dirty, pc, call, now, limit,
                 signals, outcome>>

PeerEnds(how) ==
  /\ ended = "no"
  /\ how = "notify" => secure /\ ~half
  /\ ended' = how
  /\ UNCHANGED <<port, secure, pipe, half, units, sent, held, got, dirty, pc,
                 call, now, limit, signals, outcome>>

\* Another connection of the thread fails, its failure is reported, and it is
\* closed: SSL_shutdown of a connection that is broken or was still shaking
\* hands adds an error after the report has emptied the queue.
OtherFails ==
  /\ secure /\ ~dirty
  /\ dirty' \in (CASE Policy.drains = "none" -> {TRUE}
                   [] Policy.drains = "all" /\ ~Policy.shuts -> {FALSE}
                   [] OTHER -> BOOLEAN)
  /\ UNCHANGED <<port, secure, pipe, peerVars, held, got, pc, call, now, limit,
                 signals, outcome>>

---------------------------------------------------------------------------
\* The calls.

\* A port that waits first does so only when nothing is held.
StartRead ==
  /\ pc = "idle"
  /\ pc' = IF Policy.order = "wait" /\ (held = 0 \/ Policy.own = "nobody")
           THEN "waiting" ELSE "reading"
  /\ call' = "read" /\ now' = 0 /\ limit' = Budget
  /\ UNCHANGED <<port, secure, pipe, peerVars, held, got, dirty, signals,
                 outcome>>

\* The separate wait; with bytes held, shim or caller go straight to a read.
StartPoll ==
  /\ pc = "idle" /\ Policy.poll # "none"
  /\ held = 0 \/ Policy.poll = "nobody"
  /\ pc' = "waiting" /\ call' = "poll" /\ now' = 0 /\ limit' = Budget
  /\ UNCHANGED <<port, secure, pipe, peerVars, held, got, dirty, signals,
                 outcome>>

Readable == pipe # <<>> \/ ended # "no"

Woken ==
  /\ pc = "waiting" /\ Readable
  /\ pc' = IF call = "read" THEN "reading" ELSE "idle"
  /\ UNCHANGED <<port, secure, pipe, peerVars, held, got, dirty, call, now,
                 limit, signals, outcome>>

Expired ==
  /\ pc = "waiting" /\ ~Readable /\ now >= limit
  /\ pc' = "idle"
  /\ UNCHANGED <<port, secure, pipe, peerVars, held, got, dirty, call, now,
                 limit, signals, outcome>>

Fails == pc' = "done" /\ outcome' = Policy.failed

Signal ==
  /\ pc = "waiting" /\ signals < MaxSignals
  /\ signals' = signals + 1
  /\ LET choice == IF call = "read" THEN Policy.signal ELSE Policy.pollSignal
     IN CASE choice = "resume"  -> UNCHANGED <<pc, limit, outcome>>
          [] choice = "restart" -> limit' = now + Budget /\ UNCHANGED <<pc, outcome>>
          [] choice = "return"  -> pc' = "idle" /\ UNCHANGED <<limit, outcome>>
          [] choice = "fail"    -> Fails /\ UNCHANGED limit
  /\ UNCHANGED <<port, secure, pipe, peerVars, held, got, dirty, call, now>>

---------------------------------------------------------------------------
\* One attempt to read.

\* SSL_get_error looks at the thread's queue before anything else.
Misled == secure /\ dirty /\ ~Policy.clears /\ Policy.judge # "sign"

Settle == dirty' = (dirty /\ ~Policy.clears)

\* No whole record was there.
NoRecord ==
  IF Misled \/ Policy.again = "fail"
  THEN Fails /\ UNCHANGED limit
  ELSE /\ pc' = IF Policy.again = "wait" THEN "waiting" ELSE "idle"
       /\ limit' = IF Policy.again = "wait" /\ Policy.clock = "wait"
                   THEN now + Budget ELSE limit
       /\ UNCHANGED outcome

\* How many of n bytes the caller gets.
Portion(n) == CASE Policy.step = "one" -> {1}
                [] Policy.step = "all" -> {n}
                [] Policy.step = "any" -> 1..n

\* Bytes stay with OpenSSL or in the port's buffer; a plain read leaves them
\* in the kernel.
Keeps == secure \/ Policy.step = "one"

ReadHeld ==
  /\ pc = "reading" /\ held > 0
  /\ \E n \in Portion(held) : got' = got + n /\ held' = held - n
  /\ pc' = "idle" /\ Settle
  /\ UNCHANGED <<port, secure, pipe, peerVars, call, now, limit, signals,
                 outcome>>

ReadRecord ==
  /\ pc = "reading" /\ held = 0 /\ pipe # <<>>
  /\ LET unit  == Head(pipe)
         bytes == IF unit = "data" \/ secure THEN 2 ELSE 1
     IN /\ unit \in (IF secure THEN {"data", "tail"} ELSE {"data", "head", "tail"})
        /\ \E n \in Portion(bytes) :
             /\ got' = got + n
             /\ held' = IF Keeps THEN bytes - n ELSE 0
             /\ pipe' = IF Keeps \/ n = bytes
                        THEN Tail(pipe) ELSE <<"tail">> \o Tail(pipe)
  /\ pc' = "idle" /\ Settle
  /\ UNCHANGED <<port, secure, peerVars, call, now, limit, signals, outcome>>

\* A piece or a ticket: a blocking socket keeps SSL_read for what follows.
ReadPart ==
  /\ pc = "reading" /\ held = 0 /\ pipe # <<>> /\ secure
  /\ Head(pipe) \in {"head", "ticket"}
  /\ pipe' = Tail(pipe) /\ Settle
  /\ IF Policy.blocks THEN UNCHANGED <<pc, limit, outcome>> ELSE NoRecord
  /\ UNCHANGED <<port, secure, peerVars, held, got, call, now, signals>>

ReadNothing ==
  /\ pc = "reading" /\ held = 0 /\ ~Readable /\ ~Policy.blocks
  /\ Settle /\ NoRecord
  /\ UNCHANGED <<port, secure, pipe, peerVars, held, got, call, now, signals>>

\* An end without close_notify is a system call error to one version of
\* OpenSSL and a protocol error to another.
ReadEnd ==
  /\ pc = "reading" /\ held = 0 /\ pipe = <<>> /\ ended # "no"
  /\ pc' = "done" /\ Settle
  /\ outcome' \in (IF Misled /\ Policy.judge = "queue" THEN {Policy.failed}
                   ELSE CASE ended = "notify" -> {"eof"}
                          [] ended = "reset" -> {Policy.failed}
                          [] ~secure -> {"eof"}
                          [] OTHER -> {Policy.silent, Policy.failed})
  /\ UNCHANGED <<port, secure, pipe, peerVars, held, got, call, now, limit,
                 signals>>

\* A signal ends a read that blocks.
SignalRead ==
  /\ pc = "reading" /\ held = 0 /\ ~Readable /\ Policy.blocks
  /\ signals < MaxSignals
  /\ signals' = signals + 1
  /\ Settle /\ NoRecord
  /\ UNCHANGED <<port, secure, pipe, peerVars, held, got, call, now>>

Tick ==
  /\ \/ pc = "waiting" /\ ~Readable /\ now < limit
     \/ pc = "reading" /\ held = 0 /\ ~Readable /\ Policy.blocks
  /\ now < Horizon
  /\ now' = now + 1
  /\ UNCHANGED <<port, secure, pipe, peerVars, held, got, dirty, pc, call,
                 limit, signals, outcome>>

Next ==
  \/ \E unit \in {"data", "head", "tail", "ticket"} : Arrive(unit)
  \/ \E how \in {"notify", "fin", "reset"} : PeerEnds(how)
  \/ OtherFails
  \/ StartRead \/ StartPoll \/ Woken \/ Expired \/ Signal
  \/ ReadHeld \/ ReadRecord \/ ReadPart \/ ReadNothing \/ ReadEnd \/ SignalRead
  \/ Tick

Spec == Init /\ [][Next]_vars

---------------------------------------------------------------------------
TypeOK ==
  /\ Len(pipe) <= MaxUnits /\ units \in 0..MaxUnits
  /\ held \in 0..1 /\ got + held <= sent
  /\ pc \in {"idle", "waiting", "reading", "done"}
  /\ now \in 0..Horizon /\ limit \in 0..(Horizon + Budget)
  /\ (outcome = "none") <=> (pc # "done")

(* A stream is reported as ended only when the peer ended it, and only      *)
(* after every byte that had arrived in full was returned: neither a read   *)
(* that found nothing, nor half a record, nor a ticket is taken for the end.*)
EndIsEnd == outcome = "eof" => ended # "no" /\ got = sent

(* No call waits for the descriptor while bytes the peer sent are already   *)
(* in the process: the descriptor says nothing about them, so the wait      *)
(* would last until the peer happens to send more.                          *)
NoByteStranded == pc = "waiting" => held = 0

(* A call is over when its timeout is, even if the wait was for a record    *)
(* of which only a part came, and whatever the signals.                     *)
ReceiveBounded == pc \in {"waiting", "reading"} => now <= Budget

(* A connection is reported as broken only because of its own peer, or      *)
(* because of a signal in a port that lets signals fail a wait: a failure   *)
(* of another connection of the thread does not spread to it.               *)
FailureIsolated ==
  outcome = "error" =>
    \/ ended # "no"
    \/ signals > 0 /\ "fail" \in {Policy.signal, Policy.pollSignal, Policy.again}
=============================================================================
