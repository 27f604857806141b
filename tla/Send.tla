-------------------------------- MODULE Send --------------------------------
(***************************************************************************)
(* A program that sends frames with a port's write routine over a socket   *)
(* whose peer reads when it likes, may stop reading, and may break the     *)
(* connection.  A frame is cut in units, the TLS records of a long frame.  *)
(* SSL_write reports nothing until the whole buffer is out, unless partial *)
(* writes are on; what it put on the wire before stays there all the same. *)
(* A program that was told how far a frame got either sends the rest or    *)
(* closes the connection; one whose write failed closes it.  Time is       *)
(* counted from the start of a call.                                       *)
(***************************************************************************)
EXTENDS Naturals, Sequences

CONSTANTS Sending,      \* the policy of each port, as in SendPorts
          SecureWrites, \* the ports that write TLS connections only
          Length,      \* units of a frame
          Frames,      \* bound on the frames sent
          Capacity,    \* units the socket takes before the peer reads
          Budget,      \* the timeout of a call
          MaxSignals,  \* bound on signals
          Horizon      \* bound on the clock of one call

VARIABLES
  port, secure,
  frame,     \* the frame being sent
  done,      \* units of it the routine knows to be written
  part,      \* units beyond those that an unfinished SSL_write put out
  start,     \* done when the call began
  wire,      \* every unit that left
  room,      \* units the socket can still take
  broken,    \* the peer reset the connection
  failed,    \* the routine's own mark on a connection it must not use again
  pc, result, now, limit, signals

vars == <<port, secure, frame, done, part, start, wire, room, broken, failed,
          pc, result, now, limit, signals>>

Policy == Sending[port]

Init ==
  /\ port \in DOMAIN Sending
  /\ secure \in (IF port \in SecureWrites THEN {TRUE} ELSE BOOLEAN)
  /\ frame = 1 /\ done = 0 /\ part = 0 /\ start = 0 /\ wire = <<>>
  /\ room = Capacity /\ broken = FALSE /\ failed = FALSE
  /\ pc = "idle" /\ result = "none" /\ now = 0 /\ limit = 0 /\ signals = 0

---------------------------------------------------------------------------
(* Slips a change to these routines could make; the properties below tell   *)
(* each of them from the code.                                              *)

\* A caller that sends the whole frame again after a short write.
SlipBegin ==
  /\ pc = "idle" /\ frame <= Frames
  /\ pc' = "writing" /\ done' = 0 /\ start' = 0 /\ now' = 0 /\ limit' = Budget
  /\ result' = "none"
  /\ UNCHANGED <<port, secure, frame, part, wire, room, broken, failed, signals>>

---------------------------------------------------------------------------
\* The peer.

PeerReads ==
  /\ room < Capacity
  /\ room' = room + 1
  /\ UNCHANGED <<port, secure, frame, done, part, start, wire, broken, failed,
                 pc, result, now, limit, signals>>

PeerBreaks ==
  /\ ~broken
  /\ broken' = TRUE
  /\ UNCHANGED <<port, secure, frame, done, part, start, wire, room, failed, pc,
                 result, now, limit, signals>>

---------------------------------------------------------------------------
\* The program.

\* A new frame, or the rest of the one before.
Begin ==
  /\ pc = "idle" /\ frame <= Frames
  /\ pc' = "writing" /\ start' = done /\ now' = 0 /\ limit' = Budget
  /\ result' = "none"
  /\ UNCHANGED <<port, secure, frame, done, part, wire, room, broken, failed,
                 signals>>

GiveUp ==
  /\ pc = "idle" /\ done + part > 0
  /\ pc' = "closed"
  /\ UNCHANGED <<port, secure, frame, done, part, start, wire, room, broken,
                 failed, result, now, limit, signals>>

---------------------------------------------------------------------------
\* The write routine.

\* One unit leaves.  Without partial writes SSL_write counts it at the end.
Put ==
  /\ pc = "writing" /\ ~broken /\ room > 0 /\ done + part < Length
  /\ wire' = Append(wire, <<frame, done + part + 1>>)
  /\ room' = room - 1
  /\ IF ~secure \/ Policy.partial
     THEN done' = done + 1 /\ UNCHANGED part
     ELSE IF done + part + 1 = Length THEN done' = Length /\ part' = 0
                                      ELSE part' = part + 1 /\ UNCHANGED done
  /\ UNCHANGED <<port, secure, frame, start, broken, failed, pc, result, now,
                 limit, signals>>

Complete ==
  /\ pc = "writing" /\ done = Length
  /\ pc' = "idle" /\ result' = "ok"
  /\ frame' = frame + 1 /\ done' = 0 /\ start' = 0
  /\ UNCHANGED <<port, secure, part, wire, room, broken, failed, now, limit, signals>>

\* The socket is full: WANT_WRITE or EAGAIN.
Stall ==
  /\ pc = "writing" /\ ~broken /\ room = 0 /\ done < Length /\ ~Policy.blocks
  /\ IF \/ Policy.full = "return"
        \/ Policy.full = "once" /\ done > start
     THEN pc' = "idle" /\ result' = "part"
     ELSE pc' = "waiting" /\ UNCHANGED result
  /\ UNCHANGED <<port, secure, frame, done, part, start, wire, room, broken,
                 failed, now, limit, signals>>

Unfull ==
  /\ pc = "waiting" /\ (room > 0 \/ broken)
  /\ pc' = "writing"
  /\ UNCHANGED <<port, secure, frame, done, part, start, wire, room, broken,
                 failed, result, now, limit, signals>>

Fails == pc' = "closed" /\ result' = "error"

Expired ==
  /\ pc = "waiting" /\ Policy.limited /\ now >= limit /\ room = 0 /\ ~broken
  /\ CASE Policy.late = "count" ->
            pc' = "idle" /\ result' = "part" /\ UNCHANGED failed
       [] Policy.late = "timeout" ->
            pc' = "closed" /\ result' = "timeout" /\ UNCHANGED failed
       [] Policy.late = "poison" /\ done > 0 -> Fails /\ failed' = TRUE
       [] OTHER ->
            pc' = "closed" /\ result' = "untouched" /\ UNCHANGED failed
  /\ UNCHANGED <<port, secure, frame, done, part, start, wire, room, broken,
                 now, limit, signals>>

\* A broken connection fails the write, except that some report a part first.
Refused ==
  /\ pc = "writing" /\ broken /\ done < Length
  /\ IF Policy.signal = "report" /\ done > start
     THEN pc' = "idle" /\ result' = "part" /\ UNCHANGED failed
     ELSE Fails /\ failed' = (Policy.late = "poison")
  /\ UNCHANGED <<port, secure, frame, done, part, start, wire, room, broken,
                 now, limit, signals>>

Signal ==
  /\ signals < MaxSignals /\ ~broken /\ room = 0
  /\ \/ pc = "waiting"
     \/ pc = "writing" /\ Policy.blocks /\ done < Length
  /\ signals' = signals + 1
  /\ CASE Policy.signal = "resume" -> UNCHANGED <<pc, result>>
       [] Policy.signal = "fail"   -> Fails
       [] Policy.signal = "secure" -> IF secure THEN Fails ELSE UNCHANGED <<pc, result>>
       [] Policy.signal = "report" ->
            IF done > start THEN pc' = "idle" /\ result' = "part" ELSE Fails
  /\ UNCHANGED <<port, secure, frame, done, part, start, wire, room, broken,
                 failed, now, limit>>

Tick ==
  /\ room = 0 /\ ~broken /\ now < Horizon
  /\ \/ pc = "waiting" /\ (Policy.limited => now < limit)
     \/ pc = "writing" /\ Policy.blocks /\ done < Length
  /\ now' = now + 1
  /\ UNCHANGED <<port, secure, frame, done, part, start, wire, room, broken,
                 failed, pc, result, limit, signals>>

Next ==
  \/ PeerReads \/ PeerBreaks \/ Begin \/ GiveUp
  \/ Put \/ Complete \/ Stall \/ Unfull \/ Expired \/ Refused \/ Signal \/ Tick

Spec == Init /\ [][Next]_vars

---------------------------------------------------------------------------
TypeOK ==
  /\ frame \in 1..(Frames + 1) /\ done \in 0..Length /\ part \in 0..Length
  /\ start \in 0..done
  /\ Len(wire) <= Length * Frames /\ room \in 0..Capacity
  /\ pc \in {"idle", "writing", "waiting", "closed"}
  /\ now \in 0..Horizon /\ limit \in 0..(Horizon + Budget)

(* The peer receives the frames whole and in order, without a gap and      *)
(* without a unit twice, however often a write stalls, is interrupted,     *)
(* returns early or is resumed; only the last frame may be cut off.        *)
WellFormed ==
  \A i \in DOMAIN wire :
    wire[i] = <<1 + ((i - 1) \div Length), 1 + ((i - 1) % Length)>>

(* A frame reported as written has left entirely, and what a routine       *)
(* reports of an unfinished one has left too.                              *)
ReportedIsWritten == Len(wire) >= (frame - 1) * Length + done

(* A write call is over when its timeout is, whether the peer reads or not.*)
SendBounded == pc \in {"writing", "waiting"} => now <= Budget
=============================================================================
