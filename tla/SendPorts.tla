----------------------------- MODULE SendPorts ------------------------------
(***************************************************************************)
(* How each native transport of this repository writes to a connection, as *)
(* a record that module Send gives its meaning.                            *)
(*                                                                         *)
(*   blocks   the socket is a blocking one                                 *)
(*   partial  SSL_write may return after a part of its buffer              *)
(*   full     when the socket is full the routine "return"s what it wrote, *)
(*            "wait"s and goes on, or waits only while it wrote nothing    *)
(*            ("once")                                                     *)
(*   limited  the wait has a deadline                                      *)
(*   late     a deadline that passes: the routine gives the "count", a     *)
(*            bare "timeout", or "poison"s a connection that took a part   *)
(*   signal   an interrupted wait, or blocking write, "resume"s, "fail"s,  *)
(*            "report"s what was written if that is not nothing, or fails  *)
(*            if it is a "secure" connection                               *)
(***************************************************************************)
EXTENDS Records

Writes(blocks, partial) == [blocks |-> blocks, partial |-> partial]
WhenFull(does, limited, expired) ==
  [full |-> does, limited |-> limited, late |-> expired]
Signals(signal) == [signal |-> signal]

\* One attempt; the caller keeps the rest and its deadline.
algol60Write == Writes(FALSE, FALSE) ++ WhenFull("return", TRUE, "count") ++ Signals("resume")
simulaWrite  == Writes(FALSE, FALSE) ++ WhenFull("return", TRUE, "count") ++ Signals("resume")
snobol4Write == Writes(FALSE, FALSE) ++ WhenFull("return", TRUE, "count") ++ Signals("resume")
forthWrite   == Writes(FALSE, FALSE) ++ WhenFull("return", TRUE, "count") ++ Signals("resume")
oberonWrite  == Writes(FALSE, FALSE) ++ WhenFull("return", TRUE, "count") ++ Signals("resume")
modula2Write == Writes(FALSE, FALSE) ++ WhenFull("return", TRUE, "count") ++ Signals("resume")
idrisWrite   == Writes(FALSE, FALSE) ++ WhenFull("return", TRUE, "count") ++ Signals("resume")
ioWrite      == Writes(FALSE, TRUE)  ++ WhenFull("return", TRUE, "count") ++ Signals("resume")

\* A loop over a blocking socket.
rexxSend     == Writes(TRUE, FALSE) ++ WhenFull("wait", FALSE, "count") ++ Signals("report")
iconSend     == Writes(TRUE, FALSE) ++ WhenFull("wait", FALSE, "count") ++ Signals("report")
aplSend      == Writes(TRUE, FALSE) ++ WhenFull("wait", FALSE, "count") ++ Signals("report")
cluSend      == Writes(TRUE, FALSE) ++ WhenFull("wait", FALSE, "timeout") ++ Signals("fail")
verilogFlush == Writes(TRUE, FALSE) ++ WhenFull("wait", FALSE, "timeout") ++ Signals("resume")
vhdlFlush    == Writes(TRUE, FALSE) ++ WhenFull("wait", FALSE, "timeout") ++ Signals("resume")
setlWrite    == Writes(TRUE, FALSE) ++ WhenFull("wait", FALSE, "timeout") ++ Signals("resume")
eiffelWrite  == Writes(TRUE, FALSE) ++ WhenFull("wait", FALSE, "timeout") ++ Signals("secure")

\* A loop over a non-blocking socket that waits when it is full.
bcplWrite    == Writes(FALSE, FALSE) ++ WhenFull("wait", TRUE, "timeout") ++ Signals("resume")
leanWrite    == Writes(FALSE, FALSE) ++ WhenFull("wait", TRUE, "timeout") ++ Signals("resume")
cobolWrite   == Writes(FALSE, FALSE) ++ WhenFull("wait", TRUE, "count") ++ Signals("resume")
awkWrite     == Writes(FALSE, FALSE) ++ WhenFull("wait", TRUE, "poison") ++ Signals("resume")
janetWrite   == Writes(FALSE, TRUE)  ++ WhenFull("once", TRUE, "count") ++ Signals("resume")
modula3Write == Writes(FALSE, FALSE) ++ WhenFull("wait", FALSE, "timeout") ++ Signals("fail")

Sending ==
  [algol60 |-> algol60Write,
   simula  |-> simulaWrite,
   snobol4 |-> snobol4Write,
   forth   |-> forthWrite,
   oberon  |-> oberonWrite,
   modula2 |-> modula2Write,
   idris   |-> idrisWrite,
   io      |-> ioWrite,
   rexx    |-> rexxSend,
   icon    |-> iconSend,
   apl     |-> aplSend,
   clu     |-> cluSend,
   verilog |-> verilogFlush,
   vhdl    |-> vhdlFlush,
   setl    |-> setlWrite,
   eiffel  |-> eiffelWrite,
   bcpl    |-> bcplWrite,
   lean    |-> leanWrite,
   cobol   |-> cobolWrite,
   awk     |-> awkWrite,
   janet   |-> janetWrite,
   modula3 |-> modula3Write]

\* The ports whose shim only ever writes TLS connections.
SecureWrites == {"apl", "clu", "setl", "modula3"}
=============================================================================
