----------------------------- MODULE ReadPorts -----------------------------
(***************************************************************************)
(* How each native transport of this repository reads a connection, as a   *)
(* record that module Receive gives its meaning.                           *)
(*                                                                         *)
(*   order    a read "wait"s for the descriptor and then reads, "try"s to  *)
(*            read and waits when that would block, or makes a single      *)
(*            attempt ("once") and leaves the wait to a call of its own    *)
(*   blocks   the socket is a blocking one                                 *)
(*   again    what an attempt that found no whole record leads to: it      *)
(*            "return"s that to the caller, "wait"s, or "fail"s            *)
(*   judge    an attempt that failed is explained by SSL_get_error         *)
(*            ("queue"), by the sign of what SSL_read returned ("sign"),   *)
(*            or by SSL_get_error unless that was zero ("both")            *)
(*   clears   the thread's OpenSSL error queue is cleared before it        *)
(*   drains   how much of that queue a failure consumes when reported      *)
(*   shuts    closing the connection that failed calls SSL_shutdown, which   *)
(*            adds an error of its own that nobody takes                   *)
(*   silent   what an end of the TCP stream without close_notify is called *)
(*   failed   what any other failure is called                             *)
(*   step     a call returns what fits the buffer ("any"), the whole record*)
(*            ("all": Lean reads 64 KiB at a time, a record has 16), or    *)
(*            "one" byte of a buffer the port keeps for itself             *)
(*   own      who asks for bytes already held before the read's own wait   *)
(*   poll     the same for the separate call that waits ("none": no such   *)
(*            call): the "shim", its "caller", or "nobody"                 *)
(*   clock    a wait ends at the deadline of the "call", or after the      *)
(*            timeout counted again for every "wait"                       *)
(*   signal   an interrupted wait of the read "resume"s, "restart"s,       *)
(*            "return"s or "fail"s                                         *)
(*   pollSignal  the same for the separate call                            *)
(*                                                                         *)
(* Renegotiation, the one reason for a read that waits to write, is off in *)
(* every port and is left out.                                             *)
(***************************************************************************)
EXTENDS Records

Reads(order, blocks, again) == [order |-> order, blocks |-> blocks, again |-> again]
Errors(judge, clears, drains) ==
  [judge |-> judge, clears |-> clears, drains |-> drains]
Shuts(shuts) == [shuts |-> shuts]
Ends(silence, failure) == [silent |-> silence, failed |-> failure]
Waiting(own, clock, signal) == [own |-> own, clock |-> clock, signal |-> signal]
Polls(poll, signal) == [poll |-> poll, pollSignal |-> signal]
Step(step) == [step |-> step]

NoWait == Waiting("nobody", "call", "resume")
NoPoll == Polls("none", "resume")

\* SSL_read, its reason, and AGAIN; the poll asks SSL_pending and starts again
\* with its whole timeout after a signal.
algol60Read == Reads("once", FALSE, "return") ++ Errors("queue", FALSE, "none")
                 ++ Ends("eof", "error") ++ NoWait ++ Step("any")
algol60Poll == Polls("shim", "restart")
simulaRead  == Reads("once", FALSE, "return") ++ Errors("queue", FALSE, "none")
                 ++ Ends("eof", "error") ++ NoWait ++ Step("any")
simulaPoll  == Polls("shim", "restart")
snobol4Read == Reads("once", FALSE, "return") ++ Errors("queue", FALSE, "none")
                 ++ Ends("eof", "error") ++ NoWait ++ Step("any")
snobol4Poll == Polls("shim", "restart")
forthRead   == Reads("once", FALSE, "return") ++ Errors("queue", FALSE, "none")
                 ++ Ends("eof", "error") ++ NoWait ++ Step("any")
forthPoll   == Polls("shim", "restart")
algol60Free == Shuts(FALSE)
simulaFree  == Shuts(FALSE)
snobol4Free == Shuts(FALSE)
forthFree   == Shuts(FALSE)

\* Poll2 sees descriptors only; the callers ask Pending first.  A reported
\* failure takes one error from the queue.
oberonRead  == Reads("once", FALSE, "return") ++ Errors("queue", FALSE, "one")
                 ++ Ends("eof", "error") ++ NoWait ++ Step("any")
oberonPoll  == Polls("caller", "fail")
modula2Read == Reads("once", FALSE, "return") ++ Errors("queue", FALSE, "one")
                 ++ Ends("eof", "error") ++ NoWait ++ Step("any")
modula2Poll == Polls("caller", "fail")
oberonFree  == Shuts(TRUE)
modula2Free == Shuts(TRUE)

\* Held bytes, else one poll, then a read of a blocking socket.
rexxRead == Reads("wait", TRUE, "return") ++ Errors("queue", FALSE, "none")
              ++ Ends("error", "error") ++ Waiting("shim", "call", "fail")
              ++ NoPoll ++ Step("any")
iconRead == Reads("wait", TRUE, "return") ++ Errors("queue", FALSE, "none")
              ++ Ends("error", "error") ++ Waiting("shim", "call", "fail")
              ++ NoPoll ++ Step("any")
aplRead  == Reads("wait", TRUE, "return") ++ Errors("queue", FALSE, "none")
              ++ Ends("error", "error") ++ Waiting("shim", "call", "fail")
              ++ NoPoll ++ Step("any")
cluRead  == Reads("wait", TRUE, "fail") ++ Errors("sign", FALSE, "none")
              ++ Ends("eof", "error") ++ Waiting("shim", "call", "fail")
              ++ NoPoll ++ Step("any")
setlRead == Reads("wait", TRUE, "return") ++ Errors("queue", FALSE, "one")
              ++ Ends("eof", "error") ++ Waiting("shim", "call", "fail")
              ++ NoPoll ++ Step("any")
rexxFree == Shuts(TRUE)
iconFree == Shuts(TRUE)
aplFree  == Shuts(TRUE)
cluFree  == Shuts(TRUE)
setlFree == Shuts(TRUE)

\* One byte at a time out of a buffer of the shim's own.  wait_ready asks
\* OpenSSL but not that buffer, and takes any error for no answer; the Verilog
\* adapter then reads, the VHDL client closes the connection.
verilogRead == Reads("wait", TRUE, "return") ++ Errors("both", FALSE, "none")
                 ++ Ends("eof", "error") ++ Waiting("shim", "call", "fail")
                 ++ Step("one")
verilogReady == Polls("nobody", "return")
vhdlRead    == Reads("wait", TRUE, "return") ++ Errors("both", FALSE, "none")
                 ++ Ends("eof", "error") ++ Waiting("shim", "call", "fail")
                 ++ Step("one")
vhdlReady   == Polls("nobody", "fail")
verilogFree == Shuts(TRUE)
vhdlFree    == Shuts(TRUE)

\* Read, wait for what SSL_read asked for, read again, to an absolute deadline.
bcplRead     == Reads("try", FALSE, "wait") ++ Errors("queue", FALSE, "all")
                  ++ Ends("eof", "error") ++ Step("any")
bcplWait     == Waiting("nobody", "call", "resume")
bcplReady    == Polls("shim", "resume")
bcplFree     == Shuts(FALSE)
cobolRead    == Reads("try", FALSE, "wait") ++ Errors("queue", TRUE, "one")
                  ++ Ends("eof", "error") ++ Waiting("nobody", "call", "resume")
                  ++ Step("any")
cobolReadable == Polls("shim", "return")
cobolShut    == Shuts(TRUE)
leanRead     == Reads("try", FALSE, "wait") ++ Errors("queue", FALSE, "all")
                  ++ Ends("eof", "error") ++ Step("all")
leanWait     == Waiting("nobody", "call", "resume")
leanPoll     == Polls("nobody", "return")
leanFree     == Shuts(FALSE)
awkRead      == Reads("try", FALSE, "wait") ++ Errors("queue", FALSE, "all")
                  ++ Ends("eof", "error") ++ NoPoll ++ Step("any")
awkWait      == Waiting("nobody", "call", "resume")
awkShut      == Shuts(TRUE)
janetRead    == Reads("try", FALSE, "wait") ++ Errors("queue", FALSE, "none")
                  ++ Ends("eof", "error") ++ NoPoll ++ Step("any")
janetWait    == Waiting("nobody", "call", "resume")
janetFree    == Shuts(FALSE)
modula3Read  == Reads("try", FALSE, "wait") ++ Errors("queue", FALSE, "none")
                  ++ Ends("error", "error") ++ Waiting("nobody", "wait", "fail")
                  ++ NoPoll ++ Step("any")
modula3Free  == Shuts(TRUE)

\* A single attempt per call; the event loop of the language asks how many
\* bytes are held before it waits.
idrisRead    == Reads("once", FALSE, "return") ++ Errors("queue", FALSE, "all")
                  ++ Ends("eof", "error") ++ NoWait ++ Step("any")
idrisPoll    == Polls("caller", "return")
idrisShut    == Shuts(FALSE)
ioRead       == Reads("once", FALSE, "return") ++ Errors("queue", FALSE, "all")
                  ++ Ends("eof", "eof") ++ NoWait ++ Step("any")
ioPoll       == Polls("caller", "return")
ioRelease    == Shuts(TRUE)

\* CONVEX_SOCKET.read_some asks convex_tls_pending, waits, and reads; the
\* adapter asks the same before it waits for two descriptors.
eiffelRead   == Reads("wait", TRUE, "fail") ++ Errors("sign", FALSE, "one")
                  ++ Ends("eof", "error") ++ Step("any")
eiffelSelect == Waiting("shim", "call", "restart")
eiffelSelectTwo == Polls("caller", "restart")
eiffelClose  == Shuts(TRUE)

Reading ==
  [algol60 |-> algol60Read ++ algol60Poll ++ algol60Free,
   simula  |-> simulaRead ++ simulaPoll ++ simulaFree,
   snobol4 |-> snobol4Read ++ snobol4Poll ++ snobol4Free,
   forth   |-> forthRead ++ forthPoll ++ forthFree,
   oberon  |-> oberonRead ++ oberonPoll ++ oberonFree,
   modula2 |-> modula2Read ++ modula2Poll ++ modula2Free,
   rexx    |-> rexxRead ++ rexxFree,
   icon    |-> iconRead ++ iconFree,
   apl     |-> aplRead ++ aplFree,
   clu     |-> cluRead ++ cluFree,
   setl    |-> setlRead ++ setlFree,
   verilog |-> verilogRead ++ verilogReady ++ verilogFree,
   vhdl    |-> vhdlRead ++ vhdlReady ++ vhdlFree,
   bcpl    |-> bcplRead ++ bcplWait ++ bcplReady ++ bcplFree,
   cobol   |-> cobolRead ++ cobolReadable ++ cobolShut,
   lean    |-> leanRead ++ leanWait ++ leanPoll ++ leanFree,
   awk     |-> awkRead ++ awkWait ++ awkShut,
   janet   |-> janetRead ++ janetWait ++ janetFree,
   modula3 |-> modula3Read ++ modula3Free,
   idris   |-> idrisRead ++ idrisPoll ++ idrisShut,
   io      |-> ioRead ++ ioPoll ++ ioRelease,
   eiffel  |-> eiffelRead ++ eiffelSelect ++ eiffelSelectTwo ++ eiffelClose]

\* The ports whose shim only ever reads TLS connections.
SecureReads == {"apl", "clu", "setl", "modula3"}
=============================================================================
