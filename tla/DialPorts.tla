----------------------------- MODULE DialPorts ------------------------------
(***************************************************************************)
(* How each native transport of this repository opens a client connection: *)
(* getaddrinfo, a connect attempt per address, a TLS handshake, and a slot *)
(* of a handle table.  The routines are variations on one theme, so what a *)
(* port chose is written as a record and module Dial gives the record its  *)
(* meaning.                                                                *)
(*                                                                         *)
(*   slot      when the handle table is searched: "first" (before anything *)
(*             else), "last" (after the TCP connect), "none" (no table)    *)
(*   full      what happens to the socket when the table is full           *)
(*   clock     what bounds the wait for one address: the deadline counted  *)
(*             from the "call" or from the end of the name lookup          *)
(*             ("resolved"), a budget for every "address", or "none"       *)
(*   signal    what an interrupted wait does: "resume" what is left of it, *)
(*             "restart" it with its full length, or "fail"                *)
(*   expired   a timeout moves to the "next" address or "stop"s the call   *)
(*   shake     the clock of the handshake: the "same" deadline, the budget *)
(*             "again", or "none" (a blocking SSL_connect)                 *)
(*   shakeSignal  as signal, for the waits of the handshake                *)
(*   cleanup   a failed call "close"s its socket, or leaves it to the      *)
(*             "collector"                                                 *)
(***************************************************************************)
EXTENDS Records

Slot(search, found) == [slot |-> search, full |-> found]
Tcp(clock, signal, expired) ==
  [clock |-> clock, signal |-> signal, expired |-> expired]
Tls(shake, signal, cleanup) ==
  [shake |-> shake, shakeSignal |-> signal, cleanup |-> cleanup]

\* cvx_open claims a slot and computes the deadline; cvx_wait_fd starts its
\* poll again with the length it was given after a signal.
algol60Open == Slot("first", "close")
algol60Tcp  == Tcp("call", "restart", "next")
algol60Tls  == Tls("same", "restart", "close")
simulaOpen  == Slot("first", "close")
simulaTcp   == Tcp("call", "restart", "next")
simulaTls   == Tls("same", "restart", "close")
snobol4Open == Slot("first", "close")
snobol4Tcp  == Tcp("call", "restart", "next")
snobol4Tls  == Tls("same", "restart", "close")
forthOpen   == Slot("first", "close")
forthTcp    == Tcp("call", "restart", "next")
forthTls    == Tls("same", "restart", "close")

\* Two separate calls, each with a budget of its own, and no table.
oberonTcp  == Tcp("resolved", "fail", "next")
oberonTls  == Tls("again", "fail", "close")
modula2Tcp == Tcp("resolved", "fail", "next")
modula2Tls == Tls("again", "fail", "close")

\* Ten seconds per address, then a blocking socket and a blocking handshake.
rexxDial == Slot("last", "close") ++ Tcp("address", "fail", "next")
              ++ Tls("none", "fail", "close")
iconDial == Slot("last", "close") ++ Tcp("address", "fail", "next")
              ++ Tls("none", "fail", "close")
aplDial  == Slot("last", "close") ++ Tcp("address", "fail", "next")
              ++ Tls("none", "fail", "close")

\* Blocking throughout.
cluDial     == Slot("last", "close") ++ Tcp("none", "fail", "next")
                 ++ Tls("none", "fail", "close")
verilogDial == Slot("first", "close") ++ Tcp("none", "fail", "next")
                 ++ Tls("none", "fail", "close")
vhdlDial    == Slot("first", "close") ++ Tcp("none", "fail", "next")
                 ++ Tls("none", "fail", "close")

\* The addresses share one budget; the socket is blocking again afterwards.
setlTcp == Tcp("resolved", "fail", "next")
setlTls == Slot("first", "close") ++ Tls("none", "resume", "close")

\* cxconnecttcp returns what cxalloc returns, so a full table keeps the socket.
bcplTcp  == Slot("last", "keep") ++ Tcp("call", "resume", "stop")
bcplTls  == Tls("same", "resume", "close")
cobolTcp == Tcp("call", "resume", "stop")
cobolTls == Slot("first", "close") ++ Tls("same", "resume", "close")

leanTcp  == Tcp("call", "resume", "next")
leanTls  == Tls("same", "resume", "close")
awkTcp   == Tcp("call", "resume", "next")
awkTls   == Tls("same", "resume", "close")
awkOpen  == Slot("first", "close")
\* The connection object owns the socket, and its finalizer closes it.
janetTcp == Tcp("call", "resume", "next")
janetTls == Tls("same", "resume", "collector")
\* The Idris program drives the handshake itself, one step per call.
idrisTcp == Tcp("call", "resume", "next")

NoTable == Slot("none", "close")

Dialing ==
  [algol60 |-> algol60Open ++ algol60Tcp ++ algol60Tls,
   simula  |-> simulaOpen ++ simulaTcp ++ simulaTls,
   snobol4 |-> snobol4Open ++ snobol4Tcp ++ snobol4Tls,
   forth   |-> forthOpen ++ forthTcp ++ forthTls,
   oberon  |-> NoTable ++ oberonTcp ++ oberonTls,
   modula2 |-> NoTable ++ modula2Tcp ++ modula2Tls,
   rexx    |-> rexxDial,
   icon    |-> iconDial,
   apl     |-> aplDial,
   clu     |-> cluDial,
   verilog |-> verilogDial,
   vhdl    |-> vhdlDial,
   setl    |-> setlTcp ++ setlTls,
   bcpl    |-> bcplTcp ++ bcplTls,
   cobol   |-> cobolTcp ++ cobolTls,
   lean    |-> NoTable ++ leanTcp ++ leanTls,
   awk     |-> awkOpen ++ awkTcp ++ awkTls,
   janet   |-> NoTable ++ janetTcp ++ janetTls,
   idris   |-> NoTable ++ idrisTcp ++ Tls("same", "fail", "close")]

\* The ports whose dial routine has no handshake of its own.
PlainOnly == {"idris"}
=============================================================================
