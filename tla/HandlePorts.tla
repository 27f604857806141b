---------------------------- MODULE HandlePorts -----------------------------
(***************************************************************************)
(* How each native transport of this repository names, accepts and closes  *)
(* its sockets, as a record that module Handles gives its meaning.         *)
(*                                                                         *)
(*   names    a program holds the "index" of a slot in a bounded table, a  *)
(*            collected "object" that knows whether it is closed, or a     *)
(*            bare "pointer"                                               *)
(*   full     what becomes of a socket that finds the table full: the      *)
(*            routine will "close" it or "leak" it                         *)
(*   lends    the port adopts standard input and output without owning them*)
(*   again    what closing twice reports: "ok", "error"                    *)
(*   listens  the listener has a slot of the "table", is the "only" one of *)
(*            the process, a "raw" descriptor, or lives for one "call";    *)
(*            "never" if the port has none                                 *)
(*   blocking the listener is a blocking socket                            *)
(*   accepts  the routine will "wait" before it accepts, "try" to accept   *)
(*            before it waits, or only "ask"                               *)
(*   probes   it looks for a free slot before it waits                     *)
(*   signal   an interrupted wait "restart"s, "resume"s or "fail"s         *)
(***************************************************************************)
EXTENDS Records

Names(names, noSlot) == [names |-> names, full |-> noSlot]
Closes(again) == [again |-> again]
Lends(lends) == [lends |-> lends]
Listens(listens, blocking) == [listens |-> listens, blocking |-> blocking]
Accepts(accepts, probes, signal) ==
  [accepts |-> accepts, probes |-> probes, signal |-> signal]

\* The table of eight or sixteen handles of the cvxrt family.
algol60Table  == Names("index", "close")
algol60Adopt  == Lends(TRUE)
algol60Listen == Listens("table", FALSE)
algol60Accept == Accepts("wait", FALSE, "restart")
algol60Close  == Closes("ok")
algol60Handles == algol60Table ++ algol60Adopt ++ algol60Listen ++ algol60Accept ++ algol60Close

simulaTable  == Names("index", "close")
simulaAdopt  == Lends(TRUE)
simulaListen == Listens("table", FALSE)
simulaAccept == Accepts("wait", FALSE, "restart")
simulaClose  == Closes("ok")
simulaHandles == simulaTable ++ simulaAdopt ++ simulaListen ++ simulaAccept ++ simulaClose

snobol4Table  == Names("index", "close")
snobol4Adopt  == Lends(TRUE)
snobol4Listen == Listens("table", FALSE)
snobol4Accept == Accepts("wait", FALSE, "restart")
snobol4Close  == Closes("ok")
snobol4Handles == snobol4Table ++ snobol4Adopt ++ snobol4Listen ++ snobol4Accept ++ snobol4Close

forthTable  == Names("index", "close")
forthAdopt  == Lends(TRUE)
forthListen == Listens("table", FALSE)
forthAccept == Accepts("wait", FALSE, "restart")
forthClose  == Closes("ok")
forthHandles == forthTable ++ forthAdopt ++ forthListen ++ forthAccept ++ forthClose

\* Descriptors and heap records, no table.
oberonWrap   == Names("pointer", "close") ++ Lends(FALSE)
oberonListen == Listens("raw", TRUE)
oberonAccept == Accepts("wait", FALSE, "fail")
oberonClose  == Closes("ok")
oberonHandles == oberonWrap ++ oberonListen ++ oberonAccept ++ oberonClose

modula2Wrap   == Names("pointer", "close") ++ Lends(FALSE)
modula2Listen == Listens("raw", TRUE)
modula2Accept == Accepts("wait", FALSE, "fail")
modula2Close  == Closes("ok")
modula2Handles == modula2Wrap ++ modula2Listen ++ modula2Accept ++ modula2Close

\* Slots above the three standard descriptors.
rexxTable  == Names("index", "close") ++ Lends(FALSE)
rexxListen == Listens("table", TRUE)
rexxAccept == Accepts("wait", FALSE, "fail")
rexxClose  == Closes("ok")
rexxHandles == rexxTable ++ rexxListen ++ rexxAccept ++ rexxClose

iconTable  == Names("index", "close") ++ Lends(FALSE)
iconListen == Listens("table", TRUE)
iconAccept == Accepts("wait", FALSE, "fail")
iconClose  == Closes("ok")
iconHandles == iconTable ++ iconListen ++ iconAccept ++ iconClose

\* Clients only.
NoListener == Listens("never", TRUE) ++ Accepts("ask", FALSE, "fail")

aplTable == Names("index", "close") ++ Lends(FALSE)
aplClose == Closes("ok")
aplHandles == aplTable ++ NoListener ++ aplClose

cluTable == Names("index", "close") ++ Lends(FALSE)
cluClose == Closes("error")
cluHandles == cluTable ++ NoListener ++ cluClose

setlTable == Names("index", "close") ++ Lends(FALSE)
setlClose == Closes("error")
setlHandles == setlTable ++ NoListener ++ setlClose

\* One listener per process, next to the table.
verilogTable  == Names("index", "close") ++ Lends(FALSE)
verilogListen == Listens("only", TRUE)
verilogAccept == Accepts("wait", TRUE, "fail")
verilogClose  == Closes("ok")
verilogHandles == verilogTable ++ verilogListen ++ verilogAccept ++ verilogClose

vhdlTable  == Names("index", "close") ++ Lends(FALSE)
vhdlListen == Listens("only", TRUE)
vhdlAccept == Accepts("wait", TRUE, "fail")
vhdlClose  == Closes("ok")
vhdlHandles == vhdlTable ++ vhdlListen ++ vhdlAccept ++ vhdlClose

\* The standard descriptors have slots of their own that are never freed;
\* accept and connect forget a socket that finds the table full.
bcplTable  == Names("index", "leak")
bcplStdio  == Lends(FALSE)
bcplListen == Listens("table", FALSE)
bcplAccept == Accepts("try", FALSE, "resume")
bcplClose  == Closes("error")
bcplHandles == bcplTable ++ bcplStdio ++ bcplListen ++ bcplAccept ++ bcplClose

\* One call listens, accepts one controller and stops listening.
cobolTable  == Names("index", "close") ++ Lends(FALSE)
cobolAccept == Listens("call", FALSE) ++ Accepts("wait", FALSE, "resume")
cobolClose  == Closes("error")
cobolHandles == cobolTable ++ cobolAccept ++ cobolClose

\* Collected objects.
leanObjects == Names("object", "close") ++ Lends(FALSE)
leanListen  == Listens("table", TRUE)
leanAccept  == Accepts("try", FALSE, "resume")
leanClose   == Closes("ok")
leanHandles == leanObjects ++ leanListen ++ leanAccept ++ leanClose

janetObjects == Names("object", "close")
janetStdio   == Lends(TRUE)
janetListen  == Listens("table", FALSE)
janetAccept  == Accepts("try", FALSE, "resume")
janetClose   == Closes("ok")
janetHandles == janetObjects ++ janetStdio ++ janetListen ++ janetAccept ++ janetClose

awkTable  == Names("index", "close")
awkAttach == Lends(TRUE)
awkListen == Listens("table", FALSE)
awkAccept == Accepts("wait", FALSE, "resume")
awkClose  == Closes("error")
awkHandles == awkTable ++ awkAttach ++ awkListen ++ awkAccept ++ awkClose

\* A table of streams over raw descriptors.
idrisTable  == Names("index", "close") ++ Lends(FALSE)
idrisListen == Listens("raw", TRUE)
idrisAccept == Accepts("try", FALSE, "resume")
idrisClose  == Closes("error")
idrisHandles == idrisTable ++ idrisListen ++ idrisAccept ++ idrisClose

ioTable  == Names("index", "close")
ioAdopt  == Lends(TRUE)
ioListen == Listens("table", FALSE)
ioAccept == Accepts("ask", FALSE, "resume")
ioClose  == Closes("ok")
ioHandles == ioTable ++ ioAdopt ++ ioListen ++ ioAccept ++ ioClose

Handling ==
  [algol60 |-> algol60Handles,
   simula  |-> simulaHandles,
   snobol4 |-> snobol4Handles,
   forth   |-> forthHandles,
   oberon  |-> oberonHandles,
   modula2 |-> modula2Handles,
   rexx    |-> rexxHandles,
   icon    |-> iconHandles,
   apl     |-> aplHandles,
   clu     |-> cluHandles,
   setl    |-> setlHandles,
   verilog |-> verilogHandles,
   vhdl    |-> vhdlHandles,
   bcpl    |-> bcplHandles,
   cobol   |-> cobolHandles,
   lean    |-> leanHandles,
   janet   |-> janetHandles,
   awk     |-> awkHandles,
   idris   |-> idrisHandles,
   io      |-> ioHandles]
=============================================================================
