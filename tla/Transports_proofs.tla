--------------------------- MODULE Transports_proofs ---------------------------
(***************************************************************************)
(* Theorems about the native transports, for any timeout, any number of    *)
(* addresses, records, frames, descriptors and signals.  Of the policies   *)
(* of the ports the proofs use a few facts each, stated first; a port with *)
(* another policy of which they hold keeps the same promises.              *)
(*                                                                         *)
(* Each of the four parts has an inductive invariant of its own, DialInv,  *)
(* ReadInv, SendInv and HandlesInv: a step of a behaviour is one of the    *)
(* part its stage names.                                                   *)
(***************************************************************************)
EXTENDS Transports, TLAPS, WellFoundedInduction

-----------------------------------------------------------------------------
(* The constants and the policies.                                          *)

(* Every parameter is a number; the ones used here are positive.            *)
LEMMA Parameters ==
  /\ Budget \in Nat /\ 1 <= Budget /\ Addresses \in Nat /\ AddressBudget \in Nat
  /\ Length \in Nat /\ 1 <= Length /\ Slots \in Nat /\ MaxFds \in Nat
  /\ Slots <= MaxFds
BY TransportAssumption DEF TransportAssumption

(* The routines that dial: only BCPL's forgets a socket, a handshake has a  *)
(* deadline or blocks, and is not restarted if the connect is not.          *)
LEMMA DialPolicies ==
  \A p \in DOMAIN Dialing :
    /\ Dialing[p].full = "keep" => p \in Leaky
    /\ Dialing[p].slot \in {"first", "last", "none"}
    /\ Dialing[p].shake \in {"same", "again", "none"}
    /\ Dialing[p].shakeSignal = "restart" => Dialing[p].signal = "restart"
<1> DEFINE Fine(p, r) ==
      /\ r.full = "keep" => p \in Leaky
      /\ r.slot \in {"first", "last", "none"}
      /\ r.shake \in {"same", "again", "none"}
      /\ r.shakeSignal = "restart" => r.signal = "restart"
<1> USE DEF ++, Slot, Tcp, Tls, Leaky
<1>1. Fine("algol60", algol60Open ++ algol60Tcp ++ algol60Tls)
  BY DEF algol60Open, algol60Tcp, algol60Tls
<1>2. Fine("simula", simulaOpen ++ simulaTcp ++ simulaTls)
  BY DEF simulaOpen, simulaTcp, simulaTls
<1>3. Fine("snobol4", snobol4Open ++ snobol4Tcp ++ snobol4Tls)
  BY DEF snobol4Open, snobol4Tcp, snobol4Tls
<1>4. Fine("forth", forthOpen ++ forthTcp ++ forthTls)
  BY DEF forthOpen, forthTcp, forthTls
<1>5. Fine("oberon", NoTable ++ oberonTcp ++ oberonTls)
  BY DEF NoTable, oberonTcp, oberonTls
<1>6. Fine("modula2", NoTable ++ modula2Tcp ++ modula2Tls)
  BY DEF NoTable, modula2Tcp, modula2Tls
<1>7. Fine("rexx", rexxDial) BY DEF rexxDial
<1>8. Fine("icon", iconDial) BY DEF iconDial
<1>9. Fine("apl", aplDial) BY DEF aplDial
<1>10. Fine("clu", cluDial) BY DEF cluDial
<1>11. Fine("verilog", verilogDial) BY DEF verilogDial
<1>12. Fine("vhdl", vhdlDial) BY DEF vhdlDial
<1>13. Fine("setl", setlTcp ++ setlTls) BY DEF setlTcp, setlTls
<1>14. Fine("bcpl", bcplTcp ++ bcplTls) BY DEF bcplTcp, bcplTls
<1>15. Fine("cobol", cobolTcp ++ cobolTls) BY DEF cobolTcp, cobolTls
<1>16. Fine("lean", NoTable ++ leanTcp ++ leanTls)
  BY DEF NoTable, leanTcp, leanTls
<1>17. Fine("awk", awkOpen ++ awkTcp ++ awkTls) BY DEF awkOpen, awkTcp, awkTls
<1>18. Fine("janet", NoTable ++ janetTcp ++ janetTls)
  BY DEF NoTable, janetTcp, janetTls
<1>19. Fine("idris", NoTable ++ idrisTcp ++ Tls("same", "fail", "close"))
  BY DEF NoTable, idrisTcp
<1> HIDE DEF Fine, ++, Slot, Tcp, Tls, Leaky
<1>20. \A p \in DOMAIN Dialing : Fine(p, Dialing[p])
  BY <1>1, <1>2, <1>3, <1>4, <1>5, <1>6, <1>7, <1>8, <1>9, <1>10, <1>11,
     <1>12, <1>13, <1>14, <1>15, <1>16, <1>17, <1>18, <1>19
     DEF Dialing
<1> QED BY <1>20 DEF Fine

(* The routines that read: one that takes a failure for the end does not    *)
(* block and lets nothing fail a wait, one that waits first knows of the    *)
(* bytes it holds, and a readiness check that knows nothing of them is      *)
(* Verilog's, VHDL's or of a port that holds none.                          *)
LEMMA ReadPolicies ==
  \A p \in DOMAIN Reading :
    /\ Reading[p].failed = "eof" =>
           /\ ~Reading[p].blocks
           /\ "fail" \notin {Reading[p].signal, Reading[p].pollSignal, Reading[p].again}
    /\ Reading[p].failed \in {"eof", "error"} /\ Reading[p].silent \in {"eof", "error"}
    /\ Reading[p].order = "wait" => Reading[p].own # "nobody"
    /\ Reading[p].poll = "nobody" => p \in Forgetful \/ Reading[p].step = "all"
    /\ Reading[p].blocks \/ Reading[p].again = "fail" =>
           "fail" \in {Reading[p].signal, Reading[p].pollSignal, Reading[p].again}
    /\ Reading[p].drains \in {"all", "one", "none"}
    /\ Reading[p].step \in {"one", "any", "all"}
    /\ {Reading[p].signal, Reading[p].pollSignal} \subseteq {"resume", "restart", "return", "fail"}
    /\ Reading[p].again = "fail" => Reading[p].blocks
<1> DEFINE Fine(p, r) ==
      /\ r.failed = "eof" =>
           /\ ~r.blocks
           /\ "fail" \notin {r.signal, r.pollSignal, r.again}
      /\ r.failed \in {"eof", "error"} /\ r.silent \in {"eof", "error"}
      /\ r.order = "wait" => r.own # "nobody"
      /\ r.poll = "nobody" => p \in Forgetful \/ r.step = "all"
      /\ r.blocks \/ r.again = "fail" =>
           "fail" \in {r.signal, r.pollSignal, r.again}
      /\ r.drains \in {"all", "one", "none"}
      /\ r.step \in {"one", "any", "all"}
      /\ {r.signal, r.pollSignal} \subseteq {"resume", "restart", "return", "fail"}
      /\ r.again = "fail" => r.blocks
<1> USE DEF ++, Reads, Errors, Ends, Waiting, Polls, Step, NoWait, NoPoll,
            Shuts, Forgetful
<1>1. Fine("algol60", algol60Read ++ algol60Poll ++ algol60Free)
  BY ZenonT(60) DEF algol60Read, algol60Poll, algol60Free
<1>2. Fine("simula", simulaRead ++ simulaPoll ++ simulaFree)
  BY ZenonT(60) DEF simulaRead, simulaPoll, simulaFree
<1>3. Fine("snobol4", snobol4Read ++ snobol4Poll ++ snobol4Free)
  BY ZenonT(60) DEF snobol4Read, snobol4Poll, snobol4Free
<1>4. Fine("forth", forthRead ++ forthPoll ++ forthFree)
  BY ZenonT(60) DEF forthRead, forthPoll, forthFree
<1>5. Fine("oberon", oberonRead ++ oberonPoll ++ oberonFree)
  BY ZenonT(60) DEF oberonRead, oberonPoll, oberonFree
<1>6. Fine("modula2", modula2Read ++ modula2Poll ++ modula2Free)
  BY ZenonT(60) DEF modula2Read, modula2Poll, modula2Free
<1>7. Fine("rexx", rexxRead ++ rexxFree)
  BY ZenonT(60) DEF rexxRead, rexxFree
<1>8. Fine("icon", iconRead ++ iconFree)
  BY ZenonT(60) DEF iconRead, iconFree
<1>9. Fine("apl", aplRead ++ aplFree)
  BY ZenonT(60) DEF aplRead, aplFree
<1>10. Fine("clu", cluRead ++ cluFree)
  BY ZenonT(60) DEF cluRead, cluFree
<1>11. Fine("setl", setlRead ++ setlFree)
  BY ZenonT(60) DEF setlRead, setlFree
<1>12. Fine("verilog", verilogRead ++ verilogReady ++ verilogFree)
  BY ZenonT(60) DEF verilogRead, verilogReady, verilogFree
<1>13. Fine("vhdl", vhdlRead ++ vhdlReady ++ vhdlFree)
  BY ZenonT(60) DEF vhdlRead, vhdlReady, vhdlFree
<1>14. Fine("bcpl", bcplRead ++ bcplWait ++ bcplReady ++ bcplFree)
  BY ZenonT(60) DEF bcplRead, bcplWait, bcplReady, bcplFree
<1>15. Fine("cobol", cobolRead ++ cobolReadable ++ cobolShut)
  BY ZenonT(60) DEF cobolRead, cobolReadable, cobolShut
<1>16. Fine("lean", leanRead ++ leanWait ++ leanPoll ++ leanFree)
  BY ZenonT(60) DEF leanRead, leanWait, leanPoll, leanFree
<1>17. Fine("awk", awkRead ++ awkWait ++ awkShut)
  BY ZenonT(60) DEF awkRead, awkWait, awkShut
<1>18. Fine("janet", janetRead ++ janetWait ++ janetFree)
  BY ZenonT(60) DEF janetRead, janetWait, janetFree
<1>19. Fine("modula3", modula3Read ++ modula3Free)
  BY ZenonT(60) DEF modula3Read, modula3Free
<1>20. Fine("idris", idrisRead ++ idrisPoll ++ idrisShut)
  BY ZenonT(60) DEF idrisRead, idrisPoll, idrisShut
<1>21. Fine("io", ioRead ++ ioPoll ++ ioRelease)
  BY ZenonT(60) DEF ioRead, ioPoll, ioRelease
<1>22. Fine("eiffel", eiffelRead ++ eiffelSelect ++ eiffelSelectTwo ++ eiffelClose)
  BY ZenonT(60) DEF eiffelRead, eiffelSelect, eiffelSelectTwo, eiffelClose
<1> HIDE DEF Fine, ++, Reads, Errors, Ends, Waiting, Polls, Step, NoWait,
             NoPoll, Shuts, Forgetful
<1>23. \A p \in DOMAIN Reading : Fine(p, Reading[p])
  BY <1>1, <1>2, <1>3, <1>4, <1>5, <1>6, <1>7, <1>8, <1>9, <1>10, <1>11,
     <1>12, <1>13, <1>14, <1>15, <1>16, <1>17, <1>18, <1>19, <1>20, <1>21,
     <1>22
     DEF Reading
<1> QED BY <1>23 DEF Fine

(* The tables: only BCPL's forgets a socket, a listener of one call is never *)
(* asked for, and only a port without a listener would block in one.        *)
LEMMA HandlePolicies ==
  \A p \in DOMAIN Handling :
    /\ Handling[p].full = "leak" => p \in Leaky
    /\ Handling[p].listens = "call" => ~Handling[p].probes /\ Handling[p].accepts = "wait"
    /\ Handling[p].blocking /\ Handling[p].accepts = "ask" => Handling[p].listens = "never"
    /\ Handling[p].accepts \in {"wait", "try", "ask"}
    /\ Handling[p].signal \in {"restart", "resume", "fail"}
    /\ Handling[p].listens \in {"table", "only", "raw", "call", "never"}
<1> DEFINE Fine(p, r) ==
      /\ r.full = "leak" => p \in Leaky
      /\ r.listens = "call" => ~r.probes /\ r.accepts = "wait"
      /\ r.blocking /\ r.accepts = "ask" => r.listens = "never"
      /\ r.accepts \in {"wait", "try", "ask"}
      /\ r.signal \in {"restart", "resume", "fail"}
      /\ r.listens \in {"table", "only", "raw", "call", "never"}
<1> USE DEF ++, Names, Closes, Lends, Listens, Accepts, Leaky
<1>1. Fine("algol60", algol60Handles)
  BY DEF algol60Handles, algol60Table, algol60Adopt, algol60Listen,
         algol60Accept, algol60Close
<1>2. Fine("simula", simulaHandles)
  BY DEF simulaHandles, simulaTable, simulaAdopt, simulaListen, simulaAccept,
         simulaClose
<1>3. Fine("snobol4", snobol4Handles)
  BY DEF snobol4Handles, snobol4Table, snobol4Adopt, snobol4Listen,
         snobol4Accept, snobol4Close
<1>4. Fine("forth", forthHandles)
  BY DEF forthHandles, forthTable, forthAdopt, forthListen, forthAccept,
         forthClose
<1>5. Fine("oberon", oberonHandles)
  BY DEF oberonHandles, oberonWrap, oberonListen, oberonAccept, oberonClose
<1>6. Fine("modula2", modula2Handles)
  BY DEF modula2Handles, modula2Wrap, modula2Listen, modula2Accept, modula2Close
<1>7. Fine("rexx", rexxHandles)
  BY DEF rexxHandles, rexxTable, rexxListen, rexxAccept, rexxClose
<1>8. Fine("icon", iconHandles)
  BY DEF iconHandles, iconTable, iconListen, iconAccept, iconClose
<1>9. Fine("apl", aplHandles) BY DEF aplHandles, aplTable, NoListener, aplClose
<1>10. Fine("clu", cluHandles) BY DEF cluHandles, cluTable, NoListener, cluClose
<1>11. Fine("setl", setlHandles)
  BY DEF setlHandles, setlTable, NoListener, setlClose
<1>12. Fine("verilog", verilogHandles)
  BY DEF verilogHandles, verilogTable, verilogListen, verilogAccept,
         verilogClose
<1>13. Fine("vhdl", vhdlHandles)
  BY DEF vhdlHandles, vhdlTable, vhdlListen, vhdlAccept, vhdlClose
<1>14. Fine("bcpl", bcplHandles)
  BY DEF bcplHandles, bcplTable, bcplStdio, bcplListen, bcplAccept, bcplClose
<1>15. Fine("cobol", cobolHandles)
  BY DEF cobolHandles, cobolTable, cobolAccept, cobolClose
<1>16. Fine("lean", leanHandles)
  BY DEF leanHandles, leanObjects, leanListen, leanAccept, leanClose
<1>17. Fine("janet", janetHandles)
  BY DEF janetHandles, janetObjects, janetStdio, janetListen, janetAccept,
         janetClose
<1>18. Fine("awk", awkHandles)
  BY DEF awkHandles, awkTable, awkAttach, awkListen, awkAccept, awkClose
<1>19. Fine("idris", idrisHandles)
  BY DEF idrisHandles, idrisTable, idrisListen, idrisAccept, idrisClose
<1>20. Fine("io", ioHandles)
  BY DEF ioHandles, ioTable, ioAdopt, ioListen, ioAccept, ioClose
<1> HIDE DEF Fine, ++, Names, Closes, Lends, Listens, Accepts, Leaky
<1>21. \A p \in DOMAIN Handling : Fine(p, Handling[p])
  BY <1>1, <1>2, <1>3, <1>4, <1>5, <1>6, <1>7, <1>8, <1>9, <1>10, <1>11,
     <1>12, <1>13, <1>14, <1>15, <1>16, <1>17, <1>18, <1>19, <1>20
     DEF Handling
<1> QED BY <1>21 DEF Fine

-----------------------------------------------------------------------------
(* Dial.                                                                    *)

\* The values of the variables, as far as the arguments below need them.
DialTypes ==
  /\ port \in DOMAIN Dialing
  /\ pc \in {"begin", "resolve", "socket", "connecting", "connected", "shaking",
             "garbage", "done"}
  /\ peer \in [1..Addresses -> {"accept", "refuse", "silent"}]
  /\ address \in Nat /\ now \in Nat /\ resolved \in Nat /\ until \in Nat
  /\ signals \in Nat

\* What the call holds on its way: its socket while it tries an address, and
\* a slot from the place where its port searches the table.
Holding ==
  /\ pc \in {"begin", "resolve", "socket"} => open = 0
  /\ pc \in {"connecting", "connected", "shaking"} => open = 1
  /\ pc \in {"begin", "garbage"} => slot = FALSE
  /\ pc \in {"resolve", "socket", "connecting", "connected"} =>
       slot = (Dialing[port].slot = "first")
  /\ pc = "shaking" => slot = (Dialing[port].slot # "none")
  /\ pc = "done" => slot = (outcome = "ok" /\ Dialing[port].slot # "none")
  /\ pc = "done" /\ port \notin Leaky => open = (IF outcome = "ok" THEN 1 ELSE 0)
  /\ pc = "garbage" => outcome = "fail"
  /\ pc \notin {"garbage", "done"} => outcome = "none"

\* What it knows of the addresses it has tried and of the one it tries.
Trying ==
  /\ pc \in {"begin", "resolve"} => address = 0
  /\ pc = "socket" => 1 <= address
  /\ pc \in {"connecting", "connected", "shaking"} =>
       1 <= address /\ address <= Addresses
  /\ pc \in {"connected", "shaking"} => peer[address] = "accept"
  /\ pc = "shaking" => secure
  /\ ~late /\ signals = 0 =>
       \A a \in 1..Addresses : a < address => peer[a] = "refuse"

\* Its deadline, which no wait of a port with one clock outlives.
InTime ==
  /\ pc = "begin" => now = 0 /\ resolved = 0
  /\ pc = "resolve" => now = 0 /\ until = Budget
  /\ pc \in {"socket", "connecting", "connected"} =>
       now <= until /\ until <= resolved + Budget
  /\ pc = "shaking" => now <= until /\ until <= resolved + D!Promise
  /\ pc \in {"connecting", "shaking"} => limit = until

DialInv ==
  /\ DialTypes /\ Holding /\ Trying /\ D!Established /\ D!FallsBack
  /\ ~LateDial(port) => InTime

(* A call begins with nothing.                                              *)
LEMMA DialBegins == ASSUME D!Init PROVE DialInv
<1>1. DialTypes BY DEF D!Init, DialTypes
<1>2. Holding /\ Trying /\ InTime BY DEF D!Init, Holding, Trying, InTime
<1>3. D!Established /\ D!FallsBack
  BY DEF D!Init, D!Established, D!FallsBack
<1> QED BY <1>1, <1>2, <1>3 DEF DialInv

(* Every step of the routine keeps the values in their sets.                *)
LEMMA DialTyped == ASSUME DialInv, D!Next PROVE DialTypes'
<1> USE Parameters DEF DialInv, DialTypes, D!Later, D!environment, D!clocks, D!Finish, D!TryNext
<1>0. UNCHANGED <<port, peer>>
  BY DEF D!Next, D!Begin, D!Resolve, D!Connect, D!Answered, D!Expired, D!Connected,
         D!Flight, D!Shaken, D!ShakeExpired, D!Signal, D!Collect, D!Tick
<1>1. CASE D!Begin BY <1>0, <1>1 DEF D!Begin
<1>2. CASE D!Resolve BY <1>0, <1>2 DEF D!Resolve
<1>3. CASE D!Connect BY <1>0, <1>3 DEF D!Connect
<1>4. CASE D!Answered BY <1>0, <1>4 DEF D!Answered
<1>5. CASE D!Expired BY <1>0, <1>5 DEF D!Expired
<1>6. CASE D!Connected
  <2>1. until' \in Nat BY <1>6 DEF D!Connected
  <2> QED BY <1>0, <1>6, <2>1 DEF D!Connected
<1>7. CASE D!Flight BY <1>0, <1>7 DEF D!Flight
<1>8. CASE D!Shaken BY <1>0, <1>8 DEF D!Shaken
<1>9. CASE D!ShakeExpired BY <1>0, <1>9 DEF D!ShakeExpired
<1>10. CASE D!Signal BY <1>0, <1>10 DEF D!Signal
<1>11. CASE D!Collect BY <1>0, <1>11 DEF D!Collect
<1>12. CASE D!Tick BY <1>0, <1>12 DEF D!Tick
<1> QED BY <1>1, <1>2, <1>3, <1>4, <1>5, <1>6, <1>7, <1>8, <1>9, <1>10, <1>11,
           <1>12 DEF D!Next

(* Every step keeps count of the socket and the slot.                       *)
LEMMA DialHolds == ASSUME DialInv, D!Next PROVE Holding'
<1> USE DEF Holding, D!Policy, D!Finish, D!TryNext, D!environment, D!clocks
<1>0. DialTypes /\ Holding /\ port' = port
      /\ (Dialing[port].full = "keep" => port \in Leaky)
  BY DialPolicies
     DEF DialInv, DialTypes, D!Next, D!Begin, D!Resolve, D!Connect, D!Answered,
         D!Expired, D!Connected, D!Flight, D!Shaken, D!ShakeExpired, D!Signal,
         D!Collect, D!Tick
<1>1. CASE D!Begin BY <1>0, <1>1 DEF D!Begin
<1>2. CASE D!Resolve BY <1>0, <1>2 DEF D!Resolve
<1>3. CASE D!Connect BY <1>0, <1>3 DEF D!Connect
<1>4. CASE D!Answered BY <1>0, <1>4 DEF D!Answered
<1>5. CASE D!Expired BY <1>0, <1>5 DEF D!Expired
<1>6. CASE D!Connected BY <1>0, <1>6 DEF D!Connected
<1>7. CASE D!Flight BY <1>0, <1>7 DEF D!Flight
<1>8. CASE D!Shaken
  <2>1. CASE tlsPeer = "trusted" BY <1>0, <1>8, <2>1 DEF D!Shaken
  <2>2. CASE tlsPeer # "trusted" /\ Dialing[port].cleanup = "collector"
    <3>1. open = 1 BY <1>0, <1>8 DEF D!Shaken
    <3>2. pc' = "garbage" /\ outcome' = "fail" BY <1>8, <2>2, <3>1 DEF D!Shaken
    <3>3. slot' = FALSE BY <1>8, <2>2 DEF D!Shaken
    <3> QED BY <3>2, <3>3
  <2>3. CASE tlsPeer # "trusted" /\ Dialing[port].cleanup # "collector"
    BY <1>0, <1>8, <2>3 DEF D!Shaken
  <2> QED BY <2>1, <2>2, <2>3
<1>9. CASE D!ShakeExpired
  <2>1. CASE Dialing[port].cleanup = "collector"
    <3>1. open = 1 BY <1>0, <1>9 DEF D!ShakeExpired
    <3>2. pc' = "garbage" /\ outcome' = "fail"
      BY <1>9, <2>1, <3>1 DEF D!ShakeExpired
    <3>3. slot' = FALSE BY <1>9 DEF D!ShakeExpired
    <3> QED BY <3>2, <3>3
  <2>2. CASE Dialing[port].cleanup # "collector"
    BY <1>0, <1>9, <2>2 DEF D!ShakeExpired
  <2> QED BY <2>1, <2>2
<1>10. CASE D!Signal BY <1>0, <1>10 DEF D!Signal
<1>11. CASE D!Collect BY <1>0, <1>11 DEF D!Collect
<1>12. CASE D!Tick BY <1>0, <1>12 DEF D!Tick
<1> QED BY <1>1, <1>2, <1>3, <1>4, <1>5, <1>6, <1>7, <1>8, <1>9, <1>10, <1>11,
           <1>12 DEF D!Next

(* Every step keeps what the call knows, and what it reports follows.       *)
LEMMA DialTries ==
  ASSUME DialInv, D!Next PROVE Trying' /\ D!Established' /\ D!FallsBack'
<1> USE DEF Trying, D!Established, D!FallsBack, D!Finish, D!TryNext, D!environment,
        D!clocks
<1>0. /\ DialTypes /\ Holding /\ Trying /\ D!Established /\ D!FallsBack
      /\ UNCHANGED D!environment
  BY DEF DialInv, D!Next, D!Begin, D!Resolve, D!Connect, D!Answered, D!Expired,
         D!Connected, D!Flight, D!Shaken, D!ShakeExpired, D!Signal, D!Collect,
         D!Tick
<1> HIDE DEF DialInv
<1>1. CASE D!Begin BY <1>0, <1>1 DEF D!Begin, DialTypes, Holding
<1>2. CASE D!Resolve BY <1>0, <1>2 DEF D!Resolve, DialTypes, Holding
<1>3. CASE D!Connect BY Parameters, <1>0, <1>3 DEF D!Connect, DialTypes, Holding
<1>4. CASE D!Answered BY <1>0, <1>4, Parameters DEF D!Answered, DialTypes, Holding
<1>5. CASE D!Expired BY <1>0, <1>5 DEF D!Expired, DialTypes, Holding
<1>6. CASE D!Connected BY <1>0, <1>6 DEF D!Connected, DialTypes, Holding
<1>7. CASE D!Flight BY <1>0, <1>7 DEF D!Flight, DialTypes, Holding
<1>8. CASE D!Shaken BY <1>0, <1>8 DEF D!Shaken, DialTypes, Holding
<1>9. CASE D!ShakeExpired BY <1>0, <1>9 DEF D!ShakeExpired, DialTypes, Holding
<1>10. CASE D!Signal BY <1>0, <1>10 DEF D!Signal, DialTypes, Holding
<1>11. CASE D!Collect BY <1>0, <1>11 DEF D!Collect, DialTypes, Holding
<1>12. CASE D!Tick BY <1>0, <1>12 DEF D!Tick, DialTypes, Holding
<1> QED BY <1>1, <1>2, <1>3, <1>4, <1>5, <1>6, <1>7, <1>8, <1>9, <1>10, <1>11,
           <1>12 DEF D!Next

(* No wait of a port that keeps one deadline outlives it.                   *)
LEMMA DialHurries ==
  ASSUME DialInv, D!Next, ~LateDial(port) PROVE InTime'
<1> USE Parameters DEF InTime, D!Policy, D!Promise, D!Finish, D!TryNext, D!Later, D!Waits,
        D!environment, D!clocks
<1>0. /\ DialTypes /\ InTime /\ port' = port /\ secure' = secure
      /\ Dialing[port].clock \notin {"address", "none"}
      /\ Dialing[port].signal # "restart" /\ Dialing[port].shakeSignal # "restart"
      /\ Dialing[port].shake \in {"same", "again"}
  BY DialPolicies
     DEF LateDial, DialInv, DialTypes, D!Next, D!Begin, D!Resolve, D!Connect, D!Answered,
         D!Expired, D!Connected, D!Flight, D!Shaken, D!ShakeExpired, D!Signal,
         D!Collect, D!Tick
<1>1. CASE D!Begin BY <1>0, <1>1 DEF D!Begin, DialTypes
<1>2. CASE D!Resolve BY <1>0, <1>2 DEF D!Resolve, DialTypes
<1>3. CASE D!Connect BY <1>0, <1>3 DEF D!Connect, DialTypes
<1>4. CASE D!Answered BY <1>0, <1>4 DEF D!Answered, DialTypes
<1>5. CASE D!Expired BY <1>0, <1>5 DEF D!Expired, DialTypes
<1>6. CASE D!Connected BY <1>0, <1>6 DEF D!Connected, DialTypes
<1>7. CASE D!Flight BY <1>0, <1>7 DEF D!Flight, DialTypes
<1>8. CASE D!Shaken BY <1>0, <1>8 DEF D!Shaken, DialTypes
<1>9. CASE D!ShakeExpired BY <1>0, <1>9 DEF D!ShakeExpired, DialTypes
<1>10. CASE D!Signal BY <1>0, <1>10 DEF D!Signal, DialTypes
<1>11. CASE D!Collect BY <1>0, <1>11 DEF D!Collect, DialTypes
<1>12. CASE D!Tick BY <1>0, <1>12 DEF D!Tick, DialTypes
<1> QED BY <1>1, <1>2, <1>3, <1>4, <1>5, <1>6, <1>7, <1>8, <1>9, <1>10, <1>11,
           <1>12 DEF D!Next

(* The invariant of a call that dials is inductive.                         *)
LEMMA DialKept == ASSUME DialInv, D!Next PROVE DialInv'
<1>1. port' = port
  BY DEF D!Next, D!Begin, D!Resolve, D!Connect, D!Answered, D!Expired, D!Connected,
         D!Flight, D!Shaken, D!ShakeExpired, D!Signal, D!Collect, D!Tick,
         D!environment
<1>2. ~LateDial(port)' => InTime'
  BY <1>1, DialHurries DEF LateDial
<1> QED BY <1>2, DialTyped, DialHolds, DialTries DEF DialInv

(* What the parts of the invariant say of the call.                         *)
LEMMA DialPromises ==
  ASSUME DialInv
  PROVE  /\ port \notin Leaky => D!OneOrNothing
         /\ D!Established /\ D!FallsBack
         /\ ~LateDial(port) => D!DialBounded
<1> QED
  BY Parameters DEF DialInv, DialTypes, Holding, InTime, LateDial, D!OneOrNothing, D!Policy,
     D!DialBounded, D!Promise

-----------------------------------------------------------------------------
(* Receive.                                                                 *)

Units == {"data", "head", "tail", "ticket"}

\* What a unit in the kernel is worth to the caller: OpenSSL gives out a
\* record when all of it is there.
Worth(tls, unit) ==
  CASE unit = "data"   -> 2
    [] unit = "ticket" -> 0
    [] unit = "head"   -> IF tls THEN 0 ELSE 1
    [] OTHER           -> IF tls THEN 2 ELSE 1

\* The units of p are worth the difference of two byte counts: there is a
\* running total that leads from one to the other.
Leads(tls, p, from, to) ==
  \E total \in [0..Len(p) -> Nat] :
    /\ total[0] = from /\ total[Len(p)] = to
    /\ \A i \in 1..Len(p) : total[i] = total[i - 1] + Worth(tls, p[i])

\* The values of the variables, as far as the arguments below need them.
ReadTypes ==
  /\ port \in DOMAIN Reading /\ secure \in BOOLEAN
  /\ pc \in {"idle", "waiting", "reading", "done"}
  /\ pipe \in Seq(Units) /\ ended \in {"no", "notify", "fin", "reset"}
  /\ held \in {0, 1} /\ got \in Nat /\ sent \in Nat
  /\ now \in Nat /\ signals \in Nat
  /\ call \in {"read", "poll"}

\* Every byte the peer has sent is returned, held, or in the kernel.
BytesKept == Leads(secure, pipe, got + held, sent)

\* A port that returns whole records holds none back, and a call that waits
\* waits for bytes that are not in the process.
NothingHeld ==
  /\ Reading[port].step = "all" => held = 0
  /\ pc = "waiting" => held = 0 \/ (port \in Forgetful /\ call = "poll")

\* A port that empties the error queue, and adds nothing at a close, finds it
\* empty; in a mixed port an error of another connection may have been left.
Clean == Reading[port].drains = "all" /\ ~Reading[port].shuts => dirty = FALSE
Spoiled == Mixed(port) /\ dirty

\* What a call has reported is still so: a stream that ended sends no more.
Fate == (pc = "done") <=> (outcome # "none")
Ended == R!EndIsEnd /\ (outcome = "eof" => pipe = <<>>)

WithinTimeout ==
  pc \in {"waiting", "reading"} => limit = Budget /\ now <= limit

ReadInv ==
  /\ ReadTypes /\ BytesKept /\ NothingHeld /\ Clean /\ Fate
  /\ ~Spoiled => Ended /\ R!FailureIsolated
  /\ ~LateRead(port) => WithinTimeout

(* Totals.                                                                  *)
LEMMA WorthIsNat == ASSUME NEW tls \in BOOLEAN, NEW u \in Units
                    PROVE  Worth(tls, u) \in Nat
BY DEF Units, Worth

(* With nothing in the kernel the two counts are one.                       *)
LEMMA LeadsNowhere == ASSUME NEW tls, NEW x, NEW y, Leads(tls, <<>>, x, y) PROVE x = y
BY DEF Leads

LEMMA LeadsToItself == ASSUME NEW tls, NEW x \in Nat PROVE Leads(tls, <<>>, x, x)
<1> DEFINE total == [i \in 0..0 |-> x]
<1>1. Len(<<>>) = 0 /\ total \in [0..0 -> Nat] /\ total[0] = x OBVIOUS
<1> HIDE DEF total
<1> QED BY <1>1 DEF Leads

(* A unit that arrives is worth what the peer's count grows by.             *)
LEMMA LeadsFurther ==
  ASSUME NEW tls \in BOOLEAN, NEW p \in Seq(Units), NEW x, NEW y,
         NEW u \in Units, Leads(tls, p, x, y)
  PROVE  Leads(tls, Append(p, u), x, y + Worth(tls, u))
<1>1. PICK total \in [0..Len(p) -> Nat] :
        /\ total[0] = x /\ total[Len(p)] = y
        /\ \A i \in 1..Len(p) : total[i] = total[i - 1] + Worth(tls, p[i])
  BY DEF Leads
<1> DEFINE q == Append(p, u)
           w == Worth(tls, u)
           next == [i \in 0..Len(q) |-> IF i <= Len(p) THEN total[i] ELSE total[Len(p)] + w]
<1>2. Len(p) \in Nat /\ Len(q) = Len(p) + 1 /\ q[Len(q)] = u
      /\ \A i \in 1..Len(p) : q[i] = p[i]
  OBVIOUS
<1>3. w \in Nat BY WorthIsNat
<1> HIDE DEF q, w
<1>4. next \in [0..Len(q) -> Nat] BY <1>2, <1>3
<1>5. next[0] = x /\ next[Len(q)] = y + w BY <1>1, <1>2
<1>6. \A i \in 1..Len(q) : next[i] = next[i - 1] + Worth(tls, q[i])
  <2> SUFFICES ASSUME NEW i \in 1..Len(q)
               PROVE  next[i] = next[i - 1] + Worth(tls, q[i])
    OBVIOUS
  <2>1. CASE i \in 1..Len(p) BY <1>1, <1>2, <2>1
  <2>2. CASE i = Len(q)
    <3>1. next[i] = total[Len(p)] + w BY <1>2, <2>2
    <3>2. next[i - 1] = total[Len(p)] BY <1>2, <2>2
    <3>3. Worth(tls, q[i]) = w BY <1>2, <2>2 DEF w
    <3> QED BY <3>1, <3>2, <3>3
  <2> QED BY <1>2, <2>1, <2>2
<1> HIDE DEF next
<1>7. Leads(tls, q, x, y + w) BY <1>4, <1>5, <1>6 DEF Leads
<1> QED BY <1>7 DEF q, w

(* A unit that is taken is worth what the reader's count grows by.          *)
LEMMA LeadsOn ==
  ASSUME NEW tls \in BOOLEAN, NEW p \in Seq(Units), NEW x, NEW y, p # <<>>,
         Leads(tls, p, x, y)
  PROVE  Leads(tls, Tail(p), x + Worth(tls, Head(p)), y)
<1>1. PICK total \in [0..Len(p) -> Nat] :
        /\ total[0] = x /\ total[Len(p)] = y
        /\ \A i \in 1..Len(p) : total[i] = total[i - 1] + Worth(tls, p[i])
  BY DEF Leads
<1> DEFINE q == Tail(p)
           next == [i \in 0..Len(q) |-> total[i + 1]]
<1>2. /\ Len(p) \in Nat /\ Len(p) >= 1 /\ Len(q) = Len(p) - 1 /\ Head(p) = p[1]
      /\ \A i \in 1..Len(q) : q[i] = p[i + 1]
  OBVIOUS
<1> HIDE DEF q
<1>3. next \in [0..Len(q) -> Nat] BY <1>2
<1>4. next[0] = x + Worth(tls, Head(p)) /\ next[Len(q)] = y
  <2>1. total[1] = total[0] + Worth(tls, p[1]) BY <1>1, <1>2
  <2> QED BY <1>1, <1>2, <2>1
<1>5. \A i \in 1..Len(q) : next[i] = next[i - 1] + Worth(tls, q[i])
  <2> SUFFICES ASSUME NEW i \in 1..Len(q)
               PROVE  next[i] = next[i - 1] + Worth(tls, q[i])
    OBVIOUS
  <2>1. total[i + 1] = total[i] + Worth(tls, p[i + 1]) BY <1>1, <1>2
  <2> QED BY <1>2, <2>1
<1> HIDE DEF next
<1>6. Leads(tls, q, x + Worth(tls, Head(p)), y) BY <1>3, <1>4, <1>5 DEF Leads
<1> QED BY <1>6 DEF q

(* A plain record of which the kernel gives out the first byte.             *)
LEMMA LeadsInside ==
  ASSUME NEW p \in Seq(Units), NEW x \in Nat, NEW y, p # <<>>, Head(p) = "data",
         Leads(FALSE, p, x, y)
  PROVE  Leads(FALSE, <<"tail">> \o Tail(p), x + 1, y)
<1>1. PICK total \in [0..Len(p) -> Nat] :
        /\ total[0] = x /\ total[Len(p)] = y
        /\ \A i \in 1..Len(p) : total[i] = total[i - 1] + Worth(FALSE, p[i])
  BY DEF Leads
<1> DEFINE q == <<"tail">> \o Tail(p)
           next == [total EXCEPT ![0] = x + 1]
<1>2. /\ Len(p) \in Nat /\ Len(p) >= 1 /\ Len(q) = Len(p)
      /\ p[1] = "data" /\ q[1] = "tail"
      /\ \A i \in 1..Len(p) : i > 1 => q[i] = p[i]
  OBVIOUS
<1> HIDE DEF q
<1>3. next \in [0..Len(q) -> Nat] BY <1>2
<1>4. next[0] = x + 1 /\ next[Len(q)] = y BY <1>1, <1>2
<1>5. \A i \in 1..Len(q) : next[i] = next[i - 1] + Worth(FALSE, q[i])
  <2> SUFFICES ASSUME NEW i \in 1..Len(q)
               PROVE  next[i] = next[i - 1] + Worth(FALSE, q[i])
    OBVIOUS
  <2>1. total[i] = total[i - 1] + Worth(FALSE, p[i]) BY <1>1, <1>2
  <2>2. CASE i = 1
    <3>1. Worth(FALSE, p[1]) = 2 /\ Worth(FALSE, q[1]) = 1 BY <1>2 DEF Worth
    <3>2. total[1] = x + 2 BY <1>1, <2>1, <2>2, <3>1
    <3>3. next[1] = total[1] /\ next[0] = x + 1 BY <1>2
    <3> HIDE DEF next
    <3>4. next[1] = (x + 1) + 1 BY <3>2, <3>3
    <3>5. next[1] = next[0] + Worth(FALSE, q[1]) BY <3>1, <3>3, <3>4
    <3> QED BY <2>2, <3>5
  <2>3. CASE i > 1
    <3>1. i \in 1..Len(p) /\ i - 1 \in 1..Len(p) /\ i # 0 /\ i - 1 # 0
      BY <1>2, <2>3
    <3>2. next[i] = total[i] /\ next[i - 1] = total[i - 1] BY <3>1
    <3>3. q[i] = p[i] BY <1>2, <2>3, <3>1
    <3> HIDE DEF next
    <3> QED BY <2>1, <3>2, <3>3
  <2>4. i = 1 \/ i > 1 BY <1>2
  <2> HIDE DEF next
  <2> QED BY <2>2, <2>3, <2>4
<1> HIDE DEF next
<1>6. Leads(FALSE, q, x + 1, y) BY <1>3, <1>4, <1>5 DEF Leads
<1> QED BY <1>6 DEF q

(* A connection begins with nothing sent.                                   *)
LEMMA ReadBegins == ASSUME R!Init PROVE ReadInv
<1>1. ReadTypes
  <2>1. secure \in BOOLEAN BY DEF R!Init
  <2>2. pipe \in Seq(Units) BY DEF R!Init
  <2> QED BY <2>1, <2>2 DEF R!Init, ReadTypes
<1>2. BytesKept
  <2>1. Leads(secure, <<>>, 0, 0) BY LeadsToItself
  <2> QED BY <2>1 DEF R!Init, BytesKept
<1>3. NothingHeld /\ Clean /\ Fate /\ Ended /\ R!FailureIsolated /\ WithinTimeout
  BY DEF R!Init, NothingHeld, Clean, Fate, Ended, R!EndIsEnd, R!FailureIsolated,
         WithinTimeout
<1> QED BY <1>1, <1>2, <1>3 DEF ReadInv

(* What no step changes, and what the policy of the port says.              *)
LEMMA ReadFixed == ASSUME R!Next PROVE port' = port /\ secure' = secure
BY DEF R!Next, R!Arrive, R!PeerEnds, R!OtherFails, R!StartRead, R!StartPoll,
       R!Woken, R!Expired, R!Signal, R!ReadHeld, R!ReadRecord, R!ReadPart,
       R!ReadNothing, R!ReadEnd, R!SignalRead, R!Tick

(* A read of a record returns all of it, or at least one byte and at most   *)
(* all.                                                                     *)
LEMMA PortionIsPart ==
  ASSUME ReadTypes, NEW b \in {1, 2}, NEW n \in R!Portion(b)
  PROVE  n \in {1, 2} /\ n <= b /\ (Reading[port].step = "all" => n = b)
         /\ (Reading[port].step = "one" => n = 1)
<1>1. Reading[port].step \in {"one", "any", "all"} BY ReadPolicies DEF ReadTypes
<1> QED BY <1>1 DEF R!Portion, R!Policy

(* Every step keeps the values in their sets.                               *)
LEMMA ReadTyped == ASSUME ReadInv, R!Next PROVE ReadTypes'
<1> USE DEF ReadTypes, R!peerVars, R!NoRecord, R!Fails, R!Policy
<1>0. ReadTypes /\ port' = port /\ secure' = secure BY ReadFixed DEF ReadInv
<1>1. ASSUME NEW unit \in Units, R!Arrive(unit) PROVE ReadTypes'
  <2>1. pipe' \in Seq(Units) BY <1>0, <1>1 DEF R!Arrive
  <2>2. sent' \in Nat BY <1>0, <1>1 DEF R!Arrive, Units
  <2> QED BY <1>0, <1>1, <2>1, <2>2 DEF R!Arrive
<1>2. ASSUME NEW how \in {"notify", "fin", "reset"}, R!PeerEnds(how)
      PROVE  ReadTypes'
  BY <1>0, <1>2 DEF R!PeerEnds
<1>3. CASE R!OtherFails BY <1>0, <1>3 DEF R!OtherFails
<1>4. CASE R!StartRead BY <1>0, <1>4 DEF R!StartRead
<1>5. CASE R!StartPoll BY <1>0, <1>5 DEF R!StartPoll
<1>6. CASE R!Woken BY <1>0, <1>6 DEF R!Woken
<1>7. CASE R!Expired BY <1>0, <1>7 DEF R!Expired
<1>8. CASE R!Signal
  <2>1. {Reading[port].signal, Reading[port].pollSignal}
          \subseteq {"resume", "restart", "return", "fail"}
    BY <1>0, ReadPolicies
  <2>2. pc' \in {"waiting", "idle", "done"} BY <1>8, <2>1 DEF R!Signal
  <2> QED BY <1>0, <1>8, <2>2 DEF R!Signal
<1>9. CASE R!ReadHeld
  <2>1. PICK n \in R!Portion(held) : got' = got + n /\ held' = held - n
    BY <1>9 DEF R!ReadHeld
  <2>2. held = 1 BY <1>0, <1>9 DEF R!ReadHeld
  <2>3. n = 1 BY <1>0, <2>1, <2>2, PortionIsPart
  <2> QED BY <1>0, <1>9, <2>1, <2>2, <2>3 DEF R!ReadHeld
<1>10. CASE R!ReadRecord
  <2> DEFINE bytes == IF Head(pipe) = "data" \/ secure THEN 2 ELSE 1
  <2>1. PICK n \in R!Portion(bytes) :
          /\ got' = got + n
          /\ held' = (IF R!Keeps THEN bytes - n ELSE 0)
          /\ pipe' = (IF R!Keeps \/ n = bytes
                       THEN Tail(pipe) ELSE <<"tail">> \o Tail(pipe))
    BY <1>10 DEF R!ReadRecord
  <2>2. n \in {1, 2} /\ n <= bytes BY <1>0, <2>1, PortionIsPart
  <2>3. pipe # <<>> BY <1>10 DEF R!ReadRecord
  <2>4. Tail(pipe) \in Seq(Units) /\ <<"tail">> \o Tail(pipe) \in Seq(Units)
    BY <1>0, <2>3 DEF Units
  <2>5. pipe' \in Seq(Units) BY <2>1, <2>4
  <2>6. held' \in {0, 1} /\ got' \in Nat BY <1>0, <2>1, <2>2
  <2> QED BY <1>0, <1>10, <2>5, <2>6 DEF R!ReadRecord
<1>11. CASE R!ReadPart
  <2>1. pipe' \in Seq(Units) BY <1>0, <1>11 DEF R!ReadPart
  <2> QED BY <1>0, <1>11, <2>1 DEF R!ReadPart
<1>12. CASE R!ReadNothing BY <1>0, <1>12 DEF R!ReadNothing
<1>13. CASE R!ReadEnd BY <1>0, <1>13 DEF R!ReadEnd
<1>14. CASE R!SignalRead BY <1>0, <1>14 DEF R!SignalRead
<1>15. CASE R!Tick BY <1>0, <1>15 DEF R!Tick
<1> QED
  BY <1>1, <1>2, <1>3, <1>4, <1>5, <1>6, <1>7, <1>8, <1>9, <1>10, <1>11, <1>12,
     <1>13, <1>14, <1>15 DEF R!Next, Units

(* No byte is lost or returned twice.                                       *)
LEMMA ReadCounts == ASSUME ReadInv, R!Next PROVE BytesKept'
<1> USE DEF R!peerVars
<1>0. ReadTypes /\ BytesKept /\ port' = port /\ secure' = secure
  BY ReadFixed DEF ReadInv
<1>1. ASSUME NEW unit \in Units, R!Arrive(unit) PROVE BytesKept'
  <2>1. sent' = sent + Worth(secure, unit) BY <1>1 DEF R!Arrive, Worth
  <2>2. Leads(secure, Append(pipe, unit), got + held, sent + Worth(secure, unit))
    BY <1>0, LeadsFurther DEF ReadTypes, BytesKept
  <2> QED BY <1>0, <1>1, <2>1, <2>2 DEF R!Arrive, BytesKept
<1>2. CASE R!ReadHeld
  <2>1. PICK n \in R!Portion(held) : got' = got + n /\ held' = held - n
    BY <1>2 DEF R!ReadHeld
  <2>2. held = 1 BY <1>0, <1>2 DEF R!ReadHeld, ReadTypes
  <2>3. n = 1 BY <1>0, <2>1, <2>2, PortionIsPart
  <2>4. got' + held' = got + held BY <1>0, <2>1, <2>2, <2>3 DEF ReadTypes
  <2> QED BY <1>0, <1>2, <2>4 DEF R!ReadHeld, BytesKept
<1>3. CASE R!ReadRecord
  <2> DEFINE bytes == IF Head(pipe) = "data" \/ secure THEN 2 ELSE 1
  <2>1. PICK n \in R!Portion(bytes) :
          /\ got' = got + n
          /\ held' = (IF R!Keeps THEN bytes - n ELSE 0)
          /\ pipe' = (IF R!Keeps \/ n = bytes
                       THEN Tail(pipe) ELSE <<"tail">> \o Tail(pipe))
    BY <1>3 DEF R!ReadRecord
  <2>2. n \in {1, 2} /\ n <= bytes BY <1>0, <2>1, PortionIsPart
  <2>3. /\ pipe # <<>> /\ pipe \in Seq(Units) /\ held = 0 /\ UNCHANGED <<secure, sent>>
        /\ Head(pipe) \in (IF secure THEN {"data", "tail"}
                                     ELSE {"data", "head", "tail"})
    BY <1>0, <1>3 DEF R!ReadRecord, ReadTypes
  <2>4. bytes = Worth(secure, Head(pipe)) BY <2>3 DEF Worth
  <2>5. CASE R!Keeps \/ n = bytes
    <3>1. got' + held' = (got + held) + Worth(secure, Head(pipe))
      BY <1>0, <2>1, <2>2, <2>3, <2>4, <2>5 DEF ReadTypes
    <3>2. Leads(secure, Tail(pipe), (got + held) + Worth(secure, Head(pipe)), sent)
      BY <1>0, <2>3, LeadsOn DEF BytesKept, ReadTypes
    <3> QED BY <2>1, <2>3, <2>5, <3>1, <3>2 DEF BytesKept
  <2>6. CASE ~R!Keeps /\ n # bytes
    <3>1. secure = FALSE /\ Head(pipe) = "data" /\ n = 1
      BY <1>0, <2>2, <2>3, <2>6 DEF R!Keeps, ReadTypes
    <3>2. got' + held' = (got + held) + 1
      BY <1>0, <2>1, <2>3, <2>6, <3>1 DEF ReadTypes
    <3>3. Leads(FALSE, <<"tail">> \o Tail(pipe), (got + held) + 1, sent)
      <4>1. got + held \in Nat BY <1>0 DEF ReadTypes
      <4>2. Leads(FALSE, pipe, got + held, sent) BY <1>0, <3>1 DEF BytesKept
      <4> QED BY <2>3, <3>1, <4>1, <4>2, LeadsInside
    <3> QED BY <2>1, <2>3, <2>6, <3>1, <3>2, <3>3 DEF BytesKept
  <2> QED BY <2>5, <2>6
<1>4. CASE R!ReadPart
  <2>1. /\ pipe # <<>> /\ secure /\ Head(pipe) \in {"head", "ticket"}
        /\ pipe' = Tail(pipe) /\ UNCHANGED <<got, held, sent>>
    BY <1>4 DEF R!ReadPart
  <2>2. secure = TRUE /\ Worth(secure, Head(pipe)) = 0
    BY <1>0, <2>1 DEF Worth, ReadTypes
  <2>3. Leads(secure, Tail(pipe), (got + held) + 0, sent)
    BY <1>0, <2>1, <2>2, LeadsOn DEF BytesKept, ReadTypes
  <2>4. (got + held) + 0 = got + held BY <1>0 DEF ReadTypes
  <2> QED BY <1>0, <2>1, <2>3, <2>4 DEF BytesKept
<1>5. CASE UNCHANGED <<pipe, got, held, sent>> BY <1>0, <1>5 DEF BytesKept
<1> QED
  BY <1>1, <1>2, <1>3, <1>4, <1>5
     DEF R!Next, Units, R!PeerEnds, R!OtherFails, R!StartRead, R!StartPoll, R!Woken,
         R!Expired, R!Signal, R!ReadNothing, R!ReadEnd, R!SignalRead, R!Tick

(* Every step holds back no more than its port admits.                      *)
LEMMA ReadHolds == ASSUME ReadInv, R!Next PROVE NothingHeld'
<1> USE DEF NothingHeld, R!peerVars, R!NoRecord, R!Fails, R!Policy
<1>0. /\ ReadTypes /\ NothingHeld /\ port' = port
      /\ Reading[port].order = "wait" => Reading[port].own # "nobody"
      /\ Reading[port].poll = "nobody" =>
           port \in Forgetful \/ Reading[port].step = "all"
  BY ReadFixed, ReadPolicies DEF ReadInv, ReadTypes
<1>1. CASE R!StartRead BY <1>0, <1>1 DEF R!StartRead
<1>2. CASE R!StartPoll BY <1>0, <1>2 DEF R!StartPoll
<1>3. CASE R!ReadHeld
  <2>1. held = 1 /\ pc' = "idle" BY <1>0, <1>3 DEF R!ReadHeld, ReadTypes
  <2>2. Reading[port].step # "all" BY <1>0, <2>1
  <2> QED BY <1>0, <2>1, <2>2
<1>4. CASE R!ReadRecord
  <2> DEFINE bytes == IF Head(pipe) = "data" \/ secure THEN 2 ELSE 1
  <2>1. PICK n \in R!Portion(bytes) : held' = (IF R!Keeps THEN bytes - n ELSE 0)
    BY <1>4 DEF R!ReadRecord
  <2>2. Reading[port].step = "all" => n = bytes BY <1>0, <2>1, PortionIsPart
  <2>3. pc' = "idle" BY <1>4 DEF R!ReadRecord
  <2> QED BY <1>0, <2>1, <2>2, <2>3
<1>5. CASE R!ReadPart BY <1>0, <1>5 DEF R!ReadPart
<1>6. CASE R!ReadNothing BY <1>0, <1>6 DEF R!ReadNothing
<1>7. CASE R!SignalRead BY <1>0, <1>7 DEF R!SignalRead
<1>8. CASE R!Signal
  <2>1. pc = "waiting" /\ held' = held /\ call' = call BY <1>8 DEF R!Signal
  <2> QED BY <1>0, <2>1
<1>9. ASSUME NEW unit, R!Arrive(unit) PROVE NothingHeld'
  BY <1>0, <1>9 DEF R!Arrive
<1>10. ASSUME NEW how, R!PeerEnds(how) PROVE NothingHeld'
  BY <1>0, <1>10 DEF R!PeerEnds
<1>11. CASE R!OtherFails \/ R!Woken \/ R!Expired \/ R!ReadEnd \/ R!Tick
  BY <1>0, <1>11 DEF R!OtherFails, R!Woken, R!Expired, R!ReadEnd, R!Tick
<1> QED
  BY <1>1, <1>2, <1>3, <1>4, <1>5, <1>6, <1>7, <1>8, <1>9, <1>10, <1>11 DEF R!Next

(* The queue of a thread whose port empties it stays empty.                 *)
LEMMA ReadClean == ASSUME ReadInv, R!Next PROVE Clean'
<1>0. ReadTypes /\ Clean /\ port' = port BY ReadFixed DEF ReadInv
<1>1. CASE R!OtherFails BY <1>0, <1>1 DEF R!OtherFails, Clean, R!Policy
<1>2. CASE R!Settle BY <1>0, <1>2 DEF R!Settle, Clean
<1>3. CASE dirty' = dirty BY <1>0, <1>3 DEF Clean
<1> QED
  BY <1>1, <1>2, <1>3
     DEF R!Next, R!Arrive, R!PeerEnds, R!StartRead, R!StartPoll, R!Woken, R!Expired,
         R!Signal, R!ReadHeld, R!ReadRecord, R!ReadPart, R!ReadNothing, R!ReadEnd,
         R!SignalRead, R!Tick

(* In a mixed port an error that was left in the queue stays there.         *)
LEMMA ReadSpoils == ASSUME R!Next, Spoiled PROVE Spoiled'
<1>0. port' = port BY ReadFixed
<1>1. Mixed(port)' /\ ~Reading[port].clears BY <1>0 DEF Spoiled, Mixed
<1>2. CASE R!OtherFails BY <1>2 DEF R!OtherFails, Spoiled
<1>3. CASE R!Settle
  <2>1. dirty' = (dirty /\ ~Reading[port].clears) BY <1>3 DEF R!Settle, R!Policy
  <2> QED BY <1>1, <2>1 DEF Spoiled
<1>4. CASE dirty' = dirty BY <1>1, <1>4 DEF Spoiled
<1> QED
  BY <1>2, <1>3, <1>4
     DEF R!Next, R!Arrive, R!PeerEnds, R!StartRead, R!StartPoll, R!Woken, R!Expired,
         R!Signal, R!ReadHeld, R!ReadRecord, R!ReadPart, R!ReadNothing, R!ReadEnd,
         R!SignalRead, R!Tick

(* What an attempt that found no record makes of it: while the queue holds   *)
(* no error of another connection it misleads only a port that blocks, and  *)
(* then reports a failure.                                                  *)
LEMMA NoRecordHonest ==
  ASSUME ReadInv, R!NoRecord, ~Spoiled
  PROVE  /\ outcome' # "none" => outcome' = outcome \/ outcome' = "error"
         /\ outcome' # outcome => Reading[port].blocks
<1> USE DEF R!NoRecord, R!Fails, R!Policy
<1>0. /\ ReadTypes /\ Clean
      /\ Reading[port].failed \in {"eof", "error"}
      /\ Reading[port].failed = "eof" => ~Reading[port].blocks
      /\ Reading[port].again = "fail" => Reading[port].blocks
  BY ReadPolicies DEF ReadInv, ReadTypes
<1>1. CASE R!Misled \/ Reading[port].again = "fail"
  <2>1. ASSUME R!Misled, ~Reading[port].blocks PROVE FALSE
    <3>1. dirty /\ ~Reading[port].clears BY <2>1 DEF R!Misled
    <3>2. Reading[port].drains # "all" \/ Reading[port].shuts BY <1>0, <3>1 DEF Clean
    <3> QED BY <2>1, <3>1, <3>2 DEF Spoiled, Mixed
  <2>2. Reading[port].blocks BY <1>0, <1>1, <2>1
  <2>3. Reading[port].failed = "error" BY <1>0, <2>2
  <2> QED BY <1>1, <2>2, <2>3
<1>2. CASE ~(R!Misled \/ Reading[port].again = "fail") BY <1>2
<1> QED BY <1>1, <1>2

(* An end is reported for what the peer did.                                *)
LEMMA EndHonest ==
  ASSUME ReadInv, R!ReadEnd, outcome' = "eof"
  PROVE  got = sent
<1>1. held = 0 /\ pipe = <<>> BY DEF R!ReadEnd
<1>2. got + held = sent
  BY <1>1, LeadsNowhere DEF ReadInv, BytesKept
<1> QED BY <1>1, <1>2 DEF ReadInv, ReadTypes

(* A call is over when it has reported something.                           *)
LEMMA ReadDecides == ASSUME ReadInv, R!Next PROVE Fate'
<1> USE DEF Fate, R!peerVars, R!Fails, R!Policy
<1>0. /\ ReadTypes /\ Fate /\ port' = port
      /\ Reading[port].failed \in {"eof", "error"} /\ Reading[port].silent \in {"eof", "error"}
      /\ {Reading[port].signal, Reading[port].pollSignal}
           \subseteq {"resume", "restart", "return", "fail"}
  BY ReadFixed, ReadPolicies DEF ReadInv, ReadTypes
<1>1. CASE UNCHANGED <<pc, outcome>> BY <1>0, <1>1
<1>2. CASE /\ UNCHANGED outcome /\ pc \in {"idle", "waiting", "reading"}
           /\ pc' \in {"idle", "waiting", "reading"}
  BY <1>0, <1>2
<1>3. CASE R!Signal
  <2> DEFINE choice == IF call = "read" THEN Reading[port].signal
                                        ELSE Reading[port].pollSignal
  <2>1. choice \in {"resume", "restart", "return", "fail"} BY <1>0
  <2>2. pc = "waiting" BY <1>3 DEF R!Signal
  <2>3. CASE choice = "fail" BY <1>0, <1>3, <2>3 DEF R!Signal
  <2>4. CASE choice \in {"resume", "restart", "return"}
    BY <1>0, <1>3, <2>2, <2>4 DEF R!Signal
  <2> QED BY <2>1, <2>3, <2>4
<1>4. CASE R!NoRecord /\ pc = "reading" BY <1>0, <1>4 DEF R!NoRecord
<1>5. CASE R!ReadPart BY <1>1, <1>4, <1>5 DEF R!ReadPart
<1>6. CASE R!ReadNothing \/ R!SignalRead BY <1>4, <1>6 DEF R!ReadNothing, R!SignalRead
<1>7. CASE R!ReadEnd BY <1>0, <1>7 DEF R!ReadEnd
<1>8. CASE \/ R!StartRead \/ R!StartPoll \/ R!Woken \/ R!Expired \/ R!ReadHeld
           \/ R!ReadRecord
  BY <1>2, <1>8 DEF R!StartRead, R!StartPoll, R!Woken, R!Expired, R!ReadHeld, R!ReadRecord
<1> QED
  BY <1>1, <1>3, <1>5, <1>6, <1>7, <1>8
     DEF R!Next, R!Arrive, R!PeerEnds, R!OtherFails, R!Tick

(* A reported end is one, and stays one.                                    *)
LEMMA ReadReports == ASSUME ReadInv, R!Next, ~Spoiled PROVE Ended'
<1> USE DEF Fate, Ended, R!EndIsEnd, R!peerVars, R!Fails, R!Policy
<1>0. /\ ReadTypes /\ Fate /\ Ended /\ port' = port
      /\ Reading[port].failed \in {"eof", "error"}
      /\ Reading[port].failed = "eof" =>
           "fail" \notin {Reading[port].signal, Reading[port].pollSignal}
      /\ {Reading[port].signal, Reading[port].pollSignal}
           \subseteq {"resume", "restart", "return", "fail"}
  BY ReadFixed, ReadPolicies DEF ReadInv, ReadTypes
<1>1. ASSUME NEW unit, R!Arrive(unit) PROVE Ended'
  BY <1>0, <1>1 DEF R!Arrive
<1>2. ASSUME NEW how \in {"notify", "fin", "reset"}, R!PeerEnds(how)
      PROVE  Ended'
  BY <1>0, <1>2 DEF R!PeerEnds
<1>3. CASE R!OtherFails BY <1>0, <1>3 DEF R!OtherFails
<1>4. CASE R!StartRead BY <1>0, <1>4 DEF R!StartRead
<1>5. CASE R!StartPoll BY <1>0, <1>5 DEF R!StartPoll
<1>6. CASE R!Woken BY <1>0, <1>6 DEF R!Woken
<1>7. CASE R!Expired BY <1>0, <1>7 DEF R!Expired
<1>8. CASE R!Signal
  <2>1. \/ pc' = "done" /\ outcome' = "error"
        \/ pc' \in {"waiting", "idle"} /\ outcome' = outcome
    <3> DEFINE choice == IF call = "read" THEN Reading[port].signal
                                          ELSE Reading[port].pollSignal
    <3>1. choice \in {"resume", "restart", "return", "fail"} BY <1>0
    <3>2. pc = "waiting" BY <1>8 DEF R!Signal
    <3>3. CASE choice = "fail"
      <4>1. Reading[port].failed = "error" BY <1>0, <3>3
      <4> QED BY <1>8, <3>3, <4>1 DEF R!Signal
    <3>4. CASE choice \in {"resume", "restart", "return"}
      BY <1>8, <3>2, <3>4 DEF R!Signal
    <3> QED BY <3>1, <3>3, <3>4
  <2>2. pc = "waiting" /\ UNCHANGED <<ended, got, sent, pipe>> BY <1>8 DEF R!Signal
  <2> QED BY <1>0, <2>1, <2>2
<1>9. CASE R!ReadHeld BY <1>0, <1>9 DEF R!ReadHeld
<1>10. CASE R!ReadRecord BY <1>0, <1>10 DEF R!ReadRecord
<1>11. ASSUME R!NoRecord, pc = "reading", UNCHANGED ended PROVE Ended'
  <2>1. outcome = "none" BY <1>0, <1>11
  <2>2. outcome' \in {"none", "error"} BY <1>0, <1>11, <2>1, NoRecordHonest
  <2> QED BY <2>2
<1>12. CASE R!ReadPart
  <2>1. CASE Reading[port].blocks BY <1>0, <1>12, <2>1 DEF R!ReadPart
  <2>2. CASE ~Reading[port].blocks BY <1>11, <1>12, <2>2 DEF R!ReadPart
  <2> QED BY <2>1, <2>2
<1>13. CASE R!ReadNothing BY <1>11, <1>13 DEF R!ReadNothing
<1>14. CASE R!ReadEnd
  <2>1. outcome' = "eof" => got = sent BY <1>14, EndHonest
  <2> QED BY <1>14, <2>1 DEF R!ReadEnd
<1>15. CASE R!SignalRead BY <1>11, <1>15 DEF R!SignalRead
<1>16. CASE R!Tick BY <1>0, <1>16 DEF R!Tick
<1> QED
  BY <1>1, <1>2, <1>3, <1>4, <1>5, <1>6, <1>7, <1>8, <1>9, <1>10, <1>12, <1>13,
     <1>14, <1>15, <1>16 DEF R!Next

(* A failure is reported for what the peer or a signal did.                 *)
LEMMA ReadIsolates ==
  ASSUME ReadInv, R!Next, ~Spoiled PROVE R!FailureIsolated'
<1> USE DEF R!FailureIsolated, R!peerVars, R!Policy, R!Fails
<1>0. /\ ReadTypes /\ Fate /\ R!FailureIsolated /\ port' = port
      /\ Reading[port].blocks \/ Reading[port].again = "fail" =>
           "fail" \in {Reading[port].signal, Reading[port].pollSignal,
                      Reading[port].again}
      /\ {Reading[port].signal, Reading[port].pollSignal}
           \subseteq {"resume", "restart", "return", "fail"}
  BY ReadFixed, ReadPolicies DEF ReadInv, ReadTypes
<1>1. ASSUME NEW how \in {"notify", "fin", "reset"}, R!PeerEnds(how)
      PROVE  R!FailureIsolated'
  BY <1>0, <1>1 DEF R!PeerEnds
<1>2. CASE R!Signal
  <2>1. outcome' # outcome =>
          "fail" \in {Reading[port].signal, Reading[port].pollSignal}
    BY <1>0, <1>2 DEF R!Signal
  <2>2. signals' = signals + 1 /\ signals' > 0 /\ ended' = ended
    BY <1>0, <1>2 DEF R!Signal, ReadTypes
  <2> QED BY <1>0, <2>1, <2>2
<1>3. CASE R!ReadEnd BY <1>0, <1>3 DEF R!ReadEnd
<1>4. CASE R!ReadPart
  <2>1. outcome' = outcome
    <3>1. CASE Reading[port].blocks BY <1>4, <3>1 DEF R!ReadPart
    <3>2. CASE ~Reading[port].blocks
      BY <1>0, <1>4, <3>2, NoRecordHonest DEF R!ReadPart
    <3> QED BY <3>1, <3>2
  <2> QED BY <1>0, <1>4, <2>1 DEF R!ReadPart
<1>5. CASE R!ReadNothing
  <2>1. outcome' = outcome BY <1>0, <1>5, NoRecordHonest DEF R!ReadNothing
  <2> QED BY <1>0, <1>5, <2>1 DEF R!ReadNothing
<1>6. CASE R!SignalRead
  <2>1. signals' > 0 /\ Reading[port].blocks
    BY <1>0, <1>6 DEF R!SignalRead, ReadTypes
  <2> QED BY <1>0, <2>1
<1>7. CASE UNCHANGED <<ended, outcome, signals>> BY <1>0, <1>7
<1> QED
  BY <1>1, <1>2, <1>3, <1>4, <1>5, <1>6, <1>7
     DEF R!Next, R!Arrive, R!OtherFails, R!StartRead, R!StartPoll, R!Woken, R!Expired,
         R!ReadHeld, R!ReadRecord, R!Tick

(* A call of a port with one deadline waits until then and no longer.       *)
LEMMA ReadHurries ==
  ASSUME ReadInv, R!Next, ~LateRead(port) PROVE WithinTimeout'
<1> USE Parameters DEF WithinTimeout, R!peerVars, R!NoRecord, R!Fails, R!Policy
<1>0. /\ ReadTypes /\ WithinTimeout /\ port' = port
      /\ ~Reading[port].blocks /\ Reading[port].clock # "wait"
      /\ Reading[port].signal # "restart" /\ Reading[port].pollSignal # "restart"
      /\ {Reading[port].signal, Reading[port].pollSignal}
           \subseteq {"resume", "restart", "return", "fail"}
  BY ReadFixed, ReadPolicies DEF ReadInv, LateRead, ReadTypes
<1>1. CASE R!StartRead BY <1>0, <1>1 DEF R!StartRead
<1>2. CASE R!StartPoll BY <1>0, <1>2 DEF R!StartPoll
<1>3. CASE R!Signal BY <1>0, <1>3 DEF R!Signal
<1>4. CASE R!ReadPart BY <1>0, <1>4 DEF R!ReadPart
<1>5. CASE R!ReadNothing BY <1>0, <1>5 DEF R!ReadNothing
<1>6. CASE R!SignalRead BY <1>0, <1>6 DEF R!SignalRead
<1>7. CASE R!Tick
  <2>1. pc = "waiting" /\ now < limit /\ now' = now + 1 BY <1>0, <1>7 DEF R!Tick
  <2> QED BY <1>0, <1>7, <2>1 DEF R!Tick, ReadTypes
<1>8. CASE R!Woken \/ R!Expired \/ R!ReadHeld \/ R!ReadRecord \/ R!ReadEnd \/ R!OtherFails
  BY <1>0, <1>8 DEF R!Woken, R!Expired, R!ReadHeld, R!ReadRecord, R!ReadEnd,
                    R!OtherFails
<1>9. ASSUME NEW unit, R!Arrive(unit) PROVE WithinTimeout'
  BY <1>0, <1>9 DEF R!Arrive
<1>10. ASSUME NEW how, R!PeerEnds(how) PROVE WithinTimeout'
  BY <1>0, <1>10 DEF R!PeerEnds
<1> QED
  BY <1>1, <1>2, <1>3, <1>4, <1>5, <1>6, <1>7, <1>8, <1>9, <1>10 DEF R!Next

(* The invariant of the calls that read is inductive.                       *)
LEMMA ReadKept == ASSUME ReadInv, R!Next PROVE ReadInv'
<1>1. port' = port BY ReadFixed
<1>2. ~LateRead(port)' => WithinTimeout' BY <1>1, ReadHurries DEF LateRead
<1>3. ~Spoiled' => Ended' /\ R!FailureIsolated'
  BY ReadSpoils, ReadReports, ReadIsolates
<1> QED
  BY <1>2, <1>3, ReadTyped, ReadCounts, ReadHolds, ReadClean, ReadDecides
     DEF ReadInv

(* What the parts of the invariant say of the calls.                        *)
LEMMA ReadPromises ==
  ASSUME ReadInv
  PROVE  /\ R!EndIsEnd \/ (Mixed(port) /\ dirty)
         /\ R!NoByteStranded \/ (port \in Forgetful /\ call = "poll")
         /\ R!FailureIsolated \/ (Mixed(port) /\ dirty)
         /\ ~LateRead(port) => R!ReceiveBounded
BY DEF ReadInv, Spoiled, Ended, NothingHeld, WithinTimeout, R!NoByteStranded,
       R!ReceiveBounded

-----------------------------------------------------------------------------
(* Send.                                                                    *)

\* The values of the variables, as far as the arguments below need them.
SendTypes ==
  /\ port \in DOMAIN Sending
  /\ frame \in Nat /\ 1 <= frame
  /\ done \in Nat /\ part \in Nat /\ done + part <= Length
  /\ wire \in Seq(Nat \X Nat) /\ now \in Nat

\* The wire holds the frames before this one and of this one what the routine
\* knows of and what an unfinished SSL_write put out.
OnTheWire == Len(wire) = (frame - 1) * Length + (done + part)

SendInv ==
  /\ SendTypes /\ OnTheWire /\ S!WellFormed
  /\ ~LateWrite(port) =>
       (pc \in {"writing", "waiting"} => limit = Budget /\ now <= limit)

(* Where in the stream a unit of a frame belongs.                           *)
LEMMA Place ==
  ASSUME NEW a \in Nat, NEW k \in 0..(Length - 1)
  PROVE  (a * Length + k) \div Length = a /\ (a * Length + k) % Length = k
BY Parameters

(* Before the first frame the wire is empty.                                *)
LEMMA SendBegins == ASSUME S!Init PROVE SendInv
<1>1. SendTypes /\ OnTheWire
  <2>1. wire = <<>> /\ Len(wire) = 0 /\ wire \in Seq(Nat \X Nat)
    BY DEF S!Init
  <2> QED BY Parameters, <2>1 DEF S!Init, SendTypes, OnTheWire
<1> QED BY <1>1 DEF S!Init, SendInv, S!WellFormed

(* A step that puts nothing on the wire and stays in its frame.             *)
LEMMA SendRests ==
  ASSUME SendInv, UNCHANGED <<port, frame, done, part, wire>>,
         now' \in Nat,
         ~LateWrite(port) /\ pc' \in {"writing", "waiting"} =>
           limit' = Budget /\ now' <= limit'
  PROVE  SendInv'
BY DEF SendInv, SendTypes, OnTheWire, S!WellFormed, LateWrite

(* The invariant of the calls that write is inductive.                      *)
LEMMA SendKept == ASSUME SendInv, S!Next PROVE SendInv'
<1> USE DEF S!Policy, S!Fails
<1>0. /\ SendTypes /\ OnTheWire /\ S!WellFormed /\ now \in Nat
      /\ ~LateWrite(port) =>
           (pc \in {"writing", "waiting"} => limit = Budget /\ now <= limit)
      /\ Budget \in Nat
  BY Parameters DEF SendInv, SendTypes
<1>1. CASE S!PeerReads BY <1>0, <1>1, SendRests DEF S!PeerReads
<1>2. CASE S!PeerBreaks BY <1>0, <1>2, SendRests DEF S!PeerBreaks
<1>3. CASE S!Begin BY <1>0, <1>3, SendRests DEF S!Begin
<1>4. CASE S!GiveUp BY <1>0, <1>4, SendRests DEF S!GiveUp
<1>5. CASE S!Put
  <2> DEFINE k == done + part
             unit == <<frame, k + 1>>
  <2>1. /\ wire' = Append(wire, unit) /\ k < Length /\ frame' = frame
        /\ UNCHANGED <<port, pc, limit, now>>
    BY <1>5 DEF S!Put
  <2>2. done' \in Nat /\ part' \in Nat /\ done' + part' = k + 1
    <3>1. CASE ~secure \/ Sending[port].partial
      <4>1. done' = done + 1 /\ part' = part BY <1>5, <3>1 DEF S!Put
      <4> QED BY <1>0, <4>1 DEF SendTypes
    <3>2. CASE ~(~secure \/ Sending[port].partial) /\ done + part + 1 = Length
      BY <1>0, <1>5, <3>2, Parameters DEF S!Put, SendTypes
    <3>3. CASE ~(~secure \/ Sending[port].partial) /\ done + part + 1 # Length
      BY <1>0, <1>5, <3>3 DEF S!Put, SendTypes
    <3> QED BY <3>1, <3>2, <3>3
  <2>3. k \in 0..(Length - 1) /\ k \in Nat /\ k + 1 <= Length
    BY <1>0, <2>1, Parameters DEF SendTypes
  <2>4. PICK a \in Nat : a = (frame - 1) * Length BY <1>0, Parameters DEF SendTypes
  <2>5. wire \in Seq(Nat \X Nat) /\ Len(wire) = a + k /\ unit \in Nat \X Nat
    BY <1>0, <2>3, <2>4 DEF OnTheWire, SendTypes
  <2> HIDE DEF unit, k
  <2>6. /\ wire' \in Seq(Nat \X Nat) /\ Len(wire') = a + (k + 1)
        /\ wire'[a + k + 1] = unit
        /\ \A i \in 1..Len(wire) : wire'[i] = wire[i]
    BY <2>1, <2>3, <2>4, <2>5
  <2>7. SendTypes'
    <3>1. done' + part' <= Length BY <2>2, <2>3, Parameters
    <3> QED BY <1>0, <2>1, <2>2, <2>6, <3>1 DEF SendTypes
  <2>8. OnTheWire' BY <2>1, <2>2, <2>4, <2>6 DEF OnTheWire
  <2>9. S!WellFormed'
    <3> SUFFICES ASSUME NEW i \in 1..Len(wire')
                 PROVE  wire'[i] = <<1 + ((i - 1) \div Length), 1 + ((i - 1) % Length)>>
      <4>1. DOMAIN wire' = 1..Len(wire') BY <2>6
      <4>2. S!WellFormed' <=>
              \A j \in DOMAIN wire' :
                wire'[j] = <<1 + ((j - 1) \div Length), 1 + ((j - 1) % Length)>>
        BY DEF S!WellFormed
      <4> QED BY <4>1, <4>2, Zenon
    <3>1. CASE i \in 1..Len(wire)
      <4>1. DOMAIN wire = 1..Len(wire) BY <2>5
      <4>2. wire[i] = <<1 + ((i - 1) \div Length), 1 + ((i - 1) % Length)>>
        BY <1>0, <3>1, <4>1, Zenon DEF S!WellFormed
      <4>3. wire'[i] = wire[i] BY <2>6, <3>1
      <4> QED BY <4>2, <4>3, Zenon
    <3>2. CASE i = a + k + 1
      <4>1. i - 1 = a + k BY <2>3, <2>4, <3>2
      <4>2. frame - 1 \in Nat BY <1>0 DEF SendTypes
      <4>3. ((frame - 1) * Length + k) \div Length = frame - 1
            /\ ((frame - 1) * Length + k) % Length = k
        BY <2>3, <4>2, Place
      <4>4. (i - 1) \div Length = frame - 1 /\ (i - 1) % Length = k
        BY <2>4, <4>1, <4>3
      <4>5. 1 + (frame - 1) = frame /\ 1 + k = k + 1
        BY <1>0, <2>3 DEF SendTypes
      <4> QED BY <2>6, <3>2, <4>4, <4>5 DEF unit
    <3>3. i \in 1..Len(wire) \/ i = a + k + 1 BY <2>3, <2>4, <2>5, <2>6
    <3> QED BY <3>1, <3>2, <3>3
  <2> QED BY <1>0, <2>1, <2>7, <2>8, <2>9 DEF SendInv, LateWrite
<1>6. CASE S!Complete
  <2>1. part = 0 /\ part' = 0 /\ done = Length
    BY <1>0, <1>6, Parameters DEF S!Complete, SendTypes
  <2>2. /\ frame' = frame + 1 /\ done' = 0 /\ UNCHANGED <<port, wire, now>>
        /\ pc' = "idle"
    BY <1>6 DEF S!Complete
  <2>3. SendTypes' BY <1>0, <2>1, <2>2, Parameters DEF SendTypes
  <2>4. OnTheWire'
    <3>1. (frame - 1) * Length + Length = frame * Length
      BY <1>0, Parameters DEF SendTypes
    <3>2. (frame + 1) - 1 = frame /\ Length + 0 = Length /\ frame * Length + 0 = frame * Length
      BY <1>0, Parameters DEF SendTypes
    <3> QED BY <1>0, <2>1, <2>2, <3>1, <3>2 DEF OnTheWire
  <2> QED BY <1>0, <2>2, <2>3, <2>4 DEF SendInv, S!WellFormed
<1>7. CASE S!Stall BY <1>0, <1>7, SendRests DEF S!Stall
<1>8. CASE S!Unfull BY <1>0, <1>8, SendRests DEF S!Unfull
<1>9. CASE S!Expired BY <1>0, <1>9, SendRests DEF S!Expired
<1>10. CASE S!Refused BY <1>0, <1>10, SendRests DEF S!Refused
<1>11. CASE S!Signal BY <1>0, <1>11, SendRests DEF S!Signal
<1>12. CASE S!Tick
  <2>1. ~LateWrite(port) => pc = "waiting" /\ now < limit
    BY <1>12 DEF S!Tick, LateWrite
  <2>2. now' = now + 1 /\ UNCHANGED <<port, frame, done, part, wire, pc, limit>>
    BY <1>12 DEF S!Tick
  <2> QED BY <1>0, <2>1, <2>2, SendRests
<1> QED BY <1>1, <1>2, <1>3, <1>4, <1>5, <1>6, <1>7, <1>8, <1>9, <1>10, <1>11,
           <1>12 DEF S!Next

(* What the parts of the invariant say of the peer and of the caller.       *)
LEMMA SendPromises ==
  ASSUME SendInv
  PROVE  /\ S!WellFormed /\ S!ReportedIsWritten
         /\ ~LateWrite(port) => S!SendBounded
<1>1. S!ReportedIsWritten
  <2>1. PICK a \in Nat : a = (frame - 1) * Length
    BY Parameters DEF SendInv, SendTypes
  <2> QED BY <2>1 DEF SendInv, SendTypes, OnTheWire, S!ReportedIsWritten
<1> QED BY <1>1 DEF SendInv, S!SendBounded

-----------------------------------------------------------------------------
(* Handles.                                                                 *)

Kinds == {"free", "conn", "listener", "lent"}
Entries == [fd : 0..MaxFds, id : Nat, kind : Kinds]

\* The values of the variables, as far as the arguments below need them.
HandleTypes ==
  /\ port \in DOMAIN Handling
  /\ sock \in [1..MaxFds -> Nat] /\ table \in [1..MaxFds -> Entries]
  /\ lone \in 0..MaxFds
  /\ owned \subseteq [slot : 1..H!Size, id : Nat]
  /\ gone \subseteq [slot : 1..H!Size, id : Nat]
  /\ ids \in Nat /\ backlog \in Nat /\ now \in Nat

Used(s) == table[s].kind # "free"

\* A slot in use has an id of its own, a handle of the program leads to it,
\* and its descriptor, unless it is the lent one, is open for its socket.
Slotted ==
  /\ \A s \in 1..MaxFds : ~Used(s) => table[s].fd = 0
  /\ \A s \in 1..MaxFds : Used(s) =>
       /\ 1 <= table[s].id /\ table[s].id <= ids
       /\ [slot |-> s, id |-> table[s].id] \in owned
       /\ table[s].fd # 0 => table[s].fd # lone /\ sock[table[s].fd] = table[s].id
  /\ \A s, t \in 1..MaxFds :
       Used(s) /\ Used(t) /\ table[s].id = table[t].id => s = t

\* The program's handles lead to their slots, and it has closed the others.
Owners ==
  /\ \A h \in owned : Used(h.slot) /\ table[h.slot].id = h.id
  /\ \A h \in gone : h \notin owned /\ h.id <= ids

\* An open descriptor is in a slot or is the listener's, which is open.
Sockets ==
  /\ \A f \in 1..MaxFds : sock[f] # 0 =>
       f = lone \/ \E s \in 1..MaxFds : Used(s) /\ table[s].fd = f
  /\ lone # 0 => sock[lone] # 0
  /\ Handling[port].listens = "call" /\ pc = "idle" => lone = 0

Held == Slotted /\ Owners /\ Sockets

\* An accept that waits has time left; one that blocks finds a peer.
AcceptInTime ==
  /\ pc # "idle" => limit = Budget /\ now <= limit
  /\ Handling[port].accepts = "wait" /\ pc = "accepting" => backlog > 0
  /\ Handling[port].listens = "never" =>
       /\ pc = "idle" /\ lone = 0
       /\ \A s \in 1..MaxFds : table[s].kind # "listener"

HandlesInv ==
  /\ HandleTypes
  /\ port \notin Leaky => Held
  /\ ~LateAccept(port) => AcceptInTime

(* The first of some slots or descriptors is one of them.                   *)
LEMMA LowestIsOne ==
  ASSUME NEW X \in SUBSET Nat, X # {} PROVE H!Lowest(X) \in X
<1>1. PICK x \in X : \A y \in X : <<y, x>> \notin OpToRel(<, Nat)
  BY WFMin, NatLessThanWellFounded, Zenon
<1>2. \A y \in X : ~(y < x)
  BY <1>1, Zenon DEF OpToRel
<1>3. \A y \in X : x <= y BY <1>2
<1> QED BY <1>3 DEF H!Lowest

(* There are at most as many slots as table entries.                        *)
LEMMA SizeFits == ASSUME HandleTypes PROVE 1..H!Size \subseteq 1..MaxFds
BY Parameters DEF H!Size

(* A slot is filled, on the way an accept may close a listener of its own.  *)
LEMMA FillKeeps ==
  ASSUME HandleTypes, Held,
         NEW s \in 1..H!Size, ~Used(s),
         NEW f \in 0..MaxFds, f # 0 => sock[f] = 0,
         NEW i \in Nat, i = ids + 1, NEW k \in {"conn", "listener", "lent"},
         lone' \in {lone, 0}, sock' \in [1..MaxFds -> Nat],
         \A g \in 1..MaxFds :
           sock'[g] = (IF g = f THEN i
                       ELSE IF g = lone /\ lone' = 0 THEN 0 ELSE sock[g]),
         table' = [table EXCEPT ![s] = [fd |-> f, id |-> i, kind |-> k]],
         owned' = owned \cup {[slot |-> s, id |-> i]},
         ids' = i, UNCHANGED <<port, gone>>,
         Handling[port].listens = "call" /\ pc' = "idle" => lone' = 0
  PROVE  Held'
<1> USE DEF Used
<1>0. /\ \A t \in 1..MaxFds : table[t].fd \in 0..MaxFds /\ table[t].id \in Nat
      /\ MaxFds \in Nat /\ ids \in Nat /\ lone \in 0..MaxFds
      /\ DOMAIN table = 1..MaxFds
      /\ \A h \in owned : h.slot \in 1..MaxFds
      /\ \A h \in owned \cup gone : h.id \in Nat
  BY Parameters, SizeFits DEF HandleTypes, Entries
<1>1. s \in 1..MaxFds /\ i \in Nat /\ i > ids /\ MaxFds \in Nat
  BY <1>0, SizeFits
<1>2. /\ table'[s] = [fd |-> f, id |-> i, kind |-> k]
      /\ \A t \in 1..MaxFds : t # s => table'[t] = table[t]
  BY <1>0, <1>1
<1>3. Slotted'
  <2>1. \A t \in 1..MaxFds : ~Used(t)' => table'[t].fd = 0
    BY <1>1, <1>2 DEF Held, Slotted
  <2>2. \A t \in 1..MaxFds : Used(t)' =>
          /\ 1 <= table'[t].id /\ table'[t].id <= ids'
          /\ [slot |-> t, id |-> table'[t].id] \in owned'
    <3> SUFFICES ASSUME NEW t \in 1..MaxFds, Used(t)'
                 PROVE  /\ 1 <= table'[t].id /\ table'[t].id <= ids'
                        /\ [slot |-> t, id |-> table'[t].id] \in owned'
      OBVIOUS
    <3>1. CASE t = s BY <1>0, <1>1, <1>2, <3>1
    <3>2. CASE t # s
      <4>1. Used(t) /\ table'[t] = table[t] BY <1>2, <3>2
      <4>2. /\ 1 <= table[t].id /\ table[t].id <= ids
            /\ [slot |-> t, id |-> table[t].id] \in owned
        BY <4>1 DEF Held, Slotted
      <4> QED BY <1>0, <1>1, <4>1, <4>2
    <3> QED BY <3>1, <3>2
  <2>3. \A t \in 1..MaxFds : Used(t)' =>
          (table'[t].fd # 0 =>
             table'[t].fd # lone' /\ sock'[table'[t].fd] = table'[t].id)
    <3> SUFFICES ASSUME NEW t \in 1..MaxFds, Used(t)', table'[t].fd # 0
                 PROVE  table'[t].fd # lone' /\ sock'[table'[t].fd] = table'[t].id
      OBVIOUS
    <3>1. CASE t = s
      <4>1. f # 0 /\ f # lone BY <1>2, <3>1 DEF Held, Sockets
      <4> QED BY <1>1, <1>2, <3>1, <4>1
    <3>2. CASE t # s
      <4>1. /\ Used(t) /\ table[t].fd # 0 /\ table[t].fd \in 1..MaxFds
            /\ table[t].fd # lone /\ sock[table[t].fd] = table[t].id
            /\ table[t].id # 0
        <5>1. Used(t) /\ table[t].fd # 0 BY <1>2, <3>2
        <5>2. /\ 1 <= table[t].id /\ table[t].fd # lone
              /\ sock[table[t].fd] = table[t].id
          BY <5>1 DEF Held, Slotted
        <5> QED BY <1>0, <5>1, <5>2
      <4>2. table[t].fd # f BY <4>1
      <4> QED BY <1>2, <3>2, <4>1, <4>2
    <3> QED BY <3>1, <3>2
  <2>4. \A t, u \in 1..MaxFds :
          Used(t)' /\ Used(u)' /\ table'[t].id = table'[u].id => t = u
    <3> SUFFICES ASSUME NEW t \in 1..MaxFds, NEW u \in 1..MaxFds, Used(t)',
                        Used(u)', table'[t].id = table'[u].id
                 PROVE  t = u
      OBVIOUS
    <3>1. ASSUME NEW v \in 1..MaxFds, Used(v) PROVE table[v].id # i
      <4>1. table[v].id <= ids BY <3>1 DEF Held, Slotted
      <4> QED BY <1>0, <1>1, <4>1
    <3>2. CASE t # s /\ u # s BY <1>2, <3>2 DEF Held, Slotted
    <3>3. CASE t = s \/ u = s BY <1>0, <1>1, <1>2, <3>1, <3>3
    <3> QED BY <3>2, <3>3
  <2> QED BY <2>1, <2>2, <2>3, <2>4 DEF Slotted
<1>4. Owners'
  <2>1. \A h \in owned' : Used(h.slot)' /\ table'[h.slot].id = h.id
    BY <1>0, <1>1, <1>2 DEF Held, Owners
  <2>2. ASSUME NEW h \in gone PROVE h \notin owned' /\ h.id <= ids'
    <3>1. h \notin owned /\ h.id <= ids BY DEF Held, Owners
    <3>2. h.id # i BY <1>0, <1>1, <3>1
    <3>3. h # [slot |-> s, id |-> i] BY <3>2
    <3> QED BY <1>0, <1>1, <3>1, <3>3
  <2> QED BY <2>1, <2>2 DEF Owners
<1>5. Sockets'
  <2>1. ASSUME NEW g \in 1..MaxFds, sock'[g] # 0
        PROVE  g = lone' \/ \E t \in 1..MaxFds : Used(t)' /\ table'[t].fd = g
    <3>1. CASE g = f BY <1>1, <1>2, <3>1
    <3>2. CASE g # f
      <4>1. sock[g] # 0 /\ (g = lone => g = lone') BY <2>1, <3>2
      <4>2. ASSUME g # lone
            PROVE  \E t \in 1..MaxFds : Used(t)' /\ table'[t].fd = g
        <5>1. PICK t \in 1..MaxFds : Used(t) /\ table[t].fd = g
          BY <4>1, <4>2 DEF Held, Sockets
        <5>2. t # s BY <5>1
        <5> QED BY <1>2, <5>1, <5>2
      <4> QED BY <4>1, <4>2
    <3> QED BY <3>1, <3>2
  <2>2. lone' # 0 => sock'[lone'] # 0 BY <1>0, <1>1 DEF Held, Sockets
  <2> QED BY <2>1, <2>2 DEF Sockets
<1> QED BY <1>3, <1>4, <1>5 DEF Held

(* A listener is opened, moved or closed while the table stays as it is.    *)
LEMMA LoneKeeps ==
  ASSUME HandleTypes, Held,
         lone' \in 0..MaxFds, lone' # 0 => lone' = lone \/ sock[lone'] = 0,
         \A g \in 1..MaxFds :
           IF g = lone' THEN sock'[g] # 0
           ELSE sock'[g] = (IF g = lone THEN 0 ELSE sock[g]),
         ids' \in Nat, ids <= ids', UNCHANGED <<port, table, owned, gone>>,
         Handling[port].listens = "call" /\ pc' = "idle" => lone' = 0
  PROVE  Held'
<1> USE DEF Used
<1>0. /\ \A t \in 1..MaxFds : table[t].fd \in 0..MaxFds /\ table[t].id \in Nat
      /\ MaxFds \in Nat /\ ids \in Nat /\ lone \in 0..MaxFds
      /\ \A h \in gone : h.id \in Nat
  BY Parameters DEF HandleTypes, Entries
<1>1. Slotted'
  <2>1. ASSUME NEW t \in 1..MaxFds, Used(t)
        PROVE  1 <= table[t].id /\ table[t].id <= ids'
    <3>1. 1 <= table[t].id /\ table[t].id <= ids BY <2>1 DEF Held, Slotted
    <3> QED BY <1>0, <3>1
  <2>2. ASSUME NEW t \in 1..MaxFds, Used(t), table[t].fd # 0
        PROVE  table[t].fd # lone' /\ sock'[table[t].fd] = table[t].id
    <3>1. /\ 1 <= table[t].id /\ table[t].fd # lone
          /\ sock[table[t].fd] = table[t].id
      BY <2>2 DEF Held, Slotted
    <3>2. table[t].fd \in 1..MaxFds /\ table[t].id # 0 BY <1>0, <2>2, <3>1
    <3>3. table[t].fd # lone'
      <4>1. CASE lone' = lone BY <3>1, <4>1
      <4>2. CASE lone' # lone
        <5>1. lone' # 0 => sock[lone'] = 0 BY <4>2
        <5> QED BY <2>2, <3>1, <3>2, <5>1
      <4> QED BY <4>1, <4>2
    <3> QED BY <3>1, <3>2, <3>3
  <2> QED BY <2>1, <2>2 DEF Held, Slotted
<1>2. Owners'
  <2>1. ASSUME NEW h \in gone PROVE h \notin owned /\ h.id <= ids'
    <3>1. h \notin owned /\ h.id <= ids BY DEF Held, Owners
    <3> QED BY <1>0, <3>1
  <2> QED BY <2>1 DEF Held, Owners
<1>3. Sockets'
  <2>1. ASSUME NEW g \in 1..MaxFds, sock'[g] # 0, g # lone'
        PROVE  \E t \in 1..MaxFds : Used(t) /\ table[t].fd = g
    <3>1. g # lone /\ sock[g] # 0 BY <2>1
    <3> QED BY <3>1 DEF Held, Sockets
  <2>2. lone' # 0 => sock'[lone'] # 0 BY <1>0
  <2> QED BY <2>1, <2>2 DEF Sockets
<1> QED BY <1>1, <1>2, <1>3 DEF Held

(* A handle of the program is closed.                                       *)
LEMMA ReleaseKeeps ==
  ASSUME HandleTypes, Held, NEW h \in owned, H!Release(h.slot),
         owned' = owned \ {h}, gone' = gone \cup {h},
         UNCHANGED <<port, lone, ids, pc>>
  PROVE  Held'
<1> USE DEF Used
<1>0. /\ \A t \in 1..MaxFds : table[t].fd \in 0..MaxFds /\ table[t].id \in Nat
      /\ MaxFds \in Nat /\ ids \in Nat /\ lone \in 0..MaxFds
      /\ DOMAIN table = 1..MaxFds /\ DOMAIN sock = 1..MaxFds
      /\ \A o \in owned : o.slot \in 1..MaxFds /\ o = [slot |-> o.slot, id |-> o.id]
  BY Parameters, SizeFits DEF HandleTypes, Entries
<1> DEFINE s == h.slot
<1>1. /\ s \in 1..MaxFds /\ h = [slot |-> s, id |-> h.id]
      /\ Used(s) /\ table[s].id = h.id /\ h.id <= ids
      /\ 1 <= table[s].id
      /\ table[s].fd # 0 => table[s].fd # lone /\ sock[table[s].fd] = table[s].id
  <2>1. s \in 1..MaxFds /\ h = [slot |-> s, id |-> h.id] BY <1>0
  <2>2. Used(s) /\ table[s].id = h.id BY DEF Held, Owners
  <2> QED BY <2>1, <2>2 DEF Held, Slotted
<1> HIDE DEF s
<1>2. /\ table'[s] = [fd |-> 0, id |-> 0, kind |-> "free"]
      /\ \A t \in 1..MaxFds : t # s => table'[t] = table[t]
      /\ \A g \in 1..MaxFds :
           sock'[g] = IF g = table[s].fd THEN 0 ELSE sock[g]
  <2>1. table' = [table EXCEPT ![s] = [fd |-> 0, id |-> 0, kind |-> "free"]]
    BY DEF H!Release, H!Empty, s
  <2>2. sock' = IF table[s].fd = 0 THEN sock ELSE [sock EXCEPT ![table[s].fd] = 0]
    BY DEF H!Release, H!Lent, s
  <2> QED BY <1>0, <1>1, <2>1, <2>2
\* The other slots have other sockets, and so other descriptors.
<1>3. ASSUME NEW t \in 1..MaxFds, t # s, Used(t)
      PROVE  /\ 1 <= table[t].id /\ table[t].id <= ids
             /\ [slot |-> t, id |-> table[t].id] \in owned
             /\ table[t].fd # 0 =>
                  /\ table[t].fd \in 1..MaxFds /\ table[t].fd # table[s].fd
                  /\ table[t].fd # lone /\ sock[table[t].fd] = table[t].id
  <2>1. /\ 1 <= table[t].id /\ table[t].id <= ids
        /\ [slot |-> t, id |-> table[t].id] \in owned
        /\ table[t].fd # 0 => table[t].fd # lone /\ sock[table[t].fd] = table[t].id
    BY <1>3 DEF Held, Slotted
  <2>2. table[t].id # table[s].id BY <1>1, <1>3 DEF Held, Slotted
  <2>3. table[t].fd # 0 => table[t].fd # table[s].fd BY <1>1, <2>1, <2>2
  <2>4. table[t].fd # 0 => table[t].fd \in 1..MaxFds BY <1>0
  <2> QED BY <2>1, <2>3, <2>4
<1>4. Slotted'
  <2>1. ASSUME NEW t \in 1..MaxFds, Used(t)'
        PROVE  /\ t # s /\ Used(t) /\ table'[t] = table[t]
    BY <1>2, <2>1
  <2>2. ASSUME NEW t \in 1..MaxFds, ~Used(t)' PROVE table'[t].fd = 0
    BY <1>2, <2>2 DEF Held, Slotted
  <2>3. ASSUME NEW t \in 1..MaxFds, Used(t)'
        PROVE  /\ 1 <= table'[t].id /\ table'[t].id <= ids'
               /\ [slot |-> t, id |-> table'[t].id] \in owned'
               /\ table'[t].fd # 0 =>
                    /\ table'[t].fd # lone' /\ sock'[table'[t].fd] = table'[t].id
    <3>1. t # s /\ Used(t) /\ table'[t] = table[t] BY <2>1, <2>3
    <3>2. [slot |-> t, id |-> table[t].id] # h BY <1>1, <3>1
    <3> QED BY <1>2, <1>3, <3>1, <3>2
  <2>4. ASSUME NEW t \in 1..MaxFds, NEW u \in 1..MaxFds, Used(t)', Used(u)',
               table'[t].id = table'[u].id
        PROVE  t = u
    <3>1. /\ Used(t) /\ Used(u) /\ table[t].id = table[u].id BY <2>1, <2>4
    <3> QED BY <3>1 DEF Held, Slotted
  <2> QED BY <2>2, <2>3, <2>4 DEF Slotted
<1>5. Owners'
  <2>1. ASSUME NEW o \in owned' PROVE Used(o.slot)' /\ table'[o.slot].id = o.id
    <3>1. o \in owned /\ o # h BY <2>1
    <3>2. o.slot \in 1..MaxFds /\ Used(o.slot) /\ table[o.slot].id = o.id
      BY <1>0, <3>1 DEF Held, Owners
    <3>3. o.slot # s BY <1>0, <1>1, <3>1, <3>2
    <3> QED BY <1>2, <3>2, <3>3
  <2>2. ASSUME NEW o \in gone' PROVE o \notin owned' /\ o.id <= ids'
    BY <1>1, <2>2 DEF Held, Owners
  <2> QED BY <2>1, <2>2 DEF Owners
<1>6. Sockets'
  <2>1. ASSUME NEW g \in 1..MaxFds, sock'[g] # 0, g # lone
        PROVE  \E t \in 1..MaxFds : Used(t)' /\ table'[t].fd = g
    <3>1. g # table[s].fd /\ sock[g] # 0 BY <1>2, <2>1
    <3>2. PICK t \in 1..MaxFds : Used(t) /\ table[t].fd = g
      BY <2>1, <3>1 DEF Held, Sockets
    <3>3. t # s BY <3>1, <3>2
    <3> QED BY <1>2, <3>2, <3>3
  <2>2. lone # 0 => sock'[lone] # 0
    <3>1. lone # 0 => lone \in 1..MaxFds /\ sock[lone] # 0
      BY <1>0 DEF Held, Sockets
    <3>2. lone # 0 => lone # table[s].fd BY <1>1
    <3> QED BY <1>2, <3>1, <3>2
  <2>3. Handling[port].listens = "call" /\ pc = "idle" => lone = 0
    BY DEF Held, Sockets
  <2> QED BY <2>1, <2>2, <2>3 DEF Sockets
<1> QED BY <1>4, <1>5, <1>6 DEF Held

(* A free slot or descriptor that an operation takes is one.                *)
LEMMA TakesFree ==
  ASSUME HandleTypes
  PROVE  /\ H!FreeSlots # {} => /\ H!Lowest(H!FreeSlots) \in 1..H!Size
                                /\ H!Lowest(H!FreeSlots) \in 1..MaxFds
                                /\ ~Used(H!Lowest(H!FreeSlots))
         /\ H!FreeFds # {} => /\ H!Lowest(H!FreeFds) \in 1..MaxFds
                              /\ sock[H!Lowest(H!FreeFds)] = 0
<1>1. ASSUME H!FreeSlots # {}
      PROVE  /\ H!Lowest(H!FreeSlots) \in 1..H!Size
             /\ H!Lowest(H!FreeSlots) \in 1..MaxFds
             /\ ~Used(H!Lowest(H!FreeSlots))
  <2>1. H!FreeSlots \in SUBSET Nat BY DEF H!FreeSlots
  <2>2. H!Lowest(H!FreeSlots) \in H!FreeSlots BY <1>1, <2>1, LowestIsOne
  <2> QED BY <2>2, SizeFits DEF H!FreeSlots, Used
<1>2. ASSUME H!FreeFds # {}
      PROVE  /\ H!Lowest(H!FreeFds) \in 1..MaxFds
             /\ sock[H!Lowest(H!FreeFds)] = 0
  <2>1. H!FreeFds \in SUBSET Nat BY DEF H!FreeFds, H!Fds
  <2>2. H!Lowest(H!FreeFds) \in H!FreeFds BY <1>2, <2>1, LowestIsOne
  <2> QED BY <2>2 DEF H!FreeFds, H!Fds
<1> QED BY <1>1, <1>2

(* The values stay what they are.                                           *)
LEMMA RegisterTyped ==
  ASSUME HandleTypes, H!FreeFds # {}, UNCHANGED port,
         NEW k \in Kinds,
         H!Register(H!Lowest(H!FreeFds), ids + 1, k)
  PROVE  /\ sock' \in [1..MaxFds -> Nat] /\ table' \in [1..MaxFds -> Entries]
         /\ owned' \subseteq [slot : 1..H!Size, id : Nat]
<1> DEFINE f == H!Lowest(H!FreeFds)
           s == H!Lowest(H!FreeSlots)
<1>0. /\ f \in 1..MaxFds /\ ids + 1 \in Nat
      /\ H!FreeSlots # {} => s \in 1..H!Size /\ s \in 1..MaxFds
      /\ sock \in [1..MaxFds -> Nat] /\ table \in [1..MaxFds -> Entries]
      /\ owned \subseteq [slot : 1..H!Size, id : Nat]
  BY TakesFree DEF HandleTypes
<1>1. CASE H!FreeSlots = {}
  <2>1. /\ sock' \in {sock, [sock EXCEPT ![f] = ids + 1]}
        /\ table' = table /\ owned' = owned
    BY <1>1 DEF H!Register
  <2> HIDE DEF f, s
  <2> QED BY <1>0, <2>1
<1>2. CASE H!FreeSlots # {}
  <2>1. /\ sock' = [sock EXCEPT ![f] = ids + 1]
        /\ table' = [table EXCEPT ![s] = [fd |-> f, id |-> ids + 1, kind |-> k]]
        /\ owned' = owned \cup {[slot |-> s, id |-> ids + 1]}
    BY <1>2 DEF H!Register
  <2> HIDE DEF f, s
  <2>2. [fd |-> f, id |-> ids + 1, kind |-> k] \in Entries
    BY <1>0, Parameters DEF Entries
  <2>3. [slot |-> s, id |-> ids + 1] \in [slot : 1..H!Size, id : Nat]
    BY <1>0, <1>2
  <2> QED BY <1>0, <1>2, <2>1, <2>2, <2>3
<1> QED BY <1>1, <1>2

(* Registering a new socket keeps all together, if one that finds no slot   *)
(* is closed.                                                               *)
LEMMA RegisterKeeps ==
  ASSUME HandleTypes, Held, H!FreeFds # {},
         NEW k \in {"conn", "listener"}, k = "conn" => Handling[port].full # "leak",
         H!Register(H!Lowest(H!FreeFds), ids + 1, k), ids' = ids + 1,
         UNCHANGED <<port, lone, gone>>,
         Handling[port].listens = "call" /\ pc' = "idle" => lone' = 0
  PROVE  Held'
<1> DEFINE f == H!Lowest(H!FreeFds)
           s == H!Lowest(H!FreeSlots)
<1>0. /\ f \in 1..MaxFds /\ sock[f] = 0
      /\ H!FreeSlots # {} => s \in 1..H!Size /\ ~Used(s)
      /\ ids \in Nat /\ sock \in [1..MaxFds -> Nat] /\ lone \in 0..MaxFds
      /\ MaxFds \in Nat
  BY TakesFree, Parameters DEF HandleTypes
<1>1. CASE H!FreeSlots = {}
  <2>1. sock' = sock /\ table' = table /\ owned' = owned
    BY <1>1 DEF H!Register, H!Policy
  <2>2. \A g \in 1..MaxFds : g = lone => sock[g] # 0 BY <1>0 DEF Held, Sockets
  <2> QED BY <1>0, <2>1, <2>2, LoneKeeps
<1>2. CASE H!FreeSlots # {}
  <2>1. /\ sock' = [sock EXCEPT ![f] = ids + 1]
        /\ table' = [table EXCEPT ![s] = [fd |-> f, id |-> ids + 1, kind |-> k]]
        /\ owned' = owned \cup {[slot |-> s, id |-> ids + 1]}
    BY <1>2 DEF H!Register
  <2> HIDE DEF f, s
  <2> DEFINE i == ids + 1
  <2>2. /\ sock' \in [1..MaxFds -> Nat]
        /\ \A g \in 1..MaxFds :
             sock'[g] = (IF g = f THEN i
                         ELSE IF g = lone /\ lone' = 0 THEN 0 ELSE sock[g])
    BY <1>0, <2>1
  <2>3. i = ids + 1 /\ i \in Nat /\ f \in 0..MaxFds BY <1>0
  <2> HIDE DEF i
  <2>4. ids' = i /\ owned' = owned \cup {[slot |-> s, id |-> i]}
        /\ table' = [table EXCEPT ![s] = [fd |-> f, id |-> i, kind |-> k]]
    BY <2>1 DEF i
  <2>5. /\ lone' \in {lone, 0} /\ (f # 0 => sock[f] = 0)
        /\ k \in {"conn", "listener", "lent"} /\ UNCHANGED <<port, gone>>
    BY <1>0
  <2>6. s \in 1..H!Size /\ ~Used(s) BY <1>0, <1>2
  <2> QED BY ZenonT(40), <2>2, <2>3, <2>4, <2>5, <2>6, FillKeeps
<1> QED BY <1>1, <1>2

(* A step that touches no socket keeps them.                                *)
LEMMA QuietKeeps ==
  ASSUME HandleTypes, Held,
         UNCHANGED <<port, sock, table, lone, owned, gone, ids>>,
         Handling[port].listens = "call" /\ pc' = "idle" => lone' = 0
  PROVE  Held'
<1>1. /\ lone' \in 0..MaxFds /\ ids' \in Nat /\ ids <= ids'
      /\ \A g \in 1..MaxFds : IF g = lone' THEN sock'[g] # 0
                              ELSE sock'[g] = (IF g = lone THEN 0 ELSE sock[g])
  BY DEF HandleTypes, Held, Sockets
<1> QED BY <1>1, LoneKeeps

(* The handles a program holds lead somewhere, and the closed ones of a port *)
(* whose objects know their ids do not.                                     *)
LEMMA HandlesLead ==
  ASSUME HandleTypes, Held
  PROVE  /\ \A h \in owned : H!Found(h)
         /\ \A h \in gone : Handling[port].names = "object" => ~H!Found(h)
<1>1. ASSUME NEW h \in owned PROVE H!Found(h)
  BY DEF H!Found, Held, Owners, Used
<1>2. ASSUME NEW h \in gone, Handling[port].names = "object", H!Found(h)
      PROVE  FALSE
  <2>1. h.slot \in 1..MaxFds /\ h = [slot |-> h.slot, id |-> h.id]
    BY SizeFits DEF HandleTypes
  <2>2. Used(h.slot) /\ table[h.slot].id = h.id
    BY <1>2 DEF H!Found, H!Policy, Used
  <2>3. h \in owned BY <2>1, <2>2 DEF Held, Slotted
  <2> QED BY <2>3 DEF Held, Owners
<1> QED BY <1>1, <1>2

(* Initially nothing is open.                                               *)
LEMMA HandlesBegin == ASSUME H!Init PROVE HandlesInv
<1>1. /\ port \in DOMAIN Handling
      /\ sock = [f \in 1..MaxFds |-> 0]
      /\ table = [s \in 1..MaxFds |-> [fd |-> 0, id |-> 0, kind |-> "free"]]
      /\ lone = 0 /\ owned = {} /\ gone = {} /\ ids = 0 /\ backlog = 0
      /\ pc = "idle" /\ now = 0
  BY DEF H!Init, H!Fds, H!Empty
<1>2. HandleTypes BY <1>1, Parameters DEF HandleTypes, Entries, Kinds
<1>3. Held BY <1>1 DEF Held, Slotted, Owners, Sockets, Used
<1>4. AcceptInTime BY <1>1 DEF AcceptInTime
<1> QED BY <1>2, <1>3, <1>4 DEF HandlesInv

(* A process runs one port.                                                 *)
LEMMA HandlesFixed == ASSUME H!Next PROVE port' = port
BY DEF H!Next, H!Connect, H!Adopt, H!Listen, H!CloseListener, H!PeerConnects,
       H!StartAccept, H!Ready, H!Accepted, H!Empties, H!Expired, H!Signal,
       H!Tick, H!Close, H!CloseAgain

(* The variables keep their values' shapes in every step.                   *)
LEMMA HandlesTyped ==
  ASSUME HandleTypes, H!Next PROVE HandleTypes'
<1> DEFINE Stored == /\ sock' \in [1..MaxFds -> Nat]
                     /\ table' \in [1..MaxFds -> Entries]
                     /\ lone' \in 0..MaxFds
                     /\ owned' \subseteq [slot : 1..H!Size, id : Nat]
                     /\ gone' \subseteq [slot : 1..H!Size, id : Nat]
<1>0. /\ port' = port /\ port \in DOMAIN Handling
      /\ sock \in [1..MaxFds -> Nat] /\ table \in [1..MaxFds -> Entries]
      /\ lone \in 0..MaxFds
      /\ owned \subseteq [slot : 1..H!Size, id : Nat]
      /\ gone \subseteq [slot : 1..H!Size, id : Nat]
      /\ ids \in Nat /\ backlog \in Nat /\ now \in Nat
  BY HandlesFixed DEF HandleTypes
<1>s. H!FreeFds # {} => H!Lowest(H!FreeFds) \in 1..MaxFds BY TakesFree
<1>m. MaxFds \in Nat /\ 0 \in 0..MaxFds BY Parameters
<1>c. [sock EXCEPT ![lone] = 0] \in [1..MaxFds -> Nat] BY <1>0
<1>1. Stored
  <2>1. CASE H!Connect
    <3>1. H!FreeFds # {} /\ H!Register(H!Lowest(H!FreeFds), ids + 1, "conn")
          /\ UNCHANGED <<lone, gone>>
      BY <2>1 DEF H!Connect, H!Call
    <3>2. "conn" \in Kinds BY DEF Kinds
    <3> QED BY <1>0, <3>1, <3>2, RegisterTyped
  <2>2. CASE H!Adopt
    <3>1. UNCHANGED <<sock, lone, gone>> BY <2>2 DEF H!Adopt
    <3>2. CASE H!FreeSlots = {} BY <1>0, <2>2, <3>1, <3>2 DEF H!Adopt
    <3>3. CASE H!FreeSlots # {}
      <4> DEFINE s == H!Lowest(H!FreeSlots)
      <4>1. /\ table' = [table EXCEPT ![s] = [fd |-> 0, id |-> ids + 1, kind |-> "lent"]]
            /\ owned' = owned \cup {[slot |-> s, id |-> ids + 1]}
        BY <2>2, <3>3 DEF H!Adopt, H!Lent
      <4>2. s \in 1..H!Size /\ s \in 1..MaxFds BY <3>3, TakesFree
      <4> HIDE DEF s
      <4>3. [fd |-> 0, id |-> ids + 1, kind |-> "lent"] \in Entries
        BY <1>0, <1>m DEF Entries, Kinds
      <4>4. [slot |-> s, id |-> ids + 1] \in [slot : 1..H!Size, id : Nat]
        BY <1>0, <4>2
      <4> QED BY <1>0, <3>1, <4>1, <4>2, <4>3, <4>4
    <3> QED BY <3>2, <3>3
  <2>3. CASE H!Listen
    <3>1. H!FreeFds # {} /\ UNCHANGED gone BY <2>3 DEF H!Listen, H!Call
    <3>2. CASE Handling[port].listens = "table"
      <4>1. /\ H!Register(H!Lowest(H!FreeFds), ids + 1, "listener")
            /\ UNCHANGED lone
        BY <2>3, <3>2 DEF H!Listen, H!Policy
      <4>2. "listener" \in Kinds BY DEF Kinds
      <4> QED BY <1>0, <3>1, <4>1, <4>2, RegisterTyped
    <3>3. CASE Handling[port].listens = "raw"
      <4> DEFINE f == H!Lowest(H!FreeFds)
      <4>1. /\ sock' = [sock EXCEPT ![f] = ids + 1] /\ lone' = f
            /\ UNCHANGED <<table, owned>>
        BY <2>3, <3>3 DEF H!Listen, H!Policy
      <4>2. f \in 1..MaxFds BY <1>s, <3>1
      <4> HIDE DEF f
      <4> QED BY <1>0, <1>m, <3>1, <4>1, <4>2
    <3>4. CASE Handling[port].listens = "only"
      <4> DEFINE f == H!Lowest(H!FreeFds \cup ({lone} \ {0}))
      <4>1. /\ sock' = [g \in 1..MaxFds |-> IF g = f THEN ids + 1
                                            ELSE IF g = lone THEN 0 ELSE sock[g]]
            /\ lone' = f /\ UNCHANGED <<table, owned>>
        BY <2>3, <3>4 DEF H!Listen, H!Policy, H!Fds
      <4>2. f \in 1..MaxFds
        <5>1. H!FreeFds \cup ({lone} \ {0}) \in SUBSET (1..MaxFds)
          BY <1>0, <1>m DEF H!FreeFds, H!Fds
        <5>2. f \in H!FreeFds \cup ({lone} \ {0})
          <6>1. H!FreeFds \cup ({lone} \ {0}) \in SUBSET Nat BY <5>1
          <6> QED BY <3>1, <6>1, LowestIsOne
        <5> QED BY <5>1, <5>2
      <4> HIDE DEF f
      <4> QED BY <1>0, <1>m, <3>1, <4>1, <4>2
    <3> QED BY <2>3, <3>2, <3>3, <3>4 DEF H!Listen, H!Policy
  <2>4. CASE H!CloseListener
    BY <1>0, <1>m, <2>4 DEF H!CloseListener
  <2>5. CASE H!PeerConnects \/ H!Ready \/ H!Empties \/ H!Tick
    BY <1>0, <2>5 DEF H!PeerConnects, H!Ready, H!Empties, H!Tick, H!store
  <2>6. CASE H!StartAccept
    <3>1. UNCHANGED <<table, owned, gone>> BY <2>6 DEF H!StartAccept
    <3>2. CASE Handling[port].listens = "call"
      <4> DEFINE f == H!Lowest(H!FreeFds)
      <4>1. H!FreeFds # {} /\ sock' = [sock EXCEPT ![f] = ids + 1] /\ lone' = f
        BY <2>6, <3>2 DEF H!StartAccept, H!Policy
      <4>2. f \in 1..MaxFds BY <1>s, <4>1
      <4> HIDE DEF f
      <4> QED BY <1>0, <1>m, <3>1, <4>1, <4>2
    <3>3. CASE Handling[port].listens # "call"
      <4>1. UNCHANGED <<sock, lone>> BY <2>6, <3>3 DEF H!StartAccept, H!Policy
      <4> QED BY <1>0, <3>1, <4>1
    <3> QED BY <3>2, <3>3
  <2>7. CASE H!Accepted
    <3>1. H!FreeFds # {} /\ UNCHANGED gone BY <2>7 DEF H!Accepted
    <3>2. CASE Handling[port].listens = "call"
      <4>1. CASE H!FreeSlots = {}
        <5>1. /\ lone' = 0 /\ sock' = [sock EXCEPT ![lone] = 0]
              /\ UNCHANGED <<table, owned>>
          BY <2>7, <3>2, <4>1 DEF H!Accepted, H!Policy
        <5> QED BY <1>0, <1>m, <1>c, <3>1, <5>1
      <4>2. CASE H!FreeSlots # {}
        <5> DEFINE f == H!Lowest(H!FreeFds)
                   s == H!Lowest(H!FreeSlots)
        <5>1. /\ lone' = 0
              /\ sock' = [sock EXCEPT ![lone] = 0, ![f] = ids + 1]
              /\ table' = [table EXCEPT ![s] = [fd |-> f, id |-> ids + 1, kind |-> "conn"]]
              /\ owned' = owned \cup {[slot |-> s, id |-> ids + 1]}
          BY <2>7, <3>2, <4>2 DEF H!Accepted, H!Policy
        <5>2. f \in 1..MaxFds /\ s \in 1..MaxFds /\ s \in 1..H!Size
          BY <1>s, <3>1, <4>2, TakesFree
        <5> HIDE DEF f, s
        <5>3. [fd |-> f, id |-> ids + 1, kind |-> "conn"] \in Entries
          BY <1>0, <1>m, <5>2 DEF Entries, Kinds
        <5>4. [slot |-> s, id |-> ids + 1] \in [slot : 1..H!Size, id : Nat]
          BY <1>0, <5>2
        <5>5. sock' \in [1..MaxFds -> Nat] BY <1>0, <1>c, <5>1, <5>2
        <5>6. table' \in [1..MaxFds -> Entries] BY <1>0, <5>1, <5>2, <5>3
        <5>7. owned' \subseteq [slot : 1..H!Size, id : Nat] BY <1>0, <5>1, <5>4
        <5> QED BY <1>0, <1>m, <3>1, <5>1, <5>5, <5>6, <5>7
      <4> QED BY <4>1, <4>2
    <3>3. CASE Handling[port].listens # "call"
      <4>1. /\ H!Register(H!Lowest(H!FreeFds), ids + 1, "conn")
            /\ UNCHANGED lone
        BY <2>7, <3>3 DEF H!Accepted, H!Policy
      <4>2. "conn" \in Kinds BY DEF Kinds
      <4> QED BY <1>0, <3>1, <4>1, <4>2, RegisterTyped
    <3> QED BY <3>2, <3>3
  <2>8. CASE H!Expired \/ H!Signal
    <3>1. UNCHANGED <<table, owned, gone>> BY <2>8 DEF H!Expired, H!Signal
    <3>2. /\ sock' \in {sock, [sock EXCEPT ![lone] = 0]} /\ lone' \in {lone, 0}
      <4>1. H!Policy.signal \in {"restart", "resume", "fail"}
        BY <1>0, HandlePolicies DEF H!Policy
      <4> QED BY <2>8, <4>1 DEF H!Expired, H!Signal, H!Over
    <3> QED BY <1>0, <1>m, <1>c, <3>1, <3>2
  <2>9. ASSUME NEW h \in owned \cup gone, H!Close(h) \/ H!CloseAgain(h) PROVE Stored
    <3>1. /\ owned' \subseteq owned /\ gone' = gone \cup {h} /\ UNCHANGED lone
          /\ H!Release(h.slot) \/ UNCHANGED <<sock, table>>
      BY <2>9 DEF H!Close, H!CloseAgain
    <3>2. h \in [slot : 1..H!Size, id : Nat] /\ h.slot \in 1..MaxFds
      BY <1>0, SizeFits
    <3>3. sock' \in [1..MaxFds -> Nat] /\ table' \in [1..MaxFds -> Entries]
      <4>1. CASE UNCHANGED <<sock, table>> BY <1>0, <4>1
      <4>2. CASE H!Release(h.slot)
        <5>1. /\ sock' \in {sock, [sock EXCEPT ![table[h.slot].fd] = 0]}
              /\ table' = [table EXCEPT ![h.slot] =
                             [fd |-> 0, id |-> 0, kind |-> "free"]]
          BY <4>2 DEF H!Release, H!Empty
        <5>2. [fd |-> 0, id |-> 0, kind |-> "free"] \in Entries
          BY <1>m DEF Entries, Kinds
        <5> QED BY <1>0, <3>2, <5>1, <5>2
      <4> QED BY <3>1, <4>1, <4>2
    <3> QED BY <1>0, <3>1, <3>2, <3>3
  <2> QED BY <2>1, <2>2, <2>3, <2>4, <2>5, <2>6, <2>7, <2>8, <2>9 DEF H!Next
<1>2. ids' \in Nat /\ backlog' \in Nat /\ now' \in Nat
  <2>1. ids' \in {ids, ids + 1}
    BY DEF H!Next, H!Connect, H!Adopt, H!Listen, H!CloseListener, H!PeerConnects,
       H!StartAccept, H!Ready, H!Accepted, H!Empties, H!Expired, H!Signal,
       H!Tick, H!Close, H!CloseAgain
  <2>2. backlog' \in {backlog, backlog + 1} \/ (backlog > 0 /\ backlog' = backlog - 1)
    BY DEF H!Next, H!Connect, H!Adopt, H!Listen, H!CloseListener, H!PeerConnects,
       H!StartAccept, H!Ready, H!Accepted, H!Empties, H!Expired, H!Signal,
       H!Tick, H!Close, H!CloseAgain
  <2>3. now' \in {now, now + 1, 0}
    BY DEF H!Next, H!Connect, H!Adopt, H!Listen, H!CloseListener, H!PeerConnects,
       H!StartAccept, H!Ready, H!Accepted, H!Empties, H!Expired, H!Signal,
       H!Tick, H!Close, H!CloseAgain
  <2> QED BY <1>0, <2>1, <2>2, <2>3
<1>3. H!Size' = H!Size BY <1>0 DEF H!Size, H!Policy
<1> QED BY <1>0, <1>1, <1>2, <1>3 DEF HandleTypes

(* Whatever is called, and however it ends, sockets, slots and handles stay *)
(* with one another, unless the port forgets sockets.                       *)
LEMMA HandlesHolds ==
  ASSUME HandleTypes, Held, port \notin Leaky, H!Next PROVE Held'
<1>0. /\ port' = port /\ port \in DOMAIN Handling
      /\ sock \in [1..MaxFds -> Nat] /\ lone \in 0..MaxFds
      /\ ids \in Nat /\ ids + 1 \in Nat /\ ids + 1 # 0 /\ ids <= ids + 1
      /\ MaxFds \in Nat /\ 0 \in 0..MaxFds
  BY HandlesFixed, Parameters DEF HandleTypes
<1>p. /\ Handling[port].full # "leak"
      /\ Handling[port].listens = "call" =>
           ~Handling[port].probes /\ Handling[port].accepts = "wait"
      /\ Handling[port].signal \in {"restart", "resume", "fail"}
  BY <1>0, HandlePolicies
<1>s. /\ H!FreeFds # {} => /\ H!Lowest(H!FreeFds) \in 1..MaxFds
                           /\ sock[H!Lowest(H!FreeFds)] = 0
      /\ H!FreeSlots # {} => /\ H!Lowest(H!FreeSlots) \in 1..H!Size
                             /\ ~Used(H!Lowest(H!FreeSlots))
  BY TakesFree
<1>l. /\ lone # 0 => sock[lone] # 0
      /\ Handling[port].listens = "call" /\ pc = "idle" => lone = 0
  BY DEF Held, Sockets
<1>1. CASE H!Connect
  <2>1. /\ H!FreeFds # {} /\ H!Register(H!Lowest(H!FreeFds), ids + 1, "conn")
        /\ ids' = ids + 1 /\ UNCHANGED <<lone, gone, pc>>
    BY <1>1 DEF H!Connect, H!Call
  <2> QED BY <1>0, <1>p, <1>l, <2>1, RegisterKeeps
<1>2. CASE H!Adopt
  <2>1. /\ UNCHANGED <<sock, lone, gone, pc>> /\ ids' = ids + 1
    BY <1>2 DEF H!Adopt
  <2>2. CASE H!FreeSlots = {}
    <3>1. UNCHANGED <<table, owned>> BY <1>2, <2>2 DEF H!Adopt
    <3>2. \A g \in 1..MaxFds : IF g = lone' THEN sock'[g] # 0
                               ELSE sock'[g] = (IF g = lone THEN 0 ELSE sock[g])
      BY <1>l, <2>1
    <3> QED BY <1>0, <1>l, <2>1, <3>1, <3>2, LoneKeeps
  <2>3. CASE H!FreeSlots # {}
    <3> DEFINE s == H!Lowest(H!FreeSlots)
               i == ids + 1
    <3>1. /\ table' = [table EXCEPT ![s] = [fd |-> 0, id |-> i, kind |-> "lent"]]
          /\ owned' = owned \cup {[slot |-> s, id |-> i]}
      BY <1>2, <2>3 DEF H!Adopt, H!Lent
    <3>2. /\ i \in Nat /\ i = ids + 1 /\ ids' = i /\ lone' \in {lone, 0}
          /\ s \in 1..H!Size /\ ~Used(s)
          /\ "lent" \in {"conn", "listener", "lent"}
          /\ sock' \in [1..MaxFds -> Nat]
      BY <1>0, <1>s, <2>1, <2>3
    <3>3. \A g \in 1..MaxFds :
            sock'[g] = (IF g = 0 THEN i
                        ELSE IF g = lone /\ lone' = 0 THEN 0 ELSE sock[g])
      BY <1>0, <2>1
    <3> HIDE DEF s, i
    <3> QED BY <1>0, <1>l, <2>1, <3>1, <3>2, <3>3, FillKeeps
  <2> QED BY <2>2, <2>3
<1>3. CASE H!Listen
  <2>1. /\ H!FreeFds # {} /\ ids' = ids + 1 /\ UNCHANGED <<gone, pc>>
    BY <1>3 DEF H!Listen, H!Call
  <2>2. CASE Handling[port].listens = "table"
    <3>1. /\ H!Register(H!Lowest(H!FreeFds), ids + 1, "listener")
          /\ UNCHANGED lone
      BY <1>3, <2>2 DEF H!Listen, H!Policy
    <3> QED BY <1>0, <2>1, <2>2, <3>1, RegisterKeeps
  <2>3. CASE Handling[port].listens = "raw"
    <3> DEFINE f == H!Lowest(H!FreeFds)
    <3>1. /\ sock' = [sock EXCEPT ![f] = ids + 1] /\ lone' = f /\ lone = 0
          /\ UNCHANGED <<table, owned>>
      BY <1>3, <2>3 DEF H!Listen, H!Policy
    <3>2. f \in 1..MaxFds /\ sock[f] = 0 BY <1>s, <2>1
    <3> HIDE DEF f
    <3>3. \A g \in 1..MaxFds : IF g = lone' THEN sock'[g] # 0
                               ELSE sock'[g] = (IF g = lone THEN 0 ELSE sock[g])
      BY <1>0, <3>1, <3>2
    <3>4. lone' \in 0..MaxFds /\ sock[lone'] = 0 BY <1>0, <3>1, <3>2
    <3> QED BY <1>0, <2>1, <2>3, <3>1, <3>3, <3>4, LoneKeeps
  <2>4. CASE Handling[port].listens = "only"
    <3> DEFINE f == H!Lowest(H!FreeFds \cup ({lone} \ {0}))
    <3>1. /\ sock' = [g \in 1..MaxFds |-> IF g = f THEN ids + 1
                                          ELSE IF g = lone THEN 0 ELSE sock[g]]
          /\ lone' = f /\ UNCHANGED <<table, owned>>
      BY <1>3, <2>4 DEF H!Listen, H!Policy, H!Fds
    <3>2. f \in H!FreeFds \cup ({lone} \ {0})
      <4>1. H!FreeFds \cup ({lone} \ {0}) \in SUBSET Nat
        BY <1>0 DEF H!FreeFds, H!Fds
      <4> QED BY <2>1, <4>1, LowestIsOne
    <3> HIDE DEF f
    <3>3. f \in 1..MaxFds /\ (f = lone \/ sock[f] = 0)
      BY <1>0, <3>2 DEF H!FreeFds, H!Fds
    <3>4. \A g \in 1..MaxFds : IF g = lone' THEN sock'[g] # 0
                               ELSE sock'[g] = (IF g = lone THEN 0 ELSE sock[g])
      BY <1>0, <3>1, <3>3
    <3>5. lone' \in 0..MaxFds /\ (lone' = lone \/ sock[lone'] = 0)
      BY <1>0, <3>1, <3>3
    <3> QED BY <1>0, <2>1, <2>4, <3>1, <3>4, <3>5, LoneKeeps
  <2> QED BY <1>3, <2>2, <2>3, <2>4 DEF H!Listen, H!Policy
<1>4. CASE H!CloseListener
  <2>1. /\ lone \in 1..MaxFds /\ sock' = [sock EXCEPT ![lone] = 0] /\ lone' = 0
        /\ UNCHANGED <<table, owned, gone, ids>>
    BY <1>0, <1>4 DEF H!CloseListener
  <2>2. \A g \in 1..MaxFds : IF g = lone' THEN sock'[g] # 0
                             ELSE sock'[g] = (IF g = lone THEN 0 ELSE sock[g])
    BY <1>0, <2>1
  <2> QED BY <1>0, <2>1, <2>2, LoneKeeps
<1>5. CASE H!PeerConnects \/ H!Ready \/ H!Empties \/ H!Tick
  <2>1. UNCHANGED <<sock, table, lone, owned, gone, ids>>
    BY <1>5 DEF H!PeerConnects, H!Ready, H!Empties, H!Tick, H!store
  <2>2. Handling[port].listens = "call" /\ pc' = "idle" => pc = "idle"
    BY <1>p, <1>5
    DEF H!PeerConnects, H!Ready, H!Empties, H!Tick, H!NothingThere, H!Policy
  <2> QED BY <1>0, <1>l, <2>1, <2>2, QuietKeeps
<1>6. CASE H!StartAccept
  <2>1. UNCHANGED <<table, owned, gone>> BY <1>6 DEF H!StartAccept
  <2>2. CASE Handling[port].listens = "call"
    <3> DEFINE f == H!Lowest(H!FreeFds)
    <3>1. /\ H!FreeFds # {} /\ sock' = [sock EXCEPT ![f] = ids + 1] /\ lone' = f
          /\ ids' = ids + 1 /\ pc = "idle" /\ pc' = "waiting"
      BY <1>p, <1>6, <2>2 DEF H!StartAccept, H!Policy
    <3>2. f \in 1..MaxFds /\ sock[f] = 0 /\ lone = 0 BY <1>s, <1>l, <2>2, <3>1
    <3> HIDE DEF f
    <3>3. \A g \in 1..MaxFds : IF g = lone' THEN sock'[g] # 0
                               ELSE sock'[g] = (IF g = lone THEN 0 ELSE sock[g])
      BY <1>0, <3>1, <3>2
    <3>4. lone' \in 0..MaxFds /\ sock[lone'] = 0 /\ pc' # "idle"
      BY <1>0, <3>1, <3>2
    <3> QED BY <1>0, <2>1, <3>1, <3>3, <3>4, LoneKeeps
  <2>3. CASE Handling[port].listens # "call"
    <3>1. UNCHANGED <<sock, lone, ids>> BY <1>6, <2>3 DEF H!StartAccept, H!Policy
    <3> QED BY <1>0, <2>1, <2>3, <3>1, QuietKeeps
  <2> QED BY <2>2, <2>3
<1>7. CASE H!Accepted
  <2>1. H!FreeFds # {} /\ ids' = ids + 1 /\ UNCHANGED gone BY <1>7 DEF H!Accepted
  <2>2. CASE Handling[port].listens = "call"
    <3>1. CASE H!FreeSlots = {}
      <4>1. /\ lone' = 0 /\ sock' = [sock EXCEPT ![lone] = 0]
            /\ UNCHANGED <<table, owned>>
        BY <1>7, <2>2, <3>1 DEF H!Accepted, H!Policy
      <4>2. \A g \in 1..MaxFds : IF g = lone' THEN sock'[g] # 0
                                 ELSE sock'[g] = (IF g = lone THEN 0 ELSE sock[g])
        BY <1>0, <4>1
      <4> QED BY <1>0, <2>1, <4>1, <4>2, LoneKeeps
    <3>2. CASE H!FreeSlots # {}
      <4> DEFINE f == H!Lowest(H!FreeFds)
                 s == H!Lowest(H!FreeSlots)
                 i == ids + 1
      <4>1. /\ lone' = 0
            /\ sock' = [sock EXCEPT ![lone] = 0, ![f] = i]
            /\ table' = [table EXCEPT ![s] = [fd |-> f, id |-> i, kind |-> "conn"]]
            /\ owned' = owned \cup {[slot |-> s, id |-> i]}
        BY <1>7, <2>2, <3>2 DEF H!Accepted, H!Policy
      <4>2. /\ i \in Nat /\ i = ids + 1 /\ ids' = i /\ lone' \in {lone, 0}
            /\ s \in 1..H!Size /\ ~Used(s) /\ f \in 0..MaxFds /\ f \in 1..MaxFds
            /\ "conn" \in {"conn", "listener", "lent"} /\ sock[f] = 0
        BY <1>0, <1>s, <2>1, <3>2, <4>1
      <4> HIDE DEF f, s, i
      <4>c. [sock EXCEPT ![lone] = 0] \in [1..MaxFds -> Nat] BY <1>0
      <4>3. sock' \in [1..MaxFds -> Nat] BY <4>c, <4>1, <4>2
      <4>4. \A g \in 1..MaxFds :
              sock'[g] = (IF g = f THEN i
                          ELSE IF g = lone /\ lone' = 0 THEN 0 ELSE sock[g])
        BY <1>0, <4>1, <4>2
      <4> QED BY <1>0, <2>1, <4>1, <4>2, <4>3, <4>4, FillKeeps
    <3> QED BY <3>1, <3>2
  <2>3. CASE Handling[port].listens # "call"
    <3>1. /\ H!Register(H!Lowest(H!FreeFds), ids + 1, "conn")
          /\ UNCHANGED lone
      BY <1>7, <2>3 DEF H!Accepted, H!Policy
    <3> QED BY <1>0, <1>p, <2>1, <2>3, <3>1, RegisterKeeps
  <2> QED BY <2>2, <2>3
<1>8. CASE H!Expired \/ H!Signal
  <2>1. UNCHANGED <<table, owned, gone, ids>> BY <1>8 DEF H!Expired, H!Signal
  <2>2. \/ UNCHANGED <<sock, lone, pc>>
        \/ sock' = sock /\ lone' = lone /\ Handling[port].listens # "call"
        \/ sock' = [sock EXCEPT ![lone] = 0] /\ lone' = 0
    BY <1>p, <1>8 DEF H!Expired, H!Signal, H!Over, H!Policy
  <2>3. CASE UNCHANGED <<sock, lone, pc>> BY <1>0, <1>l, <2>1, <2>3, QuietKeeps
  <2>4. CASE sock' = sock /\ lone' = lone /\ Handling[port].listens # "call"
    BY <1>0, <2>1, <2>4, QuietKeeps
  <2>5. CASE sock' = [sock EXCEPT ![lone] = 0] /\ lone' = 0
    <3>1. \A g \in 1..MaxFds : IF g = lone' THEN sock'[g] # 0
                               ELSE sock'[g] = (IF g = lone THEN 0 ELSE sock[g])
      BY <1>0, <2>5
    <3> QED BY <1>0, <2>1, <2>5, <3>1, LoneKeeps
  <2> QED BY <2>2, <2>3, <2>4, <2>5
<1>9. ASSUME NEW h \in owned, H!Close(h) PROVE Held'
  <2>1. H!Found(h) BY HandlesLead
  <2>2. /\ H!Release(h.slot) /\ owned' = owned \ {h} /\ gone' = gone \cup {h}
        /\ UNCHANGED <<lone, ids, pc>>
    BY <1>9, <2>1 DEF H!Close
  <2> QED BY <1>0, <2>2, ReleaseKeeps
<1>10. ASSUME NEW h \in gone, H!CloseAgain(h) PROVE Held'
  <2>1. ~H!Found(h) BY <1>10, HandlesLead DEF H!CloseAgain, H!Policy
  <2>2. UNCHANGED <<sock, table, lone, owned, gone, ids, pc>>
    BY <1>10, <2>1 DEF H!CloseAgain
  <2> QED BY <1>0, <1>l, <2>2, QuietKeeps
<1> QED BY <1>1, <1>2, <1>3, <1>4, <1>5, <1>6, <1>7, <1>8, <1>9, <1>10 DEF H!Next

(* An accept keeps the deadline it started with.                            *)
LEMMA HandlesHurry ==
  ASSUME HandleTypes, AcceptInTime, ~LateAccept(port), H!Next PROVE AcceptInTime'
<1>0. /\ port' = port /\ port \in DOMAIN Handling
      /\ now \in Nat /\ backlog \in Nat /\ Budget \in Nat
      /\ \A h \in owned : h.slot \in 1..MaxFds
      /\ table \in [1..MaxFds -> Entries]
  BY HandlesFixed, Parameters, SizeFits DEF HandleTypes
<1>p. /\ Handling[port].listens = "call" => Handling[port].accepts = "wait"
      /\ Handling[port].accepts \in {"wait", "try", "ask"}
      /\ Handling[port].blocking =>
           \/ Handling[port].accepts = "wait"
           \/ Handling[port].listens = "never"
      /\ Handling[port].signal \in {"resume", "fail"}
  BY <1>0, HandlePolicies DEF LateAccept
<1>1. pc' # "idle" => limit' = Budget /\ now' <= limit'
  <2>1. CASE \/ H!Connect \/ H!Adopt \/ H!Listen \/ H!CloseListener
             \/ H!PeerConnects
    <3>1. UNCHANGED <<pc, now, limit>>
      BY <2>1 DEF H!Connect, H!Adopt, H!Listen, H!CloseListener, H!PeerConnects
    <3> QED BY <3>1 DEF AcceptInTime
  <2>2. CASE H!StartAccept
    <3>1. now' = 0 /\ limit' = Budget BY <2>2 DEF H!StartAccept
    <3> QED BY <1>0, <3>1
  <2>3. CASE H!Ready \/ H!Empties
    <3>1. pc # "idle" /\ UNCHANGED <<now, limit>>
      BY <2>3 DEF H!Ready, H!Empties, H!NothingThere
    <3> QED BY <3>1 DEF AcceptInTime
  <2>4. CASE H!Accepted BY <2>4 DEF H!Accepted
  <2>5. CASE H!Expired BY <2>5 DEF H!Expired, H!Over
  <2>6. CASE H!Signal
    <3>1. pc' = "idle" \/ UNCHANGED <<pc, now, limit>>
      BY <1>p, <2>6 DEF H!Signal, H!Over, H!Policy
    <3> QED BY <3>1 DEF AcceptInTime
  <2>7. CASE H!Tick
    <3>1. /\ now' = now + 1 /\ UNCHANGED <<pc, limit>> /\ backlog = 0
          /\ \/ pc = "waiting" /\ now < limit
             \/ pc = "accepting" /\ Handling[port].blocking
      BY <2>7 DEF H!Tick, H!Policy
    <3>2. ~(pc = "accepting" /\ Handling[port].blocking)
      <4>1. Handling[port].accepts = "wait" /\ pc = "accepting" => backlog > 0
        BY DEF AcceptInTime
      <4>2. Handling[port].listens = "never" => pc = "idle" BY DEF AcceptInTime
      <4>3. ~(backlog > 0) BY <3>1
      <4> QED BY <1>p, <4>1, <4>2, <4>3
    <3>3. pc = "waiting" /\ limit = Budget /\ now < limit
      BY <3>1, <3>2 DEF AcceptInTime
    <3> QED BY <1>0, <3>1, <3>3
  <2>8. ASSUME NEW h \in owned \cup gone, H!Close(h) \/ H!CloseAgain(h)
        PROVE  pc' # "idle" => limit' = Budget /\ now' <= limit'
    <3>1. UNCHANGED <<pc, now, limit>> BY <2>8 DEF H!Close, H!CloseAgain
    <3> QED BY <3>1 DEF AcceptInTime
  <2> QED BY <2>1, <2>2, <2>3, <2>4, <2>5, <2>6, <2>7, <2>8 DEF H!Next
<1>2. Handling[port].listens = "never" =>
        /\ pc' = "idle" /\ lone' = 0
        /\ \A s \in 1..MaxFds : table'[s].kind # "listener"
  <2> SUFFICES ASSUME Handling[port].listens = "never"
               PROVE  /\ pc' = "idle" /\ lone' = 0
                      /\ \A s \in 1..MaxFds : table'[s].kind # "listener"
    OBVIOUS
  <2>0. /\ pc = "idle" /\ lone = 0
        /\ \A s \in 1..MaxFds : table[s].kind # "listener"
    BY DEF AcceptInTime
  <2>1. CASE H!Connect
    <3>1. UNCHANGED <<pc, lone>> BY <2>1 DEF H!Connect
    <3> DEFINE f == H!Lowest(H!FreeFds)
               s == H!Lowest(H!FreeSlots)
               e == [fd |-> f, id |-> ids + 1, kind |-> "conn"]
    <3>3. table' \in {table, [table EXCEPT ![s] = e]}
      BY <2>1 DEF H!Connect, H!Register
    <3>4. e.kind = "conn" OBVIOUS
    <3> HIDE DEF f, s, e
    <3>2. \A t \in 1..MaxFds : table'[t].kind \in {table[t].kind, "conn"}
      BY <1>0, <3>3, <3>4
    <3> QED BY <2>0, <3>1, <3>2
  <2>2. CASE H!Adopt
    <3>1. UNCHANGED <<pc, lone>> BY <2>2 DEF H!Adopt
    <3> DEFINE s == H!Lowest(H!FreeSlots)
               e == [fd |-> H!Lent, id |-> ids + 1, kind |-> "lent"]
    <3>3. table' \in {table, [table EXCEPT ![s] = e]} BY <2>2 DEF H!Adopt
    <3>4. e.kind = "lent" OBVIOUS
    <3> HIDE DEF s, e
    <3>2. \A t \in 1..MaxFds : table'[t].kind \in {table[t].kind, "lent"}
      BY <1>0, <3>3, <3>4
    <3> QED BY <2>0, <3>1, <3>2
  <2>3. ~H!Listen /\ ~H!CloseListener
    BY <2>0 DEF H!Listen, H!CloseListener, H!Policy
  <2>4. ~H!StartAccept
    BY <1>0, <2>0 DEF H!StartAccept, H!Policy, H!Listening
  <2>5. ~H!Ready /\ ~H!Accepted /\ ~H!Empties /\ ~H!Expired /\ ~H!Signal /\ ~H!Tick
    BY <2>0 DEF H!Ready, H!Accepted, H!Empties, H!Expired, H!Signal, H!Tick
  <2>6. CASE H!PeerConnects BY <2>0, <2>6 DEF H!PeerConnects, H!store
  <2>7. ASSUME NEW h \in owned \cup gone, H!Close(h) \/ H!CloseAgain(h)
        PROVE  /\ pc' = "idle" /\ lone' = 0
               /\ \A s \in 1..MaxFds : table'[s].kind # "listener"
    <3>1. /\ UNCHANGED <<pc, lone>>
          /\ table' \in {table, [table EXCEPT ![h.slot] = H!Empty]}
      BY <2>7 DEF H!Close, H!CloseAgain, H!Release
    <3>3. H!Empty.kind = "free" BY DEF H!Empty
    <3>2. \A t \in 1..MaxFds : table'[t].kind \in {table[t].kind, "free"}
      BY <1>0, <3>1, <3>3
    <3> QED BY <2>0, <3>1, <3>2
  <2> QED BY <2>1, <2>2, <2>3, <2>4, <2>5, <2>6, <2>7 DEF H!Next
<1>3. Handling[port].accepts = "wait" /\ pc' = "accepting" => backlog' > 0
  <2> SUFFICES ASSUME Handling[port].accepts = "wait", pc' = "accepting"
               PROVE  backlog' > 0
    OBVIOUS
  <2>1. CASE pc = "accepting" /\ pc' = pc
    <3>1. backlog > 0 BY <2>1 DEF AcceptInTime
    <3>2. backlog' \in {backlog, backlog + 1}
      BY <2>1, <1>0 DEF H!Next, H!Connect, H!Adopt, H!Listen, H!CloseListener,
        H!PeerConnects, H!StartAccept, H!Ready, H!Accepted, H!Empties, H!Expired,
        H!Signal, H!Tick, H!Close, H!CloseAgain, H!Over
    <3> QED BY <1>0, <3>1, <3>2
  <2>2. CASE pc' # pc
    <3>1. H!Ready
      BY <1>p, <2>2 DEF H!Next, H!Connect, H!Adopt, H!Listen, H!CloseListener,
        H!PeerConnects, H!StartAccept, H!Accepted, H!Empties, H!Expired,
        H!Signal, H!Tick, H!Close, H!CloseAgain, H!Over, H!NothingThere, H!Policy
    <3> QED BY <3>1 DEF H!Ready
  <2> QED BY <2>1, <2>2
<1> QED BY <1>0, <1>1, <1>2, <1>3 DEF AcceptInTime

(* The invariant of the handles is inductive.                               *)
LEMMA HandlesKept == ASSUME HandlesInv, H!Next PROVE HandlesInv'
BY HandlesTyped, HandlesHolds, HandlesHurry, HandlesFixed DEF HandlesInv

(* What the invariant promises between two calls, and about the clock.      *)
LEMMA HandlesPromises ==
  ASSUME HandlesInv
  PROVE  /\ port \notin Leaky => H!DescriptorsHeld
         /\ ~LateAccept(port) => H!AcceptBounded
<1>1. HandleTypes BY DEF HandlesInv
<1>2. ASSUME port \notin Leaky PROVE H!DescriptorsHeld
  <2>0. Held BY <1>2 DEF HandlesInv
  <2>1. ASSUME NEW f \in 1..MaxFds, sock[f] # 0, f # lone
        PROVE  \E h \in owned : table[h.slot].fd = f /\ h.id = sock[f]
    <3>1. PICK s \in 1..MaxFds : Used(s) /\ table[s].fd = f
      BY <2>0, <2>1 DEF Held, Sockets
    <3>2. /\ [slot |-> s, id |-> table[s].id] \in owned
          /\ sock[f] = table[s].id
      BY <2>0, <3>1, Parameters DEF Held, Slotted
    <3> QED BY <3>1, <3>2
  <2>2. ASSUME NEW h \in owned
        PROVE  /\ table[h.slot].id = h.id
               /\ table[h.slot].fd # 0 => sock[table[h.slot].fd] = h.id
    <3>1. h.slot \in 1..MaxFds BY <1>1, SizeFits DEF HandleTypes
    <3> QED BY <2>0, <3>1 DEF Held, Owners, Slotted
  <2> QED BY <2>1, <2>2 DEF H!DescriptorsHeld, H!Fds, H!Lent
<1>3. ASSUME ~LateAccept(port) PROVE H!AcceptBounded
  BY <1>3 DEF HandlesInv, AcceptInTime, H!AcceptBounded
<1> QED BY <1>2, <1>3

-----------------------------------------------------------------------------
(* Together.                                                                *)

\* The part at work keeps its invariant.
Kept ==
  /\ stage \in Stages
  /\ stage = "dial"    => DialInv
  /\ stage = "receive" => ReadInv
  /\ stage = "send"    => SendInv
  /\ stage = "handles" => HandlesInv

(* Whichever part is at work begins in its invariant.                       *)
LEMMA KeptAtFirst == ASSUME Init PROVE Kept
<1>1. /\ stage \in Stages
      /\ stage = "dial"    => D!Init
      /\ stage = "receive" => R!Init
      /\ stage = "send"    => S!Init
      /\ stage = "handles" => H!Init
  BY DEF Init
<1> QED BY <1>1, DialBegins, ReadBegins, SendBegins, HandlesBegin DEF Kept

(* A step that changes nothing changes none of the parts.                   *)
LEMMA DialStays == ASSUME DialInv, UNCHANGED vars PROVE DialInv'
<1>1. /\ UNCHANGED <<port, secure, pc, now, limit, signals, outcome>>
      /\ UNCHANGED <<peer, tlsPeer, full, address, flights, open, slot>>
      /\ UNCHANGED <<resolved, until, since, late>>
  BY DEF vars, dialVars
<1>2. DialTypes' BY <1>1 DEF DialInv, DialTypes
<1>3. Holding' BY <1>1 DEF DialInv, Holding
<1>4. Trying' BY <1>1 DEF DialInv, Trying
<1>5. (D!Established /\ D!FallsBack)'
  BY <1>1 DEF DialInv, D!Established, D!FallsBack
<1>6. (~LateDial(port) => InTime)'
  BY <1>1 DEF DialInv, LateDial, InTime, D!Promise, D!Policy
<1> QED BY <1>2, <1>3, <1>4, <1>5, <1>6 DEF DialInv

LEMMA ReadStays == ASSUME ReadInv, UNCHANGED vars PROVE ReadInv'
<1>1. /\ UNCHANGED <<port, secure, pc, now, limit, signals, outcome>>
      /\ UNCHANGED <<pipe, half, units, ended, sent, held, got, dirty, call>>
  BY DEF vars, receiveVars
<1>2. ReadTypes' BY <1>1 DEF ReadInv, ReadTypes
<1>3. BytesKept' BY <1>1 DEF ReadInv, BytesKept
<1>4. NothingHeld' BY <1>1 DEF ReadInv, NothingHeld
<1>5. Clean' /\ Fate' BY <1>1 DEF ReadInv, Clean, Fate
<1>6. Spoiled' = Spoiled /\ Ended' = Ended BY <1>1 DEF Spoiled, Mixed, Ended, R!EndIsEnd
<1>7. (~Spoiled => Ended /\ R!FailureIsolated)'
  BY <1>1, <1>6 DEF ReadInv, R!FailureIsolated, R!Policy
<1>8. (~LateRead(port) => WithinTimeout)'
  BY <1>1 DEF ReadInv, LateRead, WithinTimeout
<1> QED BY <1>2, <1>3, <1>4, <1>5, <1>6, <1>7, <1>8 DEF ReadInv

LEMMA SendStays == ASSUME SendInv, UNCHANGED vars PROVE SendInv'
<1>1. /\ UNCHANGED <<port, pc, now, limit, frame, done, part, wire>>
  BY DEF vars, sendVars
<1>2. /\ now' \in Nat
      /\ ~LateWrite(port) /\ pc' \in {"writing", "waiting"} =>
           limit' = Budget /\ now' <= limit'
  BY <1>1 DEF SendInv, SendTypes
<1> QED BY <1>1, <1>2, SendRests

LEMMA HandlesStay == ASSUME HandlesInv, UNCHANGED vars PROVE HandlesInv'
<1>1. /\ UNCHANGED <<port, pc, now, limit>>
      /\ UNCHANGED <<sock, table, lone, owned, gone, ids, backlog>>
  BY DEF vars, handleVars
<1>2. H!Size' = H!Size BY <1>1 DEF H!Size, H!Policy
<1>3. HandleTypes' BY <1>1, <1>2 DEF HandlesInv, HandleTypes
<1>4. (port \notin Leaky => Held)'
  BY <1>1, QuietKeeps DEF HandlesInv, Held, Sockets, Leaky
<1>5. (~LateAccept(port) => AcceptInTime)'
  BY <1>1 DEF HandlesInv, LateAccept, AcceptInTime
<1> QED BY <1>3, <1>4, <1>5 DEF HandlesInv

(* A step is a step of the part at work, or none.                           *)
LEMMA KeptAfter == ASSUME Kept, [Next]_vars PROVE Kept'
<1>1. CASE Dialling
  <2>1. stage = "dial" /\ stage' = stage /\ D!Next BY <1>1 DEF Dialling
  <2> QED BY <2>1, DialKept DEF Kept
<1>2. CASE Receiving
  <2>1. stage = "receive" /\ stage' = stage /\ R!Next BY <1>2 DEF Receiving
  <2> QED BY <2>1, ReadKept DEF Kept
<1>3. CASE Delivering
  <2>1. stage = "send" /\ stage' = stage /\ S!Next BY <1>3 DEF Delivering
  <2> QED BY <2>1, SendKept DEF Kept
<1>4. CASE Managing
  <2>1. stage = "handles" /\ stage' = stage /\ H!Next BY <1>4 DEF Managing
  <2> QED BY <2>1, HandlesKept DEF Kept
<1>5. CASE UNCHANGED vars
  <2>1. stage' = stage BY <1>5 DEF vars
  <2> QED BY <1>5, <2>1, DialStays, ReadStays, SendStays, HandlesStay DEF Kept
<1> QED BY <1>1, <1>2, <1>3, <1>4, <1>5 DEF Next

(* So every reachable state is in it.                                       *)
LEMMA KeptAlways == Spec => []Kept
BY KeptAtFirst, KeptAfter, PTL DEF Spec

(* A connect routine of any port but BCPL's ends with one socket, one slot  *)
(* and a verified peer, or with nothing, on whichever early return it       *)
(* leaves; BCPL's still reports a connection only for a verified peer.      *)
THEOREM OneOrNothingHolds == Spec => []OneOrNothing
<1>1. Kept => OneOrNothing BY DialPromises DEF Kept, OneOrNothing
<1> QED BY <1>1, KeptAlways, PTL

(* However many addresses a name has, a routine that saw no signal and no   *)
(* expired wait fails only if all of them refused, or at the first that     *)
(* accepted, because of its TLS peer.                                       *)
THEOREM FallsBackHolds == Spec => []FallsBack
<1>1. Kept => FallsBack BY DialPromises DEF Kept, FallsBack
<1> QED BY <1>1, KeptAlways, PTL

(* Whatever the timeout is, and whatever addresses, peer and signals do,    *)
(* every call of a port without one of the named weaknesses is over by then.*)
THEOREM DeadlinesHold == Spec => []DeadlinesKept
<1>1. ASSUME Kept PROVE DeadlinesKept
  <2>1. CASE stage = "dial"
    BY <1>1, <2>1, DialPromises DEF Kept, DeadlinesKept
  <2>2. CASE stage = "receive"
    BY <1>1, <2>2, ReadPromises DEF Kept, DeadlinesKept
  <2>3. CASE stage = "send"
    BY <1>1, <2>3, SendPromises DEF Kept, DeadlinesKept
  <2>4. CASE stage = "handles"
    BY <1>1, <2>4, HandlesPromises DEF Kept, DeadlinesKept
  <2> QED BY <1>1, <2>1, <2>2, <2>3, <2>4 DEF Kept, Stages
<1> QED BY <1>1, KeptAlways, PTL

(* A read reports the end of a stream only when the peer ended it and every *)
(* byte that came was returned, however many records, halves of records and *)
(* tickets came before; a mixed port keeps to it until another connection   *)
(* of the thread has failed and left an error.                              *)
THEOREM EndIsReal == Spec => []EndIsEnd
<1>1. Kept => EndIsEnd BY ReadPromises DEF Kept, EndIsEnd
<1> QED BY <1>1, KeptAlways, PTL

(* No read waits for its descriptor while the rest of a record is already   *)
(* in the process, and no separate wait does but Verilog's and VHDL's.      *)
THEOREM NoByteWaits == Spec => []NoByteStranded
<1>1. Kept => NoByteStranded BY ReadPromises DEF Kept, NoByteStranded
<1> QED BY <1>1, KeptAlways, PTL

(* In a port that blocks, that clears the error queue, or that empties it    *)
(* and closes without SSL_shutdown, a connection is never reported as       *)
(* broken because another one failed; in the others only once an error of   *)
(* another connection is in the queue.                                      *)
THEOREM FailuresStayApart == Spec => []FailureIsolated
<1>1. Kept => FailureIsolated BY ReadPromises DEF Kept, FailureIsolated
<1> QED BY <1>1, KeptAlways, PTL

(* For frames of any length and number, and a peer of any capacity, the     *)
(* wire holds the frames whole, once and in order, and a frame reported as  *)
(* written is on it.                                                        *)
THEOREM FramesAreWhole == Spec => []WellFormed
<1>1. Kept => WellFormed BY SendPromises DEF Kept, WellFormed
<1> QED BY <1>1, KeptAlways, PTL

(* In a table of any size, with any number of descriptors, sockets and      *)
(* closes, every open descriptor belongs to one handle between two calls    *)
(* and every handle to the socket it was given for.                         *)
THEOREM NothingLeaks == Spec => []DescriptorsHeld
<1>1. Kept => DescriptorsHeld BY HandlesPromises DEF Kept, DescriptorsHeld
<1> QED BY <1>1, KeptAlways, PTL
=============================================================================
