---------------------------- MODULE MCTransports ----------------------------
EXTENDS Transports

\* Two ports with the same policy behave alike: one of them is enough.
Alike(p, q) ==
  CASE stage = "dial"    -> /\ Dialing[p] = Dialing[q]
                            /\ (p \in PlainOnly) = (q \in PlainOnly)
    [] stage = "receive" -> /\ Reading[p] = Reading[q]
                            /\ (p \in SecureReads) = (q \in SecureReads)
    [] stage = "send"    -> /\ Sending[p] = Sending[q]
                            /\ (p \in SecureWrites) = (q \in SecureWrites)
    [] stage = "handles" -> Handling[p] = Handling[q]

MCInit == Init /\ port = (CHOOSE p \in PortsOf(stage) : Alike(p, port))

MCSpec == MCInit /\ [][Next]_vars
=============================================================================
