-------------------------- MODULE HandshakeClaims ---------------------------
(***************************************************************************)
(* Two statements the repository makes about the handshake that its code   *)
(* does not keep.                                                          *)
(***************************************************************************)
EXTENDS HandshakeRuntime

\* README.md, line 289: "Duplicate resends (same seq) are ignored without
\* aborting".  With nothing but duplicates on the network and parameters that
\* match, nobody aborts.
DuplicatesDoNotAbort ==
    params["alice"] = params["bob"] => \A r \in Roles : hs[r].state # "ABORTED"

\* messages.ts, line 109, of the parameters in hello_ack: "so both sides can
\* lock even if one misses the initial hello".  When both have sent a hello,
\* one has the other's hello_ack, and nothing is left in flight, both are
\* locked.
AckMakesUpForHello ==
    /\ params["alice"] = params["bob"]
    /\ \A r \in Roles : HelloSent(r) /\ net[r] = <<>>
    /\ \E r \in Roles : hs[r].seenPeerAck
    => \A r \in Roles : Locked(r)
=============================================================================
