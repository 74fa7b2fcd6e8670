--------------------------- MODULE SessionClaims ----------------------------
(***************************************************************************)
(* Two statements README.md makes about a session that its code does not   *)
(* keep.                                                                   *)
(***************************************************************************)
EXTENDS SessionRuntime

\* README.md, line 72: "Both clients should reach EXECUTION_PLANNED".  With
\* parties that agree on everything, a faultless network and clients that make
\* every call, two parties that both sent a hello both get there.
BothReachPlanned ==
    (\A r \in Roles : HelloSent(r)) ~>
        \A r \in Roles : Reached(r, "EXECUTION_PLANNED")

\* README.md, line 250, of a tampered template commit: "Both abort".  Once one
\* session has aborted, the other eventually has.
BothAbort ==
    (\E r \in Roles : Aborted(r)) ~> (\A r \in Roles : Aborted(r))
=============================================================================
