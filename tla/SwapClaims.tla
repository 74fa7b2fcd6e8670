----------------------------- MODULE SwapClaims -----------------------------
(***************************************************************************)
(* A statement of the documentation that the clients do not keep.          *)
(***************************************************************************)
EXTENDS SwapClient

\* README.md, line 72: once both clients are on the way to EXECUTION_PLANNED,
\* "Alice will automatically broadcast tx_B" and "Bob will wait for tx_B
\* confirmation, extract the secret, and broadcast tx_A".
BothTransactionsBroadcast ==
    (\A r \in Roles : Reached(r, "EXEC_TEMPLATES_READY")) ~>
        Sent("tx_B") /\ Sent("tx_A")
=============================================================================
