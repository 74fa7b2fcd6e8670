------------------------------ MODULE Lockstep ------------------------------
(***************************************************************************)
(* What the session promises about its milestones, with no messages in it: *)
(* two parties pass the same milestones in the same order, neither gets    *)
(* more than one ahead, the one that is behind finds there what the other  *)
(* one found, and either may stop anywhere, for good.                      *)
(***************************************************************************)
EXTENDS Integers, Sequences

CONSTANT Steps   \* how many milestones there are

VARIABLES
    log,      \* log[r]: what party r found at each milestone it has passed
    stopped   \* the parties that have stopped

lockstepVars == <<log, stopped>>

Parties == {"alice", "bob"}

Peer(r) == IF r = "alice" THEN "bob" ELSE "alice"

Init ==
    /\ log = [r \in Parties |-> <<>>]
    /\ stopped = {}

\* Whoever is first at a milestone finds anything there, the second one the same.
Pass(r) ==
    LET k == Len(log[r]) + 1
    IN  /\ r \notin stopped
        /\ k <= Steps
        /\ k <= Len(log[Peer(r)]) + 1
        /\ k \in DOMAIN log'[r]
        /\ log' = [log EXCEPT ![r] = Append(@, log'[r][k])]
        /\ k <= Len(log[Peer(r)]) => log'[r][k] = log[Peer(r)][k]
        /\ UNCHANGED stopped

Stop(r) ==
    /\ stopped' = stopped \cup {r}
    /\ UNCHANGED log

Next == \E r \in Parties : Pass(r) \/ Stop(r)

Spec == Init /\ [][Next]_lockstepVars

-----------------------------------------------------------------------------
(* Properties *)

\* The logs never differ where both parties have been, and never by more than
\* one entry in length.
InStep ==
    /\ \A r \in Parties : Len(log[r]) <= Len(log[Peer(r)]) + 1
    /\ \A r \in Parties : \A k \in 1 .. Len(log[r]) :
          k <= Len(log[Peer(r)]) => log[r][k] = log[Peer(r)][k]
=============================================================================
