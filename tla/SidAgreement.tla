---------------------------- MODULE SidAgreement ----------------------------
(***************************************************************************)
(* What the handshake promises, with no messages in it: two parties with   *)
(* parameters and nonces of their own each end up locked or aborted, once  *)
(* and for good; whoever locks, locks the one sid the two of them have,    *)
(* and only if their parameters match.                                     *)
(***************************************************************************)
CONSTANTS Params, Nonces

VARIABLES params, nonce, outcome

agreementVars == <<params, nonce, outcome>>

Parties == {"alice", "bob"}

Sid == <<params["alice"], nonce["alice"], nonce["bob"]>>

Undecided  == [state |-> "open", sid |-> <<>>]
AbortedOut == [state |-> "aborted", sid |-> <<>>]
LockedOn(sid) == [state |-> "locked", sid |-> sid]

Init ==
    /\ params \in [Parties -> Params]
    /\ nonce \in [Parties -> Nonces]
    /\ outcome = [r \in Parties |-> Undecided]

Lock(r) ==
    /\ outcome[r] = Undecided
    /\ params["alice"] = params["bob"]
    /\ outcome' = [outcome EXCEPT ![r] = LockedOn(Sid)]
    /\ UNCHANGED <<params, nonce>>

Abort(r) ==
    /\ outcome[r] = Undecided
    /\ outcome' = [outcome EXCEPT ![r] = AbortedOut]
    /\ UNCHANGED <<params, nonce>>

Next == \E r \in Parties : Lock(r) \/ Abort(r)

Spec == Init /\ [][Next]_agreementVars
=============================================================================
