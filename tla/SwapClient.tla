----------------------------- MODULE SwapClient -----------------------------
(***************************************************************************)
(* packages/client-cli/src/index.ts around the session: the callbacks that *)
(* fund the wallets, read the nonces, broadcast tx_B and tx_A and watch    *)
(* them, and the ways the process ends.  A callback is asynchronous: each  *)
(* await splits it into actions, between which the other callbacks of this *)
(* client, the other client and the chain take steps.  Both clients run    *)
(* with --autoFund, alice with auto broadcast.                             *)
(*                                                                         *)
(* The chain is external: a transaction that was sent is mined, or fails.  *)
(* A message to a process that has ended is never read.  How far a         *)
(* callback has come is read off what it has done: the transactions it     *)
(* sent, the methods it called.                                            *)
(***************************************************************************)
EXTENDS SessionRuntime

CONSTANT Breakables   \* what may break: a subset of AllBreakables

AllBreakables == {"rpc", "socket", "chain"}

ASSUME SwapAssumption == Breakables \subseteq AllBreakables

VARIABLES
    proc,     \* proc[r]: "up", or the code r's process has ended with
    logged,   \* logged[r]: r's broadcasting callback threw and only logged it
    chain,    \* chain[tx]: where a transaction of the swap stands
    broken    \* the one thing that may break in this behaviour, or "nothing"

clientVars == <<proc, logged, chain, broken>>
swapVars == <<sessionVars, clientVars>>

Funding(r) == IF r = "alice" THEN "funding_alice" ELSE "funding_bob"
Txs == {"funding_alice", "funding_bob", "tx_B", "tx_A"}

Up(r) == proc[r] = "up"

Exits(r, code) == proc' = [proc EXCEPT ![r] = code]

\* sendTransaction: the node takes the transaction.
Submit(tx) == chain' = [chain EXCEPT ![tx] = "sent"]

Sent(tx) == chain[tx] # "none"

-----------------------------------------------------------------------------
(* The session's events *)

\* The call of this step raised an ABORTED event: the session aborted, or was
\* told that the peer aborted without this session's sid.
AbortEvent(r) ==
    \/ ss[r].state # "ABORTED" /\ ss'[r].state = "ABORTED"
    \/ RcvForeignSid(r) /\ Head(net[r]).type = "abort"

\* Faulty: an abort is logged and the process goes on.
OnAbortStay(r) == UNCHANGED proc

\* onAbort(): close the socket, exit.
OnAbort(r) == IF AbortEvent(r) THEN Exits(r, "exit 1") ELSE UNCHANGED proc

Begin(r) ==
    /\ Up(r) /\ StartHandshake(r)
    /\ UNCHANGED clientVars

OnPeerPayload(r) ==
    /\ Up(r) /\ SessionIncoming(r)
    /\ OnAbort(r)
    /\ UNCHANGED <<logged, chain, broken>>

\* Faulty: the timer is armed when the templates are built.
TimerArmedEarly(r) == Reached(r, "EXEC_READY")

\* onExecTemplatesReady() arms a timer and nothing disarms it.
TimerArmed(r) == Reached(r, "EXEC_TEMPLATES_READY")

TimerFires(r) ==
    /\ Up(r) /\ TimerArmed(r)
    /\ Exits(r, "exit 0")
    /\ UNCHANGED <<sessionVars, logged, chain, broken>>

-----------------------------------------------------------------------------
(* onFundingStarted, onFundingTx, onExecPrepStarted *)

SendFunding(r) ==
    /\ Up(r) /\ Reached(r, "CAPSULES_VERIFIED") /\ ~Sent(Funding(r))
    /\ Submit(Funding(r))
    /\ UNCHANGED <<sessionVars, proc, logged, broken>>

AnnounceFunding(r) ==
    /\ Up(r) /\ Sent(Funding(r))
    /\ EmitFundingTx(r)
    /\ OnAbort(r)
    /\ UNCHANGED <<logged, chain, broken>>

\* Faulty: does not wait for the receipt.
FundingValidUnmined(which) == Sent(Funding(which))

\* validateFundingTx returns: the receipt says success. Recipient, value and calldata
\* are compared with the announcement, which was made from the transaction itself.
FundingValid(which) == chain[Funding(which)] = "mined"

ConfirmFunding(r, which) ==
    /\ Up(r) /\ FundingValid(which)
    /\ NotifyFundingConfirmed(r, which)
    /\ UNCHANGED clientVars

ReadNonces(r) ==
    /\ Up(r)
    /\ OnExecPrepStarted(r)
    /\ OnAbort(r)
    /\ UNCHANGED <<logged, chain, broken>>

\* The callbacks that wait for the chain and exit when a call to it throws.
Validating(r, which) == ss[r].fundingTx[which] # None /\ ~ss[r].fundingConfirmed[which]

Preparing(r) ==
    \/ Reached(r, "CAPSULES_VERIFIED") /\ ss[r].fundingTx[r] = None
    \/ \E which \in Roles : Validating(r, which)
    \/ Reached(r, "FUNDED") /\ "setLocalNonceReport" \notin calls[r]

\* The peer's transaction is asked for when its announcement comes, and once: this
\* client's node may not have heard of it yet.
NotFound(r) == Validating(r, Other(r))

\* A funding transaction that was not found or failed on chain is an error like one
\* of the RPC.
PreparationFails(r) ==
    /\ Up(r)
    /\ \/ broken = "rpc" /\ Preparing(r)
       \/ NotFound(r)
       \/ \E which \in Roles :
             Validating(r, which) /\ chain[Funding(which)] = "failed"
    /\ Exits(r, "exit 1")
    /\ UNCHANGED <<sessionVars, logged, chain, broken>>

-----------------------------------------------------------------------------
(* onExecutionPlanned, onTxBHashReceived, onTxAHashReceived *)

Broadcasting(r) ==
    /\ Up(r) /\ ~logged[r]
    /\ IF r = "alice"
       THEN Reached("alice", "EXECUTION_PLANNED") /\ "announceTxBHash" \notin calls["alice"]
       ELSE ss["bob"].peerTxBHash # None /\ "announceTxAHash" \notin calls["bob"]

SendTxB ==
    /\ Broadcasting("alice") /\ ~Sent("tx_B")
    /\ Submit("tx_B")
    /\ UNCHANGED <<sessionVars, proc, logged, broken>>

AnnounceTxB ==
    /\ Broadcasting("alice") /\ Sent("tx_B")
    /\ AnnounceTxBHash
    /\ OnAbort("alice")
    /\ UNCHANGED <<logged, chain, broken>>

\* The transaction alice made from her plan is, field by field and in its digest, the
\* one of bob's plan.
MatchesPlan == ss["alice"].templates = ss["bob"].templates

\* Faulty: the receipt's status is not looked at.
TxBIncluded == chain["tx_B"] \in {"mined", "failed"} /\ MatchesPlan

\* waitForTransactionReceipt and validateTxBAgainstPlan return.
TxBValid == chain["tx_B"] = "mined" /\ MatchesPlan

\* Faulty: pendingTxA and pendingAdaptorSigA are kept by the other role.
HoldsNothing == FALSE

\* What the callback refuses to go on without: the planned transactions and the
\* signature of leg A, stored when the adaptor negotiation ended.
HoldsPlan ==
    Reached("bob", "EXECUTION_PLANNED") /\ ss["bob"].legs["A"].adaptorSig # None

SendTxA ==
    /\ Broadcasting("bob") /\ ~Sent("tx_A")
    /\ TxBValid /\ HoldsPlan
    /\ Submit("tx_A")
    /\ UNCHANGED <<sessionVars, proc, logged, broken>>

AnnounceTxA ==
    /\ Broadcasting("bob") /\ Sent("tx_A")
    /\ AnnounceTxAHash
    /\ OnAbort("bob")
    /\ UNCHANGED <<logged, chain, broken>>

\* An exception in either callback is logged and nothing else, be it the RPC's or one
\* of bob's checks; the transaction may have reached the node although the call that
\* sent it threw.
BroadcastThrows(r) ==
    /\ Broadcasting(r)
    /\ \/ broken = "rpc"
       \/ r = "bob" /\ chain["tx_B"] \in {"mined", "failed"} /\ ~(TxBValid /\ HoldsPlan)
    /\ logged' = [logged EXCEPT ![r] = TRUE]
    /\ UNCHANGED <<sessionVars, proc, chain, broken>>

\* waitForTxConfirmations reports a failed tx_A, or gives up after a minute in which
\* it has not seen tx_A, or not deep enough in the chain.
WatchTxAFails ==
    /\ Up("alice")
    /\ AbortOnTxA
    /\ OnAbort("alice")
    /\ UNCHANGED <<logged, chain, broken>>

-----------------------------------------------------------------------------
(* The chain, the socket and the specification *)

Mine(tx) ==
    /\ chain[tx] = "sent"
    /\ \E status \in {"mined"} \cup (IF broken = "chain" THEN {"failed"} ELSE {}) :
          chain' = [chain EXCEPT ![tx] = status]
    /\ UNCHANGED <<sessionVars, proc, logged, broken>>

\* onError(): an error of the socket, or one thrown while a message is handled,
\* ends the process.
OnError(r) ==
    /\ Up(r) /\ broken = "socket"
    /\ Exits(r, "exit 1")
    /\ UNCHANGED <<sessionVars, logged, chain, broken>>

SwapInit ==
    /\ SessionInit
    /\ proc = [r \in Roles |-> "up"]
    /\ logged = [r \in Roles |-> FALSE]
    /\ chain = [tx \in Txs |-> "none"]
    /\ broken \in Breakables \cup {"nothing"}

ClientStep(r) ==
    \/ Begin(r) \/ OnPeerPayload(r) \/ TimerFires(r)
    \/ SendFunding(r) \/ AnnounceFunding(r)
    \/ \E which \in Roles : ConfirmFunding(r, which)
    \/ ReadNonces(r) \/ PreparationFails(r)
    \/ BroadcastThrows(r) \/ OnError(r)

SwapNext ==
    \/ \E r \in Roles : ClientStep(r)
    \/ SendTxB \/ AnnounceTxB \/ SendTxA \/ AnnounceTxA \/ WatchTxAFails
    \/ \E tx \in Txs : Mine(tx)

SwapSpec == SwapInit /\ [][SwapNext]_swapVars

\* A process that is up runs what it is due to run and the chain takes in what
\* it was sent; no failure and no exit is owed.
SwapFairSpec ==
    /\ SwapSpec
    /\ \A r \in Roles :
          /\ WF_swapVars(Begin(r))
          /\ WF_swapVars(OnPeerPayload(r))
          /\ WF_swapVars(SendFunding(r))
          /\ WF_swapVars(AnnounceFunding(r))
          /\ \A which \in Roles : WF_swapVars(ConfirmFunding(r, which))
          /\ WF_swapVars(ReadNonces(r))
    /\ WF_swapVars(SendTxB) /\ WF_swapVars(AnnounceTxB)
    /\ WF_swapVars(SendTxA) /\ WF_swapVars(AnnounceTxA)
    /\ \A tx \in Txs : WF_swapVars(Mine(tx))

-----------------------------------------------------------------------------
(* Properties *)

\* Every variable has its shape, and a client whose session has aborted is no
\* longer running, so none of its callbacks can call into the aborted session.
SwapTypeOK ==
    /\ proc \in [Roles -> {"up", "exit 0", "exit 1"}]
    /\ logged \in [Roles -> BOOLEAN]
    /\ chain \in [Txs -> {"none", "sent", "mined", "failed"}]
    /\ broken \in Breakables \cup {"nothing"}
    /\ \A r \in Roles : Aborted(r) => proc[r] = "exit 1"

\* No wallet is emptied before both are full: when alice broadcasts tx_B both
\* funding transactions are in the chain.
FundedBeforeSpent ==
    Sent("tx_B") => \A r \in Roles : chain[Funding(r)] = "mined"

\* Bob publishes tx_A only after tx_B succeeded on chain, and a hash one client
\* was told is the hash of a transaction the other one did send.
TxAAfterTxB ==
    /\ Sent("tx_A") => chain["tx_B"] = "mined"
    /\ ss["bob"].peerTxBHash # None => Sent("tx_B")
    /\ ss["alice"].peerTxAHash # None => Sent("tx_A")

\* What exit code 0 is worth: the peer's session built the same templates and
\* accepted this party's commit, even if it has failed since; nothing is said of
\* the swap.
ExitZeroMeansTemplates ==
    \A r \in Roles : proc[r] = "exit 0" =>
        ss[Other(r)].templates = ss[r].templates /\ ss[Other(r)].peerCommitHash # None

\* Once tx_B has paid alice, bob publishes tx_A, unless his process ends first or
\* alice's does before she has announced tx_B, or the RPC has made the callback of
\* one of them throw; no check of his own and nothing else may stand in the way.
TxBPaysBob ==
    chain["tx_B"] = "mined" ~>
        \/ Sent("tx_A")
        \/ ~Up("bob")
        \/ ~Up("alice") /\ "announceTxBHash" \notin calls["alice"]
        \/ broken = "rpc" /\ \E r \in Roles : logged[r]
=============================================================================
