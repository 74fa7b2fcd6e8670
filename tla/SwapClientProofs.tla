-------------------------- MODULE SwapClientProofs --------------------------
(***************************************************************************)
(* Theorems about two clients, their sessions and the chain (SwapClient),  *)
(* for every set of values and every choice of what breaks.  The clients   *)
(* take steps of the session only, so SInv holds of theirs; ClientInv says *)
(* what a client has seen of the chain when its session relies on it.      *)
(***************************************************************************)
EXTENDS SwapClient, SessionRuntimeProofs

\* A confirmed funding transaction is mined, an announced one was sent, tx_A
\* follows a mined tx_B, and the exit timer runs from the templates on.
ClientInv ==
    /\ SwapTypeOK
    /\ \A r, which \in Roles :
          ss[r].fundingConfirmed[which] => chain[Funding(which)] = "mined"
    /\ FundedBeforeSpent
    /\ Sent("tx_A") => chain["tx_B"] = "mined"
    /\ "announceTxBHash" \in calls["alice"] => Sent("tx_B")
    /\ "announceTxAHash" \in calls["bob"] => Sent("tx_A")
    /\ \A r \in Roles : proc[r] = "exit 0" => Passed(ss[r], "EXEC_TEMPLATES_READY")

-----------------------------------------------------------------------------
(* The sessions in the clients *)

\* A client's step is a step of the sessions or leaves them alone.
LEMMA ClientsRunSessions ==
    ASSUME SwapNext
    PROVE  SessionNext \/ UNCHANGED sessionVars
<1>1. "alice" \in Roles /\ "bob" \in Roles
  BY DEF Roles
<1>2. ASSUME NEW r \in Roles, ClientStep(r)
      PROVE  SessionNext \/ UNCHANGED sessionVars
  <2>1. \/ StartHandshake(r) \/ SessionIncoming(r) \/ ClientCalls(r)
        \/ UNCHANGED sessionVars
    BY <1>2 DEF ClientStep, Begin, OnPeerPayload, TimerFires, SendFunding,
                AnnounceFunding, ConfirmFunding, ReadNonces, PreparationFails,
                BroadcastThrows, OnError, ClientCalls
  <2>. QED  BY <2>1 DEF SessionNext
<1>3. ASSUME AnnounceTxB \/ WatchTxAFails
      PROVE  SessionNext
  BY <1>1, <1>3 DEF AnnounceTxB, WatchTxAFails, ClientCalls, SessionNext
<1>4. ASSUME AnnounceTxA
      PROVE  SessionNext
  BY <1>1, <1>4 DEF AnnounceTxA, ClientCalls, SessionNext
<1>5. ASSUME SendTxB \/ SendTxA \/ \E tx \in Txs : Mine(tx)
      PROVE  UNCHANGED sessionVars
  BY <1>5 DEF SendTxB, SendTxA, Mine
<1>. QED  BY <1>2, <1>3, <1>4, <1>5 DEF SwapNext

\* Two clients run two sessions: whatever holds of every session holds of theirs.
THEOREM SwapRunsSessions == SwapSpec => SessionSpec
<1>1. SwapInit => SessionInit
  BY DEF SwapInit
<1>2. [SwapNext]_swapVars => [SessionNext]_sessionVars
  BY ClientsRunSessions DEF swapVars
<1>. QED  BY <1>1, <1>2, PTL DEF SwapSpec, SessionSpec

LEMMA SwapInvariance == SwapSpec => []SInv /\ []Whole
BY SwapRunsSessions, SessionInvariance, WholeStays, PTL

LEMMA ClientsStand ==
    ASSUME SInv, Whole
    PROVE  \A r \in Roles : Standing(r)
BY OtherRole DEF SInv, Whole, Standing

-----------------------------------------------------------------------------
(* Steps of the clients *)

\* Every variable of the client has its shape.
ClientTypes ==
    /\ proc \in [Roles -> {"up", "exit 0", "exit 1"}]
    /\ logged \in [Roles -> BOOLEAN]
    /\ chain \in [Txs -> {"none", "sent", "mined", "failed"}]
    /\ broken \in Breakables \cup {"nothing"}

LEMMA ClientShapes ==
    SwapTypeOK <=> ClientTypes /\ \A r \in Roles : Aborted(r) => proc[r] = "exit 1"
BY DEF SwapTypeOK, ClientTypes

\* A step of r's session: its process ends with an abort, and what was announced
\* in the step was sent before.
LEMMA SessionTurn ==
    ASSUME NEW r \in Roles, SInv, ClientInv, Up(r), Turned(r), OnAbort(r),
           UNCHANGED <<logged, chain, broken>>,
           \A q \in Roles \ {r} : calls'[q] = calls[q],
           "announceTxBHash" \in calls'["alice"] =>
               "announceTxBHash" \in calls["alice"] \/ Sent("tx_B"),
           "announceTxAHash" \in calls'["bob"] =>
               "announceTxAHash" \in calls["bob"] \/ Sent("tx_A")
    PROVE  ClientInv'
<1>1. /\ ClientTypes /\ \A q \in Roles : Aborted(q) => proc[q] = "exit 1"
  BY ClientShapes DEF ClientInv
<1>2. proc' = proc \/ proc' = [proc EXCEPT ![r] = "exit 1"]
  BY DEF OnAbort, Exits
<1>3. ClientTypes'
  BY <1>1, <1>2 DEF ClientTypes
<1>4. ASSUME NEW q \in Roles, ss'[q].state = "ABORTED"
      PROVE  proc'[q] = "exit 1"
  <2>1. CASE q = r
    <3>1. ss[r].state # "ABORTED"
      BY <1>1 DEF Aborted, Up
    <3>2. AbortEvent(r)
      BY <1>4, <2>1, <3>1 DEF AbortEvent
    <3>. QED  BY <1>1, <2>1, <3>2 DEF OnAbort, Exits, ClientTypes
  <2>2. CASE q # r
    <3>1. ss'[q] = ss[q]
      BY <2>2 DEF Turned
    <3>2. proc[q] = "exit 1"
      BY <1>1, <1>4, <3>1 DEF Aborted
    <3>. QED  BY <1>1, <1>2, <2>2, <3>2 DEF ClientTypes
  <2>. QED  BY <2>1, <2>2
<1>5. SwapTypeOK'
  BY <1>3, <1>4 DEF SwapTypeOK, ClientTypes, Aborted
<1>6. \A q \in Roles : ss'[q].fundingConfirmed = ss[q].fundingConfirmed
  BY DEF Turned
<1>7. \A q, which \in Roles :
          ss'[q].fundingConfirmed[which] => chain'[Funding(which)] = "mined"
  BY <1>6 DEF ClientInv
<1>8. /\ FundedBeforeSpent' /\ (Sent("tx_A") => chain["tx_B"] = "mined")'
      /\ "announceTxBHash" \in calls'["alice"] => Sent("tx_B")'
      /\ "announceTxAHash" \in calls'["bob"] => Sent("tx_A")'
  BY DEF ClientInv, FundedBeforeSpent, Sent
<1>9. ASSUME NEW q \in Roles, proc'[q] = "exit 0"
      PROVE  Passed(ss'[q], "EXEC_TEMPLATES_READY")
  <2>1. q # r /\ proc[q] = "exit 0"
    BY <1>1, <1>2, <1>9 DEF Up, ClientTypes
  <2>. QED  BY <2>1 DEF Turned, ClientInv
<1>. QED  BY <1>5, <1>6, <1>7, <1>8, <1>9 DEF ClientInv

\* A step that leaves the sessions alone and only adds to the chain.
LEMMA ChainTurn ==
    ASSUME SInv, ClientInv, UNCHANGED <<ss, calls>>, ClientTypes',
           \A r \in Roles : proc[r] = "exit 1" => proc'[r] = "exit 1",
           \A r \in Roles : proc'[r] = "exit 0" =>
               proc[r] = "exit 0" \/ Passed(ss[r], "EXEC_TEMPLATES_READY"),
           \A tx \in Txs : chain[tx] = "mined" => chain'[tx] = "mined",
           \A tx \in Txs : Sent(tx) => Sent(tx)',
           Sent("tx_A")' => chain["tx_B"] = "mined",
           Sent("tx_B")' => \A r \in Roles : chain[Funding(r)] = "mined"
    PROVE  ClientInv'
<1>1. /\ \A r \in Roles : Funding(r) \in Txs
      /\ "tx_A" \in Txs /\ "tx_B" \in Txs
  BY DEF Funding, Txs
<1>2. SwapTypeOK'
  BY DEF SwapTypeOK, ClientTypes, ClientInv, Aborted
<1>3. FundedBeforeSpent' /\ (Sent("tx_A") => chain["tx_B"] = "mined")'
  BY <1>1 DEF FundedBeforeSpent
<1>4. /\ "announceTxBHash" \in calls'["alice"] => Sent("tx_B")'
      /\ "announceTxAHash" \in calls'["bob"] => Sent("tx_A")'
  BY <1>1 DEF ClientInv
<1>5. \A r, which \in Roles :
          ss'[r].fundingConfirmed[which] => chain'[Funding(which)] = "mined"
  BY <1>1 DEF ClientInv
<1>6. \A r \in Roles : proc'[r] = "exit 0" => Passed(ss'[r], "EXEC_TEMPLATES_READY")
  BY DEF ClientInv
<1>. QED  BY <1>2, <1>3, <1>4, <1>5, <1>6 DEF ClientInv

\* Alice plans to broadcast when both funding transactions are in the chain.
LEMMA FundedWhenPlanned ==
    ASSUME SInv, ClientInv, Reached("alice", "EXECUTION_PLANNED")
    PROVE  \A r \in Roles : chain[Funding(r)] = "mined"
<1>1. "alice" \in Roles
  BY DEF Roles
<1>2. Passed(ss["alice"], "FUNDED")
  BY <1>1, ReachedPassed, InOrderPassed
<1>3. \A which \in Roles : ss["alice"].fundingConfirmed[which]
  BY <1>1, <1>2, PartyInv DEF FundingInv
<1>. QED  BY <1>1, <1>3 DEF ClientInv

LEMMA ConfirmTurn ==
    ASSUME NEW r \in Roles, NEW which \in Roles, SInv, Whole, ClientInv,
           ConfirmFunding(r, which)
    PROVE  ClientInv'
<1>1. Standing(r)
  BY ClientsStand
<1>2. /\ \A q \in Roles \ {r} : ss'[q] = ss[q]
      /\ Filled(ss'[r]) /\ ss'[r].state \in {"FUNDING", "EXEC_PREP"}
      /\ ss'[r].fundingConfirmed = [ss[r].fundingConfirmed EXCEPT ![which] = TRUE]
  BY <1>1, ConfirmationEffect DEF ConfirmFunding
<1>3. UNCHANGED clientVars /\ UNCHANGED calls /\ Up(r) /\ chain[Funding(which)] = "mined"
  BY DEF ConfirmFunding, NotifyFundingConfirmed, SessionRest, FundingValid
<1>4. UNCHANGED <<proc, logged, chain, broken>>
  BY <1>3 DEF clientVars
<1>5. SwapTypeOK'
  BY <1>2, <1>4 DEF ClientInv, SwapTypeOK, Aborted
<1>6. ASSUME NEW q \in Roles, NEW of \in Roles, ss'[q].fundingConfirmed[of]
      PROVE  chain'[Funding(of)] = "mined"
  <2>1. DOMAIN ss[r].fundingConfirmed = Roles
    BY PartyInv DEF FundingInv
  <2>2. (q = r /\ of = which) \/ ss[q].fundingConfirmed[of]
    BY <1>2, <1>6, <2>1
  <2>. QED  BY <1>3, <1>4, <2>2 DEF ClientInv
<1>7. \A q \in Roles : proc'[q] = "exit 0" => Passed(ss'[q], "EXEC_TEMPLATES_READY")
  BY <1>2, <1>3, <1>4 DEF ClientInv, Up
<1>8. /\ FundedBeforeSpent' /\ (Sent("tx_A") => chain["tx_B"] = "mined")'
      /\ "announceTxBHash" \in calls'["alice"] => Sent("tx_B")'
      /\ "announceTxAHash" \in calls'["bob"] => Sent("tx_A")'
  BY <1>3, <1>4 DEF ClientInv, FundedBeforeSpent, Sent
<1>. QED  BY <1>5, <1>6, <1>7, <1>8 DEF ClientInv

\* The steps of a client into its session.
LEMMA ClientCallsKeep ==
    ASSUME SInv, Whole, ClientInv,
           \/ \E r \in Roles : OnPeerPayload(r) \/ AnnounceFunding(r) \/ ReadNonces(r)
           \/ AnnounceTxB \/ AnnounceTxA \/ WatchTxAFails
    PROVE  ClientInv'
<1>1. /\ \A r \in Roles : Standing(r)
      /\ calls = [r \in Roles |-> calls[r]] /\ "alice" \in Roles /\ "bob" \in Roles
  BY ClientsStand DEF SInv, Roles
<1>2. ASSUME NEW r \in Roles, OnPeerPayload(r) PROVE ClientInv'
  <2>1. /\ Up(r) /\ OnAbort(r) /\ UNCHANGED <<logged, chain, broken>>
        /\ Turned(r) /\ UNCHANGED calls
    BY <1>1, <1>2, IncomingSteady DEF OnPeerPayload
  <2>. QED  BY <2>1, SessionTurn
<1>3. ASSUME NEW r \in Roles, AnnounceFunding(r) PROVE ClientInv'
  <2>1. /\ Up(r) /\ OnAbort(r) /\ UNCHANGED <<logged, chain, broken>> /\ Turned(r)
        /\ calls' = [calls EXCEPT ![r] = @ \cup {"emitFundingTx"}]
    BY <1>1, <1>3, EmitFundingTxSteady DEF AnnounceFunding, EmitFundingTx, CallOnce
  <2>. QED  BY <1>1, <2>1, SessionTurn
<1>4. ASSUME NEW r \in Roles, ReadNonces(r) PROVE ClientInv'
  <2>1. /\ Up(r) /\ OnAbort(r) /\ UNCHANGED <<logged, chain, broken>> /\ Turned(r)
        /\ calls' = [calls EXCEPT ![r] = @ \cup {"setLocalNonceReport"}]
    BY <1>1, <1>4, OnExecPrepStartedSteady DEF ReadNonces, OnExecPrepStarted, CallOnce
  <2>. QED  BY <1>1, <2>1, SessionTurn
<1>5. ASSUME AnnounceTxB PROVE ClientInv'
  <2>1. /\ Up("alice") /\ OnAbort("alice") /\ UNCHANGED <<logged, chain, broken>>
        /\ Turned("alice") /\ Sent("tx_B")
        /\ calls' = [calls EXCEPT !["alice"] = @ \cup {"announceTxBHash"}]
    BY <1>1, <1>5, AnnounceSteady DEF AnnounceTxB, AnnounceTxBHash, CallOnce, Broadcasting
  <2>. QED  BY <1>1, <2>1, SessionTurn
<1>6. ASSUME AnnounceTxA PROVE ClientInv'
  <2>1. /\ Up("bob") /\ OnAbort("bob") /\ UNCHANGED <<logged, chain, broken>>
        /\ Turned("bob") /\ Sent("tx_A")
        /\ calls' = [calls EXCEPT !["bob"] = @ \cup {"announceTxAHash"}]
    BY <1>1, <1>6, AnnounceSteady DEF AnnounceTxA, AnnounceTxAHash, CallOnce, Broadcasting
  <2>. QED  BY <1>1, <2>1, SessionTurn
<1>7. ASSUME WatchTxAFails PROVE ClientInv'
  <2>1. /\ Up("alice") /\ OnAbort("alice") /\ UNCHANGED <<logged, chain, broken>>
        /\ Turned("alice") /\ calls' = [calls EXCEPT !["alice"] = @ \cup {"abort"}]
    BY <1>1, <1>7, AnnounceSteady DEF WatchTxAFails, AbortOnTxA, CallOnce
  <2>. QED  BY <1>1, <2>1, SessionTurn
<1>. QED  BY <1>2, <1>3, <1>4, <1>5, <1>6, <1>7

\* The steps that start a session or leave it alone.
LEMMA ClientRestKeep ==
    ASSUME SInv, ClientInv,
           \/ \E r \in Roles : \/ Begin(r) \/ TimerFires(r) \/ SendFunding(r)
                               \/ PreparationFails(r) \/ BroadcastThrows(r) \/ OnError(r)
           \/ SendTxB \/ SendTxA \/ \E tx \in Txs : Mine(tx)
           \/ UNCHANGED swapVars
    PROVE  ClientInv'
<1>1. UNCHANGED <<ss, calls>>
  BY DEF Begin, StartHandshake, TimerFires, SendFunding, PreparationFails,
         BroadcastThrows, OnError, SendTxB, SendTxA, Mine, sessionVars, swapVars
<1>2. ClientTypes
  BY ClientShapes DEF ClientInv
<1>3. /\ \A r \in Roles : Funding(r) \in Txs /\ Funding(r) # "tx_B" /\ Funding(r) # "tx_A"
      /\ "tx_A" \in Txs /\ "tx_B" \in Txs
      /\ Sent("tx_A") => chain["tx_B"] = "mined"
      /\ Sent("tx_B") => \A r \in Roles : chain[Funding(r)] = "mined"
      /\ \A r \in Roles : proc[r] = "exit 0" => Passed(ss[r], "EXEC_TEMPLATES_READY")
  BY DEF Funding, Txs, ClientInv, FundedBeforeSpent
<1>4. ASSUME UNCHANGED chain, ClientTypes',
             \A r \in Roles : proc[r] = "exit 1" => proc'[r] = "exit 1",
             \A r \in Roles : proc'[r] = "exit 0" => Passed(ss[r], "EXEC_TEMPLATES_READY")
      PROVE  ClientInv'
  BY <1>1, <1>3, <1>4, ChainTurn DEF Sent
<1>5. ASSUME NEW r \in Roles, Begin(r) PROVE ClientInv'
  BY <1>2, <1>3, <1>4, <1>5 DEF Begin, clientVars, ClientTypes
<1>6. ASSUME NEW r \in Roles, TimerFires(r) PROVE ClientInv'
  <2>1. /\ Up(r) /\ proc' = [proc EXCEPT ![r] = "exit 0"]
        /\ UNCHANGED <<logged, chain, broken>> /\ Passed(ss[r], "EXEC_TEMPLATES_READY")
    BY <1>6, ReachedPassed DEF TimerFires, TimerArmed, Exits
  <2>. QED  BY <1>2, <1>3, <1>4, <2>1 DEF ClientTypes, Up
<1>7. ASSUME NEW r \in Roles, PreparationFails(r) \/ OnError(r) PROVE ClientInv'
  <2>1. /\ Up(r) /\ proc' = [proc EXCEPT ![r] = "exit 1"]
        /\ UNCHANGED <<logged, chain, broken>>
    BY <1>7 DEF PreparationFails, OnError, Exits
  <2>. QED  BY <1>2, <1>3, <1>4, <2>1 DEF ClientTypes, Up
<1>8. ASSUME NEW r \in Roles, BroadcastThrows(r) PROVE ClientInv'
  <2>1. logged' = [logged EXCEPT ![r] = TRUE] /\ UNCHANGED <<proc, chain, broken>>
    BY <1>8 DEF BroadcastThrows
  <2>. QED  BY <1>2, <1>3, <1>4, <2>1 DEF ClientTypes
<1>9. ASSUME NEW tx \in Txs, ~Sent(tx), Submit(tx), UNCHANGED <<proc, logged, broken>>,
             tx = "tx_A" => chain["tx_B"] = "mined",
             tx = "tx_B" => \A r \in Roles : chain[Funding(r)] = "mined"
      PROVE  ClientInv'
  BY <1>1, <1>2, <1>3, <1>9, ChainTurn DEF Submit, Sent, ClientTypes
<1>10. ASSUME NEW r \in Roles, SendFunding(r) PROVE ClientInv'
  BY <1>3, <1>9, <1>10 DEF SendFunding
<1>11. ASSUME SendTxB PROVE ClientInv'
  <2>1. Reached("alice", "EXECUTION_PLANNED")
    BY <1>11 DEF SendTxB, Broadcasting
  <2>. QED  BY <1>3, <1>9, <1>11, <2>1, FundedWhenPlanned DEF SendTxB
<1>12. ASSUME SendTxA PROVE ClientInv'
  BY <1>3, <1>9, <1>12 DEF SendTxA, TxBValid
<1>13. ASSUME NEW tx \in Txs, Mine(tx) PROVE ClientInv'
  <2>1. PICK status \in {"mined", "failed"} : chain' = [chain EXCEPT ![tx] = status]
    BY <1>13 DEF Mine
  <2>2. chain[tx] = "sent" /\ UNCHANGED <<proc, logged, broken>>
    BY <1>13 DEF Mine
  <2>. QED  BY <1>1, <1>2, <1>3, <2>1, <2>2, ChainTurn DEF Sent, ClientTypes
<1>14. ASSUME UNCHANGED swapVars PROVE ClientInv'
  BY <1>2, <1>3, <1>4, <1>14 DEF swapVars, clientVars, ClientTypes
<1>. QED
  BY <1>5, <1>6, <1>7, <1>8, <1>10, <1>11, <1>12, <1>13, <1>14

THEOREM ClientInvariance == SwapSpec => []ClientInv
<1>1. SwapInit => ClientInv
  <2>. SUFFICES ASSUME SwapInit PROVE ClientInv
    OBVIOUS
  <2>1. /\ \A r \in Roles : ss[r] = SessionCreated /\ calls[r] = {}
        /\ \A r \in Roles : proc[r] = "up" /\ logged[r] = FALSE
        /\ \A tx \in Txs : chain[tx] = "none"
        /\ ClientTypes
    BY DEF SwapInit, SessionInit, ClientTypes
  <2>2. /\ SessionCreated.state # "ABORTED"
        /\ \A which \in Roles : ~SessionCreated.fundingConfirmed[which]
    BY DEF SessionCreated
  <2>3. /\ "alice" \in Roles /\ "bob" \in Roles /\ "tx_A" \in Txs /\ "tx_B" \in Txs
    BY DEF Roles, Txs
  <2>. HIDE DEF SessionCreated
  <2>4. SwapTypeOK
    BY <2>1, <2>2, ClientShapes DEF Aborted
  <2>. QED  BY <2>1, <2>2, <2>3, <2>4 DEF ClientInv, FundedBeforeSpent, Sent
<1>2. SInv /\ Whole /\ ClientInv /\ [SwapNext]_swapVars => ClientInv'
  BY ClientCallsKeep, ClientRestKeep, ConfirmTurn DEF SwapNext, ClientStep
<1>. QED  BY <1>1, <1>2, SwapInvariance, PTL DEF SwapSpec

-----------------------------------------------------------------------------
(* What follows *)

\* Every variable has its shape, and no aborted session's client is running.
THEOREM SwapTypes == SwapSpec => []SwapTypeOK
<1>1. ClientInv => SwapTypeOK
  BY DEF ClientInv
<1>. QED  BY <1>1, ClientInvariance, PTL

\* Tx_B is broadcast when both funding transactions are in the chain.
THEOREM FundedFirst == SwapSpec => []FundedBeforeSpent
<1>1. ClientInv => FundedBeforeSpent
  BY DEF ClientInv
<1>. QED  BY <1>1, ClientInvariance, PTL

\* Tx_A follows a mined tx_B, and no hash is announced of an unsent transaction.
THEOREM TxAFollowsTxB == SwapSpec => []TxAAfterTxB
<1>1. SInv /\ ClientInv => TxAAfterTxB
  <2>. SUFFICES ASSUME SInv, ClientInv PROVE TxAAfterTxB
    OBVIOUS
  <2>1. /\ "alice" \in Roles /\ "bob" \in Roles
        /\ Other("alice") = "bob" /\ Other("bob") = "alice"
    BY DEF Roles, Other
  <2>2. ASSUME ss["bob"].peerTxBHash # None PROVE Sent("tx_B")
    <3>1. PICK x : x \in From(ss["bob"], "txB_broadcast", "alice")
      BY <2>1, <2>2, PartyInv DEF BroadcastInv
    <3>2. x \in Range(ss["alice"].post) /\ x.type = "txB_broadcast"
      BY <2>1, <3>1, PeerRecord DEF From
    <3>3. "announceTxBHash" \in calls["alice"]
      BY <2>1, <3>2, PartyInv DEF BroadcastInv
    <3>. QED  BY <3>3 DEF ClientInv
  <2>3. ASSUME ss["alice"].peerTxAHash # None PROVE Sent("tx_A")
    <3>1. PICK x : x \in From(ss["alice"], "txA_broadcast", "bob")
      BY <2>1, <2>3, PartyInv DEF BroadcastInv
    <3>2. x \in Range(ss["bob"].post) /\ x.type = "txA_broadcast"
      BY <2>1, <3>1, PeerRecord DEF From
    <3>3. "announceTxAHash" \in calls["bob"]
      BY <2>1, <3>2, PartyInv DEF BroadcastInv
    <3>. QED  BY <3>3 DEF ClientInv
  <2>. QED  BY <2>2, <2>3 DEF TxAAfterTxB, ClientInv
<1>. QED  BY <1>1, SwapInvariance, ClientInvariance, PTL

\* A process that ended with exit code 0 has a peer that built and accepted the
\* same templates.
THEOREM ExitZeroTemplates == SwapSpec => []ExitZeroMeansTemplates
<1>1. SInv /\ ClientInv => ExitZeroMeansTemplates
  <2>. SUFFICES ASSUME SInv, ClientInv, NEW r \in Roles, proc[r] = "exit 0"
                PROVE  /\ ss[Other(r)].templates = ss[r].templates
                       /\ ss[Other(r)].peerCommitHash # None
    BY DEF ExitZeroMeansTemplates
  <2>1. Passed(ss[r], "EXEC_TEMPLATES_READY") /\ Other(r) \in Roles /\ Other(Other(r)) = r
    BY OtherRole DEF ClientInv
  <2>2. PICK x : x \in From(ss[r], "tx_template_ack", Other(r))
    BY <2>1, PartyInv DEF TemplateInv
  <2>3. x \in From(ss[Other(r)], "tx_template_ack", Other(r))
    BY <2>2, PeerRecord
  <2>4. ss[Other(r)].peerCommitHash # None
    BY <2>1, <2>3, PartyInv DEF TemplateInv
  <2>. QED  BY <2>1, <2>4, TemplatesAgreed
<1>. QED  BY <1>1, SwapInvariance, ClientInvariance, PTL
=============================================================================
