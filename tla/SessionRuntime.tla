--------------------------- MODULE SessionRuntime ---------------------------
(***************************************************************************)
(* packages/protocol/src/sessionRuntime.ts: the session two clients run,   *)
(* from the handshake through key generation, capsules, funding, execution *)
(* templates and adaptor signatures to the announcement of both            *)
(* transactions.  handleIncoming is one action per message and outcome,    *)
(* and every method the client calls is one action.                        *)
(*                                                                         *)
(* A handler is written the way the source runs it: it works on w, the     *)
(* runtime's fields (w.s) and the messages it will return (w.out), and the *)
(* check... functions it ends with are applied to what it leaves.          *)
(*                                                                         *)
(* Abstractions.  Hashes, digests, keys and signatures are the tuples of   *)
(* what they are computed from; a capsule is its target and what is wrong  *)
(* with it; a funding payload is its wallet and whether its value suffices;*)
(* a nonce report is the pair of wallet nonces, the only part compared.    *)
(*                                                                         *)
(* As in HandshakeRuntime, an operator marked "Faulty" is not used.        *)
(***************************************************************************)
EXTENDS HandshakeRuntime

CONSTANTS
    NonceReports,   \* the pairs of wallet nonces a client can read
    FeeChoices,     \* the fee parameters alice can propose
    TxHashes,       \* the transaction hashes a client can announce
    FundingValues,  \* a subset of {"enough", "short"}
    Mutators,       \* what bob's outboundMutator may do, "none" included
    TxAMayFail      \* whether alice may find tx_A reverted or unconfirmed

AllMutators == {"none", "tamperTemplateCommit", "tamperAdaptor"}
CapsuleFlaws == {"params", "yShare", "ct", "proof"}
Legs == {"A", "B"}

\* What the fields of a session hold when they do not hold null.
FundingPayloads == [which : Roles, value : FundingValues]
Digests == Sids \X NonceReports \X FeeChoices
AdaptorSigs == [leg : Legs, draw : Nat, whole : BOOLEAN]

ASSUME SessionAssumption ==
    /\ None \notin NonceReports \cup FeeChoices \cup TxHashes
    /\ None \notin FundingPayloads \cup (Roles \X Sids) \cup Digests
    /\ None \notin (Legs \X Digests) \cup AdaptorSigs
    /\ FundingValues \subseteq {"enough", "short"}
    /\ Mutators \subseteq AllMutators
    /\ TxAMayFail \in BOOLEAN

VARIABLES
    ss,       \* ss[r]: the fields of party r's session runtime
    calls,    \* calls[r]: the methods r's client has called, each at most once
    mutator   \* bob's outboundMutator

sessionVars == <<params, nonce, hs, net, faults, ss, calls, mutator>>

MilestoneOrder == <<"KEYGEN_COMPLETE", "CAPSULES_VERIFIED", "FUNDED", "EXEC_READY",
                    "EXEC_TEMPLATES_READY", "EXECUTION_PLANNED">>
Milestones == Range(MilestoneOrder)

-----------------------------------------------------------------------------
(* Steps the handlers share *)

Work(s) == [s |-> s, out |-> <<>>]

Returns(r, w) ==
    /\ ss' = [ss EXCEPT ![r] = w.s]
    /\ Consume(r, w.out)

\* What a method returns without consuming a message.
Emits(r, w) ==
    /\ ss' = [ss EXCEPT ![r] = w.s]
    /\ net' = [net EXCEPT ![Other(r)] = @ \o w.out]

Enter(w, state) == [w EXCEPT !.s.state = state]

Note(w, m) == [w EXCEPT !.s.post = Append(@, RecordOf(m))]

\* Faulty: what is sent is not recorded.
SendUnrecorded(r, w, type, body) ==
    LET m == Message(r, w.s.postSeq, hs[r].sid, type, body)
    IN  [w EXCEPT !.s.postSeq = @ + 1, !.out = Append(@, m)]

\* Faulty: the number is not counted on.
SendUncounted(r, w, type, body) ==
    LET m == Message(r, w.s.postSeq, hs[r].sid, type, body)
    IN  [Note(w, m) EXCEPT !.out = Append(@, m)]

\* Send a message and record it as sent: a mutated message is recorded mutated.
Send(r, w, type, body) ==
    LET m == Message(r, w.s.postSeq, hs[r].sid, type, body)
    IN  [Note(w, m) EXCEPT !.s.postSeq = @ + 1, !.out = Append(@, m)]

\* emitAbort(): the abort message takes a number and is not recorded.
EmitAbort(r, w, code) ==
    LET m == Message(r, w.s.postSeq, hs[r].sid, "abort", [code |-> code])
    IN  [w EXCEPT !.s.postSeq = @ + 1, !.s.state = "ABORTED",
                  !.out = Append(@, m)]

\* An event that carries the transcript hash: keep the transcript it hashes.
Reach(w, event) == [w EXCEPT !.s.milestones[event] = w.s.post]

-----------------------------------------------------------------------------
(* The check... functions *)

CheckKeygenComplete(r, w) ==
    LET complete == Enter(Reach(w, "KEYGEN_COMPLETE"), "CAPSULES_EXCHANGE")
    IN  Send(r, complete, "capsule_offer", [target |-> Other(r), flaw |-> "none"])

\* Faulty: does not wait for the peer to accept this party's capsule.
CheckCapsuleReceived(w) ==
    IF w.s.capsuleReceived
    THEN Enter(Reach(w, "CAPSULES_VERIFIED"), "FUNDING")
    ELSE w

CheckCapsulesVerified(w) ==
    IF w.s.capsuleReceived /\ w.s.capsuleAcked
    THEN Enter(Reach(w, "CAPSULES_VERIFIED"), "FUNDING")
    ELSE w

\* Faulty: one confirmed funding transaction is enough.
CheckFundingStarted(w) ==
    IF \E which \in Roles : w.s.fundingConfirmed[which] /\ w.s.fundingTx[which] # None
    THEN Enter(Reach(w, "FUNDED"), "EXEC_PREP")
    ELSE w

CheckFundingComplete(w) ==
    IF \A which \in Roles : w.s.fundingConfirmed[which] /\ w.s.fundingTx[which] # None
    THEN Enter(Reach(w, "FUNDED"), "EXEC_PREP")
    ELSE w

\* Both digests are determined by the session, the nonces and the fee.
TemplatesOf(r, s) == <<hs[r].sid, s.localNonces, s.feeParams>>

CommitBody(r, digests) ==
    [digests |-> IF r = "bob" /\ mutator = "tamperTemplateCommit"
                 THEN <<"mutated", digests>> ELSE digests,
     commitHash |-> digests]

\* Faulty: the two nonce reports are not compared.
CheckExecReadyUncompared(r, w) ==
    IF \/ w.s.localNonces = None \/ w.s.peerNonces = None
       \/ w.s.feeParams = None \/ ~w.s.feeAcked
    THEN w
    ELSE LET digests == TemplatesOf(r, w.s)
             ready == [Reach(w, "EXEC_READY") EXCEPT !.s.templates = digests]
             sent == Send(r, ready, "tx_template_commit", CommitBody(r, digests))
         IN  Enter(sent, "EXEC_TEMPLATES_SYNC")

CheckExecReady(r, w) ==
    IF w.s.localNonces = None \/ w.s.peerNonces = None THEN w
    ELSE IF w.s.localNonces # w.s.peerNonces THEN EmitAbort(r, w, "PROTOCOL_ERROR")
    ELSE IF w.s.feeParams = None \/ ~w.s.feeAcked THEN w
    ELSE LET digests == TemplatesOf(r, w.s)
             ready == [Reach(w, "EXEC_READY") EXCEPT !.s.templates = digests]
             sent == Send(r, ready, "tx_template_commit", CommitBody(r, digests))
         IN  Enter(sent, "EXEC_TEMPLATES_SYNC")

\* Alice opens both legs, B first.
AdaptorT(leg, digests) == <<leg, digests>>

StartLeg(r, w, leg) ==
    LET T == AdaptorT(leg, w.s.templates)
    IN  Send(r, [w EXCEPT !.s.legs[leg].T = T], "adaptor_start",
             [which |-> leg, digests |-> w.s.templates, T |-> T])

\* Faulty: does not wait for the peer to accept this party's commit.
CheckTemplatesHeard(r, w) ==
    IF w.s.peerCommitHash = None THEN w
    ELSE LET ready == Enter(Reach(w, "EXEC_TEMPLATES_READY"), "ADAPTOR_NEGOTIATING")
         IN  IF r = "alice" THEN StartLeg(r, StartLeg(r, ready, "B"), "A") ELSE ready

\* Faulty: alice opens leg B only.
CheckTemplatesReadyOneLeg(r, w) ==
    IF w.s.peerCommitHash = None \/ ~w.s.localCommitAcked THEN w
    ELSE LET ready == Enter(Reach(w, "EXEC_TEMPLATES_READY"), "ADAPTOR_NEGOTIATING")
         IN  IF r = "alice" THEN StartLeg(r, ready, "B") ELSE ready

CheckTemplatesReady(r, w) ==
    IF w.s.peerCommitHash = None \/ ~w.s.localCommitAcked THEN w
    ELSE LET ready == Enter(Reach(w, "EXEC_TEMPLATES_READY"), "ADAPTOR_NEGOTIATING")
         IN  IF r = "alice" THEN StartLeg(r, StartLeg(r, ready, "B"), "A") ELSE ready

Planned(w) == Enter(Reach(w, "EXECUTION_PLANNED"), "EXECUTION_PLANNED")

-----------------------------------------------------------------------------
(* handleIncoming: the handshake phase *)

StartHandshake(r) ==
    /\ Start(r)
    /\ UNCHANGED <<ss, calls, mutator>>

\* Faulty: the next message uses the announcement's number again.
AfterLockUncounted(r, s, sid) ==
    [s EXCEPT !.state = "KEYGEN",
              !.post = Append(@, RecordOf(OnLock(r, sid)[1]))]

\* The session's fields once its handshake has locked: handleLock has made the
\* announcement that OnLock sends.
AfterLock(r, s, sid) ==
    [s EXCEPT !.state = "KEYGEN", !.postSeq = @ + 1,
              !.post = Append(@, RecordOf(OnLock(r, sid)[1]))]

RcvHandshake(r) ==
    /\ ss[r].state = "HANDSHAKE"
    /\ net[r] # <<>> /\ Head(net[r]).type # "malformed"
    /\ HandleIncoming(r)
    /\ ss' = [ss EXCEPT ![r] =
           CASE hs'[r].state = "LOCKED"  -> AfterLock(r, @, hs'[r].sid)
             [] hs'[r].state = "ABORTED" -> [@ EXCEPT !.state = "ABORTED"]
             [] OTHER                    -> @]
    /\ UNCHANGED <<calls, mutator>>

-----------------------------------------------------------------------------
(* handleIncoming: what every later message meets first *)

SessionRest == <<params, nonce, hs, faults, calls, mutator>>

\* The state whose handler takes a message of this type.
StageOf ==
    [keygen_announce    |-> "KEYGEN",
     capsule_offer      |-> "CAPSULES_EXCHANGE",
     capsule_ack        |-> "CAPSULES_EXCHANGE",
     funding_tx         |-> "FUNDING",
     nonce_report       |-> "EXEC_PREP",
     fee_params         |-> "EXEC_PREP",
     fee_params_ack     |-> "EXEC_PREP",
     tx_template_commit |-> "EXEC_TEMPLATES_SYNC",
     tx_template_ack    |-> "EXEC_TEMPLATES_SYNC",
     adaptor_start      |-> "ADAPTOR_NEGOTIATING",
     adaptor_resp       |-> "ADAPTOR_NEGOTIATING",
     adaptor_ack        |-> "ADAPTOR_NEGOTIATING",
     txB_broadcast      |-> "EXECUTION_PLANNED",
     txA_broadcast      |-> "EXECUTION_PLANNED"]

SessionOpen(r) == ss[r].state \notin {"HANDSHAKE", "ABORTED"}

\* A repeated announcement is compared before the two late states look at its
\* sid and number; the last state looks at neither for any message.
Validates(r, m) ==
    /\ ss[r].state # "EXECUTION_PLANNED"
    /\ m.type = "keygen_announce" =>
          ss[r].state \notin {"EXEC_TEMPLATES_SYNC", "ADAPTOR_NEGOTIATING"}

\* Faulty: the peer's first number is refused.
InOrderAfterFirst(r, m) == m.seq > FirstPostSeq /\ m.seq >= ss[r].lastPostSeq

\* Faulty: a resend is out of order.
InOrderStrictly(r, m) == m.seq >= FirstPostSeq /\ m.seq > ss[r].lastPostSeq

InOrder(r, m) == m.seq >= FirstPostSeq /\ m.seq >= ss[r].lastPostSeq

Valid(r, m) == Validates(r, m) => m.sid = hs[r].sid /\ InOrder(r, m)

Heard(r, m) ==
    Work(IF Validates(r, m) THEN [ss[r] EXCEPT !.lastPostSeq = m.seq] ELSE ss[r])

Takes(r, type) ==
    /\ net[r] # <<>> /\ Head(net[r]).type = type
    /\ ss[r].state = StageOf[type]
    /\ Valid(r, Head(net[r]))

RcvAborted(r) ==
    /\ ss[r].state = "ABORTED"
    /\ net[r] # <<>>
    /\ Returns(r, Work(ss[r]))
    /\ UNCHANGED SessionRest

RcvUnparsable(r) ==
    /\ ss[r].state # "ABORTED"
    /\ net[r] # <<>> /\ Head(net[r]).type = "malformed"
    /\ Returns(r, EmitAbort(r, Work(ss[r]), "BAD_MESSAGE"))
    /\ UNCHANGED SessionRest

\* A peer that aborts outside this session only causes an event.
RcvForeignSid(r) ==
    /\ SessionOpen(r)
    /\ net[r] # <<>> /\ Head(net[r]).type # "malformed"
    /\ LET m == Head(net[r])
       IN  /\ Validates(r, m) /\ m.sid # hs[r].sid
           /\ Returns(r, IF m.type = "abort" THEN Work(ss[r])
                         ELSE EmitAbort(r, Work(ss[r]), "SID_MISMATCH"))
    /\ UNCHANGED SessionRest

\* An equal number is let through: a resend is for the handlers to recognise.
RcvOutOfOrder(r) ==
    /\ SessionOpen(r)
    /\ net[r] # <<>> /\ Head(net[r]).type # "malformed"
    /\ LET m == Head(net[r])
       IN  /\ Validates(r, m) /\ m.sid = hs[r].sid /\ ~InOrder(r, m)
           /\ Returns(r, EmitAbort(r, Work(ss[r]), "BAD_MESSAGE"))
    /\ UNCHANGED SessionRest

\* A message no handler of this state takes changes at most the last number
\* heard, the peer's abort included.
RcvUnused(r) ==
    /\ SessionOpen(r)
    /\ net[r] # <<>> /\ Head(net[r]).type # "malformed"
    /\ LET m == Head(net[r])
           w == Heard(r, m)
       IN  /\ Valid(r, m)
           /\ m.type \in DOMAIN StageOf => StageOf[m.type] # ss[r].state
           /\ Returns(r, IF m.type = "keygen_announce" /\ w.s.peerMpc # m.body.keyOf
                         THEN EmitAbort(r, w, "PROTOCOL_ERROR") ELSE w)
    /\ UNCHANGED SessionRest

-----------------------------------------------------------------------------
(* handleIncoming: one action per message *)

\* Keep a payload that is new, let a repeated one pass, refuse another one.
Keep(r, w, stored, received, kept) ==
    IF stored = None THEN kept
    ELSE IF stored = received THEN w
    ELSE EmitAbort(r, w, "PROTOCOL_ERROR")

RcvKeygenAnnounce(r) ==
    /\ Takes(r, "keygen_announce")
    /\ LET m == Head(net[r])
           w == Heard(r, m)
           kept == Note([w EXCEPT !.s.peerMpc = m.body.keyOf], m)
       IN  Returns(r, Keep(r, w, w.s.peerMpc, m.body.keyOf,
                           CheckKeygenComplete(r, kept)))
    /\ UNCHANGED SessionRest

\* Faulty: a resent offer is recorded again.
AcceptOfferAgain(r, w, m) ==
    IF w.s.capsuleReceived THEN Note(w, m)
    ELSE LET kept == Note([w EXCEPT !.s.capsuleReceived = TRUE], m)
         IN  CheckCapsulesVerified(
                 Send(r, kept, "capsule_ack", [target |-> r, ok |-> TRUE]))

AcceptOffer(r, w, m) ==
    IF w.s.capsuleReceived THEN w
    ELSE LET kept == Note([w EXCEPT !.s.capsuleReceived = TRUE], m)
         IN  CheckCapsulesVerified(
                 Send(r, kept, "capsule_ack", [target |-> r, ok |-> TRUE]))

\* A bad ciphertext is refused with a capsule_ack, the other flaws by aborting.
RcvCapsuleOffer(r) ==
    /\ Takes(r, "capsule_offer")
    /\ LET m == Head(net[r])
           w == Heard(r, m)
       IN  Returns(r,
             IF m.body.target # r \/ m.body.flaw \in {"params", "yShare", "proof"}
             THEN EmitAbort(r, w, "PROTOCOL_ERROR")
             ELSE IF m.body.flaw = "ct"
             THEN Enter(Send(r, w, "capsule_ack", [target |-> r, ok |-> FALSE]),
                        "ABORTED")
             ELSE AcceptOffer(r, w, m))
    /\ UNCHANGED SessionRest

RcvCapsuleAck(r) ==
    /\ Takes(r, "capsule_ack")
    /\ LET m == Head(net[r])
           w == Heard(r, m)
       IN  Returns(r,
             IF m.body.target # Other(r) THEN w
             ELSE IF ~m.body.ok THEN EmitAbort(r, w, "PROTOCOL_ERROR")
             ELSE IF w.s.capsuleAcked THEN w
             ELSE CheckCapsulesVerified(Note([w EXCEPT !.s.capsuleAcked = TRUE], m)))
    /\ UNCHANGED SessionRest

RcvFundingTx(r) ==
    /\ Takes(r, "funding_tx")
    /\ LET m == Head(net[r])
           w == Heard(r, m)
           which == m.body.which
           kept == Note([w EXCEPT !.s.fundingTx[which] = m.body], m)
       IN  Returns(r,
             IF which # m.from \/ m.body.value = "short"
             THEN EmitAbort(r, w, "PROTOCOL_ERROR")
             ELSE Keep(r, w, w.s.fundingTx[which], m.body, CheckFundingComplete(kept)))
    /\ UNCHANGED SessionRest

\* Faulty: only the local report is followed by the comparison.
RcvNonceReportUnchecked(r) ==
    /\ Takes(r, "nonce_report")
    /\ LET m == Head(net[r])
           w == Heard(r, m)
           kept == Note([w EXCEPT !.s.peerNonces = m.body.nonces], m)
       IN  Returns(r, Keep(r, w, w.s.peerNonces, m.body.nonces, kept))
    /\ UNCHANGED SessionRest

RcvNonceReport(r) ==
    /\ Takes(r, "nonce_report")
    /\ LET m == Head(net[r])
           w == Heard(r, m)
           kept == Note([w EXCEPT !.s.peerNonces = m.body.nonces], m)
       IN  Returns(r, Keep(r, w, w.s.peerNonces, m.body.nonces, CheckExecReady(r, kept)))
    /\ UNCHANGED SessionRest

RcvFeeParams(r) ==
    /\ Takes(r, "fee_params")
    /\ LET m == Head(net[r])
           w == Heard(r, m)
           kept == Note([w EXCEPT !.s.feeParams = m.body.fee], m)
           sent == Send(r, kept, "fee_params_ack", [feeHash |-> m.body.fee])
           acked == [sent EXCEPT !.s.feeAcked = TRUE]
       IN  Returns(r,
             IF r # "bob" THEN EmitAbort(r, w, "PROTOCOL_ERROR")
             ELSE Keep(r, w, w.s.feeParams, m.body.fee, CheckExecReady(r, acked)))
    /\ UNCHANGED SessionRest

RcvFeeParamsAck(r) ==
    /\ Takes(r, "fee_params_ack")
    /\ LET m == Head(net[r])
           w == Heard(r, m)
           acked == Note([w EXCEPT !.s.feeAcked = TRUE], m)
       IN  Returns(r,
             IF r # "alice" \/ w.s.feeParams = None \/ m.body.feeHash # w.s.feeParams
             THEN EmitAbort(r, w, "PROTOCOL_ERROR")
             ELSE IF w.s.feeAcked THEN w
             ELSE CheckExecReady(r, acked))
    /\ UNCHANGED SessionRest

RcvTemplateCommit(r) ==
    /\ Takes(r, "tx_template_commit")
    /\ LET m == Head(net[r])
           w == Heard(r, m)
           kept == Note([w EXCEPT !.s.peerCommitHash = m.body.commitHash], m)
           sent == Send(r, kept, "tx_template_ack", [commitHash |-> m.body.commitHash])
       IN  Returns(r,
             IF m.body.commitHash # m.body.digests
             THEN EmitAbort(r, w, "BAD_MESSAGE")
             ELSE IF m.body.digests # w.s.templates
             THEN EmitAbort(r, w, "PROTOCOL_ERROR")
             ELSE Keep(r, w, w.s.peerCommitHash, m.body.commitHash,
                       CheckTemplatesReady(r, sent)))
    /\ UNCHANGED SessionRest

RcvTemplateAck(r) ==
    /\ Takes(r, "tx_template_ack")
    /\ LET m == Head(net[r])
           w == Heard(r, m)
           acked == Note([w EXCEPT !.s.localCommitAcked = TRUE], m)
       IN  Returns(r,
             IF m.body.commitHash # w.s.templates THEN EmitAbort(r, w, "PROTOCOL_ERROR")
             ELSE IF w.s.localCommitAcked THEN w
             ELSE CheckTemplatesReady(r, acked))
    /\ UNCHANGED SessionRest

\* presignRespond draws its secret and salt afresh, so a signature is known by
\* the number of the message that carried it.  tamperAdaptor cuts it short.
AdaptorSig(leg, draw) == [leg |-> leg, draw |-> draw, whole |-> TRUE]

RespBody(start, sig) ==
    [which |-> start.which, digests |-> start.digests, T |-> start.T,
     sig |-> IF mutator = "tamperAdaptor" THEN [sig EXCEPT !.whole = FALSE] ELSE sig]

\* Faulty: a resent start is signed afresh.
NeverAnswered(leg) == FALSE

Answered(leg) == leg.T # None /\ leg.adaptorSig # None

RcvAdaptorStart(r) ==
    /\ Takes(r, "adaptor_start")
    /\ LET m == Head(net[r])
           w == Heard(r, m)
           leg == w.s.legs[m.body.which]
           sig == AdaptorSig(m.body.which, w.s.postSeq)
           kept == Note([w EXCEPT !.s.legs[m.body.which].T = m.body.T,
                                  !.s.legs[m.body.which].adaptorSig = sig], m)
       IN  Returns(r,
             IF \/ r # "bob" \/ m.body.digests # w.s.templates
                \/ leg.T # None /\ leg.T # m.body.T
             THEN EmitAbort(r, w, "PROTOCOL_ERROR")
             ELSE IF Answered(leg) THEN w
             ELSE Send(r, kept, "adaptor_resp", RespBody(m.body, sig)))
    /\ UNCHANGED SessionRest

\* Alice is done with a leg when she holds bob's signature, bob when he knows.
LegDone(r, leg) == IF r = "alice" THEN leg.adaptorSig # None ELSE leg.acked

\* Faulty: one leg is enough.
OneLeg(r, w) == \E leg \in Legs : LegDone(r, w.s.legs[leg])

BothLegs(r, w) == \A leg \in Legs : LegDone(r, w.s.legs[leg])

RcvAdaptorResp(r) ==
    /\ Takes(r, "adaptor_resp")
    /\ LET m == Head(net[r])
           w == Heard(r, m)
           leg == w.s.legs[m.body.which]
           kept == Note([w EXCEPT !.s.legs[m.body.which].T = m.body.T,
                                  !.s.legs[m.body.which].adaptorSig = m.body.sig], m)
           sent == Send(r, kept, "adaptor_ack",
                        [which |-> m.body.which, digests |-> m.body.digests,
                         T |-> m.body.T])
           acked == [sent EXCEPT !.s.legs[m.body.which].acked = TRUE]
       IN  Returns(r,
             IF \/ r # "alice" \/ m.body.digests # w.s.templates
                \/ leg.T # None /\ leg.T # m.body.T
                \/ ~m.body.sig.whole
             THEN EmitAbort(r, w, "PROTOCOL_ERROR")
             ELSE IF leg.adaptorSig # None THEN w
             ELSE IF BothLegs(r, acked) THEN Planned(acked)
             ELSE acked)
    /\ UNCHANGED SessionRest

RcvAdaptorAck(r) ==
    /\ Takes(r, "adaptor_ack")
    /\ LET m == Head(net[r])
           w == Heard(r, m)
           leg == w.s.legs[m.body.which]
           acked == Note([w EXCEPT !.s.legs[m.body.which].acked = TRUE], m)
       IN  Returns(r,
             IF r # "bob" \/ m.body.digests # w.s.templates \/ m.body.T # leg.T
             THEN EmitAbort(r, w, "PROTOCOL_ERROR")
             ELSE IF leg.acked THEN w
             ELSE IF BothLegs(r, acked) THEN Planned(acked)
             ELSE acked)
    /\ UNCHANGED SessionRest

RcvTxBBroadcast(r) ==
    /\ Takes(r, "txB_broadcast")
    /\ LET m == Head(net[r])
           w == Heard(r, m)
           kept == Note([w EXCEPT !.s.peerTxBHash = m.body.txHash], m)
       IN  Returns(r, IF r # "bob" THEN EmitAbort(r, w, "PROTOCOL_ERROR")
                      ELSE Keep(r, w, w.s.peerTxBHash, m.body.txHash, kept))
    /\ UNCHANGED SessionRest

RcvTxABroadcast(r) ==
    /\ Takes(r, "txA_broadcast")
    /\ LET m == Head(net[r])
           w == Heard(r, m)
           kept == Note([w EXCEPT !.s.peerTxAHash = m.body.txHash], m)
       IN  Returns(r, IF r # "alice" THEN EmitAbort(r, w, "PROTOCOL_ERROR")
                      ELSE Keep(r, w, w.s.peerTxAHash, m.body.txHash, kept))
    /\ UNCHANGED SessionRest

SessionIncoming(r) ==
    \/ RcvHandshake(r) \/ RcvAborted(r) \/ RcvUnparsable(r) \/ RcvForeignSid(r)
    \/ RcvOutOfOrder(r) \/ RcvUnused(r)
    \/ RcvKeygenAnnounce(r)
    \/ RcvCapsuleOffer(r) \/ RcvCapsuleAck(r)
    \/ RcvFundingTx(r)
    \/ RcvNonceReport(r) \/ RcvFeeParams(r) \/ RcvFeeParamsAck(r)
    \/ RcvTemplateCommit(r) \/ RcvTemplateAck(r)
    \/ RcvAdaptorStart(r) \/ RcvAdaptorResp(r) \/ RcvAdaptorAck(r)
    \/ RcvTxBBroadcast(r) \/ RcvTxABroadcast(r)

-----------------------------------------------------------------------------
(* The methods a client calls, each from the callback of the event that      *)
(* allows it and once.  The call may come late: an abort may come first.     *)

CallOnce(r, method) ==
    /\ method \notin calls[r]
    /\ calls' = [calls EXCEPT ![r] = @ \cup {method}]
    /\ UNCHANGED <<params, nonce, hs, faults, mutator>>

\* No event finds the transcript empty: this party's announcement comes first.
Reached(r, event) == ss[r].milestones[event] # <<>>

\* A method called outside its state aborts the session.
InState(r, state, before, after) ==
    IF before.s.state = state THEN after ELSE EmitAbort(r, before, "PROTOCOL_ERROR")

EmitFundingTx(r) ==
    /\ CallOnce(r, "emitFundingTx") /\ Reached(r, "CAPSULES_VERIFIED")
    /\ \E value \in FundingValues :
          LET body == [which |-> r, value |-> value]
              kept == [Work(ss[r]) EXCEPT !.s.fundingTx[r] = body]
          IN  Emits(r, InState(r, "FUNDING", Work(ss[r]),
                  CheckFundingComplete(Send(r, kept, "funding_tx", body))))

\* The chain confirms a funding transaction this party sent or was told of;
\* only a call that finds the state FUNDING does anything.
NotifyFundingConfirmed(r, which) ==
    /\ ss[r].state = "FUNDING"
    /\ ss[r].fundingTx[which] # None /\ ~ss[r].fundingConfirmed[which]
    /\ Emits(r, CheckFundingComplete(
           [Work(ss[r]) EXCEPT !.s.fundingConfirmed[which] = TRUE]))
    /\ UNCHANGED SessionRest

SetLocalNonceReport(r, w, nonces) ==
    LET kept == [w EXCEPT !.s.localNonces = nonces]
        sent == Send(r, kept, "nonce_report", [nonces |-> nonces])
    IN  InState(r, "EXEC_PREP", w,
            Keep(r, w, w.s.localNonces, nonces, CheckExecReady(r, sent)))

ProposeFeeParams(w, fee) ==
    LET kept == [w EXCEPT !.s.feeParams = fee]
        sent == Send("alice", kept, "fee_params", [fee |-> fee])
    IN  InState("alice", "EXEC_PREP", w,
            Keep("alice", w, w.s.feeParams, fee, sent))

\* With the nonces read, a client reports them and alice at once proposes the
\* fee, unless the report made the session abort.
OnExecPrepStarted(r) ==
    /\ CallOnce(r, "setLocalNonceReport") /\ Reached(r, "FUNDED")
    /\ \E nonces \in NonceReports, fee \in FeeChoices :
          LET reported == SetLocalNonceReport(r, Work(ss[r]), nonces)
          IN  Emits(r, IF r = "alice" /\ reported.s.state # "ABORTED"
                       THEN ProposeFeeParams(reported, fee) ELSE reported)

AnnounceTxBHash ==
    /\ CallOnce("alice", "announceTxBHash") /\ Reached("alice", "EXECUTION_PLANNED")
    /\ \E hash \in TxHashes :
          Emits("alice", InState("alice", "EXECUTION_PLANNED", Work(ss["alice"]),
              Send("alice", Work(ss["alice"]), "txB_broadcast", [txHash |-> hash])))

AnnounceTxAHash ==
    /\ CallOnce("bob", "announceTxAHash") /\ ss["bob"].peerTxBHash # None
    /\ \E hash \in TxHashes :
          Emits("bob", InState("bob", "EXECUTION_PLANNED", Work(ss["bob"]),
              Send("bob", Work(ss["bob"]), "txA_broadcast", [txHash |-> hash])))

\* Alice aborts when the tx_A she was told of reverts or is not confirmed.
AbortOnTxA ==
    /\ TxAMayFail /\ ss["alice"].peerTxAHash # None
    /\ CallOnce("alice", "abort")
    /\ Emits("alice", EmitAbort("alice", Work(ss["alice"]), "PROTOCOL_ERROR"))

ClientCalls(r) ==
    \/ EmitFundingTx(r)
    \/ \E which \in Roles : NotifyFundingConfirmed(r, which)
    \/ OnExecPrepStarted(r)
    \/ r = "alice" /\ (AnnounceTxBHash \/ AbortOnTxA)
    \/ r = "bob" /\ AnnounceTxAHash

-----------------------------------------------------------------------------
(* The network and the specification *)

SessionNetwork == Network /\ UNCHANGED <<ss, calls, mutator>>

\* A capsule_offer arrives with one of the flaws the receiver looks for.
TamperCapsule(r) ==
    /\ MayFail("tamper")
    /\ \E i \in DOMAIN net[r], flaw \in CapsuleFlaws :
          /\ net[r][i].type = "capsule_offer"
          /\ net' = [net EXCEPT ![r][i].body.flaw = flaw]
    /\ UNCHANGED <<ss, calls, mutator>>

SessionCreated ==
    [state |-> "HANDSHAKE", postSeq |-> FirstPostSeq, lastPostSeq |-> -1, post |-> <<>>,
     peerMpc |-> None, capsuleReceived |-> FALSE, capsuleAcked |-> FALSE,
     fundingTx |-> [which \in Roles |-> None],
     fundingConfirmed |-> [which \in Roles |-> FALSE],
     localNonces |-> None, peerNonces |-> None, feeParams |-> None, feeAcked |-> FALSE,
     templates |-> None, peerCommitHash |-> None, localCommitAcked |-> FALSE,
     legs |-> [leg \in Legs |-> [T |-> None, adaptorSig |-> None, acked |-> FALSE]],
     peerTxBHash |-> None, peerTxAHash |-> None,
     milestones |-> [event \in Milestones |-> <<>>]]

SessionInit ==
    /\ Init
    /\ ss = [r \in Roles |-> SessionCreated]
    /\ calls = [r \in Roles |-> {}]
    /\ mutator \in Mutators

SessionNext ==
    \/ \E r \in Roles : StartHandshake(r) \/ SessionIncoming(r) \/ ClientCalls(r)
    \/ SessionNetwork
    \/ \E r \in Roles : TamperCapsule(r)

SessionSpec == SessionInit /\ [][SessionNext]_sessionVars

\* A socket delivers what it holds, the handshake is started, and a client
\* with autoFund and autoBroadcast makes its calls; nobody owes an abort.
SessionFairSpec ==
    /\ SessionSpec
    /\ \A r \in Roles :
          /\ WF_sessionVars(StartHandshake(r))
          /\ WF_sessionVars(SessionIncoming(r))
          /\ WF_sessionVars(EmitFundingTx(r))
          /\ \A which \in Roles : WF_sessionVars(NotifyFundingConfirmed(r, which))
          /\ WF_sessionVars(OnExecPrepStarted(r))
    /\ WF_sessionVars(AnnounceTxBHash)
    /\ WF_sessionVars(AnnounceTxAHash)

-----------------------------------------------------------------------------
(* Properties *)

Aborted(r) == ss[r].state = "ABORTED"

\* Every field of a session has the shape the source gives it. As long as the
\* handshake is not over the session is in it or has aborted; it opens exactly with
\* a lock, with numbers that continue after the announcement, and an abort of the
\* handshake is one of the session.
SessionTypeOK ==
    /\ mutator \in Mutators
    /\ \A r \in Roles :
          LET s == ss[r]
          IN  /\ DOMAIN s = DOMAIN SessionCreated
              /\ s.state \in {"HANDSHAKE", "ABORTED"} \cup {StageOf[t] : t \in DOMAIN StageOf}
              /\ s.postSeq \in Nat /\ s.lastPostSeq \in Nat \cup {-1}
              /\ s.post \in Seq(Range(s.post))
              /\ \A x \in Range(s.post) :
                    x.type \in DOMAIN StageOf /\ x.from \in Roles /\ x.seq \in Nat
              /\ DOMAIN s.milestones = Milestones
              /\ \A event \in Milestones : s.milestones[event] \in Seq(Range(s.post))
              /\ s.peerMpc \in {None, <<Other(r), hs[r].sid>>}
              /\ {s.capsuleReceived, s.capsuleAcked, s.feeAcked, s.localCommitAcked}
                     \subseteq BOOLEAN
              /\ s.fundingTx \in [Roles -> FundingPayloads \cup {None}]
              /\ s.fundingConfirmed \in [Roles -> BOOLEAN]
              /\ {s.localNonces, s.peerNonces} \subseteq NonceReports \cup {None}
              /\ s.feeParams \in FeeChoices \cup {None}
              /\ {s.templates, s.peerCommitHash} \subseteq Digests \cup {None}
              /\ DOMAIN s.legs = Legs
              /\ \A leg \in Legs :
                    /\ DOMAIN s.legs[leg] = {"T", "adaptorSig", "acked"}
                    /\ s.legs[leg].T \in (Legs \X Digests) \cup {None}
                    /\ s.legs[leg].adaptorSig \in AdaptorSigs \cup {None}
                    /\ s.legs[leg].acked \in BOOLEAN
              /\ {s.peerTxBHash, s.peerTxAHash} \subseteq TxHashes \cup {None}
              /\ SessionOpen(r) => Locked(r) /\ s.postSeq > FirstPostSeq
              /\ s.state = "HANDSHAKE" => hs[r].state \notin {"LOCKED", "ABORTED"}

\* Whenever both parties have emitted the same milestone event, the transcript
\* hashes the two events carried are equal, whatever order each of them sent
\* and received in and whatever the network did in between.
MilestoneAgreement ==
    \A event \in Milestones :
        (\A r \in Roles : Reached(r, event)) =>
            TranscriptHash(ss["alice"].milestones[event]) =
            TranscriptHash(ss["bob"].milestones[event])

\* Where a hash is taken no two records have one sort key: the sort by sender,
\* number and type has no ties, whose order would be that of the arrivals.
SortHasNoTies ==
    \A r \in Roles, event \in Milestones :
        Reached(r, event) =>
            LET post == ss[r].milestones[event]
            IN  \A i, j \in DOMAIN post :
                    /\ post[i].from = post[j].from
                    /\ post[i].seq = post[j].seq
                    /\ post[i].type = post[j].type
                    => i = j

Phase(r) == Cardinality({event \in Milestones : Reached(r, event)})

\* No party gets ahead of the other by more than one milestone: each one waits
\* for a message the peer sends only after the one before.
PhaseLag == Phase("alice") - Phase("bob") \in -1 .. 1

\* Two funded parties agree on both funding transactions, and each of the two
\* moves at least the agreed value.
FundingAgreement ==
    (\A r \in Roles : Reached(r, "FUNDED")) =>
        /\ ss["alice"].fundingTx = ss["bob"].fundingTx
        /\ \A which \in Roles :
              LET tx == ss["alice"].fundingTx[which] IN tx # None /\ tx.value = "enough"

\* Ready to execute, a party has the peer's nonces and fee; ready with its
\* templates, it has a peer that built the same ones and accepted its commit.
TemplateAgreement ==
    \A r \in Roles : LET peer == ss[Other(r)] IN
        /\ Reached(r, "EXEC_READY") =>
              peer.localNonces = ss[r].localNonces /\ peer.feeParams = ss[r].feeParams
        /\ Reached(r, "EXEC_TEMPLATES_READY") =>
              peer.templates = ss[r].templates /\ peer.peerCommitHash = ss[r].templates

\* When alice plans to broadcast, she holds the very adaptor signatures bob
\* made, for the T she chose, on both legs; and bob plans only after her.
AdaptorAgreement ==
    /\ Reached("alice", "EXECUTION_PLANNED") =>
          \A leg \in Legs :
              LET a == ss["alice"].legs[leg]
                  b == ss["bob"].legs[leg]
              IN  a.adaptorSig # None /\ a.adaptorSig = b.adaptorSig /\ a.T = b.T
    /\ Reached("bob", "EXECUTION_PLANNED") => Reached("alice", "EXECUTION_PLANNED")

\* The parties, as far as they have committed themselves, play by the protocol
\* over a network that has not failed.
Honest ==
    /\ faults = 0 /\ mutator = "none"
    /\ params["alice"] = params["bob"]
    /\ "abort" \notin calls["alice"]
    /\ \A r \in Roles : ss[r].fundingTx[r] # None => ss[r].fundingTx[r].value = "enough"
    /\ (\A r \in Roles : ss[r].localNonces # None) =>
          ss["alice"].localNonces = ss["bob"].localNonces

\* Two honest parties never abort, however their messages and their clients'
\* calls interleave.
HonestNeverAborts ==
    Honest => \A r \in Roles : ~Aborted(r) /\ hs[r].state # "ABORTED"

\* Without network faults a message is dropped for arriving before its state in
\* one place only: a peer that finishes funding first is not heard while this
\* party still is in FUNDING, and then its commit is not either.
NoOtherEarlyDrop ==
    [][\A r \in Roles :
          LET m == Head(net[r])
          IN  faults = 0 /\ RcvUnused(r) /\ m.type # "abort" =>
                 \/ ss[r].state = "FUNDING" /\ m.type \in {"nonce_report", "fee_params"}
                 \/ ss[r].state = "EXEC_PREP" /\ m.type = "tx_template_commit"
                    /\ ss[r].peerNonces = None]_sessionVars

\* A message that was accepted once and comes again with the last number heard
\* changes nothing: no field, no transcript, no answer, no abort.
ResendIgnored ==
    [][\A r \in Roles :
          LET m == Head(net[r])
          IN  /\ net[r] # <<>> /\ net'[r] = Tail(net[r]) /\ faults' = faults
              /\ SessionOpen(r) /\ m.type # "malformed"
              /\ RecordOf(m) \in Range(ss[r].post)
              /\ m.seq >= ss[r].lastPostSeq
              => ss'[r] = ss[r] /\ net'[Other(r)] = net[Other(r)]]_sessionVars

\* A peer's nonce report or fee proposal is gone: sent, not in flight, and not
\* in this party's transcript.
Missed(r) ==
    \E x \in Range(ss[Other(r)].post) :
        /\ x.type \in {"nonce_report", "fee_params"} /\ x.from = Other(r)
        /\ x \notin Range(ss[r].post)
        /\ \A i \in DOMAIN net[r] : RecordOf(net[r][i]) # x

\* README.md, line 243, "Both abort with Nonce mismatch": two parties that have
\* reported different nonces both abort, unless one missed the other's report.
MismatchAborts ==
    /\ \A r \in Roles : ss[r].localNonces # None
    /\ ss["alice"].localNonces # ss["bob"].localNonces
    ~> \/ \A r \in Roles : Aborted(r)
       \/ \E r \in Roles : Missed(r)

\* Two honest parties that both sent a hello end up with both transactions
\* announced, unless one of them missed what the other sent at the end of
\* funding.
HonestCompletes ==
    (\A r \in Roles : HelloSent(r)) ~>
        \/ ss["alice"].peerTxAHash # None
        \/ \E r \in Roles : Missed(r)
        \/ ~Honest

-----------------------------------------------------------------------------
(* The abstract specification this module implements *)

\* The transcripts of the milestones a party has reached, in their order.
MilestoneLog(r) ==
    [k \in 1 .. Phase(r) |-> TranscriptHash(ss[r].milestones[MilestoneOrder[k]])]

Milestoned ==
    INSTANCE Lockstep WITH
        Steps   <- Len(MilestoneOrder),
        log     <- [r \in Roles |-> MilestoneLog(r)],
        stopped <- {r \in Roles : Aborted(r)}

\* Seen from outside, two sessions pass their milestones in lockstep: in one
\* order, at most one apart, over transcripts that agree, and never after an
\* abort.
ImplementsLockstep == Milestoned!Spec
=============================================================================
