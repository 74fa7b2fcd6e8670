-------------------------- MODULE SessionInvariant --------------------------
(***************************************************************************)
(* The inductive invariant of SessionRuntime, over any network of these    *)
(* faults.  It says of one party that its fields and the records of its    *)
(* transcript tell one story (LocalInv, a conjunct per phase), of a record *)
(* of the peer's that the peer has it too (Shared), and of a message on    *)
(* its way that its sender recorded it (Genuine).  What the two parties    *)
(* hold of one another follows from these.                                 *)
(***************************************************************************)
EXTENDS SessionRuntime, HandshakeInvariant

-----------------------------------------------------------------------------
(* Records *)

\* A refused capsule ends the session that refuses it; no milestone counts it.
Refusal(x) == x.type = "capsule_ack" /\ ~x.body.ok

\* The records of this type that s holds of messages from q.
From(s, type, q) ==
    {x \in Range(s.post) : x.type = type /\ x.from = q /\ ~Refusal(x)}

FromLeg(s, type, q, leg) == {x \in From(s, type, q) : x.body.which = leg}

Passed(s, event) == s.milestones[event] # <<>>

\* The types of message a party has finished with at each milestone, and the
\* milestone at which it starts with the others.
TypesBefore ==
    [KEYGEN_COMPLETE      |-> {"keygen_announce"},
     CAPSULES_VERIFIED    |-> {"keygen_announce", "capsule_offer", "capsule_ack"},
     FUNDED               |-> {"keygen_announce", "capsule_offer", "capsule_ack",
                               "funding_tx"},
     EXEC_READY           |-> {"keygen_announce", "capsule_offer", "capsule_ack",
                               "funding_tx", "nonce_report", "fee_params",
                               "fee_params_ack"},
     EXEC_TEMPLATES_READY |-> {"keygen_announce", "capsule_offer", "capsule_ack",
                               "funding_tx", "nonce_report", "fee_params",
                               "fee_params_ack", "tx_template_commit",
                               "tx_template_ack"},
     EXECUTION_PLANNED    |-> DOMAIN StageOf \ {"txB_broadcast", "txA_broadcast"}]

OpenedBy ==
    [capsule_offer      |-> "KEYGEN_COMPLETE",
     capsule_ack        |-> "KEYGEN_COMPLETE",
     funding_tx         |-> "CAPSULES_VERIFIED",
     nonce_report       |-> "FUNDED",
     fee_params         |-> "FUNDED",
     fee_params_ack     |-> "FUNDED",
     tx_template_commit |-> "EXEC_READY",
     tx_template_ack    |-> "EXEC_READY",
     adaptor_start      |-> "EXEC_TEMPLATES_READY",
     adaptor_resp       |-> "EXEC_TEMPLATES_READY",
     adaptor_ack        |-> "EXEC_TEMPLATES_READY",
     txB_broadcast      |-> "EXECUTION_PLANNED",
     txA_broadcast      |-> "EXECUTION_PLANNED"]

\* A party has finished with the type t before it starts with u.
Precedes(t, u) == u # "keygen_announce" /\ t \in TypesBefore[OpenedBy[u]]

-----------------------------------------------------------------------------
(* One party, s being its session *)

\* The state says which milestones are passed, and they are passed in order.
\* Nothing is recorded before the lock, and whoever refuses a capsule stops.
StateInv(r, s) ==
    /\ s.state \in {"HANDSHAKE", "ABORTED"} \cup {StageOf[t] : t \in DOMAIN StageOf}
    /\ s.state = "HANDSHAKE" =>
          /\ ~Locked(r) /\ hs[r].state # "ABORTED"
          /\ s.post = <<>> /\ s.postSeq = FirstPostSeq
    /\ (\E x \in Range(s.post) : Refusal(x)) => s.state = "ABORTED"
    /\ s.state \notin {"HANDSHAKE", "ABORTED"} => Locked(r) /\ hs[r].sid \in Sids
    /\ s.state \in {"HANDSHAKE", "KEYGEN"} => ~Passed(s, "KEYGEN_COMPLETE")
    /\ s.state = "CAPSULES_EXCHANGE" =>
          Passed(s, "KEYGEN_COMPLETE") /\ ~Passed(s, "CAPSULES_VERIFIED")
    /\ s.state = "FUNDING" => Passed(s, "CAPSULES_VERIFIED") /\ ~Passed(s, "FUNDED")
    /\ s.state = "EXEC_PREP" => Passed(s, "FUNDED") /\ ~Passed(s, "EXEC_READY")
    /\ s.state = "EXEC_TEMPLATES_SYNC" =>
          Passed(s, "EXEC_READY") /\ ~Passed(s, "EXEC_TEMPLATES_READY")
    /\ s.state = "ADAPTOR_NEGOTIATING" =>
          Passed(s, "EXEC_TEMPLATES_READY") /\ ~Passed(s, "EXECUTION_PLANNED")
    /\ s.state = "EXECUTION_PLANNED" => Passed(s, "EXECUTION_PLANNED")
    /\ Passed(s, "CAPSULES_VERIFIED") => Passed(s, "KEYGEN_COMPLETE")
    /\ Passed(s, "FUNDED") => Passed(s, "CAPSULES_VERIFIED")
    /\ Passed(s, "EXEC_READY") => Passed(s, "FUNDED")
    /\ Passed(s, "EXEC_TEMPLATES_READY") => Passed(s, "EXEC_READY")
    /\ Passed(s, "EXECUTION_PLANNED") => Passed(s, "EXEC_TEMPLATES_READY")

\* The transcript holds no record twice; a party's own carry different numbers
\* below the next one, in the order of the phases, the peer's numbers it has heard.
NumberInv(r, s) ==
    /\ s.postSeq \in Nat /\ s.postSeq >= FirstPostSeq
    /\ s.lastPostSeq \in Nat \cup {-1}
    /\ s.post \in Seq(Range(s.post)) /\ Distinct(s.post)
    /\ \A x \in Range(s.post) :
          /\ x.type \in DOMAIN StageOf /\ x.from \in Roles /\ x.seq \in Nat
          /\ x.from = r => FirstPostSeq <= x.seq /\ x.seq < s.postSeq
          /\ x.from # r /\ x.type \notin {"txB_broadcast", "txA_broadcast"} =>
                x.seq <= s.lastPostSeq
          /\ x.from # r => ~Refusal(x)
    /\ \A x, y \in Range(s.post) :
          x.from = r /\ y.from = r /\ x.seq = y.seq => x = y
    /\ \A x, y \in Range(s.post) :
          x.from = r /\ y.from = r /\ Precedes(x.type, y.type) => x.seq < y.seq

\* A milestone's transcript is the one of the types finished with by then: a
\* record of those types comes before it or never.
LogInv(s) ==
    /\ DOMAIN s.milestones = Milestones
    /\ \A event \in Milestones : Passed(s, event) =>
          LET t == s.milestones[event]
          IN  /\ t \in Seq(Range(s.post)) /\ Distinct(t)
              /\ Range(t) =
                    {x \in Range(s.post) : x.type \in TypesBefore[event] /\ ~Refusal(x)}
    /\ \A x \in Range(s.post) :
          x.type # "keygen_announce" => Passed(s, OpenedBy[x.type])

KeygenInv(r, s) ==
    /\ \A x \in From(s, "keygen_announce", r) : x.body = [keyOf |-> <<r, hs[r].sid>>]
    /\ \A x \in From(s, "keygen_announce", Other(r)) :
          s.peerMpc = x.body.keyOf /\ s.peerMpc # None
    /\ AtMostOne(From(s, "keygen_announce", r))
    /\ Locked(r) <=> From(s, "keygen_announce", r) # {}
    /\ s.peerMpc # None => Locked(r) /\ From(s, "keygen_announce", Other(r)) # {}
    /\ Passed(s, "KEYGEN_COMPLETE") => s.peerMpc # None

CapsuleInv(r, s) ==
    /\ s.capsuleReceived \in BOOLEAN /\ s.capsuleAcked \in BOOLEAN
    /\ \A x \in From(s, "capsule_offer", r) :
          x.body = [target |-> Other(r), flaw |-> "none"]
    /\ \A x \in From(s, "capsule_ack", r) :
          x.body = [target |-> r, ok |-> TRUE] /\ s.capsuleReceived
    /\ From(s, "capsule_offer", Other(r)) # {} => s.capsuleReceived
    /\ From(s, "capsule_ack", Other(r)) # {} => s.capsuleAcked
    /\ AtMostOne(From(s, "capsule_offer", r)) /\ AtMostOne(From(s, "capsule_ack", r))
    /\ s.capsuleReceived => From(s, "capsule_offer", Other(r)) # {}
    /\ s.capsuleAcked => From(s, "capsule_ack", Other(r)) # {}
    /\ Passed(s, "CAPSULES_VERIFIED") => s.capsuleReceived /\ s.capsuleAcked

FundingInv(r, s, c) ==
    /\ s.fundingTx = [q \in Roles |-> s.fundingTx[q]]
    /\ s.fundingConfirmed \in [Roles -> BOOLEAN]
    /\ \A q \in Roles : \A x \in From(s, "funding_tx", q) :
          s.fundingTx[q] = x.body /\ s.fundingTx[q] # None
    /\ AtMostOne(From(s, "funding_tx", r))
    /\ \A q \in Roles : s.fundingTx[q] # None =>
          /\ From(s, "funding_tx", q) # {}
          /\ s.fundingTx[q] \in FundingPayloads /\ s.fundingTx[q].which = q
          /\ q # r => s.fundingTx[q].value = "enough"
    /\ s.fundingTx[r] # None => "emitFundingTx" \in c
    /\ Passed(s, "FUNDED") =>
          \A q \in Roles : s.fundingConfirmed[q] /\ s.fundingTx[q] # None

PrepInv(r, s, c) ==
    /\ s.localNonces \in NonceReports \cup {None}
    /\ s.peerNonces \in NonceReports \cup {None}
    /\ s.feeParams \in FeeChoices \cup {None}
    /\ s.feeAcked \in BOOLEAN /\ s.templates \in Digests \cup {None}
    /\ \A x \in From(s, "nonce_report", r) :
          x.body = [nonces |-> s.localNonces] /\ s.localNonces # None
    /\ \A x \in From(s, "nonce_report", Other(r)) :
          s.peerNonces = x.body.nonces /\ s.peerNonces # None
    /\ \A x \in From(s, "fee_params", "alice") :
          x.body = [fee |-> s.feeParams] /\ s.feeParams # None
    /\ \A x \in From(s, "fee_params_ack", "bob") :
          /\ x.body = [feeHash |-> s.feeParams]
          /\ s.feeParams # None /\ s.feeAcked
    /\ From(s, "fee_params", "bob") = {} /\ From(s, "fee_params_ack", "alice") = {}
    /\ AtMostOne(From(s, "nonce_report", r))
    /\ AtMostOne(From(s, "fee_params", r)) /\ AtMostOne(From(s, "fee_params_ack", r))
    /\ s.localNonces # None =>
          From(s, "nonce_report", r) # {} /\ "setLocalNonceReport" \in c
    /\ s.peerNonces # None => From(s, "nonce_report", Other(r)) # {}
    /\ s.feeParams # None => From(s, "fee_params", "alice") # {}
    /\ s.feeAcked => From(s, "fee_params_ack", "bob") # {}
    /\ r = "alice" /\ s.feeParams # None => s.localNonces # None
    /\ Passed(s, "EXEC_READY") =>
          /\ s.localNonces # None /\ s.localNonces = s.peerNonces
          /\ s.feeParams # None /\ s.feeAcked
          /\ s.templates = TemplatesOf(r, s)

TemplateInv(r, s) ==
    /\ \A x \in From(s, "tx_template_commit", r) : x.body = CommitBody(r, s.templates)
    /\ \A x \in From(s, "tx_template_ack", r) :
          x.body = [commitHash |-> s.templates] /\ s.peerCommitHash # None
    /\ \A x \in From(s, "tx_template_commit", Other(r)) :
          /\ s.peerCommitHash = s.templates
          /\ x.body.digests = s.templates /\ x.body.commitHash = s.templates
    /\ \A x \in From(s, "tx_template_ack", Other(r)) :
          s.localCommitAcked /\ x.body.commitHash = s.templates
    /\ AtMostOne(From(s, "tx_template_commit", r))
    /\ AtMostOne(From(s, "tx_template_ack", r))
    /\ s.peerCommitHash # None =>
          From(s, "tx_template_commit", Other(r)) # {} /\ s.peerCommitHash = s.templates
    /\ s.localCommitAcked \in BOOLEAN
    /\ s.localCommitAcked => From(s, "tx_template_ack", Other(r)) # {}
    /\ Passed(s, "EXEC_TEMPLATES_READY") =>
          s.peerCommitHash # None /\ s.localCommitAcked

\* Of the signature in a response: bob's is his own or was cut short on its way
\* out, alice's is what she kept.
Signed(r, s, leg, sig) ==
    IF r = "bob" /\ mutator = "tamperAdaptor" THEN ~sig.whole
    ELSE sig.whole /\ sig = s.legs[leg].adaptorSig

LegInv(r, s, leg) ==
    /\ DOMAIN s.legs[leg] = {"T", "adaptorSig", "acked"}
    /\ s.legs[leg].T \in (Legs \X Digests) \cup {None}
    /\ s.legs[leg].adaptorSig \in AdaptorSigs \cup {None} /\ s.legs[leg].acked \in BOOLEAN
    /\ \A x \in FromLeg(s, "adaptor_start", "alice", leg) :
          /\ x.body = [which |-> leg, digests |-> s.templates, T |-> s.legs[leg].T]
          /\ s.legs[leg].T # None
          /\ r = "bob" => s.legs[leg].adaptorSig # None
    /\ \A x \in FromLeg(s, "adaptor_resp", "bob", leg) :
          /\ x.body = [which |-> leg, digests |-> s.templates, T |-> s.legs[leg].T,
                       sig |-> x.body.sig]
          /\ s.legs[leg].T # None /\ s.legs[leg].adaptorSig # None
          /\ Signed(r, s, leg, x.body.sig)
    /\ \A x \in FromLeg(s, "adaptor_ack", "alice", leg) :
          /\ x.body = [which |-> leg, digests |-> s.templates, T |-> s.legs[leg].T]
          /\ s.legs[leg].T # None
          /\ IF r = "alice" THEN s.legs[leg].adaptorSig # None ELSE s.legs[leg].acked
    /\ AtMostOne(FromLeg(s, "adaptor_start", "alice", leg))
    /\ AtMostOne(FromLeg(s, "adaptor_resp", "bob", leg))
    /\ AtMostOne(FromLeg(s, "adaptor_ack", "alice", leg))
    /\ IF r = "alice"
       THEN s.legs[leg].adaptorSig # None => FromLeg(s, "adaptor_resp", "bob", leg) # {}
       ELSE /\ s.legs[leg].adaptorSig # None =>
                   FromLeg(s, "adaptor_start", "alice", leg) # {}
            /\ s.legs[leg].T # None => s.legs[leg].adaptorSig # None
            /\ s.legs[leg].acked => FromLeg(s, "adaptor_ack", "alice", leg) # {}

AdaptorInv(r, s) ==
    /\ DOMAIN s.legs = Legs
    /\ \A leg \in Legs : LegInv(r, s, leg)
    /\ \A x \in Range(s.post) :
          /\ x.type \in {"adaptor_start", "adaptor_ack"} => x.from = "alice"
          /\ x.type = "adaptor_resp" => x.from = "bob"
          /\ x.type \in {"adaptor_start", "adaptor_resp", "adaptor_ack"} =>
                x.body.which \in Legs
    /\ Passed(s, "EXECUTION_PLANNED") => \A leg \in Legs : LegDone(r, s.legs[leg])

\* Alice plans in the call that brings her the second signature.
PlanInv(r, s) ==
    r = "alice" /\ (\A leg \in Legs : s.legs[leg].adaptorSig # None) =>
        Passed(s, "EXECUTION_PLANNED")

BroadcastInv(r, s, c) ==
    /\ \A x \in Range(s.post) :
          /\ x.type = "txB_broadcast" =>
                /\ x.from = "alice"
                /\ x.body = [txHash |-> x.body.txHash] /\ x.body.txHash \in TxHashes
                /\ IF r = "bob" THEN s.peerTxBHash = x.body.txHash
                   ELSE "announceTxBHash" \in c
          /\ x.type = "txA_broadcast" =>
                /\ x.from = "bob"
                /\ x.body = [txHash |-> x.body.txHash] /\ x.body.txHash \in TxHashes
                /\ IF r = "alice" THEN s.peerTxAHash = x.body.txHash
                   ELSE "announceTxAHash" \in c
    /\ AtMostOne(From(s, "txB_broadcast", r)) /\ AtMostOne(From(s, "txA_broadcast", r))
    /\ s.peerTxBHash # None => r = "bob" /\ From(s, "txB_broadcast", "alice") # {}
    /\ s.peerTxAHash # None => r = "alice" /\ From(s, "txA_broadcast", "bob") # {}

SessionFields ==
    {"state", "postSeq", "lastPostSeq", "post", "peerMpc", "capsuleReceived",
     "capsuleAcked", "fundingTx", "fundingConfirmed", "localNonces", "peerNonces",
     "feeParams", "feeAcked", "templates", "peerCommitHash", "localCommitAcked",
     "legs", "peerTxBHash", "peerTxAHash", "milestones"}

\* What r's fields and records say at every point of a handler, once its client
\* has called the methods of c; and what they say between two.
CoreInv(r, s, c) ==
    /\ DOMAIN s = SessionFields
    /\ StateInv(r, s) /\ NumberInv(r, s) /\ LogInv(s)
    /\ KeygenInv(r, s) /\ CapsuleInv(r, s) /\ FundingInv(r, s, c) /\ PrepInv(r, s, c)
    /\ TemplateInv(r, s) /\ AdaptorInv(r, s) /\ BroadcastInv(r, s, c)

LocalInv(r, s, c) == CoreInv(r, s, c) /\ PlanInv(r, s)

-----------------------------------------------------------------------------
(* The two parties and the network *)

\* Of r's handshake: what it holds of the peer is nothing or the truth, and the
\* sid is there exactly in LOCKED and then the right one.
HandshakeInv(r) ==
    /\ DOMAIN hs[r] = DOMAIN Created /\ hs[r].seq \in Nat
    /\ hs[r].peerParams \in {None, params[Other(r)]}
    /\ hs[r].peerNonce \in {None, nonce[Other(r)]}
    /\ Locked(r) <=> hs[r].sid # NoSid
    /\ Locked(r) => params["alice"] = params["bob"] /\ hs[r].sid = TrueSid

\* What r recorded of the peer's messages, the peer recorded when it sent them.
Shared(r, s) ==
    \A x \in Range(s.post) : x.from = Other(r) => x \in Range(ss[Other(r)].post)

\* What q may have on its way to its peer: nothing is asked of aborts and garbled
\* messages; an offer may have been given a flaw.
Genuine(q, m) ==
    /\ m = Message(q, m.seq, m.sid, m.type, m.body) /\ m.seq \in Nat
    /\ m.type \in {"hello", "hello_ack"} => m.body = Greeting(q)
    /\ m.type \in DOMAIN StageOf =>
          /\ Locked(q) /\ m.sid = hs[q].sid
          /\ \/ RecordOf(m) \in Range(ss[q].post)
             \/ m.type = "capsule_offer" /\ m.body.flaw \in CapsuleFlaws
    /\ m.type = "capsule_offer" => m.body = [target |-> Other(q), flaw |-> m.body.flaw]

\* The messages on their way to r come from a peer that recorded them, in the order
\* of their numbers, none of which lies behind the last one heard.
InStep(r) ==
    /\ ss[r].lastPostSeq < ss[Other(r)].postSeq /\ Rising(net[r])
    /\ \A m \in Range(net[r]) :
          /\ m.type \in DOMAIN StageOf /\ RecordOf(m) \in Range(ss[Other(r)].post)
          /\ m.seq >= ss[r].lastPostSeq

\* The messages that complete a phase for their receiver.
Closers == {"keygen_announce", "capsule_ack", "fee_params_ack", "tx_template_ack",
            "adaptor_ack"}

Coming(r, x) == \E m \in Range(net[r]) : m.type \in DOMAIN StageOf /\ RecordOf(m) = x

\* As long as r has not aborted, nothing its peer sent is lost on the way: what comes
\* the peer has recorded and r has not, in the order of the numbers, and what completes
\* a phase is recorded or still comes.
Delivered(r) == ~Aborted(r) =>
    /\ Rising(net[r])
    /\ \A m \in Range(net[r]) :
          /\ m.seq < ss[Other(r)].postSeq
          /\ m.type = "abort" \/ (/\ m.type \in DOMAIN StageOf
                                  /\ RecordOf(m) \in Range(ss[Other(r)].post)
                                  /\ RecordOf(m) \notin Range(ss[r].post))
    /\ \A x \in Range(ss[Other(r)].post) :
          x.from = Other(r) /\ x.type \in Closers => x \in Range(ss[r].post) \/ Coming(r, x)

\* What a party waits for before each milestone.
Met(r, s, event) ==
    CASE event = "KEYGEN_COMPLETE"      -> s.peerMpc # None
      [] event = "CAPSULES_VERIFIED"    -> s.capsuleReceived /\ s.capsuleAcked
      [] event = "FUNDED"               ->
           \A q \in Roles : s.fundingConfirmed[q] /\ s.fundingTx[q] # None
      [] event = "EXEC_READY"           ->
           /\ s.localNonces # None /\ s.peerNonces # None
           /\ s.feeParams # None /\ s.feeAcked
      [] event = "EXEC_TEMPLATES_READY" -> s.peerCommitHash # None /\ s.localCommitAcked
      [] event = "EXECUTION_PLANNED"    -> \A leg \in Legs : LegDone(r, s.legs[leg])

\* A party that has not aborted has passed what it waits for no longer.
Eager(r, s) ==
    s.state # "ABORTED" => \A event \in Milestones : Met(r, s, event) => Passed(s, event)

\* What a party has accepted it has acknowledged.
Answering(r, s) ==
    /\ s.capsuleReceived => From(s, "capsule_ack", r) # {}
    /\ s.peerCommitHash # None => From(s, "tx_template_ack", r) # {}
    /\ r = "alice" => \A leg \in Legs :
          s.legs[leg].adaptorSig # None => FromLeg(s, "adaptor_ack", r, leg) # {}

\* Nothing is lost on the way to r, r is waiting for nothing that it has, and it has
\* answered and refused nothing.
Flowing(r) ==
    /\ Delivered(r) /\ Eager(r, ss[r]) /\ Answering(r, ss[r])
    /\ \A x \in Range(ss[r].post) : ~Refusal(x)

Announces(r) == Locked(r) =>
    \E m \in Range(net[Other(r)]) : m.type = "keygen_announce"

\* Over a network without faults, once both have locked, nothing is lost and nobody
\* waits for what he has. Until then they are as the invariants of the handshake say,
\* have heard nothing of the session, and who has locked has announced it.
FaultlessInv == Faultless =>
    IF \A r \in Roles : Locked(r)
    THEN \A r \in Roles : Flowing(r)
    ELSE /\ \A r \in Roles : ~Aborted(r) /\ ss[r].lastPostSeq = -1 /\ Announces(r)
         /\ IInv /\ AckInv /\ TranscriptInv /\ OrderlyInv

\* Two honest parties have not aborted. Until both have locked they are as the
\* invariants of the handshake say and have heard nothing of the session; from then on
\* both are in step.
CalmInv == Honest =>
    /\ \A r \in Roles : ~Aborted(r) /\ hs[r].state # "ABORTED"
    /\ IF \A r \in Roles : Locked(r)
       THEN \A r \in Roles : InStep(r)
       ELSE /\ \A r \in Roles : ss[r].lastPostSeq = -1
            /\ IInv /\ AckInv /\ TranscriptInv /\ OrderlyInv

SInv ==
    /\ params \in [Roles -> Params] /\ nonce \in [Roles -> Nonces]
    /\ hs = [r \in Roles |-> hs[r]] /\ ss = [r \in Roles |-> ss[r]]
    /\ net = [r \in Roles |-> net[r]] /\ calls = [r \in Roles |-> calls[r]]
    /\ mutator \in Mutators
    /\ \A r \in Roles :
          /\ HandshakeInv(r) /\ LocalInv(r, ss[r], calls[r]) /\ Shared(r, ss[r])
          /\ net[r] \in Seq(Range(net[r]))
          /\ \A m \in Range(net[r]) : Genuine(Other(r), m)
=============================================================================
