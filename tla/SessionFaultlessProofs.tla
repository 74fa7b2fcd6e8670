----------------------- MODULE SessionFaultlessProofs -----------------------
(***************************************************************************)
(* Theorems about a network that has not failed, for every value of the    *)
(* parties' data. Two honest parties (SessionRuntime's Honest) stay in     *)
(* step (SessionInvariant's CalmInv) and so never abort. Between any two   *)
(* parties nothing is lost (FaultlessInv) from the second lock on, and so  *)
(* only what comes during FUNDING is ever thrown away for coming early.    *)
(***************************************************************************)
EXTENDS SessionRuntimeProofs

-----------------------------------------------------------------------------
(* No handler aborts between honest parties *)

\* Two honest parties have not aborted, and what r is about to hear is in step.
Peaceful(r) ==
    /\ SInv /\ Honest
    /\ \A q \in Roles : ~Aborted(q)
    /\ InStep(r)

Alive(w) == Working(w) /\ w.s.state # "ABORTED"

LEMMA AliveStatements ==
    ASSUME NEW w, Alive(w)
    PROVE  /\ \A m : Alive(Note(w, m))
           /\ \A r, type, body : Alive(Send(r, w, type, body))
           /\ \A event, state : state # "ABORTED" => Alive(Enter(Reach(w, event), state))
<1>1. ASSUME NEW m PROVE Alive(Note(w, m))
  BY NoteEffect DEF Alive, Same, SessionFields
<1>2. ASSUME NEW r, NEW type, NEW body PROVE Alive(Send(r, w, type, body))
  BY SendEffect DEF Alive, Appended, Same, SessionFields
<1>3. ASSUME NEW event, NEW state, state # "ABORTED"
      PROVE  Alive(Enter(Reach(w, event), state))
  <2>1. Working(Reach(w, event))
    BY ReachEffect DEF Alive
  <2>. QED  BY <1>3, <2>1, EnterEffect DEF Alive
<1>. QED  BY <1>1, <1>2, <1>3

LEMMA AliveOpens ==
    ASSUME NEW r, NEW w, NEW leg, Alive(w)
    PROVE  Alive(StartLeg(r, w, leg))
<1>. DEFINE T == AdaptorT(leg, w.s.templates)
            k == [w EXCEPT !.s.legs[leg].T = T]
<1>1. Alive(k)
  BY DEF Alive, Working, SessionFields
<1>. HIDE DEF k, T
<1>2. Alive(Send(r, k, "adaptor_start", [which |-> leg, digests |-> w.s.templates, T |-> T]))
  BY <1>1, AliveStatements
<1>. QED  BY <1>2 DEF StartLeg, k, T

\* Of the check... functions only the comparison of the nonces aborts.
LEMMA AliveChecks ==
    ASSUME NEW r, NEW w, Alive(w)
    PROVE  /\ Alive(CheckKeygenComplete(r, w))
           /\ Alive(CheckCapsulesVerified(w))
           /\ Alive(CheckFundingComplete(w))
           /\ (w.s.localNonces = None \/ w.s.peerNonces \in {None, w.s.localNonces})
                 => Alive(CheckExecReady(r, w))
           /\ Alive(CheckTemplatesReady(r, w))
           /\ Alive(Planned(w))
<1>1. \A event, state : state # "ABORTED" => Alive(Enter(Reach(w, event), state))
  BY AliveStatements
<1>2. Alive(CheckKeygenComplete(r, w))
  BY <1>1, AliveStatements DEF CheckKeygenComplete
<1>3. ASSUME w.s.localNonces = None \/ w.s.peerNonces \in {None, w.s.localNonces}
      PROVE  Alive(CheckExecReady(r, w))
  <2>. DEFINE digests == TemplatesOf(r, w.s)
              reached == Reach(w, "EXEC_READY")
              ready == [reached EXCEPT !.s.templates = digests]
              sent == Send(r, ready, "tx_template_commit", CommitBody(r, digests))
  <2>1. Alive(reached)
    BY DEF Reach, Alive, Working, SessionFields
  <2>. HIDE DEF reached, digests
  <2>2. Alive(ready)
    BY <2>1 DEF Alive, Working, SessionFields
  <2>. HIDE DEF ready
  <2>3. Alive(sent)
    BY <2>2, AliveStatements
  <2>. HIDE DEF sent
  <2>4. Alive(Enter(sent, "EXEC_TEMPLATES_SYNC"))
    BY <2>3, EnterEffect DEF Alive
  <2>. QED  BY <1>3, <2>4 DEF CheckExecReady, digests, reached, ready, sent
<1>4. Alive(CheckTemplatesReady(r, w))
  <2>. DEFINE ready == Enter(Reach(w, "EXEC_TEMPLATES_READY"), "ADAPTOR_NEGOTIATING")
  <2>1. Alive(ready)
    BY <1>1
  <2>. HIDE DEF ready
  <2>2. Alive(StartLeg(r, StartLeg(r, ready, "B"), "A"))
    BY <2>1, AliveOpens
  <2>. QED  BY <2>1, <2>2 DEF CheckTemplatesReady, ready
<1>. QED
  BY <1>1, <1>2, <1>3, <1>4 DEF CheckCapsulesVerified, CheckFundingComplete, Planned

LEMMA AliveKeeps ==
    ASSUME NEW r, NEW w, NEW stored, NEW received, NEW kept, Alive(w), Alive(kept),
           stored # None => stored = received
    PROVE  Alive(Keep(r, w, stored, received, kept))
BY DEF Keep

LEMMA AliveEnds ==
    ASSUME NEW r \in Roles, SInv, NEW w, Alive(w), Returns(r, w) \/ Emits(r, w)
    PROVE  ~Aborted(r)'
BY DEF SInv, Alive, Returns, Emits, Aborted

\* A record of a type the peer sends once is the record it sent.
LEMMA SameRecord ==
    ASSUME SInv, NEW r \in Roles, NEW type, NEW x \in From(ss[Other(r)], type, Other(r)),
           NEW y \in From(ss[r], type, Other(r)),
           AtMostOne(From(ss[Other(r)], type, Other(r)))
    PROVE  y = x
BY PeerRecord DEF AtMostOne

LEMMA PeacefulTook ==
    ASSUME NEW r \in Roles, Peaceful(r), NEW type \in DOMAIN StageOf, Takes(r, type),
           NEW m, m = Head(net[r])
    PROVE  LET p == Other(r)
               w == Heard(r, m)
           IN  /\ Took(r, type, m, w) /\ Alive(w) /\ ss[r].state = StageOf[type]
               /\ RecordOf(m) \in From(ss[p], type, p) /\ RecordOf(m).body = m.body
<1>. DEFINE p == Other(r)
            w == Heard(r, m)
            x == RecordOf(m)
<1>1. SInv /\ Took(r, type, m, w) /\ ss[r].state = StageOf[type]
  BY Taken DEF Peaceful, Takes
<1>2. /\ net[r] # <<>> /\ x.type = type /\ x.from = p /\ x.body = m.body /\ p \in Roles
      /\ Working(w) /\ Same(ss[r], w.s, SessionFields \ {"lastPostSeq"})
  BY <1>1 DEF Took
<1>3. x \in Range(ss[p].post)
  <2>1. m \in Range(net[r])
    BY <1>1, <1>2, RangeTail DEF SInv
  <2>. QED  BY <2>1 DEF Peaceful, InStep
<1>4. ~Refusal(x)
  BY <1>1, <1>2, <1>3, PartyInv DEF Peaceful, Aborted, StateInv
<1>5. Alive(w)
  BY <1>2 DEF Alive, Same, SessionFields, Peaceful, Aborted
<1>. QED  BY <1>1, <1>2, <1>3, <1>4, <1>5 DEF From

\* The nonces honest parties hold of one another are the same.
LEMMA NoncesMatch ==
    ASSUME SInv, Honest, NEW r \in Roles
    PROVE  /\ ss[r].peerNonces \in {None, ss[Other(r)].localNonces}
           /\ \/ ss[r].localNonces = None \/ ss[Other(r)].localNonces = None
              \/ ss[r].localNonces = ss[Other(r)].localNonces
<1>. DEFINE p == Other(r)
<1>1. /\ p \in Roles /\ PrepInv(r, ss[r], calls[r]) /\ PrepInv(p, ss[p], calls[p])
      /\ \A q \in Roles : q = r \/ q = p
  BY OtherRole, PartyInv
<1>2. ASSUME ss[r].peerNonces # None PROVE ss[r].peerNonces = ss[p].localNonces
  <2>1. PICK x : x \in From(ss[r], "nonce_report", p)
    BY <1>1, <1>2 DEF PrepInv
  <2>2. x \in From(ss[p], "nonce_report", p)
    BY <2>1, PeerRecord
  <2>. QED  BY <1>1, <2>1, <2>2 DEF PrepInv
<1>3. ASSUME ss[r].localNonces # None, ss[p].localNonces # None
      PROVE  ss[r].localNonces = ss[p].localNonces
  <2>1. \A q \in Roles : ss[q].localNonces # None
    BY <1>1, <1>3
  <2>2. ss["alice"].localNonces = ss["bob"].localNonces
    BY <2>1 DEF Honest
  <2>. QED  BY <1>1, <2>2 DEF Roles, Other
<1>. QED  BY <1>2, <1>3

LEMMA CalmKeygenAnnounce ==
    ASSUME NEW r \in Roles, Peaceful(r), RcvKeygenAnnounce(r)
    PROVE  ~Aborted(r)'
<1>. DEFINE m == Head(net[r])
            w == Heard(r, m)
            p == Other(r)
            k == [w EXCEPT !.s.peerMpc = m.body.keyOf]
            kept == Note(k, m)
            v == Keep(r, w, w.s.peerMpc, m.body.keyOf, CheckKeygenComplete(r, kept))
            x == RecordOf(m)
<1>1. /\ SInv /\ Returns(r, v) /\ Takes(r, "keygen_announce") /\ m = Head(net[r])
      /\ "keygen_announce" \in DOMAIN StageOf /\ p \in Roles
  BY OtherRole, PostTypes DEF RcvKeygenAnnounce, Peaceful
<1>2. /\ Took(r, "keygen_announce", m, w) /\ Alive(w)
      /\ x \in From(ss[p], "keygen_announce", p) /\ x.body = m.body
  BY <1>1, PeacefulTook
<1>3. w.s.peerMpc # None => w.s.peerMpc = m.body.keyOf
  <2>1. w.s.peerMpc = ss[r].peerMpc /\ Locked(r) /\ Locked(p)
    BY <1>2 DEF Took, Same, SessionFields
  <2>2. x.body = [keyOf |-> <<p, hs[p].sid>>]
    BY <1>1, <1>2, PartyInv DEF KeygenInv
  <2>. QED  BY <1>1, <1>2, <2>1, <2>2, PeerKey, LockedSids
<1>. HIDE DEF m, w
<1>4. Alive(k)
  BY <1>2 DEF Alive, Working, SessionFields
<1>. HIDE DEF k
<1>5. Alive(CheckKeygenComplete(r, kept))
  BY <1>4, AliveStatements, AliveChecks
<1>. HIDE DEF kept
<1>6. Alive(v)
  BY <1>2, <1>3, <1>5, AliveKeeps
<1>. QED  BY <1>1, <1>6, AliveEnds

LEMMA CalmCapsuleOffer ==
    ASSUME NEW r \in Roles, Peaceful(r), RcvCapsuleOffer(r)
    PROVE  ~Aborted(r)'
<1>. DEFINE m == Head(net[r])
            w == Heard(r, m)
            p == Other(r)
            k == [w EXCEPT !.s.capsuleReceived = TRUE]
            kept == Note(k, m)
            x == RecordOf(m)
<1>1. /\ SInv /\ Takes(r, "capsule_offer") /\ m = Head(net[r])
      /\ "capsule_offer" \in DOMAIN StageOf /\ p \in Roles /\ Other(p) = r
  BY OtherRole, PostTypes DEF RcvCapsuleOffer, Peaceful
<1>2. /\ Took(r, "capsule_offer", m, w) /\ Alive(w)
      /\ x \in From(ss[p], "capsule_offer", p) /\ x.body = m.body
  BY <1>1, PeacefulTook
<1>3. m.body.target = r /\ m.body.flaw = "none"
  <2>1. CapsuleInv(p, ss[p])
    BY <1>1, PartyInv
  <2>2. x.body = [target |-> Other(p), flaw |-> "none"]
    BY <1>2, <2>1 DEF CapsuleInv
  <2>. QED  BY <1>1, <1>2, <2>2
<1>4. Returns(r, AcceptOffer(r, w, m))
  BY <1>3 DEF RcvCapsuleOffer
<1>. HIDE DEF m, w
<1>5. Alive(k)
  BY <1>2 DEF Alive, Working, SessionFields
<1>. HIDE DEF k
<1>6. Alive(CheckCapsulesVerified(Send(r, kept, "capsule_ack", [target |-> r, ok |-> TRUE])))
  BY <1>5, AliveStatements, AliveChecks
<1>7. Alive(AcceptOffer(r, w, m))
  BY <1>2, <1>6 DEF AcceptOffer, k
<1>. QED  BY <1>1, <1>4, <1>7, AliveEnds

LEMMA CalmCapsuleAck ==
    ASSUME NEW r \in Roles, Peaceful(r), RcvCapsuleAck(r)
    PROVE  ~Aborted(r)'
<1>. DEFINE m == Head(net[r])
            w == Heard(r, m)
            p == Other(r)
            k == [w EXCEPT !.s.capsuleAcked = TRUE]
            kept == Note(k, m)
            v == IF w.s.capsuleAcked THEN w ELSE CheckCapsulesVerified(kept)
            x == RecordOf(m)
<1>1. /\ SInv /\ Takes(r, "capsule_ack") /\ m = Head(net[r])
      /\ "capsule_ack" \in DOMAIN StageOf /\ p \in Roles
  BY OtherRole, PostTypes DEF RcvCapsuleAck, Peaceful
<1>2. /\ Took(r, "capsule_ack", m, w) /\ Alive(w)
      /\ x \in From(ss[p], "capsule_ack", p) /\ x.body = m.body
  BY <1>1, PeacefulTook
<1>3. m.body.target = p /\ m.body.ok
  <2>1. CapsuleInv(p, ss[p])
    BY <1>1, PartyInv
  <2>2. x.body = [target |-> p, ok |-> TRUE]
    BY <1>2, <2>1 DEF CapsuleInv
  <2>. QED  BY <1>2, <2>2
<1>4. Returns(r, v)
  BY <1>3 DEF RcvCapsuleAck
<1>. HIDE DEF m, w
<1>5. Alive(k)
  BY <1>2 DEF Alive, Working, SessionFields
<1>. HIDE DEF k
<1>6. Alive(CheckCapsulesVerified(kept))
  BY <1>5, AliveStatements, AliveChecks
<1>7. Alive(v)
  BY <1>2, <1>6
<1>. QED  BY <1>1, <1>4, <1>7, AliveEnds

LEMMA CalmFundingTx ==
    ASSUME NEW r \in Roles, Peaceful(r), RcvFundingTx(r)
    PROVE  ~Aborted(r)'
<1>. DEFINE m == Head(net[r])
            w == Heard(r, m)
            p == Other(r)
            k == [w EXCEPT !.s.fundingTx[m.body.which] = m.body]
            kept == Note(k, m)
            v == Keep(r, w, w.s.fundingTx[m.body.which], m.body, CheckFundingComplete(kept))
            x == RecordOf(m)
<1>1. /\ SInv /\ Takes(r, "funding_tx") /\ m = Head(net[r]) /\ Honest
      /\ "funding_tx" \in DOMAIN StageOf /\ p \in Roles /\ Other(p) = r
  BY OtherRole, PostTypes DEF RcvFundingTx, Peaceful
<1>2. /\ Took(r, "funding_tx", m, w) /\ Alive(w)
      /\ x \in From(ss[p], "funding_tx", p) /\ x.body = m.body
  BY <1>1, PeacefulTook
<1>3. /\ m.body.which = p /\ m.body.value = "enough" /\ m.from = p
      /\ FundingInv(p, ss[p], calls[p]) /\ FundingInv(r, ss[r], calls[r])
  <2>1. FundingInv(p, ss[p], calls[p]) /\ FundingInv(r, ss[r], calls[r]) /\ m.from = p
    BY <1>1, <1>2, PartyInv DEF Took
  <2>2. ss[p].fundingTx[p] = m.body /\ ss[p].fundingTx[p] # None
    BY <1>1, <1>2, <2>1 DEF FundingInv
  <2>. QED  BY <1>1, <2>1, <2>2 DEF FundingInv, Honest
<1>4. Returns(r, v)
  BY <1>3 DEF RcvFundingTx
<1>5. w.s.fundingTx[p] # None => w.s.fundingTx[p] = m.body
  <2>1. w.s.fundingTx = ss[r].fundingTx
    BY <1>2 DEF Took, Same, SessionFields
  <2>2. ASSUME ss[r].fundingTx[p] # None PROVE ss[r].fundingTx[p] = m.body
    <3>1. PICK y : y \in From(ss[r], "funding_tx", p)
      BY <1>1, <1>3, <2>2 DEF FundingInv
    <3>2. AtMostOne(From(ss[p], "funding_tx", p))
      BY <1>3 DEF FundingInv
    <3>3. y = x
      BY <1>1, <1>2, <3>1, <3>2, SameRecord
    <3>. QED  BY <1>1, <1>2, <1>3, <3>1, <3>3 DEF FundingInv
  <2>. QED  BY <2>1, <2>2
<1>. HIDE DEF m, w
<1>6. Alive(k)
  BY <1>2 DEF Alive, Working, SessionFields
<1>. HIDE DEF k
<1>7. Alive(CheckFundingComplete(kept))
  BY <1>6, AliveStatements, AliveChecks
<1>. HIDE DEF kept
<1>8. Alive(v)
  BY <1>2, <1>3, <1>5, <1>7, AliveKeeps
<1>. QED  BY <1>1, <1>4, <1>8, AliveEnds

LEMMA CalmNonceReport ==
    ASSUME NEW r \in Roles, Peaceful(r), RcvNonceReport(r)
    PROVE  ~Aborted(r)'
<1>. DEFINE m == Head(net[r])
            w == Heard(r, m)
            p == Other(r)
            k == [w EXCEPT !.s.peerNonces = m.body.nonces]
            kept == Note(k, m)
            v == Keep(r, w, w.s.peerNonces, m.body.nonces, CheckExecReady(r, kept))
            x == RecordOf(m)
<1>1. /\ SInv /\ Honest /\ Returns(r, v) /\ Takes(r, "nonce_report") /\ m = Head(net[r])
      /\ "nonce_report" \in DOMAIN StageOf /\ p \in Roles
  BY OtherRole, PostTypes DEF RcvNonceReport, Peaceful
<1>2. /\ Took(r, "nonce_report", m, w) /\ Alive(w)
      /\ x \in From(ss[p], "nonce_report", p) /\ x.body = m.body
  BY <1>1, PeacefulTook
<1>3. m.body.nonces = ss[p].localNonces /\ ss[p].localNonces # None
  <2>1. PrepInv(p, ss[p], calls[p])
    BY <1>1, PartyInv
  <2>. QED  BY <1>2, <2>1 DEF PrepInv
<1>4. w.s.peerNonces = ss[r].peerNonces /\ w.s.localNonces = ss[r].localNonces
  BY <1>2 DEF Took, Same, SessionFields
<1>5. /\ w.s.peerNonces # None => w.s.peerNonces = m.body.nonces
      /\ w.s.localNonces = None \/ w.s.localNonces = m.body.nonces
  BY <1>1, <1>3, <1>4, NoncesMatch
<1>. HIDE DEF m, w
<1>6. Alive(k) /\ k.s.peerNonces = m.body.nonces /\ k.s.localNonces = w.s.localNonces
  BY <1>2 DEF Alive, Working, SessionFields
<1>. HIDE DEF k
<1>7. Alive(kept) /\ kept.s.peerNonces = m.body.nonces /\ kept.s.localNonces = w.s.localNonces
  <2>1. Working(k) /\ Alive(kept)
    BY <1>6, AliveStatements DEF Alive
  <2>. QED  BY <1>6, <2>1, NoteEffect DEF Same, SessionFields
<1>. HIDE DEF kept
<1>8. Alive(CheckExecReady(r, kept))
  BY <1>5, <1>7, AliveChecks
<1>9. Alive(v)
  BY <1>2, <1>5, <1>8, AliveKeeps
<1>. QED  BY <1>1, <1>9, AliveEnds

LEMMA CalmFeeParams ==
    ASSUME NEW r \in Roles, Peaceful(r), RcvFeeParams(r)
    PROVE  ~Aborted(r)'
<1>. DEFINE m == Head(net[r])
            w == Heard(r, m)
            p == Other(r)
            k == [w EXCEPT !.s.feeParams = m.body.fee]
            kept == Note(k, m)
            sent == Send(r, kept, "fee_params_ack", [feeHash |-> m.body.fee])
            acked == [sent EXCEPT !.s.feeAcked = TRUE]
            v == Keep(r, w, w.s.feeParams, m.body.fee, CheckExecReady(r, acked))
            x == RecordOf(m)
<1>1. /\ SInv /\ Honest /\ Takes(r, "fee_params") /\ m = Head(net[r])
      /\ "fee_params" \in DOMAIN StageOf /\ p \in Roles
  BY OtherRole, PostTypes DEF RcvFeeParams, Peaceful
<1>2. /\ Took(r, "fee_params", m, w) /\ Alive(w)
      /\ x \in From(ss[p], "fee_params", p) /\ x.body = m.body
  BY <1>1, PeacefulTook
<1>3. PrepInv(p, ss[p], calls[p]) /\ PrepInv(r, ss[r], calls[r])
  BY <1>1, PartyInv
<1>4. p = "alice" /\ r = "bob"
  <2>1. p # "bob"
    BY <1>2, <1>3 DEF PrepInv
  <2>. QED  BY <1>1, <2>1 DEF Roles, Other
<1>5. Returns(r, v)
  BY <1>4 DEF RcvFeeParams
<1>6. w.s.feeParams # None => w.s.feeParams = m.body.fee
  <2>1. w.s.feeParams = ss[r].feeParams
    BY <1>2 DEF Took, Same, SessionFields
  <2>2. ASSUME ss[r].feeParams # None PROVE ss[r].feeParams = m.body.fee
    <3>1. PICK y : y \in From(ss[r], "fee_params", p)
      BY <1>3, <1>4, <2>2 DEF PrepInv
    <3>2. AtMostOne(From(ss[p], "fee_params", p))
      BY <1>3 DEF PrepInv
    <3>3. y = x
      BY <1>1, <1>2, <3>1, <3>2, SameRecord
    <3>4. y.body = [fee |-> ss[r].feeParams]
      BY <1>3, <1>4, <3>1 DEF PrepInv
    <3>. QED  BY <1>2, <3>3, <3>4
  <2>. QED  BY <2>1, <2>2
<1>7. w.s.localNonces = None \/ w.s.peerNonces \in {None, w.s.localNonces}
  <2>1. w.s.peerNonces = ss[r].peerNonces /\ w.s.localNonces = ss[r].localNonces
    BY <1>2 DEF Took, Same, SessionFields
  <2>. QED  BY <1>1, <2>1, NoncesMatch
<1>. HIDE DEF m, w
<1>. DEFINE Kept(u) == /\ Alive(u) /\ u.s.peerNonces = w.s.peerNonces
                       /\ u.s.localNonces = w.s.localNonces
<1>8. Kept(k)
  BY <1>2 DEF Alive, Working, SessionFields
<1>. HIDE DEF k
<1>9. Kept(kept)
  <2>1. Working(k) /\ Alive(kept)
    BY <1>8, AliveStatements DEF Alive
  <2>. QED  BY <1>8, <2>1, NoteEffect DEF Same, SessionFields
<1>. HIDE DEF kept
<1>10. Kept(sent)
  <2>1. Working(kept) /\ Alive(sent)
    BY <1>9, AliveStatements DEF Alive
  <2>. QED  BY <1>9, <2>1, SendEffect DEF Appended, Same, SessionFields
<1>. HIDE DEF sent
<1>11. Kept(acked)
  BY <1>10 DEF Alive, Working, SessionFields
<1>. HIDE DEF acked
<1>12. Alive(CheckExecReady(r, acked))
  BY <1>7, <1>11, AliveChecks
<1>13. Alive(v)
  BY <1>2, <1>6, <1>12, AliveKeeps
<1>. QED  BY <1>1, <1>5, <1>13, AliveEnds

LEMMA CalmFeeParamsAck ==
    ASSUME NEW r \in Roles, Peaceful(r), RcvFeeParamsAck(r)
    PROVE  ~Aborted(r)'
<1>. DEFINE m == Head(net[r])
            w == Heard(r, m)
            p == Other(r)
            k == [w EXCEPT !.s.feeAcked = TRUE]
            kept == Note(k, m)
            v == IF w.s.feeAcked THEN w ELSE CheckExecReady(r, kept)
            x == RecordOf(m)
<1>1. /\ SInv /\ Honest /\ Takes(r, "fee_params_ack") /\ m = Head(net[r])
      /\ "fee_params_ack" \in DOMAIN StageOf /\ p \in Roles /\ Other(p) = r
  BY OtherRole, PostTypes DEF RcvFeeParamsAck, Peaceful
<1>2. /\ Took(r, "fee_params_ack", m, w) /\ Alive(w)
      /\ x \in From(ss[p], "fee_params_ack", p) /\ x.body = m.body
  BY <1>1, PeacefulTook
<1>3. PrepInv(p, ss[p], calls[p]) /\ PrepInv(r, ss[r], calls[r])
  BY <1>1, PartyInv
<1>4. p = "bob" /\ r = "alice"
  <2>1. p # "alice"
    BY <1>2, <1>3 DEF PrepInv
  <2>. QED  BY <1>1, <2>1 DEF Roles, Other
<1>5. m.body.feeHash = ss[r].feeParams /\ ss[r].feeParams # None
  <2>1. x.body = [feeHash |-> ss[p].feeParams] /\ ss[p].feeParams # None
    BY <1>2, <1>3, <1>4 DEF PrepInv
  <2>2. PICK y : y \in From(ss[p], "fee_params", r)
    BY <1>3, <1>4, <2>1 DEF PrepInv
  <2>3. y \in From(ss[r], "fee_params", r)
    BY <1>1, <2>2, PeerRecord
  <2>4. /\ y.body = [fee |-> ss[p].feeParams]
        /\ y.body = [fee |-> ss[r].feeParams] /\ ss[r].feeParams # None
    BY <1>3, <1>4, <2>2, <2>3 DEF PrepInv
  <2>. QED  BY <1>2, <2>1, <2>4
<1>6. w.s.feeParams = ss[r].feeParams
  BY <1>2 DEF Took, Same, SessionFields
<1>7. Returns(r, v)
  BY <1>4, <1>5, <1>6 DEF RcvFeeParamsAck
<1>8. w.s.localNonces = None \/ w.s.peerNonces \in {None, w.s.localNonces}
  <2>1. w.s.peerNonces = ss[r].peerNonces /\ w.s.localNonces = ss[r].localNonces
    BY <1>2 DEF Took, Same, SessionFields
  <2>. QED  BY <1>1, <2>1, NoncesMatch
<1>. HIDE DEF m, w
<1>9. /\ Alive(k) /\ k.s.peerNonces = w.s.peerNonces /\ k.s.localNonces = w.s.localNonces
  BY <1>2 DEF Alive, Working, SessionFields
<1>. HIDE DEF k
<1>10. /\ Alive(kept) /\ kept.s.peerNonces = w.s.peerNonces
       /\ kept.s.localNonces = w.s.localNonces
  <2>1. Working(k) /\ Alive(kept)
    BY <1>9, AliveStatements DEF Alive
  <2>. QED  BY <1>9, <2>1, NoteEffect DEF Same, SessionFields
<1>. HIDE DEF kept
<1>11. Alive(CheckExecReady(r, kept))
  BY <1>8, <1>10, AliveChecks
<1>12. Alive(v)
  BY <1>2, <1>11
<1>. QED  BY <1>1, <1>7, <1>12, AliveEnds

\* Two parties that are ready to execute have built the same templates.
LEMMA TemplatesEqual ==
    ASSUME SInv, \A q \in Roles : Locked(q) /\ Passed(ss[q], "EXEC_READY"),
           NEW r \in Roles
    PROVE  ss[Other(r)].templates = ss[r].templates
<1>. DEFINE p == Other(r)
<1>1. p \in Roles /\ hs[p].sid = hs[r].sid
  BY OtherRole, LockedSids
<1>2. \A q \in Roles : ss[q].templates = TemplatesOf(q, ss[q])
  BY PartyInv DEF PrepInv
<1>3. ss[p].localNonces = ss[r].localNonces /\ ss[p].feeParams = ss[r].feeParams
  BY PrepAgreed
<1>. QED  BY <1>1, <1>2, <1>3 DEF TemplatesOf

\* Who takes a message has passed what opens its type, as its sender had.
LEMMA BothOpened ==
    ASSUME NEW r \in Roles, Peaceful(r), NEW type \in DOMAIN StageOf, Takes(r, type),
           type # "keygen_announce"
    PROVE  \A q \in Roles : Locked(q) /\ Passed(ss[q], OpenedBy[type])
<1>. DEFINE m == Head(net[r])
            p == Other(r)
<1>1. /\ Took(r, type, m, Heard(r, m)) /\ ss[r].state = StageOf[type]
      /\ RecordOf(m) \in From(ss[p], type, p) /\ SInv
  BY PeacefulTook DEF Peaceful
<1>2. p \in Roles /\ \A q \in Roles : q = r \/ q = p
  BY OtherRole
<1>3. Locked(r) /\ Locked(p)
  BY <1>1 DEF Took
<1>4. Passed(ss[p], OpenedBy[type])
  BY <1>1, <1>2, PartyInv DEF LogInv, From
<1>5. Passed(ss[r], OpenedBy[type])
  BY <1>1, PartyInv, StageGate
<1>. QED  BY <1>2, <1>3, <1>4, <1>5

LEMMA CalmTemplateCommit ==
    ASSUME NEW r \in Roles, Peaceful(r), RcvTemplateCommit(r)
    PROVE  ~Aborted(r)'
<1>. DEFINE m == Head(net[r])
            w == Heard(r, m)
            p == Other(r)
            hash == m.body.commitHash
            k == [w EXCEPT !.s.peerCommitHash = hash]
            kept == Note(k, m)
            sent == Send(r, kept, "tx_template_ack", [commitHash |-> hash])
            v == Keep(r, w, w.s.peerCommitHash, hash, CheckTemplatesReady(r, sent))
            x == RecordOf(m)
<1>1. /\ SInv /\ Honest /\ Takes(r, "tx_template_commit") /\ m = Head(net[r])
      /\ "tx_template_commit" \in DOMAIN StageOf /\ p \in Roles
      /\ OpenedBy["tx_template_commit"] = "EXEC_READY"
  BY OtherRole, PostTypes DEF RcvTemplateCommit, Peaceful, OpenedBy
<1>2. /\ Took(r, "tx_template_commit", m, w) /\ Alive(w)
      /\ x \in From(ss[p], "tx_template_commit", p) /\ x.body = m.body
  BY <1>1, PeacefulTook
<1>3. TemplateInv(p, ss[p]) /\ TemplateInv(r, ss[r])
  BY <1>1, PartyInv
<1>4. ss[p].templates = ss[r].templates
  BY <1>1, BothOpened, TemplatesEqual
<1>5. m.body.digests = ss[r].templates /\ hash = ss[r].templates
  <2>1. x.body = CommitBody(p, ss[p].templates)
    BY <1>2, <1>3 DEF TemplateInv
  <2>. QED  BY <1>1, <1>2, <1>4, <2>1 DEF CommitBody, Honest
<1>6. w.s.templates = ss[r].templates /\ w.s.peerCommitHash = ss[r].peerCommitHash
  BY <1>2 DEF Took, Same, SessionFields
<1>7. Returns(r, v)
  BY <1>5, <1>6 DEF RcvTemplateCommit
<1>8. w.s.peerCommitHash # None => w.s.peerCommitHash = hash
  BY <1>3, <1>5, <1>6 DEF TemplateInv
<1>. HIDE DEF m, w
<1>9. Alive(k)
  BY <1>2 DEF Alive, Working, SessionFields
<1>. HIDE DEF k
<1>10. Alive(CheckTemplatesReady(r, sent))
  BY <1>9, AliveStatements, AliveChecks
<1>. HIDE DEF sent
<1>11. Alive(v)
  BY <1>2, <1>8, <1>10, AliveKeeps
<1>. QED  BY <1>1, <1>7, <1>11, AliveEnds

LEMMA CalmTemplateAck ==
    ASSUME NEW r \in Roles, Peaceful(r), RcvTemplateAck(r)
    PROVE  ~Aborted(r)'
<1>. DEFINE m == Head(net[r])
            w == Heard(r, m)
            p == Other(r)
            k == [w EXCEPT !.s.localCommitAcked = TRUE]
            kept == Note(k, m)
            v == IF w.s.localCommitAcked THEN w ELSE CheckTemplatesReady(r, kept)
            x == RecordOf(m)
<1>1. /\ SInv /\ Honest /\ Takes(r, "tx_template_ack") /\ m = Head(net[r])
      /\ "tx_template_ack" \in DOMAIN StageOf /\ p \in Roles
      /\ OpenedBy["tx_template_ack"] = "EXEC_READY"
  BY OtherRole, PostTypes DEF RcvTemplateAck, Peaceful, OpenedBy
<1>2. /\ Took(r, "tx_template_ack", m, w) /\ Alive(w)
      /\ x \in From(ss[p], "tx_template_ack", p) /\ x.body = m.body
  BY <1>1, PeacefulTook
<1>3. ss[p].templates = ss[r].templates
  BY <1>1, BothOpened, TemplatesEqual
<1>4. m.body.commitHash = w.s.templates
  <2>1. TemplateInv(p, ss[p])
    BY <1>1, PartyInv
  <2>2. x.body = [commitHash |-> ss[p].templates]
    BY <1>2, <2>1 DEF TemplateInv
  <2>3. w.s.templates = ss[r].templates
    BY <1>2 DEF Took, Same, SessionFields
  <2>. QED  BY <1>2, <1>3, <2>2, <2>3
<1>5. Returns(r, v)
  BY <1>4 DEF RcvTemplateAck
<1>. HIDE DEF m, w
<1>6. Alive(k)
  BY <1>2 DEF Alive, Working, SessionFields
<1>. HIDE DEF k
<1>7. Alive(CheckTemplatesReady(r, kept))
  BY <1>6, AliveStatements, AliveChecks
<1>8. Alive(v)
  BY <1>2, <1>7
<1>. QED  BY <1>1, <1>5, <1>8, AliveEnds

-----------------------------------------------------------------------------
(* The adaptor signatures between honest parties *)

\* What the records of a leg say, field by field.
LEMMA LegFields ==
    ASSUME NEW r, NEW s, NEW l, LegInv(r, s, l)
    PROVE  /\ \A x \in FromLeg(s, "adaptor_start", "alice", l) :
                 x.body.digests = s.templates /\ x.body.T = s.legs[l].T
           /\ \A x \in FromLeg(s, "adaptor_resp", "bob", l) :
                 /\ x.body.digests = s.templates /\ x.body.T = s.legs[l].T
                 /\ s.legs[l].T # None /\ Signed(r, s, l, x.body.sig)
           /\ \A x \in FromLeg(s, "adaptor_ack", "alice", l) :
                 /\ x.body.digests = s.templates /\ x.body.T = s.legs[l].T
                 /\ r = "alice" => s.legs[l].adaptorSig # None
<1>1. ASSUME NEW x \in FromLeg(s, "adaptor_start", "alice", l)
      PROVE  x.body.digests = s.templates /\ x.body.T = s.legs[l].T
  <2>1. x.body = [which |-> l, digests |-> s.templates, T |-> s.legs[l].T]
    BY <1>1 DEF LegInv
  <2>. QED  BY <2>1
<1>2. ASSUME NEW x \in FromLeg(s, "adaptor_resp", "bob", l)
      PROVE  /\ x.body.digests = s.templates /\ x.body.T = s.legs[l].T
             /\ s.legs[l].T # None /\ Signed(r, s, l, x.body.sig)
  <2>1. x.body = [which |-> l, digests |-> s.templates, T |-> s.legs[l].T,
                  sig |-> x.body.sig]
    BY <1>2 DEF LegInv
  <2>2. s.legs[l].T # None /\ Signed(r, s, l, x.body.sig)
    BY <1>2 DEF LegInv
  <2>. QED  BY <2>1, <2>2
<1>3. ASSUME NEW x \in FromLeg(s, "adaptor_ack", "alice", l)
      PROVE  /\ x.body.digests = s.templates /\ x.body.T = s.legs[l].T
             /\ r = "alice" => s.legs[l].adaptorSig # None
  <2>1. x.body = [which |-> l, digests |-> s.templates, T |-> s.legs[l].T]
    BY <1>3 DEF LegInv
  <2>2. r = "alice" => s.legs[l].adaptorSig # None
    BY <1>3 DEF LegInv
  <2>. QED  BY <2>1, <2>2
<1>. QED  BY <1>1, <1>2, <1>3

\* Both parties have the same T for a leg bob has answered, and for one of which
\* bob has alice's start it is the T of the start.
LEMMA LegsAgree ==
    ASSUME SInv, NEW l \in Legs
    PROVE  LET a == ss["alice"]
               b == ss["bob"]
           IN  /\ b.legs[l].T # None =>
                     /\ b.legs[l].T = a.legs[l].T
                     /\ \A x \in FromLeg(a, "adaptor_start", "alice", l) :
                           x.body.T = b.legs[l].T
               /\ a.legs[l].adaptorSig # None =>
                     b.legs[l].T # None /\ b.legs[l].T = a.legs[l].T
<1>. DEFINE a == ss["alice"]
            b == ss["bob"]
<1>1. /\ "alice" \in Roles /\ "bob" \in Roles /\ Other("alice") = "bob"
      /\ Other("bob") = "alice"
  BY DEF Roles, Other
<1>2. LegInv("alice", a, l) /\ LegInv("bob", b, l)
  BY <1>1, PartyInv DEF AdaptorInv
<1>3. ASSUME b.legs[l].T # None
      PROVE  /\ b.legs[l].T = a.legs[l].T
             /\ \A x \in FromLeg(a, "adaptor_start", "alice", l) :
                   x.body.T = b.legs[l].T
  <2>1. FromLeg(b, "adaptor_start", "alice", l) # {}
    BY <1>2, <1>3 DEF LegInv
  <2>2. PICK y : y \in FromLeg(b, "adaptor_start", "alice", l)
    BY <2>1
  <2>3. y \in FromLeg(a, "adaptor_start", "alice", l)
    BY <1>1, <2>2, PeerLegRecord
  <2>4. y.body.T = b.legs[l].T
    BY <1>2, <2>2 DEF LegInv
  <2>5. \A x \in FromLeg(a, "adaptor_start", "alice", l) : x.body.T = a.legs[l].T
    BY <1>2 DEF LegInv
  <2>. QED  BY <2>3, <2>4, <2>5
<1>4. ASSUME a.legs[l].adaptorSig # None
      PROVE  b.legs[l].T # None /\ b.legs[l].T = a.legs[l].T
  <2>1. FromLeg(a, "adaptor_resp", "bob", l) # {}
    BY <1>2, <1>4 DEF LegInv
  <2>2. PICK y : y \in FromLeg(a, "adaptor_resp", "bob", l)
    BY <2>1
  <2>3. y \in FromLeg(b, "adaptor_resp", "bob", l)
    BY <1>1, <2>2, PeerLegRecord
  <2>4. y.body.T = a.legs[l].T
    BY <1>2, <2>2, LegFields
  <2>5. y.body.T = b.legs[l].T /\ b.legs[l].T # None
    BY <1>2, <2>3, LegFields
  <2>. QED  BY <2>4, <2>5
<1>. QED  BY <1>3, <1>4

\* A message about a leg that an honest party takes.
LEMMA LegTaken ==
    ASSUME NEW r \in Roles, Peaceful(r), NEW type \in AdaptorTypes, Takes(r, type),
           NEW m, m = Head(net[r])
    PROVE  LET p == Other(r)
               l == m.body.which
           IN  /\ SInv /\ Alive(Heard(r, m)) /\ p \in Roles /\ l \in Legs
               /\ p = "bob" <=> type = "adaptor_resp"
               /\ RecordOf(m) \in FromLeg(ss[p], type, p, l) /\ RecordOf(m).body = m.body
               /\ LegInv(p, ss[p], l) /\ m.body.digests = ss[r].templates
               /\ Heard(r, m).s.templates = ss[r].templates
               /\ Heard(r, m).s.legs = ss[r].legs
<1>. DEFINE p == Other(r)
            l == m.body.which
            w == Heard(r, m)
            x == RecordOf(m)
<1>1. /\ SInv /\ type \in DOMAIN StageOf /\ p \in Roles /\ type # "keygen_announce"
      /\ OpenedBy[type] = "EXEC_TEMPLATES_READY"
  BY OtherRole, PostTypes DEF Peaceful, AdaptorTypes, OpenedBy
<1>2. /\ Took(r, type, m, w) /\ Alive(w) /\ x \in From(ss[p], type, p) /\ x.body = m.body
  BY <1>1, PeacefulTook
<1>3. w.s.templates = ss[r].templates /\ w.s.legs = ss[r].legs
  BY <1>2 DEF Took, Same, SessionFields
<1>4. x.type = type /\ x.from = p /\ x \in Range(ss[p].post)
  BY <1>2 DEF From
<1>5. LegSaid(p, x)
  BY <1>1, <1>4, LegBody DEF SInv
<1>6. l \in Legs /\ (p = "bob" <=> type = "adaptor_resp")
  BY <1>2, <1>4, <1>5 DEF LegSaid
<1>7. LegInv(p, ss[p], l)
  BY <1>1, <1>6, PartyInv DEF AdaptorInv
<1>8. x \in FromLeg(ss[p], type, p, l)
  BY <1>2 DEF FromLeg
<1>9. ss[p].templates = ss[r].templates
  BY <1>1, BothOpened, TemplatesAgreed
<1>10. x.body.digests = ss[p].templates
  <2>1. CASE type = "adaptor_resp"
    <3>1. p = "bob"
      BY <1>6, <2>1
    <3>. QED  BY <1>7, <1>8, <2>1, <3>1, LegFields
  <2>2. CASE type \in {"adaptor_start", "adaptor_ack"}
    <3>1. p = "alice"
      BY <1>1, <1>6, <2>2 DEF Roles
    <3>. QED  BY <1>7, <1>8, <2>2, <3>1, LegFields
  <2>. QED  BY <2>1, <2>2 DEF AdaptorTypes
<1>. QED  BY <1>1, <1>2, <1>3, <1>6, <1>7, <1>8, <1>9, <1>10

LEMMA CalmAdaptorStart ==
    ASSUME NEW r \in Roles, Peaceful(r), RcvAdaptorStart(r)
    PROVE  ~Aborted(r)'
<1>. DEFINE m == Head(net[r])
            w == Heard(r, m)
            p == Other(r)
            l == m.body.which
            leg == w.s.legs[l]
            sig == AdaptorSig(l, w.s.postSeq)
            k == [w EXCEPT !.s.legs[l].T = m.body.T, !.s.legs[l].adaptorSig = sig]
            kept == Note(k, m)
            v == IF Answered(leg) THEN w
                 ELSE Send(r, kept, "adaptor_resp", RespBody(m.body, sig))
            x == RecordOf(m)
<1>1. Takes(r, "adaptor_start") /\ m = Head(net[r]) /\ "adaptor_start" \in AdaptorTypes
  BY DEF RcvAdaptorStart, AdaptorTypes
<1>2. /\ SInv /\ Alive(w) /\ p \in Roles /\ l \in Legs /\ p # "bob"
      /\ x \in FromLeg(ss[p], "adaptor_start", p, l) /\ x.body = m.body
      /\ m.body.digests = w.s.templates /\ w.s.legs = ss[r].legs
  BY <1>1, LegTaken
<1>3. p = "alice" /\ r = "bob"
  BY <1>2 DEF Roles, Other
<1>4. leg.T # None => leg.T = m.body.T
  BY <1>2, <1>3, LegsAgree
<1>5. Returns(r, v)
  BY <1>2, <1>3, <1>4 DEF RcvAdaptorStart
<1>. HIDE DEF m, w, l
<1>6. Alive(k)
  BY <1>2 DEF Alive, Working, SessionFields
<1>. HIDE DEF k
<1>7. Alive(v)
  BY <1>2, <1>6, AliveStatements
<1>. QED  BY <1>2, <1>5, <1>7, AliveEnds

LEMMA CalmAdaptorResp ==
    ASSUME NEW r \in Roles, Peaceful(r), RcvAdaptorResp(r)
    PROVE  ~Aborted(r)'
<1>. DEFINE m == Head(net[r])
            w == Heard(r, m)
            p == Other(r)
            l == m.body.which
            leg == w.s.legs[l]
            k == [w EXCEPT !.s.legs[l].T = m.body.T, !.s.legs[l].adaptorSig = m.body.sig]
            kept == Note(k, m)
            sent == Send(r, kept, "adaptor_ack",
                         [which |-> l, digests |-> m.body.digests, T |-> m.body.T])
            acked == [sent EXCEPT !.s.legs[l].acked = TRUE]
            v == IF leg.adaptorSig # None THEN w
                 ELSE IF BothLegs(r, acked) THEN Planned(acked) ELSE acked
            x == RecordOf(m)
<1>1. Takes(r, "adaptor_resp") /\ m = Head(net[r]) /\ "adaptor_resp" \in AdaptorTypes
  BY DEF RcvAdaptorResp, AdaptorTypes
<1>2. /\ SInv /\ Alive(w) /\ p = "bob" /\ l \in Legs
      /\ x \in FromLeg(ss[p], "adaptor_resp", p, l) /\ x.body = m.body
      /\ m.body.digests = w.s.templates /\ w.s.legs = ss[r].legs /\ LegInv(p, ss[p], l)
  BY <1>1, LegTaken
<1>3. r = "alice"
  BY <1>2 DEF Roles, Other
<1>4. /\ m.body.T = ss["bob"].legs[l].T /\ ss["bob"].legs[l].T # None
      /\ Signed("bob", ss["bob"], l, m.body.sig)
  BY <1>2, LegFields
<1>5. leg.T = m.body.T
  BY <1>2, <1>3, <1>4, LegsAgree
<1>6. m.body.sig.whole
  BY <1>4 DEF Signed, Peaceful, Honest
<1>7. Returns(r, v)
  BY <1>2, <1>3, <1>5, <1>6 DEF RcvAdaptorResp
<1>. HIDE DEF m, w, l
<1>8. Alive(k)
  BY <1>2 DEF Alive, Working, SessionFields
<1>. HIDE DEF k
<1>9. Alive(sent)
  BY <1>8, AliveStatements
<1>. HIDE DEF sent
<1>10. Alive(acked)
  BY <1>9 DEF Alive, Working, SessionFields
<1>. HIDE DEF acked
<1>11. Alive(v)
  BY <1>2, <1>10, AliveChecks
<1>. QED  BY <1>2, <1>7, <1>11, AliveEnds

LEMMA CalmAdaptorAck ==
    ASSUME NEW r \in Roles, Peaceful(r), RcvAdaptorAck(r)
    PROVE  ~Aborted(r)'
<1>. DEFINE m == Head(net[r])
            w == Heard(r, m)
            p == Other(r)
            l == m.body.which
            leg == w.s.legs[l]
            k == [w EXCEPT !.s.legs[l].acked = TRUE]
            acked == Note(k, m)
            v == IF leg.acked THEN w
                 ELSE IF BothLegs(r, acked) THEN Planned(acked) ELSE acked
            x == RecordOf(m)
<1>1. Takes(r, "adaptor_ack") /\ m = Head(net[r]) /\ "adaptor_ack" \in AdaptorTypes
  BY DEF RcvAdaptorAck, AdaptorTypes
<1>2. /\ SInv /\ Alive(w) /\ p \in Roles /\ l \in Legs /\ p # "bob"
      /\ x \in FromLeg(ss[p], "adaptor_ack", p, l) /\ x.body = m.body
      /\ m.body.digests = w.s.templates /\ w.s.legs = ss[r].legs /\ LegInv(p, ss[p], l)
  BY <1>1, LegTaken
<1>3. p = "alice" /\ r = "bob"
  BY <1>2 DEF Roles, Other
<1>4. m.body.T = ss["alice"].legs[l].T /\ ss["alice"].legs[l].adaptorSig # None
  BY <1>2, <1>3, LegFields
<1>5. leg.T = m.body.T
  BY <1>2, <1>3, <1>4, LegsAgree
<1>6. Returns(r, v)
  BY <1>2, <1>3, <1>5 DEF RcvAdaptorAck
<1>. HIDE DEF m, w, l
<1>7. Alive(k)
  BY <1>2 DEF Alive, Working, SessionFields
<1>. HIDE DEF k
<1>8. Alive(acked)
  BY <1>7, AliveStatements
<1>. HIDE DEF acked
<1>9. Alive(v)
  BY <1>2, <1>8, AliveChecks
<1>. QED  BY <1>2, <1>6, <1>9, AliveEnds

LEMMA CalmTxBBroadcast ==
    ASSUME NEW r \in Roles, Peaceful(r), RcvTxBBroadcast(r)
    PROVE  ~Aborted(r)'
<1>. DEFINE m == Head(net[r])
            w == Heard(r, m)
            p == Other(r)
            k == [w EXCEPT !.s.peerTxBHash = m.body.txHash]
            kept == Note(k, m)
            v == Keep(r, w, w.s.peerTxBHash, m.body.txHash, kept)
            x == RecordOf(m)
<1>1. /\ SInv /\ Takes(r, "txB_broadcast") /\ m = Head(net[r])
      /\ "txB_broadcast" \in DOMAIN StageOf /\ p \in Roles
  BY OtherRole, PostTypes DEF RcvTxBBroadcast, Peaceful
<1>2. /\ Took(r, "txB_broadcast", m, w) /\ Alive(w)
      /\ x \in From(ss[p], "txB_broadcast", p) /\ x.body = m.body
  BY <1>1, PeacefulTook
<1>3. BroadcastInv(p, ss[p], calls[p]) /\ BroadcastInv(r, ss[r], calls[r])
  BY <1>1, PartyInv
<1>4. p = "alice" /\ r = "bob"
  <2>1. p = "alice"
    BY <1>2, <1>3 DEF BroadcastInv, From
  <2>. QED  BY <2>1 DEF Roles, Other
<1>5. Returns(r, v)
  BY <1>4 DEF RcvTxBBroadcast
<1>6. w.s.peerTxBHash # None => w.s.peerTxBHash = m.body.txHash
  <2>1. w.s.peerTxBHash = ss[r].peerTxBHash
    BY <1>2 DEF Took, Same, SessionFields
  <2>2. ASSUME ss[r].peerTxBHash # None PROVE ss[r].peerTxBHash = m.body.txHash
    <3>1. PICK y : y \in From(ss[r], "txB_broadcast", p)
      BY <1>3, <1>4, <2>2 DEF BroadcastInv
    <3>2. AtMostOne(From(ss[p], "txB_broadcast", p))
      BY <1>3 DEF BroadcastInv
    <3>3. y = x
      BY <1>1, <1>2, <3>1, <3>2, SameRecord
    <3>4. ss[r].peerTxBHash = y.body.txHash
      BY <1>3, <1>4, <3>1 DEF BroadcastInv, From
    <3>. QED  BY <1>2, <3>3, <3>4
  <2>. QED  BY <2>1, <2>2
<1>. HIDE DEF m, w
<1>7. Alive(k)
  BY <1>2 DEF Alive, Working, SessionFields
<1>. HIDE DEF k
<1>8. Alive(kept)
  BY <1>7, AliveStatements
<1>. HIDE DEF kept
<1>9. Alive(v)
  BY <1>2, <1>6, <1>8, AliveKeeps
<1>. QED  BY <1>1, <1>5, <1>9, AliveEnds

LEMMA CalmTxABroadcast ==
    ASSUME NEW r \in Roles, Peaceful(r), RcvTxABroadcast(r)
    PROVE  ~Aborted(r)'
<1>. DEFINE m == Head(net[r])
            w == Heard(r, m)
            p == Other(r)
            k == [w EXCEPT !.s.peerTxAHash = m.body.txHash]
            kept == Note(k, m)
            v == Keep(r, w, w.s.peerTxAHash, m.body.txHash, kept)
            x == RecordOf(m)
<1>1. /\ SInv /\ Takes(r, "txA_broadcast") /\ m = Head(net[r])
      /\ "txA_broadcast" \in DOMAIN StageOf /\ p \in Roles
  BY OtherRole, PostTypes DEF RcvTxABroadcast, Peaceful
<1>2. /\ Took(r, "txA_broadcast", m, w) /\ Alive(w)
      /\ x \in From(ss[p], "txA_broadcast", p) /\ x.body = m.body
  BY <1>1, PeacefulTook
<1>3. BroadcastInv(p, ss[p], calls[p]) /\ BroadcastInv(r, ss[r], calls[r])
  BY <1>1, PartyInv
<1>4. p = "bob" /\ r = "alice"
  <2>1. p = "bob"
    BY <1>2, <1>3 DEF BroadcastInv, From
  <2>. QED  BY <2>1 DEF Roles, Other
<1>5. Returns(r, v)
  BY <1>4 DEF RcvTxABroadcast
<1>6. w.s.peerTxAHash # None => w.s.peerTxAHash = m.body.txHash
  <2>1. w.s.peerTxAHash = ss[r].peerTxAHash
    BY <1>2 DEF Took, Same, SessionFields
  <2>2. ASSUME ss[r].peerTxAHash # None PROVE ss[r].peerTxAHash = m.body.txHash
    <3>1. PICK y : y \in From(ss[r], "txA_broadcast", p)
      BY <1>3, <1>4, <2>2 DEF BroadcastInv
    <3>2. AtMostOne(From(ss[p], "txA_broadcast", p))
      BY <1>3 DEF BroadcastInv
    <3>3. y = x
      BY <1>1, <1>2, <3>1, <3>2, SameRecord
    <3>4. ss[r].peerTxAHash = y.body.txHash
      BY <1>3, <1>4, <3>1 DEF BroadcastInv, From
    <3>. QED  BY <1>2, <3>3, <3>4
  <2>. QED  BY <2>1, <2>2
<1>. HIDE DEF m, w
<1>7. Alive(k)
  BY <1>2 DEF Alive, Working, SessionFields
<1>. HIDE DEF k
<1>8. Alive(kept)
  BY <1>7, AliveStatements
<1>. HIDE DEF kept
<1>9. Alive(v)
  BY <1>2, <1>6, <1>8, AliveKeeps
<1>. QED  BY <1>1, <1>5, <1>9, AliveEnds

\* What comes next on a network in step is a genuine message in its order.
LEMMA CalmHead ==
    ASSUME NEW r \in Roles, Peaceful(r), Locked(r), net[r] # <<>>,
           NEW m, m = Head(net[r])
    PROVE  LET p == Other(r)
           IN  /\ p \in Roles /\ Locked(p) /\ hs[p].sid = hs[r].sid
               /\ m.type \in DOMAIN StageOf /\ m.seq \in Nat /\ m.sid = hs[r].sid
               /\ InOrder(r, m) /\ SessionOpen(r)
               /\ RecordOf(m) \in From(ss[p], m.type, p) /\ RecordOf(m).body = m.body
               /\ Alive(Heard(r, m))
<1>. DEFINE p == Other(r)
            x == RecordOf(m)
<1>1. SInv /\ InStep(r) /\ ~Aborted(r) /\ p \in Roles
  BY OtherRole DEF Peaceful
<1>2. ~Aborted(p)
  BY <1>1 DEF Peaceful
<1>3. Genuine(p, m) /\ m.from = p
  BY <1>1, HeadGenuine
<1>4. m \in Range(net[r])
  BY <1>1, RangeTail DEF SInv
<1>5. m.type \in DOMAIN StageOf /\ x \in Range(ss[p].post) /\ m.seq >= ss[r].lastPostSeq
  BY <1>1, <1>4 DEF InStep
<1>6. m.seq \in Nat /\ m.sid = hs[p].sid /\ Locked(p)
  BY <1>3, <1>5 DEF Genuine
<1>7. hs[p].sid = hs[r].sid
  BY <1>1, <1>6, LockedSids
<1>8. x.type = m.type /\ x.from = p /\ x.seq = m.seq /\ x.body = m.body
  BY <1>3 DEF RecordOf
<1>9. ~Refusal(x)
  BY <1>1, <1>2, <1>5, PartyInv DEF StateInv, Aborted
<1>10. x \in From(ss[p], m.type, p)
  BY <1>5, <1>8, <1>9 DEF From
<1>11. m.seq >= FirstPostSeq
  BY <1>1, <1>5, <1>8, PartyInv DEF NumberInv
<1>12. SessionOpen(r)
  BY <1>1, PartyInv DEF StateInv, SessionOpen, Aborted
<1>13. Alive(Heard(r, m))
  <2>1. Valid(r, m)
    BY <1>5, <1>6, <1>7, <1>11 DEF Valid, InOrder
  <2>2. /\ Working(Heard(r, m))
        /\ Same(ss[r], Heard(r, m).s, SessionFields \ {"lastPostSeq"})
    BY <1>1, <1>6, <2>1, HeardOngoing
  <2>. QED  BY <1>1, <2>2 DEF Alive, Same, SessionFields, Aborted
<1>. QED  BY <1>1, <1>5, <1>6, <1>7, <1>8, <1>10, <1>11, <1>12, <1>13 DEF InOrder

LEMMA CalmUnused ==
    ASSUME NEW r \in Roles, Peaceful(r), Locked(r), RcvUnused(r)
    PROVE  ~Aborted(r)'
<1>. DEFINE m == Head(net[r])
            w == Heard(r, m)
            p == Other(r)
            x == RecordOf(m)
<1>1. SInv /\ net[r] # <<>> /\ m = Head(net[r])
  BY DEF Peaceful, RcvUnused
<1>2. /\ p \in Roles /\ Locked(p) /\ hs[p].sid = hs[r].sid /\ SessionOpen(r)
      /\ x \in From(ss[p], m.type, p) /\ x.body = m.body /\ Alive(w)
      /\ m.type \in DOMAIN StageOf
  BY <1>1, CalmHead
<1>3. ASSUME m.type = "keygen_announce" PROVE w.s.peerMpc = m.body.keyOf
  <2>1. ss[r].state # "KEYGEN"
    BY <1>2, <1>3 DEF RcvUnused, StageOf
  <2>2. Passed(ss[r], "KEYGEN_COMPLETE")
    BY <1>1, <1>2, <2>1, PostTypes, PartyInv DEF StateInv, SessionOpen, StageOf
  <2>3. ss[r].peerMpc = <<p, hs[r].sid>>
    BY <1>1, <2>2, PartyInv, PeerKey DEF KeygenInv
  <2>4. x.body = [keyOf |-> <<p, hs[p].sid>>]
    BY <1>1, <1>2, <1>3, PartyInv DEF KeygenInv
  <2>5. w.s.peerMpc = ss[r].peerMpc
    BY PartyInv, <1>1 DEF Heard, Work, SInv, LocalInv, CoreInv, SessionFields
  <2>. QED  BY <1>2, <2>3, <2>4, <2>5
<1>4. Returns(r, w)
  BY <1>3 DEF RcvUnused
<1>. QED  BY <1>1, <1>2, <1>4, AliveEnds

\* Whatever a party hears between honest ones, it does not abort.
LEMMA CalmIncoming ==
    ASSUME NEW r \in Roles, Peaceful(r), Locked(r), SessionIncoming(r)
    PROVE  ~Aborted(r)'
<1>1. SInv /\ ~Aborted(r) /\ ss[r].state # "HANDSHAKE"
  BY PartyInv DEF Peaceful, StateInv
<1>2. ~RcvHandshake(r) /\ ~RcvAborted(r)
  BY <1>1 DEF RcvHandshake, RcvAborted, Aborted
<1>3. ASSUME net[r] # <<>>
      PROVE  /\ Head(net[r]).type # "malformed" /\ Head(net[r]).sid = hs[r].sid
             /\ InOrder(r, Head(net[r]))
  BY <1>3, CalmHead, PostTypes
<1>4. ~RcvUnparsable(r) /\ ~RcvForeignSid(r) /\ ~RcvOutOfOrder(r)
  BY <1>3 DEF RcvUnparsable, RcvForeignSid, RcvOutOfOrder
<1>5. CASE RcvUnused(r)
  BY <1>1, <1>5, CalmUnused
<1>6. CASE RcvKeygenAnnounce(r)
  BY <1>1, <1>6, CalmKeygenAnnounce
<1>7. CASE RcvCapsuleOffer(r)
  BY <1>1, <1>7, CalmCapsuleOffer
<1>8. CASE RcvCapsuleAck(r)
  BY <1>1, <1>8, CalmCapsuleAck
<1>9. CASE RcvFundingTx(r)
  BY <1>1, <1>9, CalmFundingTx
<1>10. CASE RcvNonceReport(r)
  BY <1>1, <1>10, CalmNonceReport
<1>11. CASE RcvFeeParams(r)
  BY <1>1, <1>11, CalmFeeParams
<1>12. CASE RcvFeeParamsAck(r)
  BY <1>1, <1>12, CalmFeeParamsAck
<1>13. CASE RcvTemplateCommit(r)
  BY <1>1, <1>13, CalmTemplateCommit
<1>14. CASE RcvTemplateAck(r)
  BY <1>1, <1>14, CalmTemplateAck
<1>15. CASE RcvAdaptorStart(r)
  BY <1>1, <1>15, CalmAdaptorStart
<1>16. CASE RcvAdaptorResp(r)
  BY <1>1, <1>16, CalmAdaptorResp
<1>17. CASE RcvAdaptorAck(r)
  BY <1>1, <1>17, CalmAdaptorAck
<1>18. CASE RcvTxBBroadcast(r)
  BY <1>1, <1>18, CalmTxBBroadcast
<1>19. CASE RcvTxABroadcast(r)
  BY <1>1, <1>19, CalmTxABroadcast
<1>. QED
  BY <1>2, <1>4, <1>5, <1>6, <1>7, <1>8, <1>9, <1>10, <1>11, <1>12, <1>13, <1>14,
     <1>15, <1>16, <1>17, <1>18, <1>19 DEF SessionIncoming

-----------------------------------------------------------------------------
(* No method aborts between honest parties *)

\* Which milestones an open session has passed tells its state.
LEMMA OpenState ==
    ASSUME NEW r \in Roles, SInv, SessionOpen(r)
    PROVE  /\ Passed(ss[r], "CAPSULES_VERIFIED") /\ ~Passed(ss[r], "FUNDED") =>
                 ss[r].state = "FUNDING"
           /\ Passed(ss[r], "FUNDED") /\ ~Passed(ss[r], "EXEC_READY") =>
                 ss[r].state = "EXEC_PREP"
BY PartyInv, PostTypes DEF StateInv, SessionOpen, StageOf

LEMMA CalmEmitFundingTx ==
    ASSUME NEW r \in Roles, SInv, SessionOpen(r), EmitFundingTx(r)
    PROVE  ~Aborted(r)'
<1>1. ss[r].state = "FUNDING"
  <2>1. Passed(ss[r], "CAPSULES_VERIFIED")
    BY ReachedPassed DEF EmitFundingTx
  <2>2. "emitFundingTx" \notin calls[r]
    BY DEF EmitFundingTx, CallOnce
  <2>3. ~Passed(ss[r], "FUNDED")
    BY <2>2, PartyInv DEF FundingInv
  <2>. QED  BY <2>1, <2>3, OpenState
<1>. DEFINE w == Work(ss[r])
<1>2. Alive(w) /\ w.s = ss[r]
  BY <1>1, WorkOngoing DEF Alive
<1>. HIDE DEF w
<1>3. PICK value \in FundingValues :
          LET body == [which |-> r, value |-> value]
              kept == [w EXCEPT !.s.fundingTx[r] = body]
          IN  Emits(r, InState(r, "FUNDING", w,
                  CheckFundingComplete(Send(r, kept, "funding_tx", body))))
  BY DEF EmitFundingTx, w
<1>. DEFINE body == [which |-> r, value |-> value]
            kept == [w EXCEPT !.s.fundingTx[r] = body]
            v == CheckFundingComplete(Send(r, kept, "funding_tx", body))
<1>4. Alive(kept)
  BY <1>2 DEF Alive, Working, SessionFields
<1>. HIDE DEF kept
<1>5. Alive(v)
  BY <1>4, AliveStatements, AliveChecks
<1>6. Emits(r, v)
  BY <1>1, <1>2, <1>3 DEF InState, kept
<1>. QED  BY <1>5, <1>6, AliveEnds

LEMMA CalmNotifyFundingConfirmed ==
    ASSUME NEW r \in Roles, NEW which, SInv, NotifyFundingConfirmed(r, which)
    PROVE  ~Aborted(r)'
<1>. DEFINE w == Work(ss[r])
            k == [w EXCEPT !.s.fundingConfirmed[which] = TRUE]
<1>1. Alive(w)
  BY WorkOngoing DEF Alive, NotifyFundingConfirmed
<1>2. Emits(r, CheckFundingComplete(k))
  BY DEF NotifyFundingConfirmed
<1>. HIDE DEF w
<1>3. Alive(k)
  BY <1>1 DEF Alive, Working, SessionFields
<1>. HIDE DEF k
<1>. QED  BY <1>2, <1>3, AliveChecks, AliveEnds

\* What a report leaves of a session that has none yet: a mismatch aborts it, and
\* without a fee it goes no further.
LEMMA CalmReport ==
    ASSUME NEW r, NEW w, NEW nonces \in NonceReports, Alive(w),
           w.s.state = "EXEC_PREP", w.s.localNonces = None
    PROVE  LET v == SetLocalNonceReport(r, w, nonces)
           IN  /\ w.s.peerNonces \in {None, nonces} => Alive(v)
               /\ w.s.peerNonces \in {None, nonces} /\ w.s.feeParams = None =>
                     v.s.state = "EXEC_PREP" /\ v.s.feeParams = None
               /\ w.s.peerNonces \notin {None, nonces} =>
                     v.s.state = "ABORTED" /\ v.s.localNonces = nonces
<1>. DEFINE k == [w EXCEPT !.s.localNonces = nonces]
            body == [nonces |-> nonces]
            sent == Send(r, k, "nonce_report", body)
            v == CheckExecReady(r, sent)
<1>1. Alive(k) /\ Same(w.s, k.s, SessionFields \ {"localNonces"}) /\ k.s.localNonces = nonces
  BY DEF Alive, Working, SessionFields, Same
<1>. HIDE DEF k, body
<1>2. /\ Alive(sent) /\ sent.s.localNonces = nonces /\ sent.s.peerNonces = w.s.peerNonces
      /\ sent.s.feeParams = w.s.feeParams /\ sent.s.state = "EXEC_PREP"
  <2>1. Alive(sent)
    BY <1>1, AliveStatements
  <2>2. Same(k.s, sent.s, SessionFields \ {"post", "postSeq"})
    BY <1>1, SendEffect DEF Alive, Appended
  <2>. QED  BY <1>1, <2>1, <2>2 DEF Same, SessionFields
<1>3. SetLocalNonceReport(r, w, nonces) = v
  BY DEF SetLocalNonceReport, InState, Keep, k, body
<1>. HIDE DEF sent
<1>4. w.s.peerNonces \in {None, nonces} => Alive(v)
  BY <1>2, AliveChecks
<1>5. w.s.peerNonces \in {None, nonces} /\ w.s.feeParams = None => v = sent
  BY <1>2 DEF CheckExecReady
<1>6. ASSUME w.s.peerNonces \notin {None, nonces}
      PROVE  v.s.state = "ABORTED" /\ v.s.localNonces = nonces
  <2>1. nonces # None
    BY SessionAssumption
  <2>2. v = EmitAbort(r, sent, "PROTOCOL_ERROR")
    BY <1>2, <1>6, <2>1 DEF CheckExecReady
  <2>. DEFINE e == EmitAbort(r, sent, "PROTOCOL_ERROR")
  <2>3. Working(sent)
    BY <1>2 DEF Alive
  <2>4. /\ e.s.state = "ABORTED" /\ Same(sent.s, e.s, SessionFields \ {"state", "postSeq"})
    BY <2>3, EmitAbortEffect
  <2>5. e.s.localNonces = sent.s.localNonces
    BY <2>4 DEF Same, SessionFields
  <2>. QED  BY <1>2, <2>2, <2>4, <2>5
<1>. QED  BY <1>2, <1>3, <1>4, <1>5, <1>6

LEMMA CalmProposal ==
    ASSUME NEW w, NEW fee, Alive(w), w.s.state = "EXEC_PREP", w.s.feeParams = None
    PROVE  Alive(ProposeFeeParams(w, fee))
<1>. DEFINE k == [w EXCEPT !.s.feeParams = fee]
            body == [fee |-> fee]
            sent == Send("alice", k, "fee_params", body)
<1>1. Alive(k)
  BY DEF Alive, Working, SessionFields
<1>. HIDE DEF k, body
<1>2. Alive(sent)
  BY <1>1, AliveStatements
<1>3. ProposeFeeParams(w, fee) = sent
  BY DEF ProposeFeeParams, InState, Keep, k, body
<1>. QED  BY <1>2, <1>3

\* Honest clients have read the same nonces, so the report of the second matches.
LEMMA CalmOnExecPrepStarted ==
    ASSUME NEW r \in Roles, SInv, SessionOpen(r), Honest, Honest', OnExecPrepStarted(r)
    PROVE  ~Aborted(r)'
<1>. DEFINE w == Work(ss[r])
            p == Other(r)
<1>1. PrepInv(r, ss[r], calls[r]) /\ p \in Roles /\ p # r /\ \A q \in Roles : q = r \/ q = p
  BY PartyInv, OtherRole
<1>2. /\ Passed(ss[r], "FUNDED") /\ "setLocalNonceReport" \notin calls[r]
  BY ReachedPassed DEF OnExecPrepStarted, CallOnce
<1>3. ss[r].localNonces = None /\ (r = "alice" => ss[r].feeParams = None)
  BY <1>1, <1>2 DEF PrepInv
<1>4. ss[r].state = "EXEC_PREP"
  <2>1. ~Passed(ss[r], "EXEC_READY")
    BY <1>1, <1>3 DEF PrepInv
  <2>. QED  BY <1>2, <2>1, OpenState
<1>5. Alive(w) /\ w.s = ss[r]
  BY <1>4, WorkOngoing DEF Alive
<1>. HIDE DEF w
<1>6. PICK nonces \in NonceReports, fee \in FeeChoices :
          LET reported == SetLocalNonceReport(r, w, nonces)
          IN  Emits(r, IF r = "alice" /\ reported.s.state # "ABORTED"
                       THEN ProposeFeeParams(reported, fee) ELSE reported)
  BY DEF OnExecPrepStarted, w
<1>. DEFINE reported == SetLocalNonceReport(r, w, nonces)
<1>7. /\ ss[r].peerNonces \in {None, nonces} => Alive(reported)
      /\ ss[r].peerNonces \in {None, nonces} /\ ss[r].feeParams = None =>
            reported.s.state = "EXEC_PREP" /\ reported.s.feeParams = None
      /\ ss[r].peerNonces \notin {None, nonces} =>
            reported.s.state = "ABORTED" /\ reported.s.localNonces = nonces
  BY <1>3, <1>4, <1>5, CalmReport
<1>. HIDE DEF reported
<1>8. ss[r].peerNonces \in {None, nonces}
  <2>1. SUFFICES ASSUME ss[r].peerNonces \notin {None, nonces}
                 PROVE  FALSE
    OBVIOUS
  <2>2. Emits(r, reported) /\ reported.s.localNonces = nonces
    BY <1>6, <1>7, <2>1 DEF reported
  <2>3. ss'[r].localNonces = nonces /\ ss'[p].localNonces = ss[p].localNonces
    BY <1>1, <2>2 DEF Emits, SInv
  <2>4. ss[p].localNonces = ss[r].peerNonces
    BY <2>1, NoncesMatch
  <2>5. nonces # None
    BY SessionAssumption
  <2>6. \A q \in Roles : ss'[q].localNonces # None
    BY <1>1, <2>1, <2>3, <2>4, <2>5
  <2>7. ss'["alice"].localNonces = ss'["bob"].localNonces
    BY <2>6 DEF Honest
  <2>8. ss'[r].localNonces = ss'[p].localNonces
    BY <2>7, <1>1 DEF Roles, Other
  <2>. QED  BY <2>1, <2>3, <2>4, <2>8
<1>9. CASE r = "alice"
  <2>1. /\ Alive(reported) /\ reported.s.state = "EXEC_PREP" /\ reported.s.feeParams = None
    BY <1>3, <1>7, <1>8, <1>9
  <2>2. Emits(r, ProposeFeeParams(reported, fee))
    BY <1>6, <1>9, <2>1 DEF reported
  <2>. QED  BY <2>1, <2>2, CalmProposal, AliveEnds
<1>10. CASE r # "alice"
  BY <1>6, <1>7, <1>8, <1>10, AliveEnds DEF reported
<1>. QED  BY <1>9, <1>10

LEMMA CalmAnnouncements ==
    ASSUME SInv, \A q \in Roles : SessionOpen(q), Honest',
           NEW r \in Roles,
           \/ r = "alice" /\ (AnnounceTxBHash \/ AbortOnTxA)
           \/ r = "bob" /\ AnnounceTxAHash
    PROVE  ~Aborted(r)'
<1>1. "alice" \in Roles /\ "bob" \in Roles /\ Other("bob") = "alice"
  BY DEF Roles, Other
<1>2. ~AbortOnTxA
  <2>1. SUFFICES ASSUME AbortOnTxA
                 PROVE  FALSE
    OBVIOUS
  <2>2. "abort" \in calls'["alice"]
    BY <1>1, <2>1 DEF AbortOnTxA, CallOnce, SInv
  <2>. QED  BY <2>2 DEF Honest
<1>. DEFINE w == Work(ss[r])
<1>3. ASSUME Passed(ss[r], "EXECUTION_PLANNED")
      PROVE  ss[r].state = "EXECUTION_PLANNED" /\ Alive(w) /\ w.s = ss[r]
  <2>1. ss[r].state = "EXECUTION_PLANNED"
    BY <1>3, PlannedState
  <2>. QED  BY <2>1, WorkOngoing DEF Alive
<1>. HIDE DEF w
<1>4. ASSUME Passed(ss[r], "EXECUTION_PLANNED"), NEW type, NEW body,
             Emits(r, InState(r, "EXECUTION_PLANNED", w, Send(r, w, type, body)))
      PROVE  ~Aborted(r)'
  <2>1. Emits(r, Send(r, w, type, body))
    BY <1>3, <1>4 DEF InState
  <2>2. Alive(Send(r, w, type, body))
    BY <1>3, <1>4, AliveStatements
  <2>. QED  BY <2>1, <2>2, AliveEnds
<1>5. CASE r = "alice" /\ AnnounceTxBHash
  <2>1. Passed(ss[r], "EXECUTION_PLANNED")
    BY <1>5, ReachedPassed DEF AnnounceTxBHash
  <2>2. PICK hash \in TxHashes :
            Emits(r, InState(r, "EXECUTION_PLANNED", w,
                Send(r, w, "txB_broadcast", [txHash |-> hash])))
    BY <1>5 DEF AnnounceTxBHash, w
  <2>. QED  BY <1>4, <2>1, <2>2
<1>6. CASE r = "bob" /\ AnnounceTxAHash
  <2>1. ss["bob"].peerTxBHash # None
    BY <1>6 DEF AnnounceTxAHash
  <2>2. PICK x : x \in From(ss["bob"], "txB_broadcast", "alice")
    BY <1>1, <2>1, PartyInv DEF BroadcastInv
  <2>3. Passed(ss["bob"], "EXECUTION_PLANNED")
    <3>1. x \in Range(ss["bob"].post) /\ x.type = "txB_broadcast"
      BY <2>2 DEF From
    <3>2. Passed(ss["bob"], OpenedBy[x.type])
      BY <1>1, <3>1, PartyInv DEF LogInv
    <3>. QED  BY <3>1, <3>2 DEF OpenedBy
  <2>4. PICK hash \in TxHashes :
            Emits(r, InState(r, "EXECUTION_PLANNED", w,
                Send(r, w, "txA_broadcast", [txHash |-> hash])))
    BY <1>6 DEF AnnounceTxAHash, w
  <2>. QED  BY <1>4, <1>6, <2>3, <2>4
<1>. QED  BY <1>2, <1>5, <1>6

\* Whatever a client calls between honest parties, its session does not abort.
LEMMA CalmCalls ==
    ASSUME NEW r \in Roles, SInv, \A q \in Roles : SessionOpen(q), Honest, Honest',
           ClientCalls(r)
    PROVE  ~Aborted(r)'
<1>1. CASE EmitFundingTx(r)
  BY <1>1, CalmEmitFundingTx
<1>2. CASE \E which \in Roles : NotifyFundingConfirmed(r, which)
  BY <1>2, CalmNotifyFundingConfirmed
<1>3. CASE OnExecPrepStarted(r)
  BY <1>3, CalmOnExecPrepStarted
<1>4. CASE \/ r = "alice" /\ (AnnounceTxBHash \/ AbortOnTxA)
           \/ r = "bob" /\ AnnounceTxAHash
  BY <1>4, CalmAnnouncements
<1>. QED  BY <1>1, <1>2, <1>3, <1>4 DEF ClientCalls

-----------------------------------------------------------------------------
(* What a turn leaves in step *)

\* A turn of r's leaves to the peer its session, and of r's own what it had told.
LEMMA TurnKeeps ==
    ASSUME NEW r \in Roles, SInv, Tells(r)
    PROVE  /\ UNCHANGED <<params, nonce, hs, faults, mutator>>
           /\ calls[r] \subseteq calls'[r] /\ calls'[Other(r)] = calls[Other(r)]
           /\ ss'[Other(r)] = ss[Other(r)]
           /\ ss[r].fundingTx[r] # None => ss'[r].fundingTx[r] = ss[r].fundingTx[r]
           /\ ss[r].localNonces # None => ss'[r].localNonces = ss[r].localNonces
<1>. DEFINE p == Other(r)
<1>1. PICK w : /\ Told(r, w) /\ LocalInv(r, w.s, calls'[r])
               /\ (net[r] # <<>> /\ Returns(r, w)) \/ Emits(r, w)
               /\ UNCHANGED <<params, nonce, hs, faults, mutator>>
               /\ calls' = [calls EXCEPT ![r] = calls'[r]] /\ calls[r] \subseteq calls'[r]
  BY DEF Tells
<1>2. p \in Roles /\ p # r
  BY OtherRole
<1>3. ss'[r] = w.s /\ ss'[p] = ss[p]
  BY <1>1, <1>2 DEF Returns, Emits, SInv
<1>4. calls'[p] = calls[p]
  BY <1>1, <1>2 DEF SInv
<1>5. Range(ss[r].post) \subseteq Range(w.s.post)
  BY <1>1 DEF Told
<1>6. \A type, q : From(ss[r], type, q) \subseteq From(w.s, type, q)
  BY <1>5 DEF From
<1>7. ASSUME ss[r].fundingTx[r] # None
      PROVE  w.s.fundingTx[r] = ss[r].fundingTx[r]
  <2>1. FundingInv(r, ss[r], calls[r]) /\ FundingInv(r, w.s, calls'[r])
    BY <1>1, PartyInv DEF LocalInv, CoreInv
  <2>2. PICK x : x \in From(ss[r], "funding_tx", r)
    BY <1>7, <2>1 DEF FundingInv
  <2>3. x.body = ss[r].fundingTx[r]
    BY <2>1, <2>2 DEF FundingInv
  <2>4. x.body = w.s.fundingTx[r]
    BY <1>6, <2>1, <2>2 DEF FundingInv
  <2>. QED  BY <2>3, <2>4
<1>8. ASSUME ss[r].localNonces # None
      PROVE  w.s.localNonces = ss[r].localNonces
  <2>1. PrepInv(r, ss[r], calls[r]) /\ PrepInv(r, w.s, calls'[r])
    BY <1>1, PartyInv DEF LocalInv, CoreInv
  <2>2. PICK x : x \in From(ss[r], "nonce_report", r)
    BY <1>8, <2>1 DEF PrepInv
  <2>3. x.body = [nonces |-> ss[r].localNonces]
    BY <2>1, <2>2 DEF PrepInv
  <2>4. x.body = [nonces |-> w.s.localNonces]
    BY <1>6, <2>1, <2>2 DEF PrepInv
  <2>. QED  BY <2>3, <2>4
<1>. QED  BY <1>1, <1>3, <1>4, <1>7, <1>8

\* Who is honest after a turn was honest before it.
LEMMA HonestBefore ==
    ASSUME NEW r \in Roles, SInv, Tells(r), Honest'
    PROVE  Honest
<1>. DEFINE p == Other(r)
<1>1. /\ UNCHANGED <<params, faults, mutator>> /\ calls[r] \subseteq calls'[r]
      /\ calls'[p] = calls[p] /\ ss'[p] = ss[p]
      /\ ss[r].fundingTx[r] # None => ss'[r].fundingTx[r] = ss[r].fundingTx[r]
      /\ ss[r].localNonces # None => ss'[r].localNonces = ss[r].localNonces
  BY TurnKeeps
<1>2. p \in Roles /\ (\A q \in Roles : q = r \/ q = p) /\ "alice" \in Roles /\ "bob" \in Roles
  BY OtherRole DEF Roles
<1>3. faults = 0 /\ mutator = "none" /\ params["alice"] = params["bob"]
  BY <1>1 DEF Honest
<1>4. "abort" \notin calls["alice"]
  BY <1>1, <1>2 DEF Honest
<1>5. \A q \in Roles : ss[q].fundingTx[q] # None => ss[q].fundingTx[q].value = "enough"
  BY <1>1, <1>2 DEF Honest
<1>6. ASSUME \A q \in Roles : ss[q].localNonces # None
      PROVE  ss["alice"].localNonces = ss["bob"].localNonces
  <2>1. \A q \in Roles : ss'[q].localNonces = ss[q].localNonces
    BY <1>1, <1>2, <1>6
  <2>2. ss'["alice"].localNonces = ss'["bob"].localNonces
    BY <1>6, <2>1 DEF Honest
  <2>. QED  BY <1>2, <2>1, <2>2
<1>. QED  BY <1>3, <1>4, <1>5, <1>6 DEF Honest

\* A record of q's own in its session has a number below its next.
LEMMA OwnNumber ==
    ASSUME SInv, NEW q \in Roles, NEW x \in Range(ss[q].post), x.from = q
    PROVE  x.seq \in Nat /\ x.seq < ss[q].postSeq /\ ss[q].postSeq \in Nat
BY PartyInv DEF NumberInv

\* A turn of r's after which r has not aborted leaves both in step.
LEMMA TurnInStep ==
    ASSUME NEW r \in Roles, SInv, \A q \in Roles : InStep(q), Tells(r), ~Aborted(r)'
    PROVE  \A q \in Roles : InStep(q)'
<1>. DEFINE p == Other(r)
<1>1. PICK w : /\ Told(r, w)
               /\ (net[r] # <<>> /\ Returns(r, w)) \/ Emits(r, w)
               /\ UNCHANGED hs
  BY DEF Tells
<1>2. p \in Roles /\ p # r /\ Other(p) = r /\ \A q \in Roles : q = r \/ q = p
  BY OtherRole
<1>3. ss'[r] = w.s /\ ss'[p] = ss[p] /\ net'[p] = net[p] \o w.out
  BY <1>1, <1>2 DEF Returns, Emits, Consume, SInv
<1>4. \/ net'[r] = net[r]
      \/ net[r] # <<>> /\ net'[r] = Tail(net[r])
  <2>1. DOMAIN net = Roles
    BY DEF SInv
  <2>2. CASE net[r] # <<>> /\ Returns(r, w)
    BY <1>2, <2>1, <2>2 DEF Returns, Consume
  <2>3. CASE Emits(r, w)
    BY <1>2, <2>1, <2>3 DEF Emits
  <2>. QED  BY <1>1, <2>2, <2>3
<1>5. /\ net[r] \in Seq(Range(net[r])) /\ net[p] \in Seq(Range(net[p]))
      /\ (\A m \in Range(net[r]) : Genuine(p, m)) /\ \A m \in Range(net[p]) : Genuine(r, m)
  BY <1>2 DEF SInv
<1>6. /\ InTurn(r, w) /\ Range(ss[r].post) \subseteq Range(w.s.post)
      /\ w.out \in Seq(Range(w.out)) /\ \A m \in Range(w.out) : Sendable(r, w.s, m)
  <2>1. Told(r, w)
    BY <1>1
  <2>. QED  BY <2>1 DEF Told
<1>7. InStep(r) /\ InStep(p)
  BY <1>2
<1>8. w.s.state # "ABORTED"
  BY <1>3 DEF Aborted
<1>9. /\ ss[p].postSeq \in Nat /\ ss[r].postSeq \in Nat
      /\ ss[r].lastPostSeq \in Nat \cup {-1} /\ ss[p].lastPostSeq \in Nat \cup {-1}
  BY <1>2, PartyInv DEF NumberInv
<1>10. \A m \in Range(net[r]) : m.seq \in Nat /\ m.seq < ss[p].postSeq
  <2>. TAKE m \in Range(net[r])
  <2>1. RecordOf(m) \in Range(ss[p].post)
    BY <1>2, <1>7 DEF InStep
  <2>2. RecordOf(m).from = p /\ RecordOf(m).seq = m.seq
    <3>1. m = Message(p, m.seq, m.sid, m.type, m.body)
      BY <1>5 DEF Genuine
    <3>2. m.from = p
      BY <3>1 DEF Message
    <3>. QED  BY <3>2 DEF RecordOf
  <2>. QED  BY <1>2, <2>1, <2>2, OwnNumber
<1>11. \A m \in Range(net[p]) : m.seq \in Nat /\ m.seq < ss[r].postSeq
  <2>. TAKE m \in Range(net[p])
  <2>1. RecordOf(m) \in Range(ss[r].post)
    BY <1>2, <1>7 DEF InStep
  <2>2. RecordOf(m).from = r /\ RecordOf(m).seq = m.seq
    <3>1. m = Message(r, m.seq, m.sid, m.type, m.body)
      BY <1>5 DEF Genuine
    <3>2. m.from = r
      BY <3>1 DEF Message
    <3>. QED  BY <3>2 DEF RecordOf
  <2>. QED  BY <2>1, <2>2, OwnNumber
<1>12. InStep(r)'
  <2>1. Rising(net[r])
    BY <1>7 DEF InStep
  <2>2. Rising(net'[r]) /\ Range(net'[r]) \subseteq Range(net[r])
    BY <1>4, <1>5, <2>1, RisingTail, RangeTail
  <2>3. w.s.lastPostSeq < ss[p].postSeq
    <3>1. CASE w.s.lastPostSeq = ss[r].lastPostSeq
      BY <1>7, <1>2, <3>1 DEF InStep
    <3>2. CASE net[r] # <<>> /\ w.s.lastPostSeq = Head(net[r]).seq
      BY <1>5, <1>10, <3>2, RangeTail
    <3>. QED  BY <1>6, <3>1, <3>2 DEF InTurn
  <2>4. \A m \in Range(net'[r]) : m.seq >= w.s.lastPostSeq
    <3>1. CASE w.s.lastPostSeq = ss[r].lastPostSeq
      BY <1>7, <2>2, <3>1 DEF InStep
    <3>2. CASE net[r] # <<>> /\ w.s.lastPostSeq = Head(net[r]).seq
      <4>1. \A m \in Range(net[r]) : m = Head(net[r]) \/ Head(net[r]).seq < m.seq
        BY <1>5, <2>1, <3>2, RisingTail
      <4>2. Head(net[r]).seq \in Nat
        BY <1>5, <1>10, <3>2, RangeTail
      <4>. QED  BY <1>10, <2>2, <3>2, <4>1, <4>2
    <3>. QED  BY <1>6, <3>1, <3>2 DEF InTurn
  <2>5. \A m \in Range(net'[r]) :
           m.type \in DOMAIN StageOf /\ RecordOf(m) \in Range(ss[p].post)
    BY <1>2, <1>7, <2>2 DEF InStep
  <2>. QED  BY <1>2, <1>3, <2>2, <2>3, <2>4, <2>5 DEF InStep
<1>13. InStep(p)'
  <2>1. /\ Rising(net[p]) /\ Rising(w.out) /\ ss[r].postSeq <= w.s.postSeq
        /\ w.s.postSeq \in Nat
        /\ \A m \in Range(w.out) : m.seq \in Nat /\ ss[r].postSeq <= m.seq
    BY <1>6, <1>7 DEF InStep, InTurn
  <2>2. Range(net'[p]) = Range(net[p]) \cup Range(w.out)
    BY <1>3, <1>5, <1>6, RangeConcat
  <2>3. Rising(net'[p])
    <3>. DEFINE S == Range(net[p]) \cup Range(w.out)
    <3>1. net[p] \in Seq(S) /\ w.out \in Seq(S)
      BY <1>5, <1>6
    <3>2. \A x \in Range(net[p]), y \in Range(w.out) : x.seq < y.seq
      BY <1>9, <1>11, <2>1
    <3>. HIDE DEF S
    <3>. QED  BY <1>3, <2>1, <3>1, <3>2, RisingConcat
  <2>4. ss[p].lastPostSeq < ss[r].postSeq
    BY <1>2, <1>7 DEF InStep
  <2>5. ss[p].lastPostSeq < w.s.postSeq
    BY <1>9, <2>1, <2>4
  <2>6. \A m \in Range(net'[p]) :
           /\ m.type \in DOMAIN StageOf /\ RecordOf(m) \in Range(w.s.post)
           /\ m.seq >= ss[p].lastPostSeq
    <3>. TAKE m \in Range(net'[p])
    <3>1. CASE m \in Range(net[p])
      BY <1>2, <1>6, <1>7, <3>1 DEF InStep
    <3>2. CASE m \in Range(w.out)
      <4>1. m.type # "abort"
        BY <1>6, <1>8, <3>2 DEF InTurn
      <4>2. m.type \in DOMAIN StageOf /\ RecordOf(m) \in Range(w.s.post)
        BY <1>6, <3>2, <4>1 DEF Sendable
      <4>3. m.seq >= ss[p].lastPostSeq
        BY <1>9, <2>1, <2>4, <3>2
      <4>. QED  BY <4>2, <4>3
    <3>. QED  BY <2>2, <3>1, <3>2
  <2>. QED  BY <1>2, <1>3, <2>3, <2>5, <2>6 DEF InStep
<1>. QED  BY <1>2, <1>12, <1>13

\* A turn in which two locked, honest parties are heard or called leaves them calm.
LEMMA LockedCalm ==
    ASSUME SInv, CalmInv, \A q \in Roles : Locked(q), Honest',
           NEW r \in Roles, SessionIncoming(r) \/ ClientCalls(r)
    PROVE  CalmInv'
<1>1. ASSUME NEW q \in Roles PROVE ss[q].state # "HANDSHAKE"
  BY PartyInv DEF StateInv
<1>2. Tells(r)
  <2>1. ~RcvHandshake(r)
    BY <1>1 DEF RcvHandshake
  <2>. QED  BY <2>1, TurnsKeep
<1>3. Honest
  BY <1>2, HonestBefore
<1>4. (\A p \in Roles : ~Aborted(p) /\ hs[p].state # "ABORTED") /\ \A p \in Roles : InStep(p)
  BY <1>3 DEF CalmInv
<1>5. \A p \in Roles : SessionOpen(p)
  BY <1>1, <1>4 DEF SessionOpen, Aborted
<1>6. ~Aborted(r)'
  <2>1. CASE SessionIncoming(r)
    <3>1. Peaceful(r)
      BY <1>3, <1>4 DEF Peaceful
    <3>. QED  BY <2>1, <3>1, CalmIncoming
  <2>2. CASE ClientCalls(r)
    BY <1>3, <1>5, <2>2, CalmCalls
  <2>. QED  BY <2>1, <2>2
<1>7. hs' = hs /\ ss'[Other(r)] = ss[Other(r)]
  BY <1>2, TurnKeeps
<1>8. \A p \in Roles : ~Aborted(p)'
  <2>1. ~Aborted(Other(r))'
    BY <1>4, <1>7, OtherRole DEF Aborted
  <2>. QED  BY <1>6, <2>1, OtherRole
<1>9. (\A p \in Roles : InStep(p))'
  BY <1>2, <1>4, <1>8, TurnInStep
<1>10. (\A p \in Roles : Locked(p))' /\ \A p \in Roles : hs'[p].state # "ABORTED"
  BY <1>4, <1>7 DEF Locked
<1>. QED  BY <1>8, <1>9, <1>10 DEF CalmInv

-----------------------------------------------------------------------------
(* The handshake between honest parties *)

\* Both sessions have heard nothing but greetings, over a network without faults.
Meeting ==
    /\ SInv /\ IInv /\ AckInv /\ TranscriptInv /\ OrderlyInv /\ Faultless
    /\ \A r \in Roles : ~Aborted(r) /\ ss[r].lastPostSeq = -1

\* A locked party has heard its peer's greetings, and what still comes is its peer's
\* announcement.
LEMMA GreetingsHeard ==
    ASSUME Meeting, NEW r \in Roles, Locked(r), NEW m \in Range(net[r])
    PROVE  m.type = "keygen_announce" /\ Locked(Other(r))
<1>. DEFINE p == Other(r)
<1>1. p \in Roles /\ Other(p) = r
  BY OtherRole
<1>2. m \in Spoken(p, hs[p]) /\ m \in Messages
  <2>1. net[r] \in Seq(Spoken(p, hs[p])) /\ net[r] \in Seq(Messages)
    BY <1>1 DEF Meeting, TranscriptInv, IInv, TypeOK
  <2>. QED  BY <2>1, RangeOfSeq
<1>3. m.type \in Greetings \cup {"keygen_announce"} /\ m.seq > hs[r].lastSeq
  BY DEF Meeting, OrderlyInv, OrderlyAt
<1>4. ASSUME m.type \in Greetings
      PROVE  FALSE
  <2>1. /\ TranscriptOK(r, hs[r]) /\ Confirmed(r, hs[r]) /\ TranscriptOK(p, hs[p])
        /\ hs[r] \in Runtimes /\ LockReady(hs[r])
    BY <1>1 DEF Meeting, TranscriptInv, IInv, Sound, Locked, TranscriptOK
  <2>2. PICK y : y \in Held(hs[r], m.type, p)
    BY <1>4, <2>1 DEF TranscriptOK, LockReady, Greetings
  <2>3. y \in Range(hs[r].transcript) /\ y.type = m.type /\ y.from = p
    BY <2>2 DEF Held
  <2>4. y \in Held(hs[p], m.type, p)
    BY <1>4, <2>1, <2>3 DEF Confirmed, Held
  <2>5. RecordOf(m) \in Held(hs[p], m.type, p)
    BY <1>2, <1>4 DEF Spoken, Held, RecordOf
  <2>6. y = RecordOf(m)
    BY <1>4, <2>1, <2>4, <2>5 DEF TranscriptOK, AtMostOne, Greetings
  <2>7. m.seq <= hs[r].lastSeq
    BY <2>1, <2>3, <2>6 DEF TranscriptOK, RecordOf
  <2>. QED  BY <1>2, <1>3, <2>1, <2>7 DEF Messages, Runtimes
<1>5. m.type = "keygen_announce"
  BY <1>3, <1>4
<1>. QED  BY <1>2, <1>5 DEF Spoken, Locked

\* As long as they meet, the parties are calm.
LEMMA MeetingIsCalm == Meeting => CalmInv
<1>. SUFFICES ASSUME Meeting PROVE CalmInv
  OBVIOUS
<1>1. \A r \in Roles : ~Aborted(r) /\ hs[r].state # "ABORTED"
  BY DEF Meeting, OrderlyInv, OrderlyAt
<1>2. ASSUME \A q \in Roles : Locked(q), NEW r \in Roles
      PROVE  InStep(r)
  <2>. DEFINE p == Other(r)
  <2>1. p \in Roles /\ NumberInv(p, ss[p])
    BY OtherRole, PartyInv DEF Meeting
  <2>2. ss[r].lastPostSeq < ss[p].postSeq
    BY <2>1 DEF NumberInv, Meeting, FirstPostSeq
  <2>3. Rising(net[r])
    BY DEF Meeting, OrderlyInv, OrderlyAt
  <2>4. ASSUME NEW m \in Range(net[r])
        PROVE  /\ m.type \in DOMAIN StageOf /\ RecordOf(m) \in Range(ss[p].post)
               /\ m.seq >= ss[r].lastPostSeq
    <3>1. m.type = "keygen_announce" /\ m.type \in DOMAIN StageOf
      BY <1>2, GreetingsHeard, PostTypes
    <3>2. Genuine(p, m)
      BY DEF Meeting, SInv
    <3>3. RecordOf(m) \in Range(ss[p].post) /\ m.seq \in Nat
      BY <3>1, <3>2 DEF Genuine
    <3>4. m.seq >= -1
      BY <3>3
    <3>. QED  BY <3>1, <3>3, <3>4 DEF Meeting
  <2>. QED  BY <2>2, <2>3, <2>4 DEF InStep
<1>. QED  BY <1>1, <1>2 DEF CalmInv, Meeting

\* While a party is unlocked, both hear greetings only.
LEMMA MeetingHears ==
    ASSUME Meeting, ~(\A q \in Roles : Locked(q)), NEW r \in Roles, SessionIncoming(r)
    PROVE  RcvHandshake(r)
<1>1. ~Aborted(r) /\ StateInv(r, ss[r])
  BY PartyInv DEF Meeting
<1>2. ASSUME ss[r].state # "HANDSHAKE"
      PROVE  net[r] = <<>>
  <2>1. Locked(r) /\ ~Locked(Other(r))
    BY <1>1, <1>2, OtherRole DEF StateInv, Aborted
  <2>2. ASSUME net[r] # <<>> PROVE FALSE
    <3>1. net[r] \in Seq(Range(net[r]))
      BY DEF Meeting, SInv
    <3>2. Head(net[r]) \in Range(net[r])
      BY <2>2, <3>1, RangeTail
    <3>. QED  BY <2>1, <3>2, GreetingsHeard
  <2>. QED  BY <2>2
<1>3. ASSUME net[r] # <<>>
      PROVE  Head(net[r]).type # "malformed"
  <2>1. net[r] \in Seq(Range(net[r]))
    BY DEF Meeting, SInv
  <2>2. Head(net[r]) \in Range(net[r])
    BY <1>3, <2>1, RangeTail
  <2>. QED  BY <2>2 DEF Meeting, OrderlyInv, OrderlyAt, Greetings
<1>4. ~RcvAborted(r) /\ ~RcvUnparsable(r)
  BY <1>1, <1>3 DEF RcvAborted, Aborted, RcvUnparsable
<1>5. ~RcvForeignSid(r) /\ ~RcvOutOfOrder(r) /\ ~RcvUnused(r)
  BY <1>2 DEF RcvForeignSid, RcvOutOfOrder, RcvUnused, SessionOpen
<1>6. \A type \in DOMAIN StageOf : ~Takes(r, type)
  BY <1>2, PostTypes DEF Takes, StageOf
<1>. QED
  BY <1>4, <1>5, <1>6, PostTypes
     DEF SessionIncoming, RcvKeygenAnnounce, RcvCapsuleOffer, RcvCapsuleAck, RcvFundingTx,
         RcvNonceReport, RcvFeeParams, RcvFeeParamsAck, RcvTemplateCommit, RcvTemplateAck,
         RcvAdaptorStart, RcvAdaptorResp, RcvAdaptorAck, RcvTxBBroadcast, RcvTxABroadcast

\* A client calls no method before both parties have locked.
LEMMA CallsNeedLocks ==
    ASSUME SInv, NEW r \in Roles, ClientCalls(r)
    PROVE  \A q \in Roles : Locked(q)
<1>. DEFINE p == Other(r)
<1>1. /\ StateInv(r, ss[r]) /\ LogInv(ss[r]) /\ KeygenInv(r, ss[r])
      /\ BroadcastInv(r, ss[r], calls[r]) /\ p \in Roles /\ KeygenInv(p, ss[p])
  BY PartyInv, OtherRole
<1>2. ASSUME NEW type \in {"txB_broadcast", "txA_broadcast"}, NEW q,
             From(ss[r], type, q) # {}
      PROVE  Passed(ss[r], "EXECUTION_PLANNED")
  <2>1. PICK x : x \in Range(ss[r].post) /\ x.type = type
    BY <1>2 DEF From
  <2>2. Passed(ss[r], OpenedBy[type])
    BY <1>1, <2>1 DEF LogInv
  <2>. QED  BY <2>2 DEF OpenedBy
<1>3. \/ Passed(ss[r], "CAPSULES_VERIFIED") \/ Passed(ss[r], "FUNDED")
      \/ Passed(ss[r], "EXECUTION_PLANNED")
  <2>1. CASE EmitFundingTx(r)
    BY <2>1, ReachedPassed DEF EmitFundingTx
  <2>2. CASE \E which \in Roles : NotifyFundingConfirmed(r, which)
    BY <1>1, <2>2 DEF NotifyFundingConfirmed, StateInv
  <2>3. CASE OnExecPrepStarted(r)
    BY <2>3, ReachedPassed DEF OnExecPrepStarted
  <2>4. CASE r = "alice" /\ AnnounceTxBHash
    BY <2>4, ReachedPassed DEF AnnounceTxBHash
  <2>5. CASE r = "alice" /\ AbortOnTxA
    BY <1>1, <1>2, <2>5 DEF AbortOnTxA, BroadcastInv
  <2>6. CASE r = "bob" /\ AnnounceTxAHash
    BY <1>1, <1>2, <2>6 DEF AnnounceTxAHash, BroadcastInv
  <2>. QED  BY <2>1, <2>2, <2>3, <2>4, <2>5, <2>6 DEF ClientCalls
<1>4. ss[r].peerMpc # None
  <2>1. Passed(ss[r], "KEYGEN_COMPLETE")
    BY <1>1, <1>3 DEF StateInv
  <2>. QED  BY <1>1, <2>1 DEF KeygenInv
<1>5. Locked(r) /\ From(ss[r], "keygen_announce", p) # {}
  BY <1>1, <1>4 DEF KeygenInv
<1>6. From(ss[p], "keygen_announce", p) # {}
  BY <1>5, PeerRecord
<1>. QED  BY <1>1, <1>5, <1>6, OtherRole DEF KeygenInv

\* What a greeting changes of r's session leaves alone what has been heard, funded and
\* reported, and aborts no session whose handshake has not aborted.
LEMMA GreetingFields ==
    ASSUME SInv, NEW r \in Roles, RcvHandshake(r)
    PROVE  \E s : /\ ss' = [ss EXCEPT ![r] = s]
                  /\ s.fundingTx = ss[r].fundingTx /\ s.localNonces = ss[r].localNonces
                  /\ s.lastPostSeq = ss[r].lastPostSeq
                  /\ s.state = "ABORTED" => hs'[r].state = "ABORTED"
<1>1. DOMAIN ss[r] = SessionFields /\ ss[r].state = "HANDSHAKE"
  BY DEF SInv, LocalInv, CoreInv, RcvHandshake
<1>. DEFINE s == CASE hs'[r].state = "LOCKED"  -> AfterLock(r, ss[r], hs'[r].sid)
                   [] hs'[r].state = "ABORTED" -> [ss[r] EXCEPT !.state = "ABORTED"]
                   [] OTHER                    -> ss[r]
<1>2. ss' = [ss EXCEPT ![r] = s]
  BY <1>1 DEF RcvHandshake
<1>3. CASE hs'[r].state = "LOCKED"
  <2>1. s = AfterLock(r, ss[r], hs'[r].sid)
    BY <1>3
  <2>. HIDE DEF s
  <2>2. /\ s.fundingTx = ss[r].fundingTx /\ s.localNonces = ss[r].localNonces
        /\ s.lastPostSeq = ss[r].lastPostSeq /\ s.state = "KEYGEN"
    BY <1>1, <2>1 DEF AfterLock, SessionFields
  <2>. QED  BY <1>2, <2>2
<1>4. CASE hs'[r].state = "ABORTED"
  <2>1. s = [ss[r] EXCEPT !.state = "ABORTED"]
    BY <1>4
  <2>. QED  BY <1>1, <1>2, <1>4, <2>1 DEF SessionFields
<1>5. CASE hs'[r].state \notin {"LOCKED", "ABORTED"}
  <2>1. s = ss[r]
    BY <1>5
  <2>. QED  BY <1>1, <1>2, <2>1
<1>. QED  BY <1>3, <1>4, <1>5

\* The handshake touches none of the fields by which a party is honest.
LEMMA HonestGreets ==
    ASSUME SInv, Honest', NEW r \in Roles, StartHandshake(r) \/ RcvHandshake(r)
    PROVE  Honest
<1>1. /\ UNCHANGED <<params, faults, calls, mutator>>
      /\ \A q \in Roles :
            ss'[q].fundingTx = ss[q].fundingTx /\ ss'[q].localNonces = ss[q].localNonces
  <2>1. CASE StartHandshake(r)
    BY <2>1 DEF StartHandshake, Start
  <2>2. CASE RcvHandshake(r)
    <3>1. UNCHANGED <<params, faults, calls, mutator>>
      BY <2>2 DEF RcvHandshake, HandleIncoming, RcvClosed, RcvMalformed, RcvReplay,
                  RcvUnexpectedSid, RcvHelloMismatch, RcvHello, RcvHelloAck, RcvOther
    <3>2. PICK s : /\ ss' = [ss EXCEPT ![r] = s]
                   /\ s.fundingTx = ss[r].fundingTx /\ s.localNonces = ss[r].localNonces
                   /\ s.lastPostSeq = ss[r].lastPostSeq
                   /\ s.state = "ABORTED" => hs'[r].state = "ABORTED"
      BY <2>2, GreetingFields
    <3>. QED  BY <3>1, <3>2 DEF SInv
  <2>. QED  BY <2>1, <2>2
<1>. QED  BY <1>1 DEF Honest, Roles

\* A step of the handshake between honest parties is one of a meeting.
LEMMA MeetingGreets ==
    ASSUME Meeting, SInv', NEW r \in Roles, StartHandshake(r) \/ RcvHandshake(r)
    PROVE  Meeting'
<1>1. Start(r) \/ HandleIncoming(r)
  BY DEF StartHandshake, RcvHandshake
<1>2. IInv /\ AckInv /\ TranscriptInv /\ OrderlyInv /\ Faultless /\ [Next]_hsVars
  BY <1>1 DEF Meeting, Next
<1>3. IInv'
  BY <1>2, InvariantStays
<1>4. AckInv' /\ TranscriptInv' /\ OrderlyInv'
  BY <1>2, <1>3, AcksStay, TranscriptsStay, PastStays
<1>5. Faultless'
  BY <1>1, <1>2 DEF Start, HandleIncoming, RcvClosed, RcvMalformed, RcvReplay,
     RcvUnexpectedSid, RcvHelloMismatch, RcvHello, RcvHelloAck, RcvOther, Faultless
<1>6. hs'[r].state # "ABORTED"
  BY <1>4, <1>5 DEF OrderlyInv, OrderlyAt
<1>7. ASSUME NEW q \in Roles
      PROVE  ss'[q].state # "ABORTED" /\ ss'[q].lastPostSeq = -1
  <2>1. ss[q].state # "ABORTED" /\ ss[q].lastPostSeq = -1
    BY DEF Meeting, Aborted
  <2>2. CASE StartHandshake(r)
    BY <2>1, <2>2 DEF StartHandshake
  <2>3. CASE RcvHandshake(r)
    <3>1. PICK s : /\ ss' = [ss EXCEPT ![r] = s]
                   /\ s.fundingTx = ss[r].fundingTx /\ s.localNonces = ss[r].localNonces
                   /\ s.lastPostSeq = ss[r].lastPostSeq
                   /\ s.state = "ABORTED" => hs'[r].state = "ABORTED"
      BY <2>3, GreetingFields DEF Meeting
    <3>2. q = r => s.state # "ABORTED"
      BY <1>6, <2>1, <3>1
    <3>. QED  BY <2>1, <3>1, <3>2 DEF Meeting, SInv
  <2>. QED  BY <2>2, <2>3
<1>. QED  BY <1>3, <1>4, <1>5, <1>7 DEF Meeting, Aborted

-----------------------------------------------------------------------------
(* Honest parties stay calm *)

\* A calm step leaves the parties calm, or still meeting.
LEMMA CalmStep ==
    ASSUME SInv, SInv', Whole, CalmInv, [SessionNext]_sessionVars
    PROVE  CalmInv' \/ Meeting'
<1>. SUFFICES ASSUME Honest' PROVE CalmInv' \/ Meeting'
  BY DEF CalmInv
<1>1. CASE UNCHANGED sessionVars
  <2>1. /\ params' = params /\ nonce' = nonce /\ hs' = hs /\ net' = net /\ ss' = ss
        /\ calls' = calls /\ mutator' = mutator /\ faults' = faults
    BY <1>1 DEF sessionVars
  <2>2. Honest
    BY <2>1 DEF Honest
  <2>3. (\A r \in Roles : ~Aborted(r) /\ hs[r].state # "ABORTED")'
    BY <2>1, <2>2 DEF CalmInv, Aborted
  <2>4. CASE \A r \in Roles : Locked(r)
    <3>1. (\A r \in Roles : Locked(r) /\ InStep(r))'
      BY <2>1, <2>2, <2>4 DEF CalmInv, InStep, Locked
    <3>. QED  BY <2>3, <3>1 DEF CalmInv
  <2>5. CASE ~(\A r \in Roles : Locked(r))
    <3>1. Meeting
      BY <2>2, <2>5 DEF CalmInv, Meeting, Honest, Faultless
    <3>2. [Next]_hsVars /\ IInv /\ AckInv /\ TranscriptInv /\ OrderlyInv
      BY <2>1, <3>1 DEF hsVars, Meeting
    <3>3. IInv'
      BY <3>2, InvariantStays
    <3>4. AckInv' /\ TranscriptInv' /\ OrderlyInv' /\ Faultless'
      BY <2>1, <3>1, <3>2, <3>3, AcksStay, TranscriptsStay, PastStays DEF Meeting, Faultless
    <3>. QED  BY <2>1, <3>1, <3>3, <3>4 DEF Meeting, Aborted
  <2>. QED  BY <2>4, <2>5
<1>2. CASE SessionNetwork \/ \E r \in Roles : TamperCapsule(r)
  <2>1. faults' = faults + 1
    BY <1>2 DEF SessionNetwork, Network, Duplicate, Lose, Reorder, Corrupt, TamperCapsule,
                MayFail
  <2>2. faults \in Nat /\ faults' = 0
    BY DEF Whole, Honest
  <2>. QED  BY <2>1, <2>2
<1>3. ASSUME NEW r \in Roles, StartHandshake(r) \/ SessionIncoming(r) \/ ClientCalls(r)
      PROVE  CalmInv' \/ Meeting'
  <2>1. CASE \A q \in Roles : Locked(q)
    <3>1. ~StartHandshake(r)
      BY <2>1 DEF StartHandshake, Start, Locked
    <3>. QED  BY <1>3, <2>1, <3>1, LockedCalm
  <2>2. CASE ~(\A q \in Roles : Locked(q))
    <3>1. ~ClientCalls(r)
      BY <2>2, CallsNeedLocks
    <3>2. Honest
      <4>1. CASE StartHandshake(r)
        BY <4>1, HonestGreets
      <4>2. CASE SessionIncoming(r)
        BY <4>2, TurnsKeep, HonestBefore, HonestGreets
      <4>. QED  BY <1>3, <3>1, <4>1, <4>2
    <3>3. Meeting
      BY <2>2, <3>2 DEF CalmInv, Meeting, Honest, Faultless
    <3>4. StartHandshake(r) \/ RcvHandshake(r)
      BY <1>3, <2>2, <3>1, <3>3, MeetingHears
    <3>. QED  BY <3>3, <3>4, MeetingGreets
  <2>. QED  BY <2>1, <2>2
<1>. QED  BY <1>1, <1>2, <1>3 DEF SessionNext

\* A session starts with a meeting.
LEMMA SessionMeets ==
    ASSUME SessionInit
    PROVE  CalmInv
<1>1. IInv /\ Init
  BY Initially DEF SessionInit
<1>2. AckInv /\ TranscriptInv /\ OrderlyInv
  BY <1>1, AcksStart, TranscriptsStart, PastStarts
<1>3. \A r \in Roles : ~Aborted(r) /\ ss[r].lastPostSeq = -1 /\ ~Locked(r) /\ hs[r].state = "INIT"
  BY DEF SessionInit, SessionCreated, Aborted, Init, Created, Locked
<1>. QED  BY <1>1, <1>2, <1>3 DEF CalmInv, Roles

\* Two honest parties are in step from the first message of the session to the last:
\* neither has aborted, each has recorded whatever the other has yet to hear, and what
\* is under way is in the order of the numbers and none of them is below the last heard.
THEOREM HonestStayCalm == SessionSpec => []CalmInv
<1>1. SessionInit => CalmInv
  BY SessionMeets
<1>2. SInv /\ SInv' /\ Whole /\ CalmInv /\ [SessionNext]_sessionVars => CalmInv' \/ Meeting'
  BY CalmStep
<1>3. Meeting => CalmInv
  BY MeetingIsCalm
<1>. QED  BY <1>1, <1>2, <1>3, SessionInvariance, WholeStays, PTL DEF SessionSpec

\* Two parties that play by the protocol over a network that has not failed never abort,
\* however their messages and their clients' calls interleave: what was thrown away on
\* the way, as it can be at the end of funding, makes neither refuse what comes after.
THEOREM HonestSessionsNeverAbort == SessionSpec => []HonestNeverAborts
<1>1. CalmInv => HonestNeverAborts
  BY DEF CalmInv, HonestNeverAborts
<1>. QED  BY <1>1, HonestStayCalm, PTL

-----------------------------------------------------------------------------
(* What a handler carries from what it found *)

\* The fields that tell whether a milestone is met.
AwaitedFor ==
    [KEYGEN_COMPLETE      |-> {"peerMpc"},
     CAPSULES_VERIFIED    |-> {"capsuleReceived", "capsuleAcked"},
     FUNDED               |-> {"fundingTx", "fundingConfirmed"},
     EXEC_READY           |-> {"localNonces", "peerNonces", "feeParams", "feeAcked"},
     EXEC_TEMPLATES_READY |-> {"peerCommitHash", "localCommitAcked"},
     EXECUTION_PLANNED    |-> {"legs"}]

Awaited == {"peerMpc", "capsuleReceived", "capsuleAcked", "fundingTx", "fundingConfirmed",
            "localNonces", "peerNonces", "feeParams", "feeAcked", "peerCommitHash",
            "localCommitAcked"}

\* From s to t only the fields of F change what r waits for, and no milestone is undone.
Spared(r, s, t, F) ==
    /\ Same(s, t, Awaited \ F)
    /\ "legs" \in F \/ \A leg \in Legs : LegDone(r, t.legs[leg]) <=> LegDone(r, s.legs[leg])
    /\ \A event \in Milestones : Passed(s, event) => Passed(t, event)

\* A work whose fields are as the handlers find them.
Recording(w) ==
    /\ Working(w) /\ w.s.post \in Seq(Range(w.s.post))
    /\ DOMAIN w.s.milestones = Milestones /\ DOMAIN w.s.legs = Legs
    /\ \A leg \in Legs : DOMAIN w.s.legs[leg] = {"T", "adaptorSig", "acked"}

\* Between w and v records are added, and r waits for the same.
Carries(r, w, v) ==
    /\ Recording(v) /\ Spared(r, w.s, v.s, {})
    /\ Range(w.s.post) \subseteq Range(v.s.post)

\* What two works carry in turn, they carry together.
LEMMA CarriesOn ==
    ASSUME NEW r, NEW w, NEW v, NEW u, Carries(r, w, v), Carries(r, v, u)
    PROVE  Carries(r, w, u)
BY DEF Carries, Spared, Same

\* A record noted leaves all that r waits for, and is found in the record.
LEMMA NoteCarries ==
    ASSUME NEW r, NEW w, NEW m, Recording(w)
    PROVE  Carries(r, w, Note(w, m)) /\ RecordOf(m) \in Range(Note(w, m).s.post)
<1>. DEFINE v == Note(w, m)
<1>1. /\ Working(v) /\ v.s.post = Append(w.s.post, RecordOf(m))
      /\ Same(w.s, v.s, SessionFields \ {"post"})
  BY NoteEffect DEF Recording
<1>. HIDE DEF v
<1>2. v.s.post \in Seq(Range(v.s.post)) /\ Range(v.s.post) = Range(w.s.post) \cup {RecordOf(m)}
  BY <1>1, RangeAppend DEF Recording
<1>. QED
  BY <1>1, <1>2 DEF Carries, Recording, Spared, Same, SessionFields, Awaited, Passed, v

\* So does a message sent, whose own record is found too.
LEMMA SendCarries ==
    ASSUME NEW r, NEW q, NEW w, NEW type, NEW body, Recording(w)
    PROVE  LET v == Send(q, w, type, body)
           IN  /\ Carries(r, w, v)
               /\ \E x \in Range(v.s.post) : x.type = type /\ x.from = q /\ x.body = body
<1>. DEFINE v == Send(q, w, type, body)
            x == RecordOf(NextMessage(q, w, type, body))
<1>1. /\ Working(v) /\ v.s.post = Append(w.s.post, x)
      /\ Same(w.s, v.s, SessionFields \ {"post", "postSeq"})
  BY SendEffect DEF Recording, Appended
<1>2. x.type = type /\ x.from = q /\ x.body = body
  BY DEF NextMessage, Message, RecordOf
<1>. HIDE DEF v, x
<1>3. v.s.post \in Seq(Range(v.s.post)) /\ Range(v.s.post) = Range(w.s.post) \cup {x}
  BY <1>1, RangeAppend DEF Recording
<1>. QED
  BY <1>1, <1>2, <1>3 DEF Carries, Recording, Spared, Same, SessionFields, Awaited, Passed, v

\* A refusal leaves all that r waits for.
LEMMA AbortCarries ==
    ASSUME NEW r, NEW q, NEW w, NEW code, Recording(w)
    PROVE  LET v == EmitAbort(q, w, code) IN Carries(r, w, v) /\ v.s.state = "ABORTED"
<1>. DEFINE v == EmitAbort(q, w, code)
<1>1. /\ Working(v) /\ v.s.state = "ABORTED"
      /\ Same(w.s, v.s, SessionFields \ {"state", "postSeq"})
  BY EmitAbortEffect DEF Recording
<1>. HIDE DEF v
<1>. QED  BY <1>1 DEF Carries, Recording, Spared, Same, SessionFields, Awaited, Passed, v

\* A milestone reached leaves it too, and is passed.
LEMMA PassCarries ==
    ASSUME NEW r, NEW w, NEW event \in Milestones, NEW state, Recording(w), w.s.post # <<>>
    PROVE  LET v == Enter(Reach(w, event), state) IN Carries(r, w, v) /\ Passed(v.s, event)
<1>. DEFINE k == Reach(w, event)
            v == Enter(k, state)
<1>1. /\ Working(k)
      /\ k.s.milestones = [w.s.milestones EXCEPT ![event] = w.s.post]
      /\ Same(w.s, k.s, SessionFields \ {"milestones"})
  BY ReachEffect DEF Recording
<1>2. Working(v) /\ Same(k.s, v.s, SessionFields \ {"state"})
  BY <1>1, EnterEffect
<1>. HIDE DEF k, v
<1>3. /\ Same(w.s, v.s, SessionFields \ {"milestones", "state"})
      /\ v.s.milestones = [w.s.milestones EXCEPT ![event] = w.s.post]
  BY <1>1, <1>2 DEF Same, SessionFields
<1>4. Recording(v) /\ v.s.post = w.s.post
  BY <1>2, <1>3 DEF Recording, Same, SessionFields
<1>5. \A e \in Milestones : Passed(w.s, e) \/ e = event => Passed(v.s, e)
  BY <1>3 DEF Recording, Passed
<1>. QED  BY <1>3, <1>4, <1>5 DEF Carries, Spared, Same, SessionFields, Awaited, v, k

\* So does the opening of a leg.
LEMMA StartCarries ==
    ASSUME NEW r, NEW q, NEW w, NEW leg \in Legs, Recording(w)
    PROVE  Carries(r, w, StartLeg(q, w, leg))
<1>. DEFINE T == AdaptorT(leg, w.s.templates)
            k == [w EXCEPT !.s.legs[leg].T = T]
            body == [which |-> leg, digests |-> w.s.templates, T |-> T]
            v == Send(q, k, "adaptor_start", body)
<1>1. /\ Working(k) /\ Same(w.s, k.s, SessionFields \ {"legs"})
      /\ k.s.legs = [w.s.legs EXCEPT ![leg].T = T]
  BY DEF Recording, Working, SessionFields, Same
<1>. HIDE DEF k, T, body
<1>2. /\ DOMAIN k.s.legs = Legs
      /\ \A l \in Legs : /\ DOMAIN k.s.legs[l] = {"T", "adaptorSig", "acked"}
                         /\ k.s.legs[l].adaptorSig = w.s.legs[l].adaptorSig
                         /\ k.s.legs[l].acked = w.s.legs[l].acked
  BY <1>1 DEF Recording
<1>3. Carries(r, w, k)
  BY <1>1, <1>2
     DEF Carries, Recording, Spared, Same, SessionFields, Awaited, Passed, LegDone
<1>4. Carries(r, k, v)
  BY <1>3, SendCarries DEF Carries
<1>5. Carries(r, w, v)
  BY <1>3, <1>4, CarriesOn
<1>. QED  BY <1>5 DEF StartLeg, k, T, body

\* Whether a milestone is met depends on its fields alone.
LEMMA MetSame ==
    ASSUME NEW r, NEW s, NEW t, NEW F, Spared(r, s, t, F), NEW event \in Milestones,
           AwaitedFor[event] \cap F = {}
    PROVE  Met(r, t, event) <=> Met(r, s, event)
<1>1. CASE event = "KEYGEN_COMPLETE"
  <2>. QED  BY <1>1 DEF Met, Spared, Same, AwaitedFor, Awaited
<1>2. CASE event = "CAPSULES_VERIFIED"
  <2>. QED  BY <1>2 DEF Met, Spared, Same, AwaitedFor, Awaited
<1>3. CASE event = "FUNDED"
  <2>1. t.fundingTx = s.fundingTx /\ t.fundingConfirmed = s.fundingConfirmed
    BY <1>3 DEF Spared, Same, AwaitedFor, Awaited
  <2>. QED  BY <1>3, <2>1 DEF Met
<1>4. CASE event = "EXEC_READY"
  <2>. QED  BY <1>4 DEF Met, Spared, Same, AwaitedFor, Awaited
<1>5. CASE event = "EXEC_TEMPLATES_READY"
  <2>. QED  BY <1>5 DEF Met, Spared, Same, AwaitedFor, Awaited
<1>6. CASE event = "EXECUTION_PLANNED"
  <2>1. \A leg \in Legs : LegDone(r, t.legs[leg]) <=> LegDone(r, s.legs[leg])
    BY <1>6 DEF Spared, AwaitedFor
  <2>. QED  BY <1>6, <2>1 DEF Met
<1>. QED  BY <1>1, <1>2, <1>3, <1>4, <1>5, <1>6, MilestoneSet

\* Each check... function passes its milestone when it is met, or aborts.
Checks(r, w, v, event) ==
    /\ Carries(r, w, v)
    /\ v.s.state # "ABORTED" /\ Met(r, v.s, event) => Passed(v.s, event)

\* A check that passes what is met, or aborts, is a check in the sense above.
LEMMA CheckPasses ==
    ASSUME NEW r, NEW w, NEW v, NEW event \in Milestones, Carries(r, w, v),
           Met(r, w.s, event) => Passed(v.s, event) \/ v.s.state = "ABORTED"
    PROVE  Checks(r, w, v, event)
BY MetSame DEF Checks, Carries

\* Each of the check... functions passes its milestone as soon as that is met.
LEMMA CheckPassesNow ==
    ASSUME NEW r, NEW w, Recording(w), w.s.post # <<>>
    PROVE  /\ Checks(r, w, CheckKeygenComplete(r, w), "KEYGEN_COMPLETE")
           /\ Checks(r, w, CheckCapsulesVerified(w), "CAPSULES_VERIFIED")
           /\ Checks(r, w, CheckFundingComplete(w), "FUNDED")
           /\ Checks(r, w, CheckExecReady(r, w), "EXEC_READY")
           /\ Checks(r, w, CheckTemplatesReady(r, w), "EXEC_TEMPLATES_READY")
           /\ Checks(r, w, Planned(w), "EXECUTION_PLANNED")
<1>. Carries(r, w, w)
  BY DEF Carries, Spared, Same
<1>1. \A event \in Milestones : \A state :
          LET v == Enter(Reach(w, event), state) IN Carries(r, w, v) /\ Passed(v.s, event)
  BY PassCarries
<1>2. Checks(r, w, CheckKeygenComplete(r, w), "KEYGEN_COMPLETE")
  <2>. DEFINE k == Enter(Reach(w, "KEYGEN_COMPLETE"), "CAPSULES_EXCHANGE")
  <2>1. Carries(r, w, k) /\ Passed(k.s, "KEYGEN_COMPLETE")
    BY <1>1, MilestoneSet
  <2>. HIDE DEF k
  <2>2. Carries(r, k, CheckKeygenComplete(r, w))
    BY <2>1, SendCarries DEF CheckKeygenComplete, k, Carries
  <2>3. Passed(CheckKeygenComplete(r, w).s, "KEYGEN_COMPLETE")
    BY <2>1, <2>2, MilestoneSet DEF Carries, Spared
  <2>. QED  BY <2>1, <2>2, <2>3, CarriesOn, CheckPasses, MilestoneSet
<1>3. Checks(r, w, CheckCapsulesVerified(w), "CAPSULES_VERIFIED")
  <2>1. Met(r, w.s, "CAPSULES_VERIFIED") <=> w.s.capsuleReceived /\ w.s.capsuleAcked
    BY DEF Met
  <2>. QED  BY <1>1, <2>1, CheckPasses, MilestoneSet DEF CheckCapsulesVerified
<1>4. Checks(r, w, CheckFundingComplete(w), "FUNDED")
  <2>1. Met(r, w.s, "FUNDED") <=>
            \A q \in Roles : w.s.fundingConfirmed[q] /\ w.s.fundingTx[q] # None
    BY DEF Met
  <2>. QED  BY <1>1, <2>1, CheckPasses, MilestoneSet DEF CheckFundingComplete
<1>5. Checks(r, w, CheckExecReady(r, w), "EXEC_READY")
  <2>. DEFINE digests == TemplatesOf(r, w.s)
              reached == Reach(w, "EXEC_READY")
              ready == [reached EXCEPT !.s.templates = digests]
              sent == Send(r, ready, "tx_template_commit", CommitBody(r, digests))
              end == Enter(sent, "EXEC_TEMPLATES_SYNC")
  <2>1. /\ Working(reached) /\ Same(w.s, reached.s, SessionFields \ {"milestones"})
        /\ reached.s.milestones = [w.s.milestones EXCEPT !["EXEC_READY"] = w.s.post]
    BY ReachEffect DEF Recording
  <2>. HIDE DEF reached, digests
  <2>2. /\ Working(ready) /\ Same(reached.s, ready.s, SessionFields \ {"templates"})
    BY <2>1 DEF Working, SessionFields, Same
  <2>. HIDE DEF ready
  <2>3. Recording(ready)
    BY <2>1, <2>2 DEF Recording, Same, SessionFields
  <2>4. \A e \in Milestones : Passed(w.s, e) \/ e = "EXEC_READY" => Passed(ready.s, e)
    BY <2>1, <2>2 DEF Recording, Passed, Same, SessionFields
  <2>5. Carries(r, w, ready) /\ Passed(ready.s, "EXEC_READY")
    BY <2>1, <2>2, <2>3, <2>4, MilestoneSet DEF Carries, Spared, Same, SessionFields, Awaited
  <2>6. Carries(r, ready, sent)
    BY <2>3, SendCarries
  <2>. HIDE DEF sent
  <2>7. Working(end) /\ Same(sent.s, end.s, SessionFields \ {"state"})
    BY <2>6, EnterEffect DEF Carries, Recording
  <2>. HIDE DEF end
  <2>8. Carries(r, sent, end)
    BY <2>6, <2>7 DEF Carries, Recording, Spared, Same, SessionFields, Awaited, Passed
  <2>9. Carries(r, w, end) /\ Passed(end.s, "EXEC_READY")
    <3>1. Carries(r, ready, end)
      BY <2>6, <2>8, CarriesOn
    <3>. QED  BY <2>5, <3>1, CarriesOn, MilestoneSet DEF Carries, Spared
  <2>10. /\ Carries(r, w, EmitAbort(r, w, "PROTOCOL_ERROR"))
         /\ EmitAbort(r, w, "PROTOCOL_ERROR").s.state = "ABORTED"
    BY AbortCarries
  <2>11. CheckExecReady(r, w) \in {w, EmitAbort(r, w, "PROTOCOL_ERROR"), end}
    BY DEF CheckExecReady, end, sent, ready, reached, digests
  <2>12. Met(r, w.s, "EXEC_READY") => CheckExecReady(r, w) # w \/ w = end
                                     \/ w = EmitAbort(r, w, "PROTOCOL_ERROR")
    BY DEF CheckExecReady, end, sent, ready, reached, digests, Met
  <2>. QED  BY <2>9, <2>10, <2>11, <2>12, CheckPasses, MilestoneSet
<1>6. Checks(r, w, CheckTemplatesReady(r, w), "EXEC_TEMPLATES_READY")
  <2>. DEFINE ready == Enter(Reach(w, "EXEC_TEMPLATES_READY"), "ADAPTOR_NEGOTIATING")
              end == StartLeg(r, StartLeg(r, ready, "B"), "A")
  <2>1. Carries(r, w, ready) /\ Passed(ready.s, "EXEC_TEMPLATES_READY")
    BY <1>1, MilestoneSet
  <2>. HIDE DEF ready
  <2>2. Carries(r, ready, StartLeg(r, ready, "B"))
    BY <2>1, StartCarries DEF Carries, Legs
  <2>3. Carries(r, StartLeg(r, ready, "B"), end)
    BY <2>2, StartCarries DEF Carries, Legs
  <2>4. Carries(r, ready, end)
    BY <2>2, <2>3, CarriesOn
  <2>. HIDE DEF end
  <2>5. Carries(r, w, end) /\ Passed(end.s, "EXEC_TEMPLATES_READY")
    BY <2>1, <2>4, CarriesOn, MilestoneSet DEF Carries, Spared
  <2>6. Met(r, w.s, "EXEC_TEMPLATES_READY") <=>
            w.s.peerCommitHash # None /\ w.s.localCommitAcked
    BY DEF Met
  <2>. QED
    BY <2>1, <2>5, <2>6, CheckPasses, MilestoneSet DEF CheckTemplatesReady, ready, end
<1>7. Checks(r, w, Planned(w), "EXECUTION_PLANNED")
  BY <1>1, CheckPasses, MilestoneSet DEF Planned
<1>. QED  BY <1>2, <1>3, <1>4, <1>5, <1>6, <1>7

-----------------------------------------------------------------------------
(* Two parties between whom nothing is lost *)

\* Both parties have locked, and nothing is lost between them.
Fluent == SInv /\ \A q \in Roles : Locked(q) /\ Flowing(q)

\* The records of type that r has of its peer, whose own of that type are one at most.
LEMMA FirstOfType ==
    ASSUME SInv, NEW r \in Roles, NEW type, NEW x \in From(ss[Other(r)], type, Other(r)),
           x \notin Range(ss[r].post)
    PROVE  /\ AtMostOne(From(ss[Other(r)], type, Other(r))) =>
                  From(ss[r], type, Other(r)) = {}
           /\ AtMostOne(FromLeg(ss[Other(r)], type, Other(r), x.body.which)) =>
                  FromLeg(ss[r], type, Other(r), x.body.which) = {}
<1>. DEFINE p == Other(r)
<1>1. \A y \in From(ss[r], type, p) : y \in From(ss[p], type, p) /\ y # x
  BY PeerRecord DEF From
<1>2. AtMostOne(From(ss[p], type, p)) => From(ss[r], type, p) = {}
  BY <1>1 DEF AtMostOne
<1>3. ASSUME AtMostOne(FromLeg(ss[p], type, p, x.body.which))
      PROVE  FromLeg(ss[r], type, p, x.body.which) = {}
  BY <1>1, <1>3 DEF AtMostOne, FromLeg
<1>. QED  BY <1>2, <1>3

\* A message that comes on a network that has not failed.
LEMMA FluentHead ==
    ASSUME NEW r \in Roles, Fluent, ~Aborted(r), net[r] # <<>>, NEW m, m = Head(net[r]),
           m.type # "abort"
    PROVE  LET p == Other(r)
               x == RecordOf(m)
           IN  /\ p \in Roles /\ Other(p) = r /\ m.type \in DOMAIN StageOf
               /\ x.type = m.type /\ x.from = p /\ x.body = m.body /\ x.seq = m.seq
               /\ x \in From(ss[p], m.type, p) /\ x \notin Range(ss[r].post)
<1>. DEFINE p == Other(r)
            x == RecordOf(m)
<1>1. /\ SInv /\ p \in Roles /\ Other(p) = r /\ Flowing(r) /\ Flowing(p)
  BY OtherRole DEF Fluent
<1>2. m \in Range(net[r])
  BY <1>1, RangeTail DEF SInv
<1>3. m.type \in DOMAIN StageOf /\ x \in Range(ss[p].post) /\ x \notin Range(ss[r].post)
  BY <1>1, <1>2 DEF Flowing, Delivered
<1>4. m.from = p
  BY <1>1, HeadGenuine
<1>5. x.type = m.type /\ x.from = p /\ x.body = m.body /\ x.seq = m.seq
  BY <1>4 DEF RecordOf
<1>6. ~Refusal(x)
  BY <1>1, <1>3 DEF Flowing
<1>. QED  BY <1>1, <1>3, <1>5, <1>6 DEF From

\* A session is found by its handlers and its methods as they need it.
LEMMA FluentWork ==
    ASSUME NEW r \in Roles, Fluent, NEW w, Working(w),
           Same(ss[r], w.s, SessionFields \ {"lastPostSeq"})
    PROVE  /\ Recording(w) /\ Eager(r, w.s) /\ Answering(r, w.s) /\ w.s.post # <<>>
           /\ w.s.post = ss[r].post /\ w.s.state = ss[r].state
<1>1. SInv /\ Flowing(r) /\ Locked(r)
  BY DEF Fluent
<1>2. /\ w.s.post = ss[r].post /\ w.s.milestones = ss[r].milestones /\ w.s.legs = ss[r].legs
      /\ w.s.state = ss[r].state
  BY DEF Same, SessionFields
<1>3. /\ ss[r].post \in Seq(Range(ss[r].post)) /\ DOMAIN ss[r].milestones = Milestones
      /\ DOMAIN ss[r].legs = Legs
      /\ \A leg \in Legs : DOMAIN ss[r].legs[leg] = {"T", "adaptorSig", "acked"}
  BY <1>1, PartyInv DEF NumberInv, LogInv, AdaptorInv, LegInv
<1>4. Recording(w)
  BY <1>2, <1>3 DEF Recording
<1>5. w.s.post # <<>>
  <2>1. From(ss[r], "keygen_announce", r) # {}
    BY <1>1, PartyInv DEF KeygenInv
  <2>2. Range(ss[r].post) # {}
    BY <2>1 DEF From
  <2>. QED  BY <1>2, <2>2, EmptySeq DEF Range
<1>6. Spared(r, ss[r], w.s, {})
  BY <1>2 DEF Spared, Same, SessionFields, Awaited, Passed
<1>7. \A event \in Milestones :
          /\ Met(r, w.s, event) <=> Met(r, ss[r], event)
          /\ Passed(w.s, event) <=> Passed(ss[r], event)
  BY <1>2, <1>6, MetSame DEF Passed
<1>8. Eager(r, w.s)
  BY <1>1, <1>2, <1>7 DEF Flowing, Eager
<1>9. Answering(r, w.s)
  <2>1. Answering(r, ss[r])
    BY <1>1 DEF Flowing
  <2>2. /\ w.s.capsuleReceived = ss[r].capsuleReceived
        /\ w.s.peerCommitHash = ss[r].peerCommitHash
    BY DEF Same, SessionFields
  <2>. QED  BY <1>2, <2>1, <2>2 DEF Answering, From, FromLeg
<1>. QED  BY <1>2, <1>4, <1>5, <1>8, <1>9

\* What a handler has before it between two fluent parties: the fields as they were, and a
\* record that its sender has and r has not.
LEMMA FluentTook ==
    ASSUME NEW r \in Roles, Fluent, NEW type \in DOMAIN StageOf, Takes(r, type),
           NEW m, m = Head(net[r])
    PROVE  LET p == Other(r)
               w == Heard(r, m)
               x == RecordOf(m)
           IN  /\ SInv /\ p \in Roles /\ Other(p) = r /\ Took(r, type, m, w) /\ Recording(w)
               /\ Same(ss[r], w.s, SessionFields \ {"lastPostSeq"})
               /\ w.s.state = StageOf[type] /\ w.s.state # "ABORTED" /\ w.s.post # <<>>
               /\ Eager(r, w.s) /\ Answering(r, w.s)
               /\ x \in From(ss[p], type, p) /\ x \notin Range(ss[r].post) /\ x.body = m.body
<1>. DEFINE w == Heard(r, m)
<1>1. SInv /\ ss[r].state = StageOf[type] /\ net[r] # <<>> /\ m.type = type
  BY DEF Fluent, Takes
<1>2. Took(r, type, m, w)
  BY <1>1, Taken
<1>3. Working(w) /\ Same(ss[r], w.s, SessionFields \ {"lastPostSeq"})
  BY <1>2 DEF Took
<1>4. StageOf[type] # "ABORTED" /\ type # "abort"
  BY PostTypes DEF StageOf
<1>. HIDE DEF w
<1>5. /\ Recording(w) /\ Eager(r, w.s) /\ Answering(r, w.s) /\ w.s.post # <<>>
      /\ w.s.state = ss[r].state
  BY <1>3, FluentWork
<1>6. ~Aborted(r)
  BY <1>1, <1>4 DEF Aborted
<1>. QED  BY <1>1, <1>2, <1>3, <1>4, <1>5, <1>6, FluentHead DEF w

\* Of what is set in F, what r owes an answer has got one.
Acknowledges(r, s, F) ==
    /\ "capsuleReceived" \in F => From(s, "capsule_ack", r) # {}
    /\ "peerCommitHash" \in F => From(s, "tx_template_ack", r) # {}
    /\ r = "alice" /\ "legs" \in F => \A leg \in Legs :
          s.legs[leg].adaptorSig # None => FromLeg(s, "adaptor_ack", r, leg) # {}

\* From w the fields of F, which one milestone waits for, are set, and v is what comes
\* of it once that milestone has been looked at.
LEMMA StaysEager ==
    ASSUME NEW r \in Roles, NEW w, NEW k, NEW v, NEW event \in Milestones, NEW F,
           F \subseteq AwaitedFor[event], w.s.state # "ABORTED", Eager(r, w.s),
           Answering(r, w.s), Spared(r, w.s, k.s, F), k.s.post = w.s.post,
           Carries(r, k, v), Acknowledges(r, v.s, F),
           v.s.state # "ABORTED" /\ Met(r, v.s, event) => Passed(v.s, event)
    PROVE  Eager(r, v.s) /\ Answering(r, v.s)
<1>1. Spared(r, w.s, v.s, F) /\ Range(w.s.post) \subseteq Range(v.s.post)
  <2>1. Spared(r, k.s, v.s, {}) /\ Range(k.s.post) \subseteq Range(v.s.post)
    BY DEF Carries
  <2>2. Spared(r, w.s, v.s, F)
    BY <2>1 DEF Spared, Same
  <2>. QED  BY <2>1, <2>2
<1>2. ASSUME NEW other \in Milestones, other # event
      PROVE  AwaitedFor[other] \cap F = {}
  <2>1. AwaitedFor[other] \cap AwaitedFor[event] = {}
    BY <1>2, MilestoneSet DEF AwaitedFor
  <2>. QED  BY <2>1
<1>3. ASSUME v.s.state # "ABORTED", NEW other \in Milestones, Met(r, v.s, other)
      PROVE  Passed(v.s, other)
  <2>1. CASE other = event
    BY <1>3, <2>1
  <2>2. CASE other # event
    <3>1. Met(r, w.s, other)
      BY <1>1, <1>2, <1>3, <2>2, MetSame
    <3>2. Passed(w.s, other)
      BY <3>1 DEF Eager
    <3>. QED  BY <1>1, <3>2 DEF Spared
  <2>. QED  BY <2>1, <2>2
<1>4. \A type, q : From(w.s, type, q) \subseteq From(v.s, type, q)
  BY <1>1 DEF From
<1>5. v.s.capsuleReceived => From(v.s, "capsule_ack", r) # {}
  <2>1. "capsuleReceived" \notin F => v.s.capsuleReceived = w.s.capsuleReceived
    BY <1>1 DEF Spared, Same, Awaited
  <2>. QED  BY <1>4, <2>1 DEF Answering, Acknowledges
<1>6. v.s.peerCommitHash # None => From(v.s, "tx_template_ack", r) # {}
  <2>1. "peerCommitHash" \notin F => v.s.peerCommitHash = w.s.peerCommitHash
    BY <1>1 DEF Spared, Same, Awaited
  <2>. QED  BY <1>4, <2>1 DEF Answering, Acknowledges
<1>7. ASSUME r = "alice", NEW leg \in Legs, v.s.legs[leg].adaptorSig # None
      PROVE  FromLeg(v.s, "adaptor_ack", r, leg) # {}
  <2>1. CASE "legs" \in F
    BY <1>7, <2>1 DEF Acknowledges
  <2>2. CASE "legs" \notin F
    <3>1. LegDone(r, w.s.legs[leg])
      BY <1>1, <1>7, <2>2 DEF Spared, LegDone
    <3>2. FromLeg(w.s, "adaptor_ack", r, leg) # {}
      BY <1>7, <3>1 DEF Answering, LegDone
    <3>. QED  BY <1>4, <3>2 DEF FromLeg
  <2>. QED  BY <2>1, <2>2
<1>. QED  BY <1>3, <1>5, <1>6, <1>7 DEF Eager, Answering

\* What r has heard has left it eager and answering, and on record or aborted.
Heeded(r, m) ==
    /\ Eager(r, ss'[r]) /\ Answering(r, ss'[r])
    /\ ss'[r].state = "ABORTED" \/ RecordOf(m) \in Range(ss'[r].post)

\* A message refused is heeded: who has aborted waits for nothing.
LEMMA HeedsRefused ==
    ASSUME NEW r \in Roles, SInv, NEW m, NEW w, NEW code, Recording(w), Answering(r, w.s),
           Returns(r, EmitAbort(r, w, code))
    PROVE  Heeded(r, m)
<1>. DEFINE v == EmitAbort(r, w, code)
<1>1. /\ v.s.state = "ABORTED" /\ Same(w.s, v.s, SessionFields \ {"state", "postSeq"})
  BY EmitAbortEffect DEF Recording
<1>2. ss'[r] = v.s
  BY DEF SInv, Returns
<1>. HIDE DEF v
<1>3. /\ v.s.post = w.s.post /\ v.s.capsuleReceived = w.s.capsuleReceived
      /\ v.s.peerCommitHash = w.s.peerCommitHash /\ v.s.legs = w.s.legs
  BY <1>1 DEF Same, SessionFields
<1>4. Answering(r, v.s)
  BY <1>3 DEF Answering, From, FromLeg
<1>. QED  BY <1>1, <1>2, <1>4 DEF Heeded, Eager

\* A message is heeded when its handler changes only what one milestone waits for, answers
\* what it accepts, passes the milestone if that is met, and records the message.
LEMMA HeedsTaken ==
    ASSUME NEW r \in Roles, SInv, NEW m, NEW w, NEW k, NEW v, NEW event \in Milestones,
           NEW F, F \subseteq AwaitedFor[event], w.s.state # "ABORTED", Eager(r, w.s),
           Answering(r, w.s), Spared(r, w.s, k.s, F), k.s.post = w.s.post,
           Carries(r, k, v), Acknowledges(r, v.s, F),
           v.s.state # "ABORTED" /\ Met(r, v.s, event) => Passed(v.s, event),
           RecordOf(m) \in Range(v.s.post), Returns(r, v)
    PROVE  Heeded(r, m)
<1>1. ss'[r] = v.s
  BY DEF SInv, Returns
<1>. QED  BY <1>1, StaysEager DEF Heeded

-----------------------------------------------------------------------------
(* Between such parties no handler leaves anything waiting *)

\* The check... function that looks at each milestone.
CheckOf(r, w, event) ==
    CASE event = "KEYGEN_COMPLETE"      -> CheckKeygenComplete(r, w)
      [] event = "CAPSULES_VERIFIED"    -> CheckCapsulesVerified(w)
      [] event = "FUNDED"               -> CheckFundingComplete(w)
      [] event = "EXEC_READY"           -> CheckExecReady(r, w)
      [] event = "EXEC_TEMPLATES_READY" -> CheckTemplatesReady(r, w)
      [] event = "EXECUTION_PLANNED"    -> Planned(w)

\* The check at the end of a handler passes its milestone.
LEMMA CheckOfPasses ==
    ASSUME NEW r, NEW w, NEW event \in Milestones, Recording(w), w.s.post # <<>>
    PROVE  Checks(r, w, CheckOf(r, w, event), event)
<1>1. CASE event = "KEYGEN_COMPLETE"
  BY <1>1, CheckPassesNow DEF CheckOf
<1>2. CASE event = "CAPSULES_VERIFIED"
  BY <1>2, CheckPassesNow DEF CheckOf
<1>3. CASE event = "FUNDED"
  BY <1>3, CheckPassesNow DEF CheckOf
<1>4. CASE event = "EXEC_READY"
  BY <1>4, CheckPassesNow DEF CheckOf
<1>5. CASE event = "EXEC_TEMPLATES_READY"
  BY <1>5, CheckPassesNow DEF CheckOf
<1>6. CASE event = "EXECUTION_PLANNED"
  BY <1>6, CheckPassesNow DEF CheckOf
<1>. QED  BY <1>1, <1>2, <1>3, <1>4, <1>5, <1>6, MilestoneSet

\* One awaited field set leaves the others.
LEMMA FieldSet ==
    ASSUME NEW r, NEW w, NEW k, NEW f \in Awaited, Recording(w), Working(k),
           Same(w.s, k.s, SessionFields \ {f})
    PROVE  Recording(k) /\ Spared(r, w.s, k.s, {f}) /\ k.s.post = w.s.post
BY DEF Recording, Spared, Same, SessionFields, Awaited, Passed

\* What is taken is recorded, which makes k out of w and then u, answered and looked at.
LEMMA HeedsChecked ==
    ASSUME NEW r \in Roles, SInv, NEW m, NEW w, NEW k, NEW u, NEW event \in Milestones,
           NEW F, F \subseteq AwaitedFor[event], "legs" \notin F,
           w.s.state # "ABORTED", Eager(r, w.s), Answering(r, w.s),
           Spared(r, w.s, k.s, F), k.s.post = w.s.post, Carries(r, k, u),
           RecordOf(m) \in Range(u.s.post), Acknowledges(r, u.s, F),
           Returns(r, CheckOf(r, u, event))
    PROVE  Heeded(r, m)
<1>. DEFINE v == CheckOf(r, u, event)
<1>1. Checks(r, u, v, event)
  <2>1. Recording(u) /\ u.s.post # <<>>
    BY EmptySeq DEF Carries, Range
  <2>. QED  BY <2>1, CheckOfPasses
<1>. HIDE DEF v
<1>2. Carries(r, u, v)
  BY <1>1 DEF Checks
<1>3. Carries(r, k, v)
  BY <1>2, CarriesOn
<1>4. \A type, q : From(u.s, type, q) \subseteq From(v.s, type, q)
  BY <1>2 DEF Carries, From
<1>5. Acknowledges(r, v.s, F)
  BY <1>4 DEF Acknowledges
<1>6. RecordOf(m) \in Range(v.s.post)
  BY <1>2 DEF Carries
<1>7. v.s.state # "ABORTED" /\ Met(r, v.s, event) => Passed(v.s, event)
  BY <1>1 DEF Checks
<1>8. Returns(r, v)
  BY DEF v
<1>. QED  BY <1>3, <1>5, <1>6, <1>7, <1>8, HeedsTaken

\* A handler that sets one field and records what it took.
LEMMA HeedsNoted ==
    ASSUME NEW r \in Roles, SInv, NEW m, NEW w, NEW k, NEW event \in Milestones,
           NEW f \in AwaitedFor[event] \ {"legs", "capsuleReceived", "peerCommitHash"},
           Recording(w), w.s.state # "ABORTED", Eager(r, w.s), Answering(r, w.s),
           Working(k), Same(w.s, k.s, SessionFields \ {f}),
           Returns(r, CheckOf(r, Note(k, m), event))
    PROVE  Heeded(r, m)
<1>. DEFINE u == Note(k, m)
            F == {f}
<1>1. f \in Awaited
  BY MilestoneSet DEF AwaitedFor, Awaited
<1>2. Recording(k) /\ Spared(r, w.s, k.s, F) /\ k.s.post = w.s.post
  BY <1>1, FieldSet
<1>3. Carries(r, k, u) /\ RecordOf(m) \in Range(u.s.post)
  <2>1. u.s.post = Append(k.s.post, RecordOf(m))
    BY <1>2, NoteEffect DEF Recording
  <2>. QED  BY <1>2, <2>1, NoteCarries, RangeAppend DEF Recording
<1>4. F \subseteq AwaitedFor[event] /\ "legs" \notin F /\ Acknowledges(r, u.s, F)
  BY DEF Acknowledges
<1>. HIDE DEF u, F
<1>5. Returns(r, CheckOf(r, u, event))
  BY DEF u
<1>. QED  BY <1>2, <1>3, <1>4, <1>5, HeedsChecked

\* The answer owed for what is set.
AnswerFor(f) == IF f = "capsuleReceived" THEN "capsule_ack" ELSE "tx_template_ack"

\* A handler that sets one field, records what it took and answers.
LEMMA HeedsAnswered ==
    ASSUME NEW r \in Roles, SInv, NEW m, NEW w, NEW k, NEW event \in Milestones,
           NEW f \in {"capsuleReceived", "peerCommitHash"}, f \in AwaitedFor[event],
           Recording(w), w.s.state # "ABORTED", Eager(r, w.s), Answering(r, w.s),
           Working(k), Same(w.s, k.s, SessionFields \ {f}),
           NEW body, f = "capsuleReceived" => body.ok,
           Returns(r, CheckOf(r, Send(r, Note(k, m), AnswerFor(f), body), event))
    PROVE  Heeded(r, m)
<1>. DEFINE kept == Note(k, m)
            type == AnswerFor(f)
            u == Send(r, kept, type, body)
            F == {f}
<1>1. f \in Awaited
  BY DEF Awaited
<1>2. Recording(k) /\ Spared(r, w.s, k.s, F) /\ k.s.post = w.s.post
  BY <1>1, FieldSet
<1>3. Carries(r, k, kept) /\ RecordOf(m) \in Range(kept.s.post) /\ Recording(kept)
  <2>1. kept.s.post = Append(k.s.post, RecordOf(m))
    BY <1>2, NoteEffect DEF Recording
  <2>2. Carries(r, k, kept)
    BY <1>2, NoteCarries
  <2>. QED  BY <1>2, <2>1, <2>2, RangeAppend DEF Recording, Carries
<1>. HIDE DEF kept, type
<1>4. /\ Carries(r, kept, u)
      /\ \E y \in Range(u.s.post) : y.type = type /\ y.from = r /\ y.body = body
  BY <1>3, SendCarries
<1>. HIDE DEF u
<1>5. Carries(r, k, u) /\ RecordOf(m) \in Range(u.s.post)
  BY <1>3, <1>4, CarriesOn DEF Carries
<1>6. From(u.s, type, r) # {}
  <2>1. PICK y \in Range(u.s.post) : y.type = type /\ y.from = r /\ y.body = body
    BY <1>4
  <2>2. ~Refusal(y)
    BY <2>1 DEF Refusal, type, AnswerFor
  <2>. QED  BY <2>1, <2>2 DEF From
<1>7. F \subseteq AwaitedFor[event] /\ "legs" \notin F /\ Acknowledges(r, u.s, F)
  BY <1>6 DEF Acknowledges, AnswerFor, type
<1>. HIDE DEF F
<1>8. Returns(r, CheckOf(r, u, event))
  BY DEF u, kept, type
<1>. QED  BY <1>2, <1>5, <1>7, <1>8, HeedsChecked

\* The handlers, each as it stands: no message it takes leaves anything waiting.
LEMMA HeedsKeygenAnnounce ==
    ASSUME NEW r \in Roles, Fluent, RcvKeygenAnnounce(r)
    PROVE  Heeded(r, Head(net[r]))
<1>. DEFINE m == Head(net[r])
            w == Heard(r, m)
            p == Other(r)
            k == [w EXCEPT !.s.peerMpc = m.body.keyOf]
            x == RecordOf(m)
<1>1. /\ Takes(r, "keygen_announce") /\ m = Head(net[r]) /\ "keygen_announce" \in DOMAIN StageOf
      /\ Returns(r, Keep(r, w, w.s.peerMpc, m.body.keyOf, CheckKeygenComplete(r, Note(k, m))))
  BY PostTypes DEF RcvKeygenAnnounce
<1>2. /\ SInv /\ p \in Roles /\ Other(p) = r /\ Recording(w)
      /\ Same(ss[r], w.s, SessionFields \ {"lastPostSeq"})
      /\ w.s.state # "ABORTED" /\ Eager(r, w.s) /\ Answering(r, w.s)
      /\ x \in From(ss[p], "keygen_announce", p) /\ x \notin Range(ss[r].post)
  BY <1>1, FluentTook
<1>3. w.s.peerMpc = None
  <2>1. From(ss[r], "keygen_announce", p) = {}
    BY <1>2, FirstOfType, PartyInv DEF KeygenInv
  <2>. QED  BY <1>2, <2>1, PartyInv DEF KeygenInv, Same, SessionFields
<1>. HIDE DEF m, w
<1>4. Working(k) /\ Same(w.s, k.s, SessionFields \ {"peerMpc"})
  BY <1>2 DEF Recording, Working, SessionFields, Same
<1>. HIDE DEF k
<1>5. Returns(r, CheckOf(r, Note(k, m), "KEYGEN_COMPLETE"))
  BY <1>1, <1>3 DEF Keep, CheckOf, k
<1>6. "peerMpc" \in AwaitedFor["KEYGEN_COMPLETE"] \ {"legs", "capsuleReceived", "peerCommitHash"}
  BY DEF AwaitedFor
<1>7. Heeded(r, m)
  BY <1>2, <1>4, <1>5, <1>6, MilestoneSet, HeedsNoted
<1>. QED  BY <1>7 DEF m

LEMMA HeedsCapsuleOffer ==
    ASSUME NEW r \in Roles, Fluent, RcvCapsuleOffer(r)
    PROVE  Heeded(r, Head(net[r]))
<1>. DEFINE m == Head(net[r])
            w == Heard(r, m)
            p == Other(r)
            k == [w EXCEPT !.s.capsuleReceived = TRUE]
            body == [target |-> r, ok |-> TRUE]
            x == RecordOf(m)
<1>1. Takes(r, "capsule_offer") /\ m = Head(net[r]) /\ "capsule_offer" \in DOMAIN StageOf
  BY PostTypes DEF RcvCapsuleOffer
<1>2. /\ SInv /\ p \in Roles /\ Other(p) = r /\ Recording(w)
      /\ Same(ss[r], w.s, SessionFields \ {"lastPostSeq"})
      /\ w.s.state # "ABORTED" /\ Eager(r, w.s) /\ Answering(r, w.s)
      /\ x \in From(ss[p], "capsule_offer", p) /\ x \notin Range(ss[r].post)
      /\ x.body = m.body
  BY <1>1, FluentTook
<1>3. ~w.s.capsuleReceived
  <2>1. From(ss[r], "capsule_offer", p) = {}
    BY <1>2, FirstOfType, PartyInv DEF CapsuleInv
  <2>. QED  BY <1>2, <2>1, PartyInv DEF CapsuleInv, Same, SessionFields
<1>4. Returns(r, CheckCapsulesVerified(Send(r, Note(k, m), "capsule_ack", body)))
  <2>1. x.body = [target |-> Other(p), flaw |-> "none"]
    BY <1>2, PartyInv DEF CapsuleInv
  <2>2. m.body.target = r /\ m.body.flaw = "none"
    BY <1>2, <2>1
  <2>. QED  BY <1>3, <2>2 DEF RcvCapsuleOffer, AcceptOffer
<1>. HIDE DEF m, w
<1>5. Working(k) /\ Same(w.s, k.s, SessionFields \ {"capsuleReceived"})
  BY <1>2 DEF Recording, Working, SessionFields, Same
<1>6. body.ok
  OBVIOUS
<1>. HIDE DEF k, body
<1>7. Returns(r, CheckOf(r, Send(r, Note(k, m), AnswerFor("capsuleReceived"), body),
                         "CAPSULES_VERIFIED"))
  BY <1>4 DEF CheckOf, AnswerFor
<1>8. "capsuleReceived" \in AwaitedFor["CAPSULES_VERIFIED"]
  BY DEF AwaitedFor
<1>9. Heeded(r, m)
  BY <1>2, <1>5, <1>6, <1>7, <1>8, MilestoneSet, HeedsAnswered
<1>. QED  BY <1>9 DEF m

LEMMA HeedsCapsuleAck ==
    ASSUME NEW r \in Roles, Fluent, RcvCapsuleAck(r)
    PROVE  Heeded(r, Head(net[r]))
<1>. DEFINE m == Head(net[r])
            w == Heard(r, m)
            p == Other(r)
            k == [w EXCEPT !.s.capsuleAcked = TRUE]
            x == RecordOf(m)
<1>1. /\ Takes(r, "capsule_ack") /\ m = Head(net[r]) /\ "capsule_ack" \in DOMAIN StageOf
  BY PostTypes DEF RcvCapsuleAck
<1>2. /\ SInv /\ p \in Roles /\ Other(p) = r /\ Recording(w)
      /\ Same(ss[r], w.s, SessionFields \ {"lastPostSeq"})
      /\ w.s.state # "ABORTED" /\ Eager(r, w.s) /\ Answering(r, w.s)
      /\ x \in From(ss[p], "capsule_ack", p) /\ x \notin Range(ss[r].post)
      /\ x.body = m.body
  BY <1>1, FluentTook
<1>3. ~w.s.capsuleAcked
  <2>1. From(ss[r], "capsule_ack", p) = {}
    BY <1>2, FirstOfType, PartyInv DEF CapsuleInv
  <2>. QED  BY <1>2, <2>1, PartyInv DEF CapsuleInv, Same, SessionFields
<1>4. Returns(r, CheckCapsulesVerified(Note(k, m)))
  <2>1. x.body = [target |-> p, ok |-> TRUE]
    BY <1>2, PartyInv DEF CapsuleInv
  <2>2. m.body.target = p /\ m.body.ok
    BY <1>2, <2>1
  <2>. QED  BY <1>3, <2>2 DEF RcvCapsuleAck
<1>. HIDE DEF m, w
<1>5. Working(k) /\ Same(w.s, k.s, SessionFields \ {"capsuleAcked"})
  BY <1>2 DEF Recording, Working, SessionFields, Same
<1>. HIDE DEF k
<1>6. Returns(r, CheckOf(r, Note(k, m), "CAPSULES_VERIFIED"))
  BY <1>4 DEF CheckOf
<1>7. "capsuleAcked" \in AwaitedFor["CAPSULES_VERIFIED"] \ {"legs", "capsuleReceived", "peerCommitHash"}
  BY DEF AwaitedFor
<1>8. Heeded(r, m)
  BY <1>2, <1>5, <1>6, <1>7, MilestoneSet, HeedsNoted
<1>. QED  BY <1>8 DEF m

LEMMA HeedsFundingTx ==
    ASSUME NEW r \in Roles, Fluent, RcvFundingTx(r)
    PROVE  Heeded(r, Head(net[r]))
<1>. DEFINE m == Head(net[r])
            w == Heard(r, m)
            p == Other(r)
            which == m.body.which
            k == [w EXCEPT !.s.fundingTx[which] = m.body]
            x == RecordOf(m)
<1>1. Takes(r, "funding_tx") /\ m = Head(net[r]) /\ "funding_tx" \in DOMAIN StageOf
  BY PostTypes DEF RcvFundingTx
<1>2. /\ SInv /\ p \in Roles /\ Other(p) = r /\ Recording(w)
      /\ Same(ss[r], w.s, SessionFields \ {"lastPostSeq"})
      /\ w.s.state # "ABORTED" /\ Eager(r, w.s) /\ Answering(r, w.s)
      /\ x \in From(ss[p], "funding_tx", p) /\ x \notin Range(ss[r].post)
      /\ x.body = m.body
  BY <1>1, FluentTook
<1>3. CASE which # m.from \/ m.body.value = "short"
  <2>1. Returns(r, EmitAbort(r, w, "PROTOCOL_ERROR"))
    BY <1>3 DEF RcvFundingTx
  <2>. HIDE DEF m, w
  <2>2. Heeded(r, m)
    BY <1>2, <2>1, HeedsRefused
  <2>. QED  BY <2>2 DEF m
<1>4. CASE which = m.from /\ m.body.value # "short"
  <2>1. which = p
    BY <1>2, <1>4 DEF From, RecordOf
  <2>2. w.s.fundingTx[which] = None
    <3>1. From(ss[r], "funding_tx", p) = {}
      BY <1>2, FirstOfType, PartyInv DEF FundingInv
    <3>2. ss[r].fundingTx[p] = None
      <4>1. FundingInv(r, ss[r], calls[r])
        BY <1>2, PartyInv
      <4>2. p \in Roles
        BY <1>2
      <4>. HIDE DEF m, w, p
      <4>. QED  BY <3>1, <4>1, <4>2 DEF FundingInv
    <3>3. w.s.fundingTx = ss[r].fundingTx
      <4>. HIDE DEF m, w
      <4>. QED  BY <1>2 DEF Same, SessionFields
    <3>. HIDE DEF m, w, which
    <3>. QED  BY <2>1, <3>2, <3>3
  <2>3. Returns(r, CheckFundingComplete(Note(k, m)))
    BY <1>4, <2>2 DEF RcvFundingTx, Keep
  <2>. HIDE DEF m, w, which
  <2>4. Working(k) /\ Same(w.s, k.s, SessionFields \ {"fundingTx"})
    BY <1>2 DEF Recording, Working, SessionFields, Same
  <2>. HIDE DEF k
  <2>5. Returns(r, CheckOf(r, Note(k, m), "FUNDED"))
    BY <2>3 DEF CheckOf
  <2>6. "fundingTx" \in AwaitedFor["FUNDED"] \ {"legs", "capsuleReceived", "peerCommitHash"}
    BY DEF AwaitedFor
  <2>7. Heeded(r, m)
    BY <1>2, <2>4, <2>5, <2>6, MilestoneSet, HeedsNoted
  <2>. QED  BY <2>7 DEF m
<1>. QED  BY <1>3, <1>4

LEMMA HeedsNonceReport ==
    ASSUME NEW r \in Roles, Fluent, RcvNonceReport(r)
    PROVE  Heeded(r, Head(net[r]))
<1>. DEFINE m == Head(net[r])
            w == Heard(r, m)
            p == Other(r)
            k == [w EXCEPT !.s.peerNonces = m.body.nonces]
            x == RecordOf(m)
<1>1. /\ Takes(r, "nonce_report") /\ m = Head(net[r]) /\ "nonce_report" \in DOMAIN StageOf
      /\ Returns(r, Keep(r, w, w.s.peerNonces, m.body.nonces, CheckExecReady(r, Note(k, m))))
  BY PostTypes DEF RcvNonceReport
<1>2. /\ SInv /\ p \in Roles /\ Other(p) = r /\ Recording(w)
      /\ Same(ss[r], w.s, SessionFields \ {"lastPostSeq"})
      /\ w.s.state # "ABORTED" /\ Eager(r, w.s) /\ Answering(r, w.s)
      /\ x \in From(ss[p], "nonce_report", p) /\ x \notin Range(ss[r].post)
  BY <1>1, FluentTook
<1>3. w.s.peerNonces = None
  <2>1. From(ss[r], "nonce_report", p) = {}
    BY <1>2, FirstOfType, PartyInv DEF PrepInv
  <2>. QED  BY <1>2, <2>1, PartyInv DEF PrepInv, Same, SessionFields
<1>. HIDE DEF m, w
<1>4. Working(k) /\ Same(w.s, k.s, SessionFields \ {"peerNonces"})
  BY <1>2 DEF Recording, Working, SessionFields, Same
<1>. HIDE DEF k
<1>5. Returns(r, CheckOf(r, Note(k, m), "EXEC_READY"))
  BY <1>1, <1>3 DEF Keep, CheckOf, k
<1>6. "peerNonces" \in AwaitedFor["EXEC_READY"] \ {"legs", "capsuleReceived", "peerCommitHash"}
  BY DEF AwaitedFor
<1>7. Heeded(r, m)
  BY <1>2, <1>4, <1>5, <1>6, MilestoneSet, HeedsNoted
<1>. QED  BY <1>7 DEF m

LEMMA HeedsFeeParams ==
    ASSUME NEW r \in Roles, Fluent, RcvFeeParams(r)
    PROVE  Heeded(r, Head(net[r]))
<1>. DEFINE m == Head(net[r])
            w == Heard(r, m)
            p == Other(r)
            k == [w EXCEPT !.s.feeParams = m.body.fee]
            body == [feeHash |-> m.body.fee]
            kept == Note(k, m)
            sent == Send(r, kept, "fee_params_ack", body)
            acked == [sent EXCEPT !.s.feeAcked = TRUE]
            known == [k EXCEPT !.s.feeAcked = TRUE]
            F == {"feeParams", "feeAcked"}
            x == RecordOf(m)
<1>1. Takes(r, "fee_params") /\ m = Head(net[r]) /\ "fee_params" \in DOMAIN StageOf
  BY PostTypes DEF RcvFeeParams
<1>2. /\ SInv /\ p \in Roles /\ Other(p) = r /\ Recording(w)
      /\ Same(ss[r], w.s, SessionFields \ {"lastPostSeq"})
      /\ w.s.state # "ABORTED" /\ Eager(r, w.s) /\ Answering(r, w.s)
      /\ x \in From(ss[p], "fee_params", p) /\ x \notin Range(ss[r].post)
  BY <1>1, FluentTook
<1>3. CASE r # "bob"
  <2>1. Returns(r, EmitAbort(r, w, "PROTOCOL_ERROR"))
    BY <1>3 DEF RcvFeeParams
  <2>. HIDE DEF m, w
  <2>2. Heeded(r, m)
    BY <1>2, <2>1, HeedsRefused
  <2>. QED  BY <2>2 DEF m
<1>4. CASE r = "bob"
  <2>1. w.s.feeParams = None
    <3>1. From(ss[r], "fee_params", p) = {}
      BY <1>2, FirstOfType, PartyInv DEF PrepInv
    <3>2. p = "alice"
      BY <1>4 DEF Other
    <3>3. ss[r].feeParams = None
      BY <1>2, <3>1, <3>2, PartyInv DEF PrepInv
    <3>. QED  BY <1>2, <3>3 DEF Same, SessionFields
  <2>2. Returns(r, CheckExecReady(r, acked))
    BY <1>4, <2>1 DEF RcvFeeParams, Keep
  <2>. HIDE DEF m, w
  <2>3. Working(k) /\ Same(w.s, k.s, SessionFields \ {"feeParams"})
    BY <1>2 DEF Recording, Working, SessionFields, Same
  <2>. HIDE DEF k, body
  <2>4. Recording(k) /\ k.s.post = w.s.post
    BY <1>2, <2>3 DEF Recording, Same, SessionFields
  <2>5. Carries(r, k, kept) /\ Recording(kept) /\ x \in Range(kept.s.post)
    <3>1. kept.s.post = Append(k.s.post, x)
      BY <2>4, NoteEffect DEF Recording
    <3>2. Carries(r, k, kept)
      BY <2>4, NoteCarries
    <3>. QED  BY <2>4, <3>1, <3>2, RangeAppend DEF Recording, Carries
  <2>. HIDE DEF kept
  <2>6. Carries(r, kept, sent)
    BY <2>5, SendCarries
  <2>. HIDE DEF sent
  <2>7. Carries(r, k, sent) /\ Recording(sent) /\ x \in Range(sent.s.post)
    BY <2>5, <2>6, CarriesOn DEF Carries
  <2>8. /\ Working(acked) /\ Same(sent.s, acked.s, SessionFields \ {"feeAcked"})
        /\ acked.s.feeAcked = TRUE
    BY <2>7 DEF Recording, Working, SessionFields, Same
  <2>9. /\ Working(known) /\ Same(k.s, known.s, SessionFields \ {"feeAcked"})
        /\ known.s.feeAcked = TRUE
    BY <2>4 DEF Recording, Working, SessionFields, Same
  <2>. HIDE DEF acked, known
  <2>10. Carries(r, known, acked) /\ x \in Range(acked.s.post)
    <3>1. Recording(acked) /\ acked.s.post = sent.s.post
      BY <2>7, <2>8 DEF Recording, Same, SessionFields
    <3>2. known.s.post = k.s.post
      BY <2>9 DEF Same, SessionFields
    <3>3. Same(known.s, acked.s, Awaited)
      <4>1. \A f \in Awaited : sent.s[f] = k.s[f]
        BY <2>7 DEF Carries, Spared, Same
      <4>2. \A f \in Awaited \ {"feeAcked"} : acked.s[f] = sent.s[f] /\ known.s[f] = k.s[f]
        BY <2>8, <2>9 DEF Same, SessionFields, Awaited
      <4>3. acked.s["feeAcked"] = known.s["feeAcked"]
        BY <2>8, <2>9
      <4>. QED  BY <4>1, <4>2, <4>3 DEF Same
    <3>4. /\ acked.s.legs = sent.s.legs /\ known.s.legs = k.s.legs
          /\ acked.s.milestones = sent.s.milestones /\ known.s.milestones = k.s.milestones
      BY <2>8, <2>9 DEF Same, SessionFields
    <3>5. Spared(r, known.s, acked.s, {})
      BY <2>7, <3>3, <3>4 DEF Carries, Spared, Same, Passed
    <3>. QED  BY <2>7, <3>1, <3>2, <3>5 DEF Carries
  <2>11. Spared(r, w.s, known.s, F) /\ known.s.post = w.s.post
    BY <2>3, <2>9 DEF Spared, Same, SessionFields, Awaited, Passed
  <2>12. /\ F \subseteq AwaitedFor["EXEC_READY"] /\ "legs" \notin F
         /\ Acknowledges(r, acked.s, F)
    BY DEF AwaitedFor, Acknowledges
  <2>13. Returns(r, CheckOf(r, acked, "EXEC_READY"))
    BY <2>2 DEF CheckOf
  <2>. HIDE DEF F
  <2>14. Heeded(r, m)
    BY <1>2, <2>10, <2>11, <2>12, <2>13, MilestoneSet, HeedsChecked
  <2>. QED  BY <2>14 DEF m
<1>. QED  BY <1>3, <1>4

LEMMA HeedsFeeParamsAck ==
    ASSUME NEW r \in Roles, Fluent, RcvFeeParamsAck(r)
    PROVE  Heeded(r, Head(net[r]))
<1>. DEFINE m == Head(net[r])
            w == Heard(r, m)
            p == Other(r)
            k == [w EXCEPT !.s.feeAcked = TRUE]
            x == RecordOf(m)
            refused == r # "alice" \/ w.s.feeParams = None \/ m.body.feeHash # w.s.feeParams
<1>1. Takes(r, "fee_params_ack") /\ m = Head(net[r]) /\ "fee_params_ack" \in DOMAIN StageOf
  BY PostTypes DEF RcvFeeParamsAck
<1>2. /\ SInv /\ p \in Roles /\ Other(p) = r /\ Recording(w)
      /\ Same(ss[r], w.s, SessionFields \ {"lastPostSeq"})
      /\ w.s.state # "ABORTED" /\ Eager(r, w.s) /\ Answering(r, w.s)
      /\ x \in From(ss[p], "fee_params_ack", p) /\ x \notin Range(ss[r].post)
  BY <1>1, FluentTook
<1>3. CASE refused
  <2>1. Returns(r, EmitAbort(r, w, "PROTOCOL_ERROR"))
    BY <1>3 DEF RcvFeeParamsAck
  <2>. HIDE DEF m, w
  <2>2. Heeded(r, m)
    BY <1>2, <2>1, HeedsRefused
  <2>. QED  BY <2>2 DEF m
<1>4. CASE ~refused
  <2>1. ~w.s.feeAcked
    <3>1. From(ss[r], "fee_params_ack", p) = {}
      BY <1>2, FirstOfType, PartyInv DEF PrepInv
    <3>2. p = "bob"
      BY <1>4 DEF Other
    <3>3. ~ss[r].feeAcked
      BY <1>2, <3>1, <3>2, PartyInv DEF PrepInv
    <3>. QED  BY <1>2, <3>3 DEF Same, SessionFields
  <2>2. Returns(r, CheckExecReady(r, Note(k, m)))
    BY <1>4, <2>1 DEF RcvFeeParamsAck
  <2>. HIDE DEF m, w
  <2>3. Working(k) /\ Same(w.s, k.s, SessionFields \ {"feeAcked"})
    BY <1>2 DEF Recording, Working, SessionFields, Same
  <2>. HIDE DEF k
  <2>4. Returns(r, CheckOf(r, Note(k, m), "EXEC_READY"))
    BY <2>2 DEF CheckOf
  <2>5. "feeAcked" \in AwaitedFor["EXEC_READY"] \ {"legs", "capsuleReceived", "peerCommitHash"}
    BY DEF AwaitedFor
  <2>6. Heeded(r, m)
    BY <1>2, <2>3, <2>4, <2>5, MilestoneSet, HeedsNoted
  <2>. QED  BY <2>6 DEF m
<1>. QED  BY <1>3, <1>4

LEMMA HeedsTemplateCommit ==
    ASSUME NEW r \in Roles, Fluent, RcvTemplateCommit(r)
    PROVE  Heeded(r, Head(net[r]))
<1>. DEFINE m == Head(net[r])
            w == Heard(r, m)
            p == Other(r)
            k == [w EXCEPT !.s.peerCommitHash = m.body.commitHash]
            body == [commitHash |-> m.body.commitHash]
            x == RecordOf(m)
            refused == m.body.commitHash # m.body.digests \/ m.body.digests # w.s.templates
<1>1. Takes(r, "tx_template_commit") /\ m = Head(net[r]) /\ "tx_template_commit" \in DOMAIN StageOf
  BY PostTypes DEF RcvTemplateCommit
<1>2. /\ SInv /\ p \in Roles /\ Other(p) = r /\ Recording(w)
      /\ Same(ss[r], w.s, SessionFields \ {"lastPostSeq"})
      /\ w.s.state # "ABORTED" /\ Eager(r, w.s) /\ Answering(r, w.s)
      /\ x \in From(ss[p], "tx_template_commit", p) /\ x \notin Range(ss[r].post)
  BY <1>1, FluentTook
<1>3. CASE refused
  <2>1. \/ Returns(r, EmitAbort(r, w, "PROTOCOL_ERROR"))
        \/ Returns(r, EmitAbort(r, w, "BAD_MESSAGE"))
    BY <1>3 DEF RcvTemplateCommit
  <2>. HIDE DEF m, w
  <2>2. Heeded(r, m)
    BY <1>2, <2>1, HeedsRefused
  <2>. QED  BY <2>2 DEF m
<1>4. CASE ~refused
  <2>1. w.s.peerCommitHash = None
    <3>1. From(ss[r], "tx_template_commit", p) = {}
      BY <1>2, FirstOfType, PartyInv DEF TemplateInv
    <3>2. ss[r].peerCommitHash = None
      BY <1>2, <3>1, PartyInv DEF TemplateInv
    <3>. QED  BY <1>2, <3>2 DEF Same, SessionFields
  <2>2. Returns(r, CheckTemplatesReady(r, Send(r, Note(k, m), "tx_template_ack", body)))
    BY <1>4, <2>1 DEF RcvTemplateCommit, Keep
  <2>. HIDE DEF m, w
  <2>3. Working(k) /\ Same(w.s, k.s, SessionFields \ {"peerCommitHash"})
    BY <1>2 DEF Recording, Working, SessionFields, Same
  <2>. HIDE DEF k, body
  <2>4. Returns(r, CheckOf(r, Send(r, Note(k, m), AnswerFor("peerCommitHash"), body),
                           "EXEC_TEMPLATES_READY"))
    BY <2>2 DEF CheckOf, AnswerFor
  <2>5. "peerCommitHash" \in AwaitedFor["EXEC_TEMPLATES_READY"]
    BY DEF AwaitedFor
  <2>6. Heeded(r, m)
    BY <1>2, <2>3, <2>4, <2>5, MilestoneSet, HeedsAnswered
  <2>. QED  BY <2>6 DEF m
<1>. QED  BY <1>3, <1>4

LEMMA HeedsTemplateAck ==
    ASSUME NEW r \in Roles, Fluent, RcvTemplateAck(r)
    PROVE  Heeded(r, Head(net[r]))
<1>. DEFINE m == Head(net[r])
            w == Heard(r, m)
            p == Other(r)
            k == [w EXCEPT !.s.localCommitAcked = TRUE]
            x == RecordOf(m)
<1>1. Takes(r, "tx_template_ack") /\ m = Head(net[r]) /\ "tx_template_ack" \in DOMAIN StageOf
  BY PostTypes DEF RcvTemplateAck
<1>2. /\ SInv /\ p \in Roles /\ Other(p) = r /\ Recording(w)
      /\ Same(ss[r], w.s, SessionFields \ {"lastPostSeq"})
      /\ w.s.state # "ABORTED" /\ Eager(r, w.s) /\ Answering(r, w.s)
      /\ x \in From(ss[p], "tx_template_ack", p) /\ x \notin Range(ss[r].post)
  BY <1>1, FluentTook
<1>3. CASE m.body.commitHash # w.s.templates
  <2>1. Returns(r, EmitAbort(r, w, "PROTOCOL_ERROR"))
    BY <1>3 DEF RcvTemplateAck
  <2>. HIDE DEF m, w
  <2>2. Heeded(r, m)
    BY <1>2, <2>1, HeedsRefused
  <2>. QED  BY <2>2 DEF m
<1>4. CASE m.body.commitHash = w.s.templates
  <2>1. ~w.s.localCommitAcked
    <3>1. From(ss[r], "tx_template_ack", p) = {}
      BY <1>2, FirstOfType, PartyInv DEF TemplateInv
    <3>2. ~ss[r].localCommitAcked
      BY <1>2, <3>1, PartyInv DEF TemplateInv
    <3>. QED  BY <1>2, <3>2 DEF Same, SessionFields
  <2>2. Returns(r, CheckTemplatesReady(r, Note(k, m)))
    BY <1>4, <2>1 DEF RcvTemplateAck
  <2>. HIDE DEF m, w
  <2>3. Working(k) /\ Same(w.s, k.s, SessionFields \ {"localCommitAcked"})
    BY <1>2 DEF Recording, Working, SessionFields, Same
  <2>. HIDE DEF k
  <2>4. Returns(r, CheckOf(r, Note(k, m), "EXEC_TEMPLATES_READY"))
    BY <2>2 DEF CheckOf
  <2>5. "localCommitAcked" \in AwaitedFor["EXEC_TEMPLATES_READY"]
                               \ {"legs", "capsuleReceived", "peerCommitHash"}
    BY DEF AwaitedFor
  <2>6. Heeded(r, m)
    BY <1>2, <2>3, <2>4, <2>5, MilestoneSet, HeedsNoted
  <2>. QED  BY <2>6 DEF m
<1>. QED  BY <1>3, <1>4

\* A handler that records what it took and otherwise changes nothing awaited.
LEMMA HeedsKept ==
    ASSUME NEW r \in Roles, SInv, NEW m, NEW w, NEW v, w.s.state # "ABORTED",
           Eager(r, w.s), Answering(r, w.s), Carries(r, w, v),
           RecordOf(m) \in Range(v.s.post), Returns(r, v)
    PROVE  Heeded(r, m)
<1>. DEFINE event == "EXECUTION_PLANNED"
            F == {}
<1>1. event \in Milestones /\ F \subseteq AwaitedFor[event] /\ Acknowledges(r, v.s, F)
  BY MilestoneSet DEF Acknowledges
<1>2. Spared(r, w.s, w.s, F) /\ Spared(r, w.s, v.s, F) /\ AwaitedFor[event] \cap F = {}
  BY DEF Carries, Spared, Same
<1>3. v.s.state # "ABORTED" /\ Met(r, v.s, event) => Passed(v.s, event)
  <2>1. Met(r, v.s, event) <=> Met(r, w.s, event)
    BY <1>1, <1>2, MetSame
  <2>2. Met(r, w.s, event) => Passed(w.s, event)
    BY <1>1 DEF Eager
  <2>. QED  BY <1>1, <1>2, <2>1, <2>2 DEF Spared
<1>. HIDE DEF event, F
<1>. QED  BY <1>1, <1>2, <1>3, HeedsTaken

\* k is w with the leg made l.
Relegs(w, k, leg, l) ==
    /\ Working(k) /\ Same(w.s, k.s, SessionFields \ {"legs"})
    /\ DOMAIN l = {"T", "adaptorSig", "acked"}
    /\ k.s.legs = [w.s.legs EXCEPT ![leg] = l]

\* So does one leg set, which changes nothing that is waited for unless it gets done.
LEMMA LegSet ==
    ASSUME NEW r, NEW w, NEW k, NEW leg \in Legs, NEW l, Recording(w), Relegs(w, k, leg, l)
    PROVE  /\ Recording(k) /\ Spared(r, w.s, k.s, {"legs"}) /\ k.s.post = w.s.post
           /\ (LegDone(r, l) <=> LegDone(r, w.s.legs[leg])) => Carries(r, w, k)
<1>1. /\ DOMAIN k.s.legs = Legs /\ k.s.legs[leg] = l
      /\ \A other \in Legs \ {leg} : k.s.legs[other] = w.s.legs[other]
  BY DEF Recording, Relegs
<1>2. k.s.post = w.s.post /\ k.s.milestones = w.s.milestones
  BY DEF Relegs, Same, SessionFields
<1>3. Recording(k)
  <2>1. \A other \in Legs : DOMAIN k.s.legs[other] = {"T", "adaptorSig", "acked"}
    BY <1>1 DEF Recording, Relegs
  <2>. QED  BY <1>1, <1>2, <2>1 DEF Recording, Relegs
<1>4. Spared(r, w.s, k.s, {"legs"}) /\ Same(w.s, k.s, Awaited)
  BY <1>2 DEF Relegs, Spared, Same, SessionFields, Awaited, Passed
<1>5. ASSUME LegDone(r, l) <=> LegDone(r, w.s.legs[leg])
      PROVE  Carries(r, w, k)
  <2>1. \A other \in Legs : LegDone(r, k.s.legs[other]) <=> LegDone(r, w.s.legs[other])
    BY <1>1, <1>5
  <2>2. Spared(r, w.s, k.s, {})
    BY <1>2, <1>4, <2>1 DEF Spared, Same, Passed
  <2>. QED  BY <1>2, <1>3, <2>2 DEF Carries
<1>. QED  BY <1>2, <1>3, <1>4, <1>5

\* The handlers of the adaptor messages and of the broadcasts, in the same way.
LEMMA HeedsAdaptorStart ==
    ASSUME NEW r \in Roles, Fluent, RcvAdaptorStart(r)
    PROVE  Heeded(r, Head(net[r]))
<1>. DEFINE m == Head(net[r])
            w == Heard(r, m)
            p == Other(r)
            which == m.body.which
            leg == w.s.legs[which]
            sig == AdaptorSig(which, w.s.postSeq)
            k == [w EXCEPT !.s.legs[which].T = m.body.T, !.s.legs[which].adaptorSig = sig]
            kept == Note(k, m)
            body == RespBody(m.body, sig)
            v == Send(r, kept, "adaptor_resp", body)
            x == RecordOf(m)
            refused == \/ r # "bob" \/ m.body.digests # w.s.templates
                       \/ leg.T # None /\ leg.T # m.body.T
<1>1. Takes(r, "adaptor_start") /\ m = Head(net[r]) /\ "adaptor_start" \in DOMAIN StageOf
  BY PostTypes DEF RcvAdaptorStart
<1>2. /\ SInv /\ p \in Roles /\ Other(p) = r /\ Recording(w)
      /\ Same(ss[r], w.s, SessionFields \ {"lastPostSeq"})
      /\ w.s.state # "ABORTED" /\ Eager(r, w.s) /\ Answering(r, w.s)
      /\ x \in From(ss[p], "adaptor_start", p) /\ x \notin Range(ss[r].post)
      /\ x.body = m.body
  BY <1>1, FluentTook
<1>3. which \in Legs
  BY <1>2, PartyInv DEF AdaptorInv, From
<1>4. CASE refused
  <2>1. Returns(r, EmitAbort(r, w, "PROTOCOL_ERROR"))
    BY <1>4 DEF RcvAdaptorStart
  <2>. HIDE DEF m, w
  <2>2. Heeded(r, m)
    BY <1>2, <2>1, HeedsRefused
  <2>. QED  BY <2>2 DEF m
<1>5. CASE ~refused
  <2>1. leg.adaptorSig = None
    <3>1. p = "alice"
      BY <1>5 DEF Other
    <3>2. LegInv(p, ss[p], which)
      BY <1>2, <1>3, PartyInv DEF AdaptorInv
    <3>3. FromLeg(ss[r], "adaptor_start", p, which) = {}
      BY <1>2, <3>1, <3>2, FirstOfType DEF LegInv
    <3>4. LegInv(r, ss[r], which)
      BY <1>2, <1>3, PartyInv DEF AdaptorInv
    <3>5. ss[r].legs[which].adaptorSig = None
      BY <1>5, <3>1, <3>3, <3>4 DEF LegInv
    <3>. QED  BY <1>2, <3>5 DEF Same, SessionFields
  <2>2. Returns(r, v)
    BY <1>5, <2>1 DEF RcvAdaptorStart, Answered
  <2>. HIDE DEF m, w, which, sig, body
  <2>3. /\ Working(k) /\ Same(w.s, k.s, SessionFields \ {"legs"})
        /\ k.s.legs = [w.s.legs EXCEPT ![which] =
                           [w.s.legs[which] EXCEPT !.T = m.body.T, !.adaptorSig = sig]]
    BY <1>2, <1>3 DEF Recording, Working, SessionFields, Same
  <2>. DEFINE l == [w.s.legs[which] EXCEPT !.T = m.body.T, !.adaptorSig = sig]
  <2>4. /\ DOMAIN l = {"T", "adaptorSig", "acked"}
        /\ LegDone(r, l) <=> LegDone(r, w.s.legs[which])
    BY <1>2, <1>3, <1>5 DEF Recording, LegDone
  <2>. HIDE DEF k, l
  <2>5. Relegs(w, k, which, l)
    BY <2>3, <2>4 DEF l, Relegs
  <2>6. Carries(r, w, k) /\ Recording(k)
    <3>1. /\ Recording(k)
          /\ (LegDone(r, l) <=> LegDone(r, w.s.legs[which])) => Carries(r, w, k)
      BY <1>2, <1>3, <2>4, <2>5, LegSet
    <3>. QED  BY <2>4, <3>1
  <2>7. Carries(r, k, kept) /\ x \in Range(kept.s.post)
    BY <2>6, NoteCarries
  <2>. HIDE DEF kept
  <2>8. Recording(kept)
    BY <2>7 DEF Carries
  <2>9. Carries(r, kept, v)
    BY <2>8, SendCarries
  <2>. HIDE DEF v
  <2>10. Carries(r, w, v) /\ x \in Range(v.s.post)
    <3>1. Carries(r, w, kept)
      BY <2>6, <2>7, CarriesOn
    <3>2. Carries(r, w, v)
      BY <2>9, <3>1, CarriesOn
    <3>. QED  BY <2>7, <2>9, <3>2 DEF Carries
  <2>11. Heeded(r, m)
    BY <1>2, <2>2, <2>10, HeedsKept
  <2>. QED  BY <2>11 DEF m
<1>. QED  BY <1>4, <1>5

\* A work in which the last answer about a leg is in, and execution planned if both are.
LEMMA HeedsLeg ==
    ASSUME NEW r \in Roles, SInv, NEW m, NEW w, NEW k, NEW u,
           w.s.state # "ABORTED", Eager(r, w.s), Answering(r, w.s),
           Spared(r, w.s, k.s, {"legs"}), k.s.post = w.s.post, Carries(r, k, u),
           RecordOf(m) \in Range(u.s.post), Acknowledges(r, u.s, {"legs"}),
           Returns(r, IF BothLegs(r, u) THEN Planned(u) ELSE u)
    PROVE  Heeded(r, m)
<1>. DEFINE event == "EXECUTION_PLANNED"
            v == IF BothLegs(r, u) THEN Planned(u) ELSE u
            F == {"legs"}
<1>1. Met(r, u.s, event) <=> BothLegs(r, u)
  BY DEF Met, BothLegs
<1>2. /\ event \in Milestones /\ F \subseteq AwaitedFor[event]
      /\ Recording(u) /\ u.s.post # <<>>
  BY MilestoneSet, EmptySeq DEF AwaitedFor, Carries, Range
<1>3. Checks(r, u, Planned(u), event)
  BY <1>2, CheckPassesNow
<1>4. Carries(r, u, v)
  <2>1. Carries(r, u, u)
    BY <1>2 DEF Carries, Spared, Same
  <2>. QED  BY <1>3, <2>1 DEF Checks
<1>5. v.s.state # "ABORTED" /\ Met(r, v.s, event) => Passed(v.s, event)
  BY <1>1, <1>3 DEF Checks
<1>6. Returns(r, v)
  OBVIOUS
<1>. HIDE DEF v
<1>7. RecordOf(m) \in Range(v.s.post)
  BY <1>4 DEF Carries
<1>8. Acknowledges(r, v.s, F)
  <2>1. ASSUME r = "alice", NEW leg \in Legs, v.s.legs[leg].adaptorSig # None
        PROVE  FromLeg(v.s, "adaptor_ack", r, leg) # {}
    <3>1. LegDone(r, v.s.legs[leg]) <=> LegDone(r, u.s.legs[leg])
      BY <1>4 DEF Carries, Spared
    <3>2. FromLeg(u.s, "adaptor_ack", r, leg) # {}
      BY <2>1, <3>1 DEF LegDone, Acknowledges
    <3>. QED  BY <1>4, <3>2 DEF Carries, From, FromLeg
  <2>. QED  BY <2>1 DEF Acknowledges
<1>9. Carries(r, k, v)
  BY <1>4, CarriesOn
<1>. HIDE DEF event, F
<1>10. Spared(r, w.s, k.s, F)
  BY DEF F
<1>. QED  BY <1>2, <1>5, <1>6, <1>7, <1>8, <1>9, <1>10, HeedsTaken

LEMMA HeedsAdaptorResp ==
    ASSUME NEW r \in Roles, Fluent, RcvAdaptorResp(r)
    PROVE  Heeded(r, Head(net[r]))
<1>. DEFINE m == Head(net[r])
            w == Heard(r, m)
            p == Other(r)
            which == m.body.which
            leg == w.s.legs[which]
            k == [w EXCEPT !.s.legs[which].T = m.body.T,
                           !.s.legs[which].adaptorSig = m.body.sig]
            l == [w.s.legs[which] EXCEPT !.T = m.body.T, !.adaptorSig = m.body.sig]
            kept == Note(k, m)
            body == [which |-> which, digests |-> m.body.digests, T |-> m.body.T]
            sent == Send(r, kept, "adaptor_ack", body)
            u == [sent EXCEPT !.s.legs[which].acked = TRUE]
            x == RecordOf(m)
            refused == \/ r # "alice" \/ m.body.digests # w.s.templates
                       \/ leg.T # None /\ leg.T # m.body.T
                       \/ ~m.body.sig.whole
<1>1. Takes(r, "adaptor_resp") /\ m = Head(net[r]) /\ "adaptor_resp" \in DOMAIN StageOf
  BY PostTypes DEF RcvAdaptorResp
<1>2. /\ SInv /\ p \in Roles /\ Other(p) = r /\ Recording(w)
      /\ Same(ss[r], w.s, SessionFields \ {"lastPostSeq"})
      /\ w.s.state # "ABORTED" /\ Eager(r, w.s) /\ Answering(r, w.s)
      /\ x \in From(ss[p], "adaptor_resp", p) /\ x \notin Range(ss[r].post)
      /\ x.body = m.body
  BY <1>1, FluentTook
<1>3. which \in Legs
  BY <1>2, PartyInv DEF AdaptorInv, From
<1>4. CASE refused
  <2>1. Returns(r, EmitAbort(r, w, "PROTOCOL_ERROR"))
    BY <1>4 DEF RcvAdaptorResp
  <2>. HIDE DEF m, w
  <2>2. Heeded(r, m)
    BY <1>2, <2>1, HeedsRefused
  <2>. QED  BY <2>2 DEF m
<1>5. CASE ~refused
  <2>1. leg.adaptorSig = None
    <3>1. p = "bob"
      BY <1>5 DEF Other
    <3>2. LegInv(p, ss[p], which) /\ LegInv(r, ss[r], which)
      BY <1>2, <1>3, PartyInv DEF AdaptorInv
    <3>3. FromLeg(ss[r], "adaptor_resp", p, which) = {}
      BY <1>2, <3>1, <3>2, FirstOfType DEF LegInv
    <3>4. ss[r].legs[which].adaptorSig = None
      BY <1>5, <3>1, <3>2, <3>3 DEF LegInv
    <3>. QED  BY <1>2, <3>4 DEF Same, SessionFields
  <2>2. Returns(r, IF BothLegs(r, u) THEN Planned(u) ELSE u)
    BY <1>5, <2>1 DEF RcvAdaptorResp
  <2>3. r = "alice"
    BY <1>5
  <2>. HIDE DEF m, w, which
  <2>4. /\ Working(k) /\ Same(w.s, k.s, SessionFields \ {"legs"})
        /\ k.s.legs = [w.s.legs EXCEPT ![which] = l]
    BY <1>2, <1>3 DEF Recording, Working, SessionFields, Same
  <2>5. DOMAIN l = {"T", "adaptorSig", "acked"}
    BY <1>2, <1>3 DEF Recording
  <2>. HIDE DEF k, l, refused
  <2>6. Recording(k) /\ Spared(r, w.s, k.s, {"legs"}) /\ k.s.post = w.s.post
    <3>1. Recording(w) /\ Relegs(w, k, which, l)
      BY <1>2, <2>4, <2>5 DEF Relegs
    <3>. QED  BY <1>3, <3>1, LegSet
  <2>7. Carries(r, k, kept) /\ x \in Range(kept.s.post) /\ Recording(kept)
    <3>1. Carries(r, k, kept) /\ x \in Range(kept.s.post)
      BY <2>6, NoteCarries
    <3>. QED  BY <3>1 DEF Carries
  <2>. HIDE DEF kept
  <2>8. body.which = which
    OBVIOUS
  <2>. HIDE DEF body
  <2>9. /\ Carries(r, kept, sent)
        /\ \E y \in Range(sent.s.post) :
              y.type = "adaptor_ack" /\ y.from = r /\ y.body = body
    BY <2>7, SendCarries
  <2>. HIDE DEF sent
  <2>10. Recording(sent)
    BY <2>9 DEF Carries
  <2>. DEFINE done == [sent.s.legs[which] EXCEPT !.acked = TRUE]
  <2>11. /\ Working(u) /\ Same(sent.s, u.s, SessionFields \ {"legs"})
         /\ u.s.legs = [sent.s.legs EXCEPT ![which] = done]
    BY <1>3, <2>10 DEF Recording, Working, SessionFields, Same
  <2>12. /\ DOMAIN done = {"T", "adaptorSig", "acked"}
         /\ done.adaptorSig = sent.s.legs[which].adaptorSig
    BY <1>3, <2>10 DEF Recording
  <2>. HIDE DEF u, done
  <2>13. Carries(r, sent, u)
    <3>1. LegDone(r, done) <=> LegDone(r, sent.s.legs[which])
      BY <2>3, <2>12 DEF LegDone
    <3>2. (LegDone(r, done) <=> LegDone(r, sent.s.legs[which])) => Carries(r, sent, u)
      <4>1. Relegs(sent, u, which, done)
        BY <2>11, <2>12 DEF Relegs
      <4>. QED  BY <1>3, <2>10, <4>1, LegSet
    <3>. QED  BY <3>1, <3>2
  <2>14. Carries(r, k, u) /\ x \in Range(u.s.post)
    <3>1. Carries(r, k, sent)
      BY <2>7, <2>9, CarriesOn
    <3>2. Carries(r, k, u)
      BY <2>13, <3>1, CarriesOn
    <3>. QED  BY <2>7, <2>9, <2>13, <3>2 DEF Carries
  <2>15. Acknowledges(r, u.s, {"legs"})
    <3>1. ASSUME NEW other \in Legs, u.s.legs[other].adaptorSig # None
          PROVE  FromLeg(u.s, "adaptor_ack", r, other) # {}
      <4>1. CASE other = which
        <5>1. PICK y \in Range(sent.s.post) :
                  y.type = "adaptor_ack" /\ y.from = r /\ y.body = body
          BY <2>9
        <5>2. y \in Range(u.s.post) /\ ~Refusal(y) /\ y.body.which = other
          BY <2>8, <2>13, <4>1, <5>1 DEF Carries, Refusal
        <5>. QED  BY <5>1, <5>2 DEF From, FromLeg
      <4>2. CASE other # which
        <5>1. LegDone(r, k.s.legs[other])
          BY <2>3, <2>14, <3>1 DEF Carries, Spared, LegDone
        <5>2. k.s.legs[other] = w.s.legs[other]
          BY <1>2, <1>3, <2>4, <4>2 DEF Recording
        <5>3. FromLeg(w.s, "adaptor_ack", r, other) # {}
          BY <1>2, <2>3, <5>1, <5>2 DEF LegDone, Answering
        <5>4. Range(w.s.post) \subseteq Range(u.s.post)
          BY <2>6, <2>14 DEF Carries
        <5>. QED  BY <5>3, <5>4 DEF From, FromLeg
      <4>. QED  BY <4>1, <4>2
    <3>. QED  BY <3>1 DEF Acknowledges
  <2>16. Heeded(r, m)
    BY <1>2, <2>2, <2>6, <2>14, <2>15, HeedsLeg
  <2>. QED  BY <2>16 DEF m
<1>. QED  BY <1>4, <1>5

LEMMA HeedsAdaptorAck ==
    ASSUME NEW r \in Roles, Fluent, RcvAdaptorAck(r)
    PROVE  Heeded(r, Head(net[r]))
<1>. DEFINE m == Head(net[r])
            w == Heard(r, m)
            p == Other(r)
            which == m.body.which
            leg == w.s.legs[which]
            k == [w EXCEPT !.s.legs[which].acked = TRUE]
            l == [w.s.legs[which] EXCEPT !.acked = TRUE]
            u == Note(k, m)
            x == RecordOf(m)
            refused == r # "bob" \/ m.body.digests # w.s.templates \/ m.body.T # leg.T
<1>1. Takes(r, "adaptor_ack") /\ m = Head(net[r]) /\ "adaptor_ack" \in DOMAIN StageOf
  BY PostTypes DEF RcvAdaptorAck
<1>2. /\ SInv /\ p \in Roles /\ Other(p) = r /\ Recording(w)
      /\ Same(ss[r], w.s, SessionFields \ {"lastPostSeq"})
      /\ w.s.state # "ABORTED" /\ Eager(r, w.s) /\ Answering(r, w.s)
      /\ x \in From(ss[p], "adaptor_ack", p) /\ x \notin Range(ss[r].post)
      /\ x.body = m.body
  BY <1>1, FluentTook
<1>3. which \in Legs
  BY <1>2, PartyInv DEF AdaptorInv, From
<1>4. CASE refused
  <2>1. Returns(r, EmitAbort(r, w, "PROTOCOL_ERROR"))
    BY <1>4 DEF RcvAdaptorAck
  <2>. HIDE DEF m, w
  <2>2. Heeded(r, m)
    BY <1>2, <2>1, HeedsRefused
  <2>. QED  BY <2>2 DEF m
<1>5. CASE ~refused
  <2>1. ~leg.acked
    <3>1. p = "alice" /\ r # "alice"
      BY <1>5 DEF Other
    <3>2. LegInv(p, ss[p], which) /\ LegInv(r, ss[r], which)
      BY <1>2, <1>3, PartyInv DEF AdaptorInv
    <3>3. FromLeg(ss[r], "adaptor_ack", p, which) = {}
      BY <1>2, <3>1, <3>2, FirstOfType DEF LegInv
    <3>4. ~ss[r].legs[which].acked
      BY <3>1, <3>2, <3>3 DEF LegInv
    <3>. QED  BY <1>2, <3>4 DEF Same, SessionFields
  <2>2. Returns(r, IF BothLegs(r, u) THEN Planned(u) ELSE u)
    BY <1>5, <2>1 DEF RcvAdaptorAck
  <2>3. r # "alice"
    BY <1>5
  <2>. HIDE DEF m, w, which
  <2>4. /\ Working(k) /\ Same(w.s, k.s, SessionFields \ {"legs"})
        /\ k.s.legs = [w.s.legs EXCEPT ![which] = l]
    BY <1>2, <1>3 DEF Recording, Working, SessionFields, Same
  <2>5. DOMAIN l = {"T", "adaptorSig", "acked"}
    BY <1>2, <1>3 DEF Recording
  <2>. HIDE DEF k, l, refused
  <2>6. Recording(k) /\ Spared(r, w.s, k.s, {"legs"}) /\ k.s.post = w.s.post
    <3>1. Recording(w) /\ Relegs(w, k, which, l)
      BY <1>2, <2>4, <2>5 DEF Relegs
    <3>. QED  BY <1>3, <3>1, LegSet
  <2>7. Carries(r, k, u) /\ x \in Range(u.s.post)
    BY <2>6, NoteCarries
  <2>8. Acknowledges(r, u.s, {"legs"})
    BY <2>3 DEF Acknowledges
  <2>. HIDE DEF u
  <2>9. Heeded(r, m)
    BY <1>2, <2>2, <2>6, <2>7, <2>8, HeedsLeg
  <2>. QED  BY <2>9 DEF m
<1>. QED  BY <1>4, <1>5

LEMMA HeedsTxBBroadcast ==
    ASSUME NEW r \in Roles, Fluent, RcvTxBBroadcast(r)
    PROVE  Heeded(r, Head(net[r]))
<1>. DEFINE m == Head(net[r])
            w == Heard(r, m)
            p == Other(r)
            k == [w EXCEPT !.s.peerTxBHash = m.body.txHash]
            u == Note(k, m)
            x == RecordOf(m)
<1>1. Takes(r, "txB_broadcast") /\ m = Head(net[r]) /\ "txB_broadcast" \in DOMAIN StageOf
  BY PostTypes DEF RcvTxBBroadcast
<1>2. /\ SInv /\ p \in Roles /\ Other(p) = r /\ Recording(w)
      /\ Same(ss[r], w.s, SessionFields \ {"lastPostSeq"})
      /\ w.s.state # "ABORTED" /\ Eager(r, w.s) /\ Answering(r, w.s)
      /\ x \in From(ss[p], "txB_broadcast", p) /\ x \notin Range(ss[r].post)
  BY <1>1, FluentTook
<1>3. CASE r # "bob"
  <2>1. Returns(r, EmitAbort(r, w, "PROTOCOL_ERROR"))
    BY <1>3 DEF RcvTxBBroadcast
  <2>. HIDE DEF m, w
  <2>2. Heeded(r, m)
    BY <1>2, <2>1, HeedsRefused
  <2>. QED  BY <2>2 DEF m
<1>4. CASE r = "bob"
  <2>1. w.s.peerTxBHash = None
    <3>1. From(ss[r], "txB_broadcast", p) = {}
      BY <1>2, FirstOfType, PartyInv DEF BroadcastInv
    <3>2. p = "alice"
      BY <1>4 DEF Other
    <3>3. ss[r].peerTxBHash = None
      BY <1>2, <3>1, <3>2, PartyInv DEF BroadcastInv
    <3>. QED  BY <1>2, <3>3 DEF Same, SessionFields
  <2>2. Returns(r, u)
    BY <1>4, <2>1 DEF RcvTxBBroadcast, Keep
  <2>. HIDE DEF m, w
  <2>3. Working(k) /\ Same(w.s, k.s, SessionFields \ {"peerTxBHash"})
    BY <1>2 DEF Recording, Working, SessionFields, Same
  <2>. HIDE DEF k
  <2>4. Recording(k) /\ Carries(r, w, k)
    BY <1>2, <2>3 DEF Recording, Carries, Spared, Same, SessionFields, Awaited, Passed
  <2>5. Carries(r, k, u) /\ x \in Range(u.s.post)
    BY <2>4, NoteCarries
  <2>. HIDE DEF u
  <2>6. Carries(r, w, u)
    BY <2>4, <2>5, CarriesOn
  <2>7. Heeded(r, m)
    BY <1>2, <2>2, <2>5, <2>6, HeedsKept
  <2>. QED  BY <2>7 DEF m
<1>. QED  BY <1>3, <1>4

LEMMA HeedsTxABroadcast ==
    ASSUME NEW r \in Roles, Fluent, RcvTxABroadcast(r)
    PROVE  Heeded(r, Head(net[r]))
<1>. DEFINE m == Head(net[r])
            w == Heard(r, m)
            p == Other(r)
            k == [w EXCEPT !.s.peerTxAHash = m.body.txHash]
            u == Note(k, m)
            x == RecordOf(m)
<1>1. Takes(r, "txA_broadcast") /\ m = Head(net[r]) /\ "txA_broadcast" \in DOMAIN StageOf
  BY PostTypes DEF RcvTxABroadcast
<1>2. /\ SInv /\ p \in Roles /\ Other(p) = r /\ Recording(w)
      /\ Same(ss[r], w.s, SessionFields \ {"lastPostSeq"})
      /\ w.s.state # "ABORTED" /\ Eager(r, w.s) /\ Answering(r, w.s)
      /\ x \in From(ss[p], "txA_broadcast", p) /\ x \notin Range(ss[r].post)
  BY <1>1, FluentTook
<1>3. CASE r # "alice"
  <2>1. Returns(r, EmitAbort(r, w, "PROTOCOL_ERROR"))
    BY <1>3 DEF RcvTxABroadcast
  <2>. HIDE DEF m, w
  <2>2. Heeded(r, m)
    BY <1>2, <2>1, HeedsRefused
  <2>. QED  BY <2>2 DEF m
<1>4. CASE r = "alice"
  <2>1. w.s.peerTxAHash = None
    <3>1. From(ss[r], "txA_broadcast", p) = {}
      BY <1>2, FirstOfType, PartyInv DEF BroadcastInv
    <3>2. p = "bob"
      BY <1>4 DEF Other
    <3>3. ss[r].peerTxAHash = None
      BY <1>2, <3>1, <3>2, PartyInv DEF BroadcastInv
    <3>. QED  BY <1>2, <3>3 DEF Same, SessionFields
  <2>2. Returns(r, u)
    BY <1>4, <2>1 DEF RcvTxABroadcast, Keep
  <2>. HIDE DEF m, w
  <2>3. Working(k) /\ Same(w.s, k.s, SessionFields \ {"peerTxAHash"})
    BY <1>2 DEF Recording, Working, SessionFields, Same
  <2>. HIDE DEF k
  <2>4. Recording(k) /\ Carries(r, w, k)
    BY <1>2, <2>3 DEF Recording, Carries, Spared, Same, SessionFields, Awaited, Passed
  <2>5. Carries(r, k, u) /\ x \in Range(u.s.post)
    BY <2>4, NoteCarries
  <2>. HIDE DEF u
  <2>6. Carries(r, w, u)
    BY <2>4, <2>5, CarriesOn
  <2>7. Heeded(r, m)
    BY <1>2, <2>2, <2>5, <2>6, HeedsKept
  <2>. QED  BY <2>7 DEF m
<1>. QED  BY <1>3, <1>4

-----------------------------------------------------------------------------
(* Between such parties no message comes early *)

\* A message that finds r between two parties that have lost nothing.
Finds(r, m) ==
    /\ Fluent /\ SessionOpen(r) /\ net[r] # <<>> /\ m = Head(net[r]) /\ m.type # "abort"

\* What is known of a message that r finds before it.
LEMMA FoundFacts ==
    ASSUME NEW r \in Roles, NEW m, Finds(r, m)
    PROVE  /\ SInv /\ Other(r) \in Roles /\ Other(Other(r)) = r /\ m.type \in DOMAIN StageOf
           /\ RecordOf(m) \in From(ss[Other(r)], m.type, Other(r))
           /\ RecordOf(m) \notin Range(ss[r].post) /\ RecordOf(m).seq = m.seq
           /\ ss[r].state # "ABORTED" /\ Eager(r, ss[r])
           /\ Answering(Other(r), ss[Other(r)])
<1>1. Fluent /\ ~Aborted(r)
  BY DEF Finds, SessionOpen, Aborted
<1>2. SInv /\ Flowing(r) /\ Flowing(Other(r))
  BY <1>1, OtherRole DEF Fluent
<1>. QED  BY <1>1, <1>2, FluentHead DEF Finds, Flowing, Aborted

\* Of what completes a phase the peer sent nothing that r has not heard before it
\* hears of a later phase.
LEMMA HeardBefore ==
    ASSUME NEW r \in Roles, NEW m, Finds(r, m), NEW type \in Closers,
           Precedes(type, m.type), NEW y \in From(ss[Other(r)], type, Other(r))
    PROVE  y \in From(ss[r], type, Other(r))
<1>. DEFINE p == Other(r)
            x == RecordOf(m)
<1>1. /\ SInv /\ p \in Roles /\ x \in From(ss[p], m.type, p) /\ x.seq = m.seq
  BY FoundFacts
<1>2. y.seq < x.seq /\ y.seq \in Nat /\ x.seq \in Nat
  <2>1. NumberInv(p, ss[p])
    BY <1>1, PartyInv
  <2>2. y \in Range(ss[p].post) /\ x \in Range(ss[p].post) /\ y.from = p /\ x.from = p
        /\ y.type = type /\ x.type = m.type
    BY <1>1 DEF From
  <2>. QED  BY <2>1, <2>2 DEF NumberInv
<1>3. Delivered(r) /\ ~Aborted(r) /\ net[r] \in Seq(Range(net[r])) /\ net[r] # <<>>
  BY DEF Finds, Fluent, Flowing, SessionOpen, Aborted, SInv
<1>4. y \in Range(ss[r].post) \/ Coming(r, y)
  BY <1>3 DEF Delivered, From
<1>5. ~Coming(r, y)
  <2>1. SUFFICES ASSUME NEW n \in Range(net[r]), RecordOf(n) = y
                 PROVE  FALSE
    BY DEF Coming
  <2>2. n.seq = y.seq
    BY <2>1 DEF RecordOf
  <2>3. Rising(net[r]) /\ m = Head(net[r])
    BY <1>3 DEF Delivered, Finds
  <2>4. n = m \/ m.seq < n.seq
    BY <1>3, <2>3, RisingTail
  <2>. QED  BY <1>1, <1>2, <2>2, <2>4
<1>. QED  BY <1>4, <1>5 DEF From

\* r has no milestone behind it that the message's type belongs to.
LEMMA NotFinished ==
    ASSUME NEW r \in Roles, NEW m, Finds(r, m), NEW event \in Milestones, Passed(ss[r], event)
    PROVE  m.type \notin TypesBefore[event]
<1>1. SInv /\ RecordOf(m) \in From(ss[Other(r)], m.type, Other(r))
      /\ RecordOf(m) \notin Range(ss[r].post)
  BY FoundFacts
<1>2. Knows(r, TypesBefore[event])
  BY <1>1, KnowsBefore
<1>. QED  BY <1>1, <1>2 DEF Knows, From

\* The peer is past what its message comes after.
LEMMA SenderPassed ==
    ASSUME NEW r \in Roles, NEW m, Finds(r, m), m.type # "keygen_announce"
    PROVE  Passed(ss[Other(r)], OpenedBy[m.type])
<1>1. SInv /\ Other(r) \in Roles /\ RecordOf(m) \in From(ss[Other(r)], m.type, Other(r))
  BY FoundFacts
<1>. QED  BY <1>1, PartyInv DEF LogInv, From

\* What the peer has of r's, r has on record.
LEMMA OwnHeard ==
    ASSUME NEW r \in Roles, SInv, NEW type, NEW y \in From(ss[Other(r)], type, r)
    PROVE  y \in From(ss[r], type, r)
BY OtherRole, PeerRecord

\* No message of a later phase is found in KEYGEN: who sent it had left KEYGEN, so it had
\* sent its announcement first, which r has heard.
LEMMA NotInKeygen ==
    ASSUME NEW r \in Roles, NEW m, Finds(r, m), m.type # "keygen_announce"
    PROVE  ss[r].state # "KEYGEN"
<1>. DEFINE p == Other(r)
<1>1. SUFFICES ASSUME ss[r].state = "KEYGEN" PROVE FALSE
  OBVIOUS
<1>2. /\ SInv /\ p \in Roles /\ Eager(r, ss[r]) /\ m.type \in DOMAIN StageOf /\ Locked(p)
  BY FoundFacts DEF Finds, Fluent
<1>3. Precedes("keygen_announce", m.type) /\ "keygen_announce" \in Closers
  BY <1>2, PostTypes DEF Precedes, TypesBefore, OpenedBy, Closers
<1>4. PICK y : y \in From(ss[p], "keygen_announce", p)
  BY <1>2, PartyInv DEF KeygenInv
<1>5. y \in From(ss[r], "keygen_announce", p)
  BY <1>3, <1>4, HeardBefore
<1>6. ss[r].peerMpc # None
  BY <1>2, <1>5, PartyInv DEF KeygenInv
<1>7. Passed(ss[r], "KEYGEN_COMPLETE")
  BY <1>1, <1>2, <1>6, MilestoneSet DEF Eager, Met
<1>. QED  BY <1>1, <1>2, <1>7, PartyInv DEF StateInv

\* Nor in CAPSULES_EXCHANGE, since its sender has had both acknowledgements.
LEMMA NotInCapsules ==
    ASSUME NEW r \in Roles, NEW m, Finds(r, m), m.type \in DOMAIN StageOf,
           m.type \notin TypesBefore["CAPSULES_VERIFIED"]
    PROVE  ss[r].state # "CAPSULES_EXCHANGE"
<1>. DEFINE p == Other(r)
<1>1. SUFFICES ASSUME ss[r].state = "CAPSULES_EXCHANGE" PROVE FALSE
  OBVIOUS
<1>2. /\ SInv /\ p \in Roles /\ Other(p) = r /\ Eager(r, ss[r]) /\ Answering(p, ss[p])
  BY FoundFacts
<1>3. Precedes("capsule_ack", m.type) /\ "capsule_ack" \in Closers
  BY PostTypes DEF Precedes, TypesBefore, OpenedBy, Closers
<1>4. Passed(ss[p], "CAPSULES_VERIFIED")
  <2>1. Passed(ss[p], OpenedBy[m.type])
    BY SenderPassed DEF TypesBefore
  <2>2. OpenedBy[m.type] \in Milestones \ {"KEYGEN_COMPLETE"}
    BY PostTypes, MilestoneSet DEF OpenedBy, TypesBefore
  <2>. QED  BY <1>2, <2>1, <2>2, InOrderPassed, MilestoneSet
<1>5. ss[p].capsuleReceived /\ ss[p].capsuleAcked
  BY <1>2, <1>4, PartyInv DEF CapsuleInv
<1>6. ss[r].capsuleReceived
  <2>1. PICK y : y \in From(ss[p], "capsule_ack", r)
    BY <1>2, <1>5, PartyInv DEF CapsuleInv
  <2>2. y \in From(ss[r], "capsule_ack", r)
    BY <1>2, <2>1, OwnHeard
  <2>. QED  BY <1>2, <2>2, PartyInv DEF CapsuleInv
<1>7. ss[r].capsuleAcked
  <2>1. PICK y : y \in From(ss[p], "capsule_ack", p)
    BY <1>2, <1>5 DEF Answering
  <2>2. y \in From(ss[r], "capsule_ack", p)
    BY <1>3, <2>1, HeardBefore
  <2>. QED  BY <1>2, <2>2, PartyInv DEF CapsuleInv
<1>8. Passed(ss[r], "CAPSULES_VERIFIED")
  BY <1>1, <1>2, <1>6, <1>7, MilestoneSet DEF Eager, Met
<1>. QED  BY <1>1, <1>2, <1>8, PartyInv DEF StateInv

\* Nor in FUNDING, but for the reports and fees of a peer that has seen both fundings: those
\* confirmations come to each party by itself.
LEMMA NotInFunding ==
    ASSUME NEW r \in Roles, NEW m, Finds(r, m), m.type \in DOMAIN StageOf,
           m.type \notin TypesBefore["FUNDED"] \cup {"nonce_report", "fee_params"}
    PROVE  ss[r].state # "FUNDING"
<1>. DEFINE p == Other(r)
            x == RecordOf(m)
<1>1. SUFFICES ASSUME ss[r].state = "FUNDING" PROVE FALSE
  OBVIOUS
<1>2. /\ SInv /\ p \in Roles /\ Other(p) = r /\ x \in From(ss[p], m.type, p)
  BY FoundFacts
<1>3. ASSUME NEW type \in {"nonce_report", "fee_params"}, From(ss[p], type, r) # {}
      PROVE  FALSE
  <2>1. PICK y : y \in From(ss[p], type, r)
    BY <1>3
  <2>2. y \in From(ss[r], type, r)
    BY <1>2, <2>1, OwnHeard
  <2>3. Passed(ss[r], "FUNDED")
    BY <1>2, <2>2, PartyInv DEF LogInv, From, OpenedBy
  <2>. QED  BY <1>1, <1>2, <2>3, PartyInv DEF StateInv
<1>4. CASE m.type = "fee_params_ack"
  <2>1. PrepInv(p, ss[p], calls[p])
    BY <1>2, PartyInv
  <2>2. p = "bob" /\ r = "alice"
    BY <1>2, <1>4, <2>1, OtherRole DEF PrepInv, Other, Roles
  <2>3. From(ss[p], "fee_params", r) # {}
    BY <1>2, <1>4, <2>1, <2>2 DEF PrepInv
  <2>. QED  BY <1>3, <2>3
<1>5. CASE m.type # "fee_params_ack"
  <2>1. Passed(ss[p], OpenedBy[m.type])
    BY SenderPassed DEF TypesBefore
  <2>2. OpenedBy[m.type] \in {"EXEC_READY", "EXEC_TEMPLATES_READY", "EXECUTION_PLANNED"}
    BY <1>5, PostTypes DEF OpenedBy, TypesBefore
  <2>3. Passed(ss[p], "EXEC_READY")
    BY <1>2, <2>1, <2>2, InOrderPassed
  <2>4. From(ss[p], "nonce_report", r) # {}
    BY <1>2, <2>3, PartyInv DEF PrepInv
  <2>. QED  BY <1>3, <2>4
<1>. QED  BY <1>4, <1>5

\* Nor in EXEC_PREP, but for the commitment when the report before it was thrown away.
LEMMA NotInPrep ==
    ASSUME NEW r \in Roles, NEW m, Finds(r, m), m.type \in DOMAIN StageOf,
           m.type \notin TypesBefore["EXEC_READY"],
           m.type # "tx_template_commit" \/ ss[r].peerNonces # None
    PROVE  ss[r].state # "EXEC_PREP"
<1>. DEFINE p == Other(r)
            x == RecordOf(m)
<1>1. SUFFICES ASSUME ss[r].state = "EXEC_PREP" PROVE FALSE
  OBVIOUS
<1>2. /\ SInv /\ p \in Roles /\ Other(p) = r /\ x \in From(ss[p], m.type, p)
      /\ Eager(r, ss[r])
  BY FoundFacts
<1>3. ~Passed(ss[r], "EXEC_READY")
  BY <1>1, <1>2, PartyInv DEF StateInv
<1>4. CASE m.type # "tx_template_commit"
  <2>1. From(ss[p], "tx_template_commit", r) # {}
    <3>1. TemplateInv(p, ss[p])
      BY <1>2, PartyInv
    <3>2. CASE m.type = "tx_template_ack"
      BY <1>2, <3>1, <3>2 DEF TemplateInv
    <3>3. CASE m.type # "tx_template_ack"
      <4>1. Passed(ss[p], OpenedBy[m.type])
        BY SenderPassed DEF TypesBefore
      <4>2. OpenedBy[m.type] \in {"EXEC_TEMPLATES_READY", "EXECUTION_PLANNED"}
        BY <1>4, <3>3, PostTypes DEF OpenedBy, TypesBefore
      <4>3. Passed(ss[p], "EXEC_TEMPLATES_READY")
        BY <1>2, <4>1, <4>2, InOrderPassed
      <4>. QED  BY <1>2, <3>1, <4>3 DEF TemplateInv
    <3>. QED  BY <3>2, <3>3
  <2>2. PICK y : y \in From(ss[p], "tx_template_commit", r)
    BY <2>1
  <2>3. y \in From(ss[r], "tx_template_commit", r)
    BY <1>2, <2>2, OwnHeard
  <2>. QED  BY <1>2, <1>3, <2>3, PartyInv DEF LogInv, From, OpenedBy
<1>5. CASE m.type = "tx_template_commit"
  <2>1. Passed(ss[p], "EXEC_READY")
    BY <1>5, SenderPassed DEF OpenedBy
  <2>2. PrepInv(p, ss[p], calls[p]) /\ PrepInv(r, ss[r], calls[r])
    BY <1>2, PartyInv
  <2>3. /\ ss[p].peerNonces # None /\ ss[p].feeParams # None /\ ss[p].feeAcked
    BY <2>1, <2>2 DEF PrepInv
  <2>4. ss[r].localNonces # None
    <3>1. PICK y : y \in From(ss[p], "nonce_report", r)
      BY <1>2, <2>2, <2>3 DEF PrepInv
    <3>2. y \in From(ss[r], "nonce_report", r)
      BY <1>2, <3>1, OwnHeard
    <3>. QED  BY <2>2, <3>2 DEF PrepInv
  <2>5. PICK y : y \in From(ss[p], "fee_params_ack", "bob")
    BY <2>2, <2>3 DEF PrepInv
  <2>6. y \in From(ss[r], "fee_params_ack", "bob")
    <3>1. CASE r = "bob"
      BY <1>2, <2>5, <3>1, OwnHeard
    <3>2. CASE p = "bob"
      <4>1. Precedes("fee_params_ack", m.type) /\ "fee_params_ack" \in Closers
        BY <1>5 DEF Precedes, TypesBefore, OpenedBy, Closers
      <4>. QED  BY <2>5, <3>2, <4>1, HeardBefore
    <3>3. r = "bob" \/ p = "bob"
      BY DEF Other, Roles
    <3>. QED  BY <3>1, <3>2, <3>3
  <2>7. ss[r].feeParams # None /\ ss[r].feeAcked
    BY <2>2, <2>6 DEF PrepInv
  <2>8. Met(r, ss[r], "EXEC_READY")
    BY <1>5, <2>4, <2>7 DEF Met
  <2>. QED  BY <1>1, <1>2, <1>3, <2>8, MilestoneSet DEF Eager
<1>. QED  BY <1>4, <1>5

\* Nor in EXEC_TEMPLATES_SYNC, since its sender has had both acknowledgements.
LEMMA NotInTemplates ==
    ASSUME NEW r \in Roles, NEW m, Finds(r, m), m.type \in DOMAIN StageOf,
           m.type \notin TypesBefore["EXEC_TEMPLATES_READY"]
    PROVE  ss[r].state # "EXEC_TEMPLATES_SYNC"
<1>. DEFINE p == Other(r)
<1>1. SUFFICES ASSUME ss[r].state = "EXEC_TEMPLATES_SYNC" PROVE FALSE
  OBVIOUS
<1>2. /\ SInv /\ p \in Roles /\ Other(p) = r /\ Eager(r, ss[r]) /\ Answering(p, ss[p])
  BY FoundFacts
<1>3. /\ Precedes("tx_template_ack", m.type) /\ "tx_template_ack" \in Closers
      /\ OpenedBy[m.type] \in {"EXEC_TEMPLATES_READY", "EXECUTION_PLANNED"}
  BY PostTypes DEF Precedes, TypesBefore, OpenedBy, Closers
<1>4. Passed(ss[p], "EXEC_TEMPLATES_READY")
  <2>1. Passed(ss[p], OpenedBy[m.type])
    BY SenderPassed DEF TypesBefore
  <2>. QED  BY <1>2, <1>3, <2>1, InOrderPassed
<1>5. ss[p].peerCommitHash # None /\ ss[p].localCommitAcked
  BY <1>2, <1>4, PartyInv DEF TemplateInv
<1>6. ss[r].peerCommitHash # None
  <2>1. PICK y : y \in From(ss[p], "tx_template_ack", r)
    BY <1>2, <1>5, PartyInv DEF TemplateInv
  <2>2. y \in From(ss[r], "tx_template_ack", r)
    BY <1>2, <2>1, OwnHeard
  <2>. QED  BY <1>2, <2>2, PartyInv DEF TemplateInv
<1>7. ss[r].localCommitAcked
  <2>1. PICK y : y \in From(ss[p], "tx_template_ack", p)
    BY <1>2, <1>5 DEF Answering
  <2>2. y \in From(ss[r], "tx_template_ack", p)
    BY <1>3, <2>1, HeardBefore
  <2>. QED  BY <1>2, <2>2, PartyInv DEF TemplateInv
<1>8. Passed(ss[r], "EXEC_TEMPLATES_READY")
  BY <1>1, <1>2, <1>6, <1>7, MilestoneSet DEF Eager, Met
<1>. QED  BY <1>1, <1>2, <1>8, PartyInv DEF StateInv

\* Nor in ADAPTOR_NEGOTIATING, since its sender has had both legs done.
LEMMA NotInAdaptors ==
    ASSUME NEW r \in Roles, NEW m, Finds(r, m), m.type \in {"txB_broadcast", "txA_broadcast"}
    PROVE  ss[r].state # "ADAPTOR_NEGOTIATING"
<1>. DEFINE p == Other(r)
<1>1. SUFFICES ASSUME ss[r].state = "ADAPTOR_NEGOTIATING" PROVE FALSE
  OBVIOUS
<1>2. /\ SInv /\ p \in Roles /\ Other(p) = r /\ Eager(r, ss[r]) /\ Answering(p, ss[p])
  BY FoundFacts
<1>3. ~Passed(ss[r], "EXECUTION_PLANNED")
  BY <1>1, <1>2, PartyInv DEF StateInv
<1>4. Passed(ss[p], "EXECUTION_PLANNED")
  BY SenderPassed DEF OpenedBy
<1>5. ASSUME NEW leg \in Legs
      PROVE  LegDone(r, ss[r].legs[leg])
  <2>1. LegDone(p, ss[p].legs[leg])
    BY <1>2, <1>4, PartyInv DEF AdaptorInv
  <2>2. LegInv(p, ss[p], leg) /\ LegInv(r, ss[r], leg)
    BY <1>2, PartyInv DEF AdaptorInv
  <2>3. CASE r = "alice"
    <3>1. p # "alice"
      BY <2>3, OtherRole
    <3>2. PICK y : y \in FromLeg(ss[p], "adaptor_ack", "alice", leg)
      BY <2>1, <2>2, <3>1 DEF LegInv, LegDone
    <3>3. y \in FromLeg(ss[r], "adaptor_ack", "alice", leg)
      BY <1>2, <2>3, <3>2, OwnHeard DEF FromLeg
    <3>. QED  BY <2>2, <2>3, <3>3 DEF LegInv, LegDone
  <2>4. CASE p = "alice"
    <3>1. r # "alice"
      BY <2>4, OtherRole
    <3>2. PICK y : y \in FromLeg(ss[p], "adaptor_ack", p, leg)
      BY <1>2, <2>1, <2>4 DEF Answering, LegDone
    <3>3. Precedes("adaptor_ack", m.type) /\ "adaptor_ack" \in Closers
      BY PostTypes DEF Precedes, TypesBefore, OpenedBy, Closers
    <3>4. y \in FromLeg(ss[r], "adaptor_ack", p, leg)
      BY <3>2, <3>3, HeardBefore DEF FromLeg
    <3>. QED  BY <2>2, <2>4, <3>1, <3>4 DEF LegInv, LegDone
  <2>. QED  BY <2>3, <2>4 DEF Other
<1>6. Met(r, ss[r], "EXECUTION_PLANNED")
  BY <1>5 DEF Met
<1>. QED  BY <1>1, <1>2, <1>3, <1>6, MilestoneSet DEF Eager

\* What a party may drop that comes before its state.
Allowed(r, m) ==
    \/ ss[r].state = "FUNDING" /\ m.type \in {"nonce_report", "fee_params"}
    \/ ss[r].state = "EXEC_PREP" /\ m.type = "tx_template_commit" /\ ss[r].peerNonces = None

\* Between two parties that have lost nothing a message finds the state it is meant for,
\* but for what the end of funding lets arrive early.
LEMMA NothingSkipped ==
    ASSUME NEW r \in Roles, NEW m, Finds(r, m), StageOf[m.type] # ss[r].state
    PROVE  Allowed(r, m)
<1>1. SInv /\ m.type \in DOMAIN StageOf /\ SessionOpen(r)
  BY FoundFacts DEF Finds
<1>2. StateInv(r, ss[r])
  BY <1>1, PartyInv
<1>3. ss[r].state \in {"KEYGEN", "CAPSULES_EXCHANGE", "FUNDING", "EXEC_PREP",
                       "EXEC_TEMPLATES_SYNC", "ADAPTOR_NEGOTIATING", "EXECUTION_PLANNED"}
  BY <1>1, <1>2, PostTypes DEF StateInv, SessionOpen, StageOf
<1>4. CASE ss[r].state = "KEYGEN"
  BY <1>4, NotInKeygen DEF StageOf
<1>5. CASE ss[r].state = "CAPSULES_EXCHANGE"
  <2>1. m.type \notin TypesBefore["KEYGEN_COMPLETE"]
    BY <1>2, <1>5, NotFinished, MilestoneSet DEF StateInv
  <2>2. m.type \notin TypesBefore["CAPSULES_VERIFIED"]
    BY <1>1, <1>5, <2>1 DEF TypesBefore, StageOf
  <2>. QED  BY <1>1, <1>5, <2>2, NotInCapsules
<1>6. CASE ss[r].state = "FUNDING"
  <2>1. m.type \notin TypesBefore["CAPSULES_VERIFIED"]
    BY <1>2, <1>6, NotFinished, MilestoneSet DEF StateInv
  <2>2. m.type \notin TypesBefore["FUNDED"]
    BY <1>1, <1>6, <2>1 DEF TypesBefore, StageOf
  <2>. QED  BY <1>1, <1>6, <2>2, NotInFunding DEF Allowed
<1>7. CASE ss[r].state = "EXEC_PREP"
  <2>1. m.type \notin TypesBefore["FUNDED"]
    BY <1>2, <1>7, NotFinished, MilestoneSet DEF StateInv
  <2>2. m.type \notin TypesBefore["EXEC_READY"]
    BY <1>1, <1>7, <2>1 DEF TypesBefore, StageOf
  <2>. QED  BY <1>1, <1>7, <2>2, NotInPrep DEF Allowed
<1>8. CASE ss[r].state = "EXEC_TEMPLATES_SYNC"
  <2>1. m.type \notin TypesBefore["EXEC_READY"]
    BY <1>2, <1>8, NotFinished, MilestoneSet DEF StateInv
  <2>2. m.type \notin TypesBefore["EXEC_TEMPLATES_READY"]
    BY <1>1, <1>8, <2>1 DEF TypesBefore, StageOf
  <2>. QED  BY <1>1, <1>8, <2>2, NotInTemplates
<1>9. CASE ss[r].state = "ADAPTOR_NEGOTIATING"
  <2>1. m.type \notin TypesBefore["EXEC_TEMPLATES_READY"]
    BY <1>2, <1>9, NotFinished, MilestoneSet DEF StateInv
  <2>2. m.type \in {"txB_broadcast", "txA_broadcast"}
    BY <1>1, <1>9, <2>1, PostTypes DEF TypesBefore, StageOf
  <2>. QED  BY <1>9, <2>2, NotInAdaptors
<1>10. CASE ss[r].state = "EXECUTION_PLANNED"
  <2>1. m.type \notin TypesBefore["EXECUTION_PLANNED"]
    BY <1>2, <1>10, NotFinished, MilestoneSet DEF StateInv
  <2>. QED  BY <1>1, <1>10, <2>1, PostTypes DEF TypesBefore, StageOf
<1>. QED  BY <1>3, <1>4, <1>5, <1>6, <1>7, <1>8, <1>9, <1>10

-----------------------------------------------------------------------------
(* What is heard has been attended to *)

\* A handler that only takes the number of the message leaves all as it was.
LEMMA HeedsNothing ==
    ASSUME NEW r \in Roles, Fluent, NEW w, Working(w),
           Same(ss[r], w.s, SessionFields \ {"lastPostSeq"}), Returns(r, w)
    PROVE  /\ Eager(r, ss'[r]) /\ Answering(r, ss'[r])
           /\ ss'[r].post = ss[r].post /\ ss'[r].state = ss[r].state
<1>1. ss'[r] = w.s
  BY DEF Fluent, SInv, Returns
<1>. QED  BY <1>1, FluentWork

\* The work a handler starts from has the fields of the session.
LEMMA HeardWork ==
    ASSUME NEW r \in Roles, SInv, NEW m
    PROVE  /\ Working(Heard(r, m)) /\ Working(Work(ss[r]))
           /\ Same(ss[r], Heard(r, m).s, SessionFields \ {"lastPostSeq"})
           /\ Same(ss[r], Work(ss[r]).s, SessionFields \ {"lastPostSeq"})
<1>1. DOMAIN ss[r] = SessionFields /\ ss[r].postSeq \in Nat
  BY PartyInv DEF SInv, LocalInv, CoreInv, NumberInv
<1>2. DOMAIN [ss[r] EXCEPT !.lastPostSeq = m.seq] = SessionFields
  BY <1>1
<1>. QED  BY <1>1, <1>2 DEF Heard, Work, Working, Same, SessionFields

\* r has let go of nothing that completes a phase for it.
Attended(r, m) ==
    /\ Eager(r, ss'[r]) /\ Answering(r, ss'[r])
    /\ m.type \in Closers => ss'[r].state = "ABORTED" \/ RecordOf(m) \in Range(ss'[r].post)

\* A message that is thrown away, or aborts the session, is attended to.
LEMMA AttendsPassing ==
    ASSUME NEW r \in Roles, Fluent,
           \/ RcvAborted(r) \/ RcvUnparsable(r) \/ RcvForeignSid(r) \/ RcvOutOfOrder(r)
           \/ RcvUnused(r)
    PROVE  Attended(r, Head(net[r]))
<1>. DEFINE m == Head(net[r])
            w == Work(ss[r])
            h == Heard(r, m)
<1>1. /\ SInv /\ Working(w) /\ Same(ss[r], w.s, SessionFields \ {"lastPostSeq"})
      /\ Working(h) /\ Same(ss[r], h.s, SessionFields \ {"lastPostSeq"})
  BY HeardWork DEF Fluent
<1>2. /\ Recording(w) /\ Answering(r, w.s) /\ Recording(h) /\ Answering(r, h.s)
  BY <1>1, FluentWork
<1>3. ASSUME NEW v \in {w, h}, NEW code, Returns(r, EmitAbort(r, v, code))
      PROVE  Attended(r, m)
  <2>. HIDE DEF w, h, m
  <2>1. Heeded(r, m)
    BY <1>1, <1>2, <1>3, HeedsRefused
  <2>. QED  BY <2>1 DEF Heeded, Attended
<1>4. ASSUME NEW v \in {w, h}, Returns(r, v), m.type \notin Closers \/ Aborted(r)
      PROVE  Attended(r, m)
  <2>. HIDE DEF w, h, m
  <2>1. Eager(r, ss'[r]) /\ Answering(r, ss'[r]) /\ ss'[r].state = ss[r].state
    BY <1>1, <1>4, HeedsNothing
  <2>. QED  BY <1>4, <2>1 DEF Attended, Aborted
<1>5. CASE RcvAborted(r)
  BY <1>4, <1>5 DEF RcvAborted, Aborted
<1>6. CASE RcvUnparsable(r)
  BY <1>3, <1>6 DEF RcvUnparsable
<1>7. CASE RcvOutOfOrder(r)
  BY <1>3, <1>7 DEF RcvOutOfOrder
<1>8. CASE RcvForeignSid(r)
  <2>1. CASE m.type = "abort"
    <3>1. Returns(r, w)
      BY <1>8, <2>1 DEF RcvForeignSid
    <3>2. m.type \notin Closers
      BY <2>1 DEF Closers
    <3>. QED  BY <1>4, <3>1, <3>2
  <2>2. CASE m.type # "abort"
    <3>1. Returns(r, EmitAbort(r, w, "SID_MISMATCH"))
      BY <1>8, <2>2 DEF RcvForeignSid
    <3>. QED  BY <1>3, <3>1
  <2>. QED  BY <2>1, <2>2
<1>9. CASE RcvUnused(r)
  <2>1. Returns(r, h) \/ Returns(r, EmitAbort(r, h, "PROTOCOL_ERROR"))
    BY <1>9 DEF RcvUnused
  <2>2. CASE Returns(r, h)
    <3>1. m.type \notin Closers
      <4>1. CASE m.type = "abort"
        BY <4>1 DEF Closers
      <4>2. CASE m.type # "abort"
        <5>1. Finds(r, m)
          BY <1>9, <4>2 DEF Finds, RcvUnused
        <5>2. StageOf[m.type] # ss[r].state
          BY <1>9, <5>1, FoundFacts DEF RcvUnused
        <5>3. Allowed(r, m)
          BY <5>1, <5>2, NothingSkipped
        <5>. QED  BY <5>3 DEF Allowed, Closers
      <4>. QED  BY <4>1, <4>2
    <3>. QED  BY <1>4, <2>2, <3>1
  <2>. QED  BY <1>3, <2>1, <2>2
<1>. QED  BY <1>5, <1>6, <1>7, <1>8, <1>9

\* So is every message of the session that is taken from the network.
LEMMA Attends ==
    ASSUME NEW r \in Roles, Fluent, SessionIncoming(r)
    PROVE  Attended(r, Head(net[r]))
<1>. DEFINE m == Head(net[r])
<1>1. ~RcvHandshake(r)
  <2>1. ss[r].state # "HANDSHAKE"
    BY PartyInv DEF Fluent, StateInv
  <2>. QED  BY <2>1 DEF RcvHandshake
<1>2. ASSUME \/ RcvKeygenAnnounce(r) \/ RcvCapsuleOffer(r) \/ RcvCapsuleAck(r)
             \/ RcvFundingTx(r) \/ RcvNonceReport(r) \/ RcvFeeParams(r)
             \/ RcvFeeParamsAck(r)
      PROVE  Heeded(r, m)
  BY <1>2, HeedsKeygenAnnounce, HeedsCapsuleOffer, HeedsCapsuleAck, HeedsFundingTx,
     HeedsNonceReport, HeedsFeeParams, HeedsFeeParamsAck
<1>3. ASSUME \/ RcvTemplateCommit(r) \/ RcvTemplateAck(r) \/ RcvAdaptorStart(r)
             \/ RcvAdaptorResp(r) \/ RcvAdaptorAck(r) \/ RcvTxBBroadcast(r)
             \/ RcvTxABroadcast(r)
      PROVE  Heeded(r, m)
  BY <1>3, HeedsTemplateCommit, HeedsTemplateAck, HeedsAdaptorStart, HeedsAdaptorResp,
     HeedsAdaptorAck, HeedsTxBBroadcast, HeedsTxABroadcast
<1>4. Heeded(r, m) => Attended(r, m)
  BY DEF Heeded, Attended
<1>. QED  BY <1>1, <1>2, <1>3, <1>4, AttendsPassing DEF SessionIncoming

-----------------------------------------------------------------------------
(* What a client calls *)

Composed(r, v) == Recording(v) /\ Eager(r, v.s) /\ Answering(r, v.s)

\* A refusal leaves a party composed.
LEMMA RefusalSettles ==
    ASSUME NEW r, NEW q, NEW w, NEW code, Composed(r, w)
    PROVE  Composed(r, EmitAbort(q, w, code))
<1>. DEFINE v == EmitAbort(q, w, code)
<1>1. /\ v.s.state = "ABORTED" /\ Same(w.s, v.s, SessionFields \ {"state", "postSeq"})
  BY EmitAbortEffect DEF Composed, Recording
<1>2. Recording(v)
  BY AbortCarries DEF Composed, Carries
<1>. HIDE DEF v
<1>3. /\ v.s.post = w.s.post /\ v.s.capsuleReceived = w.s.capsuleReceived
      /\ v.s.peerCommitHash = w.s.peerCommitHash /\ v.s.legs = w.s.legs
  BY <1>1 DEF Same, SessionFields
<1>4. Answering(r, v.s)
  BY <1>3 DEF Composed, Answering, From, FromLeg
<1>5. Composed(r, v)
  BY <1>1, <1>2, <1>4 DEF Composed, Eager
<1>. QED  BY <1>5 DEF v

\* A call that sets a field nothing is owed for.
LEMMA CallSettles ==
    ASSUME NEW r \in Roles, NEW w, NEW k, NEW v, NEW event \in Milestones,
           NEW f \in AwaitedFor[event] \ {"legs", "capsuleReceived", "peerCommitHash"},
           Composed(r, w), w.s.state # "ABORTED",
           Working(k), Same(w.s, k.s, SessionFields \ {f}), Recording(k) => Carries(r, k, v),
           v.s.state # "ABORTED" /\ Met(r, v.s, event) => Passed(v.s, event)
    PROVE  Composed(r, v) /\ Spared(r, w.s, v.s, {f})
<1>. DEFINE F == {f}
<1>1. f \in Awaited
  BY MilestoneSet DEF AwaitedFor, Awaited
<1>2. Recording(k) /\ Spared(r, w.s, k.s, F) /\ k.s.post = w.s.post
  BY <1>1, FieldSet DEF Composed
<1>3. Carries(r, k, v)
  BY <1>2
<1>4. F \subseteq AwaitedFor[event] /\ Acknowledges(r, v.s, F)
  BY DEF Acknowledges
<1>. HIDE DEF F
<1>5. Eager(r, v.s) /\ Answering(r, v.s)
  BY <1>2, <1>3, <1>4, StaysEager DEF Composed
<1>6. Spared(r, w.s, v.s, F)
  BY <1>2, <1>3 DEF Carries, Spared, Same
<1>. QED  BY <1>3, <1>5, <1>6 DEF Composed, Carries, F

\* A call that sets a field, sends or not, and looks at the milestone.
LEMMA CheckSettles ==
    ASSUME NEW r \in Roles, NEW w, NEW k, NEW u, NEW event \in Milestones,
           NEW f \in AwaitedFor[event] \ {"legs", "capsuleReceived", "peerCommitHash"},
           Composed(r, w), w.s.state # "ABORTED", w.s.post # <<>>,
           Working(k), Same(w.s, k.s, SessionFields \ {f}), Recording(k) => Carries(r, k, u)
    PROVE  LET v == CheckOf(r, u, event) IN Composed(r, v) /\ Spared(r, w.s, v.s, {f})
<1>. DEFINE v == CheckOf(r, u, event)
<1>1. f \in Awaited
  BY MilestoneSet DEF AwaitedFor, Awaited
<1>2. Recording(k) /\ k.s.post = w.s.post
  BY <1>1, FieldSet DEF Composed
<1>3. Carries(r, k, u)
  BY <1>2
<1>4. Recording(u) /\ u.s.post # <<>>
  <2>1. k.s.post \in Seq(Range(k.s.post)) /\ k.s.post # <<>>
    BY <1>2 DEF Recording
  <2>2. k.s.post[1] \in Range(k.s.post)
    BY <2>1, EmptySeq DEF Range
  <2>3. Range(u.s.post) # {}
    BY <1>3, <2>2 DEF Carries
  <2>. QED  BY <1>3, <2>3, EmptySeq DEF Carries, Range
<1>5. Checks(r, u, v, event)
  BY <1>4, CheckOfPasses
<1>. HIDE DEF v
<1>6. Carries(r, k, v)
  BY <1>3, <1>5, CarriesOn DEF Checks
<1>7. v.s.state # "ABORTED" /\ Met(r, v.s, event) => Passed(v.s, event)
  BY <1>5 DEF Checks
<1>8. Composed(r, v) /\ Spared(r, w.s, v.s, {f})
  BY <1>6, <1>7, CallSettles
<1>. QED  BY <1>8 DEF v

\* The work of a call starts composed.
LEMMA CallWork ==
    ASSUME NEW r \in Roles, Fluent
    PROVE  LET w == Work(ss[r])
           IN  Composed(r, w) /\ Working(w) /\ w.s = ss[r] /\ w.s.post # <<>>
<1>1. Working(Work(ss[r])) /\ Same(ss[r], Work(ss[r]).s, SessionFields \ {"lastPostSeq"})
  BY HeardWork DEF Fluent
<1>. QED  BY <1>1, FluentWork DEF Composed, Work

\* What a call leaves composed, the party is.
LEMMA EmittedIs ==
    ASSUME NEW r \in Roles, SInv, NEW w, Emits(r, w), Composed(r, w)
    PROVE  Eager(r, ss'[r]) /\ Answering(r, ss'[r])
<1>1. ss'[r] = w.s
  BY DEF SInv, Emits
<1>. QED  BY <1>1 DEF Composed

\* Each of the client's calls leaves its party waiting for nothing that it has.
LEMMA SettlesEmitFundingTx ==
    ASSUME NEW r \in Roles, Fluent, EmitFundingTx(r)
    PROVE  Eager(r, ss'[r]) /\ Answering(r, ss'[r])
<1>. DEFINE w == Work(ss[r])
<1>1. SInv /\ Composed(r, w) /\ Working(w) /\ w.s = ss[r] /\ w.s.post # <<>>
  BY CallWork DEF Fluent
<1>2. PICK value \in FundingValues :
        LET body == [which |-> r, value |-> value]
            kept == [w EXCEPT !.s.fundingTx[r] = body]
        IN  Emits(r, InState(r, "FUNDING", w,
                CheckFundingComplete(Send(r, kept, "funding_tx", body))))
  BY DEF EmitFundingTx
<1>. DEFINE body == [which |-> r, value |-> value]
            k == [w EXCEPT !.s.fundingTx[r] = body]
            u == Send(r, k, "funding_tx", body)
            v == CheckOf(r, u, "FUNDED")
<1>3. v = CheckFundingComplete(u)
  BY DEF CheckOf
<1>4. \/ w.s.state = "FUNDING" /\ Emits(r, v)
      \/ Emits(r, EmitAbort(r, w, "PROTOCOL_ERROR"))
  BY <1>2, <1>3 DEF InState
<1>. HIDE DEF w, body
<1>5. Working(k) /\ Same(w.s, k.s, SessionFields \ {"fundingTx"})
  BY <1>1 DEF Working, SessionFields, Same
<1>. HIDE DEF k
<1>6. Recording(k) => Carries(r, k, u)
  BY SendCarries
<1>7. "fundingTx" \in AwaitedFor["FUNDED"] \ {"legs", "capsuleReceived", "peerCommitHash"}
  BY DEF AwaitedFor
<1>. HIDE DEF u
<1>8. CASE w.s.state = "FUNDING" /\ Emits(r, v)
  <2>1. Composed(r, v)
    BY <1>1, <1>5, <1>6, <1>7, <1>8, CheckSettles, MilestoneSet
  <2>. HIDE DEF v
  <2>. QED  BY <1>1, <1>8, <2>1, EmittedIs
<1>9. CASE Emits(r, EmitAbort(r, w, "PROTOCOL_ERROR"))
  BY <1>1, <1>9, RefusalSettles, EmittedIs
<1>. QED  BY <1>4, <1>8, <1>9

\* The confirmation of a funding, the last of which completes the phase.
LEMMA SettlesFundingConfirmed ==
    ASSUME NEW r \in Roles, Fluent, NEW which \in Roles, NotifyFundingConfirmed(r, which)
    PROVE  Eager(r, ss'[r]) /\ Answering(r, ss'[r])
<1>. DEFINE w == Work(ss[r])
            k == [w EXCEPT !.s.fundingConfirmed[which] = TRUE]
            v == CheckOf(r, k, "FUNDED")
<1>1. SInv /\ Composed(r, w) /\ Working(w) /\ w.s = ss[r] /\ w.s.post # <<>>
  BY CallWork DEF Fluent
<1>2. v = CheckFundingComplete(k)
  BY DEF CheckOf
<1>3. w.s.state = "FUNDING" /\ Emits(r, v)
  BY <1>1, <1>2 DEF NotifyFundingConfirmed
<1>. HIDE DEF w
<1>4. Working(k) /\ Same(w.s, k.s, SessionFields \ {"fundingConfirmed"})
  BY <1>1 DEF Working, SessionFields, Same
<1>. HIDE DEF k
<1>5. Recording(k) => Carries(r, k, k)
  BY DEF Carries, Spared, Same
<1>6. "fundingConfirmed" \in AwaitedFor["FUNDED"] \ {"legs", "capsuleReceived", "peerCommitHash"}
  BY DEF AwaitedFor
<1>7. Composed(r, v)
  BY <1>1, <1>3, <1>4, <1>5, <1>6, CheckSettles, MilestoneSet
<1>. HIDE DEF v
<1>. QED  BY <1>1, <1>3, <1>7, EmittedIs

\* The report of the nonces.
LEMMA ReportSettles ==
    ASSUME NEW r \in Roles, NEW w, NEW nonces, Composed(r, w), Working(w), w.s.post # <<>>
    PROVE  LET v == SetLocalNonceReport(r, w, nonces)
           IN  Composed(r, v) /\ (v.s.state = "ABORTED" \/ Spared(r, w.s, v.s, {"localNonces"}))
<1>. DEFINE k == [w EXCEPT !.s.localNonces = nonces]
            body == [nonces |-> nonces]
            u == Send(r, k, "nonce_report", body)
            v == CheckOf(r, u, "EXEC_READY")
            refused == EmitAbort(r, w, "PROTOCOL_ERROR")
            report == SetLocalNonceReport(r, w, nonces)
<1>1. /\ report \in {w, refused, v}
      /\ report = refused \/ w.s.state = "EXEC_PREP"
  <2>1. v = CheckExecReady(r, u)
    BY DEF CheckOf
  <2>. QED  BY <2>1 DEF SetLocalNonceReport, InState, Keep
<1>2. Spared(r, w.s, w.s, {"localNonces"})
  BY DEF Spared, Same
<1>3. Composed(r, refused) /\ refused.s.state = "ABORTED"
  BY RefusalSettles, AbortCarries DEF Composed
<1>4. ASSUME w.s.state = "EXEC_PREP"
      PROVE  Composed(r, v) /\ Spared(r, w.s, v.s, {"localNonces"})
  <2>1. Working(k) /\ Same(w.s, k.s, SessionFields \ {"localNonces"})
    BY DEF Working, SessionFields, Same
  <2>. HIDE DEF k, body
  <2>2. Recording(k) => Carries(r, k, u)
    BY SendCarries
  <2>3. "localNonces" \in AwaitedFor["EXEC_READY"] \ {"legs", "capsuleReceived", "peerCommitHash"}
    BY DEF AwaitedFor
  <2>. HIDE DEF u
  <2>4. w.s.state # "ABORTED"
    BY <1>4
  <2>. QED  BY <2>1, <2>2, <2>3, <2>4, CheckSettles, MilestoneSet
<1>. HIDE DEF v, refused, report
<1>5. Composed(r, report) /\ (report.s.state = "ABORTED" \/ Spared(r, w.s, report.s, {"localNonces"}))
  BY <1>1, <1>2, <1>3, <1>4
<1>. QED  BY <1>5 DEF report

\* Alice proposes the fee; without an answer to it she waits on.
LEMMA ProposalSettles ==
    ASSUME NEW w, NEW fee, Composed("alice", w), Working(w),
           ~w.s.feeAcked \/ w.s.feeParams # None
    PROVE  Composed("alice", ProposeFeeParams(w, fee))
<1>. DEFINE k == [w EXCEPT !.s.feeParams = fee]
            body == [fee |-> fee]
            v == Send("alice", k, "fee_params", body)
            refused == EmitAbort("alice", w, "PROTOCOL_ERROR")
            proposal == ProposeFeeParams(w, fee)
<1>1. /\ proposal \in {w, refused, v}
      /\ \/ proposal = refused \/ proposal = w
         \/ w.s.state = "EXEC_PREP" /\ w.s.feeParams = None
  BY DEF ProposeFeeParams, InState, Keep
<1>2. Composed("alice", refused)
  BY RefusalSettles
<1>3. ASSUME w.s.state = "EXEC_PREP", w.s.feeParams = None
      PROVE  Composed("alice", v)
  <2>1. Working(k) /\ Same(w.s, k.s, SessionFields \ {"feeParams"})
    BY DEF Working, SessionFields, Same
  <2>. HIDE DEF k, body
  <2>2. Recording(k) => Carries("alice", k, v)
    BY SendCarries
  <2>. HIDE DEF v
  <2>3. Recording(k)
    BY <2>1, FieldSet DEF Composed, Awaited
  <2>4. ~v.s.feeAcked
    BY <1>3, <2>1, <2>2, <2>3 DEF Carries, Spared, Same, SessionFields, Awaited
  <2>5. ~Met("alice", v.s, "EXEC_READY")
    BY <2>4 DEF Met
  <2>6. "feeParams" \in AwaitedFor["EXEC_READY"] \ {"legs", "capsuleReceived", "peerCommitHash"}
    BY DEF AwaitedFor
  <2>7. w.s.state # "ABORTED" /\ "alice" \in Roles
    BY <1>3 DEF Roles
  <2>. QED  BY <2>1, <2>2, <2>5, <2>6, <2>7, CallSettles, MilestoneSet
<1>. HIDE DEF v, refused, proposal
<1>4. Composed("alice", proposal)
  BY <1>1, <1>2, <1>3
<1>. QED  BY <1>4 DEF proposal

\* The report of the nonces, and the fees that alice proposes with it.
LEMMA SettlesExecPrepStarted ==
    ASSUME NEW r \in Roles, Fluent, OnExecPrepStarted(r)
    PROVE  Eager(r, ss'[r]) /\ Answering(r, ss'[r])
<1>. DEFINE w == Work(ss[r])
<1>1. SInv /\ Composed(r, w) /\ Working(w) /\ w.s = ss[r] /\ w.s.post # <<>>
  BY CallWork DEF Fluent
<1>2. PICK nonces \in NonceReports, fee \in FeeChoices :
        LET reported == SetLocalNonceReport(r, w, nonces)
        IN  Emits(r, IF r = "alice" /\ reported.s.state # "ABORTED"
                     THEN ProposeFeeParams(reported, fee) ELSE reported)
  BY DEF OnExecPrepStarted
<1>. DEFINE v == SetLocalNonceReport(r, w, nonces)
<1>3. Composed(r, v) /\ (v.s.state = "ABORTED" \/ Spared(r, w.s, v.s, {"localNonces"}))
  BY <1>1, ReportSettles
<1>4. Emits(r, IF r = "alice" /\ v.s.state # "ABORTED" THEN ProposeFeeParams(v, fee) ELSE v)
  BY <1>2
<1>. HIDE DEF v, w
<1>5. CASE r = "alice" /\ v.s.state # "ABORTED"
  <2>1. v.s.feeAcked = ss[r].feeAcked /\ v.s.feeParams = ss[r].feeParams
    BY <1>1, <1>3, <1>5 DEF Spared, Same, Awaited
  <2>2. ~ss[r].feeAcked \/ ss[r].feeParams # None
    BY <1>1, PartyInv DEF PrepInv
  <2>3. Working(v) /\ (~v.s.feeAcked \/ v.s.feeParams # None)
    BY <1>3, <2>1, <2>2 DEF Composed, Recording
  <2>4. Composed(r, ProposeFeeParams(v, fee))
    BY <1>3, <1>5, <2>3, ProposalSettles
  <2>. QED  BY <1>1, <1>4, <1>5, <2>4, EmittedIs
<1>6. CASE ~(r = "alice" /\ v.s.state # "ABORTED")
  BY <1>1, <1>3, <1>4, <1>6, EmittedIs
<1>. QED  BY <1>5, <1>6

\* The broadcasts that are announced, and the abort on a bad txA.
LEMMA SettlesAnnouncements ==
    ASSUME NEW r \in Roles, Fluent,
           \/ r = "alice" /\ (AnnounceTxBHash \/ AbortOnTxA)
           \/ r = "bob" /\ AnnounceTxAHash
    PROVE  Eager(r, ss'[r]) /\ Answering(r, ss'[r])
<1>. DEFINE w == Work(ss[r])
            refused == EmitAbort(r, w, "PROTOCOL_ERROR")
<1>1. SInv /\ Composed(r, w) /\ Working(w) /\ w.s = ss[r] /\ w.s.post # <<>>
  BY CallWork DEF Fluent
<1>2. \/ \E type, hash : /\ w.s.state = "EXECUTION_PLANNED"
                         /\ Emits(r, Send(r, w, type, [txHash |-> hash]))
      \/ Emits(r, refused)
  BY <1>1 DEF AnnounceTxBHash, AbortOnTxA, AnnounceTxAHash, InState
<1>. HIDE DEF w
<1>3. CASE Emits(r, refused)
  BY <1>1, <1>3, RefusalSettles, EmittedIs
<1>4. ASSUME NEW type, NEW hash, w.s.state = "EXECUTION_PLANNED",
             Emits(r, Send(r, w, type, [txHash |-> hash]))
      PROVE  Eager(r, ss'[r]) /\ Answering(r, ss'[r])
  <2>. DEFINE body == [txHash |-> hash]
              v == Send(r, w, type, body)
              event == "EXECUTION_PLANNED"
              F == {}
  <2>. HIDE DEF body
  <2>1. Carries(r, w, v)
    BY <1>1, SendCarries DEF Composed
  <2>2. Emits(r, v)
    BY <1>4 DEF body
  <2>. HIDE DEF v
  <2>3. event \in Milestones /\ F \subseteq AwaitedFor[event] /\ Acknowledges(r, v.s, F)
    BY MilestoneSet DEF Acknowledges
  <2>4. Spared(r, w.s, w.s, F) /\ w.s.post = w.s.post /\ w.s.state # "ABORTED"
    BY <1>4 DEF Spared, Same
  <2>5. v.s.state # "ABORTED" /\ Met(r, v.s, event) => Passed(v.s, event)
    <3>1. Passed(w.s, event)
      BY <1>1, <1>4, PartyInv DEF StateInv
    <3>. QED  BY <2>1, <2>3, <3>1 DEF Carries, Spared
  <2>. HIDE DEF event, F
  <2>6. Eager(r, v.s) /\ Answering(r, v.s)
    BY <1>1, <2>1, <2>3, <2>4, <2>5, StaysEager DEF Composed
  <2>7. Composed(r, v)
    BY <2>1, <2>6 DEF Composed, Carries
  <2>. QED  BY <1>1, <2>2, <2>7, EmittedIs
<1>. QED  BY <1>2, <1>3, <1>4

\* Whatever a client calls leaves nothing met and not passed.
LEMMA CallsCompose ==
    ASSUME NEW r \in Roles, Fluent, ClientCalls(r)
    PROVE  Eager(r, ss'[r]) /\ Answering(r, ss'[r])
<1>1. CASE EmitFundingTx(r)
  BY <1>1, SettlesEmitFundingTx
<1>2. CASE \E which \in Roles : NotifyFundingConfirmed(r, which)
  BY <1>2, SettlesFundingConfirmed
<1>3. CASE OnExecPrepStarted(r)
  BY <1>3, SettlesExecPrepStarted
<1>4. CASE \/ r = "alice" /\ (AnnounceTxBHash \/ AbortOnTxA)
           \/ r = "bob" /\ AnnounceTxAHash
  BY <1>4, SettlesAnnouncements
<1>. QED  BY <1>1, <1>2, <1>3, <1>4 DEF ClientCalls

-----------------------------------------------------------------------------
(* What a turn leaves on the way *)

\* An aborted session records nothing more and stays aborted.
LEMMA AbortedStays ==
    ASSUME SInv, NEW r \in Roles, Aborted(r), SessionIncoming(r) \/ ClientCalls(r)
    PROVE  ss'[r].state = "ABORTED" /\ ss'[r].post = ss[r].post
<1>. DEFINE w == Work(ss[r])
            v == EmitAbort(r, w, "PROTOCOL_ERROR")
<1>1. ss[r].state = "ABORTED" /\ w.s = ss[r]
  BY DEF Aborted, Work
<1>2. v.s.state = "ABORTED" /\ v.s.post = ss[r].post
  <2>1. Working(w)
    BY HeardWork
  <2>. HIDE DEF w
  <2>2. v.s.state = "ABORTED" /\ Same(w.s, v.s, SessionFields \ {"state", "postSeq"})
    BY <2>1, EmitAbortEffect
  <2>. HIDE DEF v
  <2>. QED  BY <1>1, <2>2 DEF Same, SessionFields
<1>3. ASSUME Emits(r, v)
      PROVE  ss'[r].state = "ABORTED" /\ ss'[r].post = ss[r].post
  <2>. HIDE DEF v
  <2>. QED  BY <1>2, <1>3 DEF Emits, SInv
<1>4. CASE SessionIncoming(r)
  <2>1. ~RcvHandshake(r) /\ ~RcvUnparsable(r) /\ ~SessionOpen(r)
    BY <1>1 DEF RcvHandshake, RcvUnparsable, SessionOpen
  <2>2. ~RcvForeignSid(r) /\ ~RcvOutOfOrder(r) /\ ~RcvUnused(r)
    BY <2>1 DEF RcvForeignSid, RcvOutOfOrder, RcvUnused
  <2>3. \A type \in DOMAIN StageOf : ~Takes(r, type)
    BY <1>1, PostTypes DEF Takes, StageOf
  <2>4. RcvAborted(r)
    BY <1>4, <2>1, <2>2, <2>3, PostTypes
       DEF SessionIncoming, RcvKeygenAnnounce, RcvCapsuleOffer, RcvCapsuleAck, RcvFundingTx,
           RcvNonceReport, RcvFeeParams, RcvFeeParamsAck, RcvTemplateCommit, RcvTemplateAck,
           RcvAdaptorStart, RcvAdaptorResp, RcvAdaptorAck, RcvTxBBroadcast, RcvTxABroadcast
  <2>5. Returns(r, w)
    BY <2>4 DEF RcvAborted
  <2>6. ss'[r] = ss[r]
    BY <1>1, <2>5 DEF Returns, SInv
  <2>. QED  BY <1>1, <2>6
<1>5. CASE ClientCalls(r)
  <2>1. CASE EmitFundingTx(r)
    <3>1. Emits(r, v)
      BY <1>1, <2>1 DEF EmitFundingTx, InState
    <3>. QED  BY <1>3, <3>1
  <2>2. CASE \E which \in Roles : NotifyFundingConfirmed(r, which)
    BY <1>1, <2>2 DEF NotifyFundingConfirmed
  <2>3. CASE OnExecPrepStarted(r)
    <3>1. \A nonces : SetLocalNonceReport(r, w, nonces) = v
      BY <1>1 DEF SetLocalNonceReport, InState
    <3>2. Emits(r, v)
      <4>. HIDE DEF v
      <4>. QED  BY <1>2, <2>3, <3>1 DEF OnExecPrepStarted
    <3>. QED  BY <1>3, <3>2
  <2>4. CASE \/ r = "alice" /\ (AnnounceTxBHash \/ AbortOnTxA)
             \/ r = "bob" /\ AnnounceTxAHash
    <3>1. CASE r = "alice" /\ AnnounceTxBHash
      BY <1>1, <1>3, <3>1 DEF AnnounceTxBHash, InState
    <3>2. CASE r = "alice" /\ AbortOnTxA
      BY <1>1, <1>3, <3>2 DEF AbortOnTxA
    <3>3. CASE r = "bob" /\ AnnounceTxAHash
      BY <1>1, <1>3, <3>3 DEF AnnounceTxAHash, InState
    <3>. QED  BY <2>4, <3>1, <3>2, <3>3
  <2>. QED  BY <1>5, <2>1, <2>2, <2>3, <2>4 DEF ClientCalls
<1>. QED  BY <1>4, <1>5

\* A client's calls hear nothing.
LEMMA CallsHearNothing ==
    ASSUME SInv, NEW r \in Roles, ClientCalls(r)
    PROVE  ~Hearing(r)
<1>1. ASSUME NEW w, Emits(r, w)
      PROVE  net'[r] = net[r]
  BY <1>1, OtherRole DEF Emits, SInv
<1>2. net'[r] = net[r]
  <2>1. CASE EmitFundingTx(r) \/ \E which \in Roles : NotifyFundingConfirmed(r, which)
    BY <1>1, <2>1 DEF EmitFundingTx, NotifyFundingConfirmed
  <2>2. CASE OnExecPrepStarted(r)
    BY <1>1, <2>2 DEF OnExecPrepStarted
  <2>3. CASE \/ r = "alice" /\ (AnnounceTxBHash \/ AbortOnTxA)
             \/ r = "bob" /\ AnnounceTxAHash
    BY <1>1, <2>3 DEF AnnounceTxBHash, AbortOnTxA, AnnounceTxAHash
  <2>. QED  BY <2>1, <2>2, <2>3 DEF ClientCalls
<1>3. net[r] \in Seq(Range(net[r]))
  BY DEF SInv
<1>4. net[r] # <<>> => Len(Tail(net[r])) # Len(net[r])
  BY <1>3
<1>. QED  BY <1>2, <1>4 DEF Hearing

\* A turn that loses nothing of what r hears loses nothing on the way either.
LEMMA TurnDelivers ==
    ASSUME NEW r \in Roles, Fluent, Tells(r), Hearing(r) => Attended(r, Head(net[r])),
           Aborted(r) => Aborted(r)' /\ ss'[r].post = ss[r].post
    PROVE  \A q \in Roles : Delivered(q)' /\ \A x \in Range(ss'[q].post) : ~Refusal(x)
<1>. DEFINE p == Other(r)
            m == Head(net[r])
<1>1. PICK w : /\ Told(r, w) /\ LocalInv(r, w.s, calls'[r])
               /\ (net[r] # <<>> /\ Returns(r, w)) \/ Emits(r, w)
  BY DEF Tells
<1>2. /\ p \in Roles /\ p # r /\ Other(p) = r /\ (\A q \in Roles : q = r \/ q = p)
      /\ SInv /\ Flowing(r) /\ Flowing(p)
  BY OtherRole DEF Fluent
<1>3. ss'[r] = w.s /\ ss'[p] = ss[p] /\ net'[p] = net[p] \o w.out
  BY <1>1, <1>2 DEF Returns, Emits, Consume, SInv
<1>4. net'[r] = net[r] \/ Hearing(r)
  <2>1. DOMAIN net = Roles
    BY <1>2 DEF SInv
  <2>2. CASE net[r] # <<>> /\ Returns(r, w)
    BY <1>2, <2>1, <2>2 DEF Returns, Consume, Hearing
  <2>3. CASE Emits(r, w)
    BY <1>2, <2>1, <2>3 DEF Emits
  <2>. QED  BY <1>1, <2>2, <2>3
<1>5. /\ net[r] \in Seq(Range(net[r])) /\ net[p] \in Seq(Range(net[p]))
      /\ (\A y \in Range(net[r]) : Genuine(p, y)) /\ \A y \in Range(net[p]) : Genuine(r, y)
  BY <1>2 DEF SInv
<1>6. /\ InTurn(r, w) /\ Range(ss[r].post) \subseteq Range(w.s.post) /\ Sourced(r, w)
      /\ w.out \in Seq(Range(w.out)) /\ \A y \in Range(w.out) : Sendable(r, w.s, y)
  <2>1. Told(r, w)
    BY <1>1
  <2>. QED  BY <2>1 DEF Told
<1>7. NumberInv(r, w.s)
  BY <1>1 DEF LocalInv, CoreInv
<1>8. ASSUME Hearing(r)
      PROVE  /\ m \in Range(net[r]) /\ net'[r] = Tail(net[r])
             /\ RecordOf(m).from = p /\ RecordOf(m).type = m.type /\ RecordOf(m).body = m.body
             /\ RecordOf(m).seq = m.seq
  <2>1. net[r] # <<>> /\ net'[r] = Tail(net[r])
    BY <1>8 DEF Hearing
  <2>2. m.from = p
    BY <1>2, <2>1, HeadGenuine
  <2>. QED  BY <1>5, <2>1, <2>2, RangeTail DEF RecordOf
<1>. HIDE DEF m, p
<1>9. Delivered(r)'
  <2>. SUFFICES ASSUME ~Aborted(r)' PROVE Delivered(r)'
    BY DEF Delivered
  <2>1. w.s.state # "ABORTED" /\ ~Aborted(r)
    BY <1>3 DEF Aborted
  <2>2. /\ Rising(net[r])
        /\ \A y \in Range(net[r]) :
              /\ y.seq < ss[p].postSeq
              /\ y.type = "abort" \/ (/\ y.type \in DOMAIN StageOf
                                      /\ RecordOf(y) \in Range(ss[p].post)
                                      /\ RecordOf(y) \notin Range(ss[r].post))
        /\ \A x \in Range(ss[p].post) :
              x.from = p /\ x.type \in Closers => x \in Range(ss[r].post) \/ Coming(r, x)
    BY <1>2, <2>1 DEF Flowing, Delivered, p
  <2>3. Rising(net'[r]) /\ Range(net'[r]) \subseteq Range(net[r])
    <3>1. CASE Hearing(r)
      BY <1>5, <2>2, <3>1, RisingTail, RangeTail DEF Hearing
    <3>2. CASE net'[r] = net[r]
      BY <2>2, <3>2
    <3>. QED  BY <1>4, <3>1, <3>2
  <2>4. ASSUME NEW y \in Range(net'[r]), y.type \in DOMAIN StageOf,
               RecordOf(y) \notin Range(ss[r].post), RecordOf(y) \in Range(w.s.post)
        PROVE  FALSE
    <3>1. RecordOf(y).from = p /\ RecordOf(y).seq = y.seq /\ y.seq \in Nat
      <4>1. y = Message(p, y.seq, y.sid, y.type, y.body) /\ y.seq \in Nat
        BY <1>5, <2>3 DEF Genuine
      <4>2. y.from = p
        BY <4>1 DEF Message
      <4>. QED  BY <4>1, <4>2 DEF RecordOf
    <3>2. Hearing(r) /\ RecordOf(m) = RecordOf(y)
      BY <1>2, <1>6, <2>4, <3>1 DEF Sourced, m
    <3>3. m.seq = y.seq
      BY <1>8, <3>1, <3>2
    <3>4. m.seq < y.seq
      <4>1. net[r] # <<>> /\ y \in Range(Tail(net[r]))
        BY <3>2 DEF Hearing
      <4>2. \A z \in Range(Tail(net[r])) : Head(net[r]).seq < z.seq
        BY <1>5, <2>2, <4>1, RisingTail
      <4>. QED  BY <4>1, <4>2 DEF m
    <3>. QED  BY <3>1, <3>3, <3>4
  <2>5. ASSUME NEW x \in Range(ss[p].post), x.from = p, x.type \in Closers
        PROVE  x \in Range(w.s.post) \/ Coming(r, x)'
    <3>1. CASE x \in Range(ss[r].post)
      BY <1>6, <3>1
    <3>2. CASE Coming(r, x)
      <4>1. PICK y \in Range(net[r]) : y.type \in DOMAIN StageOf /\ RecordOf(y) = x
        BY <3>2 DEF Coming
      <4>2. CASE y \in Range(net'[r])
        BY <4>1, <4>2 DEF Coming
      <4>3. CASE y \notin Range(net'[r])
        <5>1. Hearing(r)
          BY <1>4, <4>3
        <5>2. y = m
          BY <1>5, <2>2, <4>3, <5>1, RisingTail DEF Hearing, m
        <5>3. m.type \in Closers
          BY <1>8, <2>5, <4>1, <5>1, <5>2
        <5>4. Attended(r, m)
          BY <5>1 DEF m
        <5>5. RecordOf(m) \in Range(ss'[r].post)
          BY <1>3, <2>1, <5>3, <5>4 DEF Attended
        <5>. QED  BY <1>3, <4>1, <5>2, <5>5
      <4>. QED  BY <4>2, <4>3
    <3>. QED  BY <2>2, <2>5, <3>1, <3>2
  <2>. QED
    <3>1. ss'[p] = ss[p] /\ ss'[r] = w.s /\ Other(r) = p
      BY <1>3 DEF p
    <3>2. \A y \in Range(net'[r]) :
              /\ y.seq < ss'[p].postSeq
              /\ y.type = "abort" \/ (/\ y.type \in DOMAIN StageOf
                                      /\ RecordOf(y) \in Range(ss'[p].post)
                                      /\ RecordOf(y) \notin Range(ss'[r].post))
      BY <2>2, <2>3, <2>4, <3>1
    <3>3. \A x \in Range(ss'[p].post) :
              x.from = p /\ x.type \in Closers => x \in Range(ss'[r].post) \/ Coming(r, x)'
      BY <2>5, <3>1
    <3>. QED  BY <2>3, <3>1, <3>2, <3>3 DEF Delivered
<1>10. Delivered(p)'
  <2>. SUFFICES ASSUME ~Aborted(p)' PROVE Delivered(p)'
    BY DEF Delivered
  <2>1. ~Aborted(p)
    BY <1>3 DEF Aborted
  <2>2. /\ Rising(net[p])
        /\ \A y \in Range(net[p]) :
              /\ y.seq < ss[r].postSeq
              /\ y.type = "abort" \/ (/\ y.type \in DOMAIN StageOf
                                      /\ RecordOf(y) \in Range(ss[r].post)
                                      /\ RecordOf(y) \notin Range(ss[p].post))
        /\ \A x \in Range(ss[r].post) :
              x.from = r /\ x.type \in Closers => x \in Range(ss[p].post) \/ Coming(p, x)
    BY <1>2, <2>1 DEF Flowing, Delivered
  <2>3. /\ Rising(w.out) /\ ss[r].postSeq <= w.s.postSeq
        /\ ss[r].postSeq \in Nat /\ w.s.postSeq \in Nat
        /\ \A y \in Range(w.out) : y.seq \in Nat /\ ss[r].postSeq <= y.seq /\ y.seq < w.s.postSeq
    BY <1>6 DEF InTurn
  <2>4. Range(net'[p]) = Range(net[p]) \cup Range(w.out)
    BY <1>3, <1>5, <1>6, RangeConcat
  <2>5. \A y \in Range(net[p]) : y.seq \in Nat
    BY <1>5 DEF Genuine
  <2>6. Rising(net'[p])
    <3>. DEFINE S == Range(net[p]) \cup Range(w.out)
    <3>1. net[p] \in Seq(S) /\ w.out \in Seq(S)
      BY <1>5, <1>6
    <3>2. \A x \in Range(net[p]), y \in Range(w.out) : x.seq < y.seq
      BY <2>2, <2>3, <2>5
    <3>. HIDE DEF S
    <3>. QED  BY <1>3, <2>2, <2>3, <3>1, <3>2, RisingConcat
  <2>7. ASSUME NEW y \in Range(net'[p])
        PROVE  /\ y.seq < w.s.postSeq
               /\ y.type = "abort" \/ (/\ y.type \in DOMAIN StageOf
                                       /\ RecordOf(y) \in Range(w.s.post)
                                       /\ RecordOf(y) \notin Range(ss[p].post))
    <3>1. CASE y \in Range(net[p])
      <4>1. y.seq < w.s.postSeq
        BY <2>2, <2>3, <2>5, <3>1
      <4>. QED  BY <1>6, <2>2, <3>1, <4>1
    <3>2. CASE y \in Range(w.out)
      <4>1. Sendable(r, w.s, y)
        BY <1>6, <3>2
      <4>2. RecordOf(y).from = r /\ RecordOf(y).seq = y.seq
        <5>1. y = Message(r, y.seq, y.sid, y.type, y.body)
          BY <4>1 DEF Sendable
        <5>2. y.from = r
          BY <5>1 DEF Message
        <5>. QED  BY <5>2 DEF RecordOf
      <4>3. ASSUME RecordOf(y) \in Range(ss[p].post)
            PROVE  FALSE
        <5>1. RecordOf(y) \in Range(ss[r].post)
          BY <1>2, <4>2, <4>3 DEF SInv, Shared
        <5>2. y.seq < ss[r].postSeq
          BY <1>2, <4>2, <5>1, OwnNumber
        <5>. QED  BY <2>3, <3>2, <5>2
      <4>. QED  BY <2>3, <3>2, <4>1, <4>3 DEF Sendable
    <3>. QED  BY <2>4, <3>1, <3>2
  <2>8. ASSUME NEW x \in Range(w.s.post), x.from = r, x.type \in Closers
        PROVE  x \in Range(ss[p].post) \/ Coming(p, x)'
    <3>1. CASE x \in Range(ss[r].post)
      BY <2>2, <2>4, <2>8, <3>1 DEF Coming
    <3>2. CASE x \notin Range(ss[r].post)
      <4>1. ~(Hearing(r) /\ RecordOf(m) = x)
        BY <1>2, <1>8, <2>8
      <4>2. \E y \in Range(w.out) : y.type \in DOMAIN StageOf /\ RecordOf(y) = x
        BY <1>6, <3>2, <4>1 DEF Sourced, m
      <4>. QED  BY <2>4, <4>2 DEF Coming
    <3>. QED  BY <3>1, <3>2
  <2>. QED
    <3>1. ss'[p] = ss[p] /\ ss'[r] = w.s /\ Other(p) = r
      BY <1>2, <1>3
    <3>2. \A y \in Range(net'[p]) :
              /\ y.seq < ss'[r].postSeq
              /\ y.type = "abort" \/ (/\ y.type \in DOMAIN StageOf
                                      /\ RecordOf(y) \in Range(ss'[r].post)
                                      /\ RecordOf(y) \notin Range(ss'[p].post))
      BY <2>7, <3>1
    <3>3. \A x \in Range(ss'[r].post) :
              x.from = r /\ x.type \in Closers => x \in Range(ss'[p].post) \/ Coming(p, x)'
      BY <2>8, <3>1
    <3>. QED  BY <2>6, <3>1, <3>2, <3>3 DEF Delivered
<1>11. ASSUME NEW x \in Range(w.s.post), Refusal(x)
       PROVE  FALSE
  <2>1. x \notin Range(ss[r].post)
    BY <1>2, <1>11 DEF Flowing
  <2>2. ~Aborted(r)
    BY <1>3, <1>11, <2>1
  <2>3. ~(Hearing(r) /\ RecordOf(m) = x)
    BY <1>2, <1>7, <1>8, <1>11 DEF NumberInv
  <2>4. Spoilt(r)
    BY <1>6, <1>11, <2>1, <2>3 DEF Sourced, m
  <2>5. Hearing(r) /\ m.type = "capsule_offer" /\ m.body.flaw = "ct"
    BY <2>4 DEF Spoilt, m
  <2>6. RecordOf(m) \in From(ss[p], "capsule_offer", p) /\ RecordOf(m).body = m.body
    BY <2>2, <2>5, FluentHead DEF Hearing, m, p
  <2>7. m.body = [target |-> Other(p), flaw |-> "none"]
    BY <1>2, <2>6, PartyInv DEF CapsuleInv
  <2>. QED  BY <2>5, <2>7
<1>12. \A x \in Range(ss[p].post) : ~Refusal(x)
  BY <1>2 DEF Flowing
<1>. QED  BY <1>2, <1>3, <1>9, <1>10, <1>11, <1>12

\* What is heard or called once both have locked loses nothing.
LEMMA FluentStays ==
    ASSUME NEW r \in Roles, Fluent, SessionIncoming(r) \/ ClientCalls(r)
    PROVE  Fluent'
<1>. DEFINE p == Other(r)
<1>1. SInv /\ SInv' /\ Tells(r)
  <2>1. ss[r].state # "HANDSHAKE"
    BY PartyInv DEF Fluent, StateInv
  <2>2. ~RcvHandshake(r)
    BY <2>1 DEF RcvHandshake
  <2>. QED  BY <2>2, TurnsKeep DEF Fluent
<1>2. /\ p \in Roles /\ (\A q \in Roles : q = r \/ q = p)
      /\ hs' = hs /\ ss'[p] = ss[p]
  BY <1>1, OtherRole, TurnKeeps
<1>3. Aborted(r) => Aborted(r)' /\ ss'[r].post = ss[r].post
  <2>1. Aborted(r) => ss'[r].state = "ABORTED" /\ ss'[r].post = ss[r].post
    BY <1>1, AbortedStays
  <2>. QED  BY <2>1 DEF Aborted
<1>4. /\ Hearing(r) => Attended(r, Head(net[r]))
      /\ Eager(r, ss'[r]) /\ Answering(r, ss'[r])
  <2>1. CASE SessionIncoming(r)
    <3>1. Attended(r, Head(net[r]))
      BY <2>1, Attends
    <3>. QED  BY <3>1 DEF Attended
  <2>2. CASE ClientCalls(r)
    BY <1>1, <2>2, CallsHearNothing, CallsCompose
  <2>. QED  BY <2>1, <2>2
<1>5. \A q \in Roles : Delivered(q)' /\ \A x \in Range(ss'[q].post) : ~Refusal(x)
  BY <1>1, <1>3, <1>4, TurnDelivers
<1>6. \A q \in Roles : Eager(q, ss'[q]) /\ Answering(q, ss'[q])
  BY <1>2, <1>4 DEF Fluent, Flowing
<1>7. \A q \in Roles : (Eager(q, ss[q]) /\ Answering(q, ss[q]))'
  BY <1>6
<1>8. \A q \in Roles : Flowing(q)'
  BY <1>5, <1>7 DEF Flowing
<1>9. \A q \in Roles : Locked(q)'
  BY <1>2 DEF Fluent, Locked
<1>. QED  BY <1>1, <1>8, <1>9 DEF Fluent

-----------------------------------------------------------------------------
(* From the first greeting to the second lock *)

\* Both parties greet each other, and who has locked has announced it.
Announcing == Meeting /\ \A r \in Roles : Announces(r)

\* A session that has heard nothing has recorded its own announcement at most.
LEMMA NothingHeard ==
    ASSUME Meeting, NEW r \in Roles
    PROVE  /\ \A x \in Range(ss[r].post) : x.type = "keygen_announce" /\ x.from = r
           /\ \A event \in Milestones : ~Passed(ss[r], event)
<1>. DEFINE p == Other(r)
<1>1. /\ SInv /\ ss[r].lastPostSeq = -1 /\ p \in Roles /\ p # r
      /\ StateInv(r, ss[r]) /\ NumberInv(r, ss[r]) /\ LogInv(ss[r]) /\ KeygenInv(r, ss[r])
  BY OtherRole, PartyInv DEF Meeting
<1>2. ASSUME NEW x \in Range(ss[r].post), x.type \notin {"txB_broadcast", "txA_broadcast"}
      PROVE  x.from = r
  BY <1>1, <1>2 DEF NumberInv
<1>3. From(ss[r], "keygen_announce", p) = {}
  BY <1>1, <1>2 DEF From
<1>4. ~Passed(ss[r], "KEYGEN_COMPLETE")
  BY <1>1, <1>3 DEF KeygenInv
<1>5. \A event \in Milestones : ~Passed(ss[r], event)
  BY <1>1, <1>4, MilestoneSet DEF StateInv
<1>6. ASSUME NEW x \in Range(ss[r].post)
      PROVE  x.type = "keygen_announce"
  <2>1. x.type \in DOMAIN StageOf
    BY <1>1 DEF NumberInv
  <2>2. x.type # "keygen_announce" => OpenedBy[x.type] \in Milestones
    BY <2>1, PostTypes, MilestoneSet DEF OpenedBy
  <2>3. x.type # "keygen_announce" => Passed(ss[r], OpenedBy[x.type])
    BY <1>1 DEF LogInv
  <2>. QED  BY <1>5, <2>2, <2>3
<1>7. \A x \in Range(ss[r].post) : x.from = r
  BY <1>2, <1>6
<1>. QED  BY <1>5, <1>6, <1>7

\* Such a session waits for everything and owes nothing.
LEMMA FreshFlows ==
    ASSUME Meeting, NEW r \in Roles
    PROVE  /\ Eager(r, ss[r]) /\ Answering(r, ss[r])
           /\ \A x \in Range(ss[r].post) : ~Refusal(x)
<1>. DEFINE p == Other(r)
            s == ss[r]
<1>1. /\ SInv /\ p \in Roles /\ p # r
      /\ KeygenInv(r, s) /\ CapsuleInv(r, s) /\ FundingInv(r, s, calls[r])
      /\ PrepInv(r, s, calls[r]) /\ TemplateInv(r, s) /\ AdaptorInv(r, s)
  BY OtherRole, PartyInv DEF Meeting
<1>2. \A x \in Range(s.post) : x.type = "keygen_announce" /\ x.from = r
  BY NothingHeard
<1>3. \A type, q : type # "keygen_announce" \/ q = p => From(s, type, q) = {}
  BY <1>1, <1>2 DEF From
<1>4. \A type, q, leg : type # "keygen_announce" => FromLeg(s, type, q, leg) = {}
  BY <1>3 DEF FromLeg
<1>. HIDE DEF s
<1>5. s.peerMpc = None
  BY <1>1, <1>3 DEF KeygenInv, p
<1>6. s.capsuleReceived = FALSE /\ s.capsuleAcked = FALSE
  BY <1>1, <1>3 DEF CapsuleInv
<1>7. \A q \in Roles : s.fundingTx[q] = None
  BY <1>1, <1>3 DEF FundingInv
<1>8. s.localNonces = None
  BY <1>1, <1>3 DEF PrepInv
<1>9. s.peerCommitHash = None
  BY <1>1, <1>3 DEF TemplateInv
<1>10. ASSUME NEW leg \in Legs
       PROVE  /\ ~LegDone(r, s.legs[leg])
              /\ r = "alice" => s.legs[leg].adaptorSig = None
  <2>1. LegInv(r, s, leg)
    BY <1>1 DEF AdaptorInv
  <2>2. /\ r = "alice" => s.legs[leg].adaptorSig = None
        /\ r # "alice" => s.legs[leg].acked = FALSE
    BY <1>4, <2>1 DEF LegInv
  <2>. QED  BY <2>2 DEF LegDone
<1>11. \A event \in Milestones : ~Met(r, s, event)
  <2>1. r \in Roles /\ "B" \in Legs
    BY DEF Legs
  <2>. QED  BY <1>5, <1>6, <1>7, <1>8, <1>9, <1>10, <2>1, MilestoneSet DEF Met
<1>12. Eager(r, s) /\ Answering(r, s)
  BY <1>6, <1>9, <1>10, <1>11 DEF Eager, Answering
<1>13. \A x \in Range(s.post) : ~Refusal(x)
  BY <1>2 DEF s, Refusal
<1>. QED  BY <1>12, <1>13 DEF s

\* Once both have locked, the two announcements come.
LEMMA AnnouncedFlows ==
    ASSUME Announcing, \A q \in Roles : Locked(q)
    PROVE  Fluent
<1>1. Meeting /\ SInv /\ \A q \in Roles : Announces(q)
  BY DEF Announcing, Meeting
<1>2. ASSUME NEW r \in Roles
      PROVE  Flowing(r)
  <2>. DEFINE p == Other(r)
  <2>1. /\ p \in Roles /\ p # r /\ Other(p) = r /\ NumberInv(r, ss[r]) /\ KeygenInv(p, ss[p])
    BY <1>1, OtherRole, PartyInv
  <2>2. Rising(net[r])
    BY <1>1 DEF Meeting, OrderlyInv, OrderlyAt
  <2>3. ASSUME NEW m \in Range(net[r])
        PROVE  /\ m.type \in DOMAIN StageOf /\ m.type = "keygen_announce"
               /\ RecordOf(m) \in Range(ss[p].post)
               /\ RecordOf(m) \notin Range(ss[r].post)
               /\ m.seq < ss[p].postSeq
               /\ RecordOf(m).type = m.type /\ RecordOf(m).from = p
    <3>1. m.type = "keygen_announce" /\ m.type \in DOMAIN StageOf
      BY <1>1, GreetingsHeard, PostTypes
    <3>2. Genuine(p, m)
      BY <1>1 DEF SInv
    <3>3. RecordOf(m) \in Range(ss[p].post)
      BY <3>1, <3>2 DEF Genuine
    <3>4. m.from = p
      <4>1. m = Message(p, m.seq, m.sid, m.type, m.body)
        BY <3>2 DEF Genuine
      <4>. QED  BY <4>1 DEF Message
    <3>5. RecordOf(m).type = m.type /\ RecordOf(m).from = p /\ RecordOf(m).seq = m.seq
      BY <3>4 DEF RecordOf
    <3>6. m.seq < ss[p].postSeq
      BY <1>1, <2>1, <3>3, <3>5, OwnNumber
    <3>7. RecordOf(m) \notin Range(ss[r].post)
      BY <1>1, <2>1, <3>5, NothingHeard
    <3>. QED  BY <3>1, <3>3, <3>5, <3>6, <3>7
  <2>4. ASSUME NEW x \in Range(ss[p].post)
        PROVE  Coming(r, x)
    <3>1. x.type = "keygen_announce" /\ x.from = p
      BY <1>1, <2>1, NothingHeard
    <3>2. PICK m \in Range(net[r]) : m.type = "keygen_announce"
      BY <1>1, <2>1 DEF Announces
    <3>3. x \in From(ss[p], "keygen_announce", p)
      BY <3>1 DEF From, Refusal
    <3>4. RecordOf(m) \in From(ss[p], "keygen_announce", p)
      BY <2>3, <3>2 DEF From, Refusal
    <3>5. RecordOf(m) = x
      BY <2>1, <3>3, <3>4 DEF KeygenInv, AtMostOne
    <3>. QED  BY <2>3, <3>5 DEF Coming
  <2>5. Delivered(r)
    BY <2>2, <2>3, <2>4 DEF Delivered
  <2>. QED  BY <1>1, <2>5, FreshFlows DEF Flowing
<1>. QED  BY <1>1, <1>2 DEF Fluent

\* A greeting heard leaves the announcements where they are, and makes one with a lock.
LEMMA AnnouncesStay ==
    ASSUME Announcing, NEW r \in Roles, StartHandshake(r) \/ RcvHandshake(r)
    PROVE  \A q \in Roles : Announces(q)'
<1>. DEFINE p == Other(r)
<1>1. /\ p \in Roles /\ p # r /\ Other(p) = r /\ (\A q \in Roles : q = r \/ q = p)
      /\ Meeting /\ SInv /\ \A q \in Roles : Announces(q)
  BY OtherRole DEF Announcing, Meeting
<1>2. /\ net[r] \in Seq(Range(net[r])) /\ net[p] \in Seq(Range(net[p]))
      /\ DOMAIN net = Roles /\ DOMAIN hs = Roles
  BY <1>1 DEF SInv
<1>3. Announces(p)
  BY <1>1
<1>. HIDE DEF p
<1>4. CASE StartHandshake(r)
  <2>. DEFINE hello == Message(r, hs[r].seq, NoSid, "hello", Greeting(r))
  <2>1. /\ net' = [net EXCEPT ![p] = Append(@, hello)]
        /\ hs' = [hs EXCEPT ![r].seq = @ + 1, ![r].state = "SENT_HELLO",
                            ![r].transcript = Append(@, RecordOf(hello))]
    BY <1>4 DEF StartHandshake, Start, p
  <2>. HIDE DEF hello
  <2>2. net'[r] = net[r] /\ hs'[p] = hs[p]
    BY <1>1, <1>2, <2>1
  <2>3. ~Locked(r)'
    <3>1. DOMAIN hs[r] = HandshakeFields
      BY <1>1, HandshakeDomain DEF SInv, HandshakeInv
    <3>2. hs'[r].state = "SENT_HELLO"
      BY <1>2, <2>1, <3>1 DEF HandshakeFields
    <3>. QED  BY <3>2 DEF Locked
  <2>. QED  BY <1>1, <1>3, <2>2, <2>3 DEF Announces, Locked
<1>5. CASE RcvHandshake(r)
  <2>. DEFINE m == Head(net[r])
  <2>1. /\ net[r] # <<>> /\ HandleIncoming(r) /\ ss[r].state = "HANDSHAKE" /\ m.type # "malformed"
    BY <1>5 DEF RcvHandshake
  <2>2. PICK t, out : hs' = [hs EXCEPT ![r] = t] /\ Consume(r, out) /\ Settled(r, t, out)
    BY <1>1, <2>1, HandlersSettle DEF Settles
  <2>3. Open(r)
    <3>1. ~Locked(r) /\ hs[r].state # "ABORTED"
      BY <1>1, <2>1, PartyInv DEF StateInv, Meeting, OrderlyInv, OrderlyAt
    <3>. QED  BY <3>1 DEF Open, Locked
  <2>4. m.type # "keygen_announce"
    BY <1>1, <2>1, <2>3, HeadAccepted DEF Meeting, Greetings
  <2>5. /\ net'[r] = Tail(net[r]) /\ net'[p] = net[p] \o out
        /\ hs'[r] = t /\ hs'[p] = hs[p]
    BY <1>1, <1>2, <2>2 DEF Consume, p
  <2>6. Announces(p)'
    <3>. SUFFICES ASSUME Locked(p) PROVE Announces(p)'
      BY <2>5 DEF Announces, Locked
    <3>1. PICK y \in Range(net[r]) : y.type = "keygen_announce"
      BY <1>1, <1>3 DEF Announces
    <3>2. Range(net[r]) = {m} \cup Range(Tail(net[r]))
      BY <1>1, <1>2, <2>1, RisingTail DEF Meeting, OrderlyInv, OrderlyAt
    <3>3. y \in Range(net'[r])
      BY <2>4, <2>5, <3>1, <3>2
    <3>. QED  BY <1>1, <3>1, <3>3 DEF Announces
  <2>7. Announces(r)'
    <3>. SUFFICES ASSUME Locked(r)' PROVE \E y \in Range(net'[p]) : y.type = "keygen_announce"
      BY DEF Announces, p
    <3>1. t.state = "LOCKED"
      BY <2>5 DEF Locked
    <3>2. PICK pre : Replies(r, pre) /\ out = pre \o OnLock(r, TrueSid)
      BY <2>2, <3>1 DEF Settled, Handshaking
    <3>. DEFINE a == OnLock(r, TrueSid)
    <3>3. a \in Seq(Range(a)) /\ Range(a) = {a[1]} /\ a[1].type = "keygen_announce"
      BY DEF OnLock, Range, Message
    <3>. HIDE DEF a
    <3>4. out \in Seq(Range(out)) /\ Range(out) = Range(pre) \cup Range(a)
      BY <3>2, <3>3, RangeConcat DEF Replies, a
    <3>5. Range(net'[p]) = Range(net[p]) \cup Range(out)
      BY <1>2, <2>5, <3>4, RangeConcat
    <3>. QED  BY <3>3, <3>4, <3>5
  <2>. QED  BY <1>1, <2>6, <2>7
<1>. QED  BY <1>4, <1>5

-----------------------------------------------------------------------------
(* Nothing is lost on a network that has not failed *)

\* Both before and after the second lock, the invariant holds.
LEMMA FluentFaultless == Fluent \/ Announcing => FaultlessInv
<1>1. Announcing => FaultlessInv
  <2>1. Announcing /\ (\A q \in Roles : Locked(q)) => Fluent
    BY AnnouncedFlows
  <2>. QED  BY <2>1 DEF Announcing, Meeting, Fluent, FaultlessInv
<1>. QED  BY <1>1 DEF Fluent, FaultlessInv

\* Over a network that has not failed, two parties who could lock are greeting each
\* other, or have both locked.
LEMMA FaultlessParts ==
    ASSUME SInv, FaultlessInv, Faultless
    PROVE  /\ (\A q \in Roles : Locked(q)) => Fluent
           /\ ~(\A q \in Roles : Locked(q)) => Announcing
BY DEF FaultlessInv, Fluent, Announcing, Meeting

\* What has not failed after a turn had not failed before it.
LEMMA FaultlessBefore ==
    ASSUME SInv, Faultless', NEW r \in Roles,
           StartHandshake(r) \/ SessionIncoming(r) \/ ClientCalls(r)
    PROVE  Faultless
<1>1. ASSUME Start(r) \/ HandleIncoming(r)
      PROVE  UNCHANGED <<params, faults>>
  BY <1>1 DEF Start, HandleIncoming, RcvClosed, RcvMalformed, RcvReplay,
     RcvUnexpectedSid, RcvHelloMismatch, RcvHello, RcvHelloAck, RcvOther
<1>2. CASE StartHandshake(r) \/ RcvHandshake(r)
  BY <1>1, <1>2 DEF StartHandshake, RcvHandshake, Faultless
<1>3. CASE Tells(r)
  BY <1>3, TurnKeeps DEF Faultless
<1>. QED  BY <1>2, <1>3, TurnsKeep

\* Every step keeps the invariant.
LEMMA FaultlessStep ==
    ASSUME SInv, SInv', Whole, FaultlessInv, [SessionNext]_sessionVars
    PROVE  FaultlessInv' \/ Fluent' \/ Announcing'
<1>. SUFFICES ASSUME Faultless' PROVE Fluent' \/ Announcing'
  BY DEF FaultlessInv
<1>1. CASE UNCHANGED sessionVars
  <2>1. /\ params' = params /\ nonce' = nonce /\ hs' = hs /\ net' = net /\ ss' = ss
        /\ calls' = calls /\ mutator' = mutator /\ faults' = faults
    BY <1>1 DEF sessionVars
  <2>2. Faultless
    BY <2>1 DEF Faultless
  <2>3. CASE \A q \in Roles : Locked(q)
    <3>1. \A q \in Roles : Locked(q) /\ Flowing(q)
      BY <2>2, <2>3, FaultlessParts DEF Fluent
    <3>2. \A q \in Roles : Locked(q)'
      BY <2>1, <3>1 DEF Locked
    <3>3. \A q \in Roles : Flowing(q)'
      <4>1. \A q \in Roles : Delivered(q)'
        BY <2>1, <3>1 DEF Flowing, Delivered, Aborted, Coming
      <4>2. \A q \in Roles : (Eager(q, ss[q]) /\ Answering(q, ss[q]))'
        BY <2>1, <3>1 DEF Flowing
      <4>. QED  BY <2>1, <3>1, <4>1, <4>2 DEF Flowing
    <3>. QED  BY <3>2, <3>3 DEF Fluent
  <2>4. CASE ~(\A q \in Roles : Locked(q))
    <3>1. Meeting /\ \A q \in Roles : Announces(q)
      BY <2>2, <2>4, FaultlessParts DEF Announcing
    <3>2. [Next]_hsVars /\ IInv /\ AckInv /\ TranscriptInv /\ OrderlyInv
      BY <2>1, <3>1 DEF hsVars, Meeting
    <3>3. IInv'
      BY <3>2, InvariantStays
    <3>4. AckInv' /\ TranscriptInv' /\ OrderlyInv'
      BY <3>2, <3>3, AcksStay, TranscriptsStay, PastStays
    <3>5. Meeting'
      BY <2>1, <3>1, <3>3, <3>4 DEF Meeting, Aborted
    <3>6. \A q \in Roles : Announces(q)'
      BY <2>1, <3>1 DEF Announces, Locked
    <3>. QED  BY <3>5, <3>6 DEF Announcing
  <2>. QED  BY <2>3, <2>4
<1>2. CASE SessionNetwork \/ \E r \in Roles : TamperCapsule(r)
  <2>1. faults' = faults + 1
    BY <1>2 DEF SessionNetwork, Network, Duplicate, Lose, Reorder, Corrupt, TamperCapsule,
                MayFail
  <2>2. faults \in Nat /\ faults' = 0
    BY DEF Whole, Faultless
  <2>. QED  BY <2>1, <2>2
<1>3. ASSUME NEW r \in Roles, StartHandshake(r) \/ SessionIncoming(r) \/ ClientCalls(r)
      PROVE  Fluent' \/ Announcing'
  <2>1. Faultless
    BY <1>3, FaultlessBefore
  <2>2. CASE \A q \in Roles : Locked(q)
    <3>1. Fluent
      BY <2>1, <2>2, FaultlessParts
    <3>2. ~StartHandshake(r)
      BY <2>2 DEF StartHandshake, Start, Locked
    <3>. QED  BY <1>3, <3>1, <3>2, FluentStays
  <2>3. CASE ~(\A q \in Roles : Locked(q))
    <3>1. Announcing /\ Meeting
      BY <2>1, <2>3, FaultlessParts DEF Announcing
    <3>2. ~ClientCalls(r)
      BY <2>3, CallsNeedLocks
    <3>3. StartHandshake(r) \/ RcvHandshake(r)
      BY <1>3, <2>3, <3>1, <3>2, MeetingHears
    <3>. QED  BY <3>1, <3>3, MeetingGreets, AnnouncesStay DEF Announcing
  <2>. QED  BY <2>2, <2>3
<1>. QED  BY <1>1, <1>2, <1>3 DEF SessionNext

\* As long as the network has not failed, and whatever the two parties and their clients
\* do, nothing is lost between them from the second lock on: what comes to a party that has
\* not aborted is new to it and comes in the order its peer sent it, and what completes a
\* phase it has recorded or will still hear. Nobody waits for what he has, or owes an
\* acknowledgement of what he took, or has refused a capsule.
THEOREM NothingIsLost == SessionSpec => []FaultlessInv
<1>1. SessionInit => FaultlessInv
  <2>. SUFFICES ASSUME SessionInit PROVE FaultlessInv
    OBVIOUS
  <2>1. IInv /\ Init
    BY Initially DEF SessionInit
  <2>2. AckInv /\ TranscriptInv /\ OrderlyInv
    BY <2>1, AcksStart, TranscriptsStart, PastStarts
  <2>3. \A r \in Roles : ~Aborted(r) /\ ss[r].lastPostSeq = -1 /\ ~Locked(r)
    BY DEF SessionInit, SessionCreated, Aborted, Init, Created, Locked
  <2>. QED  BY <2>1, <2>2, <2>3 DEF FaultlessInv, Announces, Roles
<1>2. SInv /\ SInv' /\ Whole /\ FaultlessInv /\ [SessionNext]_sessionVars =>
          FaultlessInv' \/ Fluent' \/ Announcing'
  BY FaultlessStep
<1>3. Fluent \/ Announcing => FaultlessInv
  BY FluentFaultless
<1>. QED  BY <1>1, <1>2, <1>3, SessionInvariance, WholeStays, PTL DEF SessionSpec

\* Over a network that has not failed, no message but an abort is thrown away for
\* arriving before its state, except by a party that still is in FUNDING, or in
\* EXEC_PREP without the report it had to throw away then.
THEOREM NothingElseDropped == SessionSpec => NoOtherEarlyDrop
<1>. DEFINE Drop(r) ==
         LET m == Head(net[r])
         IN  faults = 0 /\ RcvUnused(r) /\ m.type # "abort" =>
                \/ ss[r].state = "FUNDING" /\ m.type \in {"nonce_report", "fee_params"}
                \/ ss[r].state = "EXEC_PREP" /\ m.type = "tx_template_commit"
                   /\ ss[r].peerNonces = None
<1>1. ASSUME SInv, FaultlessInv, NEW r \in Roles
      PROVE  Drop(r)
  <2>. DEFINE m == Head(net[r])
  <2>. SUFFICES ASSUME faults = 0, RcvUnused(r), m.type # "abort"
                PROVE  Allowed(r, m)
    BY DEF Allowed
  <2>1. SessionOpen(r) /\ net[r] # <<>> /\ (m.type \in DOMAIN StageOf => StageOf[m.type] # ss[r].state)
    BY DEF RcvUnused
  <2>2. Faultless
    <3>1. Locked(r)
      BY <1>1, <2>1, PartyInv DEF StateInv, SessionOpen
    <3>. QED  BY <1>1, <3>1 DEF SInv, HandshakeInv, Faultless
  <2>3. \A q \in Roles : Locked(q)
    <3>. SUFFICES ASSUME ~(\A q \in Roles : Locked(q)) PROVE FALSE
      OBVIOUS
    <3>1. Meeting
      BY <1>1, <2>2, FaultlessParts DEF Announcing
    <3>2. RcvHandshake(r)
      BY <3>1, MeetingHears DEF SessionIncoming
    <3>. QED  BY <2>1, <3>2 DEF RcvHandshake, SessionOpen
  <2>4. Finds(r, m)
    BY <1>1, <2>1, <2>2, <2>3, FaultlessParts DEF Finds
  <2>5. m.type \in DOMAIN StageOf
    BY <2>4, FoundFacts
  <2>. QED  BY <2>1, <2>4, <2>5, NothingSkipped
<1>2. SInv /\ FaultlessInv => [\A r \in Roles : Drop(r)]_sessionVars
  BY <1>1
<1>. QED  BY <1>2, SessionInvariance, NothingIsLost, PTL DEF NoOtherEarlyDrop

=============================================================================
