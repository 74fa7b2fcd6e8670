------------------------ MODULE SessionRuntimeProofs ------------------------
(***************************************************************************)
(* Theorems about the session of two parties (SessionRuntime), for every   *)
(* set of parameters, nonces, fees and values, every number of faults and  *)
(* both mutators: the inductive invariant of SessionInvariant, and what    *)
(* follows from it.                                                        *)
(***************************************************************************)
EXTENDS SessionRecordProofs

-----------------------------------------------------------------------------
(* One lemma per message *)

LEMMA RcvKeygenAnnounceKeeps ==
    ASSUME NEW r \in Roles, SInv, RcvKeygenAnnounce(r)
    PROVE  SInv' /\ Tells(r)
<1>. DEFINE m == Head(net[r])
            w == Heard(r, m)
            p == Other(r)
            k == [w EXCEPT !.s.peerMpc = m.body.keyOf]
            kept == Note(k, m)
            complete == Enter(Reach(kept, "KEYGEN_COMPLETE"), "CAPSULES_EXCHANGE")
            offer == [target |-> p, flaw |-> "none"]
            sent == Send(r, complete, "capsule_offer", offer)
            c == calls[r]
<1>1. /\ Takes(r, "keygen_announce") /\ UNCHANGED SessionRest
      /\ Returns(r, Keep(r, w, w.s.peerMpc, m.body.keyOf, sent))
  BY DEF RcvKeygenAnnounce, CheckKeygenComplete
<1>h. Hearing(r)
  BY <1>1, ReturnsHears DEF Takes
<1>2. "keygen_announce" \in DOMAIN StageOf /\ StageOf["keygen_announce"] = "KEYGEN"
  BY DEF StageOf
<1>3. /\ net[r] # <<>> /\ m.type = "keygen_announce" /\ m.from = p /\ m.seq \in Nat
      /\ hs[p].sid = TrueSid /\ RecordOf(m) \in Range(ss[p].post)
      /\ RecordOf(m).type = "keygen_announce" /\ RecordOf(m).from = p
      /\ RecordOf(m).body = m.body
      /\ Ongoing(r, w, c) /\ Working(w) /\ w.s.state = "KEYGEN" /\ m.seq <= w.s.lastPostSeq
      /\ LocalInv(p, ss[p], calls[p]) /\ p \in Roles /\ p # r /\ Locked(r)
  BY <1>1, <1>2, Taken DEF Took
<1>4. m.body.keyOf = <<p, TrueSid>> /\ m.body.keyOf # None
  <2>1. ~Refusal(RecordOf(m))
    BY <1>3 DEF Refusal
  <2>2. RecordOf(m) \in From(ss[p], "keygen_announce", p)
    BY <1>3, <2>1 DEF From
  <2>3. RecordOf(m).body = [keyOf |-> <<p, hs[p].sid>>]
    BY <1>3, <2>2 DEF LocalInv, CoreInv, KeygenInv
  <2>4. m.body.keyOf = <<p, TrueSid>>
    BY <1>3, <2>3
  <2>5. <<p, TrueSid>> \in Roles \X Sids
    BY <1>3, LockedSids
  <2>. QED  BY <2>4, <2>5, SessionAssumption
<1>5. ASSUME w.s.peerMpc = None
      PROVE  Ongoing(r, sent, c)
  <2>1. /\ Working(k) /\ k.out = w.out /\ Same(w.s, k.s, SessionFields \ {"peerMpc"})
        /\ k.s.peerMpc = m.body.keyOf
    BY <1>3 DEF Working, SessionFields, Same
  <2>2. MayNote(r, w, k, m, {"peerMpc"})
    BY <1>h, <1>2, <1>3, <2>1 DEF MayNote, Refusal, Bookkeeping
  <2>. HIDE DEF w, k, p
  <2>3. DidNote(r, w, k, kept, m, {"peerMpc"})
    BY <1>3, <2>2, NoteMessage
  <2>4. kept.s.peerMpc = m.body.keyOf /\ kept.s.state = "KEYGEN"
    BY <1>3, <2>1, <2>3 DEF DidNote, Same, SessionFields
  <2>5. LocalInv(r, kept.s, c)
    BY <1>3, <1>4, <1>5, <2>3, <2>4, KeygenNoted DEF Ongoing, DidNote
  <2>. HIDE DEF kept
  <2>6. Reaches("KEYGEN_COMPLETE", kept.s.state, "CAPSULES_EXCHANGE")
        /\ Ready(r, kept.s, "KEYGEN_COMPLETE")
    BY <1>4, <2>4 DEF Reaches, Ready, Met
  <2>7. /\ Ongoing(r, complete, c) /\ Working(complete)
        /\ complete.s.state = "CAPSULES_EXCHANGE" /\ complete.s.post = kept.s.post
    BY <2>3, <2>5, <2>6, PassStep DEF DidNote, LocalInv
  <2>. HIDE DEF complete
  <2>10. From(complete.s, "capsule_offer", r) = {}
    <3>1. ~Passed(kept.s, OpenedBy["capsule_offer"]) /\ LogInv(kept.s)
      BY <2>4, <2>5 DEF LocalInv, CoreInv, StateInv, OpenedBy
    <3>2. From(kept.s, "capsule_offer", r) = {}
      BY <3>1, NotYet
    <3>. QED  BY <2>7, <3>2 DEF From
  <2>11. MaySend(r, complete, complete, "capsule_offer", offer, {})
    BY <2>7 DEF MaySend, StageOf, Same, p
  <2>12. DidSend(r, complete, complete, sent, "capsule_offer", offer, {})
    BY <2>7, <2>11, SendMessage
  <2>13. PICK x : /\ Issued(r, complete.s, sent.s, x, {})
                  /\ x.type = "capsule_offer" /\ x.body = offer
    BY <2>12 DEF DidSend
  <2>. HIDE DEF sent
  <2>14. LocalInv(r, sent.s, c)
    BY <2>7, <2>10, <2>13, OfferSent DEF Ongoing, p
  <2>. QED  BY <2>12, <2>14 DEF Ongoing, DidSend
<1>6. Ongoing(r, Keep(r, w, w.s.peerMpc, m.body.keyOf, sent), c)
  BY <1>3, <1>5, AbortStep DEF Keep
<1>. QED  BY <1>1, <1>3, <1>6, HandlerEnds
LEMMA RefuseStep ==
    ASSUME NEW r \in Roles, NEW w, NEW c, Ongoing(r, w, c),
           w.s.state = "CAPSULES_EXCHANGE", Spoilt(r)
    PROVE  Ongoing(r, Enter(Send(r, w, "capsule_ack", [target |-> r, ok |-> FALSE]),
                            "ABORTED"), c)
<1>. DEFINE body == [target |-> r, ok |-> FALSE]
            sent == Send(r, w, "capsule_ack", body)
            v == Enter(sent, "ABORTED")
            m == NextMessage(r, w, "capsule_ack", body)
            x == RecordOf(m)
<1>1. Working(w) /\ LocalInv(r, w.s, c) /\ Told(r, w) /\ NumberInv(r, w.s) /\ Locked(r)
  BY DEF Ongoing, Told, Working, LocalInv, CoreInv, StateInv
<1>2. x.type = "capsule_ack" /\ x.from = r /\ x.seq = w.s.postSeq /\ x.body = body
  BY DEF NextMessage, Message, RecordOf
<1>3. Refusal(x)
  BY <1>2 DEF Refusal
<1>. HIDE DEF body, x
<1>4. Appended(r, w, sent, "capsule_ack", body)
  BY <1>1, SendEffect
<1>5. /\ Working(v) /\ v.out = sent.out /\ v.s.state = "ABORTED"
      /\ Same(sent.s, v.s, SessionFields \ {"state"})
  <2>1. Working(sent)
    BY <1>4 DEF Appended
  <2>. HIDE DEF sent
  <2>. QED  BY <2>1, EnterEffect
<1>. HIDE DEF sent, v
<1>6. /\ v.out = Append(w.out, m) /\ v.s.post = Append(w.s.post, x)
      /\ v.s.postSeq = w.s.postSeq + 1
      /\ Same(w.s, v.s, SessionFields \ {"state", "post", "postSeq"})
  BY <1>4, <1>5 DEF Appended, Same, SessionFields, x
<1>7. LocalInv(r, v.s, c)
  BY <1>1, <1>2, <1>3, <1>5, <1>6, RefusalKeeps DEF Working
<1>8. "capsule_ack" \in DOMAIN StageOf
  BY DEF StageOf
<1>9. Told(r, v)
  <2>1. v.s.post = Append(w.s.post, RecordOf(m))
    BY <1>6 DEF x
  <2>2. Onward(w, v)
    BY <1>5, <1>6 DEF Onward, Same, SessionFields
  <2>. QED  BY <1>1, <1>5, <1>6, <1>8, <2>1, <2>2, SendStep
<1>. QED  BY <1>7, <1>9 DEF Ongoing, v, sent, body

LEMMA RcvCapsuleOfferKeeps ==
    ASSUME NEW r \in Roles, SInv, RcvCapsuleOffer(r)
    PROVE  SInv' /\ Tells(r)
<1>. DEFINE m == Head(net[r])
            w == Heard(r, m)
            k == [w EXCEPT !.s.capsuleReceived = TRUE]
            kept == Note(k, m)
            ack == [target |-> r, ok |-> TRUE]
            sent == Send(r, kept, "capsule_ack", ack)
            refused == Enter(Send(r, w, "capsule_ack", [target |-> r, ok |-> FALSE]),
                             "ABORTED")
            c == calls[r]
            v == IF m.body.target # r \/ m.body.flaw \in {"params", "yShare", "proof"}
                 THEN EmitAbort(r, w, "PROTOCOL_ERROR")
                 ELSE IF m.body.flaw = "ct" THEN refused ELSE AcceptOffer(r, w, m)
<1>1. Takes(r, "capsule_offer") /\ UNCHANGED SessionRest /\ Returns(r, v)
  BY DEF RcvCapsuleOffer
<1>h. Hearing(r)
  BY <1>1, ReturnsHears DEF Takes
<1>2. /\ "capsule_offer" \in DOMAIN StageOf /\ StageOf["capsule_offer"] = "CAPSULES_EXCHANGE"
      /\ "capsule_ack" \in DOMAIN StageOf /\ StageOf["capsule_ack"] = "CAPSULES_EXCHANGE"
  BY DEF StageOf
<1>3. Took(r, "capsule_offer", m, w)
  BY <1>1, <1>2, Taken
<1>4. /\ Ongoing(r, w, c) /\ Working(w) /\ w.s.state = "CAPSULES_EXCHANGE" /\ net[r] # <<>>
      /\ w.s.capsuleReceived \in BOOLEAN
  BY <1>2, <1>3 DEF Took, Ongoing, LocalInv, CoreInv, CapsuleInv
<1>5. /\ Ongoing(r, EmitAbort(r, w, "PROTOCOL_ERROR"), c)
      /\ m.body.flaw = "ct" => Ongoing(r, refused, c)
  <2>1. m.body.flaw = "ct" => Spoilt(r)
    BY <1>h, <1>3 DEF Took, Spoilt
  <2>. HIDE DEF w
  <2>. QED  BY <1>4, <2>1, AbortStep, RefuseStep
<1>6. ASSUME RecordOf(m) \in Range(ss[Other(r)].post), ~w.s.capsuleReceived
      PROVE  Ongoing(r, CheckCapsulesVerified(sent), c)
  <2>1. /\ Working(k) /\ k.out = w.out /\ Same(w.s, k.s, SessionFields \ {"capsuleReceived"})
        /\ k.s.capsuleReceived = TRUE
    BY <1>4 DEF Working, SessionFields, Same
  <2>2. MayNote(r, w, k, m, {"capsuleReceived"})
    BY <1>h, <1>2, <1>3, <1>6, <2>1 DEF MayNote, Took, Refusal, Bookkeeping
  <2>. HIDE DEF w, k
  <2>3. DidNote(r, w, k, kept, m, {"capsuleReceived"})
    BY <1>4, <2>2, NoteMessage
  <2>4. kept.s.capsuleReceived = TRUE /\ kept.s.state = "CAPSULES_EXCHANGE"
    BY <1>4, <2>1, <2>3 DEF DidNote, Same, SessionFields
  <2>5. RecordOf(m).type = "capsule_offer"
    BY <1>3 DEF Took
  <2>. HIDE DEF kept
  <2>6. LocalInv(r, kept.s, c) /\ From(w.s, "capsule_ack", r) = {}
    BY <1>4, <1>6, <2>3, <2>4, <2>5, OfferNoted DEF Ongoing, DidNote
  <2>7. Ongoing(r, kept, c) /\ Working(kept)
    BY <2>3, <2>6 DEF DidNote, Ongoing
  <2>8. From(kept.s, "capsule_ack", r) = {}
    <3>1. Range(kept.s.post) = Range(w.s.post) \cup {RecordOf(m)}
      BY <1>4, <2>3, RangeAppend DEF DidNote, Noted, Ongoing, LocalInv, CoreInv, NumberInv
    <3>. QED  BY <2>5, <2>6, <3>1 DEF From
  <2>9. MaySend(r, kept, kept, "capsule_ack", ack, {})
    BY <1>2, <2>4, <2>7 DEF MaySend, Same
  <2>10. DidSend(r, kept, kept, sent, "capsule_ack", ack, {})
    BY <2>7, <2>9, SendMessage
  <2>11. PICK x : /\ Issued(r, kept.s, sent.s, x, {})
                  /\ x.type = "capsule_ack" /\ x.body = ack
    BY <2>10 DEF DidSend
  <2>. HIDE DEF sent
  <2>12. LocalInv(r, sent.s, c)
    BY <2>4, <2>7, <2>8, <2>11, CapsuleAckSent DEF Ongoing
  <2>13. sent.s.state = "CAPSULES_EXCHANGE"
    BY <2>4, <2>10 DEF DidSend, Same, SessionFields
  <2>14. Ongoing(r, sent, c)
    BY <2>10, <2>12 DEF Ongoing, DidSend
  <2>. QED  BY <2>13, <2>14, CheckCapsulesVerifiedKeeps
<1>7. ASSUME m.body.flaw \notin {"params", "yShare", "proof"}, m.body.flaw # "ct"
      PROVE  Ongoing(r, AcceptOffer(r, w, m), c)
  <2>1. RecordOf(m) \in Range(ss[Other(r)].post)
    BY <1>3, <1>7 DEF Took, CapsuleFlaws
  <2>. HIDE DEF w
  <2>. QED  BY <1>4, <1>6, <2>1 DEF AcceptOffer
<1>8. Ongoing(r, v, c)
  <2>. HIDE DEF w, refused
  <2>. QED  BY <1>5, <1>7
<1>. HIDE DEF v
<1>. QED  BY <1>1, <1>4, <1>8, HandlerEnds

LEMMA RcvCapsuleAckKeeps ==
    ASSUME NEW r \in Roles, SInv, RcvCapsuleAck(r)
    PROVE  SInv' /\ Tells(r)
<1>. DEFINE m == Head(net[r])
            w == Heard(r, m)
            k == [w EXCEPT !.s.capsuleAcked = TRUE]
            kept == Note(k, m)
            c == calls[r]
            v == IF m.body.target # Other(r) THEN w
                 ELSE IF ~m.body.ok THEN EmitAbort(r, w, "PROTOCOL_ERROR")
                 ELSE IF w.s.capsuleAcked THEN w
                 ELSE CheckCapsulesVerified(kept)
<1>1. Takes(r, "capsule_ack") /\ UNCHANGED SessionRest /\ Returns(r, v)
  BY DEF RcvCapsuleAck
<1>h. Hearing(r)
  BY <1>1, ReturnsHears DEF Takes
<1>2. "capsule_ack" \in DOMAIN StageOf /\ StageOf["capsule_ack"] = "CAPSULES_EXCHANGE"
  BY DEF StageOf
<1>3. Took(r, "capsule_ack", m, w)
  BY <1>1, <1>2, Taken
<1>4. /\ Ongoing(r, w, c) /\ Working(w) /\ w.s.state = "CAPSULES_EXCHANGE" /\ net[r] # <<>>
      /\ w.s.capsuleAcked \in BOOLEAN
  BY <1>2, <1>3 DEF Took, Ongoing, LocalInv, CoreInv, CapsuleInv
<1>5. Ongoing(r, EmitAbort(r, w, "PROTOCOL_ERROR"), c)
  BY <1>4, AbortStep
<1>6. ASSUME m.body.ok, ~w.s.capsuleAcked
      PROVE  Ongoing(r, CheckCapsulesVerified(kept), c)
  <2>1. /\ Working(k) /\ k.out = w.out /\ Same(w.s, k.s, SessionFields \ {"capsuleAcked"})
        /\ k.s.capsuleAcked = TRUE
    BY <1>4 DEF Working, SessionFields, Same
  <2>2. RecordOf(m).body.ok /\ RecordOf(m).type = "capsule_ack"
    BY <1>3, <1>6 DEF Took
  <2>3. MayNote(r, w, k, m, {"capsuleAcked"})
    BY <1>h, <1>2, <1>3, <2>1, <2>2 DEF MayNote, Took, Refusal, Bookkeeping
  <2>. HIDE DEF w, k
  <2>4. DidNote(r, w, k, kept, m, {"capsuleAcked"})
    BY <1>4, <2>3, NoteMessage
  <2>5. kept.s.capsuleAcked = TRUE /\ kept.s.state = "CAPSULES_EXCHANGE"
    BY <1>4, <2>1, <2>4 DEF DidNote, Same, SessionFields
  <2>. HIDE DEF kept
  <2>6. LocalInv(r, kept.s, c)
    BY <1>4, <1>6, <2>2, <2>4, <2>5, CapsuleAckNoted DEF Ongoing, DidNote
  <2>7. Ongoing(r, kept, c)
    BY <2>4, <2>6 DEF DidNote, Ongoing
  <2>. QED  BY <2>5, <2>7, CheckCapsulesVerifiedKeeps
<1>7. Ongoing(r, v, c)
  <2>. HIDE DEF w, kept
  <2>. QED  BY <1>4, <1>5, <1>6
<1>. HIDE DEF v
<1>. QED  BY <1>1, <1>4, <1>7, HandlerEnds
LEMMA RcvFundingTxKeeps ==
    ASSUME NEW r \in Roles, SInv, RcvFundingTx(r)
    PROVE  SInv' /\ Tells(r)
<1>. DEFINE m == Head(net[r])
            w == Heard(r, m)
            p == Other(r)
            k == [w EXCEPT !.s.fundingTx[m.body.which] = m.body]
            kept == Note(k, m)
            c == calls[r]
            v == IF m.body.which # m.from \/ m.body.value = "short"
                 THEN EmitAbort(r, w, "PROTOCOL_ERROR")
                 ELSE Keep(r, w, w.s.fundingTx[m.body.which], m.body,
                           CheckFundingComplete(kept))
<1>1. Takes(r, "funding_tx") /\ UNCHANGED SessionRest /\ Returns(r, v)
  BY DEF RcvFundingTx
<1>h. Hearing(r)
  BY <1>1, ReturnsHears DEF Takes
<1>2. "funding_tx" \in DOMAIN StageOf /\ StageOf["funding_tx"] = "FUNDING"
  BY DEF StageOf
<1>3. Took(r, "funding_tx", m, w)
  BY <1>1, <1>2, Taken
<1>4. /\ Ongoing(r, w, c) /\ Working(w) /\ w.s.state = "FUNDING" /\ net[r] # <<>>
      /\ m.from = p /\ p \in Roles /\ RecordOf(m).type = "funding_tx"
      /\ RecordOf(m).body = m.body /\ RecordOf(m) \in Range(ss[p].post)
      /\ m.type = "funding_tx" /\ RecordOf(m).from = p /\ LocalInv(p, ss[p], calls[p])
  BY <1>2, <1>3 DEF Took
<1>5. Ongoing(r, EmitAbort(r, w, "PROTOCOL_ERROR"), c)
  BY <1>4, AbortStep
<1>6. m.body \in FundingPayloads
  <2>1. RecordOf(m) \in From(ss[p], "funding_tx", p)
    BY <1>4 DEF From, Refusal
  <2>. QED  BY <1>4, <2>1 DEF LocalInv, CoreInv, FundingInv
<1>7. ASSUME m.body.which = p, m.body.value # "short", w.s.fundingTx[p] = None
      PROVE  Ongoing(r, CheckFundingComplete(kept), c)
  <2>1. /\ Working(k) /\ k.out = w.out /\ Same(w.s, k.s, SessionFields \ {"fundingTx"})
        /\ k.s.fundingTx = [w.s.fundingTx EXCEPT ![p] = m.body]
    BY <1>4, <1>7 DEF Working, SessionFields, Same
  <2>2. m.body.value = "enough"
    BY <1>6, <1>7, SessionAssumption DEF FundingPayloads
  <2>3. MayNote(r, w, k, m, {"fundingTx"})
    BY <1>h, <1>2, <1>3, <1>4, <2>1 DEF MayNote, Took, Refusal, Bookkeeping
  <2>. HIDE DEF w, k
  <2>4. DidNote(r, w, k, kept, m, {"fundingTx"})
    BY <1>4, <2>3, NoteMessage
  <2>5. /\ kept.s.fundingTx = [w.s.fundingTx EXCEPT ![p] = m.body]
        /\ kept.s.state = "FUNDING"
    BY <1>4, <2>1, <2>4 DEF DidNote, Same, SessionFields
  <2>. HIDE DEF kept
  <2>6. LocalInv(r, kept.s, c)
    BY <1>4, <1>6, <1>7, <2>2, <2>4, <2>5, FundingNoted DEF Ongoing, DidNote
  <2>7. Ongoing(r, kept, c)
    BY <2>4, <2>6 DEF DidNote, Ongoing
  <2>. QED  BY <2>5, <2>7, CheckFundingCompleteKeeps
<1>8. Ongoing(r, v, c)
  <2>. HIDE DEF w, kept
  <2>. QED  BY <1>4, <1>5, <1>7 DEF Keep
<1>. HIDE DEF v
<1>. QED  BY <1>1, <1>4, <1>8, HandlerEnds

LEMMA RcvNonceReportKeeps ==
    ASSUME NEW r \in Roles, SInv, RcvNonceReport(r)
    PROVE  SInv' /\ Tells(r)
<1>. DEFINE m == Head(net[r])
            w == Heard(r, m)
            p == Other(r)
            k == [w EXCEPT !.s.peerNonces = m.body.nonces]
            kept == Note(k, m)
            c == calls[r]
            v == Keep(r, w, w.s.peerNonces, m.body.nonces, CheckExecReady(r, kept))
<1>1. Takes(r, "nonce_report") /\ UNCHANGED SessionRest /\ Returns(r, v)
  BY DEF RcvNonceReport
<1>h. Hearing(r)
  BY <1>1, ReturnsHears DEF Takes
<1>2. "nonce_report" \in DOMAIN StageOf /\ StageOf["nonce_report"] = "EXEC_PREP"
  BY DEF StageOf
<1>3. Took(r, "nonce_report", m, w)
  BY <1>1, <1>2, Taken
<1>4. /\ Ongoing(r, w, c) /\ Working(w) /\ w.s.state = "EXEC_PREP" /\ net[r] # <<>>
      /\ m.from = p /\ p \in Roles /\ RecordOf(m).type = "nonce_report"
      /\ RecordOf(m).body = m.body /\ RecordOf(m) \in Range(ss[p].post)
      /\ m.type = "nonce_report" /\ RecordOf(m).from = p /\ LocalInv(p, ss[p], calls[p])
  BY <1>2, <1>3 DEF Took
<1>5. Ongoing(r, EmitAbort(r, w, "PROTOCOL_ERROR"), c)
  BY <1>4, AbortStep
<1>6. m.body.nonces \in NonceReports
  <2>1. RecordOf(m) \in From(ss[p], "nonce_report", p)
    BY <1>4 DEF From, Refusal
  <2>. QED  BY <1>4, <2>1 DEF LocalInv, CoreInv, PrepInv
<1>7. ASSUME w.s.peerNonces = None
      PROVE  Ongoing(r, CheckExecReady(r, kept), c)
  <2>1. /\ Working(k) /\ k.out = w.out /\ Same(w.s, k.s, SessionFields \ {"peerNonces"})
        /\ k.s.peerNonces = m.body.nonces
    BY <1>4 DEF Working, SessionFields, Same
  <2>2. MayNote(r, w, k, m, {"peerNonces"})
    BY <1>h, <1>2, <1>3, <1>4, <2>1 DEF MayNote, Took, Refusal, Bookkeeping
  <2>. HIDE DEF w, k
  <2>3. DidNote(r, w, k, kept, m, {"peerNonces"})
    BY <1>4, <2>2, NoteMessage
  <2>4. kept.s.peerNonces = m.body.nonces /\ kept.s.state = "EXEC_PREP"
    BY <1>4, <2>1, <2>3 DEF DidNote, Same, SessionFields
  <2>. HIDE DEF kept
  <2>5. LocalInv(r, kept.s, c)
    BY <1>4, <1>6, <1>7, <2>3, <2>4, NonceNoted DEF Ongoing, DidNote
  <2>6. Ongoing(r, kept, c)
    BY <2>3, <2>5 DEF DidNote, Ongoing
  <2>. QED  BY <2>4, <2>6, CheckExecReadyKeeps
<1>8. Ongoing(r, v, c)
  <2>. HIDE DEF w, kept
  <2>. QED  BY <1>4, <1>5, <1>7 DEF Keep
<1>. HIDE DEF v
<1>. QED  BY <1>1, <1>4, <1>8, HandlerEnds

LEMMA RcvFeeParamsKeeps ==
    ASSUME NEW r \in Roles, SInv, RcvFeeParams(r)
    PROVE  SInv' /\ Tells(r)
<1>. DEFINE m == Head(net[r])
            w == Heard(r, m)
            p == Other(r)
            fee == m.body.fee
            k == [w EXCEPT !.s.feeParams = fee]
            kept == Note(k, m)
            body == [feeHash |-> fee]
            sent == Send(r, kept, "fee_params_ack", body)
            acked == [sent EXCEPT !.s.feeAcked = TRUE]
            c == calls[r]
            v == IF r # "bob" THEN EmitAbort(r, w, "PROTOCOL_ERROR")
                 ELSE Keep(r, w, w.s.feeParams, fee, CheckExecReady(r, acked))
<1>1. Takes(r, "fee_params") /\ UNCHANGED SessionRest /\ Returns(r, v)
  BY DEF RcvFeeParams
<1>h. Hearing(r)
  BY <1>1, ReturnsHears DEF Takes
<1>2. /\ "fee_params" \in DOMAIN StageOf /\ StageOf["fee_params"] = "EXEC_PREP"
      /\ "fee_params_ack" \in DOMAIN StageOf /\ StageOf["fee_params_ack"] = "EXEC_PREP"
  BY DEF StageOf
<1>3. Took(r, "fee_params", m, w)
  BY <1>1, <1>2, Taken
<1>4. /\ Ongoing(r, w, c) /\ Working(w) /\ w.s.state = "EXEC_PREP" /\ net[r] # <<>>
      /\ m.from = p /\ p \in Roles /\ RecordOf(m).type = "fee_params"
      /\ RecordOf(m).body = m.body /\ RecordOf(m) \in Range(ss[p].post)
      /\ m.type = "fee_params" /\ RecordOf(m).from = p /\ LocalInv(p, ss[p], calls[p])
  BY <1>2, <1>3 DEF Took
<1>5. Ongoing(r, EmitAbort(r, w, "PROTOCOL_ERROR"), c)
  BY <1>4, AbortStep
<1>6. ASSUME r = "bob"
      PROVE  fee \in FeeChoices /\ fee # None /\ m.body = [fee |-> fee]
  <2>1. p = "alice"
    BY <1>6 DEF Other
  <2>2. RecordOf(m) \in From(ss["alice"], "fee_params", "alice")
    BY <1>4, <2>1 DEF From, Refusal
  <2>3. m.body = [fee |-> ss["alice"].feeParams] /\ ss["alice"].feeParams \in FeeChoices
    BY <1>4, <2>1, <2>2 DEF LocalInv, CoreInv, PrepInv
  <2>. QED  BY <2>3, SessionAssumption
<1>7. ASSUME r = "bob", w.s.feeParams = None
      PROVE  Ongoing(r, CheckExecReady(r, acked), c)
  <2>1. /\ Working(k) /\ k.out = w.out /\ Same(w.s, k.s, SessionFields \ {"feeParams"})
        /\ k.s.feeParams = fee
    BY <1>4 DEF Working, SessionFields, Same
  <2>2. MayNote(r, w, k, m, {"feeParams"})
    BY <1>h, <1>2, <1>3, <1>4, <2>1 DEF MayNote, Took, Refusal, Bookkeeping
  <2>. HIDE DEF w, k
  <2>3. DidNote(r, w, k, kept, m, {"feeParams"})
    BY <1>4, <2>2, NoteMessage
  <2>4. kept.s.feeParams = fee /\ kept.s.state = "EXEC_PREP" /\ Working(kept)
    BY <1>4, <2>1, <2>3 DEF DidNote, Same, SessionFields
  <2>. HIDE DEF kept, fee
  <2>5. LocalInv(r, kept.s, c) /\ From(w.s, "fee_params_ack", r) = {}
    <3>1. /\ RecordOf(m).body.fee = fee /\ RecordOf(m).body = [fee |-> RecordOf(m).body.fee]
          /\ fee \in FeeChoices
      BY <1>4, <1>6, <1>7 DEF fee
    <3>. QED  BY <1>4, <1>7, <2>3, <2>4, <3>1, FeeNoted DEF Ongoing, DidNote
  <2>6. Ongoing(r, kept, c)
    BY <2>3, <2>5 DEF DidNote, Ongoing
  <2>7. From(kept.s, "fee_params_ack", r) = {}
    <3>1. Range(kept.s.post) = Range(w.s.post) \cup {RecordOf(m)}
      BY <1>4, <2>3, RangeAppend DEF DidNote, Noted, Ongoing, LocalInv, CoreInv, NumberInv
    <3>. QED  BY <1>4, <2>5, <3>1 DEF From
  <2>8. MaySend(r, kept, kept, "fee_params_ack", body, {})
    BY <1>2, <2>4 DEF MaySend, Same
  <2>9. DidSend(r, kept, kept, sent, "fee_params_ack", body, {})
    BY <2>6, <2>8, SendMessage
  <2>10. PICK x : /\ Issued(r, kept.s, sent.s, x, {})
                  /\ x.type = "fee_params_ack" /\ x.body = body
    BY <2>9 DEF DidSend
  <2>. HIDE DEF sent, body
  <2>11. /\ Working(acked) /\ acked.out = sent.out /\ acked.s.feeAcked = TRUE
         /\ Same(sent.s, acked.s, SessionFields \ {"feeAcked"})
    BY <2>9 DEF DidSend, Working, SessionFields, Same
  <2>. HIDE DEF acked
  <2>12. acked.s.post = sent.s.post /\ acked.s.postSeq = sent.s.postSeq
         /\ acked.s.state = "EXEC_PREP"
    BY <2>4, <2>9, <2>11 DEF DidSend, Same, SessionFields
  <2>13. Told(r, acked) /\ Issued(r, kept.s, acked.s, x, {"feeAcked"})
    <3>a. Onward(sent, acked)
      BY <2>11 DEF Onward, Same, SessionFields
    <3>1. Told(r, acked)
      BY <2>9, <2>11, <2>12, <3>a, SameStep DEF DidSend
    <3>2. Same(kept.s, acked.s, SessionFields \ ({"post", "postSeq"} \cup {"feeAcked"}))
      BY <2>10, <2>11 DEF Issued, Same
    <3>. QED  BY <2>10, <2>11, <2>12, <3>1, <3>2 DEF Issued, Working
  <2>14. x.body = [feeHash |-> kept.s.feeParams] /\ kept.s.feeParams # None
    BY <1>6, <1>7, <2>4, <2>10 DEF body, fee
  <2>15. LocalInv(r, acked.s, c)
    BY <1>7, <2>5, <2>7, <2>10, <2>11, <2>13, <2>14, FeeAckSent
  <2>16. Ongoing(r, acked, c)
    BY <2>13, <2>15 DEF Ongoing
  <2>. QED  BY <2>12, <2>16, CheckExecReadyKeeps
<1>8. Ongoing(r, v, c)
  <2>. HIDE DEF w, acked
  <2>. QED  BY <1>4, <1>5, <1>7 DEF Keep
<1>. HIDE DEF v
<1>. QED  BY <1>1, <1>4, <1>8, HandlerEnds
LEMMA RcvFeeParamsAckKeeps ==
    ASSUME NEW r \in Roles, SInv, RcvFeeParamsAck(r)
    PROVE  SInv' /\ Tells(r)
<1>. DEFINE m == Head(net[r])
            w == Heard(r, m)
            p == Other(r)
            k == [w EXCEPT !.s.feeAcked = TRUE]
            kept == Note(k, m)
            c == calls[r]
            v == IF r # "alice" \/ w.s.feeParams = None \/ m.body.feeHash # w.s.feeParams
                 THEN EmitAbort(r, w, "PROTOCOL_ERROR")
                 ELSE IF w.s.feeAcked THEN w
                 ELSE CheckExecReady(r, kept)
<1>1. Takes(r, "fee_params_ack") /\ UNCHANGED SessionRest /\ Returns(r, v)
  BY DEF RcvFeeParamsAck
<1>h. Hearing(r)
  BY <1>1, ReturnsHears DEF Takes
<1>2. "fee_params_ack" \in DOMAIN StageOf /\ StageOf["fee_params_ack"] = "EXEC_PREP"
  BY DEF StageOf
<1>3. Took(r, "fee_params_ack", m, w)
  BY <1>1, <1>2, Taken
<1>4. /\ Ongoing(r, w, c) /\ Working(w) /\ w.s.state = "EXEC_PREP" /\ net[r] # <<>>
      /\ m.from = p /\ p \in Roles /\ RecordOf(m).type = "fee_params_ack"
      /\ RecordOf(m).body = m.body /\ RecordOf(m) \in Range(ss[p].post)
      /\ m.type = "fee_params_ack" /\ RecordOf(m).from = p /\ LocalInv(p, ss[p], calls[p])
  BY <1>2, <1>3 DEF Took
<1>5. Ongoing(r, EmitAbort(r, w, "PROTOCOL_ERROR"), c) /\ w.s.feeAcked \in BOOLEAN
  <2>1. w.s.feeAcked \in BOOLEAN
    BY <1>4 DEF Ongoing, LocalInv, CoreInv, PrepInv
  <2>. QED  BY <1>4, <2>1, AbortStep
<1>6. ASSUME r = "alice"
      PROVE  m.body = [feeHash |-> m.body.feeHash]
  <2>1. p = "bob"
    BY <1>6 DEF Other
  <2>2. RecordOf(m) \in From(ss["bob"], "fee_params_ack", "bob")
    BY <1>4, <2>1 DEF From, Refusal
  <2>. QED  BY <1>4, <2>1, <2>2 DEF LocalInv, CoreInv, PrepInv
<1>7. ASSUME r = "alice", w.s.feeParams # None, m.body.feeHash = w.s.feeParams,
             ~w.s.feeAcked
      PROVE  Ongoing(r, CheckExecReady(r, kept), c)
  <2>1. /\ Working(k) /\ k.out = w.out /\ Same(w.s, k.s, SessionFields \ {"feeAcked"})
        /\ k.s.feeAcked = TRUE
    BY <1>4 DEF Working, SessionFields, Same
  <2>2. MayNote(r, w, k, m, {"feeAcked"})
    BY <1>h, <1>2, <1>3, <1>4, <2>1 DEF MayNote, Took, Refusal, Bookkeeping
  <2>3. RecordOf(m).body = [feeHash |-> w.s.feeParams]
    BY <1>4, <1>6, <1>7
  <2>. HIDE DEF w, k
  <2>4. DidNote(r, w, k, kept, m, {"feeAcked"})
    BY <1>4, <2>2, NoteMessage
  <2>5. kept.s.feeAcked = TRUE /\ kept.s.state = "EXEC_PREP"
    BY <1>4, <2>1, <2>4 DEF DidNote, Same, SessionFields
  <2>. HIDE DEF kept
  <2>6. LocalInv(r, kept.s, c)
    BY <1>4, <1>7, <2>3, <2>4, <2>5, FeeAckNoted DEF Ongoing, DidNote
  <2>7. Ongoing(r, kept, c)
    BY <2>4, <2>6 DEF DidNote, Ongoing
  <2>. QED  BY <2>5, <2>7, CheckExecReadyKeeps
<1>8. Ongoing(r, v, c)
  <2>. HIDE DEF w, kept
  <2>. QED  BY <1>4, <1>5, <1>7
<1>. HIDE DEF v
<1>. QED  BY <1>1, <1>4, <1>8, HandlerEnds

\* A party past EXEC_READY has built its templates.
LEMMA TemplatesKnown ==
    ASSUME NEW r \in Roles, NEW s, NEW c, LocalInv(r, s, c), Passed(s, "EXEC_READY"),
           hs[r].sid \in Sids
    PROVE  s.templates \in Digests /\ s.templates # None
<1>1. s.templates = <<hs[r].sid, s.localNonces, s.feeParams>>
  BY DEF LocalInv, CoreInv, PrepInv, TemplatesOf
<1>2. s.localNonces \in NonceReports /\ s.feeParams \in FeeChoices
  BY DEF LocalInv, CoreInv, PrepInv
<1>3. s.templates \in Digests
  BY <1>1, <1>2 DEF Digests
<1>. QED  BY <1>3, SessionAssumption

LEMMA RcvTemplateCommitKeeps ==
    ASSUME NEW r \in Roles, SInv, RcvTemplateCommit(r)
    PROVE  SInv' /\ Tells(r)
<1>. DEFINE m == Head(net[r])
            w == Heard(r, m)
            p == Other(r)
            hash == m.body.commitHash
            k == [w EXCEPT !.s.peerCommitHash = hash]
            kept == Note(k, m)
            body == [commitHash |-> hash]
            sent == Send(r, kept, "tx_template_ack", body)
            c == calls[r]
            v == IF hash # m.body.digests THEN EmitAbort(r, w, "BAD_MESSAGE")
                 ELSE IF m.body.digests # w.s.templates
                 THEN EmitAbort(r, w, "PROTOCOL_ERROR")
                 ELSE Keep(r, w, w.s.peerCommitHash, hash, CheckTemplatesReady(r, sent))
<1>1. Takes(r, "tx_template_commit") /\ UNCHANGED SessionRest /\ Returns(r, v)
  BY DEF RcvTemplateCommit
<1>h. Hearing(r)
  BY <1>1, ReturnsHears DEF Takes
<1>2. /\ "tx_template_commit" \in DOMAIN StageOf
      /\ StageOf["tx_template_commit"] = "EXEC_TEMPLATES_SYNC"
      /\ "tx_template_ack" \in DOMAIN StageOf
      /\ StageOf["tx_template_ack"] = "EXEC_TEMPLATES_SYNC"
  BY DEF StageOf
<1>3. Took(r, "tx_template_commit", m, w)
  BY <1>1, <1>2, Taken
<1>4. /\ Ongoing(r, w, c) /\ Working(w) /\ w.s.state = "EXEC_TEMPLATES_SYNC"
      /\ net[r] # <<>> /\ RecordOf(m).type = "tx_template_commit" /\ RecordOf(m).body = m.body
      /\ RecordOf(m) \in Range(ss[p].post) /\ m.type = "tx_template_commit"
      /\ hs[r].sid = TrueSid
  BY <1>2, <1>3 DEF Took
<1>5. /\ Ongoing(r, EmitAbort(r, w, "PROTOCOL_ERROR"), c)
      /\ Ongoing(r, EmitAbort(r, w, "BAD_MESSAGE"), c)
  BY <1>4, AbortStep
<1>6. w.s.templates \in Digests /\ w.s.templates # None
  <2>1. Passed(w.s, "EXEC_READY") /\ LocalInv(r, w.s, c)
    BY <1>4 DEF Ongoing, LocalInv, CoreInv, StateInv
  <2>. QED  BY <1>4, <2>1, LockedSids, TemplatesKnown
<1>7. ASSUME hash = m.body.digests, hash = w.s.templates, w.s.peerCommitHash = None
      PROVE  Ongoing(r, CheckTemplatesReady(r, sent), c)
  <2>1. /\ Working(k) /\ k.out = w.out /\ Same(w.s, k.s, SessionFields \ {"peerCommitHash"})
        /\ k.s.peerCommitHash = hash
    BY <1>4 DEF Working, SessionFields, Same
  <2>2. MayNote(r, w, k, m, {"peerCommitHash"})
    BY <1>h, <1>2, <1>3, <1>4, <2>1 DEF MayNote, Took, Refusal, Bookkeeping
  <2>3. RecordOf(m).body.digests = hash /\ RecordOf(m).body.commitHash = hash
    BY <1>4, <1>7
  <2>. HIDE DEF w, k, hash
  <2>4. DidNote(r, w, k, kept, m, {"peerCommitHash"})
    BY <1>4, <2>2, NoteMessage
  <2>5. /\ kept.s.peerCommitHash = hash /\ kept.s.state = "EXEC_TEMPLATES_SYNC"
        /\ kept.s.templates = w.s.templates /\ Working(kept)
    BY <1>4, <2>1, <2>4 DEF DidNote, Same, SessionFields
  <2>. HIDE DEF kept
  <2>6. LocalInv(r, kept.s, c) /\ From(w.s, "tx_template_ack", r) = {}
    BY <1>4, <1>6, <1>7, <2>3, <2>4, <2>5, CommitNoted DEF Ongoing, DidNote
  <2>7. Ongoing(r, kept, c)
    BY <2>4, <2>6 DEF DidNote, Ongoing
  <2>8. From(kept.s, "tx_template_ack", r) = {}
    <3>1. Range(kept.s.post) = Range(w.s.post) \cup {RecordOf(m)}
      BY <1>4, <2>4, RangeAppend DEF DidNote, Noted, Ongoing, LocalInv, CoreInv, NumberInv
    <3>. QED  BY <1>4, <2>6, <3>1 DEF From
  <2>9. MaySend(r, kept, kept, "tx_template_ack", body, {})
    BY <1>2, <2>5 DEF MaySend, Same
  <2>10. DidSend(r, kept, kept, sent, "tx_template_ack", body, {})
    BY <2>7, <2>9, SendMessage
  <2>11. PICK x : /\ Issued(r, kept.s, sent.s, x, {})
                  /\ x.type = "tx_template_ack" /\ x.body = body
    BY <2>10 DEF DidSend
  <2>. HIDE DEF sent
  <2>12. sent.s.state = "EXEC_TEMPLATES_SYNC" /\ sent.s.templates = w.s.templates
    BY <2>5, <2>10 DEF DidSend, Same, SessionFields
  <2>13. x.body = [commitHash |-> kept.s.templates] /\ kept.s.peerCommitHash # None
    BY <1>6, <1>7, <2>5, <2>11
  <2>14. LocalInv(r, sent.s, c)
    BY <2>6, <2>8, <2>11, <2>13, TemplateAckSent
  <2>15. Ongoing(r, sent, c)
    BY <2>10, <2>14 DEF Ongoing, DidSend
  <2>. QED  BY <1>6, <2>12, <2>15, CheckTemplatesReadyKeeps
<1>8. Ongoing(r, v, c)
  <2>. HIDE DEF w, sent
  <2>. QED  BY <1>4, <1>5, <1>7 DEF Keep
<1>. HIDE DEF v
<1>. QED  BY <1>1, <1>4, <1>8, HandlerEnds

LEMMA RcvTemplateAckKeeps ==
    ASSUME NEW r \in Roles, SInv, RcvTemplateAck(r)
    PROVE  SInv' /\ Tells(r)
<1>. DEFINE m == Head(net[r])
            w == Heard(r, m)
            k == [w EXCEPT !.s.localCommitAcked = TRUE]
            kept == Note(k, m)
            c == calls[r]
            v == IF m.body.commitHash # w.s.templates THEN EmitAbort(r, w, "PROTOCOL_ERROR")
                 ELSE IF w.s.localCommitAcked THEN w
                 ELSE CheckTemplatesReady(r, kept)
<1>1. Takes(r, "tx_template_ack") /\ UNCHANGED SessionRest /\ Returns(r, v)
  BY DEF RcvTemplateAck
<1>h. Hearing(r)
  BY <1>1, ReturnsHears DEF Takes
<1>2. /\ "tx_template_ack" \in DOMAIN StageOf
      /\ StageOf["tx_template_ack"] = "EXEC_TEMPLATES_SYNC"
  BY DEF StageOf
<1>3. Took(r, "tx_template_ack", m, w)
  BY <1>1, <1>2, Taken
<1>4. /\ Ongoing(r, w, c) /\ Working(w) /\ w.s.state = "EXEC_TEMPLATES_SYNC"
      /\ net[r] # <<>> /\ RecordOf(m).type = "tx_template_ack" /\ RecordOf(m).body = m.body
      /\ RecordOf(m) \in Range(ss[Other(r)].post) /\ m.type = "tx_template_ack"
      /\ hs[r].sid = TrueSid
  BY <1>2, <1>3 DEF Took
<1>5. Ongoing(r, EmitAbort(r, w, "PROTOCOL_ERROR"), c) /\ w.s.localCommitAcked \in BOOLEAN
  <2>1. w.s.localCommitAcked \in BOOLEAN
    BY <1>4 DEF Ongoing, LocalInv, CoreInv, TemplateInv
  <2>. QED  BY <1>4, <2>1, AbortStep
<1>6. w.s.templates \in Digests
  <2>1. Passed(w.s, "EXEC_READY") /\ LocalInv(r, w.s, c)
    BY <1>4 DEF Ongoing, LocalInv, CoreInv, StateInv
  <2>. QED  BY <1>4, <2>1, LockedSids, TemplatesKnown
<1>7. ASSUME m.body.commitHash = w.s.templates, ~w.s.localCommitAcked
      PROVE  Ongoing(r, CheckTemplatesReady(r, kept), c)
  <2>1. /\ Working(k) /\ k.out = w.out /\ Same(w.s, k.s, SessionFields \ {"localCommitAcked"})
        /\ k.s.localCommitAcked = TRUE
    BY <1>4 DEF Working, SessionFields, Same
  <2>2. MayNote(r, w, k, m, {"localCommitAcked"})
    BY <1>h, <1>2, <1>3, <1>4, <2>1 DEF MayNote, Took, Refusal, Bookkeeping
  <2>3. RecordOf(m).body.commitHash = w.s.templates
    BY <1>4, <1>7
  <2>. HIDE DEF w, k
  <2>4. DidNote(r, w, k, kept, m, {"localCommitAcked"})
    BY <1>4, <2>2, NoteMessage
  <2>5. /\ kept.s.localCommitAcked = TRUE /\ kept.s.state = "EXEC_TEMPLATES_SYNC"
        /\ kept.s.templates = w.s.templates
    BY <1>4, <2>1, <2>4 DEF DidNote, Same, SessionFields
  <2>. HIDE DEF kept
  <2>6. LocalInv(r, kept.s, c)
    BY <1>4, <1>7, <2>3, <2>4, <2>5, TemplateAckNoted DEF Ongoing, DidNote
  <2>7. Ongoing(r, kept, c)
    BY <2>4, <2>6 DEF DidNote, Ongoing
  <2>. QED  BY <1>6, <2>5, <2>7, CheckTemplatesReadyKeeps
<1>8. Ongoing(r, v, c)
  <2>. HIDE DEF w, kept
  <2>. QED  BY <1>4, <1>5, <1>7
<1>. HIDE DEF v
<1>. QED  BY <1>1, <1>4, <1>8, HandlerEnds
\* What a message about a leg says is what its sender recorded.
LegSaid(p, x) ==
    /\ x.body.which \in Legs /\ x.body.T \in Legs \X Digests /\ x.body.T # None
    /\ p = "bob" <=> x.type = "adaptor_resp"
    /\ IF x.type = "adaptor_resp"
       THEN /\ x.body = [which |-> x.body.which, digests |-> x.body.digests,
                         T |-> x.body.T, sig |-> x.body.sig]
            /\ x.body.sig.whole => x.body.sig \in AdaptorSigs /\ x.body.sig # None
       ELSE x.body = [which |-> x.body.which, digests |-> x.body.digests,
                      T |-> x.body.T]

LEMMA LegBody ==
    ASSUME NEW p \in Roles, NEW s, NEW c, NEW x, LocalInv(p, s, c), x \in Range(s.post),
           x.from = p, x.type \in AdaptorTypes
    PROVE  LegSaid(p, x)
<1>. DEFINE l == x.body.which
<1>1. AdaptorInv(p, s) /\ (x.type \in AdaptorTypes => ~Refusal(x))
  BY DEF LocalInv, CoreInv, AdaptorTypes, Refusal
<1>2. x.type \in AdaptorTypes => l \in Legs /\ (p = "bob" <=> x.type = "adaptor_resp")
  BY <1>1 DEF AdaptorInv, AdaptorTypes
<1>3. x.type \in AdaptorTypes =>
          LegInv(p, s, l) /\ x \in FromLeg(s, x.type, p, l)
  BY <1>1, <1>2 DEF AdaptorInv, FromLeg, From
<1>4. ASSUME x.type \in {"adaptor_start", "adaptor_ack"}
      PROVE  x.body = [which |-> l, digests |-> s.templates, T |-> s.legs[l].T]
             /\ s.legs[l].T # None
  <2>1. p = "alice" /\ LegInv(p, s, l) /\ x \in FromLeg(s, x.type, "alice", l)
    BY <1>2, <1>3, <1>4 DEF AdaptorTypes, Roles
  <2>. QED  BY <1>4, <2>1 DEF LegInv
<1>5. ASSUME x.type = "adaptor_resp"
      PROVE  /\ x.body = [which |-> l, digests |-> s.templates, T |-> s.legs[l].T,
                          sig |-> x.body.sig]
             /\ s.legs[l].T # None /\ s.legs[l].adaptorSig # None
             /\ Signed("bob", s, l, x.body.sig)
  <2>1. p = "bob" /\ LegInv(p, s, l) /\ x \in FromLeg(s, "adaptor_resp", "bob", l)
    BY <1>2, <1>3, <1>5 DEF AdaptorTypes
  <2>. QED  BY <2>1 DEF LegInv
<1>. HIDE DEF l
<1>6. x.type \in {"adaptor_start", "adaptor_ack"} =>
          x.body.digests = s.templates /\ x.body.T = s.legs[l].T
  BY <1>4
<1>7. x.type = "adaptor_resp" => x.body.digests = s.templates /\ x.body.T = s.legs[l].T
  BY <1>5
<1>8. /\ x.type = "adaptor_resp" /\ x.body.sig.whole =>
             x.body.sig \in AdaptorSigs /\ x.body.sig # None
      /\ x.type \in AdaptorTypes /\ s.legs[l].T # None => s.legs[l].T \in Legs \X Digests
  BY <1>3, <1>5 DEF Signed, LegInv
<1>. QED  BY <1>2, <1>4, <1>5, <1>6, <1>7, <1>8 DEF l, AdaptorTypes, LegSaid

LEMMA RcvAdaptorStartKeeps ==
    ASSUME NEW r \in Roles, SInv, RcvAdaptorStart(r)
    PROVE  SInv' /\ Tells(r)
<1>. DEFINE m == Head(net[r])
            w == Heard(r, m)
            p == Other(r)
            l == m.body.which
            leg == w.s.legs[l]
            x == RecordOf(m)
            sig == AdaptorSig(l, w.s.postSeq)
            k == [w EXCEPT !.s.legs[l].T = m.body.T, !.s.legs[l].adaptorSig = sig]
            kept == Note(k, m)
            body == RespBody(m.body, sig)
            sent == Send(r, kept, "adaptor_resp", body)
            c == calls[r]
            v == IF \/ r # "bob" \/ m.body.digests # w.s.templates
                    \/ leg.T # None /\ leg.T # m.body.T
                 THEN EmitAbort(r, w, "PROTOCOL_ERROR")
                 ELSE IF Answered(leg) THEN w
                 ELSE sent
<1>1. Takes(r, "adaptor_start") /\ UNCHANGED SessionRest /\ Returns(r, v)
  BY DEF RcvAdaptorStart
<1>h. Hearing(r)
  BY <1>1, ReturnsHears DEF Takes
<1>2. /\ "adaptor_start" \in DOMAIN StageOf
      /\ StageOf["adaptor_start"] = "ADAPTOR_NEGOTIATING"
      /\ "adaptor_resp" \in DOMAIN StageOf
      /\ StageOf["adaptor_resp"] = "ADAPTOR_NEGOTIATING"
  BY DEF StageOf
<1>3. Took(r, "adaptor_start", m, w)
  BY <1>1, <1>2, Taken
<1>4. /\ Ongoing(r, w, c) /\ Working(w) /\ w.s.state = "ADAPTOR_NEGOTIATING"
      /\ net[r] # <<>> /\ x.type = "adaptor_start" /\ x.body = m.body
      /\ x \in Range(ss[p].post) /\ m.type = "adaptor_start"
      /\ x.from = p /\ p \in Roles /\ LocalInv(p, ss[p], calls[p])
  BY <1>2, <1>3 DEF Took
<1>. HIDE DEF x
<1>5. Ongoing(r, EmitAbort(r, w, "PROTOCOL_ERROR"), c)
  BY <1>4, AbortStep
<1>6. /\ l \in Legs /\ m.body.T \in Legs \X Digests /\ m.body.T # None
      /\ m.body = [which |-> l, digests |-> m.body.digests, T |-> m.body.T]
  <2>1. x.type \in AdaptorTypes
    BY <1>4 DEF AdaptorTypes
  <2>2. LegSaid(p, x)
    BY <1>4, <2>1, LegBody
  <2>. QED  BY <1>4, <2>2 DEF LegSaid
<1>7. AdaptorInv(r, w.s) /\ LegInv(r, w.s, l) /\ w.s.postSeq \in Nat
  BY <1>4, <1>6 DEF Ongoing, LocalInv, CoreInv, AdaptorInv, NumberInv
<1>8. /\ sig \in AdaptorSigs /\ sig # None
      /\ sig = [leg |-> l, draw |-> w.s.postSeq, whole |-> TRUE]
  <2>1. sig = [leg |-> l, draw |-> w.s.postSeq, whole |-> TRUE]
    BY DEF AdaptorSig
  <2>. HIDE DEF sig, l, w
  <2>2. sig \in AdaptorSigs
    BY <1>6, <1>7, <2>1 DEF AdaptorSigs
  <2>. QED  BY <2>1, <2>2, SessionAssumption
<1>. HIDE DEF sig
<1>9. ASSUME r = "bob", m.body.digests = w.s.templates,
             leg.T = None \/ leg.T = m.body.T, ~Answered(leg)
      PROVE  Ongoing(r, sent, c)
  <2>1. leg.adaptorSig = None
    BY <1>7, <1>9 DEF LegInv, Answered
  <2>2. /\ Working(k) /\ k.out = w.out /\ Same(w.s, k.s, SessionFields \ {"legs"})
        /\ k.s.legs = [w.s.legs EXCEPT ![l].T = m.body.T, ![l].adaptorSig = sig]
    BY <1>4 DEF Working, SessionFields, Same
  <2>3. MayNote(r, w, k, m, {"legs"})
    BY <1>h, <1>2, <1>3, <1>4, <2>2 DEF MayNote, Took, Refusal, Bookkeeping, x
  <2>4. /\ x.body.T = m.body.T /\ leg.T \in {None, x.body.T}
        /\ x.body = [which |-> l, digests |-> w.s.templates, T |-> x.body.T]
    BY <1>4, <1>6, <1>9
  <2>. HIDE DEF w, k, leg
  <2>5. DidNote(r, w, k, kept, m, {"legs"})
    BY <1>4, <2>3, NoteMessage
  <2>6. /\ kept.s.legs = [w.s.legs EXCEPT ![l].T = m.body.T, ![l].adaptorSig = sig]
        /\ kept.s.state = "ADAPTOR_NEGOTIATING" /\ kept.s.templates = w.s.templates
        /\ Working(kept)
    BY <1>4, <2>2, <2>5 DEF DidNote, Same, SessionFields
  <2>. HIDE DEF kept, l
  <2>7. LocalInv(r, kept.s, c) /\ FromLeg(w.s, "adaptor_resp", "bob", l) = {}
    <3>1. LocalInv(r, w.s, c) /\ Noted(r, w.s, kept.s, x, {"legs"})
      BY <1>4, <2>5 DEF Ongoing, DidNote, x
    <3>2. /\ w.s.legs[l].adaptorSig = None /\ w.s.legs[l].T \in {None, x.body.T}
          /\ kept.s.legs = [w.s.legs EXCEPT ![l].T = x.body.T, ![l].adaptorSig = sig]
          /\ x.body.T \in Legs \X Digests /\ x.body.T # None
      BY <1>6, <2>1, <2>4, <2>6 DEF leg
    <3>3. sig \in AdaptorSigs /\ sig # None /\ l \in Legs /\ x.type = "adaptor_start"
      BY <1>4, <1>6, <1>8 DEF l
    <3>4. Opened(r, w.s, kept.s, x, l, sig)
      BY <1>9, <2>4, <3>2, <3>3 DEF Opened
    <3>. QED  BY <3>1, <3>3, <3>4, StartNoted
  <2>8. Ongoing(r, kept, c)
    BY <2>5, <2>7 DEF DidNote, Ongoing
  <2>9. FromLeg(kept.s, "adaptor_resp", "bob", l) = {}
    <3>1. Range(kept.s.post) = Range(w.s.post) \cup {x}
      BY <1>4, <2>5, RangeAppend DEF x, DidNote, Noted, Ongoing, LocalInv, CoreInv, NumberInv
    <3>. QED  BY <1>4, <2>7, <3>1 DEF FromLeg, From
  <2>10. MaySend(r, kept, kept, "adaptor_resp", body, {})
    BY <1>2, <2>6 DEF MaySend, Same
  <2>11. DidSend(r, kept, kept, sent, "adaptor_resp", body, {})
    BY <2>8, <2>10, SendMessage
  <2>12. PICK y : /\ Issued(r, kept.s, sent.s, y, {})
                  /\ y.type = "adaptor_resp" /\ y.body = body
    BY <2>11 DEF DidSend
  <2>. HIDE DEF sent
  <2>13. /\ kept.s.legs[l].T = m.body.T /\ kept.s.legs[l].adaptorSig = sig
    <3>1. l \in DOMAIN w.s.legs /\ DOMAIN w.s.legs[l] = {"T", "adaptorSig", "acked"}
      BY <1>6, <1>7 DEF AdaptorInv, LegInv
    <3>. QED  BY <2>6, <3>1
  <2>14. /\ y.body = [which |-> l, digests |-> kept.s.templates, T |-> kept.s.legs[l].T,
                      sig |-> y.body.sig]
         /\ mutator = "tamperAdaptor" => ~y.body.sig.whole
         /\ mutator # "tamperAdaptor" => y.body.sig = sig
    <3>1. /\ body = [which |-> l, digests |-> m.body.digests, T |-> m.body.T,
                     sig |-> body.sig]
          /\ body.sig = IF mutator = "tamperAdaptor" THEN [sig EXCEPT !.whole = FALSE] ELSE sig
      BY DEF RespBody, l
    <3>. HIDE DEF body
    <3>2. mutator = "tamperAdaptor" => ~body.sig.whole
      BY <1>8, <3>1
    <3>3. mutator # "tamperAdaptor" => body.sig = sig
      BY <3>1
    <3>. QED  BY <1>9, <2>6, <2>12, <2>13, <3>1, <3>2, <3>3
  <2>15. Signed(r, kept.s, l, y.body.sig)
    BY <1>8, <1>9, <2>13, <2>14 DEF Signed
  <2>16. LocalInv(r, sent.s, c)
    BY <1>6, <1>8, <1>9, <2>7, <2>9, <2>12, <2>13, <2>14, <2>15, RespSent
  <2>. QED  BY <2>11, <2>16 DEF Ongoing, DidSend
<1>10. Ongoing(r, v, c)
  <2>. HIDE DEF w, sent, leg
  <2>. QED  BY <1>4, <1>5, <1>9
<1>. HIDE DEF v
<1>. QED  BY <1>1, <1>4, <1>10, HandlerEnds
LEMMA RcvAdaptorAckKeeps ==
    ASSUME NEW r \in Roles, SInv, RcvAdaptorAck(r)
    PROVE  SInv' /\ Tells(r)
<1>. DEFINE m == Head(net[r])
            w == Heard(r, m)
            p == Other(r)
            l == m.body.which
            leg == w.s.legs[l]
            x == RecordOf(m)
            k == [w EXCEPT !.s.legs[l].acked = TRUE]
            acked == Note(k, m)
            c == calls[r]
            v == IF r # "bob" \/ m.body.digests # w.s.templates \/ m.body.T # leg.T
                 THEN EmitAbort(r, w, "PROTOCOL_ERROR")
                 ELSE IF leg.acked THEN w
                 ELSE IF BothLegs(r, acked) THEN Planned(acked)
                 ELSE acked
<1>1. Takes(r, "adaptor_ack") /\ UNCHANGED SessionRest /\ Returns(r, v)
  BY DEF RcvAdaptorAck
<1>h. Hearing(r)
  BY <1>1, ReturnsHears DEF Takes
<1>2. /\ "adaptor_ack" \in DOMAIN StageOf
      /\ StageOf["adaptor_ack"] = "ADAPTOR_NEGOTIATING"
  BY DEF StageOf
<1>3. Took(r, "adaptor_ack", m, w)
  BY <1>1, <1>2, Taken
<1>4. /\ Ongoing(r, w, c) /\ Working(w) /\ w.s.state = "ADAPTOR_NEGOTIATING"
      /\ net[r] # <<>> /\ x.type = "adaptor_ack" /\ x.body = m.body
      /\ x \in Range(ss[p].post) /\ m.type = "adaptor_ack"
      /\ x.from = p /\ p \in Roles /\ LocalInv(p, ss[p], calls[p])
  BY <1>2, <1>3 DEF Took
<1>. HIDE DEF x
<1>5. Ongoing(r, EmitAbort(r, w, "PROTOCOL_ERROR"), c)
  BY <1>4, AbortStep
<1>6. /\ l \in Legs /\ m.body.T # None
      /\ m.body = [which |-> l, digests |-> m.body.digests, T |-> m.body.T]
  <2>1. x.type \in AdaptorTypes
    BY <1>4 DEF AdaptorTypes
  <2>2. LegSaid(p, x)
    BY <1>4, <2>1, LegBody
  <2>. QED  BY <1>4, <2>2 DEF LegSaid
<1>7. AdaptorInv(r, w.s) /\ LegInv(r, w.s, l) /\ leg.acked \in BOOLEAN
  BY <1>4, <1>6 DEF Ongoing, LocalInv, CoreInv, AdaptorInv, LegInv
<1>8. ASSUME r = "bob", m.body.digests = w.s.templates, leg.T = m.body.T, ~leg.acked
      PROVE  /\ Ongoing(r, acked, c)
             /\ BothLegs(r, acked) => Ongoing(r, Planned(acked), c)
  <2>1. /\ Working(k) /\ k.out = w.out /\ Same(w.s, k.s, SessionFields \ {"legs"})
        /\ k.s.legs = [w.s.legs EXCEPT ![l].acked = TRUE]
    BY <1>4 DEF Working, SessionFields, Same
  <2>2. MayNote(r, w, k, m, {"legs"})
    BY <1>h, <1>2, <1>3, <1>4, <2>1 DEF MayNote, Took, Refusal, Bookkeeping, x
  <2>3. x.body = [which |-> l, digests |-> w.s.templates, T |-> leg.T] /\ leg.T # None
    BY <1>4, <1>6, <1>8
  <2>. HIDE DEF w, k, leg
  <2>4. DidNote(r, w, k, acked, m, {"legs"})
    BY <1>4, <2>2, NoteMessage
  <2>5. /\ acked.s.legs = [w.s.legs EXCEPT ![l].acked = TRUE]
        /\ acked.s.state = "ADAPTOR_NEGOTIATING"
    BY <1>4, <2>1, <2>4 DEF DidNote, Same, SessionFields
  <2>. HIDE DEF acked, l
  <2>6. Closes(r, w.s, acked.s, x, l)
    BY <1>4, <1>8, <2>3, <2>5 DEF Closes, leg
  <2>7. LocalInv(r, w.s, c) /\ Noted(r, w.s, acked.s, x, {"legs"}) /\ l \in Legs
    BY <1>4, <1>6, <2>4 DEF Ongoing, DidNote, x, l
  <2>8. LocalInv(r, acked.s, c)
    BY <2>6, <2>7, AdaptorAckNoted
  <2>9. Ongoing(r, acked, c)
    BY <2>4, <2>8 DEF DidNote, Ongoing
  <2>10. ASSUME BothLegs(r, acked)
         PROVE  Ongoing(r, Planned(acked), c)
    <3>1. /\ Ready(r, acked.s, "EXECUTION_PLANNED")
          /\ Reaches("EXECUTION_PLANNED", acked.s.state, "EXECUTION_PLANNED")
      BY <2>5, <2>10 DEF Ready, Met, Reaches, BothLegs
    <3>. QED  BY <2>9, <3>1, PassStep DEF Ongoing, LocalInv, Planned
  <2>. QED  BY <2>9, <2>10
<1>9. Ongoing(r, v, c)
  <2>. HIDE DEF w, acked, leg
  <2>. QED  BY <1>4, <1>5, <1>7, <1>8
<1>. HIDE DEF v
<1>. QED  BY <1>1, <1>4, <1>9, HandlerEnds

LEMMA RcvTxBBroadcastKeeps ==
    ASSUME NEW r \in Roles, SInv, RcvTxBBroadcast(r)
    PROVE  SInv' /\ Tells(r)
<1>. DEFINE m == Head(net[r])
            w == Heard(r, m)
            p == Other(r)
            hash == m.body.txHash
            k == [w EXCEPT !.s.peerTxBHash = hash]
            kept == Note(k, m)
            c == calls[r]
            v == IF r # "bob" THEN EmitAbort(r, w, "PROTOCOL_ERROR")
                 ELSE Keep(r, w, w.s.peerTxBHash, hash, kept)
<1>1. Takes(r, "txB_broadcast") /\ UNCHANGED SessionRest /\ Returns(r, v)
  BY DEF RcvTxBBroadcast
<1>h. Hearing(r)
  BY <1>1, ReturnsHears DEF Takes
<1>2. /\ "txB_broadcast" \in DOMAIN StageOf
      /\ StageOf["txB_broadcast"] = "EXECUTION_PLANNED"
  BY DEF StageOf
<1>3. Took(r, "txB_broadcast", m, w)
  BY <1>1, <1>2, Taken
<1>4. /\ Ongoing(r, w, c) /\ Working(w) /\ w.s.state = "EXECUTION_PLANNED"
      /\ net[r] # <<>> /\ RecordOf(m).type = "txB_broadcast" /\ RecordOf(m).body = m.body
      /\ RecordOf(m) \in Range(ss[p].post) /\ m.type = "txB_broadcast"
      /\ LocalInv(p, ss[p], calls[p])
  BY <1>2, <1>3 DEF Took
<1>5. Ongoing(r, EmitAbort(r, w, "PROTOCOL_ERROR"), c)
  BY <1>4, AbortStep
<1>6. m.body = [txHash |-> hash] /\ hash \in TxHashes
  BY <1>4 DEF LocalInv, CoreInv, BroadcastInv
<1>7. ASSUME r = "bob", w.s.peerTxBHash = None
      PROVE  Ongoing(r, kept, c)
  <2>1. /\ Working(k) /\ k.out = w.out /\ Same(w.s, k.s, SessionFields \ {"peerTxBHash"})
        /\ k.s.peerTxBHash = hash
    BY <1>4 DEF Working, SessionFields, Same
  <2>2. MayNote(r, w, k, m, {"peerTxBHash"})
    BY <1>h, <1>2, <1>3, <1>4, <2>1 DEF MayNote, Took, Refusal, Bookkeeping
  <2>. HIDE DEF w, k
  <2>3. DidNote(r, w, k, kept, m, {"peerTxBHash"})
    BY <1>4, <2>2, NoteMessage
  <2>4. kept.s.peerTxBHash = hash
    BY <2>1, <2>3 DEF DidNote, Same, SessionFields
  <2>. HIDE DEF kept
  <2>5. LocalInv(r, kept.s, c)
    BY <1>4, <1>6, <1>7, <2>3, <2>4, TxBNoted DEF Ongoing, DidNote
  <2>. QED  BY <2>3, <2>5 DEF DidNote, Ongoing
<1>8. Ongoing(r, v, c)
  <2>. HIDE DEF w, kept
  <2>. QED  BY <1>4, <1>5, <1>7 DEF Keep
<1>. HIDE DEF v
<1>. QED  BY <1>1, <1>4, <1>8, HandlerEnds

LEMMA RcvTxABroadcastKeeps ==
    ASSUME NEW r \in Roles, SInv, RcvTxABroadcast(r)
    PROVE  SInv' /\ Tells(r)
<1>. DEFINE m == Head(net[r])
            w == Heard(r, m)
            p == Other(r)
            hash == m.body.txHash
            k == [w EXCEPT !.s.peerTxAHash = hash]
            kept == Note(k, m)
            c == calls[r]
            v == IF r # "alice" THEN EmitAbort(r, w, "PROTOCOL_ERROR")
                 ELSE Keep(r, w, w.s.peerTxAHash, hash, kept)
<1>1. Takes(r, "txA_broadcast") /\ UNCHANGED SessionRest /\ Returns(r, v)
  BY DEF RcvTxABroadcast
<1>h. Hearing(r)
  BY <1>1, ReturnsHears DEF Takes
<1>2. /\ "txA_broadcast" \in DOMAIN StageOf
      /\ StageOf["txA_broadcast"] = "EXECUTION_PLANNED"
  BY DEF StageOf
<1>3. Took(r, "txA_broadcast", m, w)
  BY <1>1, <1>2, Taken
<1>4. /\ Ongoing(r, w, c) /\ Working(w) /\ w.s.state = "EXECUTION_PLANNED"
      /\ net[r] # <<>> /\ RecordOf(m).type = "txA_broadcast" /\ RecordOf(m).body = m.body
      /\ RecordOf(m) \in Range(ss[p].post) /\ m.type = "txA_broadcast"
      /\ LocalInv(p, ss[p], calls[p])
  BY <1>2, <1>3 DEF Took
<1>5. Ongoing(r, EmitAbort(r, w, "PROTOCOL_ERROR"), c)
  BY <1>4, AbortStep
<1>6. m.body = [txHash |-> hash] /\ hash \in TxHashes
  BY <1>4 DEF LocalInv, CoreInv, BroadcastInv
<1>7. ASSUME r = "alice", w.s.peerTxAHash = None
      PROVE  Ongoing(r, kept, c)
  <2>1. /\ Working(k) /\ k.out = w.out /\ Same(w.s, k.s, SessionFields \ {"peerTxAHash"})
        /\ k.s.peerTxAHash = hash
    BY <1>4 DEF Working, SessionFields, Same
  <2>2. MayNote(r, w, k, m, {"peerTxAHash"})
    BY <1>h, <1>2, <1>3, <1>4, <2>1 DEF MayNote, Took, Refusal, Bookkeeping
  <2>. HIDE DEF w, k
  <2>3. DidNote(r, w, k, kept, m, {"peerTxAHash"})
    BY <1>4, <2>2, NoteMessage
  <2>4. kept.s.peerTxAHash = hash
    BY <2>1, <2>3 DEF DidNote, Same, SessionFields
  <2>. HIDE DEF kept
  <2>5. LocalInv(r, kept.s, c)
    BY <1>4, <1>6, <1>7, <2>3, <2>4, TxANoted DEF Ongoing, DidNote
  <2>. QED  BY <2>3, <2>5 DEF DidNote, Ongoing
<1>8. Ongoing(r, v, c)
  <2>. HIDE DEF w, kept
  <2>. QED  BY <1>4, <1>5, <1>7 DEF Keep
<1>. HIDE DEF v
<1>. QED  BY <1>1, <1>4, <1>8, HandlerEnds
LEMMA RcvAdaptorRespKeeps ==
    ASSUME NEW r \in Roles, SInv, RcvAdaptorResp(r)
    PROVE  SInv' /\ Tells(r)
<1>. DEFINE m == Head(net[r])
            w == Heard(r, m)
            p == Other(r)
            l == m.body.which
            leg == w.s.legs[l]
            x == RecordOf(m)
            k == [w EXCEPT !.s.legs[l].T = m.body.T, !.s.legs[l].adaptorSig = m.body.sig]
            kept == Note(k, m)
            body == [which |-> l, digests |-> m.body.digests, T |-> m.body.T]
            sent == Send(r, kept, "adaptor_ack", body)
            acked == [sent EXCEPT !.s.legs[l].acked = TRUE]
            c == calls[r]
            v == IF \/ r # "alice" \/ m.body.digests # w.s.templates
                    \/ leg.T # None /\ leg.T # m.body.T
                    \/ ~m.body.sig.whole
                 THEN EmitAbort(r, w, "PROTOCOL_ERROR")
                 ELSE IF leg.adaptorSig # None THEN w
                 ELSE IF BothLegs(r, acked) THEN Planned(acked)
                 ELSE acked
<1>1. Takes(r, "adaptor_resp") /\ UNCHANGED SessionRest /\ Returns(r, v)
  BY DEF RcvAdaptorResp
<1>h. Hearing(r)
  BY <1>1, ReturnsHears DEF Takes
<1>2. /\ "adaptor_resp" \in DOMAIN StageOf /\ "adaptor_ack" \in DOMAIN StageOf
      /\ StageOf["adaptor_resp"] = "ADAPTOR_NEGOTIATING"
      /\ StageOf["adaptor_ack"] = "ADAPTOR_NEGOTIATING"
  BY DEF StageOf
<1>3. Took(r, "adaptor_resp", m, w)
  BY <1>1, <1>2, Taken
<1>4. /\ Ongoing(r, w, c) /\ Working(w) /\ w.s.state = "ADAPTOR_NEGOTIATING"
      /\ net[r] # <<>> /\ x.type = "adaptor_resp" /\ x.body = m.body
      /\ x \in Range(ss[p].post) /\ m.type = "adaptor_resp" /\ m.from = p
      /\ x.from = p /\ p \in Roles /\ LocalInv(p, ss[p], calls[p])
      /\ x.seq = m.seq /\ m.seq \in Nat /\ m.seq <= w.s.lastPostSeq
  BY <1>2, <1>3 DEF Took, RecordOf
<1>. HIDE DEF x
<1>5. Ongoing(r, EmitAbort(r, w, "PROTOCOL_ERROR"), c)
  BY <1>4, AbortStep
<1>6. /\ l \in Legs /\ m.body.T \in Legs \X Digests /\ m.body.T # None
      /\ m.body.sig.whole => m.body.sig \in AdaptorSigs /\ m.body.sig # None
      /\ m.body = [which |-> l, digests |-> m.body.digests, T |-> m.body.T,
                   sig |-> m.body.sig]
  <2>1. x.type \in AdaptorTypes
    BY <1>4 DEF AdaptorTypes
  <2>2. LegSaid(p, x)
    BY <1>4, <2>1, LegBody
  <2>. QED  BY <1>4, <2>2 DEF LegSaid
<1>7. /\ LocalInv(r, w.s, c) /\ Told(r, w) /\ LegInv(r, w.s, l) /\ DOMAIN w.s.legs = Legs
      /\ NumberInv(r, w.s)
  BY <1>4, <1>6 DEF Ongoing, LocalInv, CoreInv, AdaptorInv
<1>8. ASSUME r = "alice", m.body.digests = w.s.templates, m.body.sig.whole,
             leg.T = None \/ leg.T = m.body.T, leg.adaptorSig = None
      PROVE  Ongoing(r, IF BothLegs(r, acked) THEN Planned(acked) ELSE acked, c)
  <2>1. p = "bob"
    BY <1>8 DEF Other
  <2>2. /\ Working(k) /\ k.out = w.out /\ Same(w.s, k.s, SessionFields \ {"legs"})
        /\ k.s.legs = [w.s.legs EXCEPT ![l].T = m.body.T, ![l].adaptorSig = m.body.sig]
    BY <1>4 DEF Working, SessionFields, Same
  <2>3. MayNote(r, w, k, m, {"legs"})
    BY <1>h, <1>2, <1>3, <1>4, <2>2 DEF MayNote, Took, Refusal, Bookkeeping, x
  <2>4. x \notin Range(w.s.post)
    <3>1. x.body.which = l /\ ~Refusal(x)
      BY <1>4 DEF Refusal
    <3>. HIDE DEF w, l
    <3>2. x \in Range(w.s.post) => x \in FromLeg(w.s, "adaptor_resp", "bob", l)
      BY <1>4, <2>1, <3>1 DEF FromLeg, From
    <3>. QED  BY <1>7, <1>8, <3>2 DEF LegInv
  <2>. HIDE DEF w, k
  <2>5. DidNote(r, w, k, kept, m, {"legs"})
    BY <1>4, <2>3, NoteMessage
  <2>. HIDE DEF kept
  <2>6. /\ Told(r, kept) /\ Working(kept) /\ kept.s.post = Append(w.s.post, x)
        /\ kept.s.postSeq = w.s.postSeq /\ kept.s.legs = k.s.legs
        /\ Same(w.s, kept.s, SessionFields \ {"post", "legs"})
    BY <2>2, <2>5 DEF DidNote, Noted, Same, SessionFields, x
  <2>7. NumberInv(r, kept.s) /\ Locked(r)
    <3>1. Noted(r, w.s, kept.s, x, {"legs"}) /\ {"legs"} \cap Bookkeeping = {}
      BY <2>5 DEF DidNote, x, Bookkeeping
    <3>2. NumberInv(r, kept.s)
      BY <1>7, <2>4, <3>1, NotedCarried DEF Carried
    <3>. QED  BY <1>4, <1>7, <3>2 DEF LocalInv, CoreInv, StateInv
  <2>. DEFINE n == NextMessage(r, kept, "adaptor_ack", body)
              y == RecordOf(n)
  <2>8. Appended(r, kept, sent, "adaptor_ack", body)
    BY <2>6, SendEffect
  <2>9. /\ y.type = "adaptor_ack" /\ y.from = "alice" /\ y.seq = w.s.postSeq
        /\ y.body = body
    BY <1>8, <2>6 DEF NextMessage, Message, RecordOf
  <2>. HIDE DEF sent
  <2>10. /\ Working(sent) /\ sent.out = Append(kept.out, n)
         /\ sent.s.post = Append(kept.s.post, y) /\ sent.s.postSeq = kept.s.postSeq + 1
         /\ Same(kept.s, sent.s, SessionFields \ {"post", "postSeq"})
    BY <2>8 DEF Appended
  <2>. HIDE DEF y, body
  <2>11. Told(r, sent)
    <3>1. sent.s.post = Append(kept.s.post, RecordOf(n))
      BY <2>10 DEF y
    <3>. HIDE DEF n
    <3>2. n = NextMessage(r, kept, "adaptor_ack", body)
      BY DEF n
    <3>3. Onward(kept, sent)
      BY <2>10 DEF Onward, Same, SessionFields
    <3>4. ~Refusal(RecordOf(n))
      BY <2>9 DEF Refusal, y
    <3>. QED  BY <1>2, <2>6, <2>7, <2>10, <3>1, <3>2, <3>3, <3>4, SendStep
  <2>12. /\ Working(acked) /\ acked.out = sent.out
         /\ acked.s.legs = [sent.s.legs EXCEPT ![l].acked = TRUE]
         /\ Same(sent.s, acked.s, SessionFields \ {"legs"})
    BY <2>10 DEF Working, SessionFields, Same
  <2>. HIDE DEF acked
  <2>13. Told(r, acked)
    <3>1. /\ acked.s.post = sent.s.post /\ acked.s.postSeq = sent.s.postSeq
          /\ Onward(sent, acked)
      BY <2>12 DEF Onward, Same, SessionFields
    <3>. QED  BY <2>11, <2>12, <3>1, SameStep
  <2>14. /\ acked.s.post = Append(Append(w.s.post, x), y)
         /\ acked.s.postSeq = w.s.postSeq + 1
         /\ acked.s.legs = [k.s.legs EXCEPT ![l].acked = TRUE]
         /\ Same(w.s, acked.s, SessionFields \ {"post", "postSeq", "legs"})
         /\ acked.s.state = "ADAPTOR_NEGOTIATING"
    <3>1. Same(w.s, acked.s, SessionFields \ {"post", "postSeq", "legs"})
      BY <2>6, <2>10, <2>12 DEF Same
    <3>2. /\ acked.s.post = sent.s.post /\ acked.s.postSeq = sent.s.postSeq
          /\ sent.s.legs = kept.s.legs
      BY <2>10, <2>12 DEF Same, SessionFields
    <3>3. acked.s.state = w.s.state
      BY <3>1 DEF Same, SessionFields
    <3>. QED  BY <1>4, <2>6, <2>10, <2>12, <3>1, <3>2, <3>3
  <2>15. Answers(w.s, acked.s, x, y, l)
    <3>1. /\ DOMAIN acked.s.legs = Legs
          /\ \A other \in Legs \ {l} : acked.s.legs[other] = w.s.legs[other]
          /\ DOMAIN acked.s.legs[l] = {"T", "adaptorSig", "acked"}
          /\ acked.s.legs[l].T = m.body.T /\ acked.s.legs[l].adaptorSig = m.body.sig
          /\ acked.s.legs[l].acked = TRUE
      <4>1. DOMAIN w.s.legs[l] = {"T", "adaptorSig", "acked"} /\ l \in DOMAIN w.s.legs
        BY <1>6, <1>7 DEF LegInv
      <4>2. acked.s.legs = [[w.s.legs EXCEPT ![l].T = m.body.T,
                                            ![l].adaptorSig = m.body.sig]
                               EXCEPT ![l].acked = TRUE]
        BY <2>2, <2>14
      <4>3. l \in Legs /\ DOMAIN w.s.legs = Legs
        BY <1>6, <1>7
      <4>. HIDE DEF l, m
      <4>4. \A N : N = [[w.s.legs EXCEPT ![l].T = m.body.T, ![l].adaptorSig = m.body.sig]
                           EXCEPT ![l].acked = TRUE]
               => /\ DOMAIN N = Legs /\ \A j \in Legs \ {l} : N[j] = w.s.legs[j]
                  /\ DOMAIN N[l] = {"T", "adaptorSig", "acked"}
                  /\ N[l].T = m.body.T /\ N[l].adaptorSig = m.body.sig /\ N[l].acked = TRUE
        BY ONLY <4>1, <4>3
      <4>. QED  BY ONLY <4>2, <4>4
    <3>2. /\ x.body.T = m.body.T /\ x.body.sig = m.body.sig
          /\ x.body = [which |-> l, digests |-> w.s.templates, T |-> x.body.T,
                       sig |-> x.body.sig]
          /\ y.body = [which |-> l, digests |-> w.s.templates, T |-> x.body.T]
      BY <1>4, <1>6, <1>8, <2>9 DEF body
    <3>3. /\ w.s.legs[l].adaptorSig = None /\ w.s.legs[l].T \in {None, m.body.T}
          /\ m.body.T \in Legs \X Digests /\ m.body.T # None
          /\ m.body.sig \in AdaptorSigs /\ m.body.sig # None
      BY <1>6, <1>8
    <3>. HIDE DEF l
    <3>. QED  BY <1>4, <1>8, <2>1, <2>9, <2>12, <2>14, <3>1, <3>2, <3>3 DEF Answers, Working
  <2>16. CoreInv(r, acked.s, c)
    <3>. HIDE DEF l, c
    <3>. QED  BY <1>6, <1>7, <1>8, <2>15, RespAnswered
  <2>17. CASE BothLegs(r, acked)
    <3>1. /\ Ready(r, acked.s, "EXECUTION_PLANNED")
          /\ Reaches("EXECUTION_PLANNED", acked.s.state, "EXECUTION_PLANNED")
      BY <2>14, <2>17 DEF Ready, Met, Reaches, BothLegs
    <3>. QED  BY <2>13, <2>16, <2>17, <3>1, PassStep DEF Planned
  <2>18. CASE ~BothLegs(r, acked)
    <3>1. PlanInv(r, acked.s)
      BY <2>18 DEF PlanInv, BothLegs, LegDone
    <3>. QED  BY <2>13, <2>16, <2>18, <3>1 DEF Ongoing, LocalInv
  <2>. QED  BY <2>17, <2>18
<1>9. Ongoing(r, v, c)
  <2>. HIDE DEF w, acked, leg
  <2>. QED  BY <1>4, <1>5, <1>8
<1>. HIDE DEF v
<1>. QED  BY <1>1, <1>4, <1>9, HandlerEnds
\* What no handler of the state takes, and what is refused before any does.
LEMMA RcvRestKeeps ==
    ASSUME NEW r \in Roles, SInv,
           \/ RcvAborted(r) \/ RcvUnparsable(r) \/ RcvForeignSid(r) \/ RcvOutOfOrder(r)
    PROVE  SInv' /\ Tells(r)
<1>. DEFINE w == Work(ss[r])
            c == calls[r]
<1>1. Ongoing(r, w, c)
  BY WorkOngoing
<1>. HIDE DEF w
<1>2. Ongoing(r, EmitAbort(r, w, "BAD_MESSAGE"), c)
      /\ Ongoing(r, EmitAbort(r, w, "SID_MISMATCH"), c)
  BY <1>1, AbortStep
<1>3. CASE RcvAborted(r)
  BY <1>1, <1>3, HandlerEnds DEF RcvAborted, w
<1>4. CASE RcvUnparsable(r)
  BY <1>2, <1>4, HandlerEnds DEF RcvUnparsable, w
<1>5. CASE RcvForeignSid(r)
  BY <1>1, <1>2, <1>5, HandlerEnds DEF RcvForeignSid, w
<1>6. CASE RcvOutOfOrder(r)
  BY <1>2, <1>6, HandlerEnds DEF RcvOutOfOrder, w
<1>. QED  BY <1>3, <1>4, <1>5, <1>6

LEMMA RcvUnusedKeeps ==
    ASSUME NEW r \in Roles, SInv, RcvUnused(r)
    PROVE  SInv' /\ Tells(r)
<1>. DEFINE m == Head(net[r])
            w == Heard(r, m)
            c == calls[r]
            v == IF m.type = "keygen_announce" /\ w.s.peerMpc # m.body.keyOf
                 THEN EmitAbort(r, w, "PROTOCOL_ERROR") ELSE w
<1>1. net[r] # <<>> /\ Valid(r, m) /\ Returns(r, v) /\ UNCHANGED SessionRest
  BY DEF RcvUnused
<1>2. m.seq \in Nat
  BY <1>1, HeadGenuine DEF Genuine
<1>3. Ongoing(r, w, c)
  BY <1>1, <1>2, HeardOngoing
<1>. HIDE DEF w
<1>4. Ongoing(r, v, c)
  BY <1>3, AbortStep
<1>. HIDE DEF v
<1>. QED  BY <1>1, <1>4, HandlerEnds

-----------------------------------------------------------------------------
(* One lemma per method of the client *)

\* What a party may say does not shrink with the methods its client has called.
LEMMA CallsGrow ==
    ASSUME NEW r, NEW w, NEW c, NEW d, c \subseteq d, Ongoing(r, w, c)
    PROVE  Ongoing(r, w, d)
<1>1. /\ FundingInv(r, w.s, c) => FundingInv(r, w.s, d)
      /\ PrepInv(r, w.s, c) => PrepInv(r, w.s, d)
      /\ BroadcastInv(r, w.s, c) => BroadcastInv(r, w.s, d)
  BY DEF FundingInv, PrepInv, BroadcastInv
<1>. QED  BY <1>1 DEF Ongoing, LocalInv, CoreInv

LEMMA MethodEnds ==
    ASSUME NEW r \in Roles, NEW method, NEW w, SInv, CallOnce(r, method), Emits(r, w),
           Ongoing(r, w, calls[r] \cup {method})
    PROVE  SInv' /\ Tells(r)
<1>1. calls' = [calls EXCEPT ![r] = calls[r] \cup {method}]
      /\ UNCHANGED <<params, nonce, hs, faults, mutator>>
  BY DEF CallOnce
<1>2. calls'[r] = calls[r] \cup {method}
  BY <1>1 DEF SInv
<1>. QED  BY <1>1, <1>2, TurnEnds

LEMMA EmitFundingTxKeeps ==
    ASSUME NEW r \in Roles, SInv, EmitFundingTx(r)
    PROVE  SInv' /\ Tells(r)
<1>. DEFINE w == Work(ss[r])
            c == calls[r] \cup {"emitFundingTx"}
<1>1. PICK value \in FundingValues :
          LET body == [which |-> r, value |-> value]
              k == [w EXCEPT !.s.fundingTx[r] = body]
          IN  Emits(r, InState(r, "FUNDING", w,
                               CheckFundingComplete(Send(r, k, "funding_tx", body))))
  BY DEF EmitFundingTx
<1>. DEFINE body == [which |-> r, value |-> value]
            k == [w EXCEPT !.s.fundingTx[r] = body]
            sent == Send(r, k, "funding_tx", body)
            v == InState(r, "FUNDING", w, CheckFundingComplete(sent))
<1>2. CallOnce(r, "emitFundingTx") /\ Emits(r, v) /\ "emitFundingTx" \notin calls[r]
  BY <1>1 DEF EmitFundingTx, CallOnce
<1>3. Ongoing(r, w, calls[r]) /\ Working(w) /\ w.s = ss[r]
  BY WorkOngoing
<1>4. "funding_tx" \in DOMAIN StageOf /\ StageOf["funding_tx"] = "FUNDING"
  BY DEF StageOf
<1>5. Ongoing(r, w, c)
  BY <1>3, CallsGrow
<1>. HIDE DEF w
<1>6. ASSUME w.s.state = "FUNDING"
      PROVE  Ongoing(r, CheckFundingComplete(sent), c)
  <2>1. /\ Working(k) /\ k.out = w.out /\ Same(w.s, k.s, SessionFields \ {"fundingTx"})
        /\ k.s.fundingTx = [w.s.fundingTx EXCEPT ![r] = body]
    BY <1>3 DEF Working, SessionFields, Same
  <2>2. w.s.fundingTx[r] = None
    BY <1>2, <1>3 DEF Ongoing, LocalInv, CoreInv, FundingInv
  <2>3. body \in FundingPayloads /\ body.which = r
    BY DEF FundingPayloads
  <2>. HIDE DEF k, body
  <2>4. MaySend(r, w, k, "funding_tx", body, {"fundingTx"})
    BY <1>4, <1>6, <2>1 DEF MaySend, Bookkeeping
  <2>5. DidSend(r, w, k, sent, "funding_tx", body, {"fundingTx"})
    BY <1>5, <2>4, SendMessage
  <2>6. PICK x : /\ Issued(r, w.s, sent.s, x, {"fundingTx"})
                 /\ x.type = "funding_tx" /\ x.body = body
    BY <2>5 DEF DidSend
  <2>7. /\ sent.s.fundingTx = [w.s.fundingTx EXCEPT ![r] = body]
        /\ sent.s.state = "FUNDING"
    BY <1>6, <2>1, <2>5 DEF DidSend, Same, SessionFields
  <2>. HIDE DEF sent
  <2>8. LocalInv(r, sent.s, c)
    BY <1>5, <2>2, <2>3, <2>6, <2>7, FundingSent DEF Ongoing
  <2>9. Ongoing(r, sent, c)
    BY <2>5, <2>8 DEF DidSend, Ongoing
  <2>. QED  BY <2>7, <2>9, CheckFundingCompleteKeeps
<1>7. Ongoing(r, v, c)
  <2>. HIDE DEF sent, c
  <2>1. Ongoing(r, EmitAbort(r, w, "PROTOCOL_ERROR"), c)
    BY <1>5, AbortStep
  <2>. QED  BY <1>6, <2>1 DEF InState
<1>. HIDE DEF v
<1>. QED  BY <1>2, <1>7, MethodEnds

LEMMA NotifyFundingConfirmedKeeps ==
    ASSUME NEW r \in Roles, NEW which \in Roles, SInv, NotifyFundingConfirmed(r, which)
    PROVE  SInv' /\ Tells(r)
<1>. DEFINE w == Work(ss[r])
            k == [w EXCEPT !.s.fundingConfirmed[which] = TRUE]
            c == calls[r]
<1>1. /\ ss[r].state = "FUNDING" /\ Emits(r, CheckFundingComplete(k))
      /\ UNCHANGED SessionRest
  BY DEF NotifyFundingConfirmed
<1>2. Ongoing(r, w, c) /\ Working(w) /\ w.s = ss[r]
  BY WorkOngoing
<1>3. /\ Working(k) /\ k.out = w.out
      /\ Same(w.s, k.s, SessionFields \ {"fundingConfirmed"})
      /\ k.s.fundingConfirmed = [w.s.fundingConfirmed EXCEPT ![which] = TRUE]
  BY <1>2 DEF Working, SessionFields, Same
<1>4. /\ k.s.state = "FUNDING" /\ k.s.post = w.s.post /\ k.s.postSeq = w.s.postSeq
      /\ Onward(w, k)
  BY <1>1, <1>2, <1>3 DEF Same, SessionFields, Onward
<1>. HIDE DEF w, k
<1>5. LocalInv(r, k.s, c)
  BY <1>2, <1>3, FundingConfirmed DEF Ongoing, Working
<1>6. Told(r, k)
  BY <1>2, <1>3, <1>4, SameStep DEF Ongoing
<1>7. Ongoing(r, CheckFundingComplete(k), c)
  BY <1>4, <1>5, <1>6, CheckFundingCompleteKeeps DEF Ongoing
<1>8. /\ calls' = calls /\ UNCHANGED <<params, nonce, hs, faults, mutator>>
      /\ calls = [calls EXCEPT ![r] = calls[r]]
  BY <1>1 DEF SessionRest, SInv
<1>. QED  BY <1>1, <1>7, <1>8, TurnEnds
LEMMA SetLocalNonceReportKeeps ==
    ASSUME NEW r \in Roles, NEW w, NEW c, Ongoing(r, w, c), NEW nonces \in NonceReports,
           "setLocalNonceReport" \in c
    PROVE  Ongoing(r, SetLocalNonceReport(r, w, nonces), c)
<1>. DEFINE k == [w EXCEPT !.s.localNonces = nonces]
            body == [nonces |-> nonces]
            sent == Send(r, k, "nonce_report", body)
<1>1. Working(w) /\ LocalInv(r, w.s, c)
  BY DEF Ongoing, Told, Working
<1>2. "nonce_report" \in DOMAIN StageOf /\ StageOf["nonce_report"] = "EXEC_PREP"
  BY DEF StageOf
<1>3. Ongoing(r, EmitAbort(r, w, "PROTOCOL_ERROR"), c)
  BY AbortStep
<1>4. ASSUME w.s.state = "EXEC_PREP", w.s.localNonces = None
      PROVE  Ongoing(r, CheckExecReady(r, sent), c)
  <2>1. /\ Working(k) /\ k.out = w.out /\ Same(w.s, k.s, SessionFields \ {"localNonces"})
        /\ k.s.localNonces = nonces
    BY <1>1 DEF Working, SessionFields, Same
  <2>. HIDE DEF k, body
  <2>2. MaySend(r, w, k, "nonce_report", body, {"localNonces"})
    BY <1>2, <1>4, <2>1 DEF MaySend, Bookkeeping
  <2>3. DidSend(r, w, k, sent, "nonce_report", body, {"localNonces"})
    BY <2>2, SendMessage
  <2>4. PICK x : /\ Issued(r, w.s, sent.s, x, {"localNonces"})
                 /\ x.type = "nonce_report" /\ x.body = body
    BY <2>3 DEF DidSend
  <2>5. sent.s.localNonces = nonces /\ sent.s.state = "EXEC_PREP"
    BY <1>4, <2>1, <2>3 DEF DidSend, Same, SessionFields
  <2>6. x.body = [nonces |-> sent.s.localNonces]
    BY <2>4, <2>5 DEF body
  <2>. HIDE DEF sent
  <2>7. LocalInv(r, sent.s, c)
    BY <1>1, <1>4, <2>4, <2>5, <2>6, NonceSent
  <2>8. Ongoing(r, sent, c)
    BY <2>3, <2>7 DEF DidSend, Ongoing
  <2>. QED  BY <2>5, <2>8, CheckExecReadyKeeps
<1>. HIDE DEF sent
<1>5. SetLocalNonceReport(r, w, nonces) =
          InState(r, "EXEC_PREP", w,
                  Keep(r, w, w.s.localNonces, nonces, CheckExecReady(r, sent)))
  BY DEF SetLocalNonceReport, sent
<1>. QED  BY <1>3, <1>4, <1>5 DEF InState, Keep

\* Alice proposes the fee when she has reported her nonces.
LEMMA ReportKept ==
    ASSUME NEW r \in Roles, NEW w, NEW c, Ongoing(r, w, c), NEW nonces \in NonceReports,
           SetLocalNonceReport(r, w, nonces).s.state = "EXEC_PREP"
    PROVE  SetLocalNonceReport(r, w, nonces).s.localNonces # None
<1>. DEFINE k == [w EXCEPT !.s.localNonces = nonces]
            sent == Send(r, k, "nonce_report", [nonces |-> nonces])
            v == SetLocalNonceReport(r, w, nonces)
<1>1. Working(w) /\ nonces # None
  BY SessionAssumption DEF Ongoing, Told, Working
<1>2. Working(sent) /\ sent.s.localNonces = nonces
  BY <1>1 DEF Send, Note, Working, SessionFields
<1>3. ASSUME NEW u, Working(u), NEW code
      PROVE  EmitAbort(r, u, code).s.state = "ABORTED"
  BY <1>3, EmitAbortEffect
<1>. HIDE DEF sent
<1>4. ASSUME NEW u, u = CheckExecReady(r, sent), u.s.state = "EXEC_PREP"
      PROVE  u = sent
  <2>. DEFINE digests == TemplatesOf(r, sent.s)
              ready == [Reach(sent, "EXEC_READY") EXCEPT !.s.templates = digests]
              last == Send(r, ready, "tx_template_commit", CommitBody(r, digests))
  <2>1. Working(ready)
    BY <1>2 DEF Reach, Working, SessionFields
  <2>. HIDE DEF ready, digests
  <2>2. Working(last)
    BY <2>1 DEF Send, Note, Working, SessionFields
  <2>. HIDE DEF last
  <2>3. Enter(last, "EXEC_TEMPLATES_SYNC").s.state = "EXEC_TEMPLATES_SYNC"
    BY <2>2 DEF Enter, Working, SessionFields
  <2>4. EmitAbort(r, sent, "PROTOCOL_ERROR").s.state = "ABORTED"
    BY <1>2, <1>3
  <2>5. u = sent \/ u = EmitAbort(r, sent, "PROTOCOL_ERROR")
        \/ u = Enter(last, "EXEC_TEMPLATES_SYNC")
    BY <1>4 DEF CheckExecReady, last, ready, digests
  <2>. QED  BY <1>4, <2>3, <2>4, <2>5
<1>5. v = InState(r, "EXEC_PREP", w,
                  Keep(r, w, w.s.localNonces, nonces, CheckExecReady(r, sent)))
  BY DEF SetLocalNonceReport, sent
<1>6. (v = w /\ w.s.localNonces # None) \/ v = CheckExecReady(r, sent)
      \/ v = EmitAbort(r, w, "PROTOCOL_ERROR")
  BY <1>5 DEF InState, Keep
<1>. HIDE DEF v
<1>7. v.s.state = "EXEC_PREP"
  BY DEF v
<1>8. v.s.localNonces # None
  BY <1>1, <1>2, <1>3, <1>4, <1>6, <1>7
<1>. QED  BY <1>8 DEF v

LEMMA ProposeFeeParamsKeeps ==
    ASSUME NEW w, NEW c, Ongoing("alice", w, c), NEW fee \in FeeChoices,
           w.s.state = "EXEC_PREP" => w.s.localNonces # None
    PROVE  Ongoing("alice", ProposeFeeParams(w, fee), c)
<1>. DEFINE k == [w EXCEPT !.s.feeParams = fee]
            body == [fee |-> fee]
            sent == Send("alice", k, "fee_params", body)
<1>1. Working(w) /\ LocalInv("alice", w.s, c) /\ "alice" \in Roles
  BY DEF Ongoing, Told, Working, Roles
<1>2. "fee_params" \in DOMAIN StageOf /\ StageOf["fee_params"] = "EXEC_PREP"
  BY DEF StageOf
<1>3. Ongoing("alice", EmitAbort("alice", w, "PROTOCOL_ERROR"), c)
  BY <1>1, AbortStep
<1>4. ASSUME w.s.state = "EXEC_PREP", w.s.feeParams = None
      PROVE  Ongoing("alice", sent, c)
  <2>1. /\ Working(k) /\ k.out = w.out /\ Same(w.s, k.s, SessionFields \ {"feeParams"})
        /\ k.s.feeParams = fee
    BY <1>1 DEF Working, SessionFields, Same
  <2>. HIDE DEF k, body
  <2>2. MaySend("alice", w, k, "fee_params", body, {"feeParams"})
    BY <1>2, <1>4, <2>1 DEF MaySend, Bookkeeping
  <2>3. DidSend("alice", w, k, sent, "fee_params", body, {"feeParams"})
    BY <1>1, <2>2, SendMessage
  <2>4. PICK x : /\ Issued("alice", w.s, sent.s, x, {"feeParams"})
                 /\ x.type = "fee_params" /\ x.body = body
    BY <2>3 DEF DidSend
  <2>5. sent.s.feeParams = fee
    BY <2>1, <2>3 DEF DidSend, Same, SessionFields
  <2>6. x.body = [fee |-> sent.s.feeParams]
    BY <2>4, <2>5 DEF body
  <2>. HIDE DEF sent
  <2>7. LocalInv("alice", sent.s, c)
    <3>1. w.s.localNonces # None
      BY <1>4
    <3>. QED  BY <1>1, <1>4, <2>4, <2>5, <2>6, <3>1, FeeSent
  <2>. QED  BY <2>3, <2>7 DEF DidSend, Ongoing
<1>. HIDE DEF sent
<1>5. ProposeFeeParams(w, fee) =
          InState("alice", "EXEC_PREP", w, Keep("alice", w, w.s.feeParams, fee, sent))
  BY DEF ProposeFeeParams, sent
<1>. QED  BY <1>3, <1>4, <1>5 DEF InState, Keep

LEMMA OnExecPrepStartedKeeps ==
    ASSUME NEW r \in Roles, SInv, OnExecPrepStarted(r)
    PROVE  SInv' /\ Tells(r)
<1>. DEFINE w == Work(ss[r])
            c == calls[r] \cup {"setLocalNonceReport"}
<1>1. PICK nonces \in NonceReports, fee \in FeeChoices :
          LET reported == SetLocalNonceReport(r, w, nonces)
          IN  Emits(r, IF r = "alice" /\ reported.s.state # "ABORTED"
                       THEN ProposeFeeParams(reported, fee) ELSE reported)
  BY DEF OnExecPrepStarted
<1>. DEFINE reported == SetLocalNonceReport(r, w, nonces)
            v == IF r = "alice" /\ reported.s.state # "ABORTED"
                 THEN ProposeFeeParams(reported, fee) ELSE reported
<1>2. CallOnce(r, "setLocalNonceReport") /\ Emits(r, v)
  BY <1>1 DEF OnExecPrepStarted
<1>3. Ongoing(r, w, c)
  BY WorkOngoing, CallsGrow
<1>. HIDE DEF w
<1>4. /\ Ongoing(r, reported, c)
      /\ reported.s.state = "EXEC_PREP" => reported.s.localNonces # None
  BY <1>3, SetLocalNonceReportKeeps, ReportKept
<1>. HIDE DEF reported
<1>5. Ongoing(r, v, c)
  BY <1>4, ProposeFeeParamsKeeps
<1>. HIDE DEF v
<1>. QED  BY <1>2, <1>5, MethodEnds

\* An announcement of a transaction's hash.
LEMMA AnnounceStep ==
    ASSUME NEW r \in Roles, NEW w, NEW c, Ongoing(r, w, c), NEW type,
           \/ r = "alice" /\ type = "txB_broadcast"
           \/ r = "bob" /\ type = "txA_broadcast",
           (IF r = "alice" THEN "announceTxBHash" ELSE "announceTxAHash") \in c,
           From(w.s, type, r) = {}, NEW hash \in TxHashes
    PROVE  Ongoing(r, InState(r, "EXECUTION_PLANNED", w,
                              Send(r, w, type, [txHash |-> hash])), c)
<1>. DEFINE body == [txHash |-> hash]
            sent == Send(r, w, type, body)
<1>1. Working(w) /\ LocalInv(r, w.s, c)
  BY DEF Ongoing, Told, Working
<1>2. type \in DOMAIN StageOf /\ StageOf[type] = "EXECUTION_PLANNED"
      /\ type # "capsule_offer" /\ type # "capsule_ack"
  BY DEF StageOf
<1>3. Ongoing(r, EmitAbort(r, w, "PROTOCOL_ERROR"), c)
  BY AbortStep
<1>4. ASSUME w.s.state = "EXECUTION_PLANNED"
      PROVE  Ongoing(r, sent, c)
  <2>. HIDE DEF body
  <2>1. MaySend(r, w, w, type, body, {})
    BY <1>1, <1>2, <1>4 DEF MaySend, Same
  <2>2. DidSend(r, w, w, sent, type, body, {})
    BY <2>1, SendMessage
  <2>3. PICK x : Issued(r, w.s, sent.s, x, {}) /\ x.type = type /\ x.body = body
    BY <2>2 DEF DidSend
  <2>4. x.body = [txHash |-> x.body.txHash] /\ x.body.txHash \in TxHashes
    BY <2>3 DEF body
  <2>. HIDE DEF sent
  <2>5. LocalInv(r, sent.s, c)
    BY <1>1, <2>3, <2>4, TxSent
  <2>. QED  BY <2>2, <2>5 DEF DidSend, Ongoing
<1>. HIDE DEF sent
<1>5. Ongoing(r, InState(r, "EXECUTION_PLANNED", w, sent), c)
  BY <1>3, <1>4 DEF InState
<1>. QED  BY <1>5 DEF sent

LEMMA AnnouncementsKeep ==
    ASSUME SInv, NEW r \in Roles,
           \/ r = "alice" /\ (AnnounceTxBHash \/ AbortOnTxA)
           \/ r = "bob" /\ AnnounceTxAHash
    PROVE  SInv' /\ Tells(r)
<1>1. "alice" \in Roles /\ "bob" \in Roles
  BY DEF Roles
<1>2. CASE r = "alice" /\ AnnounceTxBHash
  <2>. DEFINE w == Work(ss["alice"])
              v(hash) == InState("alice", "EXECUTION_PLANNED", w,
                                 Send("alice", w, "txB_broadcast", [txHash |-> hash]))
              c == calls["alice"] \cup {"announceTxBHash"}
  <2>1. PICK hash \in TxHashes : Emits("alice", v(hash))
    BY <1>2 DEF AnnounceTxBHash
  <2>2. Ongoing("alice", w, c)
    BY <1>1, WorkOngoing, CallsGrow
  <2>a. From(w.s, "txB_broadcast", "alice") = {}
    <3>1. "announceTxBHash" \notin calls["alice"] /\ w.s = ss["alice"]
      BY <1>2 DEF AnnounceTxBHash, CallOnce, Work
    <3>2. BroadcastInv("alice", ss["alice"], calls["alice"])
      BY <1>1 DEF SInv, LocalInv, CoreInv
    <3>. QED  BY <3>1, <3>2 DEF BroadcastInv, From
  <2>. HIDE DEF w
  <2>3. Ongoing("alice", v(hash), c)
    BY <1>1, <2>2, <2>a, AnnounceStep
  <2>. HIDE DEF v
  <2>. QED  BY <1>1, <1>2, <2>1, <2>3, MethodEnds DEF AnnounceTxBHash
<1>3. CASE r = "bob" /\ AnnounceTxAHash
  <2>. DEFINE w == Work(ss["bob"])
              v(hash) == InState("bob", "EXECUTION_PLANNED", w,
                                 Send("bob", w, "txA_broadcast", [txHash |-> hash]))
              c == calls["bob"] \cup {"announceTxAHash"}
  <2>1. PICK hash \in TxHashes : Emits("bob", v(hash))
    BY <1>3 DEF AnnounceTxAHash
  <2>2. Ongoing("bob", w, c)
    BY <1>1, WorkOngoing, CallsGrow
  <2>a. From(w.s, "txA_broadcast", "bob") = {}
    <3>1. "announceTxAHash" \notin calls["bob"] /\ w.s = ss["bob"]
      BY <1>3 DEF AnnounceTxAHash, CallOnce, Work
    <3>2. BroadcastInv("bob", ss["bob"], calls["bob"])
      BY <1>1 DEF SInv, LocalInv, CoreInv
    <3>. QED  BY <3>1, <3>2 DEF BroadcastInv, From
  <2>. HIDE DEF w
  <2>3. Ongoing("bob", v(hash), c)
    BY <1>1, <2>2, <2>a, AnnounceStep
  <2>. HIDE DEF v
  <2>. QED  BY <1>1, <1>3, <2>1, <2>3, MethodEnds DEF AnnounceTxAHash
<1>4. CASE r = "alice" /\ AbortOnTxA
  <2>. DEFINE w == Work(ss["alice"])
              c == calls["alice"] \cup {"abort"}
  <2>1. Ongoing("alice", w, c)
    BY <1>1, WorkOngoing, CallsGrow
  <2>2. Ongoing("alice", EmitAbort("alice", w, "PROTOCOL_ERROR"), c)
    <3>. HIDE DEF w
    <3>. QED  BY <1>1, <2>1, AbortStep
  <2>. QED  BY <1>1, <1>4, <2>2, MethodEnds DEF AbortOnTxA
<1>. QED  BY <1>2, <1>3, <1>4
-----------------------------------------------------------------------------
(* The handshake *)

\* What a handshake sends of its own accord: never more than a greeting.
Reply(r, m) ==
    /\ m = Message(r, m.seq, m.sid, m.type, m.body) /\ m.seq \in Nat
    /\ m.type \in {"hello", "hello_ack", "abort"}
    /\ m.type \in {"hello", "hello_ack"} => m.body = Greeting(r)

\* A handshake that has not locked, and what it knows of its peer.
Handshaking(r, s) ==
    /\ DOMAIN s = DOMAIN Created /\ s.seq \in Nat /\ s.sid = NoSid /\ s.state # "LOCKED"
    /\ s.peerParams \in {None, params[Other(r)]}
    /\ s.peerNonce \in {None, nonce[Other(r)]}

Locking(r, t) ==
    /\ DOMAIN t = DOMAIN Created /\ t.seq \in Nat /\ t.sid = TrueSid /\ t.state = "LOCKED"
    /\ t.peerParams \in {None, params[Other(r)]}
    /\ t.peerNonce \in {None, nonce[Other(r)]}
    /\ params["alice"] = params["bob"]

Replies(r, out) == out \in Seq(Range(out)) /\ \A m \in Range(out) : Reply(r, m)

\* A call that leaves r's handshake at t and returns out.
Settled(r, t, out) ==
    \/ Handshaking(r, t) /\ Replies(r, out)
    \/ Locking(r, t) /\ \E pre : Replies(r, pre) /\ out = pre \o OnLock(r, TrueSid)

LEMMA ReplyGenuine ==
    ASSUME NEW r, NEW m, Reply(r, m), UNCHANGED <<params, nonce>>
    PROVE  Genuine(r, m)'
<1>1. m.type \notin DOMAIN StageOf /\ m.type # "capsule_offer"
  BY PostTypes DEF Reply
<1>. QED  BY <1>1 DEF Reply, Genuine, Message, Greeting

\* Before the lock the session has recorded nothing and passed nothing.
LEMMA NothingYet ==
    ASSUME NEW r \in Roles, NEW s, NEW c, LocalInv(r, s, c), s.state = "HANDSHAKE"
    PROVE  /\ ~Locked(r) /\ s.post = <<>> /\ Range(s.post) = {}
           /\ s.postSeq = FirstPostSeq
           /\ \A event \in Milestones : ~Passed(s, event)
           /\ \A type, q : From(s, type, q) = {}
<1>1. StateInv(r, s)
  BY DEF LocalInv, CoreInv
<1>2. ~Locked(r) /\ s.post = <<>> /\ s.postSeq = FirstPostSeq
  BY <1>1 DEF StateInv
<1>3. Range(s.post) = {}
  BY <1>2, EmptySeq DEF Range
<1>4. \A event \in Milestones : ~Passed(s, event)
  BY <1>1, MilestoneSet DEF StateInv
<1>5. \A type, q : From(s, type, q) = {}
  BY <1>3 DEF From
<1>. QED  BY <1>2, <1>3, <1>4, <1>5

\* The lock: the announcement opens the session's transcript.
LEMMA Announced ==
    ASSUME NEW r \in Roles, NEW s, NEW c, LocalInv(r, s, c), s.state = "HANDSHAKE",
           NEW sid \in Sids, Locked(r)', hs'[r].sid = sid, mutator' = mutator
    PROVE  LET t == AfterLock(r, s, sid)
           IN  /\ LocalInv(r, t, c)'
               /\ Range(t.post) = {RecordOf(OnLock(r, sid)[1])}
<1>. DEFINE t == AfterLock(r, s, sid)
            x == RecordOf(OnLock(r, sid)[1])
<1>1. /\ ~Locked(r) /\ s.post = <<>> /\ Range(s.post) = {} /\ s.postSeq = FirstPostSeq
      /\ \A event \in Milestones : ~Passed(s, event)
      /\ \A type, q : From(s, type, q) = {}
  BY NothingYet
<1>2. /\ x.type = "keygen_announce" /\ x.from = r /\ x.seq = FirstPostSeq
      /\ x.body = [keyOf |-> <<r, sid>>]
  BY DEF OnLock, Message, RecordOf
<1>3. DOMAIN s = SessionFields
  BY DEF LocalInv, CoreInv
<1>4. /\ DOMAIN t = SessionFields /\ t.state = "KEYGEN" /\ t.postSeq = s.postSeq + 1
      /\ t.post = Append(s.post, x) /\ Same(s, t, SessionFields \ {"state", "postSeq", "post"})
  BY <1>3 DEF AfterLock, SessionFields, Same
<1>. HIDE DEF t, x
<1>5. Range(t.post) = {x} /\ t.post \in Seq(Range(t.post)) /\ Adds(s, t, {x})
  <2>1. s.post \in Seq(Range(s.post))
    BY DEF LocalInv, CoreInv, NumberInv
  <2>2. Range(t.post) = Range(s.post) \cup {x} /\ t.post \in Seq(Range(t.post))
    BY <1>4, <2>1, RangeAppend
  <2>. QED  BY <1>1, <2>2 DEF Adds
<1>6. /\ t.milestones = s.milestones /\ t.lastPostSeq = s.lastPostSeq
      /\ t.peerMpc = s.peerMpc
      /\ Same(s, t, {"capsuleReceived", "capsuleAcked"})
      /\ Same(s, t, {"fundingTx", "fundingConfirmed"})
      /\ Same(s, t, {"localNonces", "peerNonces", "feeParams", "feeAcked", "templates"})
      /\ Same(s, t, {"templates", "peerCommitHash", "localCommitAcked"})
      /\ Same(s, t, {"legs", "templates"}) /\ Same(s, t, {"legs"})
      /\ Same(s, t, {"peerTxBHash", "peerTxAHash"})
  BY <1>4 DEF Same, SessionFields
<1>7. (\A event \in Milestones : ~Passed(t, event)) /\ Earned(r, s, t)
  BY <1>1, <1>6, SameMilestones DEF Passed
<1>8. /\ ~Refusal(x) /\ "keygen_announce" \in DOMAIN StageOf
      /\ StageOf["keygen_announce"] = "KEYGEN"
  BY <1>2 DEF Refusal, StageOf
<1>9. StateInv(r, t)'
  <2>1. t.state \in {StageOf[type] : type \in DOMAIN StageOf}
    BY <1>4, <1>8
  <2>2. ~(\E y \in Range(t.post) : Refusal(y))
    BY <1>5, <1>8
  <2>. QED  BY <1>4, <1>7, <2>1, <2>2, MilestoneSet DEF StateInv
<1>10. NumberInv(r, t)'
  <2>1. Distinct(t.post)
    <3>1. Distinct(<<>>) /\ <<>> \in Seq(Range(<<>>))
      BY <1>1 DEF LocalInv, CoreInv, NumberInv
    <3>. QED  BY <1>1, <1>4, <3>1, DistinctAppend
  <2>2. t.postSeq \in Nat /\ t.postSeq = FirstPostSeq + 1
    BY <1>1, <1>4 DEF FirstPostSeq
  <2>3. t.lastPostSeq \in Nat \cup {-1}
    BY <1>6 DEF LocalInv, CoreInv, NumberInv
  <2>4. ~Precedes(x.type, x.type)
    BY <1>2 DEF Precedes
  <2>. QED  BY <1>2, <1>5, <1>8, <2>1, <2>2, <2>3, <2>4 DEF NumberInv, FirstPostSeq
<1>11. LogInv(t)'
  BY <1>2, <1>5, <1>6, <1>7 DEF LogInv, LocalInv, CoreInv
<1>12. KeygenInv(r, t)'
  <2>1. Other(r) # r
    BY OtherRole
  <2>2. From(t, "keygen_announce", r) = {x} /\ From(t, "keygen_announce", Other(r)) = {}
    BY <1>2, <1>5, <1>8, <2>1 DEF From
  <2>3. t.peerMpc = None
    BY <1>1, <1>6 DEF LocalInv, CoreInv, KeygenInv
  <2>4. "KEYGEN_COMPLETE" \in Milestones
    BY MilestoneSet
  <2>. QED  BY <1>2, <1>7, <2>2, <2>3, <2>4 DEF KeygenInv, AtMostOne
<1>13. /\ CapsuleInv(r, t) /\ FundingInv(r, t, c) /\ PrepInv(r, t, c) /\ TemplateInv(r, t)
       /\ AdaptorInv(r, t) /\ BroadcastInv(r, t, c) /\ PlanInv(r, t)
  <2>1. \A types : "keygen_announce" \notin types => Spares({x}, types)
    BY <1>2 DEF Spares
  <2>2. /\ Spares({x}, {"capsule_offer", "capsule_ack"}) /\ Spares({x}, {"funding_tx"})
        /\ Spares({x}, {"nonce_report", "fee_params", "fee_params_ack"})
        /\ Spares({x}, {"tx_template_commit", "tx_template_ack"})
        /\ Spares({x}, {"adaptor_start", "adaptor_resp", "adaptor_ack"})
        /\ Spares({x}, {"txB_broadcast", "txA_broadcast"})
    BY <2>1
  <2>3. /\ CapsuleInv(r, s) /\ FundingInv(r, s, c) /\ PrepInv(r, s, c) /\ TemplateInv(r, s)
        /\ AdaptorInv(r, s) /\ BroadcastInv(r, s, c) /\ PlanInv(r, s)
    BY DEF LocalInv, CoreInv
  <2>. QED  BY <1>5, <1>6, <1>7, <2>2, <2>3, Untouched
<1>14. CapsuleInv(r, t)' /\ FundingInv(r, t, c)' /\ PlanInv(r, t)'
  BY <1>13 DEF CapsuleInv, FundingInv, PlanInv
<1>15. PrepInv(r, t, c)'
  <2>1. ~Passed(t, "EXEC_READY")
    BY <1>7, MilestoneSet
  <2>. QED  BY <1>13, <2>1 DEF PrepInv
<1>16. TemplateInv(r, t)'
  BY <1>13 DEF TemplateInv, CommitBody
<1>17. AdaptorInv(r, t)' /\ BroadcastInv(r, t, c)'
  BY <1>13 DEF AdaptorInv, LegInv, Signed, BroadcastInv
<1>. QED
  BY <1>4, <1>5, <1>9, <1>10, <1>11, <1>12, <1>14, <1>15, <1>16, <1>17
     DEF LocalInv, CoreInv, t, x

LEMMA LockKeeps ==
    ASSUME NEW r \in Roles, NEW s, NEW t, NEW c, LocalInv(r, s, c), s.state = "HANDSHAKE",
           NEW sid \in Sids, Locked(r)', hs'[r].sid = sid, mutator' = mutator,
           t = AfterLock(r, s, sid)
    PROVE  LocalInv(r, t, c)' /\ Range(t.post) = {RecordOf(OnLock(r, sid)[1])}
BY Announced

\* The announcement on its way is what its sender recorded.
LEMMA AnnouncementGenuine ==
    ASSUME NEW r, NEW m, NEW sid, m = OnLock(r, sid)[1], Locked(r)', hs'[r].sid = sid,
           RecordOf(m) \in Range(ss'[r].post)
    PROVE  Genuine(r, m)'
<1>1. /\ m = Message(r, m.seq, m.sid, m.type, m.body) /\ m.seq \in Nat
      /\ m.type = "keygen_announce" /\ m.sid = sid
  BY DEF OnLock, Message, FirstPostSeq
<1>. QED  BY <1>1 DEF Genuine, Message, RecordOf, Locked

\* Before its lock a party has only greetings and aborts on their way.
LEMMA GreetingStays ==
    ASSUME NEW q, NEW m, Genuine(q, m), ~Locked(q), UNCHANGED <<params, nonce>>
    PROVE  Genuine(q, m)'
BY DEF Genuine, Message, Greeting, Other

LEMMA GenuineWaits ==
    ASSUME NEW q, NEW m, Genuine(q, m), UNCHANGED <<params, nonce>>, hs'[q] = hs[q],
           ss'[q] = ss[q]
    PROVE  Genuine(q, m)'
BY DEF Genuine, Message, Greeting, Locked, RecordOf, Other

\* A call of the handshake ends, and with it perhaps the handshake.
LEMMA HandshakeTurn ==
    ASSUME NEW r \in Roles, NEW t, NEW out, SInv, ss[r].state = "HANDSHAKE",
           hs' = [hs EXCEPT ![r] = t], Settled(r, t, out),
           \/ net[r] # <<>> /\ Consume(r, out)
           \/ net' = [net EXCEPT ![Other(r)] = @ \o out],
           ss' = [ss EXCEPT ![r] =
               CASE t.state = "LOCKED"  -> AfterLock(r, @, t.sid)
                 [] t.state = "ABORTED" -> [@ EXCEPT !.state = "ABORTED"]
                 [] OTHER               -> @],
           UNCHANGED <<params, nonce, calls, mutator>>
    PROVE  SInv'
<1>. DEFINE p == Other(r)
            c == calls[r]
<1>1. p \in Roles /\ p # r /\ Other(p) = r /\ \A q \in Roles : q = r \/ q = p
  BY OtherRole
<1>2. /\ ss = [q \in Roles |-> ss[q]] /\ net = [q \in Roles |-> net[q]]
      /\ calls = [q \in Roles |-> calls[q]] /\ hs = [q \in Roles |-> hs[q]]
  BY DEF SInv
<1>3. /\ hs'[r] = t /\ hs'[p] = hs[p] /\ hs' = [q \in Roles |-> hs'[q]]
      /\ ss'[p] = ss[p] /\ ss' = [q \in Roles |-> ss'[q]]
      /\ (Locked(p)' <=> Locked(p)) /\ (Locked(r)' <=> t.state = "LOCKED")
  BY <1>1, <1>2 DEF Locked
<1>4. /\ LocalInv(r, ss[r], c) /\ LocalInv(p, ss[p], calls[p])
      /\ ~Locked(r) /\ hs[r].sid = NoSid /\ Range(ss[r].post) = {}
  BY <1>1, NothingYet DEF SInv, HandshakeInv
<1>. HIDE DEF p
<1>5. PICK pre : /\ Replies(r, pre)
                 /\ \/ Handshaking(r, t) /\ out = pre
                    \/ Locking(r, t) /\ out = pre \o OnLock(r, TrueSid)
  BY DEF Settled
<1>6. /\ LocalInv(r, ss[r], calls[r])'
      /\ Range(ss'[r].post) = IF t.state = "LOCKED" THEN {RecordOf(OnLock(r, TrueSid)[1])}
                              ELSE {}
  <2>1. CASE t.state = "LOCKED"
    <3>1. ss'[r] = AfterLock(r, ss[r], TrueSid) /\ hs'[r].sid = TrueSid /\ Locked(r)'
      BY <1>2, <1>3, <1>5, <2>1 DEF Locking, Handshaking
    <3>s. TrueSid \in Sids
      BY DEF SInv, TrueSid, Sids, Roles
    <3>2. LocalInv(r, ss[r], calls'[r])
      BY <1>4
    <3>3. /\ LocalInv(r, ss[r], calls[r])'
          /\ Range(ss'[r].post) = {RecordOf(OnLock(r, TrueSid)[1])}
      <4>1. ASSUME NEW s, NEW t1, NEW d, s = ss[r], t1 = ss'[r], d = calls'[r]
            PROVE  LocalInv(r, t1, d)' /\ Range(t1.post) = {RecordOf(OnLock(r, TrueSid)[1])}
        BY <3>1, <3>s, <3>2, <4>1, LockKeeps
      <4>. QED  BY <4>1
    <3>. QED  BY <2>1, <3>3
  <2>2. CASE t.state # "LOCKED"
    <3>1. Handshaking(r, t) /\ (Locked(r)' <=> Locked(r)) /\ hs'[r].sid = hs[r].sid
      BY <1>3, <1>4, <1>5, <2>2 DEF Handshaking, Locking
    <3>2. LocalInv(r, ss'[r], calls'[r]) /\ ss'[r].post = ss[r].post
      <4>1. CASE t.state = "ABORTED"
        <5>. DEFINE s == [ss[r] EXCEPT !.state = "ABORTED"]
        <5>1. ss'[r] = s /\ DOMAIN ss[r] = SessionFields
          BY <1>2, <1>4, <4>1 DEF LocalInv, CoreInv
        <5>2. /\ DOMAIN s = SessionFields
              /\ Same(ss[r], s, SessionFields \ {"state", "postSeq"})
              /\ s.state = "ABORTED" /\ s.postSeq = ss[r].postSeq /\ s.post = ss[r].post
          BY <5>1 DEF SessionFields, Same
        <5>. HIDE DEF s
        <5>3. LocalInv(r, s, c)
          BY <1>4, <5>2, AbortKeeps
        <5>. QED  BY <5>1, <5>2, <5>3
      <4>2. CASE t.state # "ABORTED"
        <5>1. ss'[r] = ss[r]
          BY <1>2, <2>2, <4>2
        <5>. QED  BY <1>4, <5>1
      <4>. QED  BY <4>1, <4>2
    <3>a. ss'[r].state = "HANDSHAKE" => hs'[r].state # "ABORTED"
      BY <1>2, <1>3
    <3>3. LocalInv(r, ss[r], calls[r])'
      BY <3>1, <3>2, <3>a, LocalStays
    <3>. QED  BY <1>4, <2>2, <3>2, <3>3
  <2>. QED  BY <2>1, <2>2
<1>7. LocalInv(p, ss[p], calls[p])'
  <2>1. LocalInv(p, ss'[p], calls'[p])
    BY <1>3, <1>4
  <2>2. ss'[p].state = "HANDSHAKE" => hs'[p].state # "ABORTED"
    BY <1>3, <2>1 DEF LocalInv, CoreInv, StateInv
  <2>. QED  BY <1>3, <2>1, <2>2, LocalStays
<1>8. Shared(r, ss[r])' /\ Shared(p, ss[p])'
  <2>1. Shared(p, ss[p])
    BY <1>1 DEF SInv
  <2>2. RecordOf(OnLock(r, TrueSid)[1]).from = r
    BY DEF RecordOf, OnLock, Message
  <2>3. Shared(r, ss[r])'
    BY <1>1, <1>6, <2>2 DEF Shared, p
  <2>. QED  BY <1>1, <1>3, <1>4, <2>1, <2>3 DEF Shared
<1>9. out \in Seq(Range(out))
  <2>1. CASE out = pre
    BY <1>5, <2>1 DEF Replies
  <2>2. CASE out = pre \o OnLock(r, TrueSid)
    <3>1. /\ OnLock(r, TrueSid) \in Seq(Range(OnLock(r, TrueSid)))
          /\ Range(OnLock(r, TrueSid)) = {OnLock(r, TrueSid)[1]}
      BY DEF OnLock, Range
    <3>. QED  BY <1>5, <2>2, <3>1, RangeConcat DEF Replies
  <2>. QED  BY <1>5, <2>1, <2>2
<1>10. \A m \in Range(out) : Genuine(r, m)'
  <2>1. \A m \in Range(pre) : Genuine(r, m)'
    BY <1>5, ReplyGenuine DEF Replies
  <2>2. CASE out = pre
    BY <2>1, <2>2
  <2>3. CASE Locking(r, t) /\ out = pre \o OnLock(r, TrueSid)
    <3>1. Range(out) = Range(pre) \cup {OnLock(r, TrueSid)[1]}
      <4>1. /\ OnLock(r, TrueSid) \in Seq(Range(OnLock(r, TrueSid)))
            /\ Range(OnLock(r, TrueSid)) = {OnLock(r, TrueSid)[1]}
        BY DEF OnLock, Range
      <4>. QED  BY <1>5, <2>3, <4>1, RangeConcat DEF Replies
    <3>2. /\ Locked(r)' /\ hs'[r].sid = TrueSid
          /\ RecordOf(OnLock(r, TrueSid)[1]) \in Range(ss'[r].post)
      BY <1>3, <1>6, <2>3 DEF Locking
    <3>3. ASSUME NEW m, m = OnLock(r, TrueSid)[1]
          PROVE  Genuine(r, m)'
      BY <3>2, <3>3, AnnouncementGenuine
    <3>4. ASSUME NEW m \in Range(out)
          PROVE  Genuine(r, m)'
      BY <2>1, <3>1, <3>3
    <3>. QED  BY <3>4
  <2>. QED  BY <1>5, <2>2, <2>3
<1>11. \A m \in Range(net[p]) : Genuine(r, m)'
  <2>1. \A m \in Range(net[p]) : Genuine(r, m)
    BY <1>1 DEF SInv
  <2>. QED  BY <1>4, <2>1, GreetingStays
<1>12. \A m \in Range(net[r]) : Genuine(p, m)'
  <2>1. \A m \in Range(net[r]) : Genuine(p, m)
    BY DEF SInv, p
  <2>. QED  BY <1>3, <2>1, GenuineWaits
<1>13. /\ net'[r] \in Seq(Range(net'[r])) /\ Range(net'[r]) \subseteq Range(net[r])
       /\ net'[p] \in Seq(Range(net'[p])) /\ Range(net'[p]) = Range(net[p]) \cup Range(out)
       /\ net' = [q \in Roles |-> net'[q]]
  <2>1. net'[p] = net[p] \o out /\ net' = [q \in Roles |-> net'[q]]
    BY <1>1, <1>2 DEF Consume, p
  <2>2. net'[r] = net[r] \/ (net[r] # <<>> /\ net'[r] = Tail(net[r]))
    BY <1>1, <1>2 DEF Consume, p
  <2>3. net[r] \in Seq(Range(net[r])) /\ net[p] \in Seq(Range(net[p]))
    BY <1>1 DEF SInv
  <2>4. net'[r] \in Seq(Range(net'[r])) /\ Range(net'[r]) \subseteq Range(net[r])
    BY <2>2, <2>3, RangeTail
  <2>5. /\ net[p] \o out \in Seq(Range(net[p] \o out))
        /\ Range(net[p] \o out) = Range(net[p]) \cup Range(out)
    BY <1>9, <2>3, RangeConcat
  <2>. QED  BY <2>1, <2>4, <2>5
<1>14. HandshakeInv(r)' /\ HandshakeInv(p)'
  <2>1. TrueSid # NoSid
    BY DEF TrueSid, NoSid
  <2>2. HandshakeInv(p)'
    BY <1>1, <1>3 DEF SInv, HandshakeInv, TrueSid, Created
  <2>3. HandshakeInv(r)'
    BY <1>3, <1>5, <2>1 DEF HandshakeInv, Handshaking, Locking, TrueSid, Created, Other
  <2>. QED  BY <2>2, <2>3
<1>15. \A m \in Range(net'[r]) : Genuine(p, m)'
  BY <1>12, <1>13
<1>16. \A m \in Range(net'[p]) : Genuine(r, m)'
  BY <1>10, <1>11, <1>13
<1>17. /\ params' = params /\ nonce' = nonce /\ calls' = calls /\ mutator' = mutator
       /\ params \in [Roles -> Params] /\ nonce \in [Roles -> Nonces] /\ mutator \in Mutators
  BY DEF SInv
<1>. QED
  BY <1>1, <1>2, <1>3, <1>6, <1>7, <1>8, <1>13, <1>14, <1>15, <1>16, <1>17 DEF SInv, p
\* What a call of the handshake amounts to, whichever branch it takes.
Settles(r) ==
    \E t, out : hs' = [hs EXCEPT ![r] = t] /\ Consume(r, out) /\ Settled(r, t, out)

HandshakeFields ==
    {"state", "seq", "sid", "transcript", "peerParams", "peerNonce", "seenPeerHello",
     "seenPeerAck", "sentLocalAck", "lastSeq"}

LEMMA HandshakeDomain ==
    DOMAIN Created = HandshakeFields
BY DEF Created, HandshakeFields

LEMMA NoReplies ==
    ASSUME NEW r
    PROVE  Replies(r, <<>>)
BY EmptySeq DEF Replies, Range

LEMMA OneMore ==
    ASSUME NEW r, NEW out, NEW m, Replies(r, out), Reply(r, m)
    PROVE  Replies(r, Append(out, m))
BY RangeAppend DEF Replies

LEMMA AbortSettles ==
    ASSUME NEW r, NEW s, NEW out, NEW code, Handshaking(r, s), Replies(r, out),
           AbortFrom(r, s, out, code)
    PROVE  Settles(r)
<1>. DEFINE m == Message(r, s.seq, s.sid, "abort", [code |-> code])
            t == [s EXCEPT !.seq = @ + 1, !.state = "ABORTED",
                           !.transcript = Append(@, RecordOf(m))]
<1>1. hs' = [hs EXCEPT ![r] = t] /\ Consume(r, Append(out, m))
  BY DEF AbortFrom
<1>2. Reply(r, m)
  BY DEF Reply, Message, Handshaking
<1>3. /\ DOMAIN t = DOMAIN s /\ t.seq = s.seq + 1 /\ t.sid = s.sid /\ t.state = "ABORTED"
      /\ t.peerParams = s.peerParams /\ t.peerNonce = s.peerNonce
  BY HandshakeDomain DEF Handshaking, HandshakeFields
<1>. HIDE DEF m, t
<1>4. Handshaking(r, t)
  BY <1>3 DEF Handshaking
<1>. QED  BY <1>1, <1>2, <1>4, OneMore DEF Settles, Settled

\* A party that is ready to lock holds the peer's parameters and nonce, and locks
\* the sid of both.
LEMMA LockSettles ==
    ASSUME NEW r \in Roles, NEW s, NEW out, Handshaking(r, s), Replies(r, out),
           TryLock(r, s, out), None \notin Params, params \in [Roles -> Params]
    PROVE  Settles(r)
<1>1. CASE ~LockReady(s)
  BY <1>1 DEF TryLock, Settles, Settled
<1>2. CASE LockReady(s) /\ s.peerParams # params[r]
  <2>1. AbortFrom(r, s, out, "PROTOCOL_ERROR")
    BY <1>2 DEF TryLock
  <2>. QED  BY <2>1, AbortSettles
<1>3. CASE LockReady(s) /\ s.peerParams = params[r]
  <2>. DEFINE t == [s EXCEPT !.state = "LOCKED", !.sid = SidOf(r, s.peerNonce)]
  <2>1. hs' = [hs EXCEPT ![r] = t] /\ Consume(r, out \o OnLock(r, SidOf(r, s.peerNonce)))
    BY <1>3 DEF TryLock
  <2>2. s.peerParams = params[Other(r)] /\ s.peerNonce = nonce[Other(r)]
    BY <1>3 DEF LockReady, Handshaking
  <2>3. params["alice"] = params["bob"] /\ SidOf(r, s.peerNonce) = TrueSid
    BY <1>3, <2>2 DEF Other, Roles, SidOf, TrueSid
  <2>4. /\ DOMAIN t = DOMAIN s /\ t.seq = s.seq /\ t.sid = TrueSid /\ t.state = "LOCKED"
        /\ t.peerParams = s.peerParams /\ t.peerNonce = s.peerNonce
    BY <2>3, HandshakeDomain DEF Handshaking, HandshakeFields
  <2>. HIDE DEF t
  <2>5. Locking(r, t)
    BY <2>3, <2>4 DEF Locking, Handshaking
  <2>. QED  BY <2>1, <2>3, <2>5 DEF Settles, Settled
<1>. QED  BY <1>1, <1>2, <1>3

\* The message at the head of r's inbox, if it greets, says who the peer is.
LEMMA HeadGreets ==
    ASSUME NEW r \in Roles, SInv, net[r] # <<>>
    PROVE  LET m == Head(net[r])
           IN  /\ m.seq \in Nat
               /\ m.type \in {"hello", "hello_ack"} =>
                     m.body.params = params[Other(r)] /\ m.body.nonce = nonce[Other(r)]
<1>1. Genuine(Other(r), Head(net[r]))
  BY HeadGenuine
<1>2. ASSUME NEW m, NEW q, Genuine(q, m)
      PROVE  /\ m.seq \in Nat
             /\ m.type \in {"hello", "hello_ack"} =>
                   m.body.params = params[q] /\ m.body.nonce = nonce[q]
  BY <1>2 DEF Genuine, Greeting
<1>. QED  BY <1>1, <1>2

LEMMA GreetedLearnt ==
    ASSUME NEW r, NEW m, NEW s, s = hs[r], Handshaking(r, s),
           m.body.params = params[Other(r)], m.body.nonce = nonce[Other(r)]
    PROVE  Handshaking(r, Greeted(r, m))
<1>. DEFINE t == Greeted(r, m)
<1>1. /\ DOMAIN t = DOMAIN s /\ t.seq = s.seq /\ t.sid = s.sid
      /\ t.state \in {s.state, "GOT_PEER_HELLO"}
      /\ t.peerParams = params[Other(r)] /\ t.peerNonce = nonce[Other(r)]
  BY HandshakeDomain DEF Greeted, Accepted, Handshaking, HandshakeFields
<1>. HIDE DEF t
<1>2. Handshaking(r, t)
  BY <1>1 DEF Handshaking
<1>. QED  BY <1>2 DEF t

LEMMA AcknowledgedLearnt ==
    ASSUME NEW r, NEW s, NEW ack, Handshaking(r, s)
    PROVE  Handshaking(r, Acknowledged(s, ack))
<1>. DEFINE t == Acknowledged(s, ack)
<1>1. /\ DOMAIN t = DOMAIN s /\ t.seq = s.seq + 1 /\ t.sid = s.sid /\ t.state = "SENT_ACK"
      /\ t.peerParams = s.peerParams /\ t.peerNonce = s.peerNonce
  BY HandshakeDomain DEF Acknowledged, Handshaking, HandshakeFields
<1>. HIDE DEF t
<1>2. Handshaking(r, t)
  BY <1>1 DEF Handshaking
<1>. QED  BY <1>2 DEF t

\* What a hello_ack leaves, with the nonce and the parameters it may bring.
LEMMA AckLearnt ==
    ASSUME NEW r, NEW m, NEW s, s = hs[r], Handshaking(r, s),
           m.body.params = params[Other(r)], m.body.nonce = nonce[Other(r)]
    PROVE  LET a == [Accepted(r, m) EXCEPT !.seenPeerAck = TRUE]
               n == [a EXCEPT !.peerNonce = IF @ = None THEN m.body.nonce ELSE @]
               p == [n EXCEPT !.peerParams = IF @ = None THEN m.body.params ELSE @]
           IN  Handshaking(r, a) /\ Handshaking(r, n) /\ Handshaking(r, p)
<1>. DEFINE a == [Accepted(r, m) EXCEPT !.seenPeerAck = TRUE]
            n == [a EXCEPT !.peerNonce = IF @ = None THEN m.body.nonce ELSE @]
            p == [n EXCEPT !.peerParams = IF @ = None THEN m.body.params ELSE @]
<1>1. /\ DOMAIN a = DOMAIN s /\ DOMAIN s = HandshakeFields
      /\ a.seq = s.seq /\ a.sid = s.sid /\ a.state = s.state
      /\ a.peerParams = s.peerParams /\ a.peerNonce = s.peerNonce
  BY HandshakeDomain DEF Accepted, Handshaking, HandshakeFields
<1>. HIDE DEF a
<1>2. Handshaking(r, a)
  BY <1>1 DEF Handshaking
<1>3. /\ DOMAIN n = DOMAIN a /\ n.seq = a.seq /\ n.sid = a.sid /\ n.state = a.state
      /\ n.peerParams = a.peerParams /\ n.peerNonce \in {a.peerNonce, m.body.nonce}
  BY <1>1 DEF HandshakeFields
<1>. HIDE DEF n
<1>4. Handshaking(r, n)
  BY <1>2, <1>3 DEF Handshaking
<1>5. /\ DOMAIN p = DOMAIN n /\ p.seq = n.seq /\ p.sid = n.sid /\ p.state = n.state
      /\ p.peerNonce = n.peerNonce /\ p.peerParams \in {n.peerParams, m.body.params}
  BY <1>1, <1>3 DEF HandshakeFields
<1>. HIDE DEF p
<1>6. Handshaking(r, p)
  BY <1>4, <1>5 DEF Handshaking
<1>. QED  BY <1>2, <1>4, <1>6 DEF a, n, p

\* Every handler of the handshake settles the call.
LEMMA HandlersSettle ==
    ASSUME NEW r \in Roles, SInv, ss[r].state = "HANDSHAKE", net[r] # <<>>,
           Head(net[r]).type # "malformed", HandleIncoming(r)
    PROVE  Settles(r)
<1>. DEFINE m == Head(net[r])
<1>1. Handshaking(r, hs[r])
  <2>1. ~Locked(r)
    BY NothingYet DEF SInv
  <2>. QED  BY <2>1 DEF SInv, HandshakeInv, Handshaking, Locked
<1>2. /\ m.seq \in Nat
      /\ m.type \in {"hello", "hello_ack"} =>
            m.body.params = params[Other(r)] /\ m.body.nonce = nonce[Other(r)]
  BY HeadGreets
<1>3. /\ None \notin Params /\ params \in [Roles -> Params]
      /\ hs = [q \in Roles |-> hs[q]] /\ DOMAIN hs[r] = HandshakeFields
  BY <1>1, HandshakeAssumption, HandshakeDomain DEF SInv, Handshaking
<1>4. Replies(r, <<>>)
  BY NoReplies
<1>5. CASE RcvClosed(r)
  <2>1. hs' = [hs EXCEPT ![r] = hs[r]] /\ Consume(r, <<>>)
    BY <1>3, <1>5 DEF RcvClosed
  <2>. QED  BY <1>1, <1>4, <2>1 DEF Settles, Settled
<1>6. CASE RcvMalformed(r)
  BY <1>6 DEF RcvMalformed
<1>7. CASE RcvReplay(r)
  BY <1>1, <1>4, <1>7, AbortSettles DEF RcvReplay
<1>8. CASE RcvUnexpectedSid(r)
  <2>. DEFINE s == [hs[r] EXCEPT !.lastSeq = m.seq]
  <2>1. AbortFrom(r, s, <<>>, "PROTOCOL_ERROR")
    BY <1>8 DEF RcvUnexpectedSid
  <2>2. /\ DOMAIN s = DOMAIN hs[r] /\ s.seq = hs[r].seq /\ s.sid = hs[r].sid
        /\ s.state = hs[r].state
        /\ s.peerParams = hs[r].peerParams /\ s.peerNonce = hs[r].peerNonce
    BY <1>3 DEF HandshakeFields
  <2>. HIDE DEF s
  <2>3. Handshaking(r, s)
    BY <1>1, <2>2 DEF Handshaking
  <2>. QED  BY <1>4, <2>1, <2>3, AbortSettles
<1>9. CASE RcvHelloMismatch(r)
  <2>1. m.type = "hello" /\ AbortFrom(r, Greeted(r, m), <<>>, "PROTOCOL_ERROR")
    BY <1>9 DEF RcvHelloMismatch
  <2>. HIDE DEF m
  <2>2. Handshaking(r, Greeted(r, m))
    BY <1>1, <1>2, <2>1, GreetedLearnt
  <2>. QED  BY <1>4, <2>1, <2>2, AbortSettles
<1>10. CASE RcvHello(r)
  <2>. DEFINE s == Greeted(r, m)
              ack == Message(r, s.seq, NoSid, "hello_ack", Greeting(r))
  <2>1. /\ m.type = "hello"
        /\ TryLock(r, s, <<>>) \/ TryLock(r, Acknowledged(s, ack), <<ack>>)
    BY <1>10 DEF RcvHello
  <2>2. Handshaking(r, s)
    <3>. HIDE DEF m
    <3>. QED  BY <1>1, <1>2, <2>1, GreetedLearnt
  <2>3. Reply(r, ack)
    <3>1. s.seq \in Nat
      BY <2>2 DEF Handshaking
    <3>. HIDE DEF s
    <3>. QED  BY <3>1 DEF Reply, Message
  <2>. HIDE DEF m, s, ack
  <2>4. Handshaking(r, Acknowledged(s, ack))
    BY <2>2, AcknowledgedLearnt
  <2>5. Replies(r, <<ack>>)
    <3>1. Append(<<>>, ack) = <<ack>>
      OBVIOUS
    <3>. QED  BY <1>4, <2>3, <3>1, OneMore
  <2>. QED  BY <1>3, <1>4, <2>1, <2>2, <2>4, <2>5, LockSettles
<1>11. CASE RcvHelloAck(r)
  <2>. DEFINE a == [Accepted(r, m) EXCEPT !.seenPeerAck = TRUE]
              n == [a EXCEPT !.peerNonce = IF @ = None THEN m.body.nonce ELSE @]
              p == [n EXCEPT !.peerParams = IF @ = None THEN m.body.params ELSE @]
  <2>1. /\ m.type = "hello_ack"
        /\ \/ AbortFrom(r, a, <<>>, "BAD_MESSAGE") \/ AbortFrom(r, n, <<>>, "BAD_MESSAGE")
           \/ TryLock(r, p, <<>>)
    BY <1>11 DEF RcvHelloAck
  <2>2. Handshaking(r, a) /\ Handshaking(r, n) /\ Handshaking(r, p)
    <3>. HIDE DEF m
    <3>. QED  BY <1>1, <1>2, <2>1, AckLearnt
  <2>. HIDE DEF a, n, p
  <2>. QED  BY <1>3, <1>4, <2>1, <2>2, AbortSettles, LockSettles
<1>12. CASE RcvOther(r)
  <2>. DEFINE t == [Accepted(r, m) EXCEPT
                       !.state = IF m.type = "abort" THEN "ABORTED" ELSE @]
  <2>1. hs' = [hs EXCEPT ![r] = t] /\ Consume(r, <<>>)
    BY <1>12 DEF RcvOther
  <2>2. /\ DOMAIN t = DOMAIN hs[r] /\ t.seq = hs[r].seq /\ t.sid = hs[r].sid
        /\ t.state \in {hs[r].state, "ABORTED"}
        /\ t.peerParams = hs[r].peerParams /\ t.peerNonce = hs[r].peerNonce
    BY <1>3 DEF HandshakeFields, Accepted
  <2>. HIDE DEF t
  <2>3. Handshaking(r, t)
    BY <1>1, <2>2 DEF Handshaking
  <2>. QED  BY <1>4, <2>1, <2>3 DEF Settles, Settled
<1>. QED
  BY <1>5, <1>6, <1>7, <1>8, <1>9, <1>10, <1>11, <1>12 DEF HandleIncoming

LEMMA RcvHandshakeKeeps ==
    ASSUME NEW r \in Roles, SInv, RcvHandshake(r)
    PROVE  SInv'
<1>1. PICK t, out : hs' = [hs EXCEPT ![r] = t] /\ Consume(r, out) /\ Settled(r, t, out)
  BY HandlersSettle DEF RcvHandshake, Settles
<1>2. hs'[r] = t
  BY <1>1 DEF SInv
<1>3. UNCHANGED <<params, nonce, calls, mutator>>
  BY DEF RcvHandshake, HandleIncoming, RcvClosed, RcvMalformed, RcvReplay,
         RcvUnexpectedSid, RcvHelloMismatch, RcvHello, RcvHelloAck, RcvOther
<1>4. /\ ss[r].state = "HANDSHAKE" /\ net[r] # <<>>
      /\ ss' = [ss EXCEPT ![r] =
             CASE t.state = "LOCKED"  -> AfterLock(r, @, t.sid)
               [] t.state = "ABORTED" -> [@ EXCEPT !.state = "ABORTED"]
               [] OTHER               -> @]
  BY <1>2 DEF RcvHandshake
<1>. QED  BY <1>1, <1>3, <1>4, HandshakeTurn
-----------------------------------------------------------------------------
(* The call that starts the handshake, the network and the beginning *)

LEMMA StartHandshakeKeeps ==
    ASSUME NEW r \in Roles, SInv, StartHandshake(r)
    PROVE  SInv'
<1>. DEFINE p == Other(r)
            hello == Message(r, hs[r].seq, NoSid, "hello", Greeting(r))
<1>1. p \in Roles /\ p # r /\ Other(p) = r /\ \A q \in Roles : q = r \/ q = p
  BY OtherRole
<1>2. /\ hs[r].state = "INIT" /\ UNCHANGED <<params, nonce, ss, calls, mutator>>
      /\ net' = [net EXCEPT ![p] = Append(@, hello)]
      /\ hs' = [hs EXCEPT ![r].seq = @ + 1, ![r].state = "SENT_HELLO",
                          ![r].transcript = Append(@, RecordOf(hello))]
  BY DEF StartHandshake, Start
<1>3. /\ hs = [q \in Roles |-> hs[q]] /\ net = [q \in Roles |-> net[q]]
      /\ DOMAIN hs[r] = HandshakeFields /\ hs[r].seq \in Nat
  BY HandshakeDomain DEF SInv, HandshakeInv
<1>4. /\ hs' = [q \in Roles |-> hs'[q]] /\ hs'[p] = hs[p]
      /\ DOMAIN hs'[r] = DOMAIN hs[r] /\ hs'[r].seq = hs[r].seq + 1
      /\ hs'[r].state = "SENT_HELLO" /\ hs'[r].sid = hs[r].sid
      /\ hs'[r].peerParams = hs[r].peerParams /\ hs'[r].peerNonce = hs[r].peerNonce
  BY <1>1, <1>2, <1>3 DEF HandshakeFields
<1>5. Reply(r, hello)
  BY <1>3 DEF Reply, Message
<1>. HIDE DEF p, hello
<1>6. ~Locked(r) /\ ~Locked(r)' /\ (Locked(p)' <=> Locked(p))
  BY <1>2, <1>4 DEF Locked
<1>7. HandshakeInv(r)' /\ HandshakeInv(p)'
  <2>1. HandshakeInv(r) /\ HandshakeInv(p)
    BY <1>1 DEF SInv
  <2>2. HandshakeInv(p)'
    BY <1>2, <1>4, <2>1 DEF HandshakeInv, Locked, TrueSid, Created, Other
  <2>3. /\ DOMAIN hs'[r] = DOMAIN Created /\ hs'[r].seq \in Nat /\ hs'[r].sid = NoSid
        /\ hs'[r].peerParams \in {None, params[p]}
        /\ hs'[r].peerNonce \in {None, nonce[p]}
    BY <1>3, <1>4, <1>6, <2>1, HandshakeDomain DEF HandshakeInv, p
  <2>4. HandshakeInv(r)'
    BY <1>2, <1>6, <2>3 DEF HandshakeInv, Created, Other, p
  <2>. QED  BY <2>2, <2>4
<1>8. \A q \in Roles : LocalInv(q, ss[q], calls[q])'
  <2>1. \A q \in Roles : LocalInv(q, ss'[q], calls'[q])
    BY <1>2 DEF SInv
  <2>2. \A q \in Roles : (Locked(q)' <=> Locked(q)) /\ hs'[q].sid = hs[q].sid
    BY <1>1, <1>4, <1>6
  <2>3. \A q \in Roles : ss'[q].state = "HANDSHAKE" => hs'[q].state # "ABORTED"
    BY <1>1, <1>4, <2>1 DEF LocalInv, CoreInv, StateInv
  <2>. QED  BY <1>2, <2>1, <2>2, <2>3, LocalStays
<1>9. \A q \in Roles : Shared(q, ss[q])'
  BY <1>2 DEF SInv, Shared, Other
<1>10. \A m \in Range(net[r]) : Genuine(p, m)'
  <2>1. \A m \in Range(net[r]) : Genuine(p, m)
    BY DEF SInv, p
  <2>. QED  BY <1>2, <1>4, <2>1, GenuineWaits
<1>11. \A m \in Range(net[p]) : Genuine(r, m)'
  <2>1. \A m \in Range(net[p]) : Genuine(r, m)
    BY <1>1 DEF SInv
  <2>. QED  BY <1>2, <1>6, <2>1, GreetingStays
<1>12. ASSUME NEW m, m = hello
       PROVE  Genuine(r, m)'
  BY <1>2, <1>5, <1>12, ReplyGenuine
<1>13. /\ net'[r] = net[r] /\ net'[p] \in Seq(Range(net'[p]))
       /\ Range(net'[p]) = Range(net[p]) \cup {hello}
       /\ net' = [q \in Roles |-> net'[q]] /\ net[r] \in Seq(Range(net[r]))
  <2>1. /\ net'[r] = net[r] /\ net'[p] = Append(net[p], hello)
        /\ net' = [q \in Roles |-> net'[q]]
    BY <1>1, <1>2, <1>3
  <2>2. net[p] \in Seq(Range(net[p])) /\ net[r] \in Seq(Range(net[r]))
    BY <1>1 DEF SInv
  <2>3. /\ Append(net[p], hello) \in Seq(Range(Append(net[p], hello)))
        /\ Range(Append(net[p], hello)) = Range(net[p]) \cup {hello}
    BY <2>2, RangeAppend
  <2>. QED  BY <2>1, <2>2, <2>3
<1>14. \A m \in Range(net'[r]) : Genuine(p, m)'
  BY <1>10, <1>13
<1>15. \A m \in Range(net'[p]) : Genuine(r, m)'
  <2>1. ASSUME NEW m \in Range(net'[p])
        PROVE  Genuine(r, m)'
    BY <1>11, <1>12, <1>13
  <2>. QED  BY <2>1
<1>16. /\ params' = params /\ nonce' = nonce /\ ss' = ss /\ calls' = calls
       /\ mutator' = mutator
       /\ params \in [Roles -> Params] /\ nonce \in [Roles -> Nonces]
       /\ mutator \in Mutators /\ ss = [q \in Roles |-> ss[q]]
       /\ calls = [q \in Roles |-> calls[q]]
  BY <1>2 DEF SInv
<1>. QED
  BY <1>1, <1>4, <1>7, <1>8, <1>9, <1>13, <1>14, <1>15, <1>16 DEF SInv, p

\* An inbox of genuine messages may take the place of another.
LEMMA FaultKeeps ==
    ASSUME NEW r \in Roles, NEW S, NEW t, t \in Seq(S), SInv,
           \A m \in S : Genuine(Other(r), m), net' = [net EXCEPT ![r] = t],
           UNCHANGED <<params, nonce, hs, ss, calls, mutator>>
    PROVE  SInv'
<1>1. t \in Seq(Range(t)) /\ Range(t) \subseteq S
  <2>1. DOMAIN t = 1 .. Len(t) /\ \A i \in 1 .. Len(t) : t[i] \in S
    BY LenProperties, ElementOfSeq
  <2>2. \A i \in 1 .. Len(t) : t[i] \in Range(t)
    BY <2>1 DEF Range
  <2>3. t \in [1 .. Len(t) -> Range(t)] /\ Len(t) \in Nat
    BY <2>1, <2>2, LenProperties
  <2>4. t \in Seq(Range(t))
    BY <2>3
  <2>. QED  BY <2>1, <2>4 DEF Range
<1>2. net = [q \in Roles |-> net[q]]
  BY DEF SInv
<1>3. /\ net'[r] = t /\ \A q \in Roles : q # r => net'[q] = net[q]
      /\ net' = [q \in Roles |-> net'[q]]
  BY <1>2
<1>4. \A q \in Roles : LocalInv(q, ss[q], calls[q])'
  <2>1. \A q \in Roles : LocalInv(q, ss'[q], calls'[q])
    BY DEF SInv
  <2>2. \A q \in Roles : ss'[q].state = "HANDSHAKE" => hs'[q].state # "ABORTED"
    BY <2>1 DEF LocalInv, CoreInv, StateInv
  <2>. QED  BY <2>1, <2>2, LocalStays DEF Locked
<1>5. \A q \in Roles : HandshakeInv(q)' /\ Shared(q, ss[q])'
  BY HandshakeStays DEF SInv, Shared, Other
<1>6. \A q \in Roles : net'[q] \in Seq(Range(net'[q]))
  BY <1>1, <1>3 DEF SInv
<1>7. \A q \in Roles : \A m \in Range(net'[q]) : Genuine(Other(q), m)
  BY <1>1, <1>3 DEF SInv
<1>8. \A q \in Roles : \A m \in Range(net'[q]) : Genuine(Other(q), m)'
  BY <1>7, GenuineStays
<1>9. /\ params' = params /\ nonce' = nonce /\ hs' = hs /\ ss' = ss /\ calls' = calls
      /\ mutator' = mutator
      /\ params \in [Roles -> Params] /\ nonce \in [Roles -> Nonces]
      /\ mutator \in Mutators /\ ss = [q \in Roles |-> ss[q]]
      /\ calls = [q \in Roles |-> calls[q]] /\ hs = [q \in Roles |-> hs[q]]
  BY DEF SInv
<1>. QED  BY <1>3, <1>4, <1>5, <1>6, <1>8, <1>9 DEF SInv, Other

\* A garbled message is as genuine as any: nothing is asked of it.
Garbled(m) == [m EXCEPT !.type = "malformed"]

LEMMA GarbledGenuine ==
    ASSUME NEW q, NEW m, Genuine(q, m)
    PROVE  Genuine(q, Garbled(m)) /\ Garbled(Garbled(m)) = Garbled(m)
<1>1. "malformed" \notin DOMAIN StageOf
  BY PostTypes
<1>2. m = Message(q, m.seq, m.sid, m.type, m.body) /\ m.seq \in Nat
  BY DEF Genuine
<1>3. /\ Garbled(m) = Message(q, m.seq, m.sid, "malformed", m.body)
      /\ Garbled(Garbled(m)) = Garbled(m)
  <2>1. ASSUME NEW seq, NEW sid, NEW type, NEW body
        PROVE  Garbled(Message(q, seq, sid, type, body))
                   = Message(q, seq, sid, "malformed", body)
    BY DEF Message, Garbled
  <2>. QED  BY <1>2, <2>1
<1>4. ASSUME NEW g, g = Message(q, m.seq, m.sid, "malformed", m.body)
      PROVE  Genuine(q, g)
  BY <1>1, <1>2, <1>4 DEF Genuine, Message
<1>. QED  BY <1>3, <1>4

LEMMA NetworkKeeps ==
    ASSUME SInv, SessionNetwork
    PROVE  SInv'
<1>1. PICK r \in Roles : Duplicate(r) \/ Lose(r) \/ Reorder(r) \/ Corrupt(r)
  BY DEF SessionNetwork, Network
<1>. DEFINE S == Range(net[r]) \cup {Garbled(m) : m \in Range(net[r])}
<1>2. net[r] \in Seq(Range(net[r])) /\ net = [q \in Roles |-> net[q]]
  BY DEF SInv
<1>3. \A m \in Range(net[r]) : Genuine(Other(r), m)
  BY DEF SInv
<1>4. \A m \in S : Genuine(Other(r), m) /\ [m EXCEPT !.type = "malformed"] \in S
  <2>1. \A m \in Range(net[r]) :
            Genuine(Other(r), Garbled(m)) /\ Garbled(Garbled(m)) = Garbled(m)
    BY <1>3, GarbledGenuine
  <2>2. \A m \in S : Genuine(Other(r), m) /\ Garbled(m) \in S
    BY <1>3, <2>1
  <2>. QED  BY <2>2 DEF Garbled
<1>5. net[r] \in Seq(S)
  <2>1. Range(net[r]) \subseteq S
    OBVIOUS
  <2>. HIDE DEF S
  <2>. QED  BY <1>2, <2>1
<1>. HIDE DEF S
<1>6. PICK t \in Seq(S) : net' = [net EXCEPT ![r] = t]
  BY <1>1, <1>2, <1>4, <1>5, FaultSeq
<1>7. \E kind : MayFail(kind)
  BY <1>1, <1>2, <1>4, <1>5, FaultSeq
<1>8. UNCHANGED <<params, nonce, hs, ss, calls, mutator>>
  BY <1>7 DEF MayFail, SessionNetwork
<1>. QED  BY <1>4, <1>6, <1>8, FaultKeeps

\* An offer that was given a flaw on its way.
LEMMA FlawedGenuine ==
    ASSUME NEW q, NEW m, Genuine(q, m), m.type = "capsule_offer",
           NEW flaw \in CapsuleFlaws
    PROVE  Genuine(q, [m EXCEPT !.body.flaw = flaw])
<1>. DEFINE b == [target |-> Other(q), flaw |-> flaw]
            f == Message(q, m.seq, m.sid, "capsule_offer", b)
<1>1. /\ m = Message(q, m.seq, m.sid, m.type, m.body) /\ m.seq \in Nat
      /\ Locked(q) /\ m.sid = hs[q].sid
      /\ m.body = [target |-> Other(q), flaw |-> m.body.flaw]
  BY PostTypes DEF Genuine
<1>2. [m EXCEPT !.body.flaw = flaw] = f
  <2>1. [m.body EXCEPT !.flaw = flaw] = b
    BY <1>1
  <2>2. [m EXCEPT !.body.flaw = flaw] = [m EXCEPT !.body = [m.body EXCEPT !.flaw = flaw]]
    BY <1>1 DEF Message
  <2>3. [m EXCEPT !.body = b] = f
    BY <1>1 DEF Message
  <2>. QED  BY <2>1, <2>2, <2>3
<1>3. b.flaw = flaw /\ b = [target |-> Other(q), flaw |-> b.flaw]
  OBVIOUS
<1>4. Genuine(q, f)
  <2>. HIDE DEF b
  <2>1. /\ f.type = "capsule_offer" /\ f.body = b /\ f.seq = m.seq /\ f.sid = m.sid
        /\ f = Message(q, f.seq, f.sid, f.type, f.body)
    BY DEF Message
  <2>. HIDE DEF f
  <2>. QED  BY <1>1, <1>3, <2>1 DEF Genuine
<1>. QED  BY <1>2, <1>4

LEMMA TamperCapsuleKeeps ==
    ASSUME NEW r \in Roles, SInv, TamperCapsule(r)
    PROVE  SInv'
<1>1. UNCHANGED <<params, nonce, hs, ss, calls, mutator>>
  BY DEF TamperCapsule, MayFail
<1>2. PICK i \in DOMAIN net[r], flaw \in CapsuleFlaws :
          net[r][i].type = "capsule_offer" /\ net' = [net EXCEPT ![r][i].body.flaw = flaw]
  BY DEF TamperCapsule
<1>. DEFINE x == [net[r][i] EXCEPT !.body.flaw = flaw]
            S == Range(net[r]) \cup {x}
            t == [net[r] EXCEPT ![i] = x]
<1>3. net[r] \in Seq(Range(net[r])) /\ net = [q \in Roles |-> net[q]]
  BY DEF SInv
<1>4. net[r][i] \in Range(net[r]) /\ i \in 1 .. Len(net[r])
  BY <1>3, LenProperties DEF Range
<1>5. Genuine(Other(r), x)
  <2>1. Genuine(Other(r), net[r][i])
    BY <1>4 DEF SInv
  <2>. QED  BY <1>2, <2>1, FlawedGenuine
<1>6. net' = [net EXCEPT ![r] = t]
  BY <1>2
<1>. HIDE DEF x
<1>7. t \in Seq(S)
  <2>1. x \in S /\ Range(net[r]) \subseteq S
    OBVIOUS
  <2>. HIDE DEF S
  <2>2. net[r] \in Seq(S)
    BY <1>3, <2>1
  <2>. QED  BY <1>4, <2>1, <2>2, ExceptSeq
<1>8. \A m \in S : Genuine(Other(r), m)
  BY <1>5 DEF SInv
<1>. HIDE DEF S, t
<1>. QED  BY <1>1, <1>6, <1>7, <1>8, FaultKeeps
\* A session without a record, a milestone or a value in its fields.
LEMMA CreatedInv ==
    ASSUME NEW r \in Roles, NEW s, NEW c, s = SessionCreated,
           ~Locked(r), hs[r].state # "ABORTED"
    PROVE  LocalInv(r, s, c)
<1>1. /\ DOMAIN s = SessionFields /\ s.state = "HANDSHAKE" /\ s.postSeq = FirstPostSeq
      /\ s.lastPostSeq = -1 /\ s.post = <<>> /\ s.peerMpc = None
      /\ s.capsuleReceived = FALSE /\ s.capsuleAcked = FALSE
      /\ s.localNonces = None /\ s.peerNonces = None /\ s.feeParams = None
      /\ s.feeAcked = FALSE /\ s.templates = None /\ s.peerCommitHash = None
      /\ s.localCommitAcked = FALSE /\ s.peerTxBHash = None /\ s.peerTxAHash = None
  BY DEF SessionCreated, SessionFields
<1>2. /\ s.fundingTx = [q \in Roles |-> s.fundingTx[q]]
      /\ s.fundingConfirmed \in [Roles -> BOOLEAN]
      /\ \A q \in Roles : s.fundingTx[q] = None
  BY DEF SessionCreated
<1>3. /\ DOMAIN s.legs = Legs
      /\ \A leg \in Legs :
            /\ DOMAIN s.legs[leg] = {"T", "adaptorSig", "acked"}
            /\ s.legs[leg].T = None /\ s.legs[leg].adaptorSig = None
            /\ s.legs[leg].acked = FALSE
  BY DEF SessionCreated
<1>4. /\ DOMAIN s.milestones = Milestones
      /\ \A event \in Milestones : ~Passed(s, event)
  BY DEF SessionCreated, Passed
<1>. HIDE DEF SessionCreated
<1>5. Range(s.post) = {} /\ s.post \in Seq(Range(s.post)) /\ Distinct(s.post)
  BY <1>1, EmptySeq DEF Range, Distinct
<1>6. /\ \A type, q : From(s, type, q) = {}
      /\ \A type, q, leg : FromLeg(s, type, q, leg) = {}
  BY <1>5 DEF From, FromLeg
<1>7. StateInv(r, s)
  BY <1>1, <1>4, <1>5, MilestoneSet DEF StateInv
<1>8. NumberInv(r, s)
  BY <1>1, <1>5 DEF NumberInv, FirstPostSeq
<1>9. LogInv(s)
  BY <1>4, <1>5 DEF LogInv
<1>10. KeygenInv(r, s) /\ CapsuleInv(r, s)
  BY <1>1, <1>4, <1>6, MilestoneSet DEF KeygenInv, CapsuleInv, AtMostOne
<1>11. FundingInv(r, s, c)
  BY <1>2, <1>4, <1>6, MilestoneSet DEF FundingInv, AtMostOne
<1>12. PrepInv(r, s, c) /\ TemplateInv(r, s)
  BY <1>1, <1>4, <1>6, MilestoneSet DEF PrepInv, TemplateInv, AtMostOne
<1>13. AdaptorInv(r, s)
  <2>1. \A leg \in Legs : LegInv(r, s, leg)
    BY <1>3, <1>6 DEF LegInv, AtMostOne
  <2>. QED  BY <1>3, <1>4, <1>5, <2>1, MilestoneSet DEF AdaptorInv
<1>14. BroadcastInv(r, s, c) /\ PlanInv(r, s)
  BY <1>1, <1>3, <1>5, <1>6 DEF BroadcastInv, PlanInv, Legs, AtMostOne
<1>. QED
  BY <1>1, <1>7, <1>8, <1>9, <1>10, <1>11, <1>12, <1>13, <1>14 DEF LocalInv, CoreInv

LEMMA SessionStarts ==
    ASSUME SessionInit
    PROVE  SInv
<1>1. /\ params \in [Roles -> Params] /\ nonce \in [Roles -> Nonces]
      /\ hs = [r \in Roles |-> Created] /\ net = [r \in Roles |-> <<>>]
      /\ ss = [r \in Roles |-> SessionCreated] /\ calls = [r \in Roles |-> {}]
      /\ mutator \in Mutators
  BY DEF SessionInit, Init
<1>2. \A r \in Roles : hs[r] = Created /\ ~Locked(r) /\ hs[r].state # "ABORTED"
  BY <1>1 DEF Locked, Created
<1>3. \A r \in Roles : HandshakeInv(r)
  BY <1>2 DEF HandshakeInv, Created, Locked
<1>4. \A r \in Roles : LocalInv(r, ss[r], calls[r])
  BY <1>1, <1>2, CreatedInv
<1>5. \A r \in Roles : Shared(r, ss[r])
  <2>1. \A r \in Roles : Range(ss[r].post) = {}
    BY <1>1, EmptySeq DEF SessionCreated, Range
  <2>. QED  BY <2>1 DEF Shared
<1>6. \A r \in Roles : net[r] \in Seq(Range(net[r])) /\ Range(net[r]) = {}
  BY <1>1, EmptySeq DEF Range
<1>. HIDE DEF SessionCreated
<1>. QED  BY <1>1, <1>3, <1>4, <1>5, <1>6 DEF SInv

\* What r hears and what its client calls keeps SInv, and once its handshake is over
\* it is a turn of r's.
LEMMA TurnsKeep ==
    ASSUME NEW r \in Roles, SInv
    PROVE  /\ SessionIncoming(r) => SInv' /\ (RcvHandshake(r) \/ Tells(r))
           /\ ClientCalls(r) => SInv' /\ Tells(r)
<1>1. ASSUME SessionIncoming(r)
      PROVE  SInv' /\ (RcvHandshake(r) \/ Tells(r))
  BY <1>1, RcvHandshakeKeeps, RcvRestKeeps, RcvUnusedKeeps, RcvKeygenAnnounceKeeps,
     RcvCapsuleOfferKeeps, RcvCapsuleAckKeeps, RcvFundingTxKeeps, RcvNonceReportKeeps,
     RcvFeeParamsKeeps, RcvFeeParamsAckKeeps, RcvTemplateCommitKeeps,
     RcvTemplateAckKeeps, RcvAdaptorStartKeeps, RcvAdaptorRespKeeps,
     RcvAdaptorAckKeeps, RcvTxBBroadcastKeeps, RcvTxABroadcastKeeps
     DEF SessionIncoming
<1>2. ASSUME ClientCalls(r)
      PROVE  SInv' /\ Tells(r)
  BY <1>2, EmitFundingTxKeeps, NotifyFundingConfirmedKeeps, OnExecPrepStartedKeeps,
     AnnouncementsKeep
     DEF ClientCalls
<1>. QED  BY <1>1, <1>2

LEMMA SessionSteps ==
    ASSUME SInv, SessionNext
    PROVE  SInv'
BY TurnsKeep, StartHandshakeKeeps, NetworkKeeps, TamperCapsuleKeeps DEF SessionNext

\* SInv speaks of these variables only.
LEMMA SessionStutters ==
    ASSUME SInv, UNCHANGED sessionVars
    PROVE  SInv'
<1>1. /\ params' = params /\ nonce' = nonce /\ hs' = hs /\ net' = net /\ ss' = ss
      /\ calls' = calls /\ mutator' = mutator
  BY DEF sessionVars
<1>2. \A q \in Roles : LocalInv(q, ss[q], calls[q])'
  <2>1. \A q \in Roles : LocalInv(q, ss'[q], calls'[q])
    BY <1>1 DEF SInv
  <2>2. \A q \in Roles : ss'[q].state = "HANDSHAKE" => hs'[q].state # "ABORTED"
    BY <1>1, <2>1 DEF LocalInv, CoreInv, StateInv
  <2>. QED  BY <1>1, <2>1, <2>2, LocalStays DEF Locked
<1>3. \A q \in Roles : HandshakeInv(q)' /\ Shared(q, ss[q])'
  BY <1>1, HandshakeStays DEF SInv, Shared, Other
<1>4. \A q \in Roles : \A m \in Range(net'[q]) : Genuine(Other(q), m)'
  <2>1. \A q \in Roles : \A m \in Range(net'[q]) : Genuine(Other(q), m)
    BY <1>1 DEF SInv
  <2>. QED  BY <1>1, <2>1, GenuineStays
<1>. QED  BY <1>1, <1>2, <1>3, <1>4 DEF SInv, Other

-----------------------------------------------------------------------------
(* The inductive invariant *)

\* SInv holds in every state of every session: whatever the network duplicates,
\* loses, reorders, garbles or tampers with, in whatever order the clients call.
THEOREM SessionInvariance == SessionSpec => []SInv
<1>1. SessionInit => SInv
  BY SessionStarts
<1>2. SInv /\ [SessionNext]_sessionVars => SInv'
  BY SessionSteps, SessionStutters
<1>. QED  BY <1>1, <1>2, PTL DEF SessionSpec
-----------------------------------------------------------------------------
(* What SInv says of two parties *)

\* A record of the peer's is one the peer has.
LEMMA PeerRecord ==
    ASSUME SInv, NEW r \in Roles, NEW type, NEW x \in From(ss[r], type, Other(r))
    PROVE  x \in From(ss[Other(r)], type, Other(r))
<1>1. Shared(r, ss[r])
  BY DEF SInv
<1>. QED  BY <1>1 DEF Shared, From

LEMMA PeerLegRecord ==
    ASSUME SInv, NEW r \in Roles, NEW type, NEW leg,
           NEW x \in FromLeg(ss[r], type, Other(r), leg)
    PROVE  x \in FromLeg(ss[Other(r)], type, Other(r), leg)
BY PeerRecord DEF FromLeg

LEMMA PartyInv ==
    ASSUME SInv, NEW r \in Roles
    PROVE  /\ StateInv(r, ss[r]) /\ NumberInv(r, ss[r]) /\ LogInv(ss[r])
           /\ KeygenInv(r, ss[r]) /\ CapsuleInv(r, ss[r]) /\ FundingInv(r, ss[r], calls[r])
           /\ PrepInv(r, ss[r], calls[r]) /\ TemplateInv(r, ss[r]) /\ AdaptorInv(r, ss[r])
           /\ BroadcastInv(r, ss[r], calls[r]) /\ PlanInv(r, ss[r])
BY DEF SInv, LocalInv, CoreInv

LEMMA ReachedPassed ==
    ASSUME NEW r, NEW event
    PROVE  Reached(r, event) <=> Passed(ss[r], event)
BY DEF Reached, Passed

\* A party that has the peer's key locked the sid the key is of.
LEMMA PeerKey ==
    ASSUME SInv, NEW r \in Roles
    PROVE  ss[r].peerMpc \in {None, <<Other(r), hs[r].sid>>}
<1>. DEFINE p == Other(r)
<1>1. p \in Roles /\ KeygenInv(r, ss[r]) /\ KeygenInv(p, ss[p])
  BY OtherRole, PartyInv
<1>2. ASSUME ss[r].peerMpc # None
      PROVE  ss[r].peerMpc = <<p, hs[r].sid>>
  <2>1. PICK x : x \in From(ss[r], "keygen_announce", p)
    BY <1>1, <1>2 DEF KeygenInv
  <2>2. x \in From(ss[p], "keygen_announce", p)
    BY <2>1, PeerRecord
  <2>3. x.body = [keyOf |-> <<p, hs[p].sid>>] /\ ss[r].peerMpc = x.body.keyOf
    BY <1>1, <2>1, <2>2 DEF KeygenInv
  <2>4. Locked(r) /\ Locked(p)
    BY <1>1, <1>2, <2>2 DEF KeygenInv
  <2>. QED  BY <1>1, <2>3, <2>4, LockedSids
<1>. QED  BY <1>2

LEMMA CreatedFields == DOMAIN SessionCreated = SessionFields
BY DEF SessionCreated, SessionFields

\* Every field of both sessions keeps the shape the source gives it; a session opens
\* exactly with its lock and has then used the announcement's number, and it does not
\* outlive an abort of its handshake.
THEOREM SessionTypes == SessionSpec => []SessionTypeOK
<1>1. SInv => SessionTypeOK
  <2>. SUFFICES ASSUME SInv PROVE SessionTypeOK
    OBVIOUS
  <2>. DEFINE s(r) == ss[r]
  <2>1. ASSUME NEW r \in Roles
        PROVE  /\ DOMAIN s(r) = DOMAIN SessionCreated
               /\ s(r).state \in {"HANDSHAKE", "ABORTED"} \cup
                                     {StageOf[t] : t \in DOMAIN StageOf}
               /\ s(r).postSeq \in Nat /\ s(r).lastPostSeq \in Nat \cup {-1}
               /\ s(r).post \in Seq(Range(s(r).post))
               /\ \A x \in Range(s(r).post) :
                     x.type \in DOMAIN StageOf /\ x.from \in Roles /\ x.seq \in Nat
    BY PartyInv, CreatedFields DEF SInv, LocalInv, CoreInv, StateInv, NumberInv
  <2>2. ASSUME NEW r \in Roles
        PROVE  /\ DOMAIN s(r).milestones = Milestones
               /\ \A event \in Milestones : s(r).milestones[event] \in Seq(Range(s(r).post))
    <3>1. LogInv(s(r))
      BY PartyInv
    <3>2. ASSUME NEW event \in Milestones, ~Passed(s(r), event)
          PROVE  s(r).milestones[event] \in Seq(Range(s(r).post))
      BY <3>2, EmptySeq DEF Passed
    <3>. QED  BY <3>1, <3>2 DEF LogInv
  <2>3. ASSUME NEW r \in Roles
        PROVE  /\ {s(r).capsuleReceived, s(r).capsuleAcked, s(r).feeAcked,
                   s(r).localCommitAcked} \subseteq BOOLEAN
               /\ {s(r).localNonces, s(r).peerNonces} \subseteq NonceReports \cup {None}
               /\ s(r).feeParams \in FeeChoices \cup {None}
               /\ {s(r).templates, s(r).peerCommitHash} \subseteq Digests \cup {None}
    BY PartyInv DEF CapsuleInv, PrepInv, TemplateInv
  <2>4. ASSUME NEW r \in Roles
        PROVE  /\ s(r).fundingTx \in [Roles -> FundingPayloads \cup {None}]
               /\ s(r).fundingConfirmed \in [Roles -> BOOLEAN]
    <3>1. FundingInv(r, s(r), calls[r])
      BY PartyInv
    <3>2. \A q \in Roles : s(r).fundingTx[q] \in FundingPayloads \cup {None}
      BY <3>1 DEF FundingInv
    <3>. QED  BY <3>1, <3>2 DEF FundingInv
  <2>5. ASSUME NEW r \in Roles
        PROVE  /\ DOMAIN s(r).legs = Legs
               /\ \A leg \in Legs :
                     /\ DOMAIN s(r).legs[leg] = {"T", "adaptorSig", "acked"}
                     /\ s(r).legs[leg].T \in (Legs \X Digests) \cup {None}
                     /\ s(r).legs[leg].adaptorSig \in AdaptorSigs \cup {None}
                     /\ s(r).legs[leg].acked \in BOOLEAN
    BY PartyInv DEF AdaptorInv, LegInv
  <2>6. ASSUME NEW r \in Roles
        PROVE  {s(r).peerTxBHash, s(r).peerTxAHash} \subseteq TxHashes \cup {None}
    <3>1. BroadcastInv(r, s(r), calls[r])
      BY PartyInv
    <3>2. ASSUME s(r).peerTxBHash # None
          PROVE  s(r).peerTxBHash \in TxHashes
      <4>1. r = "bob" /\ From(s(r), "txB_broadcast", "alice") # {}
        BY <3>1, <3>2 DEF BroadcastInv
      <4>2. PICK x \in Range(s(r).post) : x.type = "txB_broadcast"
        BY <4>1 DEF From
      <4>. QED  BY <3>1, <4>1, <4>2 DEF BroadcastInv
    <3>3. ASSUME s(r).peerTxAHash # None
          PROVE  s(r).peerTxAHash \in TxHashes
      <4>1. r = "alice" /\ From(s(r), "txA_broadcast", "bob") # {}
        BY <3>1, <3>3 DEF BroadcastInv
      <4>2. PICK x \in Range(s(r).post) : x.type = "txA_broadcast"
        BY <4>1 DEF From
      <4>. QED  BY <3>1, <4>1, <4>2 DEF BroadcastInv
    <3>. QED  BY <3>2, <3>3
  <2>7. ASSUME NEW r \in Roles
        PROVE  /\ SessionOpen(r) => Locked(r) /\ s(r).postSeq > FirstPostSeq
               /\ s(r).state = "HANDSHAKE" => hs[r].state \notin {"LOCKED", "ABORTED"}
    <3>1. StateInv(r, s(r)) /\ NumberInv(r, s(r)) /\ KeygenInv(r, s(r))
      BY PartyInv
    <3>2. ASSUME Locked(r)
          PROVE  s(r).postSeq > FirstPostSeq
      <4>1. PICK x : x \in From(s(r), "keygen_announce", r)
        BY <3>1, <3>2 DEF KeygenInv
      <4>2. x \in Range(s(r).post) /\ x.from = r
        BY <4>1 DEF From
      <4>. QED  BY <3>1, <4>2 DEF NumberInv, FirstPostSeq
    <3>. QED  BY <3>1, <3>2 DEF StateInv, SessionOpen, Locked
  <2>8. mutator \in Mutators
    BY DEF SInv
  <2>. QED  BY <2>1, <2>2, <2>3, <2>4, <2>5, <2>6, <2>7, <2>8, PeerKey DEF SessionTypeOK
<1>. QED  BY <1>1, SessionInvariance, PTL

\* The records of one sender are told apart by their numbers.
LEMMA SenderNumbers ==
    ASSUME SInv, NEW r \in Roles, NEW x \in Range(ss[r].post),
           NEW y \in Range(ss[r].post), x.from = y.from, x.seq = y.seq
    PROVE  x = y
<1>1. NumberInv(r, ss[r]) /\ NumberInv(Other(r), ss[Other(r)]) /\ Shared(r, ss[r])
  BY OtherRole, PartyInv DEF SInv
<1>2. x.from = r \/ x.from = Other(r)
  BY <1>1, OtherRole DEF NumberInv
<1>3. CASE x.from = r
  BY <1>1, <1>3 DEF NumberInv
<1>4. CASE x.from = Other(r)
  <2>1. x \in Range(ss[Other(r)].post) /\ y \in Range(ss[Other(r)].post)
    BY <1>1, <1>4 DEF Shared
  <2>. QED  BY <1>1, <1>4, <2>1 DEF NumberInv
<1>. QED  BY <1>2, <1>3, <1>4

\* Where a transcript is hashed its sort has no ties.
THEOREM NoTies == SessionSpec => []SortHasNoTies
<1>1. SInv => SortHasNoTies
  <2>. SUFFICES ASSUME SInv, NEW r \in Roles, NEW event \in Milestones, Reached(r, event),
                       NEW t, t = ss[r].milestones[event],
                       NEW i \in DOMAIN t, NEW j \in DOMAIN t,
                       t[i].from = t[j].from, t[i].seq = t[j].seq
                PROVE  i = j
    BY DEF SortHasNoTies
  <2>1. /\ Distinct(t)
        /\ Range(t) =
              {x \in Range(ss[r].post) : x.type \in TypesBefore[event] /\ ~Refusal(x)}
    BY PartyInv, ReachedPassed DEF LogInv
  <2>2. t[i] \in Range(t) /\ t[j] \in Range(t)
    BY DEF Range
  <2>3. t[i] = t[j]
    BY <2>1, <2>2, SenderNumbers
  <2>. QED  BY <2>1, <2>3 DEF Distinct
<1>. QED  BY <1>1, SessionInvariance, PTL
\* Each party's funding transaction is held by the other as it was sent, and moves
\* at least the agreed value.
LEMMA FundingHeld ==
    ASSUME SInv, NEW r \in Roles, NEW q \in Roles, ss[r].fundingTx[q] # None
    PROVE  ss[q].fundingTx[q] = ss[r].fundingTx[q]
<1>1. FundingInv(r, ss[r], calls[r]) /\ FundingInv(q, ss[q], calls[q])
  BY PartyInv
<1>2. q = r \/ q = Other(r)
  BY OtherRole
<1>3. ASSUME q = Other(r)
      PROVE  ss[q].fundingTx[q] = ss[r].fundingTx[q]
  <2>1. PICK x : x \in From(ss[r], "funding_tx", q)
    BY <1>1 DEF FundingInv
  <2>2. x \in From(ss[q], "funding_tx", q)
    BY <1>3, <2>1, PeerRecord
  <2>. QED  BY <1>1, <2>1, <2>2 DEF FundingInv
<1>. QED  BY <1>2, <1>3

\* Two funded parties agree on both transactions and on their sufficing.
THEOREM FundingAgreed == SessionSpec => []FundingAgreement
<1>1. SInv => FundingAgreement
  <2>. SUFFICES ASSUME SInv, \A r \in Roles : Reached(r, "FUNDED")
                PROVE  /\ ss["alice"].fundingTx = ss["bob"].fundingTx
                       /\ \A which \in Roles :
                             LET tx == ss["alice"].fundingTx[which]
                             IN  tx # None /\ tx.value = "enough"
    BY DEF FundingAgreement
  <2>1. \A r \in Roles : Passed(ss[r], "FUNDED") /\ FundingInv(r, ss[r], calls[r])
    BY PartyInv, ReachedPassed
  <2>2. \A r, q \in Roles : ss[r].fundingTx[q] # None
    BY <2>1 DEF FundingInv
  <2>3. \A r, q \in Roles : ss[r].fundingTx[q] = ss[q].fundingTx[q]
    BY <2>2, FundingHeld
  <2>4. "alice" \in Roles /\ "bob" \in Roles
    BY DEF Roles
  <2>5. \A r \in Roles : ss[r].fundingTx = [q \in Roles |-> ss[q].fundingTx[q]]
    <3>1. ASSUME NEW r \in Roles
          PROVE  ss[r].fundingTx = [q \in Roles |-> ss[r].fundingTx[q]]
      BY <2>1 DEF FundingInv
    <3>. QED  BY <2>3, <3>1
  <2>6. ASSUME NEW which \in Roles
        PROVE  ss["alice"].fundingTx[which].value = "enough"
    <3>1. Other(which) \in Roles /\ which # Other(which)
      BY OtherRole
    <3>2. ss[Other(which)].fundingTx[which].value = "enough"
      <4>1. /\ FundingInv(Other(which), ss[Other(which)], calls[Other(which)])
            /\ ss[Other(which)].fundingTx[which] # None
        BY <2>1, <2>2, <3>1
      <4>. QED  BY <3>1, <4>1 DEF FundingInv
    <3>. QED  BY <2>3, <2>4, <3>1, <3>2
  <2>. QED  BY <2>2, <2>4, <2>5, <2>6
<1>. QED  BY <1>1, SessionInvariance, PTL

\* Ready to execute, a party has the peer's nonces; and the fee is alice's.
LEMMA PrepAgreed ==
    ASSUME SInv, NEW r \in Roles, Passed(ss[r], "EXEC_READY")
    PROVE  /\ ss[Other(r)].localNonces = ss[r].localNonces
           /\ ss[Other(r)].feeParams = ss[r].feeParams
<1>. DEFINE p == Other(r)
<1>1. /\ PrepInv(r, ss[r], calls[r]) /\ PrepInv(p, ss[p], calls[p])
      /\ Other(p) = r /\ p \in Roles
      /\ {r, p} = {"alice", "bob"}
  BY PartyInv, OtherRole DEF Roles
<1>. HIDE DEF p
<1>2. /\ ss[r].localNonces = ss[r].peerNonces /\ ss[r].peerNonces # None
      /\ ss[r].feeParams # None /\ ss[r].feeAcked
  BY <1>1 DEF PrepInv
<1>3. ss[p].localNonces = ss[r].localNonces
  <2>1. PICK x : x \in From(ss[r], "nonce_report", p)
    BY <1>1, <1>2 DEF PrepInv, p
  <2>2. x \in From(ss[p], "nonce_report", p)
    BY <2>1, PeerRecord DEF p
  <2>3. ss[r].peerNonces = x.body.nonces
    BY <1>1, <2>1 DEF PrepInv, p
  <2>4. x.body = [nonces |-> ss[p].localNonces]
    BY <1>1, <2>2 DEF PrepInv
  <2>. QED  BY <1>2, <2>3, <2>4
<1>4. CASE r = "bob"
  <2>1. p = "alice"
    BY <1>1, <1>4
  <2>2. PICK x : x \in From(ss[r], "fee_params", p)
    BY <1>1, <1>2, <2>1 DEF PrepInv
  <2>3. x \in From(ss[p], "fee_params", p)
    BY <2>2, PeerRecord DEF p
  <2>4. x.body = [fee |-> ss[r].feeParams] /\ x.body = [fee |-> ss[p].feeParams]
    BY <1>1, <2>1, <2>2, <2>3 DEF PrepInv
  <2>5. ss[p].feeParams = ss[r].feeParams
    BY <2>4
  <2>. QED  BY <1>3, <2>5 DEF p
<1>5. CASE r = "alice"
  <2>1. p = "bob"
    BY <1>1, <1>5
  <2>2. PICK x : x \in From(ss[r], "fee_params_ack", p)
    BY <1>1, <1>2, <2>1 DEF PrepInv
  <2>3. x \in From(ss[p], "fee_params_ack", p)
    BY <2>2, PeerRecord DEF p
  <2>4. x.body = [feeHash |-> ss[r].feeParams] /\ x.body = [feeHash |-> ss[p].feeParams]
    BY <1>1, <2>1, <2>2, <2>3 DEF PrepInv
  <2>5. ss[p].feeParams = ss[r].feeParams
    BY <2>4
  <2>. QED  BY <1>3, <2>5 DEF p
<1>. QED  BY <1>1, <1>4, <1>5

\* Ready with its templates, a party has a peer that built and accepted the same.
LEMMA TemplatesAgreed ==
    ASSUME SInv, NEW r \in Roles, Passed(ss[r], "EXEC_TEMPLATES_READY")
    PROVE  /\ ss[Other(r)].templates = ss[r].templates
           /\ ss[Other(r)].peerCommitHash = ss[r].templates
<1>. DEFINE p == Other(r)
<1>1. TemplateInv(r, ss[r]) /\ TemplateInv(p, ss[p]) /\ Other(p) = r /\ p \in Roles
  BY PartyInv, OtherRole
<1>. HIDE DEF p
<1>2. ss[r].peerCommitHash # None /\ ss[r].localCommitAcked
  BY <1>1 DEF TemplateInv
<1>3. ss[p].templates = ss[r].templates
  <2>1. PICK x : x \in From(ss[r], "tx_template_commit", p)
    BY <1>1, <1>2 DEF TemplateInv, p
  <2>2. x \in From(ss[p], "tx_template_commit", p)
    BY <2>1, PeerRecord DEF p
  <2>3. x.body.commitHash = ss[r].templates
    BY <1>1, <2>1 DEF TemplateInv, p
  <2>4. x.body = CommitBody(p, ss[p].templates)
    BY <1>1, <2>2 DEF TemplateInv
  <2>. QED  BY <2>3, <2>4 DEF CommitBody
<1>4. ss[p].peerCommitHash = ss[p].templates
  <2>1. PICK x : x \in From(ss[r], "tx_template_ack", p)
    BY <1>1, <1>2 DEF TemplateInv, p
  <2>2. x \in From(ss[p], "tx_template_ack", p)
    BY <2>1, PeerRecord DEF p
  <2>3. ss[p].peerCommitHash # None
    BY <1>1, <2>2 DEF TemplateInv
  <2>. QED  BY <1>1, <2>3 DEF TemplateInv
<1>. QED  BY <1>3, <1>4 DEF p

\* The parties agree on nonces, fee and templates where they rely on them.
THEOREM TemplatesAgree == SessionSpec => []TemplateAgreement
<1>1. SInv => TemplateAgreement
  BY PrepAgreed, TemplatesAgreed, ReachedPassed DEF TemplateAgreement
<1>. QED  BY <1>1, SessionInvariance, PTL

\* When alice plans she has bob's own signatures for her T, on both legs.
LEMMA AdaptorsHeld ==
    ASSUME SInv, Passed(ss["alice"], "EXECUTION_PLANNED"), NEW leg \in Legs
    PROVE  /\ ss["alice"].legs[leg].adaptorSig # None
           /\ ss["alice"].legs[leg].adaptorSig = ss["bob"].legs[leg].adaptorSig
           /\ ss["alice"].legs[leg].T = ss["bob"].legs[leg].T
<1>1. "alice" \in Roles /\ "bob" \in Roles /\ Other("alice") = "bob"
  BY DEF Roles, Other
<1>2. /\ AdaptorInv("alice", ss["alice"])
      /\ LegInv("alice", ss["alice"], leg) /\ LegInv("bob", ss["bob"], leg)
  BY <1>1, PartyInv DEF AdaptorInv
<1>3. ss["alice"].legs[leg].adaptorSig # None
  BY <1>2 DEF AdaptorInv, LegDone
<1>4. PICK x : x \in FromLeg(ss["alice"], "adaptor_resp", "bob", leg)
  BY <1>2, <1>3 DEF LegInv
<1>5. x \in FromLeg(ss["bob"], "adaptor_resp", "bob", leg)
  BY <1>1, <1>4, PeerLegRecord
<1>6. /\ x.body = [which |-> leg, digests |-> ss["alice"].templates,
                   T |-> ss["alice"].legs[leg].T, sig |-> x.body.sig]
      /\ Signed("alice", ss["alice"], leg, x.body.sig)
  BY <1>2, <1>4 DEF LegInv
<1>7. /\ x.body = [which |-> leg, digests |-> ss["bob"].templates,
                   T |-> ss["bob"].legs[leg].T, sig |-> x.body.sig]
      /\ Signed("bob", ss["bob"], leg, x.body.sig)
  BY <1>2, <1>5 DEF LegInv
<1>8. ss["alice"].legs[leg].T = ss["bob"].legs[leg].T
  <2>1. x.body.T = ss["alice"].legs[leg].T
    BY <1>6
  <2>2. x.body.T = ss["bob"].legs[leg].T
    BY <1>7
  <2>. QED  BY <2>1, <2>2
<1>9. ss["alice"].legs[leg].adaptorSig = ss["bob"].legs[leg].adaptorSig
  <2>1. x.body.sig.whole /\ x.body.sig = ss["alice"].legs[leg].adaptorSig
    BY <1>6 DEF Signed
  <2>2. x.body.sig = ss["bob"].legs[leg].adaptorSig
    BY <1>7, <2>1 DEF Signed
  <2>. QED  BY <2>1, <2>2
<1>. QED  BY <1>3, <1>8, <1>9

\* Bob has heard from alice that she holds both signatures before he plans.
LEMMA BobPlansLast ==
    ASSUME SInv, Passed(ss["bob"], "EXECUTION_PLANNED")
    PROVE  Passed(ss["alice"], "EXECUTION_PLANNED")
<1>1. "alice" \in Roles /\ "bob" \in Roles /\ Other("bob") = "alice"
  BY DEF Roles, Other
<1>2. ASSUME NEW leg \in Legs
      PROVE  ss["alice"].legs[leg].adaptorSig # None
  <2>1. /\ AdaptorInv("bob", ss["bob"])
        /\ LegInv("alice", ss["alice"], leg) /\ LegInv("bob", ss["bob"], leg)
    BY <1>1, PartyInv DEF AdaptorInv
  <2>2. ss["bob"].legs[leg].acked
    BY <2>1 DEF AdaptorInv, LegDone
  <2>3. PICK x : x \in FromLeg(ss["bob"], "adaptor_ack", "alice", leg)
    BY <2>1, <2>2 DEF LegInv
  <2>4. x \in FromLeg(ss["alice"], "adaptor_ack", "alice", leg)
    BY <1>1, <2>3, PeerLegRecord
  <2>. QED  BY <2>1, <2>4 DEF LegInv
<1>. QED  BY <1>1, <1>2, PartyInv DEF PlanInv

\* The two parties plan over the same signatures, alice first.
THEOREM AdaptorsAgree == SessionSpec => []AdaptorAgreement
<1>1. SInv => AdaptorAgreement
  BY AdaptorsHeld, BobPlansLast, ReachedPassed DEF AdaptorAgreement
<1>. QED  BY <1>1, SessionInvariance, PTL
-----------------------------------------------------------------------------
(* What a milestone tells of the peer *)

\* Of the types in types, r has every message its peer sent.
Knows(r, types) ==
    \A type \in types : \A x \in From(ss[Other(r)], type, Other(r)) :
        x \in From(ss[r], type, Other(r))

\* Who has one of the peer's messages of a type has the only one.
LEMMA KnowsOne ==
    ASSUME SInv, NEW r \in Roles, NEW type,
           AtMostOne(From(ss[Other(r)], type, Other(r))),
           From(ss[r], type, Other(r)) # {} \/ From(ss[Other(r)], type, Other(r)) = {}
    PROVE  Knows(r, {type})
<1>1. ASSUME NEW x \in From(ss[Other(r)], type, Other(r))
      PROVE  x \in From(ss[r], type, Other(r))
  <2>1. PICK y : y \in From(ss[r], type, Other(r))
    BY <1>1
  <2>2. y \in From(ss[Other(r)], type, Other(r))
    BY <2>1, PeerRecord
  <2>. QED  BY <1>1, <2>1, <2>2 DEF AtMostOne
<1>. QED  BY <1>1 DEF Knows

LEMMA KnowsUnion ==
    ASSUME NEW r, NEW S, NEW T, Knows(r, S), Knows(r, T)
    PROVE  Knows(r, S \cup T)
BY DEF Knows

\* The same of one leg's messages.
LEMMA KnowsLegs ==
    ASSUME SInv, NEW r \in Roles, NEW type \in AdaptorTypes,
           \A leg \in Legs :
               /\ AtMostOne(FromLeg(ss[Other(r)], type, Other(r), leg))
               /\ \/ FromLeg(ss[r], type, Other(r), leg) # {}
                  \/ FromLeg(ss[Other(r)], type, Other(r), leg) = {}
    PROVE  Knows(r, {type})
<1>. DEFINE p == Other(r)
<1>1. ASSUME NEW x \in From(ss[p], type, p)
      PROVE  x \in From(ss[r], type, p)
  <2>1. AdaptorInv(p, ss[p])
    BY OtherRole, PartyInv
  <2>2. x \in Range(ss[p].post) /\ x.type = type
    BY <1>1 DEF From
  <2>3. x.body.which \in Legs
    BY <2>1, <2>2 DEF AdaptorInv, AdaptorTypes
  <2>. DEFINE leg == x.body.which
  <2>4. x \in FromLeg(ss[p], type, p, leg)
    BY <1>1 DEF FromLeg
  <2>5. PICK y : y \in FromLeg(ss[r], type, p, leg)
    BY <2>3, <2>4
  <2>6. y \in FromLeg(ss[p], type, p, leg)
    BY <2>5, PeerLegRecord
  <2>7. x = y
    BY <2>3, <2>4, <2>6 DEF AtMostOne
  <2>. QED  BY <2>5, <2>7 DEF FromLeg
<1>. QED  BY <1>1 DEF Knows

LEMMA KnowsKeygen ==
    ASSUME SInv, NEW r \in Roles, Passed(ss[r], "KEYGEN_COMPLETE")
    PROVE  Knows(r, {"keygen_announce"})
<1>1. KeygenInv(r, ss[r]) /\ KeygenInv(Other(r), ss[Other(r)])
  BY OtherRole, PartyInv
<1>. QED  BY <1>1, KnowsOne DEF KeygenInv

LEMMA KnowsCapsules ==
    ASSUME SInv, NEW r \in Roles, Passed(ss[r], "CAPSULES_VERIFIED")
    PROVE  Knows(r, {"capsule_offer", "capsule_ack"})
<1>1. CapsuleInv(r, ss[r]) /\ CapsuleInv(Other(r), ss[Other(r)])
  BY OtherRole, PartyInv
<1>2. Knows(r, {"capsule_offer"}) /\ Knows(r, {"capsule_ack"})
  BY <1>1, KnowsOne DEF CapsuleInv
<1>. QED  BY <1>2, KnowsUnion DEF Knows

LEMMA KnowsFunding ==
    ASSUME SInv, NEW r \in Roles, Passed(ss[r], "FUNDED")
    PROVE  Knows(r, {"funding_tx"})
<1>1. /\ FundingInv(r, ss[r], calls[r]) /\ Other(r) \in Roles
      /\ FundingInv(Other(r), ss[Other(r)], calls[Other(r)])
  BY OtherRole, PartyInv
<1>2. From(ss[r], "funding_tx", Other(r)) # {}
  BY <1>1 DEF FundingInv
<1>3. AtMostOne(From(ss[Other(r)], "funding_tx", Other(r)))
  BY <1>1 DEF FundingInv
<1>. QED  BY <1>2, <1>3, KnowsOne

LEMMA KnowsPrep ==
    ASSUME SInv, NEW r \in Roles, Passed(ss[r], "EXEC_READY")
    PROVE  Knows(r, {"nonce_report", "fee_params", "fee_params_ack"})
<1>. DEFINE p == Other(r)
<1>1. /\ PrepInv(r, ss[r], calls[r]) /\ PrepInv(p, ss[p], calls[p])
      /\ {r, p} = {"alice", "bob"} /\ r # p
  BY PartyInv, OtherRole DEF Roles
<1>2. /\ AtMostOne(From(ss[p], "nonce_report", p)) /\ AtMostOne(From(ss[p], "fee_params", p))
      /\ AtMostOne(From(ss[p], "fee_params_ack", p))
  BY <1>1 DEF PrepInv
<1>3. From(ss[r], "nonce_report", p) # {}
  BY <1>1 DEF PrepInv
<1>4. From(ss[r], "fee_params", p) # {} \/ From(ss[p], "fee_params", p) = {}
  <2>1. CASE p = "alice"
    BY <1>1, <2>1 DEF PrepInv
  <2>2. CASE p = "bob"
    BY <1>1, <2>2 DEF PrepInv
  <2>. QED  BY <1>1, <2>1, <2>2
<1>5. From(ss[r], "fee_params_ack", p) # {} \/ From(ss[p], "fee_params_ack", p) = {}
  <2>1. CASE p = "alice"
    BY <1>1, <2>1 DEF PrepInv
  <2>2. CASE p = "bob"
    BY <1>1, <2>2 DEF PrepInv
  <2>. QED  BY <1>1, <2>1, <2>2
<1>. HIDE DEF p
<1>6. Knows(r, {"nonce_report"}) /\ Knows(r, {"fee_params"}) /\ Knows(r, {"fee_params_ack"})
  BY <1>2, <1>3, <1>4, <1>5, KnowsOne DEF p
<1>. QED  BY <1>6 DEF Knows

LEMMA KnowsTemplates ==
    ASSUME SInv, NEW r \in Roles, Passed(ss[r], "EXEC_TEMPLATES_READY")
    PROVE  Knows(r, {"tx_template_commit", "tx_template_ack"})
<1>1. TemplateInv(r, ss[r]) /\ TemplateInv(Other(r), ss[Other(r)])
  BY OtherRole, PartyInv
<1>2. Knows(r, {"tx_template_commit"}) /\ Knows(r, {"tx_template_ack"})
  BY <1>1, KnowsOne DEF TemplateInv
<1>. QED  BY <1>2 DEF Knows

\* Both legs are closed: each party has what the other sent on them.
LEMMA KnowsAdaptors ==
    ASSUME SInv, NEW r \in Roles, Passed(ss[r], "EXECUTION_PLANNED")
    PROVE  Knows(r, AdaptorTypes)
<1>1. "alice" \in Roles /\ "bob" \in Roles /\ Other("alice") = "bob" /\ Other("bob") = "alice"
  BY DEF Roles, Other
<1>2. /\ AdaptorInv("alice", ss["alice"]) /\ AdaptorInv("bob", ss["bob"])
      /\ \A leg \in Legs : LegInv("alice", ss["alice"], leg) /\ LegInv("bob", ss["bob"], leg)
  BY <1>1, PartyInv DEF AdaptorInv
<1>3. CASE r = "alice"
  <2>1. \A leg \in Legs : FromLeg(ss["bob"], "adaptor_start", "bob", leg) = {}
                       /\ FromLeg(ss["bob"], "adaptor_ack", "bob", leg) = {}
    BY <1>2 DEF AdaptorInv, FromLeg, From
  <2>2. ASSUME NEW leg \in Legs
        PROVE  /\ AtMostOne(FromLeg(ss["bob"], "adaptor_resp", "bob", leg))
               /\ FromLeg(ss["alice"], "adaptor_resp", "bob", leg) # {}
    BY <1>2, <1>3, AdaptorsHeld DEF LegInv
  <2>3. \A leg \in Legs : AtMostOne(FromLeg(ss["bob"], "adaptor_start", "bob", leg))
                       /\ AtMostOne(FromLeg(ss["bob"], "adaptor_ack", "bob", leg))
    BY <2>1 DEF AtMostOne
  <2>4. /\ Knows(r, {"adaptor_start"}) /\ Knows(r, {"adaptor_resp"})
        /\ Knows(r, {"adaptor_ack"})
    BY <1>1, <1>3, <2>1, <2>2, <2>3, KnowsLegs DEF AdaptorTypes
  <2>. QED  BY <2>4 DEF Knows, AdaptorTypes
<1>4. CASE r = "bob"
  <2>1. \A leg \in Legs : FromLeg(ss["alice"], "adaptor_resp", "alice", leg) = {}
    BY <1>2 DEF AdaptorInv, FromLeg, From
  <2>2. ASSUME NEW leg \in Legs
        PROVE  /\ AtMostOne(FromLeg(ss["alice"], "adaptor_start", "alice", leg))
               /\ AtMostOne(FromLeg(ss["alice"], "adaptor_ack", "alice", leg))
               /\ FromLeg(ss["bob"], "adaptor_start", "alice", leg) # {}
               /\ FromLeg(ss["bob"], "adaptor_ack", "alice", leg) # {}
    <3>1. LegInv("alice", ss["alice"], leg) /\ LegInv("bob", ss["bob"], leg)
      BY <1>2
    <3>2. ss["bob"].legs[leg].acked
      BY <1>2, <1>4 DEF AdaptorInv, LegDone
    <3>3. ss["bob"].legs[leg].adaptorSig # None
      BY <1>4, AdaptorsHeld, BobPlansLast
    <3>. QED  BY <3>1, <3>2, <3>3 DEF LegInv
  <2>3. \A leg \in Legs : AtMostOne(FromLeg(ss["alice"], "adaptor_resp", "alice", leg))
    BY <2>1 DEF AtMostOne
  <2>4. /\ Knows(r, {"adaptor_start"}) /\ Knows(r, {"adaptor_resp"})
        /\ Knows(r, {"adaptor_ack"})
    BY <1>1, <1>4, <2>1, <2>2, <2>3, KnowsLegs DEF AdaptorTypes
  <2>. QED  BY <2>4 DEF Knows, AdaptorTypes
<1>. QED  BY <1>3, <1>4 DEF Roles

\* The milestones come in order.
LEMMA InOrderPassed ==
    ASSUME SInv, NEW r \in Roles
    PROVE  /\ Passed(ss[r], "EXECUTION_PLANNED") => Passed(ss[r], "EXEC_TEMPLATES_READY")
           /\ Passed(ss[r], "EXEC_TEMPLATES_READY") => Passed(ss[r], "EXEC_READY")
           /\ Passed(ss[r], "EXEC_READY") => Passed(ss[r], "FUNDED")
           /\ Passed(ss[r], "FUNDED") => Passed(ss[r], "CAPSULES_VERIFIED")
           /\ Passed(ss[r], "CAPSULES_VERIFIED") => Passed(ss[r], "KEYGEN_COMPLETE")
BY PartyInv DEF StateInv

\* At a milestone a party has every message its peer sent of the types finished
\* with by then.
LEMMA KnowsBefore ==
    ASSUME SInv, NEW r \in Roles, NEW event \in Milestones, Passed(ss[r], event)
    PROVE  Knows(r, TypesBefore[event])
<1>1. CASE event = "KEYGEN_COMPLETE"
  BY <1>1, KnowsKeygen DEF TypesBefore
<1>2. ASSUME Passed(ss[r], "CAPSULES_VERIFIED")
      PROVE  Knows(r, TypesBefore["CAPSULES_VERIFIED"])
  BY <1>2, InOrderPassed, KnowsKeygen, KnowsCapsules DEF TypesBefore, Knows
<1>3. ASSUME Passed(ss[r], "FUNDED")
      PROVE  Knows(r, TypesBefore["FUNDED"])
  <2>1. Knows(r, TypesBefore["CAPSULES_VERIFIED"]) /\ Knows(r, {"funding_tx"})
    BY <1>2, <1>3, InOrderPassed, KnowsFunding
  <2>2. TypesBefore["FUNDED"] = TypesBefore["CAPSULES_VERIFIED"] \cup {"funding_tx"}
    BY DEF TypesBefore
  <2>. QED  BY <2>1, <2>2, KnowsUnion
<1>4. ASSUME Passed(ss[r], "EXEC_READY")
      PROVE  Knows(r, TypesBefore["EXEC_READY"])
  <2>1. /\ Knows(r, TypesBefore["FUNDED"])
        /\ Knows(r, {"nonce_report", "fee_params", "fee_params_ack"})
    BY <1>3, <1>4, InOrderPassed, KnowsPrep
  <2>2. TypesBefore["EXEC_READY"] =
            TypesBefore["FUNDED"] \cup {"nonce_report", "fee_params", "fee_params_ack"}
    BY DEF TypesBefore
  <2>. QED  BY <2>1, <2>2, KnowsUnion
<1>5. ASSUME Passed(ss[r], "EXEC_TEMPLATES_READY")
      PROVE  Knows(r, TypesBefore["EXEC_TEMPLATES_READY"])
  <2>1. /\ Knows(r, TypesBefore["EXEC_READY"])
        /\ Knows(r, {"tx_template_commit", "tx_template_ack"})
    BY <1>4, <1>5, InOrderPassed, KnowsTemplates
  <2>2. TypesBefore["EXEC_TEMPLATES_READY"] =
            TypesBefore["EXEC_READY"] \cup {"tx_template_commit", "tx_template_ack"}
    BY DEF TypesBefore
  <2>. QED  BY <2>1, <2>2, KnowsUnion
<1>6. ASSUME Passed(ss[r], "EXECUTION_PLANNED")
      PROVE  Knows(r, TypesBefore["EXECUTION_PLANNED"])
  <2>1. Knows(r, TypesBefore["EXEC_TEMPLATES_READY"]) /\ Knows(r, AdaptorTypes)
    BY <1>5, <1>6, InOrderPassed, KnowsAdaptors
  <2>2. TypesBefore["EXECUTION_PLANNED"] =
            TypesBefore["EXEC_TEMPLATES_READY"] \cup AdaptorTypes
    BY PostTypes DEF TypesBefore, AdaptorTypes
  <2>. QED  BY <2>1, <2>2, KnowsUnion
<1>. QED  BY <1>1, <1>2, <1>3, <1>4, <1>5, <1>6, MilestoneSet

\* What one party counts towards a milestone the other counts too.
LEMMA MilestoneShared ==
    ASSUME SInv, NEW event \in Milestones, \A q \in Roles : Passed(ss[q], event),
           NEW r \in Roles, NEW x \in Range(ss[r].milestones[event])
    PROVE  x \in Range(ss[Other(r)].milestones[event])
<1>. DEFINE p == Other(r)
<1>1. p \in Roles /\ Other(p) = r
  BY OtherRole
<1>2. \A q \in Roles :
          Range(ss[q].milestones[event]) =
              {y \in Range(ss[q].post) : y.type \in TypesBefore[event] /\ ~Refusal(y)}
  BY PartyInv DEF LogInv
<1>3. x \in Range(ss[r].post) /\ x.type \in TypesBefore[event] /\ ~Refusal(x)
  BY <1>2
<1>4. x.from = r \/ x.from = p
  BY <1>3, PartyInv, OtherRole DEF NumberInv
<1>5. CASE x.from = r
  <2>1. x \in From(ss[r], x.type, r)
    BY <1>3, <1>5 DEF From
  <2>2. Knows(p, TypesBefore[event])
    BY <1>1, KnowsBefore
  <2>3. x \in From(ss[p], x.type, r)
    BY <1>1, <1>3, <2>1, <2>2 DEF Knows
  <2>4. x \in Range(ss[p].post)
    BY <2>3 DEF From
  <2>. QED  BY <1>1, <1>2, <1>3, <2>4
<1>6. CASE x.from = p
  <2>1. x \in Range(ss[p].post)
    BY <1>3, <1>6 DEF SInv, Shared
  <2>. QED  BY <1>1, <1>2, <1>3, <2>1
<1>. QED  BY <1>4, <1>5, <1>6

LEMMA MilestonesEqual ==
    ASSUME SInv, NEW event \in Milestones, \A r \in Roles : Passed(ss[r], event)
    PROVE  TranscriptHash(ss["alice"].milestones[event]) =
           TranscriptHash(ss["bob"].milestones[event])
<1>1. "alice" \in Roles /\ "bob" \in Roles /\ Other("alice") = "bob" /\ Other("bob") = "alice"
  BY DEF Roles, Other
<1>2. Range(ss["alice"].milestones[event]) = Range(ss["bob"].milestones[event])
  <2>1. ASSUME NEW x \in Range(ss["alice"].milestones[event])
        PROVE  x \in Range(ss["bob"].milestones[event])
    BY <1>1, MilestoneShared
  <2>2. ASSUME NEW x \in Range(ss["bob"].milestones[event])
        PROVE  x \in Range(ss["alice"].milestones[event])
    BY <1>1, MilestoneShared
  <2>. QED  BY <2>1, <2>2
<1>3. \A r \in Roles : Distinct(ss[r].milestones[event])
  BY PartyInv DEF LogInv
<1>. QED  BY <1>1, <1>2, <1>3, HashOfDistinct

\* Both parties hash the same transcript at every milestone.
THEOREM MilestonesAgree == SessionSpec => []MilestoneAgreement
<1>1. SInv => MilestoneAgreement
  BY MilestonesEqual, ReachedPassed DEF MilestoneAgreement
<1>. QED  BY <1>1, SessionInvariance, PTL

-----------------------------------------------------------------------------
(* How far the parties are apart *)

\* A message of the peer's shows that the peer has passed what opens its type.
LEMMA OpenedByPeer ==
    ASSUME SInv, NEW r \in Roles, NEW type, type # "keygen_announce",
           From(ss[r], type, Other(r)) # {}
    PROVE  Passed(ss[Other(r)], OpenedBy[type])
<1>1. PICK x : x \in From(ss[r], type, Other(r))
  OBVIOUS
<1>2. x \in Range(ss[Other(r)].post) /\ x.type = type
  BY <1>1, PeerRecord DEF From
<1>. QED  BY <1>2, OtherRole, PartyInv DEF LogInv

\* Each milestone but the first rests on a message sent after the one before.
LEMMA PeerCloseBehind ==
    ASSUME SInv, NEW r \in Roles
    PROVE  LET p == ss[Other(r)]
           IN  /\ Passed(ss[r], "CAPSULES_VERIFIED") => Passed(p, "KEYGEN_COMPLETE")
               /\ Passed(ss[r], "FUNDED") => Passed(p, "CAPSULES_VERIFIED")
               /\ Passed(ss[r], "EXEC_READY") => Passed(p, "FUNDED")
               /\ Passed(ss[r], "EXEC_TEMPLATES_READY") => Passed(p, "EXEC_READY")
               /\ Passed(ss[r], "EXECUTION_PLANNED") => Passed(p, "EXEC_TEMPLATES_READY")
<1>. DEFINE q == Other(r)
<1>1. /\ CapsuleInv(r, ss[r]) /\ FundingInv(r, ss[r], calls[r]) /\ PrepInv(r, ss[r], calls[r])
      /\ TemplateInv(r, ss[r]) /\ q \in Roles
  BY OtherRole, PartyInv
<1>2. Passed(ss[r], "CAPSULES_VERIFIED") => From(ss[r], "capsule_offer", q) # {}
  BY <1>1 DEF CapsuleInv
<1>3. Passed(ss[r], "FUNDED") => From(ss[r], "funding_tx", q) # {}
  BY <1>1 DEF FundingInv
<1>4. Passed(ss[r], "EXEC_READY") => From(ss[r], "nonce_report", q) # {}
  BY <1>1 DEF PrepInv
<1>5. Passed(ss[r], "EXEC_TEMPLATES_READY") => From(ss[r], "tx_template_commit", q) # {}
  BY <1>1 DEF TemplateInv
<1>6. Passed(ss[r], "EXECUTION_PLANNED") =>
          From(ss[r], "adaptor_resp", q) # {} \/ From(ss[r], "adaptor_ack", q) # {}
  <2>1. AdaptorInv(r, ss[r]) /\ "A" \in Legs /\ LegInv(r, ss[r], "A")
    BY PartyInv DEF AdaptorInv, Legs
  <2>2. \A type : FromLeg(ss[r], type, q, "A") # {} => From(ss[r], type, q) # {}
    BY DEF FromLeg
  <2>3. CASE r = "alice"
    <3>1. q = "bob"
      BY <2>3 DEF Other
    <3>. QED  BY <2>1, <2>2, <2>3, <3>1 DEF AdaptorInv, LegDone, LegInv
  <2>4. CASE r = "bob"
    <3>1. q = "alice"
      BY <2>4 DEF Other
    <3>. QED  BY <2>1, <2>2, <2>4, <3>1 DEF AdaptorInv, LegDone, LegInv
  <2>. QED  BY <2>3, <2>4 DEF Roles
<1>7. /\ OpenedBy["capsule_offer"] = "KEYGEN_COMPLETE"
      /\ OpenedBy["funding_tx"] = "CAPSULES_VERIFIED"
      /\ OpenedBy["nonce_report"] = "FUNDED"
      /\ OpenedBy["tx_template_commit"] = "EXEC_READY"
      /\ OpenedBy["adaptor_resp"] = "EXEC_TEMPLATES_READY"
      /\ OpenedBy["adaptor_ack"] = "EXEC_TEMPLATES_READY"
  BY DEF OpenedBy
<1>8. \A type : type # "keygen_announce" /\ From(ss[r], type, q) # {}
                    => Passed(ss[q], OpenedBy[type])
  BY OpenedByPeer
<1>. QED  BY <1>2, <1>3, <1>4, <1>5, <1>6, <1>7, <1>8

LEMMA MilestoneCounts ==
    /\ Cardinality({}) = 0
    /\ Cardinality({"KEYGEN_COMPLETE"}) = 1
    /\ Cardinality({"KEYGEN_COMPLETE", "CAPSULES_VERIFIED"}) = 2
    /\ Cardinality({"KEYGEN_COMPLETE", "CAPSULES_VERIFIED", "FUNDED"}) = 3
    /\ Cardinality({"KEYGEN_COMPLETE", "CAPSULES_VERIFIED", "FUNDED", "EXEC_READY"}) = 4
    /\ Cardinality({"KEYGEN_COMPLETE", "CAPSULES_VERIFIED", "FUNDED", "EXEC_READY",
                    "EXEC_TEMPLATES_READY"}) = 5
    /\ Cardinality({"KEYGEN_COMPLETE", "CAPSULES_VERIFIED", "FUNDED", "EXEC_READY",
                    "EXEC_TEMPLATES_READY", "EXECUTION_PLANNED"}) = 6
<1>. DEFINE S1 == {"KEYGEN_COMPLETE"}
            S2 == S1 \cup {"CAPSULES_VERIFIED"}
            S3 == S2 \cup {"FUNDED"}
            S4 == S3 \cup {"EXEC_READY"}
            S5 == S4 \cup {"EXEC_TEMPLATES_READY"}
            S6 == S5 \cup {"EXECUTION_PLANNED"}
<1>1. /\ "CAPSULES_VERIFIED" \notin S1 /\ "FUNDED" \notin S2 /\ "EXEC_READY" \notin S3
      /\ "EXEC_TEMPLATES_READY" \notin S4 /\ "EXECUTION_PLANNED" \notin S5
  OBVIOUS
<1>2. /\ S2 = {"KEYGEN_COMPLETE", "CAPSULES_VERIFIED"}
      /\ S3 = {"KEYGEN_COMPLETE", "CAPSULES_VERIFIED", "FUNDED"}
      /\ S4 = {"KEYGEN_COMPLETE", "CAPSULES_VERIFIED", "FUNDED", "EXEC_READY"}
      /\ S5 = {"KEYGEN_COMPLETE", "CAPSULES_VERIFIED", "FUNDED", "EXEC_READY",
               "EXEC_TEMPLATES_READY"}
      /\ S6 = {"KEYGEN_COMPLETE", "CAPSULES_VERIFIED", "FUNDED", "EXEC_READY",
               "EXEC_TEMPLATES_READY", "EXECUTION_PLANNED"}
  OBVIOUS
<1>3. IsFiniteSet(S1) /\ Cardinality(S1) = 1
  BY FS_Singleton
<1>. HIDE DEF S1
<1>4. IsFiniteSet(S2) /\ Cardinality(S2) = 2
  BY <1>1, <1>3, FS_AddElement
<1>. HIDE DEF S2
<1>5. IsFiniteSet(S3) /\ Cardinality(S3) = 3
  BY <1>1, <1>4, FS_AddElement
<1>. HIDE DEF S3
<1>6. IsFiniteSet(S4) /\ Cardinality(S4) = 4
  BY <1>1, <1>5, FS_AddElement
<1>. HIDE DEF S4
<1>7. IsFiniteSet(S5) /\ Cardinality(S5) = 5
  BY <1>1, <1>6, FS_AddElement
<1>. HIDE DEF S5
<1>8. IsFiniteSet(S6) /\ Cardinality(S6) = 6
  BY <1>1, <1>7, FS_AddElement
<1>. QED  BY <1>2, <1>3, <1>4, <1>5, <1>6, <1>7, <1>8, FS_EmptySet DEF S1

\* A party's phase is the number of the last milestone it has passed.
LEMMA PhaseValue ==
    ASSUME SInv, NEW r \in Roles
    PROVE  Phase(r) = IF Passed(ss[r], "EXECUTION_PLANNED") THEN 6
                      ELSE IF Passed(ss[r], "EXEC_TEMPLATES_READY") THEN 5
                      ELSE IF Passed(ss[r], "EXEC_READY") THEN 4
                      ELSE IF Passed(ss[r], "FUNDED") THEN 3
                      ELSE IF Passed(ss[r], "CAPSULES_VERIFIED") THEN 2
                      ELSE IF Passed(ss[r], "KEYGEN_COMPLETE") THEN 1
                      ELSE 0
<1>. DEFINE E == {event \in Milestones : Reached(r, event)}
<1>1. \A event : event \in E <=> event \in Milestones /\ Passed(ss[r], event)
  BY ReachedPassed
<1>2. Phase(r) = Cardinality(E)
  BY DEF Phase
<1>. HIDE DEF E
<1>3. CASE Passed(ss[r], "EXECUTION_PLANNED")
  <2>1. E = {"KEYGEN_COMPLETE", "CAPSULES_VERIFIED", "FUNDED", "EXEC_READY",
             "EXEC_TEMPLATES_READY", "EXECUTION_PLANNED"}
    BY <1>1, <1>3, InOrderPassed, MilestoneSet
  <2>. QED  BY <1>2, <1>3, <2>1, MilestoneCounts
<1>4. CASE Passed(ss[r], "EXEC_TEMPLATES_READY") /\ ~Passed(ss[r], "EXECUTION_PLANNED")
  <2>1. E = {"KEYGEN_COMPLETE", "CAPSULES_VERIFIED", "FUNDED", "EXEC_READY",
             "EXEC_TEMPLATES_READY"}
    BY <1>1, <1>4, InOrderPassed, MilestoneSet
  <2>. QED  BY <1>2, <1>4, <2>1, MilestoneCounts
<1>5. CASE Passed(ss[r], "EXEC_READY") /\ ~Passed(ss[r], "EXEC_TEMPLATES_READY")
  <2>1. E = {"KEYGEN_COMPLETE", "CAPSULES_VERIFIED", "FUNDED", "EXEC_READY"}
    BY <1>1, <1>5, InOrderPassed, MilestoneSet
  <2>. QED  BY <1>2, <1>5, <2>1, InOrderPassed, MilestoneCounts
<1>6. CASE Passed(ss[r], "FUNDED") /\ ~Passed(ss[r], "EXEC_READY")
  <2>1. E = {"KEYGEN_COMPLETE", "CAPSULES_VERIFIED", "FUNDED"}
    BY <1>1, <1>6, InOrderPassed, MilestoneSet
  <2>. QED  BY <1>2, <1>6, <2>1, InOrderPassed, MilestoneCounts
<1>7. CASE Passed(ss[r], "CAPSULES_VERIFIED") /\ ~Passed(ss[r], "FUNDED")
  <2>1. E = {"KEYGEN_COMPLETE", "CAPSULES_VERIFIED"}
    BY <1>1, <1>7, InOrderPassed, MilestoneSet
  <2>. QED  BY <1>2, <1>7, <2>1, InOrderPassed, MilestoneCounts
<1>8. CASE Passed(ss[r], "KEYGEN_COMPLETE") /\ ~Passed(ss[r], "CAPSULES_VERIFIED")
  <2>1. E = {"KEYGEN_COMPLETE"}
    BY <1>1, <1>8, InOrderPassed, MilestoneSet
  <2>. QED  BY <1>2, <1>8, <2>1, InOrderPassed, MilestoneCounts
<1>9. CASE ~Passed(ss[r], "KEYGEN_COMPLETE")
  <2>1. E = {}
    BY <1>1, <1>9, InOrderPassed, MilestoneSet
  <2>. QED  BY <1>2, <1>9, <2>1, InOrderPassed, MilestoneCounts
<1>. QED  BY <1>3, <1>4, <1>5, <1>6, <1>7, <1>8, <1>9

\* No party is more than one milestone ahead of the other.
THEOREM NeverTwoAhead == SessionSpec => []PhaseLag
<1>1. SInv => PhaseLag
  <2>. SUFFICES ASSUME SInv PROVE PhaseLag
    OBVIOUS
  <2>1. "alice" \in Roles /\ "bob" \in Roles /\ Other("alice") = "bob" /\ Other("bob") = "alice"
    BY DEF Roles, Other
  <2>2. \A r \in Roles : Phase(Other(r)) >= Phase(r) - 1 /\ Phase(r) \in 0 .. 6
    <3>. SUFFICES ASSUME NEW r \in Roles
                  PROVE  Phase(Other(r)) >= Phase(r) - 1 /\ Phase(r) \in 0 .. 6
      OBVIOUS
    <3>1. Other(r) \in Roles
      BY OtherRole
    <3>. QED
      BY <3>1, PhaseValue, PeerCloseBehind, InOrderPassed
  <2>. QED  BY <2>1, <2>2 DEF PhaseLag
<1>. QED  BY <1>1, SessionInvariance, PTL

-----------------------------------------------------------------------------
(* A resend *)

\* The next message for r is one its open session has recorded, and is not older
\* than the last it heard.
Resent(r) ==
    LET m == Head(net[r])
    IN  /\ net[r] # <<>> /\ SessionOpen(r) /\ m.type # "malformed"
        /\ RecordOf(m) \in Range(ss[r].post) /\ m.seq >= ss[r].lastPostSeq

\* What is left of a session that has planned to broadcast, or not yet.
LEMMA PlannedState ==
    ASSUME SInv, NEW r \in Roles, SessionOpen(r), Passed(ss[r], "EXECUTION_PLANNED")
    PROVE  ss[r].state = "EXECUTION_PLANNED"
<1>1. StateInv(r, ss[r])
  BY PartyInv
<1>2. ss[r].state \in {"KEYGEN", "CAPSULES_EXCHANGE", "FUNDING", "EXEC_PREP",
         "EXEC_TEMPLATES_SYNC", "ADAPTOR_NEGOTIATING", "EXECUTION_PLANNED"}
  BY <1>1 DEF StateInv, SessionOpen, StageOf
<1>3. /\ Passed(ss[r], "EXEC_TEMPLATES_READY") /\ Passed(ss[r], "EXEC_READY")
      /\ Passed(ss[r], "FUNDED") /\ Passed(ss[r], "CAPSULES_VERIFIED")
      /\ Passed(ss[r], "KEYGEN_COMPLETE")
  BY InOrderPassed
<1>. QED  BY <1>1, <1>2, <1>3 DEF StateInv

\* Both parties have recorded it, it passes the checks every message meets, and
\* the last number heard is its own.
LEMMA ResentHeard ==
    ASSUME SInv, NEW r \in Roles, Filled(ss[r]), Resent(r), NEW m, m = Head(net[r])
    PROVE  /\ m.type \in DOMAIN StageOf /\ m.from = Other(r)
           /\ RecordOf(m) \in From(ss[r], m.type, Other(r))
           /\ RecordOf(m) \in From(ss[Other(r)], m.type, Other(r))
           /\ m.sid = hs[r].sid /\ InOrder(r, m)
           /\ Heard(r, m) = Work(ss[r])
<1>. DEFINE p == Other(r)
            x == RecordOf(m)
<1>1. p \in Roles /\ p # r
  BY OtherRole
<1>2. /\ x.type = m.type /\ x.from = m.from /\ x.seq = m.seq /\ x.body = m.body
      /\ x \in Range(ss[r].post)
  BY DEF RecordOf, Resent
<1>3. /\ m.type \in DOMAIN StageOf
      /\ m.type \notin {"txB_broadcast", "txA_broadcast"} /\ x.from # r =>
            m.seq <= ss[r].lastPostSeq
      /\ x.from # r => ~Refusal(x)
  BY <1>2, PartyInv DEF NumberInv
<1>4. Genuine(p, m)
  <2>1. m \in Range(net[r])
    <3>1. net[r] \in Seq(Range(net[r])) /\ net[r] # <<>>
      BY DEF SInv, Resent
    <3>. QED  BY <3>1, RangeTail
  <2>2. \A n \in Range(net[r]) : Genuine(Other(r), n)
    BY DEF SInv
  <2>. QED  BY <2>1, <2>2
<1>5. m.from = p /\ m.seq \in Nat
  BY <1>4 DEF Genuine, Message
<1>. HIDE DEF x
<1>6. x \in From(ss[r], m.type, p)
  BY <1>1, <1>2, <1>3, <1>5 DEF From
<1>7. x \in From(ss[p], m.type, p)
  BY <1>6, PeerRecord
<1>8. m.sid = hs[r].sid
  <2>1. Locked(p) /\ m.sid = hs[p].sid
    BY <1>3, <1>4 DEF Genuine
  <2>2. Locked(r)
    BY PartyInv DEF StateInv, Resent, SessionOpen
  <2>3. HandshakeInv(r) /\ HandshakeInv(p)
    BY <1>1 DEF SInv
  <2>. QED  BY <2>1, <2>2, <2>3 DEF HandshakeInv
<1>9. FirstPostSeq <= m.seq
  <2>1. x \in Range(ss[p].post)
    BY <1>7 DEF From
  <2>. QED  BY <1>1, <1>2, <1>5, <2>1, PartyInv DEF NumberInv
<1>10. InOrder(r, m)
  BY <1>5, <1>9 DEF InOrder, Resent, FirstPostSeq
<1>11. ASSUME Validates(r, m) PROVE m.seq = ss[r].lastPostSeq
  <2>1. ss[r].state # "EXECUTION_PLANNED"
    BY <1>11 DEF Validates
  <2>2. ~Passed(ss[r], "EXECUTION_PLANNED")
    BY <2>1, PlannedState DEF Resent
  <2>3. m.type \notin {"txB_broadcast", "txA_broadcast"}
    BY <1>2, <2>2, PartyInv DEF LogInv, OpenedBy
  <2>4. ss[r].lastPostSeq \in Nat \cup {-1} /\ m.seq >= ss[r].lastPostSeq
    BY PartyInv DEF NumberInv, Resent
  <2>. QED  BY <1>1, <1>2, <1>3, <1>5, <2>3, <2>4
<1>12. Heard(r, m) = Work(ss[r])
  <2>1. ASSUME Validates(r, m)
        PROVE  [ss[r] EXCEPT !.lastPostSeq = m.seq] = ss[r]
    BY <1>11, <2>1 DEF Filled, SessionFields
  <2>. QED  BY <2>1 DEF Heard
<1>. QED  BY <1>3, <1>5, <1>6, <1>7, <1>8, <1>10, <1>12 DEF x

\* What it says this session holds already.
LEMMA ResentBody ==
    ASSUME SInv, NEW r \in Roles, Filled(ss[r]), Resent(r), NEW m, m = Head(net[r])
    PROVE  /\ m.type = "keygen_announce" =>
                 ss[r].peerMpc = m.body.keyOf /\ ss[r].peerMpc # None
           /\ m.type = "capsule_offer" =>
                 m.body.target = r /\ m.body.flaw = "none" /\ ss[r].capsuleReceived
           /\ m.type = "capsule_ack" => m.body.ok /\ ss[r].capsuleAcked
           /\ m.type = "funding_tx" =>
                 /\ ss[r].fundingTx[m.body.which] = m.body /\ m.body # None
                 /\ m.body.which = m.from /\ m.body.value = "enough"
           /\ m.type = "nonce_report" =>
                 ss[r].peerNonces = m.body.nonces /\ ss[r].peerNonces # None
           /\ m.type = "fee_params" =>
                 r = "bob" /\ ss[r].feeParams = m.body.fee /\ ss[r].feeParams # None
           /\ m.type = "fee_params_ack" =>
                 /\ r = "alice" /\ ss[r].feeParams = m.body.feeHash
                 /\ ss[r].feeParams # None /\ ss[r].feeAcked
           /\ m.type = "tx_template_commit" =>
                 /\ m.body.commitHash = ss[r].templates /\ m.body.digests = ss[r].templates
                 /\ ss[r].peerCommitHash = ss[r].templates /\ ss[r].templates # None
           /\ m.type = "tx_template_ack" =>
                 m.body.commitHash = ss[r].templates /\ ss[r].localCommitAcked
<1>. DEFINE p == Other(r)
            x == RecordOf(m)
            s == ss[r]
<1>1. /\ p \in Roles /\ p # r /\ Other(p) = r
      /\ x \in From(s, m.type, p) /\ x \in From(ss[p], m.type, p) /\ m.from = p
  BY OtherRole, ResentHeard
<1>2. x.type = m.type /\ x.body = m.body /\ x \in Range(s.post) /\ ~Refusal(x)
  BY <1>1 DEF RecordOf, From
<1>. HIDE DEF x, p
<1>3. m.type = "keygen_announce" => s.peerMpc = m.body.keyOf /\ s.peerMpc # None
  <2>. SUFFICES ASSUME m.type = "keygen_announce"
                PROVE  s.peerMpc = m.body.keyOf /\ s.peerMpc # None
    OBVIOUS
  <2>1. x \in From(s, "keygen_announce", Other(r)) /\ KeygenInv(r, s)
    BY <1>1, PartyInv DEF p
  <2>2. s.peerMpc = x.body.keyOf /\ s.peerMpc # None
    BY <2>1 DEF KeygenInv
  <2>. QED  BY <1>2, <2>2
<1>4. m.type = "capsule_offer" =>
          m.body.target = r /\ m.body.flaw = "none" /\ s.capsuleReceived
  <2>. SUFFICES ASSUME m.type = "capsule_offer"
                PROVE  m.body.target = r /\ m.body.flaw = "none" /\ s.capsuleReceived
    OBVIOUS
  <2>1. x.body = [target |-> r, flaw |-> "none"]
    BY <1>1, PartyInv DEF CapsuleInv
  <2>2. s.capsuleReceived
    BY <1>1, PartyInv DEF CapsuleInv, p
  <2>. QED  BY <1>2, <2>1, <2>2
<1>5. m.type = "capsule_ack" => m.body.ok /\ s.capsuleAcked
  BY <1>1, <1>2, PartyInv DEF CapsuleInv, Refusal, p
<1>6. m.type = "funding_tx" =>
          /\ s.fundingTx[m.body.which] = m.body /\ m.body # None
          /\ m.body.which = m.from /\ m.body.value = "enough"
  <2>. SUFFICES ASSUME m.type = "funding_tx"
                PROVE  /\ s.fundingTx[m.body.which] = m.body /\ m.body # None
                       /\ m.body.which = m.from /\ m.body.value = "enough"
    OBVIOUS
  <2>1. x \in From(s, "funding_tx", p) /\ FundingInv(r, s, calls[r])
    BY <1>1, PartyInv
  <2>2. s.fundingTx[p] = x.body /\ s.fundingTx[p] # None
    BY <1>1, <2>1 DEF FundingInv
  <2>3. s.fundingTx[p].which = p /\ s.fundingTx[p].value = "enough"
    BY <1>1, <2>1, <2>2 DEF FundingInv
  <2>. QED  BY <1>1, <1>2, <2>2, <2>3
<1>7. m.type = "nonce_report" => s.peerNonces = m.body.nonces /\ s.peerNonces # None
  <2>. SUFFICES ASSUME m.type = "nonce_report"
                PROVE  s.peerNonces = m.body.nonces /\ s.peerNonces # None
    OBVIOUS
  <2>1. x \in From(s, "nonce_report", Other(r)) /\ PrepInv(r, s, calls[r])
    BY <1>1, PartyInv DEF p
  <2>2. s.peerNonces = x.body.nonces /\ s.peerNonces # None
    BY <2>1 DEF PrepInv
  <2>. QED  BY <1>2, <2>2
<1>8. (p = "alice" => r = "bob") /\ (p = "bob" => r = "alice")
      /\ (p = "alice" \/ p = "bob")
  BY <1>1 DEF Roles, Other
<1>9. m.type = "fee_params" =>
          r = "bob" /\ s.feeParams = m.body.fee /\ s.feeParams # None
  <2>. SUFFICES ASSUME m.type = "fee_params"
                PROVE  r = "bob" /\ s.feeParams = m.body.fee /\ s.feeParams # None
    OBVIOUS
  <2>1. p = "alice"
    BY <1>1, <1>8, PartyInv DEF PrepInv
  <2>2. x.body = [fee |-> s.feeParams] /\ s.feeParams # None
    BY <1>1, <2>1, PartyInv DEF PrepInv
  <2>. QED  BY <1>2, <1>8, <2>1, <2>2
<1>10. m.type = "fee_params_ack" =>
          /\ r = "alice" /\ s.feeParams = m.body.feeHash
          /\ s.feeParams # None /\ s.feeAcked
  <2>. SUFFICES ASSUME m.type = "fee_params_ack"
                PROVE  /\ r = "alice" /\ s.feeParams = m.body.feeHash
                       /\ s.feeParams # None /\ s.feeAcked
    OBVIOUS
  <2>1. p = "bob"
    BY <1>1, <1>8, PartyInv DEF PrepInv
  <2>2. x.body = [feeHash |-> s.feeParams] /\ s.feeParams # None /\ s.feeAcked
    BY <1>1, <2>1, PartyInv DEF PrepInv
  <2>. QED  BY <1>2, <1>8, <2>1, <2>2
<1>11. m.type = "tx_template_commit" =>
          /\ m.body.commitHash = s.templates /\ m.body.digests = s.templates
          /\ s.peerCommitHash = s.templates /\ s.templates # None
  <2>. SUFFICES ASSUME m.type = "tx_template_commit"
                PROVE  /\ m.body.commitHash = s.templates /\ m.body.digests = s.templates
                       /\ s.peerCommitHash = s.templates /\ s.templates # None
    OBVIOUS
  <2>1. /\ s.peerCommitHash = s.templates
        /\ x.body.digests = s.templates /\ x.body.commitHash = s.templates
    BY <1>1, PartyInv DEF TemplateInv, p
  <2>2. Passed(s, "EXEC_READY")
    BY <1>2, PartyInv DEF LogInv, OpenedBy
  <2>3. Locked(r) /\ LocalInv(r, s, calls[r])
    BY PartyInv DEF StateInv, Resent, SessionOpen, SInv
  <2>4. s.templates # None
    BY <2>2, <2>3, LockedSids, TemplatesKnown
  <2>. QED  BY <1>2, <2>1, <2>4
<1>12. m.type = "tx_template_ack" =>
          m.body.commitHash = s.templates /\ s.localCommitAcked
  <2>. SUFFICES ASSUME m.type = "tx_template_ack"
                PROVE  m.body.commitHash = s.templates /\ s.localCommitAcked
    OBVIOUS
  <2>1. x \in From(s, "tx_template_ack", Other(r)) /\ TemplateInv(r, s)
    BY <1>1, PartyInv DEF p
  <2>2. x.body.commitHash = s.templates /\ s.localCommitAcked
    BY <2>1 DEF TemplateInv
  <2>. QED  BY <1>2, <2>2
<1>. QED  BY <1>3, <1>4, <1>5, <1>6, <1>7, <1>9, <1>10, <1>11, <1>12

LEMMA ResentLeg ==
    ASSUME SInv, NEW r \in Roles, Filled(ss[r]), Resent(r), NEW m, m = Head(net[r]),
           m.type \in {"adaptor_start", "adaptor_resp", "adaptor_ack"},
           NEW leg, leg = ss[r].legs[m.body.which]
    PROVE  /\ m.body.digests = ss[r].templates
           /\ leg.T = m.body.T /\ leg.T # None
           /\ m.type = "adaptor_start" => r = "bob" /\ leg.adaptorSig # None
           /\ m.type = "adaptor_resp" =>
                 r = "alice" /\ leg.adaptorSig # None /\ m.body.sig.whole
           /\ m.type = "adaptor_ack" => r = "bob" /\ leg.acked
<1>. DEFINE p == Other(r)
            x == RecordOf(m)
            s == ss[r]
            l == m.body.which
<1>1. /\ p \in Roles /\ p # r /\ x \in From(s, m.type, p) /\ m.from = p
  BY OtherRole, ResentHeard
<1>2. x.type = m.type /\ x.body = m.body /\ x.from = p /\ x \in Range(s.post)
  BY <1>1 DEF RecordOf, From
<1>. HIDE DEF x, p, l
<1>3. /\ l \in Legs /\ LegInv(r, s, l)
      /\ m.type \in {"adaptor_start", "adaptor_ack"} => p = "alice"
      /\ m.type = "adaptor_resp" => p = "bob"
  BY <1>2, PartyInv DEF AdaptorInv, l
<1>4. (p = "alice" => r = "bob") /\ (p = "bob" => r = "alice")
  BY <1>1 DEF Roles, Other, p
<1>5. x \in FromLeg(s, m.type, p, l)
  BY <1>1, <1>2 DEF FromLeg, l
<1>6. CASE m.type = "adaptor_start"
  <2>1. p = "alice" /\ r = "bob" /\ x \in FromLeg(s, "adaptor_start", "alice", l)
    BY <1>3, <1>4, <1>5, <1>6
  <2>2. /\ x.body = [which |-> l, digests |-> s.templates, T |-> s.legs[l].T]
        /\ s.legs[l].T # None /\ s.legs[l].adaptorSig # None
    BY <1>3, <2>1 DEF LegInv
  <2>3. x.body.digests = s.templates /\ x.body.T = s.legs[l].T
    BY <2>2
  <2>. QED  BY <1>2, <1>6, <2>1, <2>2, <2>3 DEF l
<1>7. CASE m.type = "adaptor_resp"
  <2>1. p = "bob" /\ r = "alice" /\ x \in FromLeg(s, "adaptor_resp", "bob", l)
    BY <1>3, <1>4, <1>5, <1>7
  <2>2. /\ x.body = [which |-> l, digests |-> s.templates, T |-> s.legs[l].T,
                     sig |-> x.body.sig]
        /\ s.legs[l].T # None /\ s.legs[l].adaptorSig # None
        /\ Signed(r, s, l, x.body.sig)
    BY <1>3, <2>1 DEF LegInv
  <2>3. x.body.sig.whole
    BY <2>1, <2>2 DEF Signed
  <2>4. x.body.digests = s.templates /\ x.body.T = s.legs[l].T
    BY <2>2
  <2>. QED  BY <1>2, <1>7, <2>1, <2>2, <2>3, <2>4 DEF l
<1>8. CASE m.type = "adaptor_ack"
  <2>1. p = "alice" /\ r = "bob" /\ x \in FromLeg(s, "adaptor_ack", "alice", l)
    BY <1>3, <1>4, <1>5, <1>8
  <2>2. /\ x.body = [which |-> l, digests |-> s.templates, T |-> s.legs[l].T]
        /\ s.legs[l].T # None /\ s.legs[l].acked
    BY <1>3, <2>1 DEF LegInv
  <2>3. x.body.digests = s.templates /\ x.body.T = s.legs[l].T
    BY <2>2
  <2>. QED  BY <1>2, <1>8, <2>1, <2>2, <2>3 DEF l
<1>. QED  BY <1>6, <1>7, <1>8

LEMMA ResentHash ==
    ASSUME SInv, NEW r \in Roles, Filled(ss[r]), Resent(r), NEW m, m = Head(net[r])
    PROVE  /\ m.type = "txB_broadcast" =>
                 /\ r = "bob" /\ ss[r].peerTxBHash = m.body.txHash
                 /\ ss[r].peerTxBHash # None
           /\ m.type = "txA_broadcast" =>
                 /\ r = "alice" /\ ss[r].peerTxAHash = m.body.txHash
                 /\ ss[r].peerTxAHash # None
<1>. DEFINE p == Other(r)
            x == RecordOf(m)
            s == ss[r]
<1>1. /\ p \in Roles /\ p # r /\ x \in From(s, m.type, p) /\ m.from = p
  BY OtherRole, ResentHeard
<1>2. x.type = m.type /\ x.body = m.body /\ x.from = p /\ x \in Range(s.post)
  BY <1>1 DEF RecordOf, From
<1>3. (p = "alice" => r = "bob") /\ (p = "bob" => r = "alice")
  BY <1>1 DEF Roles, Other
<1>4. BroadcastInv(r, s, calls[r]) /\ None \notin TxHashes
  BY PartyInv, SessionAssumption
<1>. HIDE DEF x, p
<1>5. CASE m.type = "txB_broadcast"
  BY <1>2, <1>3, <1>4, <1>5 DEF BroadcastInv
<1>6. CASE m.type = "txA_broadcast"
  BY <1>2, <1>3, <1>4, <1>6 DEF BroadcastInv
<1>. QED  BY <1>5, <1>6

\* Its handler returns what it was given.
LEMMA ResentReturns ==
    ASSUME SInv, NEW r \in Roles, Filled(ss[r]), Resent(r), SessionIncoming(r)
    PROVE  Returns(r, Work(ss[r]))
<1>. DEFINE m == Head(net[r])
            w == Heard(r, m)
            s == ss[r]
<1>1. w = Work(s) /\ w.s = s /\ m.sid = hs[r].sid /\ InOrder(r, m)
  BY ResentHeard DEF Work
<1>2. /\ s.state \notin {"HANDSHAKE", "ABORTED"} /\ m.type # "malformed"
  BY DEF Resent, SessionOpen
<1>3. ASSUME Returns(r, w) PROVE Returns(r, Work(s))
  BY <1>1, <1>3
<1>. HIDE DEF w
<1>4. ~RcvHandshake(r) /\ ~RcvAborted(r) /\ ~RcvUnparsable(r)
  BY <1>2 DEF RcvHandshake, RcvAborted, RcvUnparsable
<1>5. ~RcvForeignSid(r) /\ ~RcvOutOfOrder(r)
  BY <1>1 DEF RcvForeignSid, RcvOutOfOrder
<1>6. ASSUME RcvUnused(r) PROVE Returns(r, w)
  BY <1>1, <1>6, ResentBody DEF RcvUnused, w
<1>7. ASSUME RcvKeygenAnnounce(r) PROVE Returns(r, w)
  BY <1>1, <1>7, ResentBody DEF RcvKeygenAnnounce, Takes, Keep, w
<1>8. ASSUME RcvCapsuleOffer(r) PROVE Returns(r, w)
  BY <1>1, <1>8, ResentBody DEF RcvCapsuleOffer, Takes, AcceptOffer, w
<1>9. ASSUME RcvCapsuleAck(r) PROVE Returns(r, w)
  BY <1>1, <1>9, ResentBody DEF RcvCapsuleAck, Takes, w
<1>10. ASSUME RcvFundingTx(r) PROVE Returns(r, w)
  <2>1. m.type = "funding_tx"
    BY <1>10 DEF RcvFundingTx, Takes
  <2>2. /\ s.fundingTx[m.body.which] = m.body /\ m.body # None
        /\ m.body.which = m.from /\ m.body.value = "enough"
    BY <2>1, ResentBody
  <2>3. Keep(r, w, w.s.fundingTx[m.body.which], m.body,
             CheckFundingComplete(Note([w EXCEPT !.s.fundingTx[m.body.which] = m.body], m))) = w
    BY <1>1, <2>2 DEF Keep
  <2>. QED  BY <1>10, <2>2, <2>3 DEF RcvFundingTx, w
<1>11. ASSUME RcvNonceReport(r) PROVE Returns(r, w)
  BY <1>1, <1>11, ResentBody DEF RcvNonceReport, Takes, Keep, w
<1>12. ASSUME RcvFeeParams(r) PROVE Returns(r, w)
  BY <1>1, <1>12, ResentBody DEF RcvFeeParams, Takes, Keep, w
<1>13. ASSUME RcvFeeParamsAck(r) PROVE Returns(r, w)
  BY <1>1, <1>13, ResentBody DEF RcvFeeParamsAck, Takes, w
<1>14. ASSUME RcvTemplateCommit(r) PROVE Returns(r, w)
  BY <1>1, <1>14, ResentBody DEF RcvTemplateCommit, Takes, Keep, w
<1>15. ASSUME RcvTemplateAck(r) PROVE Returns(r, w)
  BY <1>1, <1>15, ResentBody DEF RcvTemplateAck, Takes, w
<1>16. ASSUME RcvAdaptorStart(r) PROVE Returns(r, w)
  <2>. DEFINE leg == s.legs[m.body.which]
  <2>1. m.type = "adaptor_start"
    BY <1>16 DEF RcvAdaptorStart, Takes
  <2>2. /\ m.body.digests = s.templates /\ leg.T = m.body.T /\ leg.T # None
        /\ r = "bob" /\ leg.adaptorSig # None
    BY <2>1, ResentLeg
  <2>. QED  BY <1>1, <1>16, <2>2 DEF RcvAdaptorStart, Answered, w
<1>17. ASSUME RcvAdaptorResp(r) PROVE Returns(r, w)
  <2>. DEFINE leg == s.legs[m.body.which]
  <2>1. m.type = "adaptor_resp"
    BY <1>17 DEF RcvAdaptorResp, Takes
  <2>2. /\ m.body.digests = s.templates /\ leg.T = m.body.T /\ leg.T # None
        /\ r = "alice" /\ leg.adaptorSig # None /\ m.body.sig.whole
    BY <2>1, ResentLeg
  <2>. QED  BY <1>1, <1>17, <2>2 DEF RcvAdaptorResp, w
<1>18. ASSUME RcvAdaptorAck(r) PROVE Returns(r, w)
  <2>. DEFINE leg == s.legs[m.body.which]
  <2>1. m.type = "adaptor_ack"
    BY <1>18 DEF RcvAdaptorAck, Takes
  <2>2. /\ m.body.digests = s.templates /\ leg.T = m.body.T /\ leg.T # None
        /\ r = "bob" /\ leg.acked
    BY <2>1, ResentLeg
  <2>. QED  BY <1>1, <1>18, <2>2 DEF RcvAdaptorAck, w
<1>19. ASSUME RcvTxBBroadcast(r) PROVE Returns(r, w)
  BY <1>1, <1>19, ResentHash DEF RcvTxBBroadcast, Takes, Keep, w
<1>20. ASSUME RcvTxABroadcast(r) PROVE Returns(r, w)
  BY <1>1, <1>20, ResentHash DEF RcvTxABroadcast, Takes, Keep, w
<1>. QED
  BY <1>3, <1>4, <1>5, <1>6, <1>7, <1>8, <1>9, <1>10, <1>11, <1>12, <1>13, <1>14,
     <1>15, <1>16, <1>17, <1>18, <1>19, <1>20 DEF SessionIncoming

-----------------------------------------------------------------------------
(* Which steps bring a message *)

\* Every session is a record of its fields, and the faults are counted.
Whole == (\A r \in Roles : Filled(ss[r])) /\ faults \in Nat

\* A step of q's that does not bring q a message.
Calling(q) ==
    /\ \A r \in Roles \ {q} : ss'[r] = ss[r]
    /\ Filled(ss'[q]) /\ Len(net'[Other(q)]) >= Len(net[Other(q)])
    /\ net'[q] = net[q] /\ faults' = faults

LEMMA CallsCall ==
    ASSUME SInv, Whole, NEW q \in Roles, ClientCalls(q)
    PROVE  Calling(q)
<1>1. /\ \A r \in Roles : Standing(r)
      /\ "alice" \in Roles /\ "bob" \in Roles /\ Other(q) # q
  BY OtherRole DEF SInv, Whole, Standing, Roles
<1>2. ASSUME NEW w, Emits(q, w) PROVE net'[q] = net[q]
  BY <1>1, <1>2 DEF Emits
<1>3. ASSUME NEW which \in Roles, NotifyFundingConfirmed(q, which)
      PROVE  Calling(q)
  BY <1>1, <1>2, <1>3, ConfirmationEffect DEF NotifyFundingConfirmed, SessionRest, Calling
<1>4. ASSUME Turned(q), net'[q] = net[q], faults' = faults PROVE Calling(q)
  BY <1>4 DEF Turned, Calling
<1>5. ASSUME EmitFundingTx(q) PROVE Calling(q)
  BY <1>1, <1>2, <1>4, <1>5, EmitFundingTxSteady DEF EmitFundingTx, CallOnce
<1>6. ASSUME OnExecPrepStarted(q) PROVE Calling(q)
  BY <1>1, <1>2, <1>4, <1>6, OnExecPrepStartedSteady DEF OnExecPrepStarted, CallOnce
<1>7. ASSUME q = "alice", AnnounceTxBHash PROVE Calling(q)
  BY <1>1, <1>2, <1>4, <1>7, AnnounceSteady DEF AnnounceTxBHash, CallOnce
<1>8. ASSUME q = "alice", AbortOnTxA PROVE Calling(q)
  BY <1>1, <1>2, <1>4, <1>8, AnnounceSteady DEF AbortOnTxA, CallOnce
<1>9. ASSUME q = "bob", AnnounceTxAHash PROVE Calling(q)
  BY <1>1, <1>2, <1>4, <1>9, AnnounceSteady DEF AnnounceTxAHash, CallOnce
<1>. QED  BY <1>3, <1>5, <1>6, <1>7, <1>8, <1>9 DEF ClientCalls

\* Hearing a message is not a fault.
LEMMA IncomingFaultless ==
    ASSUME NEW q \in Roles, SessionIncoming(q)
    PROVE  faults' = faults
<1>1. CASE RcvHandshake(q)
  BY <1>1 DEF RcvHandshake, HandleIncoming, RcvClosed, RcvMalformed, RcvReplay,
              RcvUnexpectedSid, RcvHelloMismatch, RcvHello, RcvHelloAck, RcvOther
<1>2. CASE UNCHANGED SessionRest
  BY <1>2 DEF SessionRest
<1>3. \/ RcvHandshake(q) \/ UNCHANGED SessionRest
  BY DEF SessionIncoming, RcvAborted, RcvUnparsable, RcvForeignSid, RcvOutOfOrder,
         RcvUnused, RcvKeygenAnnounce, RcvCapsuleOffer, RcvCapsuleAck, RcvFundingTx,
         RcvNonceReport, RcvFeeParams, RcvFeeParamsAck, RcvTemplateCommit,
         RcvTemplateAck, RcvAdaptorStart, RcvAdaptorResp, RcvAdaptorAck,
         RcvTxBBroadcast, RcvTxABroadcast
<1>. QED  BY <1>1, <1>2, <1>3

\* What a step is, by who hears what.
LEMMA StepsOf ==
    ASSUME SInv, Whole, [SessionNext]_sessionVars
    PROVE  \/ \E q \in Roles : SessionIncoming(q) /\ Turned(q) /\ faults' = faults
           \/ \E q \in Roles : Calling(q)
           \/ ss' = ss /\ faults' = faults + 1
           \/ ss' = ss /\ faults' = faults /\ net' = net
<1>1. \A r \in Roles : Standing(r)
  BY OtherRole DEF SInv, Whole, Standing
<1>2. ASSUME NEW q \in Roles, StartHandshake(q) PROVE Calling(q)
  <2>1. Other(q) \in Roles /\ Other(q) # q
    BY OtherRole
  <2>2. PICK m : net' = [net EXCEPT ![Other(q)] = Append(@, m)]
    BY <1>2 DEF StartHandshake, Start
  <2>3. ss' = ss /\ faults' = faults
    BY <1>2 DEF StartHandshake, Start
  <2>4. net[Other(q)] \in Seq(Range(net[Other(q)])) /\ DOMAIN net = Roles
    BY <1>1 DEF Standing
  <2>5. Len(Append(net[Other(q)], m)) = Len(net[Other(q)]) + 1 /\ Len(net[Other(q)]) \in Nat
    <3>1. net[Other(q)] \in Seq(Range(net[Other(q)]) \cup {m})
      BY <2>4, SeqMonotonic
    <3>. QED  BY <3>1, AppendProperties, LenProperties
  <2>. QED  BY <2>1, <2>2, <2>3, <2>4, <2>5 DEF Whole, Calling
<1>3. ASSUME NEW q \in Roles, SessionIncoming(q)
      PROVE  Turned(q) /\ faults' = faults
  <2>1. Turned(q)
    BY <1>1, <1>3, IncomingSteady
  <2>2. faults' = faults
    BY <1>3, IncomingFaultless
  <2>. QED  BY <2>1, <2>2
<1>4. ASSUME SessionNetwork \/ \E r \in Roles : TamperCapsule(r)
      PROVE  ss' = ss /\ faults' = faults + 1
  BY <1>4 DEF SessionNetwork, Network, Lose, Duplicate, Reorder,
               Corrupt, TamperCapsule, MayFail
<1>5. ASSUME UNCHANGED sessionVars
      PROVE  ss' = ss /\ faults' = faults /\ net' = net
  BY <1>5 DEF sessionVars
<1>. QED  BY <1>2, <1>3, <1>4, <1>5, CallsCall DEF SessionNext

LEMMA WholeStays ==
    SessionSpec => []Whole
<1>1. SessionInit => Whole
  <2>1. Filled(SessionCreated)
    BY DEF SessionCreated, Filled, SessionFields
  <2>. QED  BY <2>1 DEF SessionInit, Init, Whole
<1>2. SInv /\ Whole /\ [SessionNext]_sessionVars => Whole'
  <2>. SUFFICES ASSUME SInv, Whole, [SessionNext]_sessionVars PROVE Whole'
    OBVIOUS
  <2>1. CASE \E q \in Roles : SessionIncoming(q) /\ Turned(q) /\ faults' = faults
    BY <2>1 DEF Turned, Whole
  <2>2. CASE \E q \in Roles : Calling(q)
    BY <2>2 DEF Calling, Whole
  <2>3. CASE ss' = ss /\ (faults' = faults \/ faults' = faults + 1)
    BY <2>3 DEF Whole
  <2>. QED  BY <2>1, <2>2, <2>3, StepsOf
<1>. QED  BY <1>1, <1>2, SessionInvariance, PTL DEF SessionSpec

\* A message that was accepted once and comes again with the last number heard
\* changes nothing: no field, no transcript, no answer, no abort.
THEOREM ResendsIgnored == SessionSpec => ResendIgnored
<1>1. ASSUME SInv, Whole, [SessionNext]_sessionVars, NEW r \in Roles, Resent(r),
             net'[r] = Tail(net[r]), faults' = faults
      PROVE  ss'[r] = ss[r] /\ net'[Other(r)] = net[Other(r)]
  <2>1. Filled(ss[r]) /\ ss = [q \in Roles |-> ss[q]] /\ net = [q \in Roles |-> net[q]]
    BY <1>1 DEF Whole, SInv
  <2>2. Len(net'[r]) < Len(net[r])
    <3>1. net[r] \in Seq(Range(net[r])) /\ net[r] # <<>>
      BY <1>1 DEF SInv, Resent
    <3>. QED  BY <1>1, <3>1, HeadTailProperties, LenProperties
  <2>3. Len(net[r]) \in Nat /\ Len(net'[r]) \in Nat
    <3>1. net[r] \in Seq(Range(net[r])) /\ net[r] # <<>>
      BY <1>1 DEF SInv, Resent
    <3>. QED  BY <1>1, <3>1, HeadTailProperties, LenProperties
  <2>4. SessionIncoming(r)
    <3>1. ASSUME NEW q \in Roles, Len(net'[Other(q)]) >= Len(net[Other(q)])
          PROVE  q = r
      <4>1. ~(Len(net'[r]) >= Len(net[r]))
        BY <2>2, <2>3
      <4>2. Other(q) # r
        BY <3>1, <4>1
      <4>. QED  BY <4>2, OtherRole
    <3>2. ASSUME NEW q \in Roles, Calling(q) PROVE FALSE
      <4>1. q = r /\ net'[q] = net[q]
        BY <3>1, <3>2 DEF Calling
      <4>. QED  BY <2>2, <2>3, <4>1
    <3>3. net' # net
      BY <2>2, <2>3
    <3>4. faults' # faults + 1
      BY <1>1 DEF Whole
    <3>5. PICK q \in Roles : SessionIncoming(q) /\ Turned(q)
      BY <1>1, <3>2, <3>3, <3>4, StepsOf
    <3>. QED  BY <3>1, <3>5 DEF Turned
  <2>5. Returns(r, Work(ss[r]))
    BY <1>1, <2>1, <2>4, ResentReturns
  <2>6. ss'[r] = ss[r]
    BY <2>1, <2>5 DEF Returns, Work
  <2>7. net'[Other(r)] = net[Other(r)] \o <<>>
    BY <2>1, <2>5, OtherRole DEF Returns, Work, Consume
  <2>8. net[Other(r)] \in Seq(Range(net[Other(r)]))
    BY <1>1, OtherRole DEF SInv
  <2>. QED  BY <2>6, <2>7, <2>8, ConcatEmptySeq
<1>2. SInv /\ Whole /\ [SessionNext]_sessionVars =>
          [\A r \in Roles :
              LET m == Head(net[r])
              IN  /\ net[r] # <<>> /\ net'[r] = Tail(net[r]) /\ faults' = faults
                  /\ SessionOpen(r) /\ m.type # "malformed"
                  /\ RecordOf(m) \in Range(ss[r].post)
                  /\ m.seq >= ss[r].lastPostSeq
                  => ss'[r] = ss[r] /\ net'[Other(r)] = net[Other(r)]]_sessionVars
  BY <1>1 DEF Resent
<1>. QED  BY <1>2, SessionInvariance, WholeStays, PTL DEF SessionSpec, ResendIgnored

-----------------------------------------------------------------------------
(* The lockstep *)

\* A step moves one session at most, by the progress a handler can make.
LEMMA OneMoves ==
    ASSUME SInv, Whole, [SessionNext]_sessionVars
    PROVE  \/ ss' = ss
           \/ \E r \in Roles : Moved(r) /\ \A q \in Roles \ {r} : ss'[q] = ss[q]
<1>1. \A r \in Roles : Standing(r)
  BY OtherRole DEF SInv, Whole, Standing
<1>2. "alice" \in Roles /\ "bob" \in Roles
  BY DEF Roles
<1>3. ASSUME NEW r \in Roles, SessionIncoming(r) PROVE Moved(r) /\ Turned(r)
  BY <1>1, <1>3, IncomingSteady
<1>4. ASSUME NEW r \in Roles, ClientCalls(r)
      PROVE  Moved(r) /\ \A q \in Roles \ {r} : ss'[q] = ss[q]
  <2>1. r = "alice" /\ ss[r].feeParams # None => ss[r].localNonces # None
    BY PartyInv DEF PrepInv
  <2>2. ASSUME NEW which \in Roles, NotifyFundingConfirmed(r, which)
        PROVE  Moved(r) /\ \A q \in Roles \ {r} : ss'[q] = ss[q]
    BY <1>1, <2>2, ConfirmationEffect
  <2>3. (Moved(r) /\ Turned(r)) \/ \E which \in Roles : NotifyFundingConfirmed(r, which)
    BY <1>1, <1>4, <2>1, EmitFundingTxSteady, OnExecPrepStartedSteady, AnnounceSteady
       DEF ClientCalls
  <2>. QED  BY <2>2, <2>3 DEF Turned
<1>5. ASSUME \/ \E r \in Roles : StartHandshake(r) \/ TamperCapsule(r)
             \/ SessionNetwork \/ UNCHANGED sessionVars
      PROVE  ss' = ss
  BY <1>5 DEF StartHandshake, SessionNetwork, TamperCapsule, sessionVars
<1>. QED  BY <1>3, <1>4, <1>5 DEF SessionNext, Turned

\* A party has reached the milestones up to its phase, and stands in the state
\* that the next one ends unless it has stopped or is through.
Ordered(r) ==
    /\ Phase(r) \in 0 .. 6
    /\ \A k \in 1 .. 6 : Reached(r, MilestoneOrder[k]) <=> k <= Phase(r)
    /\ \A k \in 1 .. 6 : ss[r].state = ClosedBy[MilestoneOrder[k]] => Phase(r) = k - 1
    /\ DOMAIN ss[r].milestones = Milestones

LEMMA OrderOfMilestones ==
    /\ MilestoneOrder[1] = "KEYGEN_COMPLETE" /\ MilestoneOrder[2] = "CAPSULES_VERIFIED"
    /\ MilestoneOrder[3] = "FUNDED" /\ MilestoneOrder[4] = "EXEC_READY"
    /\ MilestoneOrder[5] = "EXEC_TEMPLATES_READY" /\ MilestoneOrder[6] = "EXECUTION_PLANNED"
    /\ Len(MilestoneOrder) = 6
    /\ \A event \in Milestones : \E k \in 1 .. 6 : event = MilestoneOrder[k]
    /\ \A k \in 1 .. 6 : MilestoneOrder[k] \in Milestones
<1>1. /\ MilestoneOrder[1] = "KEYGEN_COMPLETE" /\ MilestoneOrder[2] = "CAPSULES_VERIFIED"
      /\ MilestoneOrder[3] = "FUNDED" /\ MilestoneOrder[4] = "EXEC_READY"
      /\ MilestoneOrder[5] = "EXEC_TEMPLATES_READY"
      /\ MilestoneOrder[6] = "EXECUTION_PLANNED"
      /\ Len(MilestoneOrder) = 6
  BY DEF MilestoneOrder
<1>2. ASSUME NEW event \in Milestones PROVE \E k \in 1 .. 6 : event = MilestoneOrder[k]
  <2>1. /\ 1 \in 1 .. 6 /\ 2 \in 1 .. 6 /\ 3 \in 1 .. 6
        /\ 4 \in 1 .. 6 /\ 5 \in 1 .. 6 /\ 6 \in 1 .. 6
    OBVIOUS
  <2>. QED  BY <1>1, <2>1, MilestoneSet
<1>3. ASSUME NEW k \in 1 .. 6 PROVE MilestoneOrder[k] \in Milestones
  <2>1. k = 1 \/ k = 2 \/ k = 3 \/ k = 4 \/ k = 5 \/ k = 6
    OBVIOUS
  <2>. QED  BY <1>1, <2>1, MilestoneSet
<1>. QED  BY <1>1, <1>2, <1>3

LEMMA PhasesOrdered ==
    ASSUME SInv, NEW r \in Roles
    PROVE  Ordered(r)
<1>1. StateInv(r, ss[r]) /\ LogInv(ss[r])
  BY PartyInv
<1>2. Phase(r) \in 0 .. 6
  BY PhaseValue
<1>3. ASSUME NEW k \in 1 .. 6
      PROVE  /\ Reached(r, MilestoneOrder[k]) <=> k <= Phase(r)
             /\ ss[r].state = ClosedBy[MilestoneOrder[k]] => Phase(r) = k - 1
  <2>1. k = 1 \/ k = 2 \/ k = 3 \/ k = 4 \/ k = 5 \/ k = 6
    OBVIOUS
  <2>2. Reached(r, MilestoneOrder[k]) <=> Passed(ss[r], MilestoneOrder[k])
    BY ReachedPassed
  <2>3. Passed(ss[r], MilestoneOrder[k]) <=> k <= Phase(r)
    BY <2>1, PhaseValue, InOrderPassed, OrderOfMilestones
  <2>4. ss[r].state = ClosedBy[MilestoneOrder[k]] => Phase(r) = k - 1
    BY <1>1, <2>1, PhaseValue, InOrderPassed, OrderOfMilestones DEF ClosedBy, StateInv
  <2>. QED  BY <2>2, <2>3, <2>4
<1>. QED  BY <1>1, <1>2, <1>3 DEF Ordered, LogInv

\* A finite sequence given by its entries, and one that has an entry more.
LEMMA LongerLog ==
    ASSUME NEW n \in Nat, NEW S, NEW f \in [1 .. n -> S], NEW g \in [1 .. n + 1 -> S],
           \A i \in 1 .. n : g[i] = f[i]
    PROVE  /\ Len(f) = n /\ g = Append(f, g[n + 1])
           /\ n + 1 \in DOMAIN g
<1>. DEFINE e == g[n + 1]
<1>2. f \in Seq(S) /\ g \in Seq(S) /\ e \in S
  <2>1. \A m \in Nat : \A h \in [1 .. m -> S] : h \in Seq(S)
    OBVIOUS
  <2>. QED  BY <2>1
<1>. HIDE DEF e
<1>3. Len(f) = n
  BY <1>2, LenProperties
<1>4. /\ Append(f, e) \in Seq(S) /\ Len(Append(f, e)) = n + 1
      /\ \A i \in 1 .. n : Append(f, e)[i] = f[i]
      /\ Append(f, e)[n + 1] = e
  BY <1>2, <1>3, AppendProperties
<1>5. Len(g) = n + 1
  BY <1>2, LenProperties
<1>6. ASSUME NEW i \in 1 .. n + 1 PROVE g[i] = Append(f, e)[i]
  <2>1. i \in 1 .. n \/ i = n + 1
    OBVIOUS
  <2>. QED  BY <1>4, <2>1 DEF e
<1>7. g = Append(f, e)
  BY <1>2, <1>4, <1>5, <1>6, SeqEqual
<1>. QED  BY <1>3, <1>7 DEF e

LEMMA LogLength ==
    ASSUME NEW n \in Nat, NEW f, DOMAIN f = 1 .. n, f = [i \in 1 .. n |-> f[i]]
    PROVE  Len(f) = n
<1>. DEFINE S == Range(f)
<1>1. f \in [1 .. n -> S]
  BY DEF Range
<1>. HIDE DEF S
<1>2. \A m \in Nat : \A h \in [1 .. m -> S] : h \in Seq(S)
  OBVIOUS
<1>. QED  BY <1>1, <1>2, LenProperties

\* What r's log says of its k-th milestone.
Entry(r, k) == TranscriptHash(ss[r].milestones[MilestoneOrder[k]])

\* The milestone a party marks is the next one of its order, and no other changes.
LEMMA NextMilestone ==
    ASSUME NEW r \in Roles, Ordered(r), Ordered(r)', Moved(r),
           NEW changed \in Milestones,
           ss'[r].milestones[changed] # ss[r].milestones[changed]
    PROVE  /\ ss[r].state # "ABORTED" /\ ss'[r].state # "ABORTED"
           /\ Phase(r) < 6 /\ Phase(r)' = Phase(r) + 1
           /\ \A k \in 1 .. Phase(r) : Entry(r, k)' = Entry(r, k)
<1>1. PICK event \in Milestones :
          /\ ss[r].state = ClosedBy[event]
          /\ ss'[r].milestones = [ss[r].milestones EXCEPT ![event] = ss'[r].milestones[event]]
          /\ ss'[r].state # "ABORTED" /\ ss[r].state # "ABORTED"
  BY DEF Moved, Progress
<1>2. PICK k \in 1 .. 6 : event = MilestoneOrder[k]
  BY OrderOfMilestones
<1>3. Phase(r) = k - 1
  BY <1>1, <1>2 DEF Ordered
<1>4. ASSUME NEW j \in 1 .. 6, j # k
      PROVE  ss'[r].milestones[MilestoneOrder[j]] = ss[r].milestones[MilestoneOrder[j]]
  <2>1. MilestoneOrder[j] # event /\ MilestoneOrder[j] \in Milestones
    <3>1. /\ j = 1 \/ j = 2 \/ j = 3 \/ j = 4 \/ j = 5 \/ j = 6
          /\ k = 1 \/ k = 2 \/ k = 3 \/ k = 4 \/ k = 5 \/ k = 6
      OBVIOUS
    <3>. QED  BY <1>2, <1>4, <3>1, OrderOfMilestones
  <2>. QED  BY <1>1, <2>1 DEF Ordered
<1>5. ss[r].milestones[MilestoneOrder[k]] = <<>>
  BY <1>3 DEF Ordered, Reached
<1>6. ss'[r].milestones[MilestoneOrder[k]] # <<>>
  <2>1. changed = event
    BY <1>1 DEF Ordered
  <2>. QED  BY <1>2, <1>5, <2>1
<1>7. \A j \in 1 .. 6 : ss'[r].milestones[MilestoneOrder[j]] # <<>> <=> j <= Phase(r)'
  BY DEF Ordered, Reached
<1>8. \A j \in 1 .. 6 : ss[r].milestones[MilestoneOrder[j]] # <<>> <=> j <= Phase(r)
  BY DEF Ordered, Reached
<1>9. Phase(r)' \in 0 .. 6 /\ Phase(r) \in 0 .. 6
  BY DEF Ordered
<1>10. Phase(r)' >= k
  BY <1>6, <1>7
<1>11. ASSUME Phase(r)' > k PROVE FALSE
  <2>1. k + 1 \in 1 .. 6 /\ k + 1 # k /\ k + 1 <= Phase(r)' /\ ~(k + 1 <= Phase(r))
    BY <1>3, <1>9, <1>11
  <2>2. ss[r].milestones[MilestoneOrder[k + 1]] # <<>>
    BY <1>4, <1>7, <2>1
  <2>. QED  BY <1>3, <1>8, <2>1, <2>2
<1>12. ASSUME NEW j \in 1 .. Phase(r) PROVE Entry(r, j)' = Entry(r, j)
  <2>1. j \in 1 .. 6 /\ j # k
    BY <1>3, <1>9
  <2>2. ss'[r].milestones[MilestoneOrder[j]] = ss[r].milestones[MilestoneOrder[j]]
    BY <1>4, <2>1
  <2>. QED  BY <2>2 DEF Entry, TranscriptHash
<1>. QED  BY <1>1, <1>3, <1>9, <1>10, <1>11, <1>12

\* Where the milestones of a party stay, its log does.
LEMMA LogStays ==
    ASSUME NEW r, Ordered(r),
           \A event \in Milestones :
               ss'[r].milestones[event] = ss[r].milestones[event]
    PROVE  MilestoneLog(r)' = MilestoneLog(r) /\ Phase(r)' = Phase(r)
<1>1. Phase(r)' = Phase(r)
  BY DEF Phase, Reached
<1>2. ASSUME NEW k \in 1 .. 6 PROVE Entry(r, k)' = Entry(r, k)
  BY OrderOfMilestones DEF Entry, TranscriptHash
<1>3. 1 .. Phase(r) \subseteq 1 .. 6
  BY DEF Ordered
<1>4. MilestoneLog(r) = [k \in 1 .. Phase(r) |-> Entry(r, k)]
  BY DEF MilestoneLog, Entry
<1>5. MilestoneLog(r)' = [k \in 1 .. Phase(r)' |-> Entry(r, k)']
  BY DEF MilestoneLog, Entry
<1>. QED  BY <1>1, <1>2, <1>3, <1>4, <1>5

\* A step of the sessions is a step of their logs, or none.
LEMMA StepInLockstep ==
    ASSUME SInv, Whole, [SessionNext]_sessionVars,
           \A r \in Roles : Ordered(r) /\ Ordered(r)', PhaseLag', MilestoneAgreement'
    PROVE  [Milestoned!Next]_(Milestoned!lockstepVars)
<1>. DEFINE log == [r \in Roles |-> MilestoneLog(r)]
            stopped == {r \in Roles : Aborted(r)}
<1>1. Roles = {"alice", "bob"} /\ Milestoned!Parties = Roles
  BY DEF Roles, Milestoned!Parties
<1>2. ASSUME NEW r \in Roles,
             \A event \in Milestones :
                 ss'[r].milestones[event] = ss[r].milestones[event]
      PROVE  MilestoneLog(r)' = MilestoneLog(r) /\ Phase(r)' = Phase(r)
  BY <1>2, LogStays
<1>3. CASE ss' = ss
  <2>1. log' = log
    BY <1>2, <1>3
  <2>2. stopped' = stopped
    BY <1>3 DEF Aborted
  <2>. QED  BY <2>1, <2>2 DEF Milestoned!lockstepVars
<1>4. ASSUME NEW r \in Roles, Moved(r), \A q \in Roles \ {r} : ss'[q] = ss[q],
             \A event \in Milestones :
                 ss'[r].milestones[event] = ss[r].milestones[event]
      PROVE  [Milestoned!Next]_(Milestoned!lockstepVars)
  <2>1. log' = log
    <3>1. ASSUME NEW q \in Roles PROVE MilestoneLog(q)' = MilestoneLog(q)
      BY <1>2, <1>4
    <3>. QED  BY <3>1
  <2>2. \/ stopped' = stopped
        \/ stopped' = stopped \cup {r}
    BY <1>4 DEF Aborted, Moved, Progress
  <2>3. stopped' = stopped \cup {r} => Milestoned!Stop(r)
    BY <2>1 DEF Milestoned!Stop
  <2>. QED  BY <1>1, <2>1, <2>2, <2>3 DEF Milestoned!lockstepVars, Milestoned!Next
<1>5. ASSUME NEW r \in Roles, Moved(r), \A q \in Roles \ {r} : ss'[q] = ss[q],
             NEW event \in Milestones,
             ss'[r].milestones[event] # ss[r].milestones[event]
      PROVE  Milestoned!Pass(r)
  <2>. DEFINE p == Other(r)
  <2>0. PICK n \in Nat : n = Phase(r)
    BY DEF Ordered
  <2>. DEFINE e == Entry(r, n + 1)'
  <2>1. p \in Roles /\ p # r /\ Milestoned!Peer(r) = p
        /\ {r, p} = {"alice", "bob"}
    BY OtherRole DEF Roles, Other, Milestoned!Peer
  <2>2. /\ ss[r].state # "ABORTED" /\ ss'[r].state # "ABORTED"
        /\ n < 6 /\ Phase(r)' = n + 1
        /\ \A k \in 1 .. n : Entry(r, k)' = Entry(r, k)
    <3>1. /\ Phase(r) < 6 /\ Phase(r)' = Phase(r) + 1
          /\ \A k \in 1 .. Phase(r) : Entry(r, k)' = Entry(r, k)
          /\ ss[r].state # "ABORTED" /\ ss'[r].state # "ABORTED"
      BY <1>5, NextMilestone
    <3>. QED  BY <2>0, <3>1
  <2>3. n \in Nat /\ Phase(p) \in Nat
    BY <2>1 DEF Ordered
  <2>4. MilestoneLog(p)' = MilestoneLog(p) /\ Phase(p)' = Phase(p)
    BY <1>2, <1>5, <2>1
  <2>5. /\ MilestoneLog(r) = [k \in 1 .. n |-> Entry(r, k)]
        /\ MilestoneLog(r)' = [k \in 1 .. n + 1 |-> Entry(r, k)']
    BY <2>0, <2>2 DEF MilestoneLog, Entry
  <2>6. /\ Len(MilestoneLog(r)) = n /\ n + 1 \in DOMAIN MilestoneLog(r)'
        /\ MilestoneLog(r)' = Append(MilestoneLog(r), e)
        /\ MilestoneLog(r)'[n + 1] = e
    <3>. DEFINE f == MilestoneLog(r)
                g == MilestoneLog(r)'
    <3>. DEFINE S == Range(g)
    <3>1. \A k \in 1 .. n : g[k] = f[k]
      BY <2>2, <2>3, <2>5
    <3>2. g[n + 1] = e
      BY <2>3, <2>5
    <3>3. f \in [1 .. n -> S] /\ g \in [1 .. n + 1 -> S]
      <4>1. DOMAIN g = 1 .. n + 1 /\ DOMAIN f = 1 .. n
        BY <2>5
      <4>2. \A k \in 1 .. n + 1 : g[k] \in S
        BY <4>1 DEF Range
      <4>3. \A k \in 1 .. n : f[k] \in S
        BY <2>3, <3>1, <4>2
      <4>. HIDE DEF S
      <4>. QED  BY <2>5, <4>2, <4>3
    <3>. HIDE DEF f, g, e, S
    <3>4. Len(f) = n /\ g = Append(f, e) /\ n + 1 \in DOMAIN g
      BY <3>1, <3>2, <3>3, LongerLog
    <3>. QED  BY <3>2, <3>4 DEF f, g
  <2>7. Len(MilestoneLog(p)) = Phase(p)
    BY <2>3, LogLength DEF MilestoneLog
  <2>8. n + 1 <= Phase(p) + 1
    BY <2>1, <2>2, <2>3, <2>4 DEF PhaseLag
  <2>9. ASSUME n + 1 <= Phase(p) PROVE e = MilestoneLog(p)[n + 1]
    <3>. DEFINE m == MilestoneOrder[n + 1]
    <3>1. n + 1 \in 1 .. 6 /\ n + 1 \in 1 .. Phase(p) /\ m \in Milestones
      BY <2>2, <2>3, <2>9, OrderOfMilestones
    <3>2. Reached(r, m)' /\ Reached(p, m)'
      BY <2>1, <2>2, <2>3, <2>4, <2>9, <3>1 DEF Ordered
    <3>3. \A q \in Roles : Reached(q, m)'
      BY <1>1, <2>1, <3>2
    <3>4. Entry(r, n + 1)' = Entry(p, n + 1)'
      <4>1. Entry("alice", n + 1)' = Entry("bob", n + 1)'
        BY <3>1, <3>3 DEF MilestoneAgreement, Entry, TranscriptHash
      <4>2. (r = "alice" /\ p = "bob") \/ (r = "bob" /\ p = "alice")
        BY <1>1, <2>1
      <4>3. CASE r = "alice" /\ p = "bob"
        BY <4>1, <4>3
      <4>4. CASE r = "bob" /\ p = "alice"
        BY <4>1, <4>4
      <4>. QED  BY <4>2, <4>3, <4>4
    <3>5. Entry(p, n + 1)' = Entry(p, n + 1)
      BY <1>5, <2>1 DEF Entry, TranscriptHash
    <3>6. MilestoneLog(p)[n + 1] = Entry(p, n + 1)
      BY <3>1 DEF MilestoneLog, Entry
    <3>. QED  BY <3>4, <3>5, <3>6
  <2>10. stopped' = stopped /\ r \notin stopped
    BY <1>5, <2>1, <2>2 DEF Aborted
  <2>11. log' = [log EXCEPT ![r] = Append(@, e)]
    <3>1. ASSUME NEW q \in Roles, q # r PROVE MilestoneLog(q)' = MilestoneLog(q)
      BY <1>1, <2>1, <2>4, <3>1
    <3>. QED  BY <2>6, <3>1
  <2>12. /\ log[r] = MilestoneLog(r) /\ log[p] = MilestoneLog(p)
         /\ log'[r] = MilestoneLog(r)'
    BY <2>1
  <2>. HIDE DEF log, stopped, e
  <2>13. /\ Len(log[r]) = n /\ n + 1 \in DOMAIN log'[r] /\ log'[r][n + 1] = e
         /\ Len(log[p]) = Phase(p) /\ n + 1 <= 6
    BY <2>2, <2>3, <2>6, <2>7, <2>12
  <2>14. n + 1 <= Len(log[p]) => e = log[p][n + 1]
    BY <2>9, <2>12, <2>13
  <2>15. LET k == Len(log[r]) + 1
         IN  /\ r \notin stopped
             /\ k <= Len(MilestoneOrder)
             /\ k <= Len(log[Milestoned!Peer(r)]) + 1
             /\ k \in DOMAIN log'[r]
             /\ log' = [log EXCEPT ![r] = Append(@, log'[r][k])]
             /\ k <= Len(log[Milestoned!Peer(r)]) =>
                   log'[r][k] = log[Milestoned!Peer(r)][k]
             /\ stopped' = stopped
    BY <2>1, <2>8, <2>10, <2>11, <2>13, <2>14, OrderOfMilestones
  <2>. QED  BY <2>15 DEF Milestoned!Pass, log, stopped
<1>. QED
  BY <1>1, <1>3, <1>4, <1>5, OneMoves DEF Milestoned!Next

LEMMA StartsInLockstep == SessionInit => Milestoned!Init
<1>. SUFFICES ASSUME SessionInit PROVE Milestoned!Init
  OBVIOUS
<1>1. ASSUME NEW r \in Roles PROVE MilestoneLog(r) = <<>> /\ ~Aborted(r)
  <2>1. ss[r].state = "HANDSHAKE" /\ \A event \in Milestones : ss[r].milestones[event] = <<>>
    BY DEF SessionInit, SessionCreated
  <2>2. {event \in Milestones : Reached(r, event)} = {}
    BY <2>1 DEF Reached
  <2>3. Phase(r) = 0
    BY <2>2, FS_EmptySet DEF Phase
  <2>. QED  BY <2>1, <2>3 DEF MilestoneLog, Aborted
<1>. QED  BY <1>1 DEF Milestoned!Init, Milestoned!Parties, Roles

\* Over any network of these faults, two sessions pass their milestones in one
\* order, at most one apart, over transcripts that agree, and pass none once they
\* have aborted or in the step that aborts them.
THEOREM SessionsInLockstep == SessionSpec => ImplementsLockstep
<1>1. SInv => \A r \in Roles : Ordered(r)
  BY PhasesOrdered
<1>2. ASSUME SInv, Whole, [SessionNext]_sessionVars,
             \A r \in Roles : Ordered(r), (\A r \in Roles : Ordered(r))',
             PhaseLag', MilestoneAgreement'
      PROVE  [Milestoned!Next]_(Milestoned!lockstepVars)
  BY <1>2, StepInLockstep
<1>. QED
  BY <1>1, <1>2, StartsInLockstep, SessionInvariance, WholeStays, NeverTwoAhead,
     MilestonesAgree, PTL DEF SessionSpec, ImplementsLockstep, Milestoned!Spec
=============================================================================
