------------------------ MODULE SessionRecordProofs ------------------------
(***************************************************************************)
(* Lemmas about one party's session (SessionInvariant's LocalInv): what a  *)
(* record of a message and the fields set with it, a milestone, a number   *)
(* heard or an abort keep of it.  Each says what one statement of a        *)
(* handler does to one record.  The statements, the check... functions and *)
(* the end of a handler put them together, and keep SInv;                  *)
(* SessionRuntimeProofs applies them to the handlers.                      *)
(***************************************************************************)
EXTENDS SessionInvariant, HandshakeRuntimeProofs

-----------------------------------------------------------------------------
(* Names *)

LEMMA MilestoneSet ==
    Milestones = {"KEYGEN_COMPLETE", "CAPSULES_VERIFIED", "FUNDED", "EXEC_READY",
                  "EXEC_TEMPLATES_READY", "EXECUTION_PLANNED"}
BY DEF Milestones, MilestoneOrder, Range

LEMMA PostTypes ==
    DOMAIN StageOf =
        {"keygen_announce", "capsule_offer", "capsule_ack", "funding_tx", "nonce_report",
         "fee_params", "fee_params_ack", "tx_template_commit", "tx_template_ack",
         "adaptor_start", "adaptor_resp", "adaptor_ack", "txB_broadcast", "txA_broadcast"}
BY DEF StageOf

-----------------------------------------------------------------------------
(* Records added to a session *)

\* t holds the records of s and those of X.
Adds(s, t, X) == Range(t.post) = Range(s.post) \cup X

\* X holds no record of these types, unless it is a refused capsule.
Spares(X, types) == \A x \in X : x.type \notin types \/ Refusal(x)

Same(s, t, fields) == \A f \in fields : t[f] = s[f]

LEMMA FromUntouched ==
    ASSUME NEW s, NEW t, NEW X, Adds(s, t, X), NEW type, NEW q,
           \A x \in X : x.type # type \/ x.from # q \/ Refusal(x)
    PROVE  From(t, type, q) = From(s, type, q)
BY DEF Adds, From

\* A milestone t has passed and s has not is one whose condition s meets; what
\* EXEC_READY fixes is another matter.
Earned(r, s, t) ==
    /\ Passed(t, "KEYGEN_COMPLETE") => Passed(s, "KEYGEN_COMPLETE") \/ s.peerMpc # None
    /\ Passed(t, "CAPSULES_VERIFIED") =>
          Passed(s, "CAPSULES_VERIFIED") \/ (s.capsuleReceived /\ s.capsuleAcked)
    /\ Passed(t, "FUNDED") =>
          \/ Passed(s, "FUNDED")
          \/ \A q \in Roles : s.fundingConfirmed[q] /\ s.fundingTx[q] # None
    /\ Passed(t, "EXEC_READY") => Passed(s, "EXEC_READY")
    /\ Passed(t, "EXEC_TEMPLATES_READY") =>
          \/ Passed(s, "EXEC_TEMPLATES_READY")
          \/ s.peerCommitHash # None /\ s.localCommitAcked
    /\ Passed(t, "EXECUTION_PLANNED") =>
          Passed(s, "EXECUTION_PLANNED") \/ \A leg \in Legs : LegDone(r, s.legs[leg])
    /\ Passed(s, "EXECUTION_PLANNED") => Passed(t, "EXECUTION_PLANNED")

LEMMA SameMilestones ==
    ASSUME NEW r, NEW s, NEW t, t.milestones = s.milestones
    PROVE  Earned(r, s, t)
<1>1. \A event : Passed(t, event) <=> Passed(s, event)
  BY DEF Passed
<1>. QED  BY <1>1 DEF Earned

\* What a record leaves alone: the parts of the invariant about other phases.
LEMMA Untouched ==
    ASSUME NEW r \in Roles, NEW s, NEW t, NEW X, NEW c, Adds(s, t, X),
           Earned(r, s, t)
    PROVE  /\ Spares(X, {"keygen_announce"}) =>
                 (KeygenInv(r, s) /\ t.peerMpc = s.peerMpc => KeygenInv(r, t))
           /\ Spares(X, {"capsule_offer", "capsule_ack"}) =>
                 (CapsuleInv(r, s) /\ Same(s, t, {"capsuleReceived", "capsuleAcked"})
                      => CapsuleInv(r, t))
           /\ Spares(X, {"funding_tx"}) =>
                 (FundingInv(r, s, c) /\ Same(s, t, {"fundingTx", "fundingConfirmed"})
                      => FundingInv(r, t, c))
           /\ Spares(X, {"nonce_report", "fee_params", "fee_params_ack"}) =>
                 (PrepInv(r, s, c)
                  /\ Same(s, t, {"localNonces", "peerNonces", "feeParams", "feeAcked",
                                 "templates"})
                      => PrepInv(r, t, c))
           /\ Spares(X, {"tx_template_commit", "tx_template_ack"}) =>
                 (TemplateInv(r, s)
                  /\ Same(s, t, {"templates", "peerCommitHash", "localCommitAcked"})
                      => TemplateInv(r, t))
           /\ Spares(X, {"adaptor_start", "adaptor_resp", "adaptor_ack"}) =>
                 (AdaptorInv(r, s) /\ Same(s, t, {"legs", "templates"})
                      => AdaptorInv(r, t))
           /\ Spares(X, {"txB_broadcast", "txA_broadcast"}) =>
                 (BroadcastInv(r, s, c) /\ Same(s, t, {"peerTxBHash", "peerTxAHash"})
                      => BroadcastInv(r, t, c))
           /\ PlanInv(r, s) /\ Same(s, t, {"legs"}) => PlanInv(r, t)
<1>. USE OtherRole
<1>f. \A types : Spares(X, types) =>
          \A type \in types : \A q : From(t, type, q) = From(s, type, q)
  BY FromUntouched DEF Spares
<1>1. ASSUME Spares(X, {"keygen_announce"}), KeygenInv(r, s),
             t.peerMpc = s.peerMpc
      PROVE  KeygenInv(r, t)
  BY <1>1, <1>f DEF KeygenInv, Earned
<1>2. ASSUME Spares(X, {"capsule_offer", "capsule_ack"}),
             CapsuleInv(r, s), Same(s, t, {"capsuleReceived", "capsuleAcked"})
      PROVE  CapsuleInv(r, t)
  <2>1. \A type \in {"capsule_offer", "capsule_ack"} : \A q :
            From(t, type, q) = From(s, type, q)
    BY <1>2, <1>f
  <2>2. t.capsuleReceived = s.capsuleReceived /\ t.capsuleAcked = s.capsuleAcked
    BY <1>2 DEF Same
  <2>. QED  BY <1>2, <2>1, <2>2 DEF CapsuleInv, Earned
<1>3. ASSUME Spares(X, {"funding_tx"}), FundingInv(r, s, c),
             Same(s, t, {"fundingTx", "fundingConfirmed"})
      PROVE  FundingInv(r, t, c)
  BY <1>3, <1>f DEF FundingInv, Same, Earned
<1>4. ASSUME Spares(X, {"nonce_report", "fee_params", "fee_params_ack"}),
             PrepInv(r, s, c),
             Same(s, t, {"localNonces", "peerNonces", "feeParams", "feeAcked",
                         "templates"})
      PROVE  PrepInv(r, t, c)
  BY <1>4, <1>f DEF PrepInv, Same, Earned, TemplatesOf
<1>5. ASSUME Spares(X, {"tx_template_commit", "tx_template_ack"}),
             TemplateInv(r, s),
             Same(s, t, {"templates", "peerCommitHash", "localCommitAcked"})
      PROVE  TemplateInv(r, t)
  BY <1>5, <1>f DEF TemplateInv, Same, Earned
<1>6. ASSUME Spares(X, {"adaptor_start", "adaptor_resp", "adaptor_ack"}),
             AdaptorInv(r, s), Same(s, t, {"legs", "templates"})
      PROVE  AdaptorInv(r, t)
  <2>1. \A type \in {"adaptor_start", "adaptor_resp", "adaptor_ack"} : \A q, leg :
            FromLeg(t, type, q, leg) = FromLeg(s, type, q, leg)
    BY <1>6, <1>f DEF FromLeg
  <2>2. t.legs = s.legs /\ t.templates = s.templates
    BY <1>6 DEF Same
  <2>3. \A y \in Range(t.post) :
            y.type \in {"adaptor_start", "adaptor_resp", "adaptor_ack"} =>
                y \in Range(s.post)
    BY <1>6 DEF Adds, Spares, Refusal
  <2>. QED  BY <1>6, <2>1, <2>2, <2>3 DEF AdaptorInv, LegInv, Signed, Earned
<1>7. ASSUME Spares(X, {"txB_broadcast", "txA_broadcast"}),
             BroadcastInv(r, s, c), Same(s, t, {"peerTxBHash", "peerTxAHash"})
      PROVE  BroadcastInv(r, t, c)
  <2>1. \A type \in {"txB_broadcast", "txA_broadcast"} : \A q :
            From(t, type, q) = From(s, type, q)
    BY <1>7, <1>f
  <2>2. \A y \in Range(t.post) :
            y.type \in {"txB_broadcast", "txA_broadcast"} => y \in Range(s.post)
    BY <1>7 DEF Adds, Spares, Refusal
  <2>. QED  BY <1>7, <2>1, <2>2 DEF BroadcastInv, Same
<1>8. ASSUME PlanInv(r, s), Same(s, t, {"legs"})
      PROVE  PlanInv(r, t)
  BY <1>8 DEF PlanInv, Same, Earned
<1>. QED  BY <1>1, <1>2, <1>3, <1>4, <1>5, <1>6, <1>7, <1>8

-----------------------------------------------------------------------------
(* The transcript, its numbers and its milestones *)

\* A state that takes messages of a type lies between the milestone that opens
\* the type and the first that is finished with it.
LEMMA StageGate ==
    ASSUME NEW r \in Roles, NEW s, StateInv(r, s), NEW type \in DOMAIN StageOf,
           s.state = StageOf[type]
    PROVE  /\ Locked(r) /\ s.state \notin {"HANDSHAKE", "ABORTED"}
           /\ type # "keygen_announce" => Passed(s, OpenedBy[type])
           /\ \A event \in Milestones :
                 type \in TypesBefore[event] => ~Passed(s, event)
<1>1. s.state \notin {"HANDSHAKE", "ABORTED"}
  BY PostTypes DEF StageOf
<1>2. Locked(r)
  BY <1>1 DEF StateInv
<1>3. type # "keygen_announce" => Passed(s, OpenedBy[type])
  BY PostTypes DEF StateInv, StageOf, OpenedBy
<1>4. ASSUME NEW event \in Milestones, type \in TypesBefore[event]
      PROVE  ~Passed(s, event)
  BY <1>4, PostTypes, MilestoneSet DEF StateInv, StageOf, TypesBefore
<1>. QED  BY <1>1, <1>2, <1>3, <1>4

\* A record of a message whose stage it is: own with the next number, or of a
\* message of the peer's that has been heard.
LEMMA Recorded ==
    ASSUME NEW r \in Roles, NEW s, NEW t, NEW x,
           StateInv(r, s), NumberInv(r, s), LogInv(s),
           x.type \in DOMAIN StageOf, s.state = StageOf[x.type], ~Refusal(x),
           t.post = Append(s.post, x), Same(s, t, {"state", "milestones", "lastPostSeq"}),
           \/ x.from = r /\ x.seq = s.postSeq /\ t.postSeq = s.postSeq + 1
           \/ /\ x.from = Other(r) /\ x \notin Range(s.post) /\ t.postSeq = s.postSeq
              /\ x.seq \in Nat
              /\ \/ x.type \in {"txB_broadcast", "txA_broadcast"}
                 \/ x.seq <= s.lastPostSeq
    PROVE  /\ StateInv(r, t) /\ NumberInv(r, t) /\ LogInv(t)
           /\ Adds(s, t, {x}) /\ Earned(r, s, t)
<1>. USE OtherRole
<1>1. /\ t.post \in Seq(Range(t.post)) /\ Range(t.post) = Range(s.post) \cup {x}
      /\ t.post # <<>>
  BY RangeAppend DEF NumberInv
<1>2. /\ s.state \notin {"HANDSHAKE", "ABORTED"}
      /\ x.type # "keygen_announce" => Passed(s, OpenedBy[x.type])
      /\ \A event \in Milestones :
            x.type \in TypesBefore[event] => ~Passed(s, event)
  BY StageGate
<1>3. t.state = s.state /\ t.milestones = s.milestones /\ t.lastPostSeq = s.lastPostSeq
  BY DEF Same
<1>p. \A event : Passed(t, event) <=> Passed(s, event)
  BY <1>3 DEF Passed
<1>4. StateInv(r, t)
  BY <1>1, <1>2, <1>3, <1>p DEF StateInv
<1>5. x \notin Range(s.post)
  BY DEF NumberInv
<1>6. Distinct(t.post)
  BY <1>5, DistinctAppend DEF NumberInv
<1>7. x.from \in Roles /\ x.seq \in Nat /\ t.postSeq \in Nat /\ t.postSeq >= s.postSeq
  BY DEF NumberInv
<1>8. \A y \in Range(t.post) :
          /\ y.type \in DOMAIN StageOf /\ y.from \in Roles /\ y.seq \in Nat
          /\ y.from = r => FirstPostSeq <= y.seq /\ y.seq < t.postSeq
          /\ y.from # r /\ y.type \notin {"txB_broadcast", "txA_broadcast"} =>
                y.seq <= t.lastPostSeq
          /\ y.from # r => ~Refusal(y)
  BY <1>1, <1>3, <1>7 DEF NumberInv, FirstPostSeq
<1>9. \A y, z \in Range(t.post) :
          y.from = r /\ z.from = r /\ y.seq = z.seq => y = z
  <2>1. CASE x.from = r
    <3>1. \A y \in Range(s.post) : y.from = r => y.seq # x.seq
      BY <2>1 DEF NumberInv
    <3>. QED  BY <1>1, <3>1 DEF NumberInv
  <2>2. CASE x.from # r
    BY <1>1, <2>2 DEF NumberInv
  <2>. QED  BY <2>1, <2>2
<1>o. \A y, z \in Range(t.post) :
          y.from = r /\ z.from = r /\ Precedes(y.type, z.type) => y.seq < z.seq
  <2>1. CASE x.from = r
    <3>1. \A y \in Range(s.post) : y.from = r => y.seq < x.seq
      BY <2>1 DEF NumberInv
    <3>2. \A z \in Range(s.post) \cup {x} : ~Precedes(x.type, z.type)
      <4>. SUFFICES ASSUME NEW z \in Range(s.post) \cup {x}, Precedes(x.type, z.type)
                    PROVE  FALSE
        OBVIOUS
      <4>1. z.type # "keygen_announce" /\ x.type \in TypesBefore[OpenedBy[z.type]]
        BY DEF Precedes
      <4>2. z.type \in DOMAIN StageOf /\ Passed(s, OpenedBy[z.type])
        BY <1>2, <4>1 DEF NumberInv, LogInv
      <4>3. OpenedBy[z.type] \in Milestones
        BY <4>1, <4>2, PostTypes, MilestoneSet DEF OpenedBy
      <4>. QED  BY <1>2, <4>1, <4>2, <4>3
    <3>. QED  BY <1>1, <3>1, <3>2 DEF NumberInv
  <2>2. CASE x.from # r
    BY <1>1, <2>2 DEF NumberInv
  <2>. QED  BY <2>1, <2>2
<1>10. NumberInv(r, t)
  BY <1>1, <1>3, <1>6, <1>7, <1>8, <1>9, <1>o DEF NumberInv, FirstPostSeq
<1>11. LogInv(t)
  <2>1. ASSUME NEW event \in Milestones, Passed(t, event)
        PROVE  LET log == t.milestones[event]
               IN  /\ log \in Seq(Range(t.post)) /\ Distinct(log)
                   /\ Range(log) =
                         {y \in Range(t.post) :
                             y.type \in TypesBefore[event] /\ ~Refusal(y)}
    <3>1. x.type \notin TypesBefore[event]
      BY <1>2, <1>p, <2>1
    <3>2. {y \in Range(t.post) : y.type \in TypesBefore[event] /\ ~Refusal(y)} =
          {y \in Range(s.post) : y.type \in TypesBefore[event] /\ ~Refusal(y)}
      BY <1>1, <3>1
    <3>3. /\ s.milestones[event] \in Seq(Range(s.post)) /\ Distinct(s.milestones[event])
          /\ Range(s.milestones[event]) =
                {y \in Range(s.post) : y.type \in TypesBefore[event] /\ ~Refusal(y)}
      BY <1>p, <2>1 DEF LogInv
    <3>4. s.milestones[event] \in Seq(Range(t.post))
      BY <3>3, <1>1, SeqMonotonic
    <3>. QED  BY <1>3, <3>2, <3>3, <3>4
  <2>2. \A y \in Range(t.post) :
            y.type # "keygen_announce" => Passed(t, OpenedBy[y.type])
    BY <1>1, <1>2, <1>p DEF LogInv
  <2>. QED  BY <1>3, <2>1, <2>2 DEF LogInv
<1>. QED  BY <1>1, <1>3, <1>4, <1>10, <1>11, SameMilestones DEF Adds

\* A number heard is kept, and nothing else changes.
LEMMA HeardKeeps ==
    ASSUME NEW r \in Roles, NEW s, NEW t, NEW c, LocalInv(r, s, c),
           DOMAIN t = SessionFields, Same(s, t, SessionFields \ {"lastPostSeq"}),
           t.lastPostSeq \in Nat, t.lastPostSeq >= s.lastPostSeq
    PROVE  LocalInv(r, t, c)
<1>. DEFINE kept == SessionFields \ {"lastPostSeq"}
<1>1. \A f \in kept : t[f] = s[f]
  BY DEF Same
<1>2. t.post = s.post /\ t.postSeq = s.postSeq /\ t.state = s.state
      /\ t.milestones = s.milestones /\ t.legs = s.legs
  BY <1>1 DEF SessionFields
<1>3. Adds(s, t, {})
  BY <1>2 DEF Adds
<1>4. StateInv(r, t) /\ LogInv(t) /\ PlanInv(r, t)
  BY <1>2 DEF LocalInv, CoreInv, StateInv, LogInv, PlanInv, Passed
<1>5. NumberInv(r, t)
  BY <1>2 DEF LocalInv, CoreInv, NumberInv
<1>6. /\ t.peerMpc = s.peerMpc /\ Same(s, t, {"capsuleReceived", "capsuleAcked"})
      /\ Same(s, t, {"fundingTx", "fundingConfirmed"})
      /\ Same(s, t, {"localNonces", "peerNonces", "feeParams", "feeAcked", "templates"})
      /\ Same(s, t, {"templates", "peerCommitHash", "localCommitAcked"})
      /\ Same(s, t, {"legs", "templates"}) /\ Same(s, t, {"peerTxBHash", "peerTxAHash"})
  BY <1>1 DEF Same, SessionFields
<1>7. \A types : Spares({}, types)
  BY DEF Spares
<1>. QED  BY <1>2, <1>3, <1>4, <1>5, <1>6, <1>7, SameMilestones, Untouched DEF LocalInv, CoreInv

\* Aborting takes a number and leaves the transcript alone.
LEMMA AbortKeeps ==
    ASSUME NEW r \in Roles, NEW s, NEW t, NEW c, LocalInv(r, s, c),
           DOMAIN t = SessionFields, Same(s, t, SessionFields \ {"state", "postSeq"}),
           t.state = "ABORTED", t.postSeq \in {s.postSeq, s.postSeq + 1}
    PROVE  LocalInv(r, t, c)
<1>. DEFINE kept == SessionFields \ {"state", "postSeq"}
<1>1. \A f \in kept : t[f] = s[f]
  BY DEF Same
<1>2. t.post = s.post /\ t.lastPostSeq = s.lastPostSeq
      /\ t.milestones = s.milestones /\ t.legs = s.legs
  BY <1>1 DEF SessionFields
<1>3. Adds(s, t, {})
  BY <1>2 DEF Adds
<1>4. LogInv(t) /\ PlanInv(r, t)
  BY <1>2 DEF LocalInv, CoreInv, LogInv, PlanInv, Passed
<1>5. NumberInv(r, t)
  BY <1>2 DEF LocalInv, CoreInv, NumberInv, FirstPostSeq
<1>6. StateInv(r, t)
  BY <1>2 DEF LocalInv, CoreInv, StateInv, Passed
<1>7. /\ t.peerMpc = s.peerMpc /\ Same(s, t, {"capsuleReceived", "capsuleAcked"})
      /\ Same(s, t, {"fundingTx", "fundingConfirmed"})
      /\ Same(s, t, {"localNonces", "peerNonces", "feeParams", "feeAcked", "templates"})
      /\ Same(s, t, {"templates", "peerCommitHash", "localCommitAcked"})
      /\ Same(s, t, {"legs", "templates"}) /\ Same(s, t, {"peerTxBHash", "peerTxAHash"})
  BY <1>1 DEF Same, SessionFields
<1>8. \A types : Spares({}, types)
  BY DEF Spares
<1>. QED
  BY <1>2, <1>3, <1>4, <1>5, <1>6, <1>7, <1>8, SameMilestones, Untouched
     DEF LocalInv, CoreInv

\* So does refusing a capsule, but for the refusal itself.
LEMMA RefusalKeeps ==
    ASSUME NEW r \in Roles, NEW s, NEW t, NEW c, NEW x, LocalInv(r, s, c),
           s.state = "CAPSULES_EXCHANGE", Refusal(x),
           x.from = r, x.seq = s.postSeq,
           DOMAIN t = SessionFields,
           Same(s, t, SessionFields \ {"state", "post", "postSeq"}),
           t.state = "ABORTED", t.postSeq = s.postSeq + 1, t.post = Append(s.post, x)
    PROVE  LocalInv(r, t, c)
<1>. DEFINE kept == SessionFields \ {"state", "post", "postSeq"}
<1>1. \A f \in kept : t[f] = s[f]
  BY DEF Same
<1>2. t.lastPostSeq = s.lastPostSeq /\ t.milestones = s.milestones /\ t.legs = s.legs
  BY <1>1 DEF SessionFields
<1>3. /\ t.post \in Seq(Range(t.post)) /\ Range(t.post) = Range(s.post) \cup {x}
      /\ x \notin Range(s.post) /\ x.type = "capsule_ack"
  BY RangeAppend DEF LocalInv, CoreInv, NumberInv, Refusal
<1>4. Distinct(t.post)
  BY <1>3, DistinctAppend DEF LocalInv, CoreInv, NumberInv
<1>5. NumberInv(r, t)
  <2>1. \A y \in Range(s.post) : y.from = r => y.seq # x.seq /\ y.seq < x.seq
    BY DEF LocalInv, CoreInv, NumberInv
  <2>2. ASSUME NEW y \in Range(s.post) \cup {x}, Precedes(x.type, y.type)
        PROVE  FALSE
    <3>1. y.type # "keygen_announce" /\ "capsule_ack" \in TypesBefore[OpenedBy[y.type]]
      BY <1>3, <2>2 DEF Precedes
    <3>2. y.type \in DOMAIN StageOf /\ (y # x => Passed(s, OpenedBy[y.type]))
      BY <1>3, <3>1, PostTypes DEF LocalInv, CoreInv, NumberInv, LogInv
    <3>3. ~Passed(s, "CAPSULES_VERIFIED") /\ StateInv(r, s)
      BY DEF LocalInv, CoreInv, StateInv
    <3>4. OpenedBy[y.type] \in {"CAPSULES_VERIFIED", "FUNDED", "EXEC_READY",
                                "EXEC_TEMPLATES_READY", "EXECUTION_PLANNED"}
      BY <3>1, <3>2, PostTypes DEF OpenedBy, TypesBefore
    <3>5. y # x
      BY <1>3, <3>4 DEF OpenedBy
    <3>. QED  BY <3>2, <3>3, <3>4, <3>5 DEF StateInv
  <2>3. \A y, z \in Range(t.post) :
            y.from = r /\ z.from = r /\ Precedes(y.type, z.type) => y.seq < z.seq
    BY <1>3, <2>1, <2>2 DEF LocalInv, CoreInv, NumberInv
  <2>. QED
    BY <1>2, <1>3, <1>4, <2>1, <2>3, PostTypes DEF LocalInv, CoreInv, NumberInv, FirstPostSeq
<1>6. StateInv(r, t)
  BY <1>2 DEF LocalInv, CoreInv, StateInv, Passed
<1>7. LogInv(t)
  <2>1. Passed(s, "KEYGEN_COMPLETE")
    BY DEF LocalInv, CoreInv, StateInv
  <2>2. \A event \in Milestones :
           {y \in Range(t.post) : y.type \in TypesBefore[event] /\ ~Refusal(y)} =
           {y \in Range(s.post) : y.type \in TypesBefore[event] /\ ~Refusal(y)}
    BY <1>3
  <2>3. \A event \in Milestones : Passed(t, event) =>
            t.milestones[event] \in Seq(Range(t.post))
    BY <1>2, <1>3, SeqMonotonic DEF LocalInv, CoreInv, LogInv, Passed
  <2>4. \A y \in Range(t.post) :
            y.type # "keygen_announce" => Passed(t, OpenedBy[y.type])
    BY <1>2, <1>3, <2>1 DEF LocalInv, CoreInv, LogInv, Passed, OpenedBy
  <2>. QED  BY <1>2, <2>2, <2>3, <2>4 DEF LocalInv, CoreInv, LogInv, Passed
<1>8. PlanInv(r, t)
  BY <1>2 DEF LocalInv, CoreInv, PlanInv, Passed
<1>9. /\ t.peerMpc = s.peerMpc /\ Same(s, t, {"capsuleReceived", "capsuleAcked"})
      /\ Same(s, t, {"fundingTx", "fundingConfirmed"})
      /\ Same(s, t, {"localNonces", "peerNonces", "feeParams", "feeAcked", "templates"})
      /\ Same(s, t, {"templates", "peerCommitHash", "localCommitAcked"})
      /\ Same(s, t, {"legs", "templates"}) /\ Same(s, t, {"peerTxBHash", "peerTxAHash"})
  BY <1>1 DEF Same, SessionFields
<1>10. Adds(s, t, {x}) /\ \A types : Spares({x}, types)
  BY <1>3 DEF Adds, Spares
<1>. QED
  BY <1>2, <1>5, <1>6, <1>7, <1>8, <1>9, <1>10, SameMilestones, Untouched
     DEF LocalInv, CoreInv

\* The states a milestone lies between.
Reaches(event, before, after) ==
    <<event, before, after>> \in
        {<<"KEYGEN_COMPLETE", "KEYGEN", "CAPSULES_EXCHANGE">>,
         <<"CAPSULES_VERIFIED", "CAPSULES_EXCHANGE", "FUNDING">>,
         <<"FUNDED", "FUNDING", "EXEC_PREP">>,
         <<"EXEC_READY", "EXEC_PREP", "EXEC_TEMPLATES_SYNC">>,
         <<"EXEC_TEMPLATES_READY", "EXEC_TEMPLATES_SYNC", "ADAPTOR_NEGOTIATING">>,
         <<"EXECUTION_PLANNED", "ADAPTOR_NEGOTIATING", "EXECUTION_PLANNED">>}

\* The transcript of a milestone is the whole transcript at that point: no
\* record of a later stage is there yet.
LEMMA Reaching ==
    ASSUME NEW r \in Roles, NEW s, NEW t, NEW event,
           StateInv(r, s), NumberInv(r, s), LogInv(s), KeygenInv(r, s),
           Reaches(event, s.state, t.state), Same(s, t, {"post", "postSeq", "lastPostSeq"}),
           t.milestones = [s.milestones EXCEPT ![event] = s.post]
    PROVE  /\ StateInv(r, t) /\ NumberInv(r, t) /\ LogInv(t) /\ Adds(s, t, {})
           /\ Passed(t, event)
           /\ \A e \in Milestones \ {event} : Passed(t, e) <=> Passed(s, e)
<1>1. /\ t.post = s.post /\ t.postSeq = s.postSeq /\ t.lastPostSeq = s.lastPostSeq
      /\ s.state \notin {"HANDSHAKE", "ABORTED"} /\ t.state # "HANDSHAKE"
      /\ event \in Milestones /\ DOMAIN s.milestones = Milestones
  BY MilestoneSet DEF Same, Reaches, LogInv
<1>2. Locked(r)
  BY <1>1 DEF StateInv
<1>3. s.post # <<>>
  <2>1. PICK x \in Range(s.post) : TRUE
    BY <1>2 DEF KeygenInv, From
  <2>2. Range(<<>>) = {}
    BY DEF Range
  <2>. QED  BY <2>1, <2>2
<1>4. /\ Passed(t, event) /\ t.milestones[event] = s.post
      /\ \A e \in Milestones \ {event} :
            t.milestones[e] = s.milestones[e] /\ (Passed(t, e) <=> Passed(s, e))
  BY <1>1, <1>3 DEF Passed
<1>5. NumberInv(r, t)
  BY <1>1 DEF NumberInv
<1>6. ~(\E x \in Range(s.post) : Refusal(x))
  BY <1>1 DEF StateInv
<1>7. StateInv(r, t)
  BY <1>1, <1>2, <1>4, <1>6, MilestoneSet, PostTypes DEF StateInv, Reaches, StageOf
<1>8. \A x \in Range(s.post) : x.type \in TypesBefore[event]
  <2>. SUFFICES ASSUME NEW x \in Range(s.post)
                PROVE  x.type \in TypesBefore[event]
    OBVIOUS
  <2>1. x.type \in DOMAIN StageOf
    BY DEF NumberInv
  <2>2. x.type # "keygen_announce" => Passed(s, OpenedBy[x.type])
    BY DEF LogInv
  <2>3. CASE event = "KEYGEN_COMPLETE"
    BY <2>1, <2>2, <2>3, PostTypes DEF StateInv, Reaches, OpenedBy, TypesBefore
  <2>4. CASE event = "CAPSULES_VERIFIED"
    BY <2>1, <2>2, <2>4, PostTypes DEF StateInv, Reaches, OpenedBy, TypesBefore
  <2>5. CASE event = "FUNDED"
    BY <2>1, <2>2, <2>5, PostTypes DEF StateInv, Reaches, OpenedBy, TypesBefore
  <2>6. CASE event = "EXEC_READY"
    BY <2>1, <2>2, <2>6, PostTypes DEF StateInv, Reaches, OpenedBy, TypesBefore
  <2>7. CASE event = "EXEC_TEMPLATES_READY"
    BY <2>1, <2>2, <2>7, PostTypes DEF StateInv, Reaches, OpenedBy, TypesBefore
  <2>8. CASE event = "EXECUTION_PLANNED"
    BY <2>1, <2>2, <2>8, PostTypes DEF StateInv, Reaches, OpenedBy, TypesBefore
  <2>. QED  BY <2>3, <2>4, <2>5, <2>6, <2>7, <2>8, <1>1, MilestoneSet
<1>9. LogInv(t)
  <2>1. ASSUME NEW e \in Milestones, Passed(t, e)
        PROVE  LET log == t.milestones[e]
               IN  /\ log \in Seq(Range(t.post)) /\ Distinct(log)
                   /\ Range(log) = {x \in Range(t.post) :
                                       x.type \in TypesBefore[e] /\ ~Refusal(x)}
    <3>1. CASE e = event
      BY <3>1, <1>1, <1>4, <1>6, <1>8 DEF NumberInv
    <3>2. CASE e # event
      BY <3>2, <2>1, <1>1, <1>4 DEF LogInv
    <3>. QED  BY <3>1, <3>2
  <2>2. \A x \in Range(t.post) :
            x.type # "keygen_announce" => Passed(t, OpenedBy[x.type])
    <3>. SUFFICES ASSUME NEW x \in Range(t.post), x.type # "keygen_announce"
                  PROVE  Passed(t, OpenedBy[x.type])
      OBVIOUS
    <3>1. Passed(s, OpenedBy[x.type]) /\ x.type \in DOMAIN StageOf
      BY <1>1 DEF LogInv, NumberInv
    <3>2. OpenedBy[x.type] \in Milestones
      BY <3>1, PostTypes, MilestoneSet DEF OpenedBy
    <3>. QED  BY <3>1, <3>2, <1>4
  <2>. QED  BY <1>1, <2>1, <2>2 DEF LogInv
<1>. QED  BY <1>1, <1>4, <1>5, <1>7, <1>9 DEF Adds

-----------------------------------------------------------------------------
(* A step of one phase keeps what the invariant says of the others *)

Bookkeeping == {"state", "post", "postSeq", "lastPostSeq", "milestones"}

\* From s to t: the records of X are added and the bookkeeping is in order.
Carried(r, s, t, X, c) ==
    /\ CoreInv(r, s, c) /\ DOMAIN t = SessionFields
    /\ StateInv(r, t) /\ NumberInv(r, t) /\ LogInv(t)
    /\ Adds(s, t, X) /\ Earned(r, s, t)

\* Only the fields of F and the bookkeeping differ, only records of these types
\* are added.
Within(s, t, X, F, types) ==
    Same(s, t, SessionFields \ (Bookkeeping \cup F)) /\ \A x \in X : x.type \in types

LEMMA PhaseKeeps ==
    ASSUME NEW r \in Roles, NEW s, NEW t, NEW X, NEW c, Carried(r, s, t, X, c)
    PROVE  /\ Within(s, t, X, {"peerMpc"},
                     {"keygen_announce"})
              /\ KeygenInv(r, t) => CoreInv(r, t, c) /\ (PlanInv(r, s) => PlanInv(r, t))
           /\ Within(s, t, X, {"capsuleReceived", "capsuleAcked"},
                     {"capsule_offer", "capsule_ack"})
              /\ CapsuleInv(r, t) => CoreInv(r, t, c) /\ (PlanInv(r, s) => PlanInv(r, t))
           /\ Within(s, t, X, {"fundingTx", "fundingConfirmed"},
                     {"funding_tx"})
              /\ FundingInv(r, t, c) => CoreInv(r, t, c) /\ (PlanInv(r, s) => PlanInv(r, t))
           /\ Within(s, t, X, {"localNonces", "peerNonces", "feeParams", "feeAcked"},
                     {"nonce_report", "fee_params", "fee_params_ack"})
              /\ PrepInv(r, t, c) => CoreInv(r, t, c) /\ (PlanInv(r, s) => PlanInv(r, t))
           /\ Within(s, t, X, {"peerCommitHash", "localCommitAcked"},
                     {"tx_template_commit", "tx_template_ack"})
              /\ TemplateInv(r, t) => CoreInv(r, t, c) /\ (PlanInv(r, s) => PlanInv(r, t))
           /\ Within(s, t, X, {"legs"},
                     {"adaptor_start", "adaptor_resp", "adaptor_ack"})
              /\ AdaptorInv(r, t) => CoreInv(r, t, c)
           /\ Within(s, t, X, {"peerTxBHash", "peerTxAHash"},
                     {"txB_broadcast", "txA_broadcast"})
              /\ BroadcastInv(r, t, c) => CoreInv(r, t, c) /\ (PlanInv(r, s) => PlanInv(r, t))
<1>1. ASSUME NEW F, NEW types, Within(s, t, X, F, types)
      PROVE  /\ \A T : T \cap types = {} => Spares(X, T)
             /\ F \cap {"peerMpc"} = {} =>
                   Same(s, t, {"peerMpc"}) /\ t.peerMpc = s.peerMpc
             /\ F \cap {"capsuleReceived", "capsuleAcked"} = {} =>
                   Same(s, t, {"capsuleReceived", "capsuleAcked"})
             /\ F \cap {"fundingTx", "fundingConfirmed"} = {} =>
                   Same(s, t, {"fundingTx", "fundingConfirmed"})
             /\ F \cap {"localNonces", "peerNonces", "feeParams", "feeAcked",
                        "templates"} = {} =>
                   Same(s, t, {"localNonces", "peerNonces", "feeParams", "feeAcked",
                               "templates"})
             /\ F \cap {"templates", "peerCommitHash", "localCommitAcked"} = {} =>
                   Same(s, t, {"templates", "peerCommitHash", "localCommitAcked"})
             /\ F \cap {"legs", "templates"} = {} => Same(s, t, {"legs", "templates"})
             /\ F \cap {"legs"} = {} => Same(s, t, {"legs"})
             /\ F \cap {"peerTxBHash", "peerTxAHash"} = {} =>
                   Same(s, t, {"peerTxBHash", "peerTxAHash"})
  <2>1. \A f \in SessionFields \ (Bookkeeping \cup F) : t[f] = s[f]
    BY <1>1 DEF Within, Same
  <2>2. \A T : T \cap types = {} => Spares(X, T)
    BY <1>1 DEF Within, Spares
  <2>. QED  BY <2>1, <2>2 DEF Same, SessionFields, Bookkeeping
<1>2. ASSUME Within(s, t, X, {"peerMpc"},
                    {"keygen_announce"}),
             KeygenInv(r, t)
      PROVE  CoreInv(r, t, c) /\ (PlanInv(r, s) => PlanInv(r, t))
  BY <1>1, <1>2, Untouched DEF Carried, CoreInv
<1>3. ASSUME Within(s, t, X, {"capsuleReceived", "capsuleAcked"},
                    {"capsule_offer", "capsule_ack"}),
             CapsuleInv(r, t)
      PROVE  CoreInv(r, t, c) /\ (PlanInv(r, s) => PlanInv(r, t))
  BY <1>1, <1>3, Untouched DEF Carried, CoreInv
<1>4. ASSUME Within(s, t, X, {"fundingTx", "fundingConfirmed"},
                    {"funding_tx"}),
             FundingInv(r, t, c)
      PROVE  CoreInv(r, t, c) /\ (PlanInv(r, s) => PlanInv(r, t))
  BY <1>1, <1>4, Untouched DEF Carried, CoreInv
<1>5. ASSUME Within(s, t, X, {"localNonces", "peerNonces", "feeParams", "feeAcked"},
                    {"nonce_report", "fee_params", "fee_params_ack"}),
             PrepInv(r, t, c)
      PROVE  CoreInv(r, t, c) /\ (PlanInv(r, s) => PlanInv(r, t))
  BY <1>1, <1>5, Untouched DEF Carried, CoreInv
<1>6. ASSUME Within(s, t, X, {"peerCommitHash", "localCommitAcked"},
                    {"tx_template_commit", "tx_template_ack"}),
             TemplateInv(r, t)
      PROVE  CoreInv(r, t, c) /\ (PlanInv(r, s) => PlanInv(r, t))
  BY <1>1, <1>6, Untouched DEF Carried, CoreInv
<1>7. ASSUME Within(s, t, X, {"legs"},
                    {"adaptor_start", "adaptor_resp", "adaptor_ack"}),
             AdaptorInv(r, t)
      PROVE  CoreInv(r, t, c)
  BY <1>1, <1>7, Untouched DEF Carried, CoreInv
<1>8. ASSUME Within(s, t, X, {"peerTxBHash", "peerTxAHash"},
                    {"txB_broadcast", "txA_broadcast"}),
             BroadcastInv(r, t, c)
      PROVE  CoreInv(r, t, c) /\ (PlanInv(r, s) => PlanInv(r, t))
  BY <1>1, <1>8, Untouched DEF Carried, CoreInv
<1>. QED  BY <1>2, <1>3, <1>4, <1>5, <1>6, <1>7, <1>8

-----------------------------------------------------------------------------
(* One record at a time *)

\* From s to t: the peer's x is recorded, and the fields of F may change.
Noted(r, s, t, x, F) ==
    /\ DOMAIN t = SessionFields /\ Same(s, t, SessionFields \ ({"post"} \cup F))
    /\ t.post = Append(s.post, x)
    /\ x.type \in DOMAIN StageOf /\ x.from = Other(r) /\ x.seq \in Nat /\ ~Refusal(x)
    /\ s.state = StageOf[x.type]
    /\ \/ x.type \in {"txB_broadcast", "txA_broadcast"}
       \/ x.seq <= s.lastPostSeq

\* From s to t: x is sent and recorded, and the fields of F may change.
Issued(r, s, t, x, F) ==
    /\ DOMAIN t = SessionFields /\ Same(s, t, SessionFields \ ({"post", "postSeq"} \cup F))
    /\ t.post = Append(s.post, x) /\ t.postSeq = s.postSeq + 1
    /\ x.type \in DOMAIN StageOf /\ x.from = r /\ x.seq = s.postSeq /\ ~Refusal(x)
    /\ s.state = StageOf[x.type]

LEMMA NotedCarried ==
    ASSUME NEW r \in Roles, NEW s, NEW t, NEW x, NEW F, NEW c, LocalInv(r, s, c),
           Noted(r, s, t, x, F), F \cap Bookkeeping = {}, x \notin Range(s.post)
    PROVE  /\ Carried(r, s, t, {x}, c) /\ Same(s, t, SessionFields \ (Bookkeeping \cup F))
           /\ \A event : Passed(t, event) <=> Passed(s, event)
<1>1. /\ t.state = s.state /\ t.milestones = s.milestones /\ t.lastPostSeq = s.lastPostSeq
      /\ t.postSeq = s.postSeq
  BY DEF Noted, Same, SessionFields, Bookkeeping
<1>2. StateInv(r, t) /\ NumberInv(r, t) /\ LogInv(t) /\ Adds(s, t, {x}) /\ Earned(r, s, t)
  BY <1>1, Recorded DEF Noted, LocalInv, CoreInv, Same
<1>3. Same(s, t, SessionFields \ (Bookkeeping \cup F))
  BY DEF Noted, Same, Bookkeeping
<1>. QED  BY <1>1, <1>2, <1>3 DEF Carried, Noted, Passed, LocalInv

LEMMA SentCarried ==
    ASSUME NEW r \in Roles, NEW s, NEW t, NEW x, NEW F, NEW c, LocalInv(r, s, c),
           Issued(r, s, t, x, F), F \cap Bookkeeping = {}
    PROVE  /\ Carried(r, s, t, {x}, c) /\ Same(s, t, SessionFields \ (Bookkeeping \cup F))
           /\ \A event : Passed(t, event) <=> Passed(s, event)
<1>1. t.state = s.state /\ t.milestones = s.milestones /\ t.lastPostSeq = s.lastPostSeq
  BY DEF Issued, Same, SessionFields, Bookkeeping
<1>2. StateInv(r, t) /\ NumberInv(r, t) /\ LogInv(t) /\ Adds(s, t, {x}) /\ Earned(r, s, t)
  BY <1>1, Recorded DEF Issued, LocalInv, CoreInv, Same
<1>3. Same(s, t, SessionFields \ (Bookkeeping \cup F))
  BY DEF Issued, Same, Bookkeeping
<1>. QED  BY <1>1, <1>2, <1>3 DEF Carried, Issued, Passed, LocalInv

\* A message that is opened by a milestone still ahead has not been recorded.
LEMMA NotYet ==
    ASSUME NEW s, LogInv(s), NEW type, type # "keygen_announce",
           ~Passed(s, OpenedBy[type])
    PROVE  \A q : From(s, type, q) = {}
BY DEF LogInv, From

LEMMA KeygenNoted ==
    ASSUME NEW r \in Roles, NEW s, NEW t, NEW x, NEW c, LocalInv(r, s, c),
           Noted(r, s, t, x, {"peerMpc"}), x.type = "keygen_announce", Locked(r),
           s.peerMpc = None, t.peerMpc = x.body.keyOf, t.peerMpc # None
    PROVE  LocalInv(r, t, c)
<1>1. Other(r) # r /\ KeygenInv(r, s)
  BY OtherRole DEF LocalInv, CoreInv
<1>2. From(s, "keygen_announce", Other(r)) = {}
  BY <1>1 DEF KeygenInv
<1>3. x \notin Range(s.post)
  BY <1>2 DEF Noted, From
<1>4. {"peerMpc"} \cap Bookkeeping = {}
  BY DEF Bookkeeping
<1>5. /\ Carried(r, s, t, {x}, c)
      /\ Within(s, t, {x}, {"peerMpc"}, {"keygen_announce"})
  BY <1>3, <1>4, NotedCarried DEF Within
<1>6. From(t, "keygen_announce", Other(r)) = From(s, "keygen_announce", Other(r)) \cup {x}
  BY <1>5 DEF Carried, Adds, From, Noted
<1>7. From(t, "keygen_announce", r) = From(s, "keygen_announce", r)
  BY <1>1, <1>5 DEF Carried, Adds, From, Noted
<1>8. KeygenInv(r, t)
  BY <1>1, <1>2, <1>6, <1>7 DEF KeygenInv
<1>. QED  BY <1>5, <1>8, PhaseKeeps DEF LocalInv

LEMMA OfferSent ==
    ASSUME NEW r \in Roles, NEW s, NEW t, NEW x, NEW c, LocalInv(r, s, c),
           Issued(r, s, t, x, {}), x.type = "capsule_offer",
           x.body = [target |-> Other(r), flaw |-> "none"],
           From(s, "capsule_offer", r) = {}
    PROVE  LocalInv(r, t, c)
<1>1. Other(r) # r /\ CapsuleInv(r, s)
  BY OtherRole DEF LocalInv, CoreInv
<1>2. {} \cap Bookkeeping = {}
  OBVIOUS
<1>3. /\ Carried(r, s, t, {x}, c) /\ Same(s, t, SessionFields \ (Bookkeeping \cup {}))
      /\ Passed(t, "CAPSULES_VERIFIED") <=> Passed(s, "CAPSULES_VERIFIED")
  BY <1>2, SentCarried
<1>4. /\ t.capsuleReceived = s.capsuleReceived /\ t.capsuleAcked = s.capsuleAcked
      /\ Within(s, t, {x}, {"capsuleReceived", "capsuleAcked"},
                {"capsule_offer", "capsule_ack"})
  BY <1>3 DEF Same, Within, SessionFields, Bookkeeping
<1>5. /\ From(t, "capsule_offer", r) = {x}
      /\ From(t, "capsule_offer", Other(r)) = From(s, "capsule_offer", Other(r))
      /\ \A q : From(t, "capsule_ack", q) = From(s, "capsule_ack", q)
  BY <1>1, <1>3 DEF Carried, Adds, From, Issued
<1>6. CapsuleInv(r, t)
  BY <1>1, <1>3, <1>4, <1>5 DEF CapsuleInv, AtMostOne
<1>. QED  BY <1>3, <1>4, <1>6, PhaseKeeps DEF LocalInv

LEMMA OfferNoted ==
    ASSUME NEW r \in Roles, NEW s, NEW t, NEW x, NEW c, LocalInv(r, s, c),
           Noted(r, s, t, x, {"capsuleReceived"}), x.type = "capsule_offer",
           ~s.capsuleReceived, t.capsuleReceived = TRUE
    PROVE  LocalInv(r, t, c) /\ From(s, "capsule_ack", r) = {}
<1>1. Other(r) # r /\ CapsuleInv(r, s)
  BY OtherRole DEF LocalInv, CoreInv
<1>2. From(s, "capsule_offer", Other(r)) = {} /\ From(s, "capsule_ack", r) = {}
  BY <1>1 DEF CapsuleInv
<1>3. x \notin Range(s.post) /\ {"capsuleReceived"} \cap Bookkeeping = {}
  BY <1>2 DEF Noted, From, Bookkeeping
<1>4. /\ Carried(r, s, t, {x}, c)
      /\ Same(s, t, SessionFields \ (Bookkeeping \cup {"capsuleReceived"}))
      /\ Passed(t, "CAPSULES_VERIFIED") <=> Passed(s, "CAPSULES_VERIFIED")
  BY <1>3, NotedCarried
<1>5. /\ t.capsuleAcked = s.capsuleAcked
      /\ Within(s, t, {x}, {"capsuleReceived", "capsuleAcked"},
                {"capsule_offer", "capsule_ack"})
  BY <1>4 DEF Same, Within, SessionFields, Bookkeeping
<1>6. /\ From(t, "capsule_offer", Other(r)) = {x}
      /\ From(t, "capsule_offer", r) = From(s, "capsule_offer", r)
      /\ \A q : From(t, "capsule_ack", q) = From(s, "capsule_ack", q)
  BY <1>1, <1>2, <1>4 DEF Carried, Adds, From, Noted
<1>7. CapsuleInv(r, t)
  BY <1>1, <1>2, <1>4, <1>5, <1>6 DEF CapsuleInv
<1>. QED  BY <1>2, <1>4, <1>5, <1>7, PhaseKeeps DEF LocalInv

LEMMA CapsuleAckSent ==
    ASSUME NEW r \in Roles, NEW s, NEW t, NEW x, NEW c, LocalInv(r, s, c),
           Issued(r, s, t, x, {}), x.type = "capsule_ack",
           x.body = [target |-> r, ok |-> TRUE], s.capsuleReceived,
           From(s, "capsule_ack", r) = {}
    PROVE  LocalInv(r, t, c)
<1>1. Other(r) # r /\ CapsuleInv(r, s)
  BY OtherRole DEF LocalInv, CoreInv
<1>2. {} \cap Bookkeeping = {}
  OBVIOUS
<1>3. /\ Carried(r, s, t, {x}, c) /\ Same(s, t, SessionFields \ (Bookkeeping \cup {}))
      /\ Passed(t, "CAPSULES_VERIFIED") <=> Passed(s, "CAPSULES_VERIFIED")
  BY <1>2, SentCarried
<1>4. /\ t.capsuleReceived = s.capsuleReceived /\ t.capsuleAcked = s.capsuleAcked
      /\ Within(s, t, {x}, {"capsuleReceived", "capsuleAcked"},
                {"capsule_offer", "capsule_ack"})
  BY <1>3 DEF Same, Within, SessionFields, Bookkeeping
<1>5. /\ From(t, "capsule_ack", r) = {x}
      /\ From(t, "capsule_ack", Other(r)) = From(s, "capsule_ack", Other(r))
      /\ \A q : From(t, "capsule_offer", q) = From(s, "capsule_offer", q)
  BY <1>1, <1>3 DEF Carried, Adds, From, Issued
<1>6. CapsuleInv(r, t)
  BY <1>1, <1>3, <1>4, <1>5 DEF CapsuleInv, AtMostOne
<1>. QED  BY <1>3, <1>4, <1>6, PhaseKeeps DEF LocalInv

LEMMA CapsuleAckNoted ==
    ASSUME NEW r \in Roles, NEW s, NEW t, NEW x, NEW c, LocalInv(r, s, c),
           Noted(r, s, t, x, {"capsuleAcked"}), x.type = "capsule_ack",
           ~s.capsuleAcked, t.capsuleAcked = TRUE
    PROVE  LocalInv(r, t, c)
<1>1. Other(r) # r /\ CapsuleInv(r, s)
  BY OtherRole DEF LocalInv, CoreInv
<1>2. From(s, "capsule_ack", Other(r)) = {}
  BY <1>1 DEF CapsuleInv
<1>3. x \notin Range(s.post) /\ {"capsuleAcked"} \cap Bookkeeping = {}
  BY <1>2 DEF Noted, From, Bookkeeping
<1>4. /\ Carried(r, s, t, {x}, c)
      /\ Same(s, t, SessionFields \ (Bookkeeping \cup {"capsuleAcked"}))
      /\ Passed(t, "CAPSULES_VERIFIED") <=> Passed(s, "CAPSULES_VERIFIED")
  BY <1>3, NotedCarried
<1>5. /\ t.capsuleReceived = s.capsuleReceived
      /\ Within(s, t, {x}, {"capsuleReceived", "capsuleAcked"},
                {"capsule_offer", "capsule_ack"})
  BY <1>4 DEF Same, Within, SessionFields, Bookkeeping
<1>6. /\ From(t, "capsule_ack", Other(r)) = {x}
      /\ From(t, "capsule_ack", r) = From(s, "capsule_ack", r)
      /\ \A q : From(t, "capsule_offer", q) = From(s, "capsule_offer", q)
  BY <1>1, <1>2, <1>4 DEF Carried, Adds, From, Noted
<1>7. CapsuleInv(r, t)
  BY <1>1, <1>2, <1>4, <1>5, <1>6 DEF CapsuleInv
<1>. QED  BY <1>4, <1>5, <1>7, PhaseKeeps DEF LocalInv

LEMMA FundingSent ==
    ASSUME NEW r \in Roles, NEW s, NEW t, NEW x, NEW c, LocalInv(r, s, c),
           Issued(r, s, t, x, {"fundingTx"}), x.type = "funding_tx",
           s.fundingTx[r] = None, t.fundingTx = [s.fundingTx EXCEPT ![r] = x.body],
           x.body \in FundingPayloads, x.body.which = r, "emitFundingTx" \in c
    PROVE  LocalInv(r, t, c)
<1>1. Other(r) # r /\ FundingInv(r, s, c) /\ x.body # None
  BY OtherRole, SessionAssumption DEF LocalInv, CoreInv
<1>2. From(s, "funding_tx", r) = {}
  BY <1>1 DEF FundingInv
<1>3. {"fundingTx"} \cap Bookkeeping = {}
  BY DEF Bookkeeping
<1>4. /\ Carried(r, s, t, {x}, c)
      /\ Same(s, t, SessionFields \ (Bookkeeping \cup {"fundingTx"}))
      /\ Passed(t, "FUNDED") <=> Passed(s, "FUNDED")
  BY <1>3, SentCarried
<1>5. /\ t.fundingConfirmed = s.fundingConfirmed
      /\ Within(s, t, {x}, {"fundingTx", "fundingConfirmed"}, {"funding_tx"})
  BY <1>4 DEF Same, Within, SessionFields, Bookkeeping
<1>6. /\ From(t, "funding_tx", r) = {x}
      /\ From(t, "funding_tx", Other(r)) = From(s, "funding_tx", Other(r))
  BY <1>1, <1>2, <1>4 DEF Carried, Adds, From, Issued
<1>7. /\ t.fundingTx = [q \in Roles |-> t.fundingTx[q]] /\ DOMAIN s.fundingTx = Roles
      /\ t.fundingTx[r] = x.body /\ t.fundingTx[Other(r)] = s.fundingTx[Other(r)]
  <2>1. s.fundingTx = [q \in Roles |-> s.fundingTx[q]]
    BY <1>1 DEF FundingInv
  <2>. QED  BY <1>1, <2>1, OtherRole
<1>8. FundingInv(r, t, c)
  BY <1>1, <1>4, <1>5, <1>6, <1>7, OtherRole DEF FundingInv, AtMostOne
<1>. QED  BY <1>4, <1>5, <1>8, PhaseKeeps DEF LocalInv

LEMMA FundingNoted ==
    ASSUME NEW r \in Roles, NEW s, NEW t, NEW x, NEW c, LocalInv(r, s, c),
           Noted(r, s, t, x, {"fundingTx"}), x.type = "funding_tx",
           s.fundingTx[Other(r)] = None,
           t.fundingTx = [s.fundingTx EXCEPT ![Other(r)] = x.body],
           x.body \in FundingPayloads, x.body.which = Other(r), x.body.value = "enough"
    PROVE  LocalInv(r, t, c)
<1>1. Other(r) # r /\ Other(r) \in Roles /\ FundingInv(r, s, c) /\ x.body # None
  BY OtherRole, SessionAssumption DEF LocalInv, CoreInv
<1>2. From(s, "funding_tx", Other(r)) = {}
  BY <1>1 DEF FundingInv
<1>3. x \notin Range(s.post) /\ {"fundingTx"} \cap Bookkeeping = {}
  BY <1>2 DEF Noted, From, Bookkeeping
<1>4. /\ Carried(r, s, t, {x}, c)
      /\ Same(s, t, SessionFields \ (Bookkeeping \cup {"fundingTx"}))
      /\ Passed(t, "FUNDED") <=> Passed(s, "FUNDED")
  BY <1>3, NotedCarried
<1>5. /\ t.fundingConfirmed = s.fundingConfirmed
      /\ Within(s, t, {x}, {"fundingTx", "fundingConfirmed"}, {"funding_tx"})
  BY <1>4 DEF Same, Within, SessionFields, Bookkeeping
<1>6. /\ From(t, "funding_tx", Other(r)) = {x}
      /\ From(t, "funding_tx", r) = From(s, "funding_tx", r)
  BY <1>1, <1>2, <1>4 DEF Carried, Adds, From, Noted
<1>7. /\ t.fundingTx = [q \in Roles |-> t.fundingTx[q]] /\ DOMAIN s.fundingTx = Roles
      /\ t.fundingTx[Other(r)] = x.body /\ t.fundingTx[r] = s.fundingTx[r]
  <2>1. s.fundingTx = [q \in Roles |-> s.fundingTx[q]]
    BY <1>1 DEF FundingInv
  <2>. QED  BY <1>1, <2>1
<1>8. FundingInv(r, t, c)
  BY <1>1, <1>4, <1>5, <1>6, <1>7, OtherRole DEF FundingInv, AtMostOne
<1>. QED  BY <1>4, <1>5, <1>8, PhaseKeeps DEF LocalInv

LEMMA FieldCarried ==
    ASSUME NEW r \in Roles, NEW s, NEW t, NEW F, NEW c, LocalInv(r, s, c),
           DOMAIN t = SessionFields, Same(s, t, SessionFields \ F), F \cap Bookkeeping = {}
    PROVE  /\ Carried(r, s, t, {}, c) /\ Same(s, t, SessionFields \ (Bookkeeping \cup F))
           /\ t.milestones = s.milestones
<1>1. /\ t.state = s.state /\ t.milestones = s.milestones /\ t.lastPostSeq = s.lastPostSeq
      /\ t.post = s.post /\ t.postSeq = s.postSeq
  BY DEF Same, SessionFields, Bookkeeping
<1>2. /\ StateInv(r, t) /\ NumberInv(r, t) /\ LogInv(t)
      /\ Earned(r, s, t) /\ Adds(s, t, {})
  BY <1>1, SameMilestones DEF LocalInv, CoreInv, StateInv, NumberInv, LogInv, Passed, Adds
<1>3. Same(s, t, SessionFields \ (Bookkeeping \cup F))
  BY DEF Same
<1>. QED  BY <1>1, <1>2, <1>3 DEF Carried, LocalInv

LEMMA FundingConfirmed ==
    ASSUME NEW r \in Roles, NEW s, NEW t, NEW c, LocalInv(r, s, c), NEW which \in Roles,
           DOMAIN t = SessionFields, Same(s, t, SessionFields \ {"fundingConfirmed"}),
           t.fundingConfirmed = [s.fundingConfirmed EXCEPT ![which] = TRUE]
    PROVE  LocalInv(r, t, c)
<1>1. FundingInv(r, s, c) /\ {"fundingConfirmed"} \cap Bookkeeping = {}
  BY DEF LocalInv, CoreInv, Bookkeeping
<1>2. /\ Carried(r, s, t, {}, c)
      /\ Same(s, t, SessionFields \ (Bookkeeping \cup {"fundingConfirmed"}))
      /\ t.milestones = s.milestones
  BY <1>1, FieldCarried
<1>3. /\ Within(s, t, {}, {"fundingTx", "fundingConfirmed"}, {"funding_tx"})
      /\ t.fundingTx = s.fundingTx
      /\ \A q : From(t, "funding_tx", q) = From(s, "funding_tx", q)
  BY <1>2 DEF Same, Within, SessionFields, Bookkeeping, Carried, Adds, From
<1>4. \A q \in Roles : s.fundingConfirmed[q] => t.fundingConfirmed[q]
  BY <1>1 DEF FundingInv
<1>5. DOMAIN t.fundingConfirmed = Roles
  BY <1>1 DEF FundingInv
<1>6. FundingInv(r, t, c)
  BY <1>1, <1>2, <1>3, <1>4, <1>5 DEF FundingInv, Passed
<1>. QED  BY <1>2, <1>3, <1>6, PhaseKeeps DEF LocalInv

LEMMA NonceSent ==
    ASSUME NEW r \in Roles, NEW s, NEW t, NEW x, NEW c, LocalInv(r, s, c),
           Issued(r, s, t, x, {"localNonces"}), x.type = "nonce_report",
           s.localNonces = None, t.localNonces \in NonceReports,
           x.body = [nonces |-> t.localNonces], "setLocalNonceReport" \in c
    PROVE  LocalInv(r, t, c)
<1>1. Other(r) # r /\ Other(r) \in Roles /\ PrepInv(r, s, c) /\ StateInv(r, s)
      /\ s.state = StageOf["nonce_report"] /\ s.state # "ABORTED"
  BY OtherRole, StageGate DEF LocalInv, CoreInv, Issued
<1>2. From(s, "nonce_report", r) = {} /\ ~Passed(s, "EXEC_READY")
  BY <1>1 DEF PrepInv, StateInv, StageOf
<1>3. {"localNonces"} \cap Bookkeeping = {}
  BY DEF Bookkeeping
<1>4. /\ Carried(r, s, t, {x}, c)
      /\ Same(s, t, SessionFields \ (Bookkeeping \cup {"localNonces"}))
      /\ Passed(t, "EXEC_READY") <=> Passed(s, "EXEC_READY")
  BY <1>3, SentCarried
<1>5. /\ Within(s, t, {x}, {"localNonces", "peerNonces", "feeParams", "feeAcked"},
                {"nonce_report", "fee_params", "fee_params_ack"})
      /\ t.peerNonces = s.peerNonces
      /\ t.feeParams = s.feeParams
      /\ t.feeAcked = s.feeAcked
      /\ t.templates = s.templates
  BY <1>4 DEF Same, Within, SessionFields, Bookkeeping
<1>6. /\ From(t, "nonce_report", r) = {x}
      /\ From(t, "nonce_report", Other(r)) = From(s, "nonce_report", Other(r))
      /\ \A q : From(t, "fee_params", q) = From(s, "fee_params", q)
      /\ \A q : From(t, "fee_params_ack", q) = From(s, "fee_params_ack", q)
  BY <1>1, <1>2, <1>4 DEF Carried, Adds, From, Issued
<1>7. PrepInv(r, t, c)
  BY <1>1, <1>2, <1>4, <1>5, <1>6, SessionAssumption DEF PrepInv, AtMostOne
<1>. QED  BY <1>2, <1>4, <1>5, <1>7, PhaseKeeps DEF LocalInv

LEMMA NonceNoted ==
    ASSUME NEW r \in Roles, NEW s, NEW t, NEW x, NEW c, LocalInv(r, s, c),
           Noted(r, s, t, x, {"peerNonces"}), x.type = "nonce_report",
           s.peerNonces = None, x.body.nonces \in NonceReports, t.peerNonces = x.body.nonces
    PROVE  LocalInv(r, t, c)
<1>1. Other(r) # r /\ Other(r) \in Roles /\ PrepInv(r, s, c) /\ StateInv(r, s)
      /\ s.state = StageOf["nonce_report"] /\ s.state # "ABORTED"
  BY OtherRole, StageGate DEF LocalInv, CoreInv, Noted
<1>2. From(s, "nonce_report", Other(r)) = {} /\ ~Passed(s, "EXEC_READY")
  BY <1>1 DEF PrepInv, StateInv, StageOf
<1>3. x \notin Range(s.post) /\ {"peerNonces"} \cap Bookkeeping = {}
  BY <1>2 DEF Noted, From, Bookkeeping
<1>4. /\ Carried(r, s, t, {x}, c)
      /\ Same(s, t, SessionFields \ (Bookkeeping \cup {"peerNonces"}))
      /\ Passed(t, "EXEC_READY") <=> Passed(s, "EXEC_READY")
  BY <1>3, NotedCarried
<1>5. /\ Within(s, t, {x}, {"localNonces", "peerNonces", "feeParams", "feeAcked"},
                {"nonce_report", "fee_params", "fee_params_ack"})
      /\ t.localNonces = s.localNonces
      /\ t.feeParams = s.feeParams
      /\ t.feeAcked = s.feeAcked
      /\ t.templates = s.templates
  BY <1>4 DEF Same, Within, SessionFields, Bookkeeping
<1>6. /\ From(t, "nonce_report", Other(r)) = {x}
      /\ From(t, "nonce_report", r) = From(s, "nonce_report", r)
      /\ \A q : From(t, "fee_params", q) = From(s, "fee_params", q)
      /\ \A q : From(t, "fee_params_ack", q) = From(s, "fee_params_ack", q)
  BY <1>1, <1>2, <1>4 DEF Carried, Adds, From, Noted
<1>7. PrepInv(r, t, c)
  BY <1>1, <1>2, <1>4, <1>5, <1>6, SessionAssumption DEF PrepInv, AtMostOne
<1>. QED  BY <1>2, <1>4, <1>5, <1>7, PhaseKeeps DEF LocalInv

LEMMA FeeSent ==
    ASSUME NEW r \in Roles, NEW s, NEW t, NEW x, NEW c, LocalInv(r, s, c),
           Issued(r, s, t, x, {"feeParams"}), x.type = "fee_params",
           r = "alice", s.feeParams = None, s.localNonces # None,
           t.feeParams \in FeeChoices,
           x.body = [fee |-> t.feeParams]
    PROVE  LocalInv(r, t, c)
<1>1. Other(r) # r /\ Other(r) \in Roles /\ PrepInv(r, s, c) /\ StateInv(r, s)
      /\ s.state = StageOf["fee_params"] /\ s.state # "ABORTED"
  BY OtherRole, StageGate DEF LocalInv, CoreInv, Issued
<1>2. From(s, "fee_params", r) = {} /\ From(s, "fee_params_ack", "bob") = {}
      /\ ~Passed(s, "EXEC_READY") /\ Other(r) = "bob"
  BY <1>1 DEF PrepInv, StateInv, StageOf, Other
<1>3. {"feeParams"} \cap Bookkeeping = {}
  BY DEF Bookkeeping
<1>4. /\ Carried(r, s, t, {x}, c)
      /\ Same(s, t, SessionFields \ (Bookkeeping \cup {"feeParams"}))
      /\ Passed(t, "EXEC_READY") <=> Passed(s, "EXEC_READY")
  BY <1>3, SentCarried
<1>5. /\ Within(s, t, {x}, {"localNonces", "peerNonces", "feeParams", "feeAcked"},
                {"nonce_report", "fee_params", "fee_params_ack"})
      /\ t.localNonces = s.localNonces
      /\ t.peerNonces = s.peerNonces
      /\ t.feeAcked = s.feeAcked
      /\ t.templates = s.templates
  BY <1>4 DEF Same, Within, SessionFields, Bookkeeping
<1>6. /\ From(t, "fee_params", r) = {x}
      /\ From(t, "fee_params", Other(r)) = From(s, "fee_params", Other(r))
      /\ \A q : From(t, "nonce_report", q) = From(s, "nonce_report", q)
      /\ \A q : From(t, "fee_params_ack", q) = From(s, "fee_params_ack", q)
  BY <1>1, <1>2, <1>4 DEF Carried, Adds, From, Issued
<1>7. PrepInv(r, t, c)
  BY <1>1, <1>2, <1>4, <1>5, <1>6, SessionAssumption DEF PrepInv, AtMostOne
<1>. QED  BY <1>2, <1>4, <1>5, <1>7, PhaseKeeps DEF LocalInv

LEMMA FeeNoted ==
    ASSUME NEW r \in Roles, NEW s, NEW t, NEW x, NEW c, LocalInv(r, s, c),
           Noted(r, s, t, x, {"feeParams"}), x.type = "fee_params",
           r = "bob", s.feeParams = None, x.body.fee \in FeeChoices,
           x.body = [fee |-> x.body.fee],
           t.feeParams = x.body.fee
    PROVE  LocalInv(r, t, c) /\ From(s, "fee_params_ack", r) = {}
<1>1. Other(r) # r /\ Other(r) \in Roles /\ PrepInv(r, s, c) /\ StateInv(r, s)
      /\ s.state = StageOf["fee_params"] /\ s.state # "ABORTED"
  BY OtherRole, StageGate DEF LocalInv, CoreInv, Noted
<1>2. From(s, "fee_params", Other(r)) = {} /\ From(s, "fee_params_ack", r) = {}
      /\ ~Passed(s, "EXEC_READY") /\ Other(r) = "alice"
  BY <1>1 DEF PrepInv, StateInv, StageOf, Other
<1>3. x \notin Range(s.post) /\ {"feeParams"} \cap Bookkeeping = {}
  BY <1>2 DEF Noted, From, Bookkeeping
<1>4. /\ Carried(r, s, t, {x}, c)
      /\ Same(s, t, SessionFields \ (Bookkeeping \cup {"feeParams"}))
      /\ Passed(t, "EXEC_READY") <=> Passed(s, "EXEC_READY")
  BY <1>3, NotedCarried
<1>5. /\ Within(s, t, {x}, {"localNonces", "peerNonces", "feeParams", "feeAcked"},
                {"nonce_report", "fee_params", "fee_params_ack"})
      /\ t.localNonces = s.localNonces
      /\ t.peerNonces = s.peerNonces
      /\ t.feeAcked = s.feeAcked
      /\ t.templates = s.templates
  BY <1>4 DEF Same, Within, SessionFields, Bookkeeping
<1>6. /\ From(t, "fee_params", Other(r)) = {x}
      /\ From(t, "fee_params", r) = From(s, "fee_params", r)
      /\ \A q : From(t, "nonce_report", q) = From(s, "nonce_report", q)
      /\ \A q : From(t, "fee_params_ack", q) = From(s, "fee_params_ack", q)
  BY <1>1, <1>2, <1>4 DEF Carried, Adds, From, Noted
<1>7. PrepInv(r, t, c)
  BY <1>1, <1>2, <1>4, <1>5, <1>6, SessionAssumption DEF PrepInv, AtMostOne
<1>. QED  BY <1>2, <1>4, <1>5, <1>7, PhaseKeeps DEF LocalInv

LEMMA FeeAckSent ==
    ASSUME NEW r \in Roles, NEW s, NEW t, NEW x, NEW c, LocalInv(r, s, c),
           Issued(r, s, t, x, {"feeAcked"}), x.type = "fee_params_ack",
           r = "bob", s.feeParams # None, x.body = [feeHash |-> s.feeParams], t.feeAcked = TRUE,
           From(s, "fee_params_ack", r) = {}
    PROVE  LocalInv(r, t, c)
<1>1. Other(r) # r /\ Other(r) \in Roles /\ PrepInv(r, s, c) /\ StateInv(r, s)
      /\ s.state = StageOf["fee_params_ack"] /\ s.state # "ABORTED"
  BY OtherRole, StageGate DEF LocalInv, CoreInv, Issued
<1>2. ~Passed(s, "EXEC_READY") /\ Other(r) = "alice"
  BY <1>1 DEF PrepInv, StateInv, StageOf, Other
<1>3. {"feeAcked"} \cap Bookkeeping = {}
  BY DEF Bookkeeping
<1>4. /\ Carried(r, s, t, {x}, c)
      /\ Same(s, t, SessionFields \ (Bookkeeping \cup {"feeAcked"}))
      /\ Passed(t, "EXEC_READY") <=> Passed(s, "EXEC_READY")
  BY <1>3, SentCarried
<1>5. /\ Within(s, t, {x}, {"localNonces", "peerNonces", "feeParams", "feeAcked"},
                {"nonce_report", "fee_params", "fee_params_ack"})
      /\ t.localNonces = s.localNonces
      /\ t.peerNonces = s.peerNonces
      /\ t.feeParams = s.feeParams
      /\ t.templates = s.templates
  BY <1>4 DEF Same, Within, SessionFields, Bookkeeping
<1>6. /\ From(t, "fee_params_ack", r) = {x}
      /\ From(t, "fee_params_ack", Other(r)) = From(s, "fee_params_ack", Other(r))
      /\ \A q : From(t, "nonce_report", q) = From(s, "nonce_report", q)
      /\ \A q : From(t, "fee_params", q) = From(s, "fee_params", q)
  BY <1>1, <1>2, <1>4 DEF Carried, Adds, From, Issued
<1>7. /\ From(t, "fee_params_ack", "bob") = {x} /\ From(t, "fee_params_ack", "alice") = {}
      /\ From(t, "fee_params", "bob") = {}
      /\ From(t, "fee_params", "alice") = From(s, "fee_params", "alice")
  BY <1>1, <1>2, <1>6 DEF PrepInv
<1>8. /\ AtMostOne(From(t, "nonce_report", r)) /\ AtMostOne(From(t, "fee_params", r))
      /\ AtMostOne(From(t, "fee_params_ack", r))
  BY <1>1, <1>2, <1>6, <1>7 DEF PrepInv, AtMostOne
<1>9. PrepInv(r, t, c)
  BY <1>1, <1>2, <1>4, <1>5, <1>6, <1>7, <1>8 DEF PrepInv
<1>. QED  BY <1>2, <1>4, <1>5, <1>9, PhaseKeeps DEF LocalInv

LEMMA FeeAckNoted ==
    ASSUME NEW r \in Roles, NEW s, NEW t, NEW x, NEW c, LocalInv(r, s, c),
           Noted(r, s, t, x, {"feeAcked"}), x.type = "fee_params_ack",
           r = "alice", ~s.feeAcked, s.feeParams # None, x.body = [feeHash |-> s.feeParams],
           t.feeAcked = TRUE
    PROVE  LocalInv(r, t, c)
<1>1. Other(r) # r /\ Other(r) \in Roles /\ PrepInv(r, s, c) /\ StateInv(r, s)
      /\ s.state = StageOf["fee_params_ack"] /\ s.state # "ABORTED"
  BY OtherRole, StageGate DEF LocalInv, CoreInv, Noted
<1>2. From(s, "fee_params_ack", Other(r)) = {} /\ ~Passed(s, "EXEC_READY") /\ Other(r) = "bob"
  BY <1>1 DEF PrepInv, StateInv, StageOf, Other
<1>3. x \notin Range(s.post) /\ {"feeAcked"} \cap Bookkeeping = {}
  BY <1>2 DEF Noted, From, Bookkeeping
<1>4. /\ Carried(r, s, t, {x}, c)
      /\ Same(s, t, SessionFields \ (Bookkeeping \cup {"feeAcked"}))
      /\ Passed(t, "EXEC_READY") <=> Passed(s, "EXEC_READY")
  BY <1>3, NotedCarried
<1>5. /\ Within(s, t, {x}, {"localNonces", "peerNonces", "feeParams", "feeAcked"},
                {"nonce_report", "fee_params", "fee_params_ack"})
      /\ t.localNonces = s.localNonces
      /\ t.peerNonces = s.peerNonces
      /\ t.feeParams = s.feeParams
      /\ t.templates = s.templates
  BY <1>4 DEF Same, Within, SessionFields, Bookkeeping
<1>6. /\ From(t, "fee_params_ack", Other(r)) = {x}
      /\ From(t, "fee_params_ack", r) = From(s, "fee_params_ack", r)
      /\ \A q : From(t, "nonce_report", q) = From(s, "nonce_report", q)
      /\ \A q : From(t, "fee_params", q) = From(s, "fee_params", q)
  BY <1>1, <1>2, <1>4 DEF Carried, Adds, From, Noted
<1>7. /\ From(t, "fee_params_ack", "bob") = {x} /\ From(t, "fee_params_ack", "alice") = {}
      /\ From(t, "fee_params", "bob") = {}
      /\ From(t, "fee_params", "alice") = From(s, "fee_params", "alice")
  BY <1>1, <1>2, <1>6 DEF PrepInv
<1>8. /\ AtMostOne(From(t, "nonce_report", r)) /\ AtMostOne(From(t, "fee_params", r))
      /\ AtMostOne(From(t, "fee_params_ack", r))
  BY <1>1, <1>2, <1>6, <1>7 DEF PrepInv, AtMostOne
<1>9. PrepInv(r, t, c)
  BY <1>1, <1>2, <1>4, <1>5, <1>6, <1>7, <1>8 DEF PrepInv
<1>. QED  BY <1>2, <1>4, <1>5, <1>9, PhaseKeeps DEF LocalInv

LEMMA CommitSent ==
    ASSUME NEW r \in Roles, NEW s, NEW t, NEW x, NEW c, LocalInv(r, s, c),
           Issued(r, s, t, x, {}), x.type = "tx_template_commit",
           x.body = CommitBody(r, s.templates), From(s, "tx_template_commit", r) = {}
    PROVE  LocalInv(r, t, c)
<1>1. Other(r) # r /\ Other(r) \in Roles /\ TemplateInv(r, s) /\ StateInv(r, s)
      /\ s.state = StageOf["tx_template_commit"] /\ s.state # "ABORTED"
  BY OtherRole, StageGate DEF LocalInv, CoreInv, Issued
<1>2. ~Passed(s, "EXEC_TEMPLATES_READY")
  BY <1>1 DEF TemplateInv, StateInv, StageOf
<1>3. {} \cap Bookkeeping = {}
  BY DEF Bookkeeping
<1>4. /\ Carried(r, s, t, {x}, c)
      /\ Same(s, t, SessionFields \ (Bookkeeping \cup {}))
      /\ Passed(t, "EXEC_TEMPLATES_READY") <=> Passed(s, "EXEC_TEMPLATES_READY")
  BY <1>3, SentCarried
<1>5. /\ Within(s, t, {x}, {"peerCommitHash", "localCommitAcked"},
                {"tx_template_commit", "tx_template_ack"})
      /\ t.peerCommitHash = s.peerCommitHash
      /\ t.localCommitAcked = s.localCommitAcked
      /\ t.templates = s.templates
  BY <1>4 DEF Same, Within, SessionFields, Bookkeeping
<1>6. /\ From(t, "tx_template_commit", r) = {x}
      /\ From(t, "tx_template_commit", Other(r)) = From(s, "tx_template_commit", Other(r))
      /\ \A q : From(t, "tx_template_ack", q) = From(s, "tx_template_ack", q)
  BY <1>1, <1>2, <1>4 DEF Carried, Adds, From, Issued
<1>7. TemplateInv(r, t)
  BY <1>1, <1>2, <1>4, <1>5, <1>6 DEF TemplateInv, AtMostOne
<1>. QED  BY <1>2, <1>4, <1>5, <1>7, PhaseKeeps DEF LocalInv

LEMMA CommitNoted ==
    ASSUME NEW r \in Roles, NEW s, NEW t, NEW x, NEW c, LocalInv(r, s, c),
           Noted(r, s, t, x, {"peerCommitHash"}), x.type = "tx_template_commit",
           s.peerCommitHash = None, x.body.digests = s.templates,
           x.body.commitHash = s.templates, s.templates # None,
           t.peerCommitHash = x.body.commitHash
    PROVE  LocalInv(r, t, c) /\ From(s, "tx_template_ack", r) = {}
<1>1. Other(r) # r /\ Other(r) \in Roles /\ TemplateInv(r, s) /\ StateInv(r, s)
      /\ s.state = StageOf["tx_template_commit"] /\ s.state # "ABORTED"
  BY OtherRole, StageGate DEF LocalInv, CoreInv, Noted
<1>2. From(s, "tx_template_commit", Other(r)) = {} /\ From(s, "tx_template_ack", r) = {}
      /\ ~Passed(s, "EXEC_TEMPLATES_READY")
  BY <1>1 DEF TemplateInv, StateInv, StageOf
<1>3. x \notin Range(s.post) /\ {"peerCommitHash"} \cap Bookkeeping = {}
  BY <1>2 DEF Noted, From, Bookkeeping
<1>4. /\ Carried(r, s, t, {x}, c)
      /\ Same(s, t, SessionFields \ (Bookkeeping \cup {"peerCommitHash"}))
      /\ Passed(t, "EXEC_TEMPLATES_READY") <=> Passed(s, "EXEC_TEMPLATES_READY")
  BY <1>3, NotedCarried
<1>5. /\ Within(s, t, {x}, {"peerCommitHash", "localCommitAcked"},
                {"tx_template_commit", "tx_template_ack"})
      /\ t.localCommitAcked = s.localCommitAcked
      /\ t.templates = s.templates
  BY <1>4 DEF Same, Within, SessionFields, Bookkeeping
<1>6. /\ From(t, "tx_template_commit", Other(r)) = {x}
      /\ From(t, "tx_template_commit", r) = From(s, "tx_template_commit", r)
      /\ \A q : From(t, "tx_template_ack", q) = From(s, "tx_template_ack", q)
  BY <1>1, <1>2, <1>4 DEF Carried, Adds, From, Noted
<1>7. TemplateInv(r, t)
  BY <1>1, <1>2, <1>4, <1>5, <1>6 DEF TemplateInv, AtMostOne
<1>. QED  BY <1>2, <1>4, <1>5, <1>7, PhaseKeeps DEF LocalInv

LEMMA TemplateAckSent ==
    ASSUME NEW r \in Roles, NEW s, NEW t, NEW x, NEW c, LocalInv(r, s, c),
           Issued(r, s, t, x, {}), x.type = "tx_template_ack",
           x.body = [commitHash |-> s.templates], s.peerCommitHash # None,
           From(s, "tx_template_ack", r) = {}
    PROVE  LocalInv(r, t, c)
<1>1. Other(r) # r /\ Other(r) \in Roles /\ TemplateInv(r, s) /\ StateInv(r, s)
      /\ s.state = StageOf["tx_template_ack"] /\ s.state # "ABORTED"
  BY OtherRole, StageGate DEF LocalInv, CoreInv, Issued
<1>2. ~Passed(s, "EXEC_TEMPLATES_READY")
  BY <1>1 DEF TemplateInv, StateInv, StageOf
<1>3. {} \cap Bookkeeping = {}
  BY DEF Bookkeeping
<1>4. /\ Carried(r, s, t, {x}, c)
      /\ Same(s, t, SessionFields \ (Bookkeeping \cup {}))
      /\ Passed(t, "EXEC_TEMPLATES_READY") <=> Passed(s, "EXEC_TEMPLATES_READY")
  BY <1>3, SentCarried
<1>5. /\ Within(s, t, {x}, {"peerCommitHash", "localCommitAcked"},
                {"tx_template_commit", "tx_template_ack"})
      /\ t.peerCommitHash = s.peerCommitHash
      /\ t.localCommitAcked = s.localCommitAcked
      /\ t.templates = s.templates
  BY <1>4 DEF Same, Within, SessionFields, Bookkeeping
<1>6. /\ From(t, "tx_template_ack", r) = {x}
      /\ From(t, "tx_template_ack", Other(r)) = From(s, "tx_template_ack", Other(r))
      /\ \A q : From(t, "tx_template_commit", q) = From(s, "tx_template_commit", q)
  BY <1>1, <1>2, <1>4 DEF Carried, Adds, From, Issued
<1>7. TemplateInv(r, t)
  BY <1>1, <1>2, <1>4, <1>5, <1>6 DEF TemplateInv, AtMostOne
<1>. QED  BY <1>2, <1>4, <1>5, <1>7, PhaseKeeps DEF LocalInv

LEMMA TemplateAckNoted ==
    ASSUME NEW r \in Roles, NEW s, NEW t, NEW x, NEW c, LocalInv(r, s, c),
           Noted(r, s, t, x, {"localCommitAcked"}), x.type = "tx_template_ack",
           ~s.localCommitAcked, x.body.commitHash = s.templates, t.localCommitAcked = TRUE
    PROVE  LocalInv(r, t, c)
<1>1. Other(r) # r /\ Other(r) \in Roles /\ TemplateInv(r, s) /\ StateInv(r, s)
      /\ s.state = StageOf["tx_template_ack"] /\ s.state # "ABORTED"
  BY OtherRole, StageGate DEF LocalInv, CoreInv, Noted
<1>2. From(s, "tx_template_ack", Other(r)) = {} /\ ~Passed(s, "EXEC_TEMPLATES_READY")
  BY <1>1 DEF TemplateInv, StateInv, StageOf
<1>3. x \notin Range(s.post) /\ {"localCommitAcked"} \cap Bookkeeping = {}
  BY <1>2 DEF Noted, From, Bookkeeping
<1>4. /\ Carried(r, s, t, {x}, c)
      /\ Same(s, t, SessionFields \ (Bookkeeping \cup {"localCommitAcked"}))
      /\ Passed(t, "EXEC_TEMPLATES_READY") <=> Passed(s, "EXEC_TEMPLATES_READY")
  BY <1>3, NotedCarried
<1>5. /\ Within(s, t, {x}, {"peerCommitHash", "localCommitAcked"},
                {"tx_template_commit", "tx_template_ack"})
      /\ t.peerCommitHash = s.peerCommitHash
      /\ t.templates = s.templates
  BY <1>4 DEF Same, Within, SessionFields, Bookkeeping
<1>6. /\ From(t, "tx_template_ack", Other(r)) = {x}
      /\ From(t, "tx_template_ack", r) = From(s, "tx_template_ack", r)
      /\ \A q : From(t, "tx_template_commit", q) = From(s, "tx_template_commit", q)
  BY <1>1, <1>2, <1>4 DEF Carried, Adds, From, Noted
<1>7. TemplateInv(r, t)
  BY <1>1, <1>2, <1>4, <1>5, <1>6 DEF TemplateInv, AtMostOne
<1>. QED  BY <1>2, <1>4, <1>5, <1>7, PhaseKeeps DEF LocalInv

\* What an adaptor record of leg l and new contents of that leg leave alone.
LEMMA LegsCarried ==
    ASSUME NEW r \in Roles, NEW s, NEW t, NEW l \in Legs, NEW X,
           AdaptorInv(r, s), Adds(s, t, X), Earned(r, s, t), t.templates = s.templates,
           \A x \in X : /\ x.type \in {"adaptor_start", "adaptor_resp", "adaptor_ack"}
                        /\ x.from \in Roles /\ x.body.which = l
                        /\ x.type = "adaptor_resp" <=> x.from = "bob",
           DOMAIN t.legs = Legs, \A leg \in Legs \ {l} : t.legs[leg] = s.legs[leg],
           LegInv(r, t, l), LegDone(r, s.legs[l]) => LegDone(r, t.legs[l])
    PROVE  AdaptorInv(r, t)
<1>1. \A leg \in Legs \ {l} : \A type, q : FromLeg(t, type, q, leg) = FromLeg(s, type, q, leg)
  BY DEF FromLeg, From, Adds
<1>2. \A leg \in Legs \ {l} : \A sig : Signed(r, t, leg, sig) <=> Signed(r, s, leg, sig)
  BY DEF Signed
<1>3. \A x \in Range(t.post) :
          /\ x.type \in {"adaptor_start", "adaptor_ack"} => x.from = "alice"
          /\ x.type = "adaptor_resp" => x.from = "bob"
          /\ x.type \in {"adaptor_start", "adaptor_resp", "adaptor_ack"} =>
                x.body.which \in Legs
  BY DEF AdaptorInv, Adds, Roles
<1>4. Passed(t, "EXECUTION_PLANNED") => \A leg \in Legs : LegDone(r, t.legs[leg])
  <2>1. Passed(t, "EXECUTION_PLANNED") => \A leg \in Legs : LegDone(r, s.legs[leg])
    BY DEF AdaptorInv, Earned
  <2>. QED  BY <2>1
<1>5. ASSUME NEW leg \in Legs \ {l}
      PROVE  LegInv(r, t, leg)
  <2>1. LegInv(r, s, leg)
    BY DEF AdaptorInv
  <2>. QED  BY <1>1, <1>2, <2>1 DEF LegInv
<1>. QED  BY <1>3, <1>4, <1>5 DEF AdaptorInv

LEMMA LegKept ==
    ASSUME NEW r \in Roles, NEW s, NEW t, NEW l \in Legs, NEW x,
           AdaptorInv(r, s), Adds(s, t, {x}), Earned(r, s, t), t.templates = s.templates,
           x.type \in {"adaptor_start", "adaptor_resp", "adaptor_ack"},
           x.from \in Roles, x.body.which = l, x.type = "adaptor_resp" <=> x.from = "bob",
           DOMAIN t.legs = Legs, \A leg \in Legs \ {l} : t.legs[leg] = s.legs[leg],
           LegInv(r, t, l), LegDone(r, s.legs[l]) => LegDone(r, t.legs[l])
    PROVE  AdaptorInv(r, t)
<1>. DEFINE X == {x}
<1>1. \A y \in X : /\ y.type \in {"adaptor_start", "adaptor_resp", "adaptor_ack"}
                   /\ y.from \in Roles /\ y.body.which = l
                   /\ y.type = "adaptor_resp" <=> y.from = "bob"
  OBVIOUS
<1>2. Adds(s, t, X)
  OBVIOUS
<1>. HIDE DEF X
<1>. QED  BY <1>1, <1>2, LegsCarried

LEMMA StartSent ==
    ASSUME NEW r \in Roles, NEW s, NEW t, NEW x, NEW c, NEW l \in Legs, LocalInv(r, s, c),
           Issued(r, s, t, x, {"legs"}), x.type = "adaptor_start", r = "alice",
           t.legs = [s.legs EXCEPT ![l].T = x.body.T],
           x.body.T \in Legs \X Digests, x.body.T # None,
           x.body = [which |-> l, digests |-> s.templates, T |-> x.body.T],
           \A type \in {"adaptor_start", "adaptor_resp", "adaptor_ack"} : \A q :
              FromLeg(s, type, q, l) = {}
    PROVE  LocalInv(r, t, c)
<1>1. Other(r) # r /\ Other(r) \in Roles /\ AdaptorInv(r, s) /\ LegInv(r, s, l)
      /\ DOMAIN s.legs = Legs
  BY OtherRole DEF LocalInv, CoreInv, AdaptorInv
<1>2. {"legs"} \cap Bookkeeping = {}
  BY DEF Bookkeeping
<1>3. /\ Carried(r, s, t, {x}, c)
      /\ Same(s, t, SessionFields \ (Bookkeeping \cup {"legs"}))
      /\ Passed(t, "EXECUTION_PLANNED") <=> Passed(s, "EXECUTION_PLANNED")
  BY <1>2, SentCarried
<1>4. /\ Within(s, t, {x}, {"legs"}, {"adaptor_start", "adaptor_resp", "adaptor_ack"})
      /\ t.templates = s.templates
  BY <1>3 DEF Same, Within, SessionFields, Bookkeeping
<1>5. /\ FromLeg(t, "adaptor_start", "alice", l) = {x}
      /\ FromLeg(t, "adaptor_resp", "bob", l) = {}
      /\ FromLeg(t, "adaptor_ack", "alice", l) = {}
  BY <1>1, <1>3 DEF Carried, Adds, From, FromLeg, Issued
<1>6. /\ DOMAIN t.legs = Legs /\ \A leg \in Legs \ {l} : t.legs[leg] = s.legs[leg]
      /\ DOMAIN t.legs[l] = {"T", "adaptorSig", "acked"} /\ t.legs[l].T = x.body.T
      /\ t.legs[l].adaptorSig = s.legs[l].adaptorSig /\ t.legs[l].acked = s.legs[l].acked
  BY <1>1 DEF LegInv
<1>7. s.legs[l].adaptorSig = None
  BY <1>1 DEF LegInv
<1>8. LegInv(r, t, l)
  BY <1>1, <1>4, <1>5, <1>6, <1>7 DEF LegInv, AtMostOne
<1>9. AdaptorInv(r, t)
  <2>1. /\ Adds(s, t, {x}) /\ Earned(r, s, t)
        /\ LegDone(r, s.legs[l]) => LegDone(r, t.legs[l])
    BY <1>3, <1>6, <1>7 DEF Carried, LegDone
  <2>2. x.from = "alice"
    BY DEF Issued
  <2>. QED  BY <1>1, <1>4, <1>6, <1>8, <2>1, <2>2, LegsCarried
<1>10. PlanInv(r, t)
  BY <1>3, <1>6, <1>7 DEF PlanInv
<1>. QED  BY <1>3, <1>4, <1>9, <1>10, PhaseKeeps DEF LocalInv

\* The peer's start x opens leg l, which bob answers with sig.
Opened(r, s, t, x, l, sig) ==
    /\ x.type = "adaptor_start" /\ r = "bob"
    /\ s.legs[l].adaptorSig = None /\ s.legs[l].T \in {None, x.body.T}
    /\ t.legs = [s.legs EXCEPT ![l].T = x.body.T, ![l].adaptorSig = sig]
    /\ x.body.T \in Legs \X Digests /\ x.body.T # None
    /\ sig \in AdaptorSigs /\ sig # None
    /\ x.body = [which |-> l, digests |-> s.templates, T |-> x.body.T]

LEMMA StartNoted ==
    ASSUME NEW r \in Roles, NEW s, NEW t, NEW x, NEW c, NEW l \in Legs, NEW sig,
           LocalInv(r, s, c), Noted(r, s, t, x, {"legs"}), Opened(r, s, t, x, l, sig)
    PROVE  LocalInv(r, t, c) /\ FromLeg(s, "adaptor_resp", "bob", l) = {}
<1>. USE DEF Opened
<1>1. Other(r) = "alice" /\ AdaptorInv(r, s) /\ LegInv(r, s, l) /\ DOMAIN s.legs = Legs
  BY DEF LocalInv, CoreInv, AdaptorInv, Other
<1>2. /\ FromLeg(s, "adaptor_start", "alice", l) = {}
      /\ FromLeg(s, "adaptor_resp", "bob", l) = {}
      /\ FromLeg(s, "adaptor_ack", "alice", l) # {} => s.legs[l].T = x.body.T
  BY <1>1 DEF LegInv
<1>3. x \notin Range(s.post) /\ {"legs"} \cap Bookkeeping = {}
  BY <1>1, <1>2 DEF Bookkeeping, FromLeg, From, Noted
<1>4. /\ Carried(r, s, t, {x}, c)
      /\ Same(s, t, SessionFields \ (Bookkeeping \cup {"legs"}))
  BY <1>3, NotedCarried
<1>5. /\ Within(s, t, {x}, {"legs"}, {"adaptor_start", "adaptor_resp", "adaptor_ack"})
      /\ t.templates = s.templates
  BY <1>4 DEF Same, Within, SessionFields, Bookkeeping
<1>6. /\ FromLeg(t, "adaptor_start", "alice", l) = {x}
      /\ FromLeg(t, "adaptor_resp", "bob", l) = {}
      /\ FromLeg(t, "adaptor_ack", "alice", l) = FromLeg(s, "adaptor_ack", "alice", l)
  BY <1>1, <1>2, <1>4 DEF Carried, Adds, From, FromLeg, Noted
<1>7. /\ DOMAIN t.legs = Legs /\ \A leg \in Legs \ {l} : t.legs[leg] = s.legs[leg]
      /\ DOMAIN t.legs[l] = {"T", "adaptorSig", "acked"} /\ t.legs[l].T = x.body.T
      /\ t.legs[l].adaptorSig = sig /\ t.legs[l].acked = s.legs[l].acked
  BY <1>1 DEF LegInv
<1>8. LegInv(r, t, l)
  BY <1>1, <1>2, <1>5, <1>6, <1>7 DEF LegInv, AtMostOne
<1>9. AdaptorInv(r, t)
  <2>1. /\ Adds(s, t, {x}) /\ Earned(r, s, t)
        /\ LegDone(r, s.legs[l]) => LegDone(r, t.legs[l])
    BY <1>4, <1>7 DEF Carried, LegDone
  <2>2. x.from = "alice"
    BY <1>1 DEF Noted
  <2>. QED  BY <1>1, <1>5, <1>7, <1>8, <2>1, <2>2, LegsCarried DEF Roles
<1>10. PlanInv(r, t)
  BY DEF PlanInv
<1>. QED  BY <1>2, <1>4, <1>5, <1>9, <1>10, PhaseKeeps DEF LocalInv

LEMMA RespSent ==
    ASSUME NEW r \in Roles, NEW s, NEW t, NEW x, NEW c, NEW l \in Legs, LocalInv(r, s, c),
           Issued(r, s, t, x, {}), x.type = "adaptor_resp", r = "bob",
           s.legs[l].T # None, s.legs[l].adaptorSig # None,
           x.body = [which |-> l, digests |-> s.templates, T |-> s.legs[l].T,
                     sig |-> x.body.sig],
           Signed(r, s, l, x.body.sig), FromLeg(s, "adaptor_resp", "bob", l) = {}
    PROVE  LocalInv(r, t, c)
<1>1. AdaptorInv(r, s) /\ LegInv(r, s, l) /\ DOMAIN s.legs = Legs
  BY DEF LocalInv, CoreInv, AdaptorInv
<1>2. {} \cap Bookkeeping = {}
  OBVIOUS
<1>3. /\ Carried(r, s, t, {x}, c) /\ Same(s, t, SessionFields \ (Bookkeeping \cup {}))
  BY <1>2, SentCarried
<1>4. /\ Within(s, t, {x}, {"legs"}, {"adaptor_start", "adaptor_resp", "adaptor_ack"})
      /\ t.templates = s.templates /\ t.legs = s.legs
  BY <1>3 DEF Same, Within, SessionFields, Bookkeeping
<1>5. /\ FromLeg(t, "adaptor_start", "alice", l) = FromLeg(s, "adaptor_start", "alice", l)
      /\ FromLeg(t, "adaptor_resp", "bob", l) = {x}
      /\ FromLeg(t, "adaptor_ack", "alice", l) = FromLeg(s, "adaptor_ack", "alice", l)
  BY <1>1, <1>3 DEF Carried, Adds, From, FromLeg, Issued
<1>6. LegInv(r, t, l)
  BY <1>1, <1>4, <1>5 DEF LegInv, AtMostOne, Signed
<1>7. AdaptorInv(r, t)
  <2>1. /\ Adds(s, t, {x}) /\ Earned(r, s, t) /\ x.from = "bob" /\ x.body.which = l
    BY <1>3 DEF Carried, Issued
  <2>. QED  BY <1>1, <1>4, <1>6, <2>1, LegsCarried DEF Roles
<1>8. PlanInv(r, t)
  BY DEF PlanInv
<1>. QED  BY <1>3, <1>4, <1>7, <1>8, PhaseKeeps DEF LocalInv

\* Alice's y tells bob that she has his signature for leg l.
Closes(r, s, t, y, l) ==
    /\ y.type = "adaptor_ack" /\ r = "bob" /\ ~s.legs[l].acked /\ s.legs[l].T # None
    /\ t.legs = [s.legs EXCEPT ![l].acked = TRUE]
    /\ y.body = [which |-> l, digests |-> s.templates, T |-> s.legs[l].T]

LEMMA AdaptorAckNoted ==
    ASSUME NEW r \in Roles, NEW s, NEW t, NEW x, NEW c, NEW l \in Legs, LocalInv(r, s, c),
           Noted(r, s, t, x, {"legs"}), Closes(r, s, t, x, l)
    PROVE  LocalInv(r, t, c)
<1>. USE DEF Closes
<1>1. Other(r) = "alice" /\ AdaptorInv(r, s) /\ LegInv(r, s, l) /\ DOMAIN s.legs = Legs
  BY DEF LocalInv, CoreInv, AdaptorInv, Other
<1>2. FromLeg(s, "adaptor_ack", "alice", l) = {}
  BY <1>1 DEF LegInv
<1>3. x \notin Range(s.post) /\ {"legs"} \cap Bookkeeping = {}
  BY <1>1, <1>2 DEF Bookkeeping, FromLeg, From, Noted
<1>4. /\ Carried(r, s, t, {x}, c)
      /\ Same(s, t, SessionFields \ (Bookkeeping \cup {"legs"}))
  BY <1>3, NotedCarried
<1>5. /\ Within(s, t, {x}, {"legs"}, {"adaptor_start", "adaptor_resp", "adaptor_ack"})
      /\ t.templates = s.templates
  BY <1>4 DEF Same, Within, SessionFields, Bookkeeping
<1>6. /\ FromLeg(t, "adaptor_start", "alice", l) = FromLeg(s, "adaptor_start", "alice", l)
      /\ FromLeg(t, "adaptor_resp", "bob", l) = FromLeg(s, "adaptor_resp", "bob", l)
      /\ FromLeg(t, "adaptor_ack", "alice", l) = {x}
  BY <1>1, <1>2, <1>4 DEF Carried, Adds, From, FromLeg, Noted
<1>l. DOMAIN t.legs = Legs /\ \A leg \in Legs \ {l} : t.legs[leg] = s.legs[leg]
  BY <1>1
<1>7. /\ DOMAIN t.legs[l] = {"T", "adaptorSig", "acked"} /\ t.legs[l].T = s.legs[l].T
      /\ t.legs[l].adaptorSig = s.legs[l].adaptorSig /\ t.legs[l].acked = TRUE
  BY <1>1 DEF LegInv
<1>8. LegInv(r, t, l)
  BY <1>1, <1>5, <1>6, <1>7 DEF LegInv, AtMostOne, Signed
<1>9. AdaptorInv(r, t)
  <2>1. /\ l \in Legs /\ AdaptorInv(r, s) /\ t.templates = s.templates
        /\ Adds(s, t, {x}) /\ Earned(r, s, t) /\ LegInv(r, t, l)
        /\ DOMAIN t.legs = Legs /\ \A leg \in Legs \ {l} : t.legs[leg] = s.legs[leg]
    BY <1>1, <1>4, <1>5, <1>l, <1>8 DEF Carried
  <2>2. LegDone(r, s.legs[l]) => LegDone(r, t.legs[l])
    BY <1>7 DEF LegDone
  <2>3. x.from = "alice" /\ x.from \in Roles /\ x.body.which = l
    BY <1>1 DEF Noted, Roles
  <2>. QED  BY <2>1, <2>2, <2>3, LegKept
<1>10. PlanInv(r, t)
  BY DEF PlanInv
<1>. QED  BY <1>4, <1>5, <1>9, <1>10, PhaseKeeps DEF LocalInv

\* Alice keeps the signature of bob's x for leg l and tells him so with y, all in
\* one call.
Answers(s, t, x, y, l) ==
    /\ s.state = "ADAPTOR_NEGOTIATING" /\ DOMAIN t = SessionFields
    /\ x.type = "adaptor_resp" /\ x.from = "bob" /\ x.seq \in Nat /\ x.seq <= s.lastPostSeq
    /\ y.type = "adaptor_ack" /\ y.from = "alice" /\ y.seq = s.postSeq
    /\ Same(s, t, SessionFields \ {"post", "postSeq", "legs"})
    /\ t.post = Append(Append(s.post, x), y) /\ t.postSeq = s.postSeq + 1
    /\ DOMAIN t.legs = Legs /\ \A leg \in Legs \ {l} : t.legs[leg] = s.legs[leg]
    /\ DOMAIN t.legs[l] = {"T", "adaptorSig", "acked"} /\ t.legs[l].T = x.body.T
    /\ t.legs[l].adaptorSig = x.body.sig /\ t.legs[l].acked = TRUE
    /\ s.legs[l].adaptorSig = None /\ s.legs[l].T \in {None, x.body.T}
    /\ x.body.T \in Legs \X Digests /\ x.body.T # None
    /\ x.body.sig \in AdaptorSigs /\ x.body.sig # None /\ x.body.sig.whole
    /\ x.body = [which |-> l, digests |-> s.templates, T |-> x.body.T, sig |-> x.body.sig]
    /\ y.body = [which |-> l, digests |-> s.templates, T |-> x.body.T]

LEMMA RespAnswered ==
    ASSUME NEW r \in Roles, NEW s, NEW t, NEW x, NEW y, NEW c, NEW l \in Legs,
           LocalInv(r, s, c), r = "alice", Answers(s, t, x, y, l)
    PROVE  CoreInv(r, t, c)
<1>. USE DEF Answers
<1>. DEFINE k == [s EXCEPT !.post = Append(s.post, x)]
            X == {x, y}
<1>1. /\ Other(r) = "bob" /\ Other(r) # r /\ AdaptorInv(r, s) /\ LegInv(r, s, l)
      /\ StateInv(r, s) /\ NumberInv(r, s) /\ LogInv(s) /\ DOMAIN s = SessionFields
  BY DEF LocalInv, CoreInv, AdaptorInv, Other
<1>2. /\ FromLeg(s, "adaptor_resp", "bob", l) = {}
      /\ FromLeg(s, "adaptor_ack", "alice", l) = {}
      /\ FromLeg(s, "adaptor_start", "alice", l) # {} => s.legs[l].T = x.body.T
  BY <1>1 DEF LegInv
<1>3. ~Refusal(x) /\ ~Refusal(y)
  BY DEF Refusal
<1>4. x \notin Range(s.post)
  BY <1>2, <1>3 DEF FromLeg, From
<1>5. /\ k.post = Append(s.post, x) /\ k.postSeq = s.postSeq /\ k.state = s.state
      /\ k.lastPostSeq = s.lastPostSeq /\ k.milestones = s.milestones
  BY <1>1 DEF SessionFields
<1>6. /\ t.state = s.state /\ t.lastPostSeq = s.lastPostSeq /\ t.milestones = s.milestones
      /\ t.templates = s.templates
  BY DEF Same, SessionFields
<1>7. /\ x.type \in DOMAIN StageOf /\ StageOf[x.type] = "ADAPTOR_NEGOTIATING"
      /\ y.type \in DOMAIN StageOf /\ StageOf[y.type] = "ADAPTOR_NEGOTIATING"
  BY DEF StageOf
<1>. HIDE DEF k
<1>8. StateInv(r, k) /\ NumberInv(r, k) /\ LogInv(k) /\ Adds(s, k, {x}) /\ Earned(r, s, k)
  <2>1. /\ x.from = Other(r) /\ k.postSeq = s.postSeq /\ x.seq \in Nat
        /\ x.seq <= s.lastPostSeq /\ s.state = StageOf[x.type]
        /\ Same(s, k, {"state", "milestones", "lastPostSeq"})
    BY <1>1, <1>5, <1>7 DEF Same
  <2>. HIDE DEF Answers
  <2>. QED  BY <1>1, <1>3, <1>4, <1>5, <1>7, <2>1, Recorded
<1>9. StateInv(r, t) /\ NumberInv(r, t) /\ LogInv(t) /\ Adds(k, t, {y})
  <2>1. /\ y.from = r /\ y.seq = k.postSeq /\ t.postSeq = k.postSeq + 1
        /\ k.state = StageOf[y.type] /\ y.type \in DOMAIN StageOf
        /\ t.post = Append(k.post, y) /\ Same(k, t, {"state", "milestones", "lastPostSeq"})
    BY <1>5, <1>6, <1>7 DEF Same
  <2>. QED  BY <1>3, <1>8, <2>1, Recorded
<1>10. Adds(s, t, X)
  BY <1>8, <1>9 DEF Adds
<1>11. Earned(r, s, t)
  BY <1>6, SameMilestones
<1>12. /\ FromLeg(t, "adaptor_start", "alice", l) = FromLeg(s, "adaptor_start", "alice", l)
       /\ FromLeg(t, "adaptor_resp", "bob", l) = {x}
       /\ FromLeg(t, "adaptor_ack", "alice", l) = {y}
  <2>1. Range(t.post) = Range(s.post) \cup {x, y}
    BY <1>10 DEF Adds
  <2>2. x.body.which = l /\ y.body.which = l
    OBVIOUS
  <2>. QED  BY <1>2, <1>3, <2>1, <2>2 DEF From, FromLeg
<1>13. LegInv(r, t, l)
  <2>1. /\ DOMAIN t.legs[l] = {"T", "adaptorSig", "acked"} /\ t.legs[l].acked \in BOOLEAN
        /\ t.legs[l].T = x.body.T /\ t.legs[l].adaptorSig = x.body.sig
    OBVIOUS
  <2>2. Signed(r, t, l, x.body.sig)
    BY <2>1 DEF Signed
  <2>3. \A z \in FromLeg(t, "adaptor_start", "alice", l) :
            /\ z.body = [which |-> l, digests |-> t.templates, T |-> t.legs[l].T]
            /\ t.legs[l].T # None
    BY <1>1, <1>2, <1>6, <1>12, <2>1 DEF LegInv
  <2>4. AtMostOne(FromLeg(t, "adaptor_start", "alice", l))
    BY <1>1, <1>12 DEF LegInv
  <2>5. /\ AtMostOne(FromLeg(t, "adaptor_resp", "bob", l))
        /\ AtMostOne(FromLeg(t, "adaptor_ack", "alice", l))
    BY <1>12 DEF AtMostOne
  <2>6. \A z \in FromLeg(t, "adaptor_resp", "bob", l) :
            /\ z.body = [which |-> l, digests |-> t.templates, T |-> t.legs[l].T,
                         sig |-> z.body.sig]
            /\ t.legs[l].T # None /\ t.legs[l].adaptorSig # None
            /\ Signed(r, t, l, z.body.sig)
    BY <1>6, <1>12, <2>1, <2>2
  <2>7. \A z \in FromLeg(t, "adaptor_ack", "alice", l) :
            /\ z.body = [which |-> l, digests |-> t.templates, T |-> t.legs[l].T]
            /\ t.legs[l].T # None /\ t.legs[l].adaptorSig # None
    BY <1>6, <1>12, <2>1
  <2>. QED  BY <1>1, <1>12, <2>1, <2>3, <2>4, <2>5, <2>6, <2>7 DEF LegInv
<1>14. AdaptorInv(r, t)
  <2>1. \A z \in X : /\ z.type \in {"adaptor_start", "adaptor_resp", "adaptor_ack"}
                     /\ z.from \in Roles /\ z.body.which = l
                     /\ z.type = "adaptor_resp" <=> z.from = "bob"
    BY DEF Roles
  <2>2. LegDone(r, t.legs[l])
    BY DEF LegDone
  <2>. HIDE DEF X
  <2>. QED  BY <1>1, <1>6, <1>10, <1>11, <1>13, <2>1, <2>2, LegsCarried
<1>15. Carried(r, s, t, X, c)
  BY <1>9, <1>10, <1>11 DEF Carried, LocalInv
<1>16. Within(s, t, X, {"legs"}, {"adaptor_start", "adaptor_resp", "adaptor_ack"})
  BY DEF Within, Same, SessionFields, Bookkeeping
<1>. QED  BY <1>14, <1>15, <1>16, PhaseKeeps

LEMMA TxSent ==
    ASSUME NEW r \in Roles, NEW s, NEW t, NEW x, NEW c, LocalInv(r, s, c),
           Issued(r, s, t, x, {}),
           \/ r = "alice" /\ x.type = "txB_broadcast"
           \/ r = "bob" /\ x.type = "txA_broadcast",
           x.body = [txHash |-> x.body.txHash], x.body.txHash \in TxHashes,
           (IF r = "alice" THEN "announceTxBHash" ELSE "announceTxAHash") \in c,
           From(s, x.type, r) = {}
    PROVE  LocalInv(r, t, c)
<1>1. BroadcastInv(r, s, c) /\ x.from = r
  BY DEF LocalInv, CoreInv, Issued
<1>2. {} \cap Bookkeeping = {}
  OBVIOUS
<1>3. /\ Carried(r, s, t, {x}, c) /\ Same(s, t, SessionFields \ (Bookkeeping \cup {}))
  BY <1>2, SentCarried
<1>4. /\ Within(s, t, {x}, {"peerTxBHash", "peerTxAHash"},
                {"txB_broadcast", "txA_broadcast"})
      /\ t.peerTxBHash = s.peerTxBHash /\ t.peerTxAHash = s.peerTxAHash
  BY <1>3 DEF Same, Within, SessionFields, Bookkeeping
<1>5. Range(t.post) = Range(s.post) \cup {x}
  BY <1>3 DEF Carried, Adds
<1>6. \A type, q : From(s, type, q) \subseteq From(t, type, q)
  BY <1>5 DEF From
<1>a. /\ AtMostOne(From(t, "txB_broadcast", r))
      /\ AtMostOne(From(t, "txA_broadcast", r))
  <2>1. \A type : type # x.type => From(t, type, r) = From(s, type, r)
    BY <1>5 DEF From
  <2>2. From(t, x.type, r) \subseteq {x}
    BY <1>5 DEF From
  <2>. QED  BY <1>1, <2>1, <2>2 DEF BroadcastInv, AtMostOne
<1>7. BroadcastInv(r, t, c)
  BY <1>1, <1>4, <1>5, <1>6, <1>a DEF BroadcastInv
<1>. QED  BY <1>3, <1>4, <1>7, PhaseKeeps DEF LocalInv

LEMMA TxBNoted ==
    ASSUME NEW r \in Roles, NEW s, NEW t, NEW x, NEW c, LocalInv(r, s, c),
           Noted(r, s, t, x, {"peerTxBHash"}), x.type = "txB_broadcast", r = "bob",
           s.peerTxBHash = None, x.body = [txHash |-> x.body.txHash],
           x.body.txHash \in TxHashes, t.peerTxBHash = x.body.txHash
    PROVE  LocalInv(r, t, c)
<1>1. BroadcastInv(r, s, c) /\ x.from = "alice" /\ None \notin TxHashes
  BY SessionAssumption DEF LocalInv, CoreInv, Noted, Other
<1>2. \A y \in Range(s.post) : y.type # "txB_broadcast"
  BY <1>1 DEF BroadcastInv
<1>3. x \notin Range(s.post) /\ {"peerTxBHash"} \cap Bookkeeping = {}
  BY <1>2 DEF Bookkeeping
<1>4. /\ Carried(r, s, t, {x}, c)
      /\ Same(s, t, SessionFields \ (Bookkeeping \cup {"peerTxBHash"}))
  BY <1>3, NotedCarried
<1>5. /\ Within(s, t, {x}, {"peerTxBHash", "peerTxAHash"},
                {"txB_broadcast", "txA_broadcast"})
      /\ t.peerTxAHash = s.peerTxAHash
  BY <1>4 DEF Same, Within, SessionFields, Bookkeeping
<1>6. Range(t.post) = Range(s.post) \cup {x} /\ ~Refusal(x)
  BY <1>4 DEF Carried, Adds, Noted
<1>7. From(t, "txB_broadcast", "alice") # {}
  BY <1>1, <1>6 DEF From
<1>8. \A y \in Range(t.post) :
          /\ y.type = "txB_broadcast" => y = x
          /\ y.type = "txA_broadcast" => y \in Range(s.post)
  BY <1>2, <1>6
<1>a. \A type : From(t, type, r) = From(s, type, r)
  BY <1>1, <1>6 DEF From
<1>9. BroadcastInv(r, t, c)
  BY <1>1, <1>5, <1>7, <1>8, <1>a DEF BroadcastInv
<1>. QED  BY <1>4, <1>5, <1>9, PhaseKeeps DEF LocalInv

LEMMA TxANoted ==
    ASSUME NEW r \in Roles, NEW s, NEW t, NEW x, NEW c, LocalInv(r, s, c),
           Noted(r, s, t, x, {"peerTxAHash"}), x.type = "txA_broadcast", r = "alice",
           s.peerTxAHash = None, x.body = [txHash |-> x.body.txHash],
           x.body.txHash \in TxHashes, t.peerTxAHash = x.body.txHash
    PROVE  LocalInv(r, t, c)
<1>1. BroadcastInv(r, s, c) /\ x.from = "bob" /\ None \notin TxHashes
  BY SessionAssumption DEF LocalInv, CoreInv, Noted, Other
<1>2. \A y \in Range(s.post) : y.type # "txA_broadcast"
  BY <1>1 DEF BroadcastInv
<1>3. x \notin Range(s.post) /\ {"peerTxAHash"} \cap Bookkeeping = {}
  BY <1>2 DEF Bookkeeping
<1>4. /\ Carried(r, s, t, {x}, c)
      /\ Same(s, t, SessionFields \ (Bookkeeping \cup {"peerTxAHash"}))
  BY <1>3, NotedCarried
<1>5. /\ Within(s, t, {x}, {"peerTxBHash", "peerTxAHash"},
                {"txB_broadcast", "txA_broadcast"})
      /\ t.peerTxBHash = s.peerTxBHash
  BY <1>4 DEF Same, Within, SessionFields, Bookkeeping
<1>6. Range(t.post) = Range(s.post) \cup {x} /\ ~Refusal(x)
  BY <1>4 DEF Carried, Adds, Noted
<1>7. From(t, "txA_broadcast", "bob") # {}
  BY <1>1, <1>6 DEF From
<1>8. \A y \in Range(t.post) :
          /\ y.type = "txA_broadcast" => y = x
          /\ y.type = "txB_broadcast" => y \in Range(s.post)
  BY <1>2, <1>6
<1>a. \A type : From(t, type, r) = From(s, type, r)
  BY <1>1, <1>6 DEF From
<1>9. BroadcastInv(r, t, c)
  BY <1>1, <1>5, <1>7, <1>8, <1>a DEF BroadcastInv
<1>. QED  BY <1>4, <1>5, <1>9, PhaseKeeps DEF LocalInv

-----------------------------------------------------------------------------
(* Passing a milestone *)

\* From s to t: the milestone is passed on the way to the next state.
Advances(s, t, event) ==
    /\ DOMAIN t = SessionFields
    /\ Same(s, t, SessionFields \ {"state", "milestones"})
    /\ Reaches(event, s.state, t.state)
    /\ t.milestones = [s.milestones EXCEPT ![event] = s.post]

\* What a party waits for has come; EXEC_READY has a lemma of its own.
Ready(r, s, event) == event # "EXEC_READY" /\ Met(r, s, event)

LEMMA Advanced ==
    ASSUME NEW r \in Roles, NEW s, NEW t, NEW c, NEW event, CoreInv(r, s, c),
           Advances(s, t, event), Ready(r, s, event)
    PROVE  CoreInv(r, t, c) /\ (PlanInv(r, s) \/ event = "EXECUTION_PLANNED" => PlanInv(r, t))
<1>1. Same(s, t, {"post", "postSeq", "lastPostSeq"})
  BY DEF Advances, Same, SessionFields
<1>2. /\ StateInv(r, t) /\ NumberInv(r, t) /\ LogInv(t) /\ Adds(s, t, {})
      /\ Passed(t, event)
      /\ \A e \in Milestones \ {event} : Passed(t, e) <=> Passed(s, e)
  BY <1>1, Reaching DEF Advances, CoreInv
<1>3. Earned(r, s, t)
  BY <1>2, MilestoneSet DEF Earned, Ready, Met
<1>4. Carried(r, s, t, {}, c)
  BY <1>2, <1>3 DEF Carried, Advances
<1>5. /\ Same(s, t, SessionFields \ Bookkeeping)
      /\ \A types : Spares({}, types)
  BY DEF Advances, Same, Bookkeeping, Spares
<1>6. /\ t.peerMpc = s.peerMpc /\ Same(s, t, {"capsuleReceived", "capsuleAcked"})
      /\ Same(s, t, {"fundingTx", "fundingConfirmed"})
      /\ Same(s, t, {"localNonces", "peerNonces", "feeParams", "feeAcked", "templates"})
      /\ Same(s, t, {"templates", "peerCommitHash", "localCommitAcked"})
      /\ Same(s, t, {"legs", "templates"}) /\ Same(s, t, {"legs"})
      /\ Same(s, t, {"peerTxBHash", "peerTxAHash"})
  BY <1>5 DEF Same, SessionFields, Bookkeeping
<1>7. CoreInv(r, t, c)
  BY <1>2, <1>3, <1>5, <1>6, Untouched DEF CoreInv, Advances
<1>8. PlanInv(r, s) => PlanInv(r, t)
  BY <1>2, <1>3, <1>6, Untouched
<1>9. event = "EXECUTION_PLANNED" => PlanInv(r, t)
  BY <1>2 DEF PlanInv
<1>. QED  BY <1>7, <1>8, <1>9

\* EXEC_READY also fixes the templates; nothing has been said of them yet.
LEMMA ExecAdvanced ==
    ASSUME NEW r \in Roles, NEW s, NEW t, NEW c, LocalInv(r, s, c),
           DOMAIN t = SessionFields,
           Same(s, t, SessionFields \ {"state", "milestones", "templates"}),
           s.state = "EXEC_PREP", t.state = "EXEC_TEMPLATES_SYNC",
           t.milestones = [s.milestones EXCEPT !["EXEC_READY"] = s.post],
           t.templates = TemplatesOf(r, s), TemplatesOf(r, s) \in Digests,
           s.localNonces # None, s.localNonces = s.peerNonces, s.feeParams # None, s.feeAcked
    PROVE  LocalInv(r, t, c) /\ \A q : From(t, "tx_template_commit", q) = {}
<1>. USE OtherRole
<1>1. /\ StateInv(r, s) /\ NumberInv(r, s) /\ LogInv(s) /\ KeygenInv(r, s)
      /\ TemplateInv(r, s) /\ AdaptorInv(r, s) /\ PrepInv(r, s, c)
  BY DEF LocalInv, CoreInv
<1>2. \A f \in SessionFields \ {"state", "milestones", "templates"} : t[f] = s[f]
  BY DEF Same
<1>3. /\ StateInv(r, t) /\ NumberInv(r, t) /\ LogInv(t) /\ Adds(s, t, {})
      /\ Passed(t, "EXEC_READY")
      /\ \A e \in Milestones \ {"EXEC_READY"} : Passed(t, e) <=> Passed(s, e)
  <2>1. Same(s, t, {"post", "postSeq", "lastPostSeq"})
    BY <1>2 DEF Same, SessionFields
  <2>2. Reaches("EXEC_READY", s.state, t.state)
    BY DEF Reaches
  <2>. QED  BY <1>1, <2>1, <2>2, Reaching
<1>4. ~Passed(s, "EXEC_READY") /\ ~Passed(s, "EXEC_TEMPLATES_READY")
  BY <1>1 DEF StateInv
<1>5. \A q : /\ From(s, "tx_template_commit", q) = {} /\ From(s, "tx_template_ack", q) = {}
             /\ From(s, "adaptor_start", q) = {} /\ From(s, "adaptor_resp", q) = {}
             /\ From(s, "adaptor_ack", q) = {}
  <2>1. /\ OpenedBy["tx_template_commit"] = "EXEC_READY"
        /\ OpenedBy["tx_template_ack"] = "EXEC_READY"
        /\ OpenedBy["adaptor_start"] = "EXEC_TEMPLATES_READY"
        /\ OpenedBy["adaptor_resp"] = "EXEC_TEMPLATES_READY"
        /\ OpenedBy["adaptor_ack"] = "EXEC_TEMPLATES_READY"
    BY DEF OpenedBy
  <2>. QED  BY <1>1, <1>4, <2>1 DEF LogInv, From
<1>6. \A type, q : From(t, type, q) = From(s, type, q)
  BY <1>3 DEF Adds, From
<1>7. /\ \A e \in {"KEYGEN_COMPLETE", "CAPSULES_VERIFIED", "FUNDED", "EXEC_TEMPLATES_READY",
                   "EXECUTION_PLANNED"} : Passed(t, e) <=> Passed(s, e)
      /\ ~Passed(t, "EXEC_TEMPLATES_READY") /\ ~Passed(t, "EXECUTION_PLANNED")
  BY <1>1, <1>3, <1>4, MilestoneSet DEF StateInv
<1>8. /\ t.peerMpc = s.peerMpc
      /\ t.capsuleReceived = s.capsuleReceived /\ t.capsuleAcked = s.capsuleAcked
      /\ t.fundingTx = s.fundingTx /\ t.fundingConfirmed = s.fundingConfirmed
      /\ t.localNonces = s.localNonces /\ t.peerNonces = s.peerNonces
      /\ t.feeParams = s.feeParams /\ t.feeAcked = s.feeAcked
      /\ t.peerCommitHash = s.peerCommitHash /\ t.localCommitAcked = s.localCommitAcked
      /\ t.legs = s.legs /\ t.post = s.post
      /\ t.peerTxBHash = s.peerTxBHash /\ t.peerTxAHash = s.peerTxAHash
  BY <1>2 DEF SessionFields
<1>9. KeygenInv(r, t)
  BY <1>6, <1>7, <1>8 DEF LocalInv, CoreInv, KeygenInv
<1>10. CapsuleInv(r, t)
  <2>1. \A type \in {"capsule_offer", "capsule_ack"} : \A q :
            From(t, type, q) = From(s, type, q)
    BY <1>6
  <2>2. Passed(t, "CAPSULES_VERIFIED") => Passed(s, "CAPSULES_VERIFIED")
    BY <1>7
  <2>3. CapsuleInv(r, s)
    BY DEF LocalInv, CoreInv
  <2>4. t.capsuleReceived = s.capsuleReceived /\ t.capsuleAcked = s.capsuleAcked
    BY <1>8
  <2>. QED  BY <2>1, <2>2, <2>3, <2>4 DEF CapsuleInv
<1>11. FundingInv(r, t, c)
  BY <1>6, <1>7, <1>8 DEF LocalInv, CoreInv, FundingInv
<1>12. PrepInv(r, t, c)
  BY <1>1, <1>6, <1>8 DEF PrepInv, TemplatesOf
<1>13. TemplateInv(r, t)
  BY <1>1, <1>5, <1>6, <1>7, <1>8 DEF TemplateInv, AtMostOne
<1>14. AdaptorInv(r, t)
  <2>1. \A leg \in Legs : LegInv(r, s, leg)
    BY <1>1 DEF AdaptorInv
  <2>2. \A type \in {"adaptor_start", "adaptor_resp", "adaptor_ack"} : \A q, leg :
            FromLeg(t, type, q, leg) = {} /\ FromLeg(s, type, q, leg) = {}
    BY <1>5, <1>6 DEF FromLeg
  <2>3. ASSUME NEW leg \in Legs
        PROVE  LegInv(r, t, leg)
    <3>1. t.legs[leg] = s.legs[leg] /\ LegInv(r, s, leg)
      BY <1>8, <2>1
    <3>2. /\ FromLeg(t, "adaptor_start", "alice", leg) = {}
          /\ FromLeg(t, "adaptor_resp", "bob", leg) = {}
          /\ FromLeg(t, "adaptor_ack", "alice", leg) = {}
          /\ FromLeg(s, "adaptor_start", "alice", leg) = {}
          /\ FromLeg(s, "adaptor_resp", "bob", leg) = {}
          /\ FromLeg(s, "adaptor_ack", "alice", leg) = {}
      BY <2>2
    <3>. QED  BY <3>1, <3>2 DEF LegInv, AtMostOne
  <2>. QED  BY <1>1, <1>7, <1>8, <2>3 DEF AdaptorInv
<1>15. BroadcastInv(r, t, c)
  BY <1>6, <1>8 DEF LocalInv, CoreInv, BroadcastInv
<1>16. PlanInv(r, t)
  BY <1>7, <1>8 DEF LocalInv, PlanInv
<1>. QED  BY <1>3, <1>5, <1>6, <1>9, <1>10, <1>11, <1>12, <1>13, <1>14, <1>15, <1>16
          DEF LocalInv, CoreInv

-----------------------------------------------------------------------------
(* What no handler touches *)

\* A session is a record of its fields.
Filled(s) == s = [f \in SessionFields |-> s[f]]

\* The work w, begun at s, is a filled session with the confirmations of s and a
\* sequence of messages.
Framed(s, w) ==
    /\ {"s", "out"} \subseteq DOMAIN w /\ w.out \in Seq(Range(w.out))
    /\ Filled(w.s) /\ w.s.fundingConfirmed = s.fundingConfirmed

\* Up to here it has neither passed a milestone nor left its state.
Steady(s, w) ==
    /\ Framed(s, w)
    /\ w.s.milestones = s.milestones /\ w.s.state = s.state

\* The state that each milestone ends.
ClosedBy ==
    [KEYGEN_COMPLETE      |-> "KEYGEN",
     CAPSULES_VERIFIED    |-> "CAPSULES_EXCHANGE",
     FUNDED               |-> "FUNDING",
     EXEC_READY           |-> "EXEC_PREP",
     EXEC_TEMPLATES_READY |-> "EXEC_TEMPLATES_SYNC",
     EXECUTION_PLANNED    |-> "ADAPTOR_NEGOTIATING"]

\* From s to t a session passes no milestone, or the one that ends its state, and
\* then it does not abort; an aborted one stays aborted.
Progress(s, t) ==
    /\ s.state = "ABORTED" => t.state = "ABORTED"
    /\ \/ t.milestones = s.milestones
       \/ /\ t.state # "ABORTED"
          /\ \E event \in Milestones :
                /\ s.state = ClosedBy[event]
                /\ t.milestones = [s.milestones EXCEPT ![event] = t.milestones[event]]

Final(s, w) == Framed(s, w) /\ Progress(s, w.s)

LEMMA SteadyBegin ==
    ASSUME NEW s, Filled(s)
    PROVE  Steady(s, Work(s))
BY EmptySeq DEF Steady, Framed, Work, Range

LEMMA SteadyFinal ==
    ASSUME NEW s, NEW w, Steady(s, w)
    PROVE  Final(s, w)
BY DEF Steady, Final, Progress

LEMMA FramedStatements ==
    ASSUME NEW s, NEW w, Framed(s, w)
    PROVE  /\ \A m : Framed(s, Note(w, m))
           /\ \A r, type, body : Framed(s, Send(r, w, type, body))
           /\ \A r, code : Framed(s, EmitAbort(r, w, code))
           /\ \A state : Framed(s, Enter(w, state))
           /\ \A event : Framed(s, Reach(w, event))
<1>1. ASSUME NEW m PROVE Framed(s, Note(w, m))
  BY DEF Note, Framed, Filled, SessionFields
<1>2. ASSUME NEW v, {"s", "out"} \subseteq DOMAIN v, Filled(v.s),
             v.s.fundingConfirmed = s.fundingConfirmed,
             NEW m, v.out = Append(w.out, m)
      PROVE  Framed(s, v)
  BY <1>2, RangeAppend DEF Framed
<1>3. ASSUME NEW r, NEW type, NEW body PROVE Framed(s, Send(r, w, type, body))
  <2>. DEFINE m == Message(r, w.s.postSeq, hs[r].sid, type, body)
              v == Send(r, w, type, body)
  <2>1. /\ {"s", "out"} \subseteq DOMAIN v /\ v.out = Append(w.out, m)
        /\ Filled(v.s) /\ v.s.fundingConfirmed = s.fundingConfirmed
    BY DEF Send, Note, Framed, Filled, SessionFields
  <2>. HIDE DEF v, m
  <2>2. Framed(s, v)
    BY <1>2, <2>1
  <2>. QED  BY <2>2 DEF v
<1>4. ASSUME NEW r, NEW code PROVE Framed(s, EmitAbort(r, w, code))
  <2>. DEFINE m == Message(r, w.s.postSeq, hs[r].sid, "abort", [code |-> code])
              v == EmitAbort(r, w, code)
  <2>1. /\ {"s", "out"} \subseteq DOMAIN v /\ v.out = Append(w.out, m)
        /\ Filled(v.s) /\ v.s.fundingConfirmed = s.fundingConfirmed
    BY DEF EmitAbort, Framed, Filled, SessionFields
  <2>. HIDE DEF v, m
  <2>2. Framed(s, v)
    BY <1>2, <2>1
  <2>. QED  BY <2>2 DEF v
<1>5. ASSUME NEW state PROVE Framed(s, Enter(w, state))
  BY DEF Enter, Framed, Filled, SessionFields
<1>6. ASSUME NEW event PROVE Framed(s, Reach(w, event))
  BY DEF Reach, Framed, Filled, SessionFields
<1>. QED  BY <1>1, <1>3, <1>4, <1>5, <1>6

LEMMA SteadyStatements ==
    ASSUME NEW s, NEW w, Steady(s, w)
    PROVE  /\ \A m : Steady(s, Note(w, m))
           /\ \A r, type, body : Steady(s, Send(r, w, type, body))
           /\ \A r, code : Final(s, EmitAbort(r, w, code))
           /\ Final(s, Enter(w, "ABORTED"))
<1>. Framed(s, w) /\ Filled(w.s) /\ "s" \in DOMAIN w
  BY DEF Steady, Framed
<1>1. ASSUME NEW m PROVE Steady(s, Note(w, m))
  <2>1. Framed(s, Note(w, m))
    BY FramedStatements
  <2>2. /\ Note(w, m).s.milestones = w.s.milestones
        /\ Note(w, m).s.state = w.s.state
    BY DEF Note, Filled, SessionFields
  <2>. QED  BY <2>1, <2>2 DEF Steady
<1>2. ASSUME NEW r, NEW type, NEW body PROVE Steady(s, Send(r, w, type, body))
  <2>1. Framed(s, Send(r, w, type, body))
    BY FramedStatements
  <2>2. /\ Send(r, w, type, body).s.milestones = w.s.milestones
        /\ Send(r, w, type, body).s.state = w.s.state
    BY DEF Send, Note, Filled, SessionFields
  <2>. QED  BY <2>1, <2>2 DEF Steady
<1>3. ASSUME NEW r, NEW code PROVE Final(s, EmitAbort(r, w, code))
  <2>1. Framed(s, EmitAbort(r, w, code))
    BY FramedStatements
  <2>2. /\ EmitAbort(r, w, code).s.milestones = w.s.milestones
        /\ EmitAbort(r, w, code).s.state = "ABORTED"
    BY DEF EmitAbort, Filled, SessionFields
  <2>. QED  BY <2>1, <2>2 DEF Steady, Final, Progress
<1>4. Final(s, Enter(w, "ABORTED"))
  <2>1. Framed(s, Enter(w, "ABORTED"))
    BY FramedStatements
  <2>2. /\ Enter(w, "ABORTED").s.milestones = w.s.milestones
        /\ Enter(w, "ABORTED").s.state = "ABORTED"
    BY DEF Enter, Filled, SessionFields
  <2>. QED  BY <2>1, <2>2 DEF Steady, Final, Progress
<1>. QED  BY <1>1, <1>2, <1>3, <1>4

LEMMA SteadyFields ==
    ASSUME NEW s, NEW w, Steady(s, w), NEW v
    PROVE  /\ Steady(s, [w EXCEPT !.s.peerMpc = v])
           /\ Steady(s, [w EXCEPT !.s.capsuleReceived = v])
           /\ Steady(s, [w EXCEPT !.s.capsuleAcked = v])
           /\ Steady(s, [w EXCEPT !.s.localNonces = v])
           /\ Steady(s, [w EXCEPT !.s.peerNonces = v])
           /\ Steady(s, [w EXCEPT !.s.feeParams = v])
           /\ Steady(s, [w EXCEPT !.s.feeAcked = v])
           /\ Steady(s, [w EXCEPT !.s.templates = v])
           /\ Steady(s, [w EXCEPT !.s.peerCommitHash = v])
           /\ Steady(s, [w EXCEPT !.s.localCommitAcked = v])
           /\ Steady(s, [w EXCEPT !.s.peerTxBHash = v])
           /\ Steady(s, [w EXCEPT !.s.peerTxAHash = v])
<1>1. ASSUME NEW t, t \in {[w.s EXCEPT !.peerMpc = v],
                           [w.s EXCEPT !.capsuleReceived = v],
                           [w.s EXCEPT !.capsuleAcked = v],
                           [w.s EXCEPT !.localNonces = v],
                           [w.s EXCEPT !.peerNonces = v],
                           [w.s EXCEPT !.feeParams = v],
                           [w.s EXCEPT !.feeAcked = v],
                           [w.s EXCEPT !.templates = v],
                           [w.s EXCEPT !.peerCommitHash = v],
                           [w.s EXCEPT !.localCommitAcked = v],
                           [w.s EXCEPT !.peerTxBHash = v],
                           [w.s EXCEPT !.peerTxAHash = v]}
      PROVE  Steady(s, [w EXCEPT !.s = t])
  <2>1. /\ Filled(t) /\ t.fundingConfirmed = s.fundingConfirmed
        /\ t.milestones = s.milestones /\ t.state = s.state
    BY <1>1 DEF Steady, Framed, Filled, SessionFields
  <2>. QED  BY <2>1 DEF Steady, Framed
<1>. QED  BY <1>1

LEMMA SteadyParts ==
    ASSUME NEW s, NEW w, Steady(s, w), NEW v
    PROVE  /\ \A q : Steady(s, [w EXCEPT !.s.fundingTx[q] = v])
           /\ \A leg : Steady(s, [w EXCEPT !.s.legs[leg].T = v])
           /\ \A leg : Steady(s, [w EXCEPT !.s.legs[leg].acked = v])
           /\ \A leg, u : Steady(s, [w EXCEPT !.s.legs[leg].T = v,
                                              !.s.legs[leg].adaptorSig = u])
<1>1. ASSUME NEW q PROVE Steady(s, [w EXCEPT !.s.fundingTx[q] = v])
  BY DEF Steady, Framed, Filled, SessionFields
<1>2. ASSUME NEW leg PROVE Steady(s, [w EXCEPT !.s.legs[leg].T = v])
  BY DEF Steady, Framed, Filled, SessionFields
<1>3. ASSUME NEW leg PROVE Steady(s, [w EXCEPT !.s.legs[leg].acked = v])
  BY DEF Steady, Framed, Filled, SessionFields
<1>4. ASSUME NEW leg, NEW u
      PROVE  Steady(s, [w EXCEPT !.s.legs[leg].T = v, !.s.legs[leg].adaptorSig = u])
  <2>1. ASSUME NEW k, Steady(s, k)
        PROVE  Steady(s, [k EXCEPT !.s.legs[leg].adaptorSig = u])
    BY <2>1 DEF Steady, Framed, Filled, SessionFields
  <2>2. Steady(s, [[w EXCEPT !.s.legs[leg].T = v] EXCEPT !.s.legs[leg].adaptorSig = u])
    BY <1>2, <2>1
  <2>. QED  BY <2>2
<1>. QED  BY <1>1, <1>2, <1>3, <1>4

\* Passing the milestone that ends the state, and then sending messages.
LEMMA Marks ==
    ASSUME NEW s, NEW w, Steady(s, w), NEW event \in Milestones,
           s.state = ClosedBy[event], NEW next, next # "ABORTED",
           NEW v, v = Enter(Reach(w, event), next)
    PROVE  /\ Final(s, v) /\ v.s.state = next
           /\ v.s.milestones = [s.milestones EXCEPT ![event] = v.s.milestones[event]]
<1>1. Framed(s, v)
  BY FramedStatements DEF Steady
<1>2. v.s.state = next /\ v.s.milestones = [s.milestones EXCEPT ![event] = w.s.post]
  BY DEF Steady, Framed, Enter, Reach, Filled, SessionFields
<1>3. v.s.milestones = [s.milestones EXCEPT ![event] = v.s.milestones[event]]
  BY <1>2
<1>4. s.state # "ABORTED"
  BY MilestoneSet DEF ClosedBy
<1>. QED  BY <1>1, <1>2, <1>3, <1>4 DEF Final, Progress

LEMMA FinalSends ==
    ASSUME NEW s, NEW w, Final(s, w), NEW r, NEW type, NEW body
    PROVE  Final(s, Send(r, w, type, body))
<1>1. Framed(s, w) /\ Filled(w.s) /\ "s" \in DOMAIN w
  BY DEF Final, Framed
<1>2. Framed(s, Send(r, w, type, body))
  BY <1>1, FramedStatements
<1>3. /\ Send(r, w, type, body).s.milestones = w.s.milestones
      /\ Send(r, w, type, body).s.state = w.s.state
  BY <1>1 DEF Send, Note, Filled, SessionFields
<1>. QED  BY <1>2, <1>3 DEF Final, Progress

LEMMA FinalOpens ==
    ASSUME NEW s, NEW w, Final(s, w), NEW r, NEW leg
    PROVE  Final(s, StartLeg(r, w, leg))
<1>. DEFINE T == AdaptorT(leg, w.s.templates)
            k == [w EXCEPT !.s.legs[leg].T = T]
<1>1. Framed(s, k) /\ k.s.milestones = w.s.milestones /\ k.s.state = w.s.state
  BY DEF Final, Framed, Filled, SessionFields
<1>. HIDE DEF k, T
<1>2. Final(s, k)
  BY <1>1 DEF Final, Progress
<1>3. Final(s, Send(r, k, "adaptor_start",
                    [which |-> leg, digests |-> w.s.templates, T |-> T]))
  BY <1>2, FinalSends
<1>. QED  BY <1>3 DEF StartLeg, k, T

\* The check... functions, each in the state that calls it.
LEMMA SteadyChecks ==
    ASSUME NEW s, NEW w, Steady(s, w)
    PROVE  /\ s.state = "KEYGEN" => \A r : Final(s, CheckKeygenComplete(r, w))
           /\ s.state = "CAPSULES_EXCHANGE" => Final(s, CheckCapsulesVerified(w))
           /\ s.state = "FUNDING" => Final(s, CheckFundingComplete(w))
           /\ s.state = "EXEC_PREP" => \A r : Final(s, CheckExecReady(r, w))
           /\ s.state = "EXEC_TEMPLATES_SYNC" => \A r : Final(s, CheckTemplatesReady(r, w))
           /\ s.state = "ADAPTOR_NEGOTIATING" => Final(s, Planned(w))
<1>0. Final(s, w)
  BY SteadyFinal
<1>1. ASSUME s.state = "KEYGEN", NEW r PROVE Final(s, CheckKeygenComplete(r, w))
  <2>1. Final(s, Enter(Reach(w, "KEYGEN_COMPLETE"), "CAPSULES_EXCHANGE"))
    BY <1>1, Marks, MilestoneSet DEF ClosedBy
  <2>. QED  BY <2>1, FinalSends DEF CheckKeygenComplete
<1>2. ASSUME s.state = "CAPSULES_EXCHANGE" PROVE Final(s, CheckCapsulesVerified(w))
  <2>1. Final(s, Enter(Reach(w, "CAPSULES_VERIFIED"), "FUNDING"))
    BY <1>2, Marks, MilestoneSet DEF ClosedBy
  <2>. QED  BY <1>0, <2>1 DEF CheckCapsulesVerified
<1>3. ASSUME s.state = "FUNDING" PROVE Final(s, CheckFundingComplete(w))
  <2>1. Final(s, Enter(Reach(w, "FUNDED"), "EXEC_PREP"))
    BY <1>3, Marks, MilestoneSet DEF ClosedBy
  <2>. QED  BY <1>0, <2>1 DEF CheckFundingComplete
<1>4. ASSUME s.state = "EXEC_PREP", NEW r PROVE Final(s, CheckExecReady(r, w))
  <2>. DEFINE digests == TemplatesOf(r, w.s)
              reached == Reach(w, "EXEC_READY")
              ready == [reached EXCEPT !.s.templates = digests]
              sent == Send(r, ready, "tx_template_commit", CommitBody(r, digests))
              end == Enter(sent, "EXEC_TEMPLATES_SYNC")
  <2>1. Framed(s, reached)
    BY FramedStatements DEF Steady
  <2>2. reached.s.milestones = [s.milestones EXCEPT !["EXEC_READY"] = w.s.post]
    BY DEF Steady, Framed, Reach, Filled, SessionFields
  <2>. HIDE DEF reached, digests
  <2>3. Framed(s, ready) /\ ready.s.milestones = reached.s.milestones
    BY <2>1 DEF Framed, Filled, SessionFields
  <2>. HIDE DEF ready
  <2>4. Framed(s, sent) /\ sent.s.milestones = ready.s.milestones
    <3>1. Filled(ready.s) /\ "s" \in DOMAIN ready
      BY <2>3 DEF Framed
    <3>. QED  BY <2>3, <3>1, FramedStatements DEF Send, Note, Filled, SessionFields
  <2>. HIDE DEF sent
  <2>5. /\ Framed(s, end) /\ end.s.milestones = sent.s.milestones
        /\ end.s.state = "EXEC_TEMPLATES_SYNC"
    <3>1. Filled(sent.s) /\ "s" \in DOMAIN sent
      BY <2>4 DEF Framed
    <3>. QED  BY <2>4, <3>1, FramedStatements DEF Enter, Filled, SessionFields
  <2>. HIDE DEF end
  <2>6. end.s.milestones = [s.milestones EXCEPT !["EXEC_READY"] = end.s.milestones["EXEC_READY"]]
    BY <2>2, <2>3, <2>4, <2>5
  <2>7. Final(s, end)
    BY <1>4, <2>5, <2>6, MilestoneSet DEF Final, Progress, ClosedBy
  <2>8. Final(s, EmitAbort(r, w, "PROTOCOL_ERROR"))
    BY SteadyStatements
  <2>. QED  BY <1>0, <2>7, <2>8 DEF CheckExecReady, end, sent, ready, reached, digests
<1>5. ASSUME s.state = "EXEC_TEMPLATES_SYNC", NEW r
      PROVE  Final(s, CheckTemplatesReady(r, w))
  <2>. DEFINE ready == Enter(Reach(w, "EXEC_TEMPLATES_READY"), "ADAPTOR_NEGOTIATING")
  <2>1. Final(s, ready)
    BY <1>5, Marks, MilestoneSet DEF ClosedBy
  <2>. HIDE DEF ready
  <2>2. Final(s, StartLeg(r, StartLeg(r, ready, "B"), "A"))
    BY <2>1, FinalOpens
  <2>. QED  BY <1>0, <2>1, <2>2 DEF CheckTemplatesReady, ready
<1>6. ASSUME s.state = "ADAPTOR_NEGOTIATING" PROVE Final(s, Planned(w))
  <2>1. Final(s, Enter(Reach(w, "EXECUTION_PLANNED"), "EXECUTION_PLANNED"))
    BY <1>6, Marks, MilestoneSet DEF ClosedBy
  <2>. QED  BY <2>1 DEF Planned
<1>. QED  BY <1>1, <1>2, <1>3, <1>4, <1>5, <1>6

LEMMA SteadyChoices ==
    ASSUME NEW s, NEW w, NEW v, Steady(s, w)
    PROVE  /\ Final(s, v) => \A r, a, b : Final(s, Keep(r, w, a, b, v))
           /\ \A r, state : (s.state = state => Final(s, v)) => Final(s, InState(r, state, w, v))
<1>1. /\ Final(s, w) /\ w.s.state = s.state
      /\ \A r, code : Final(s, EmitAbort(r, w, code))
  BY SteadyStatements, SteadyFinal DEF Steady
<1>. QED  BY <1>1 DEF Keep, InState

-----------------------------------------------------------------------------
(* One turn of a party *)

\* What holds before a step of r's session.
Standing(r) ==
    /\ DOMAIN ss = Roles /\ Filled(ss[r])
    /\ DOMAIN net = Roles /\ net[Other(r)] \in Seq(Range(net[Other(r)]))

\* Of the sessions only r's changes, which stays a record with its confirmations,
\* and what is on its way to the peer stays on its way.
Turned(r) ==
    /\ \A q \in Roles \ {r} : ss'[q] = ss[q]
    /\ Filled(ss'[r]) /\ ss'[r].fundingConfirmed = ss[r].fundingConfirmed
    /\ Len(net'[Other(r)]) >= Len(net[Other(r)])

\* And it has made the progress a handler can make.
Moved(r) == Progress(ss[r], ss'[r])

LEMMA NetGrows ==
    ASSUME NEW r \in Roles, DOMAIN net = Roles, net[Other(r)] \in Seq(Range(net[Other(r)])),
           NEW out, out \in Seq(Range(out)),
           Consume(r, out) \/ net' = [net EXCEPT ![Other(r)] = @ \o out]
    PROVE  Len(net'[Other(r)]) >= Len(net[Other(r)])
<1>. DEFINE t == net[Other(r)]
<1>1. Other(r) \in Roles /\ Other(r) # r
  BY OtherRole
<1>2. net'[Other(r)] = t \o out
  BY <1>1 DEF Consume
<1>3. Len(t \o out) = Len(t) + Len(out) /\ Len(t) \in Nat /\ Len(out) \in Nat
  <2>. HIDE DEF t
  <2>1. t \in Seq(Range(t))
    BY DEF t
  <2>2. t \in Seq(Range(t) \cup Range(out)) /\ out \in Seq(Range(t) \cup Range(out))
    BY <2>1, SeqMonotonic
  <2>. QED  BY <2>2, ConcatProperties, LenProperties
<1>. QED  BY <1>2, <1>3

LEMMA TurnSteady ==
    ASSUME NEW r \in Roles, Standing(r), NEW w, Framed(ss[r], w),
           Returns(r, w) \/ Emits(r, w)
    PROVE  Turned(r) /\ (Final(ss[r], w) => Moved(r))
<1>1. Len(net'[Other(r)]) >= Len(net[Other(r)])
  BY NetGrows DEF Standing, Framed, Returns, Emits
<1>2. \A q \in Roles \ {r} : ss'[q] = ss[q]
  BY DEF Standing, Returns, Emits
<1>3. ss'[r] = w.s
  BY DEF Standing, Returns, Emits
<1>. QED  BY <1>1, <1>2, <1>3 DEF Framed, Turned, Final, Moved

LEMMA TurnFinal ==
    ASSUME NEW r \in Roles, Standing(r), NEW w, Final(ss[r], w),
           Returns(r, w) \/ Emits(r, w)
    PROVE  Turned(r) /\ Moved(r)
BY TurnSteady DEF Final

LEMMA HeardSteady ==
    ASSUME NEW r, NEW m, Filled(ss[r])
    PROVE  Steady(ss[r], Heard(r, m))
<1>. DEFINE t == [ss[r] EXCEPT !.lastPostSeq = m.seq]
<1>1. /\ Filled(t) /\ t.fundingConfirmed = ss[r].fundingConfirmed
      /\ t.milestones = ss[r].milestones /\ t.state = ss[r].state
  BY DEF Filled, SessionFields
<1>. QED  BY <1>1, EmptySeq DEF Heard, Steady, Framed, Work, Range

LEMMA RestSteady ==
    ASSUME NEW r \in Roles, Standing(r),
           \/ RcvAborted(r) \/ RcvUnparsable(r) \/ RcvForeignSid(r)
           \/ RcvOutOfOrder(r) \/ RcvUnused(r)
    PROVE  Turned(r) /\ Moved(r)
<1>. DEFINE m == Head(net[r])
            w == Heard(r, m)
            v == Work(ss[r])
<1>1. Steady(ss[r], v) /\ Steady(ss[r], w)
  BY SteadyBegin, HeardSteady DEF Standing
<1>2. /\ \A code : Final(ss[r], EmitAbort(r, v, code))
      /\ \A code : Final(ss[r], EmitAbort(r, w, code))
  BY <1>1, SteadyStatements
<1>. HIDE DEF v, w
<1>3. \/ Returns(r, v) \/ Returns(r, w)
      \/ \E code : Returns(r, EmitAbort(r, v, code)) \/ Returns(r, EmitAbort(r, w, code))
  BY DEF RcvAborted, RcvUnparsable, RcvForeignSid, RcvOutOfOrder, RcvUnused, v, w
<1>. QED  BY <1>1, <1>2, <1>3, TurnFinal, SteadyFinal

\* Whatever the handshake returns is a sequence of messages.
LEMMA HandshakeGrows ==
    ASSUME NEW r \in Roles, Standing(r), HandleIncoming(r)
    PROVE  Len(net'[Other(r)]) >= Len(net[Other(r)])
<1>1. \A m : <<m>> \in Seq(Range(<<m>>)) /\ <<>> \in Seq(Range(<<>>))
  BY EmptySeq, RangeAppend DEF Range
<1>2. ASSUME NEW s, NEW code, NEW out, out \in Seq(Range(out)), AbortFrom(r, s, out, code)
      PROVE  Len(net'[Other(r)]) >= Len(net[Other(r)])
  <2>1. PICK m : Consume(r, Append(out, m))
    BY <1>2 DEF AbortFrom
  <2>2. Append(out, m) \in Seq(Range(Append(out, m)))
    BY <1>2, RangeAppend
  <2>. QED  BY <2>1, <2>2, NetGrows DEF Standing
<1>3. ASSUME NEW s, NEW out, out \in Seq(Range(out)), TryLock(r, s, out)
      PROVE  Len(net'[Other(r)]) >= Len(net[Other(r)])
  <2>1. out \o OnLock(r, SidOf(r, s.peerNonce)) \in
            Seq(Range(out \o OnLock(r, SidOf(r, s.peerNonce))))
    BY <1>1, <1>3, RangeConcat DEF OnLock
  <2>2. \/ AbortFrom(r, s, out, "PROTOCOL_ERROR") \/ Consume(r, out)
        \/ Consume(r, out \o OnLock(r, SidOf(r, s.peerNonce)))
    BY <1>3 DEF TryLock
  <2>. QED  BY <1>2, <1>3, <2>1, <2>2, NetGrows DEF Standing
<1>4. \/ Consume(r, <<>>)
      \/ \E s, code : AbortFrom(r, s, <<>>, code)
      \/ \E s : TryLock(r, s, <<>>)
      \/ \E s, m : TryLock(r, s, <<m>>)
  BY DEF HandleIncoming, RcvClosed, RcvMalformed, RcvReplay, RcvUnexpectedSid,
         RcvHelloMismatch, RcvHello, RcvHelloAck, RcvOther
<1>. QED  BY <1>1, <1>2, <1>3, <1>4, NetGrows DEF Standing

LEMMA LockSteady ==
    ASSUME NEW r \in Roles, Standing(r), RcvHandshake(r)
    PROVE  Turned(r) /\ Moved(r)
<1>. Filled(ss[r]) /\ DOMAIN ss = Roles /\ ss[r].state = "HANDSHAKE"
  BY DEF Standing, RcvHandshake
<1>1. ASSUME NEW sid
      PROVE  LET t == AfterLock(r, ss[r], sid)
             IN  /\ Filled(t) /\ t.fundingConfirmed = ss[r].fundingConfirmed
                 /\ t.milestones = ss[r].milestones
  BY DEF AfterLock, Filled, SessionFields
<1>2. LET t == [ss[r] EXCEPT !.state = "ABORTED"]
      IN  /\ Filled(t) /\ t.fundingConfirmed = ss[r].fundingConfirmed
          /\ t.milestones = ss[r].milestones
  BY DEF Filled, SessionFields
<1>3. Len(net'[Other(r)]) >= Len(net[Other(r)])
  BY HandshakeGrows DEF RcvHandshake
<1>4. \/ ss'[r] = AfterLock(r, ss[r], hs'[r].sid)
      \/ ss'[r] = [ss[r] EXCEPT !.state = "ABORTED"]
      \/ ss'[r] = ss[r]
  BY DEF RcvHandshake
<1>5. \A q \in Roles \ {r} : ss'[q] = ss[q]
  BY DEF RcvHandshake
<1>6. /\ Filled(ss'[r]) /\ ss'[r].fundingConfirmed = ss[r].fundingConfirmed
      /\ ss'[r].milestones = ss[r].milestones
  BY <1>1, <1>2, <1>4
<1>. QED  BY <1>3, <1>5, <1>6 DEF Turned, Moved, Progress

LEMMA KeygenAnnounceSteady ==
    ASSUME NEW r \in Roles, Standing(r), RcvKeygenAnnounce(r)
    PROVE  Turned(r) /\ Moved(r)
<1>. DEFINE m == Head(net[r])
            w == Heard(r, m)
            k == [w EXCEPT !.s.peerMpc = m.body.keyOf]
            kept == Note(k, m)
            end == CheckKeygenComplete(r, kept)
<1>0. ss[r].state = "KEYGEN"
  BY DEF RcvKeygenAnnounce, Takes, StageOf
<1>1. Steady(ss[r], w) /\ \A code : Final(ss[r], EmitAbort(r, w, code))
  BY HeardSteady, SteadyStatements DEF Standing
<1>2. Steady(ss[r], k)
  BY <1>1, SteadyFields
<1>3. Steady(ss[r], kept)
  BY <1>1, <1>2, SteadyStatements
<1>4. Final(ss[r], end)
  BY <1>0, <1>1, <1>2, <1>3, SteadyChecks
<1>. HIDE DEF w, k, kept, end
<1>5. \/ Returns(r, w) \/ Returns(r, end)
      \/ \E code : Returns(r, EmitAbort(r, w, code))
  BY DEF RcvKeygenAnnounce, Keep, m, w, k, kept, end
<1>. QED  BY <1>1, <1>2, <1>3, <1>4, <1>5, TurnFinal, SteadyFinal

LEMMA CapsuleAckSteady ==
    ASSUME NEW r \in Roles, Standing(r), RcvCapsuleAck(r)
    PROVE  Turned(r) /\ Moved(r)
<1>. DEFINE m == Head(net[r])
            w == Heard(r, m)
            k == [w EXCEPT !.s.capsuleAcked = TRUE]
            kept == Note(k, m)
            end == CheckCapsulesVerified(kept)
<1>0. ss[r].state = "CAPSULES_EXCHANGE"
  BY DEF RcvCapsuleAck, Takes, StageOf
<1>1. Steady(ss[r], w) /\ \A code : Final(ss[r], EmitAbort(r, w, code))
  BY HeardSteady, SteadyStatements DEF Standing
<1>2. Steady(ss[r], k)
  BY <1>1, SteadyFields
<1>3. Steady(ss[r], kept)
  BY <1>1, <1>2, SteadyStatements
<1>4. Final(ss[r], end)
  BY <1>0, <1>1, <1>2, <1>3, SteadyChecks
<1>. HIDE DEF w, k, kept, end
<1>5. \/ Returns(r, w) \/ Returns(r, end)
      \/ \E code : Returns(r, EmitAbort(r, w, code))
  BY DEF RcvCapsuleAck, Keep, m, w, k, kept, end
<1>. QED  BY <1>1, <1>2, <1>3, <1>4, <1>5, TurnFinal, SteadyFinal

LEMMA FundingTxSteady ==
    ASSUME NEW r \in Roles, Standing(r), RcvFundingTx(r)
    PROVE  Turned(r) /\ Moved(r)
<1>. DEFINE m == Head(net[r])
            w == Heard(r, m)
            k == [w EXCEPT !.s.fundingTx[m.body.which] = m.body]
            kept == Note(k, m)
            end == CheckFundingComplete(kept)
<1>0. ss[r].state = "FUNDING"
  BY DEF RcvFundingTx, Takes, StageOf
<1>1. Steady(ss[r], w) /\ \A code : Final(ss[r], EmitAbort(r, w, code))
  BY HeardSteady, SteadyStatements DEF Standing
<1>2. Steady(ss[r], k)
  BY <1>1, SteadyParts
<1>3. Steady(ss[r], kept)
  BY <1>1, <1>2, SteadyStatements
<1>4. Final(ss[r], end)
  BY <1>0, <1>1, <1>2, <1>3, SteadyChecks
<1>. HIDE DEF w, k, kept, end
<1>5. \/ Returns(r, w) \/ Returns(r, end)
      \/ \E code : Returns(r, EmitAbort(r, w, code))
  BY DEF RcvFundingTx, Keep, m, w, k, kept, end
<1>. QED  BY <1>1, <1>2, <1>3, <1>4, <1>5, TurnFinal, SteadyFinal

LEMMA NonceReportSteady ==
    ASSUME NEW r \in Roles, Standing(r), RcvNonceReport(r)
    PROVE  Turned(r) /\ Moved(r)
<1>. DEFINE m == Head(net[r])
            w == Heard(r, m)
            k == [w EXCEPT !.s.peerNonces = m.body.nonces]
            kept == Note(k, m)
            end == CheckExecReady(r, kept)
<1>0. ss[r].state = "EXEC_PREP"
  BY DEF RcvNonceReport, Takes, StageOf
<1>1. Steady(ss[r], w) /\ \A code : Final(ss[r], EmitAbort(r, w, code))
  BY HeardSteady, SteadyStatements DEF Standing
<1>2. Steady(ss[r], k)
  BY <1>1, SteadyFields
<1>3. Steady(ss[r], kept)
  BY <1>1, <1>2, SteadyStatements
<1>4. Final(ss[r], end)
  BY <1>0, <1>1, <1>2, <1>3, SteadyChecks
<1>. HIDE DEF w, k, kept, end
<1>5. \/ Returns(r, w) \/ Returns(r, end)
      \/ \E code : Returns(r, EmitAbort(r, w, code))
  BY DEF RcvNonceReport, Keep, m, w, k, kept, end
<1>. QED  BY <1>1, <1>2, <1>3, <1>4, <1>5, TurnFinal, SteadyFinal

LEMMA FeeParamsSteady ==
    ASSUME NEW r \in Roles, Standing(r), RcvFeeParams(r)
    PROVE  Turned(r) /\ Moved(r)
<1>. DEFINE m == Head(net[r])
            w == Heard(r, m)
            k == [w EXCEPT !.s.feeParams = m.body.fee]
            kept == Note(k, m)
            sent == Send(r, kept, "fee_params_ack", [feeHash |-> m.body.fee])
            acked == [sent EXCEPT !.s.feeAcked = TRUE]
            end == CheckExecReady(r, acked)
<1>0. ss[r].state = "EXEC_PREP"
  BY DEF RcvFeeParams, Takes, StageOf
<1>1. Steady(ss[r], w) /\ \A code : Final(ss[r], EmitAbort(r, w, code))
  BY HeardSteady, SteadyStatements DEF Standing
<1>2. Steady(ss[r], k)
  BY <1>1, SteadyFields
<1>3. Steady(ss[r], kept)
  BY <1>1, <1>2, SteadyStatements
<1>4. Steady(ss[r], sent)
  BY <1>1, <1>2, <1>3, SteadyStatements
<1>5. Steady(ss[r], acked)
  BY <1>1, <1>2, <1>3, <1>4, SteadyFields
<1>6. Final(ss[r], end)
  BY <1>0, <1>1, <1>2, <1>3, <1>4, <1>5, SteadyChecks
<1>. HIDE DEF w, k, kept, sent, acked, end
<1>7. \/ Returns(r, w) \/ Returns(r, end)
      \/ \E code : Returns(r, EmitAbort(r, w, code))
  BY DEF RcvFeeParams, Keep, m, w, k, kept, sent, acked, end
<1>. QED  BY <1>1, <1>2, <1>3, <1>4, <1>5, <1>6, <1>7, TurnFinal, SteadyFinal

LEMMA FeeParamsAckSteady ==
    ASSUME NEW r \in Roles, Standing(r), RcvFeeParamsAck(r)
    PROVE  Turned(r) /\ Moved(r)
<1>. DEFINE m == Head(net[r])
            w == Heard(r, m)
            k == [w EXCEPT !.s.feeAcked = TRUE]
            acked == Note(k, m)
            end == CheckExecReady(r, acked)
<1>0. ss[r].state = "EXEC_PREP"
  BY DEF RcvFeeParamsAck, Takes, StageOf
<1>1. Steady(ss[r], w) /\ \A code : Final(ss[r], EmitAbort(r, w, code))
  BY HeardSteady, SteadyStatements DEF Standing
<1>2. Steady(ss[r], k)
  BY <1>1, SteadyFields
<1>3. Steady(ss[r], acked)
  BY <1>1, <1>2, SteadyStatements
<1>4. Final(ss[r], end)
  BY <1>0, <1>1, <1>2, <1>3, SteadyChecks
<1>. HIDE DEF w, k, acked, end
<1>5. \/ Returns(r, w) \/ Returns(r, end)
      \/ \E code : Returns(r, EmitAbort(r, w, code))
  BY DEF RcvFeeParamsAck, Keep, m, w, k, acked, end
<1>. QED  BY <1>1, <1>2, <1>3, <1>4, <1>5, TurnFinal, SteadyFinal

LEMMA TemplateCommitSteady ==
    ASSUME NEW r \in Roles, Standing(r), RcvTemplateCommit(r)
    PROVE  Turned(r) /\ Moved(r)
<1>. DEFINE m == Head(net[r])
            w == Heard(r, m)
            k == [w EXCEPT !.s.peerCommitHash = m.body.commitHash]
            kept == Note(k, m)
            sent == Send(r, kept, "tx_template_ack", [commitHash |-> m.body.commitHash])
            end == CheckTemplatesReady(r, sent)
<1>0. ss[r].state = "EXEC_TEMPLATES_SYNC"
  BY DEF RcvTemplateCommit, Takes, StageOf
<1>1. Steady(ss[r], w) /\ \A code : Final(ss[r], EmitAbort(r, w, code))
  BY HeardSteady, SteadyStatements DEF Standing
<1>2. Steady(ss[r], k)
  BY <1>1, SteadyFields
<1>3. Steady(ss[r], kept)
  BY <1>1, <1>2, SteadyStatements
<1>4. Steady(ss[r], sent)
  BY <1>1, <1>2, <1>3, SteadyStatements
<1>5. Final(ss[r], end)
  BY <1>0, <1>1, <1>2, <1>3, <1>4, SteadyChecks
<1>. HIDE DEF w, k, kept, sent, end
<1>6. \/ Returns(r, w) \/ Returns(r, end)
      \/ \E code : Returns(r, EmitAbort(r, w, code))
  BY DEF RcvTemplateCommit, Keep, m, w, k, kept, sent, end
<1>. QED  BY <1>1, <1>2, <1>3, <1>4, <1>5, <1>6, TurnFinal, SteadyFinal

LEMMA TemplateAckSteady ==
    ASSUME NEW r \in Roles, Standing(r), RcvTemplateAck(r)
    PROVE  Turned(r) /\ Moved(r)
<1>. DEFINE m == Head(net[r])
            w == Heard(r, m)
            k == [w EXCEPT !.s.localCommitAcked = TRUE]
            acked == Note(k, m)
            end == CheckTemplatesReady(r, acked)
<1>0. ss[r].state = "EXEC_TEMPLATES_SYNC"
  BY DEF RcvTemplateAck, Takes, StageOf
<1>1. Steady(ss[r], w) /\ \A code : Final(ss[r], EmitAbort(r, w, code))
  BY HeardSteady, SteadyStatements DEF Standing
<1>2. Steady(ss[r], k)
  BY <1>1, SteadyFields
<1>3. Steady(ss[r], acked)
  BY <1>1, <1>2, SteadyStatements
<1>4. Final(ss[r], end)
  BY <1>0, <1>1, <1>2, <1>3, SteadyChecks
<1>. HIDE DEF w, k, acked, end
<1>5. \/ Returns(r, w) \/ Returns(r, end)
      \/ \E code : Returns(r, EmitAbort(r, w, code))
  BY DEF RcvTemplateAck, Keep, m, w, k, acked, end
<1>. QED  BY <1>1, <1>2, <1>3, <1>4, <1>5, TurnFinal, SteadyFinal

LEMMA AdaptorStartSteady ==
    ASSUME NEW r \in Roles, Standing(r), RcvAdaptorStart(r)
    PROVE  Turned(r) /\ Moved(r)
<1>. DEFINE m == Head(net[r])
            w == Heard(r, m)
            sig == AdaptorSig(m.body.which, w.s.postSeq)
            k == [w EXCEPT !.s.legs[m.body.which].T = m.body.T,
                          !.s.legs[m.body.which].adaptorSig = sig]
            kept == Note(k, m)
            sent == Send(r, kept, "adaptor_resp", RespBody(m.body, sig))
<1>1. Steady(ss[r], w) /\ \A code : Final(ss[r], EmitAbort(r, w, code))
  BY HeardSteady, SteadyStatements DEF Standing
<1>2. Steady(ss[r], k)
  BY <1>1, SteadyParts
<1>3. Steady(ss[r], kept)
  BY <1>1, <1>2, SteadyStatements
<1>4. Steady(ss[r], sent)
  BY <1>1, <1>2, <1>3, SteadyStatements
<1>. HIDE DEF w, sig, k, kept, sent
<1>5. \/ Returns(r, w) \/ Returns(r, sent)
      \/ \E code : Returns(r, EmitAbort(r, w, code))
  BY DEF RcvAdaptorStart, Keep, m, w, sig, k, kept, sent
<1>. QED  BY <1>1, <1>2, <1>3, <1>4, <1>5, TurnFinal, SteadyFinal

LEMMA TxBBroadcastSteady ==
    ASSUME NEW r \in Roles, Standing(r), RcvTxBBroadcast(r)
    PROVE  Turned(r) /\ Moved(r)
<1>. DEFINE m == Head(net[r])
            w == Heard(r, m)
            k == [w EXCEPT !.s.peerTxBHash = m.body.txHash]
            kept == Note(k, m)
<1>1. Steady(ss[r], w) /\ \A code : Final(ss[r], EmitAbort(r, w, code))
  BY HeardSteady, SteadyStatements DEF Standing
<1>2. Steady(ss[r], k)
  BY <1>1, SteadyFields
<1>3. Steady(ss[r], kept)
  BY <1>1, <1>2, SteadyStatements
<1>. HIDE DEF w, k, kept
<1>4. \/ Returns(r, w) \/ Returns(r, kept)
      \/ \E code : Returns(r, EmitAbort(r, w, code))
  BY DEF RcvTxBBroadcast, Keep, m, w, k, kept
<1>. QED  BY <1>1, <1>2, <1>3, <1>4, TurnFinal, SteadyFinal

LEMMA TxABroadcastSteady ==
    ASSUME NEW r \in Roles, Standing(r), RcvTxABroadcast(r)
    PROVE  Turned(r) /\ Moved(r)
<1>. DEFINE m == Head(net[r])
            w == Heard(r, m)
            k == [w EXCEPT !.s.peerTxAHash = m.body.txHash]
            kept == Note(k, m)
<1>1. Steady(ss[r], w) /\ \A code : Final(ss[r], EmitAbort(r, w, code))
  BY HeardSteady, SteadyStatements DEF Standing
<1>2. Steady(ss[r], k)
  BY <1>1, SteadyFields
<1>3. Steady(ss[r], kept)
  BY <1>1, <1>2, SteadyStatements
<1>. HIDE DEF w, k, kept
<1>4. \/ Returns(r, w) \/ Returns(r, kept)
      \/ \E code : Returns(r, EmitAbort(r, w, code))
  BY DEF RcvTxABroadcast, Keep, m, w, k, kept
<1>. QED  BY <1>1, <1>2, <1>3, <1>4, TurnFinal, SteadyFinal

LEMMA CapsuleOfferSteady ==
    ASSUME NEW r \in Roles, Standing(r), RcvCapsuleOffer(r)
    PROVE  Turned(r) /\ Moved(r)
<1>. DEFINE m == Head(net[r])
            w == Heard(r, m)
            k == [w EXCEPT !.s.capsuleReceived = TRUE]
            kept == Note(k, m)
            sent == Send(r, kept, "capsule_ack", [target |-> r, ok |-> TRUE])
            end == CheckCapsulesVerified(sent)
            nack == Send(r, w, "capsule_ack", [target |-> r, ok |-> FALSE])
            refused == Enter(nack, "ABORTED")
<1>0. ss[r].state = "CAPSULES_EXCHANGE"
  BY DEF RcvCapsuleOffer, Takes, StageOf
<1>1. Steady(ss[r], w) /\ \A code : Final(ss[r], EmitAbort(r, w, code))
  BY HeardSteady, SteadyStatements DEF Standing
<1>2. Steady(ss[r], k)
  BY <1>1, SteadyFields
<1>3. Steady(ss[r], kept)
  BY <1>2, SteadyStatements
<1>4. Steady(ss[r], sent)
  BY <1>3, SteadyStatements
<1>5. Final(ss[r], end)
  BY <1>0, <1>4, SteadyChecks
<1>6. Steady(ss[r], nack)
  BY <1>1, SteadyStatements
<1>7. Final(ss[r], refused)
  BY <1>6, SteadyStatements
<1>. HIDE DEF w, k, kept, sent, end, nack, refused
<1>8. \/ Returns(r, w) \/ Returns(r, end) \/ Returns(r, refused)
      \/ \E code : Returns(r, EmitAbort(r, w, code))
  BY DEF RcvCapsuleOffer, AcceptOffer, m, w, k, kept, sent, end, nack, refused
<1>. QED  BY <1>1, <1>5, <1>7, <1>8, TurnFinal, SteadyFinal

LEMMA AdaptorRespSteady ==
    ASSUME NEW r \in Roles, Standing(r), RcvAdaptorResp(r)
    PROVE  Turned(r) /\ Moved(r)
<1>. DEFINE m == Head(net[r])
            w == Heard(r, m)
            k == [w EXCEPT !.s.legs[m.body.which].T = m.body.T,
                           !.s.legs[m.body.which].adaptorSig = m.body.sig]
            kept == Note(k, m)
            sent == Send(r, kept, "adaptor_ack",
                         [which |-> m.body.which, digests |-> m.body.digests,
                          T |-> m.body.T])
            acked == [sent EXCEPT !.s.legs[m.body.which].acked = TRUE]
            end == Planned(acked)
<1>0. ss[r].state = "ADAPTOR_NEGOTIATING"
  BY DEF RcvAdaptorResp, Takes, StageOf
<1>1. Steady(ss[r], w) /\ \A code : Final(ss[r], EmitAbort(r, w, code))
  BY HeardSteady, SteadyStatements DEF Standing
<1>2. Steady(ss[r], k)
  BY <1>1, SteadyParts
<1>3. Steady(ss[r], kept)
  BY <1>2, SteadyStatements
<1>4. Steady(ss[r], sent)
  BY <1>3, SteadyStatements
<1>5. Steady(ss[r], acked)
  BY <1>4, SteadyParts
<1>6. Final(ss[r], end)
  BY <1>0, <1>5, SteadyChecks
<1>. HIDE DEF w, k, kept, sent, acked, end
<1>7. \/ Returns(r, w) \/ Returns(r, end) \/ Returns(r, acked)
      \/ \E code : Returns(r, EmitAbort(r, w, code))
  BY DEF RcvAdaptorResp, m, w, k, kept, sent, acked, end
<1>. QED  BY <1>1, <1>5, <1>6, <1>7, TurnFinal, SteadyFinal

LEMMA AdaptorAckSteady ==
    ASSUME NEW r \in Roles, Standing(r), RcvAdaptorAck(r)
    PROVE  Turned(r) /\ Moved(r)
<1>. DEFINE m == Head(net[r])
            w == Heard(r, m)
            k == [w EXCEPT !.s.legs[m.body.which].acked = TRUE]
            acked == Note(k, m)
            end == Planned(acked)
<1>0. ss[r].state = "ADAPTOR_NEGOTIATING"
  BY DEF RcvAdaptorAck, Takes, StageOf
<1>1. Steady(ss[r], w) /\ \A code : Final(ss[r], EmitAbort(r, w, code))
  BY HeardSteady, SteadyStatements DEF Standing
<1>2. Steady(ss[r], k)
  BY <1>1, SteadyParts
<1>3. Steady(ss[r], acked)
  BY <1>2, SteadyStatements
<1>4. Final(ss[r], end)
  BY <1>0, <1>3, SteadyChecks
<1>. HIDE DEF w, k, acked, end
<1>5. \/ Returns(r, w) \/ Returns(r, end) \/ Returns(r, acked)
      \/ \E code : Returns(r, EmitAbort(r, w, code))
  BY DEF RcvAdaptorAck, m, w, k, acked, end
<1>. QED  BY <1>1, <1>3, <1>4, <1>5, TurnFinal, SteadyFinal

LEMMA IncomingSteady ==
    ASSUME NEW r \in Roles, Standing(r), SessionIncoming(r)
    PROVE  Turned(r) /\ Moved(r) /\ UNCHANGED calls
<1>1. Turned(r) /\ Moved(r)
  BY RestSteady, LockSteady, KeygenAnnounceSteady, CapsuleOfferSteady,
     CapsuleAckSteady, FundingTxSteady, NonceReportSteady, FeeParamsSteady,
     FeeParamsAckSteady, TemplateCommitSteady, TemplateAckSteady,
     AdaptorStartSteady, AdaptorRespSteady, AdaptorAckSteady, TxBBroadcastSteady,
     TxABroadcastSteady
     DEF SessionIncoming
<1>2. UNCHANGED calls
  BY DEF SessionIncoming, RcvHandshake, RcvAborted, RcvUnparsable, RcvForeignSid,
         RcvOutOfOrder, RcvUnused, RcvKeygenAnnounce, RcvCapsuleOffer, RcvCapsuleAck,
         RcvFundingTx, RcvNonceReport, RcvFeeParams, RcvFeeParamsAck,
         RcvTemplateCommit, RcvTemplateAck, RcvAdaptorStart, RcvAdaptorResp,
         RcvAdaptorAck, RcvTxBBroadcast, RcvTxABroadcast, SessionRest
<1>. QED  BY <1>1, <1>2

LEMMA EmitFundingTxSteady ==
    ASSUME NEW r \in Roles, Standing(r), EmitFundingTx(r)
    PROVE  Turned(r) /\ Moved(r)
<1>. DEFINE w == Work(ss[r])
<1>1. PICK value \in FundingValues :
          LET body == [which |-> r, value |-> value]
              k == [w EXCEPT !.s.fundingTx[r] = body]
          IN  Emits(r, InState(r, "FUNDING", w,
                               CheckFundingComplete(Send(r, k, "funding_tx", body))))
  BY DEF EmitFundingTx
<1>. DEFINE body == [which |-> r, value |-> value]
            k == [w EXCEPT !.s.fundingTx[r] = body]
            sent == Send(r, k, "funding_tx", body)
            end == CheckFundingComplete(sent)
<1>2. Steady(ss[r], w)
  BY SteadyBegin DEF Standing
<1>3. Steady(ss[r], k)
  BY <1>2, SteadyParts
<1>. HIDE DEF w, k
<1>4. Steady(ss[r], sent)
  BY <1>3, SteadyStatements
<1>5. ss[r].state = "FUNDING" => Final(ss[r], end)
  BY <1>4, SteadyChecks
<1>. HIDE DEF sent, end
<1>6. Final(ss[r], InState(r, "FUNDING", w, end))
  BY <1>2, <1>5, SteadyChoices
<1>7. Emits(r, InState(r, "FUNDING", w, end))
  BY <1>1 DEF sent, end, k
<1>. QED  BY <1>6, <1>7, TurnFinal, SteadyFinal

\* A report that leaves alice to propose a fee has passed no milestone, if she
\* never proposed one before she had reported.
LEMMA ReportSteady ==
    ASSUME NEW r \in Roles, Filled(ss[r]), NEW nonces,
           NEW w, w = Work(ss[r]), NEW v, v = SetLocalNonceReport(r, w, nonces)
    PROVE  /\ Final(ss[r], v)
           /\ (ss[r].feeParams # None => ss[r].localNonces # None)
              => v.s.state = "ABORTED" \/ Steady(ss[r], v)
<1>. DEFINE k == [w EXCEPT !.s.localNonces = nonces]
            sent == Send(r, k, "nonce_report", [nonces |-> nonces])
            end == CheckExecReady(r, sent)
            kept == Keep(r, w, w.s.localNonces, nonces, end)
<1>1. Steady(ss[r], w) /\ w.s = ss[r]
  BY SteadyBegin DEF Work
<1>2. Steady(ss[r], k) /\ k.s.feeParams = w.s.feeParams
  <2>1. {"s", "out"} \subseteq DOMAIN w /\ Filled(w.s)
    BY <1>1 DEF Steady, Framed
  <2>. QED  BY <1>1, <2>1, SteadyFields DEF Filled, SessionFields
<1>. HIDE DEF k
<1>3. Steady(ss[r], sent) /\ sent.s.feeParams = k.s.feeParams
  <2>1. {"s", "out"} \subseteq DOMAIN k /\ Filled(k.s)
    BY <1>2 DEF Steady, Framed
  <2>. QED  BY <1>2, <2>1, SteadyStatements DEF Send, Note, Filled, SessionFields
<1>. HIDE DEF sent
<1>4. ss[r].state = "EXEC_PREP" => Final(ss[r], end)
  BY <1>3, SteadyChecks
<1>5. ASSUME NEW u, Steady(ss[r], u), NEW code
      PROVE  Final(ss[r], EmitAbort(r, u, code)) /\ EmitAbort(r, u, code).s.state = "ABORTED"
  <2>1. {"s", "out"} \subseteq DOMAIN u /\ Filled(u.s)
    BY <1>5 DEF Steady, Framed
  <2>. QED  BY <1>5, <2>1, SteadyStatements DEF EmitAbort, Filled, SessionFields
<1>6. sent.s.feeParams = None => end = sent \/ end = EmitAbort(r, sent, "PROTOCOL_ERROR")
  BY DEF CheckExecReady
<1>. HIDE DEF end
<1>7. v = InState(r, "EXEC_PREP", w, kept)
  BY DEF SetLocalNonceReport, kept, end, sent, k
<1>8. Final(ss[r], v)
  <2>1. ss[r].state = "EXEC_PREP" => Final(ss[r], kept)
    BY <1>1, <1>4, SteadyChoices
  <2>. HIDE DEF kept
  <2>. QED  BY <1>1, <1>7, <2>1, SteadyChoices
<1>9. \/ v = w \/ v = EmitAbort(r, w, "PROTOCOL_ERROR")
      \/ w.s.localNonces = None /\ v = end
  BY <1>7 DEF kept, Keep, InState
<1>10. ASSUME ss[r].feeParams # None => ss[r].localNonces # None
       PROVE  v.s.state = "ABORTED" \/ Steady(ss[r], v)
  BY <1>1, <1>2, <1>3, <1>5, <1>6, <1>9, <1>10
<1>. QED  BY <1>8, <1>10

LEMMA OnExecPrepStartedSteady ==
    ASSUME NEW r \in Roles, Standing(r), OnExecPrepStarted(r)
    PROVE  /\ Turned(r)
           /\ (r = "alice" /\ ss[r].feeParams # None => ss[r].localNonces # None)
              => Moved(r)
<1>. DEFINE w == Work(ss[r])
<1>1. PICK nonces \in NonceReports, fee \in FeeChoices :
          LET reported == SetLocalNonceReport(r, w, nonces)
          IN  Emits(r, IF r = "alice" /\ reported.s.state # "ABORTED"
                       THEN ProposeFeeParams(reported, fee) ELSE reported)
  BY DEF OnExecPrepStarted
<1>. DEFINE v == SetLocalNonceReport(r, w, nonces)
            k == [v EXCEPT !.s.feeParams = fee]
            sent == Send("alice", k, "fee_params", [fee |-> fee])
            kept == Keep("alice", v, v.s.feeParams, fee, sent)
            proposed == ProposeFeeParams(v, fee)
<1>2. /\ Final(ss[r], v)
      /\ (ss[r].feeParams # None => ss[r].localNonces # None)
         => v.s.state = "ABORTED" \/ Steady(ss[r], v)
  BY ReportSteady DEF Standing
<1>3. \/ Emits(r, v) /\ (r = "alice" => v.s.state = "ABORTED")
      \/ Emits(r, proposed) /\ r = "alice" /\ v.s.state # "ABORTED"
  BY <1>1
<1>4. proposed = InState("alice", "EXEC_PREP", v, kept)
  BY DEF ProposeFeeParams
<1>. HIDE DEF v, proposed
<1>5. Framed(ss[r], proposed)
  <2>1. Framed(ss[r], v)
    BY <1>2 DEF Final
  <2>2. Framed(ss[r], k)
    BY <2>1 DEF Framed, Filled, SessionFields
  <2>. HIDE DEF k
  <2>3. Framed(ss[r], sent)
    BY <2>2, FramedStatements
  <2>. HIDE DEF sent
  <2>4. \A code : Framed(ss[r], EmitAbort("alice", v, code))
    BY <2>1, FramedStatements
  <2>. QED  BY <1>4, <2>1, <2>3, <2>4 DEF kept, Keep, InState
<1>6. ASSUME Steady(ss[r], v) PROVE Final(ss[r], proposed)
  <2>1. Steady(ss[r], k)
    BY <1>6, SteadyFields
  <2>. HIDE DEF k
  <2>2. Final(ss[r], sent)
    BY <2>1, SteadyStatements, SteadyFinal
  <2>. HIDE DEF sent
  <2>3. Final(ss[r], kept)
    BY <1>6, <2>2, SteadyChoices
  <2>. HIDE DEF kept
  <2>. QED  BY <1>4, <1>6, <2>3, SteadyChoices
<1>7. Turned(r)
  BY <1>2, <1>3, <1>5, TurnSteady DEF Final
<1>8. ASSUME r = "alice" /\ ss[r].feeParams # None => ss[r].localNonces # None
      PROVE  Moved(r)
  <2>1. CASE Emits(r, v)
    BY <1>2, <2>1, TurnFinal
  <2>2. CASE Emits(r, proposed) /\ r = "alice" /\ v.s.state # "ABORTED"
    <3>1. Steady(ss[r], v)
      BY <1>2, <1>8, <2>2
    <3>. QED  BY <1>6, <2>2, <3>1, TurnFinal
  <2>. QED  BY <1>3, <2>1, <2>2
<1>. QED  BY <1>7, <1>8

LEMMA AnnounceSteady ==
    ASSUME \A r \in Roles : Standing(r)
    PROVE  /\ AnnounceTxBHash \/ AbortOnTxA => Turned("alice") /\ Moved("alice")
           /\ AnnounceTxAHash => Turned("bob") /\ Moved("bob")
<1>. "alice" \in Roles /\ "bob" \in Roles
  BY DEF Roles
<1>1. ASSUME NEW r \in Roles, NEW type, NEW body
      PROVE  LET w == Work(ss[r])
             IN  /\ Final(ss[r], InState(r, "EXECUTION_PLANNED", w, Send(r, w, type, body)))
                 /\ \A code : Final(ss[r], EmitAbort(r, w, code))
  <2>. DEFINE w == Work(ss[r])
              sent == Send(r, w, type, body)
  <2>1. Steady(ss[r], w)
    BY SteadyBegin DEF Standing
  <2>. HIDE DEF w
  <2>2. Steady(ss[r], sent) /\ \A code : Final(ss[r], EmitAbort(r, w, code))
    BY <2>1, SteadyStatements
  <2>. HIDE DEF sent
  <2>3. Final(ss[r], InState(r, "EXECUTION_PLANNED", w, sent))
    BY <2>1, <2>2, SteadyChoices, SteadyFinal
  <2>. QED  BY <2>2, <2>3 DEF w, sent
<1>2. ASSUME AnnounceTxBHash PROVE Turned("alice") /\ Moved("alice")
  <2>1. PICK hash \in TxHashes :
            Emits("alice", InState("alice", "EXECUTION_PLANNED", Work(ss["alice"]),
                Send("alice", Work(ss["alice"]), "txB_broadcast", [txHash |-> hash])))
    BY <1>2 DEF AnnounceTxBHash
  <2>2. Final(ss["alice"], InState("alice", "EXECUTION_PLANNED", Work(ss["alice"]),
                Send("alice", Work(ss["alice"]), "txB_broadcast", [txHash |-> hash])))
    BY <1>1
  <2>. QED  BY <2>1, <2>2, TurnFinal, SteadyFinal
<1>3. ASSUME AbortOnTxA PROVE Turned("alice") /\ Moved("alice")
  <2>1. Emits("alice", EmitAbort("alice", Work(ss["alice"]), "PROTOCOL_ERROR"))
    BY <1>3 DEF AbortOnTxA
  <2>2. Final(ss["alice"], EmitAbort("alice", Work(ss["alice"]), "PROTOCOL_ERROR"))
    BY <1>1
  <2>. QED  BY <2>1, <2>2, TurnFinal, SteadyFinal
<1>4. ASSUME AnnounceTxAHash PROVE Turned("bob") /\ Moved("bob")
  <2>1. PICK hash \in TxHashes :
            Emits("bob", InState("bob", "EXECUTION_PLANNED", Work(ss["bob"]),
                Send("bob", Work(ss["bob"]), "txA_broadcast", [txHash |-> hash])))
    BY <1>4 DEF AnnounceTxAHash
  <2>2. Final(ss["bob"], InState("bob", "EXECUTION_PLANNED", Work(ss["bob"]),
                Send("bob", Work(ss["bob"]), "txA_broadcast", [txHash |-> hash])))
    BY <1>1
  <2>. QED  BY <2>1, <2>2, TurnFinal, SteadyFinal
<1>. QED  BY <1>2, <1>3, <1>4

\* Of the client's methods one records a confirmation, and only that.
LEMMA ConfirmationEffect ==
    ASSUME NEW r \in Roles, NEW which, Standing(r),
           NotifyFundingConfirmed(r, which)
    PROVE  /\ \A q \in Roles \ {r} : ss'[q] = ss[q]
           /\ Filled(ss'[r]) /\ ss'[r].state \in {"FUNDING", "EXEC_PREP"}
           /\ ss'[r].fundingConfirmed = [ss[r].fundingConfirmed EXCEPT ![which] = TRUE]
           /\ Len(net'[Other(r)]) >= Len(net[Other(r)])
           /\ Moved(r)
<1>. DEFINE t == [ss[r] EXCEPT !.fundingConfirmed[which] = TRUE]
            w == [Work(ss[r]) EXCEPT !.s.fundingConfirmed[which] = TRUE]
            k == Enter(Reach(w, "FUNDED"), "EXEC_PREP")
<1>1. Filled(ss[r]) /\ DOMAIN ss = Roles /\ ss[r].state = "FUNDING"
  BY DEF Standing, NotifyFundingConfirmed
<1>2. /\ Filled(t) /\ t.state = "FUNDING" /\ t.milestones = ss[r].milestones
      /\ t.fundingConfirmed = [ss[r].fundingConfirmed EXCEPT ![which] = TRUE]
  BY <1>1 DEF Filled, SessionFields
<1>3. {"s", "out"} \subseteq DOMAIN w /\ w.s = t /\ w.out = <<>>
  BY <1>1 DEF Work, Filled, SessionFields
<1>4. Emits(r, CheckFundingComplete(w))
  BY DEF NotifyFundingConfirmed
<1>. HIDE DEF w, t
<1>5. Steady(t, w) /\ w.s = t
  BY <1>2, <1>3, EmptySeq DEF Steady, Framed, Range
<1>6. Final(t, w) /\ Final(t, k)
  <2>1. t.state = ClosedBy["FUNDED"] /\ "FUNDED" \in Milestones
    BY <1>2, MilestoneSet DEF ClosedBy
  <2>2. k = Enter(Reach(w, "FUNDED"), "EXEC_PREP")
    BY DEF k
  <2>. HIDE DEF k
  <2>. QED  BY <1>5, <2>1, <2>2, SteadyFinal, Marks
<1>7. k.s.state = "EXEC_PREP"
  BY <1>5 DEF k, Enter, Reach, Note, Steady, Framed, Filled, SessionFields
<1>8. CheckFundingComplete(w) = w \/ CheckFundingComplete(w) = k
  BY DEF CheckFundingComplete, k
<1>. HIDE DEF k
<1>9. ASSUME NEW v, Final(t, v), v.s.state \in {"FUNDING", "EXEC_PREP"}, Emits(r, v)
      PROVE  /\ \A q \in Roles \ {r} : ss'[q] = ss[q]
             /\ Filled(ss'[r]) /\ ss'[r].state \in {"FUNDING", "EXEC_PREP"}
             /\ ss'[r].fundingConfirmed = t.fundingConfirmed
             /\ Len(net'[Other(r)]) >= Len(net[Other(r)])
             /\ Moved(r)
  <2>1. ss' = [ss EXCEPT ![r] = v.s]
    BY <1>9 DEF Emits
  <2>2. Len(net'[Other(r)]) >= Len(net[Other(r)])
    BY <1>9, NetGrows DEF Standing, Final, Framed, Emits
  <2>3. ss'[r] = v.s
    BY <1>1, <2>1
  <2>4. Moved(r)
    BY <1>1, <1>2, <1>9, <2>3 DEF Final, Progress, Moved
  <2>. QED  BY <1>1, <1>9, <2>1, <2>2, <2>3, <2>4 DEF Final, Framed
<1>. QED  BY <1>2, <1>4, <1>5, <1>6, <1>7, <1>8, <1>9

-----------------------------------------------------------------------------
(* A handler at work *)

\* What r may send, its session standing at s.
Sendable(r, s, m) ==
    /\ m = Message(r, m.seq, m.sid, m.type, m.body) /\ m.seq \in Nat
    /\ m.type \in {"abort"} \cup DOMAIN StageOf
    /\ m.type \in DOMAIN StageOf =>
          Locked(r) /\ m.sid = hs[r].sid /\ RecordOf(m) \in Range(s.post)
    /\ m.type = "capsule_offer" => m.body = [target |-> Other(r), flaw |-> m.body.flaw]

\* What w sends carries r's next numbers in their order, an abort only if w is
\* aborted; the last number w has heard is at most that of the oldest message.
InTurn(r, w) ==
    /\ ss[r].postSeq \in Nat /\ w.s.postSeq \in Nat /\ ss[r].postSeq <= w.s.postSeq
    /\ Rising(w.out)
    /\ \A m \in Range(w.out) :
          /\ m.seq \in Nat /\ ss[r].postSeq <= m.seq /\ m.seq < w.s.postSeq
          /\ m.type = "abort" => w.s.state = "ABORTED"
    /\ \/ w.s.lastPostSeq = ss[r].lastPostSeq
       \/ net[r] # <<>> /\ w.s.lastPostSeq = Head(net[r]).seq

\* r consumes the oldest message on its way to it.
Hearing(r) == net[r] # <<>> /\ net'[r] = Tail(net[r])

\* r hears an offer whose ciphertext was flawed on the way.
Spoilt(r) ==
    Hearing(r) /\ Head(net[r]).type = "capsule_offer" /\ Head(net[r]).body.flaw = "ct"

\* What w has recorded is a message that it sends or the one that r hears, and only
\* such an offer is refused.
Sourced(r, w) ==
    \A x \in Range(w.s.post) \ Range(ss[r].post) :
        \/ /\ x.from = r /\ \E m \in Range(w.out) : m.type \in DOMAIN StageOf /\ RecordOf(m) = x
           /\ Refusal(x) => Spoilt(r)
        \/ Hearing(r) /\ RecordOf(Head(net[r])) = x

\* The work w has forgotten no record, invented none, and sends what it recorded.
Told(r, w) ==
    /\ DOMAIN w = {"s", "out"} /\ DOMAIN w.s = SessionFields /\ InTurn(r, w)
    /\ Sourced(r, w)
    /\ Shared(r, w.s) /\ Range(ss[r].post) \subseteq Range(w.s.post)
    /\ w.out \in Seq(Range(w.out)) /\ \A m \in Range(w.out) : Sendable(r, w.s, m)

Ongoing(r, w, c) == LocalInv(r, w.s, c) /\ Told(r, w)

\* The invariant of one party speaks of its own fields and the lock only.
LEMMA LocalStays ==
    ASSUME NEW r, NEW s, NEW c, NEW d, c \subseteq d, LocalInv(r, s, c),
           Locked(r)' <=> Locked(r), hs'[r].sid = hs[r].sid, mutator' = mutator,
           s.state = "HANDSHAKE" => hs'[r].state # "ABORTED"
    PROVE  LocalInv(r, s, d)'
<1>1. Locked(r)' <=> Locked(r)
  OBVIOUS
<1>2. StateInv(r, s)' /\ NumberInv(r, s)' /\ LogInv(s)'
  BY <1>1 DEF LocalInv, CoreInv, StateInv, NumberInv, LogInv
<1>3. KeygenInv(r, s)' /\ CapsuleInv(r, s)' /\ FundingInv(r, s, d)'
  BY <1>1 DEF LocalInv, CoreInv, KeygenInv, CapsuleInv, FundingInv
<1>4. PrepInv(r, s, d)'
  BY DEF LocalInv, CoreInv, PrepInv, TemplatesOf
<1>5. TemplateInv(r, s)'
  BY DEF LocalInv, CoreInv, TemplateInv, CommitBody
<1>6. AdaptorInv(r, s)' /\ BroadcastInv(r, s, d)' /\ PlanInv(r, s)'
  BY DEF LocalInv, CoreInv, AdaptorInv, LegInv, Signed, BroadcastInv, PlanInv
<1>. QED  BY <1>2, <1>3, <1>4, <1>5, <1>6 DEF LocalInv, CoreInv

\* What is on its way from q stays genuine while q's own transcript only grows.
LEMMA GenuineStays ==
    ASSUME NEW q, NEW m, Genuine(q, m), UNCHANGED <<params, nonce, hs>>,
           Range(ss[q].post) \subseteq Range(ss'[q].post)
    PROVE  Genuine(q, m)'
BY DEF Genuine, Message, Greeting, Locked, RecordOf, Other

LEMMA SentGenuine ==
    ASSUME NEW r, NEW m, NEW s, Sendable(r, s, m), UNCHANGED hs,
           Range(s.post) \subseteq Range(ss'[r].post)
    PROVE  Genuine(r, m)'
<1>1. m.type \notin {"hello", "hello_ack"}
  BY PostTypes DEF Sendable
<1>2. m.type \in DOMAIN StageOf =>
          Locked(r) /\ m.sid = hs[r].sid /\ RecordOf(m) \in Range(ss'[r].post)
  BY DEF Sendable
<1>. QED  BY <1>1, <1>2 DEF Sendable, Genuine, Message, Locked, RecordOf, Other

LEMMA HandshakeStays ==
    ASSUME NEW q, HandshakeInv(q), UNCHANGED <<params, nonce, hs>>
    PROVE  HandshakeInv(q)'
BY DEF HandshakeInv, Locked, TrueSid, Created, Other

\* A handler or a method of r's has told its peer what it recorded.
Tells(r) ==
    \E w : /\ Told(r, w) /\ LocalInv(r, w.s, calls'[r])
           /\ (net[r] # <<>> /\ Returns(r, w)) \/ Emits(r, w)
           /\ UNCHANGED <<params, nonce, hs, faults, mutator>>
           /\ calls' = [calls EXCEPT ![r] = calls'[r]] /\ calls[r] \subseteq calls'[r]

\* A handler or a method ends: what it leaves and sends keeps the invariant.
LEMMA TurnEnds ==
    ASSUME NEW r \in Roles, NEW w, SInv, Ongoing(r, w, calls'[r]),
           (Returns(r, w) /\ net[r] # <<>>) \/ Emits(r, w),
           UNCHANGED <<params, nonce, hs, faults, mutator>>,
           calls' = [calls EXCEPT ![r] = calls'[r]], calls[r] \subseteq calls'[r]
    PROVE  SInv' /\ Tells(r)
<1>. DEFINE p == Other(r)
<1>1. p \in Roles /\ p # r /\ Other(p) = r /\ \A q \in Roles : q = r \/ q = p
  BY OtherRole
<1>. HIDE DEF p
<1>2. /\ ss = [q \in Roles |-> ss[q]] /\ net = [q \in Roles |-> net[q]]
      /\ calls = [q \in Roles |-> calls[q]]
  BY DEF SInv
<1>3. /\ ss'[r] = w.s /\ ss'[p] = ss[p] /\ ss' = [q \in Roles |-> ss'[q]]
      /\ calls'[p] = calls[p] /\ calls' = [q \in Roles |-> calls'[q]]
  BY <1>1, <1>2 DEF Returns, Emits
<1>4. /\ net[r] \in Seq(Range(net[r])) /\ net[p] \in Seq(Range(net[p]))
      /\ w.out \in Seq(Range(w.out))
  BY <1>1 DEF SInv, Ongoing, Told
<1>5. /\ net'[r] \in Seq(Range(net'[r])) /\ Range(net'[r]) \subseteq Range(net[r])
      /\ net'[p] \in Seq(Range(net'[p])) /\ Range(net'[p]) = Range(net[p]) \cup Range(w.out)
      /\ net' = [q \in Roles |-> net'[q]]
  <2>1. net'[p] = net[p] \o w.out /\ net' = [q \in Roles |-> net'[q]]
    BY <1>1, <1>2 DEF Returns, Emits, Consume, p
  <2>2. net'[r] = net[r] \/ (net[r] # <<>> /\ net'[r] = Tail(net[r]))
    BY <1>1, <1>2 DEF Returns, Emits, Consume, p
  <2>3. net'[r] \in Seq(Range(net'[r])) /\ Range(net'[r]) \subseteq Range(net[r])
    BY <1>4, <2>2, RangeTail
  <2>4. /\ net[p] \o w.out \in Seq(Range(net[p] \o w.out))
        /\ Range(net[p] \o w.out) = Range(net[p]) \cup Range(w.out)
    BY <1>4, RangeConcat
  <2>. QED  BY <2>1, <2>3, <2>4
<1>6. LocalInv(r, ss[r], calls[r])' /\ LocalInv(p, ss[p], calls[p])'
  <2>1. LocalInv(r, ss'[r], calls'[r]) /\ LocalInv(p, ss'[p], calls'[p])
    BY <1>1, <1>3 DEF SInv, Ongoing
  <2>2. \A q \in {r, p} : ss'[q].state = "HANDSHAKE" => hs'[q].state # "ABORTED"
    BY <2>1 DEF LocalInv, CoreInv, StateInv
  <2>. QED  BY <2>1, <2>2, LocalStays DEF Locked
<1>7. Shared(r, ss[r])' /\ Shared(p, ss[p])'
  <2>1. Shared(r, w.s) /\ Shared(p, ss[p])
    BY <1>1 DEF SInv, Ongoing, Told
  <2>2. Range(ss[r].post) \subseteq Range(w.s.post)
    BY DEF Ongoing, Told
  <2>. QED  BY <1>1, <1>3, <2>1, <2>2 DEF Shared, p
<1>8. \A m \in Range(net'[r]) : Genuine(Other(r), m)'
  <2>1. \A m \in Range(net[r]) : Genuine(p, m)
    BY DEF SInv, p
  <2>. QED  BY <1>3, <1>5, <2>1, GenuineStays DEF p
<1>9. \A m \in Range(net'[p]) : Genuine(Other(p), m)'
  <2>1. \A m \in Range(net[p]) : Genuine(r, m)
    BY <1>1 DEF SInv
  <2>2. \A m \in Range(w.out) : Sendable(r, w.s, m)
    BY DEF Ongoing, Told
  <2>3. Range(ss[r].post) \subseteq Range(ss'[r].post)
    BY <1>3 DEF Ongoing, Told
  <2>4. \A m \in Range(net'[p]) : Genuine(r, m)'
    BY <1>3, <1>5, <2>1, <2>2, <2>3, GenuineStays, SentGenuine
  <2>. QED  BY <1>1, <2>4
<1>10. \A q \in Roles : HandshakeInv(q)'
  BY HandshakeStays DEF SInv
<1>11. Tells(r)
  BY DEF Tells, Ongoing
<1>12. SInv'
  BY <1>1, <1>3, <1>5, <1>6, <1>7, <1>8, <1>9, <1>10 DEF SInv
<1>. QED  BY <1>11, <1>12

-----------------------------------------------------------------------------
(* The statements of a handler *)

Working(w) == DOMAIN w = {"s", "out"} /\ DOMAIN w.s = SessionFields

LEMMA NoteEffect ==
    ASSUME NEW w, NEW m, Working(w)
    PROVE  /\ Working(Note(w, m)) /\ Note(w, m).out = w.out
           /\ Note(w, m).s.post = Append(w.s.post, RecordOf(m))
           /\ Same(w.s, Note(w, m).s, SessionFields \ {"post"})
BY DEF Note, Working, SessionFields, Same

\* The message that r at w sends next.
NextMessage(r, w, type, body) == Message(r, w.s.postSeq, hs[r].sid, type, body)

Appended(r, w, v, type, body) ==
    LET m == NextMessage(r, w, type, body)
    IN  /\ Working(v) /\ v.out = Append(w.out, m)
        /\ v.s.post = Append(w.s.post, RecordOf(m)) /\ v.s.postSeq = w.s.postSeq + 1
        /\ Same(w.s, v.s, SessionFields \ {"post", "postSeq"})

LEMMA SendEffect ==
    ASSUME NEW r, NEW w, NEW type, NEW body, Working(w)
    PROVE  Appended(r, w, Send(r, w, type, body), type, body)
BY DEF Send, Note, NextMessage, Working, SessionFields, Same, Appended

LEMMA EmitAbortEffect ==
    ASSUME NEW r, NEW w, NEW code, Working(w)
    PROVE  LET v == EmitAbort(r, w, code)
               m == NextMessage(r, w, "abort", [code |-> code])
           IN  /\ Working(v) /\ v.out = Append(w.out, m)
               /\ v.s.state = "ABORTED" /\ v.s.postSeq = w.s.postSeq + 1
               /\ Same(w.s, v.s, SessionFields \ {"state", "postSeq"})
BY DEF EmitAbort, NextMessage, Working, SessionFields, Same

LEMMA EnterEffect ==
    ASSUME NEW w, NEW state, Working(w)
    PROVE  /\ Working(Enter(w, state)) /\ Enter(w, state).out = w.out
           /\ Enter(w, state).s.state = state
           /\ Same(w.s, Enter(w, state).s, SessionFields \ {"state"})
BY DEF Enter, Working, SessionFields, Same

LEMMA ReachEffect ==
    ASSUME NEW w, NEW event, Working(w)
    PROVE  /\ Working(Reach(w, event)) /\ Reach(w, event).out = w.out
           /\ Reach(w, event).s.milestones = [w.s.milestones EXCEPT ![event] = w.s.post]
           /\ Same(w.s, Reach(w, event).s, SessionFields \ {"milestones"})
BY DEF Reach, Working, SessionFields, Same

\* A milestone passed on the way to a state.
LEMMA PassEffect ==
    ASSUME NEW w, NEW event, NEW state, Working(w), Reaches(event, w.s.state, state)
    PROVE  LET v == Enter(Reach(w, event), state)
           IN  Working(v) /\ v.out = w.out /\ Advances(w.s, v.s, event) /\ v.s.state = state
               /\ v.s.post = w.s.post
<1>. DEFINE k == Reach(w, event)
            v == Enter(k, state)
<1>1. /\ Working(k) /\ k.out = w.out
      /\ k.s.milestones = [w.s.milestones EXCEPT ![event] = w.s.post]
      /\ Same(w.s, k.s, SessionFields \ {"milestones"})
  BY ReachEffect
<1>2. /\ Working(v) /\ v.out = k.out /\ v.s.state = state
      /\ Same(k.s, v.s, SessionFields \ {"state"})
  BY <1>1, EnterEffect
<1>. HIDE DEF k, v
<1>3. /\ v.out = w.out /\ DOMAIN v.s = SessionFields /\ v.s.milestones = k.s.milestones
      /\ Same(w.s, v.s, SessionFields \ {"state", "milestones"}) /\ v.s.post = w.s.post
  BY <1>1, <1>2 DEF Same, Working, SessionFields
<1>4. Advances(w.s, v.s, event)
  BY <1>1, <1>2, <1>3 DEF Advances
<1>. QED  BY <1>2, <1>3, <1>4 DEF k, v

\* An abort is not taken back, and nothing more is heard.
Onward(w, v) ==
    /\ v.s.lastPostSeq = w.s.lastPostSeq
    /\ w.s.state = "ABORTED" => v.s.state = "ABORTED"

LEMMA InTurnStays ==
    ASSUME NEW r, NEW w, NEW v, InTurn(r, w), Onward(w, v), v.out = w.out,
           v.s.postSeq = w.s.postSeq
    PROVE  InTurn(r, v)
BY DEF InTurn, Onward

LEMMA InTurnSends ==
    ASSUME NEW r, NEW w, NEW v, NEW m, InTurn(r, w), Onward(w, v),
           w.out \in Seq(Range(w.out)), v.out = Append(w.out, m),
           m.seq = w.s.postSeq, v.s.postSeq = w.s.postSeq + 1,
           m.type = "abort" => v.s.state = "ABORTED"
    PROVE  InTurn(r, v)
<1>1. Range(v.out) = Range(w.out) \cup {m}
  BY RangeAppend
<1>2. Rising(v.out)
  <2>1. ASSUME NEW i \in DOMAIN v.out, NEW j \in DOMAIN v.out, i < j
        PROVE  v.out[i].seq < v.out[j].seq
    <3>1. i \in DOMAIN w.out /\ v.out[i] = w.out[i] /\ w.out[i] \in Range(w.out)
      BY <2>1 DEF Range
    <3>2. CASE j \in DOMAIN w.out
      <4>1. v.out[j] = w.out[j]
        BY <3>2
      <4>. QED  BY <2>1, <3>1, <3>2, <4>1 DEF InTurn, Rising
    <3>3. CASE j \notin DOMAIN w.out
      <4>1. v.out[j] = m
        BY <3>3
      <4>. QED  BY <3>1, <4>1 DEF InTurn
    <3>. QED  BY <3>2, <3>3
  <2>. QED  BY <2>1 DEF Rising
<1>3. \A x \in Range(w.out) :
          /\ x.seq \in Nat /\ ss[r].postSeq <= x.seq /\ x.seq < v.s.postSeq
          /\ x.type = "abort" => v.s.state = "ABORTED"
  BY DEF InTurn, Onward
<1>. QED  BY <1>1, <1>2, <1>3 DEF InTurn, Onward

\* Fields change, a message of the peer's is recorded, a message is sent.
LEMMA SameStep ==
    ASSUME NEW r \in Roles, NEW w, NEW v, NEW c, Told(r, w), Working(v), Onward(w, v),
           v.out = w.out, v.s.post = w.s.post, v.s.postSeq = w.s.postSeq
    PROVE  Told(r, v)
BY InTurnStays DEF Told, Sourced, Shared, Sendable, Working

LEMMA NoteStep ==
    ASSUME NEW r \in Roles, NEW w, NEW v, NEW x, NEW c, Told(r, w), NumberInv(r, w.s),
           Working(v), v.out = w.out, v.s.post = Append(w.s.post, x), Onward(w, v),
           v.s.postSeq = w.s.postSeq, x \in Range(ss[Other(r)].post), Hearing(r),
           x = RecordOf(Head(net[r]))
    PROVE  Told(r, v)
<1>1. Range(v.s.post) = Range(w.s.post) \cup {x}
  BY RangeAppend DEF NumberInv
<1>2. Sourced(r, v)
  BY <1>1 DEF Told, Sourced
<1>. QED  BY <1>1, <1>2, InTurnStays DEF Told, Shared, Sendable, Working

LEMMA SendStep ==
    ASSUME NEW r \in Roles, NEW w, NEW v, NEW type, NEW body, NEW m, Told(r, w),
           NumberInv(r, w.s), Working(v), m = NextMessage(r, w, type, body),
           v.out = Append(w.out, m), v.s.post = Append(w.s.post, RecordOf(m)),
           type \in DOMAIN StageOf, Locked(r), Onward(w, v),
           v.s.postSeq = w.s.postSeq + 1, Refusal(RecordOf(m)) => Spoilt(r),
           type = "capsule_offer" => body = [target |-> Other(r), flaw |-> body.flaw]
    PROVE  Told(r, v)
<1>1. Range(v.s.post) = Range(w.s.post) \cup {RecordOf(m)}
  BY RangeAppend DEF NumberInv
<1>2. /\ m = Message(r, m.seq, m.sid, m.type, m.body) /\ m.seq \in Nat /\ m.type = type
      /\ m.sid = hs[r].sid /\ m.body = body /\ m.from = r
  BY DEF NextMessage, Message, NumberInv
<1>3. Sendable(r, v.s, m)
  BY <1>1, <1>2 DEF Sendable
<1>4. /\ v.out \in Seq(Range(v.out)) /\ Range(v.out) = Range(w.out) \cup {m}
  BY RangeAppend DEF Told
<1>5. \A y \in Range(v.out) : Sendable(r, v.s, y)
  BY <1>1, <1>3, <1>4 DEF Told, Sendable
<1>6. Shared(r, v.s)
  <2>1. RecordOf(m).from = r /\ Other(r) # r
    BY <1>2, OtherRole DEF RecordOf
  <2>. QED  BY <1>1, <2>1 DEF Told, Shared
<1>7. InTurn(r, v)
  <2>1. m.seq = w.s.postSeq /\ m.type # "abort"
    BY <1>2, PostTypes DEF NextMessage, Message
  <2>. QED  BY <2>1, InTurnSends DEF Told
<1>8. Sourced(r, v)
  <2>1. RecordOf(m).from = r
    BY <1>2 DEF RecordOf
  <2>. QED  BY <1>1, <1>2, <1>4, <2>1 DEF Told, Sourced
<1>. QED  BY <1>1, <1>4, <1>5, <1>6, <1>7, <1>8 DEF Told, Working

LEMMA AbortStep ==
    ASSUME NEW r \in Roles, NEW w, NEW c, NEW code, Ongoing(r, w, c)
    PROVE  Ongoing(r, EmitAbort(r, w, code), c)
<1>. DEFINE v == EmitAbort(r, w, code)
            m == NextMessage(r, w, "abort", [code |-> code])
<1>1. Working(w) /\ LocalInv(r, w.s, c) /\ Told(r, w) /\ NumberInv(r, w.s)
  BY DEF Ongoing, Told, Working, LocalInv, CoreInv
<1>2. /\ Working(v) /\ v.out = Append(w.out, m)
      /\ v.s.state = "ABORTED" /\ v.s.postSeq = w.s.postSeq + 1
      /\ Same(w.s, v.s, SessionFields \ {"state", "postSeq"})
  BY <1>1, EmitAbortEffect
<1>3. /\ m = Message(r, m.seq, m.sid, m.type, m.body) /\ m.seq \in Nat
      /\ m.type = "abort" /\ m.type \notin DOMAIN StageOf /\ m.seq = w.s.postSeq
  BY <1>1, PostTypes DEF NextMessage, Message, NumberInv
<1>. HIDE DEF v, m
<1>4. LocalInv(r, v.s, c)
  BY <1>1, <1>2, AbortKeeps DEF Working
<1>5. v.s.post = w.s.post
  BY <1>2 DEF Same, SessionFields
<1>6. /\ v.out \in Seq(Range(v.out)) /\ Range(v.out) = Range(w.out) \cup {m}
  BY <1>1, <1>2, RangeAppend DEF Told
<1>7. \A y \in Range(v.out) : Sendable(r, v.s, y)
  BY <1>1, <1>3, <1>5, <1>6 DEF Told, Sendable
<1>i. InTurn(r, v)
  <2>1. Onward(w, v)
    BY <1>2 DEF Onward, Same, SessionFields
  <2>. QED  BY <1>1, <1>2, <1>3, <2>1, InTurnSends DEF Told
<1>s. Sourced(r, v)
  BY <1>1, <1>5, <1>6 DEF Told, Sourced
<1>8. Told(r, v)
  BY <1>1, <1>2, <1>5, <1>6, <1>7, <1>i, <1>s DEF Told, Shared, Working
<1>. QED  BY <1>4, <1>8 DEF Ongoing, v

\* After w the fields of F are set, which makes k, and the peer's message m is
\* recorded, which makes v.
MayNote(r, w, k, m, F) ==
    /\ Working(k) /\ k.out = w.out /\ Same(w.s, k.s, SessionFields \ F)
    /\ F \cap Bookkeeping = {}
    /\ m.type \in DOMAIN StageOf /\ m.from = Other(r) /\ m.seq \in Nat
    /\ ~Refusal(RecordOf(m)) /\ w.s.state = StageOf[m.type]
    /\ m.type \in {"txB_broadcast", "txA_broadcast"} \/ m.seq <= w.s.lastPostSeq
    /\ RecordOf(m) \in Range(ss[Other(r)].post) /\ Hearing(r) /\ m = Head(net[r])

DidNote(r, w, k, v, m, F) ==
    /\ Working(v) /\ Told(r, v) /\ v.out = w.out
    /\ Noted(r, w.s, v.s, RecordOf(m), F) /\ Same(k.s, v.s, SessionFields \ {"post"})

LEMMA NoteMessage ==
    ASSUME NEW r \in Roles, NEW w, NEW k, NEW m, NEW F, NEW c, Ongoing(r, w, c),
           MayNote(r, w, k, m, F)
    PROVE  DidNote(r, w, k, Note(k, m), m, F)
<1>. DEFINE v == Note(k, m)
            x == RecordOf(m)
<1>0. /\ Working(k) /\ k.out = w.out /\ Same(w.s, k.s, SessionFields \ F)
      /\ F \cap Bookkeeping = {}
  BY DEF MayNote
<1>1. /\ Working(v) /\ v.out = k.out /\ v.s.post = Append(k.s.post, x)
      /\ Same(k.s, v.s, SessionFields \ {"post"})
  BY <1>0, NoteEffect
<1>2. x.type = m.type /\ x.from = m.from /\ x.seq = m.seq /\ RecordOf(m) = x
  BY DEF RecordOf
<1>. HIDE DEF v, x
<1>3. k.s.post = w.s.post /\ v.s.postSeq = w.s.postSeq /\ Onward(w, v)
  BY <1>0, <1>1 DEF Same, SessionFields, Bookkeeping, Onward
<1>4. Same(w.s, v.s, SessionFields \ ({"post"} \cup F))
  BY <1>0, <1>1 DEF Same
<1>5. Noted(r, w.s, v.s, x, F)
  BY <1>1, <1>2, <1>3, <1>4 DEF MayNote, Noted, Working
<1>6. Told(r, v)
  <2>1. /\ Told(r, w) /\ NumberInv(r, w.s) /\ x \in Range(ss[Other(r)].post)
        /\ Hearing(r) /\ x = RecordOf(Head(net[r]))
    BY <1>2 DEF Ongoing, LocalInv, CoreInv, MayNote
  <2>. QED  BY <1>0, <1>1, <1>3, <2>1, NoteStep
<1>. QED  BY <1>0, <1>1, <1>2, <1>5, <1>6 DEF DidNote, v

\* The same for a message that is sent and recorded.
MaySend(r, w, k, type, body, F) ==
    /\ Working(k) /\ k.out = w.out /\ Same(w.s, k.s, SessionFields \ F)
    /\ F \cap Bookkeeping = {}
    /\ type \in DOMAIN StageOf /\ w.s.state = StageOf[type]
    /\ type = "capsule_offer" => body = [target |-> Other(r), flaw |-> body.flaw]
    /\ type = "capsule_ack" => body.ok

DidSend(r, w, k, v, type, body, F) ==
    /\ Working(v) /\ Told(r, v) /\ Same(k.s, v.s, SessionFields \ {"post", "postSeq"})
    /\ \E x : Issued(r, w.s, v.s, x, F) /\ x.type = type /\ x.body = body

LEMMA SendMessage ==
    ASSUME NEW r \in Roles, NEW w, NEW k, NEW type, NEW body, NEW F, NEW c,
           Ongoing(r, w, c), MaySend(r, w, k, type, body, F)
    PROVE  DidSend(r, w, k, Send(r, k, type, body), type, body, F)
<1>. DEFINE v == Send(r, k, type, body)
            m == NextMessage(r, k, type, body)
            x == RecordOf(m)
<1>0. /\ Working(k) /\ k.out = w.out /\ Same(w.s, k.s, SessionFields \ F)
      /\ F \cap Bookkeeping = {}
  BY DEF MaySend
<1>1. /\ Working(v) /\ v.out = Append(k.out, m)
      /\ v.s.post = Append(k.s.post, x) /\ v.s.postSeq = k.s.postSeq + 1
      /\ Same(k.s, v.s, SessionFields \ {"post", "postSeq"})
  BY <1>0, SendEffect DEF Appended
<1>2. k.s.post = w.s.post /\ k.s.postSeq = w.s.postSeq
  BY <1>0 DEF Same, SessionFields, Bookkeeping
<1>3. /\ x.type = type /\ x.from = r /\ x.seq = w.s.postSeq /\ x.body = body
      /\ m = NextMessage(r, w, type, body)
  BY <1>2 DEF RecordOf, NextMessage, Message
<1>4. ~Refusal(x)
  BY <1>3 DEF Refusal, MaySend
<1>5. Locked(r) /\ NumberInv(r, w.s) /\ Told(r, w)
  BY StageGate DEF Ongoing, LocalInv, CoreInv, MaySend
<1>6. Told(r, v)
  <2>. HIDE DEF v, m
  <2>1. Onward(w, v)
    BY <1>0, <1>1 DEF Same, SessionFields, Bookkeeping, Onward
  <2>. QED  BY <1>0, <1>1, <1>2, <1>3, <1>4, <1>5, <2>1, SendStep DEF MaySend
<1>. HIDE DEF v, x
<1>7. Same(w.s, v.s, SessionFields \ ({"post", "postSeq"} \cup F))
  BY <1>0, <1>1 DEF Same
<1>8. Issued(r, w.s, v.s, x, F)
  BY <1>1, <1>2, <1>3, <1>4, <1>7 DEF Issued, Working, MaySend
<1>. QED  BY <1>1, <1>3, <1>6, <1>8 DEF DidSend, v

-----------------------------------------------------------------------------
(* A message taken from the network *)

LEMMA WorkOngoing ==
    ASSUME NEW r \in Roles, SInv
    PROVE  /\ Ongoing(r, Work(ss[r]), calls[r]) /\ Working(Work(ss[r]))
           /\ Work(ss[r]).s = ss[r] /\ Work(ss[r]).out = <<>>
<1>1. LocalInv(r, ss[r], calls[r]) /\ Shared(r, ss[r]) /\ DOMAIN ss[r] = SessionFields
  BY DEF SInv, LocalInv, CoreInv
<1>2. <<>> \in Seq(Range(<<>>)) /\ Range(<<>>) = {}
  BY EmptySeq DEF Range
<1>3. InTurn(r, Work(ss[r]))
  BY <1>1, <1>2 DEF InTurn, Work, Rising, LocalInv, CoreInv, NumberInv
<1>. QED  BY <1>1, <1>2, <1>3 DEF Ongoing, Told, Sourced, Working, Work

LEMMA HeardOngoing ==
    ASSUME NEW r \in Roles, NEW m, SInv, m.seq \in Nat, Valid(r, m),
           net[r] # <<>>, m = Head(net[r])
    PROVE  LET w == Heard(r, m)
           IN  /\ Ongoing(r, w, calls[r]) /\ Working(w) /\ w.out = <<>>
               /\ Same(ss[r], w.s, SessionFields \ {"lastPostSeq"})
               /\ Validates(r, m) => w.s.lastPostSeq = m.seq
<1>. DEFINE t == [ss[r] EXCEPT !.lastPostSeq = m.seq]
            w == Heard(r, m)
<1>1. /\ LocalInv(r, ss[r], calls[r]) /\ Shared(r, ss[r]) /\ DOMAIN ss[r] = SessionFields
      /\ Ongoing(r, Work(ss[r]), calls[r])
  BY WorkOngoing DEF SInv, LocalInv, CoreInv
<1>2. CASE ~Validates(r, m)
  <2>1. w = Work(ss[r])
    BY <1>2 DEF Heard
  <2>. QED  BY <1>2, <2>1, WorkOngoing DEF Same
<1>3. CASE Validates(r, m)
  <2>1. w = Work(t)
    BY <1>3 DEF Heard
  <2>2. /\ DOMAIN t = SessionFields /\ t.lastPostSeq = m.seq /\ t.post = ss[r].post
        /\ Same(ss[r], t, SessionFields \ {"lastPostSeq"})
    BY <1>1 DEF SessionFields, Same
  <2>3. m.seq >= ss[r].lastPostSeq
    BY <1>3 DEF Valid, InOrder
  <2>. HIDE DEF t
  <2>4. LocalInv(r, t, calls[r])
    BY <1>1, <2>2, <2>3, HeardKeeps
  <2>5. Working(Work(t)) /\ Work(t).s = t /\ Work(t).out = <<>>
    BY <2>2 DEF Working, Work
  <2>6. Told(r, Work(t))
    <3>1. Told(r, Work(ss[r])) /\ Work(ss[r]).s = ss[r] /\ Work(ss[r]).out = <<>>
      BY WorkOngoing DEF Ongoing
    <3>2. InTurn(r, Work(t))
      <4>1. t.postSeq = ss[r].postSeq /\ t.state = ss[r].state
        BY <2>2 DEF Same, SessionFields
      <4>. QED  BY <2>2, <2>5, <3>1, <4>1 DEF Told, InTurn
    <3>. QED  BY <2>2, <2>5, <3>1, <3>2 DEF Told, Sourced, Shared, Sendable, Working
  <2>. QED  BY <2>1, <2>2, <2>4, <2>5, <2>6 DEF Ongoing
<1>. QED  BY <1>2, <1>3

LEMMA HeadGenuine ==
    ASSUME NEW r \in Roles, SInv, net[r] # <<>>
    PROVE  Genuine(Other(r), Head(net[r])) /\ Head(net[r]).from = Other(r)
<1>1. Head(net[r]) \in Range(net[r])
  BY RangeTail DEF SInv
<1>2. Genuine(Other(r), Head(net[r]))
  BY <1>1 DEF SInv
<1>3. ASSUME NEW q, NEW m, Genuine(q, m)
      PROVE  m.from = q
  BY <1>3 DEF Genuine, Message
<1>. QED  BY <1>2, <1>3

LEMMA LockedSids ==
    ASSUME SInv
    PROVE  TrueSid \in Sids /\ \A r \in Roles : Locked(r) => hs[r].sid = TrueSid
BY DEF SInv, HandshakeInv, TrueSid, Sids, Roles

\* What a handler knows of the message it takes: the peer recorded it, unless it
\* is an offer that was given a flaw.
Took(r, type, m, w) ==
    LET p == Other(r)
    IN  /\ net[r] # <<>> /\ m = Head(net[r])
        /\ m.type = type /\ m.from = p /\ m.seq \in Nat
        /\ Locked(r) /\ Locked(p) /\ hs[r].sid = TrueSid /\ hs[p].sid = TrueSid
        /\ m.sid = hs[r].sid
        /\ \/ RecordOf(m) \in Range(ss[p].post)
           \/ type = "capsule_offer" /\ m.body.flaw \in CapsuleFlaws
        /\ RecordOf(m).type = type /\ RecordOf(m).from = p /\ RecordOf(m).body = m.body
        /\ Ongoing(r, w, calls[r]) /\ Working(w) /\ w.s.state = StageOf[type]
        /\ type \in {"txB_broadcast", "txA_broadcast"} \/ m.seq <= w.s.lastPostSeq
        /\ w.out = <<>> /\ Same(ss[r], w.s, SessionFields \ {"lastPostSeq"})
        /\ LocalInv(p, ss[p], calls[p]) /\ p \in Roles /\ p # r

LEMMA Taken ==
    ASSUME NEW r \in Roles, NEW type \in DOMAIN StageOf, SInv, Takes(r, type)
    PROVE  Took(r, type, Head(net[r]), Heard(r, Head(net[r])))
<1>. DEFINE m == Head(net[r])
            w == Heard(r, m)
            p == Other(r)
<1>1. /\ net[r] # <<>> /\ m.type = type /\ ss[r].state = StageOf[type] /\ Valid(r, m)
  BY DEF Takes
<1>2. Genuine(p, m) /\ m.from = p
  BY <1>1, HeadGenuine
<1>3. p \in Roles /\ p # r /\ LocalInv(p, ss[p], calls[p]) /\ LocalInv(r, ss[r], calls[r])
  BY OtherRole DEF SInv
<1>h. m = Head(net[r])
  OBVIOUS
<1>. HIDE DEF m, p
<1>4. /\ m.seq \in Nat /\ Locked(p) /\ m.sid = hs[p].sid
      /\ RecordOf(m) \in Range(ss[p].post)
         \/ (type = "capsule_offer" /\ m.body.flaw \in CapsuleFlaws)
  BY <1>1, <1>2 DEF Genuine
<1>5. Locked(r)
  BY <1>1, <1>3, StageGate DEF LocalInv, CoreInv
<1>6. hs[r].sid = TrueSid /\ hs[p].sid = TrueSid
  BY <1>3, <1>4, <1>5, LockedSids
<1>7. RecordOf(m).type = type /\ RecordOf(m).from = p /\ RecordOf(m).body = m.body
  BY <1>1, <1>2 DEF RecordOf
<1>8. /\ Ongoing(r, w, calls[r]) /\ Working(w) /\ w.out = <<>>
      /\ Same(ss[r], w.s, SessionFields \ {"lastPostSeq"})
      /\ Validates(r, m) => w.s.lastPostSeq = m.seq
  BY <1>1, <1>4, <1>h, HeardOngoing
<1>9. w.s.state = StageOf[type]
  BY <1>1, <1>8 DEF Same, SessionFields
<1>10. type \in {"txB_broadcast", "txA_broadcast"} \/ Validates(r, m)
  BY <1>1, PostTypes DEF Validates, StageOf
<1>11. type \in {"txB_broadcast", "txA_broadcast"} \/ m.seq <= w.s.lastPostSeq
  BY <1>4, <1>8, <1>10
<1>. QED
  BY <1>1, <1>2, <1>3, <1>4, <1>5, <1>6, <1>7, <1>8, <1>9, <1>11, <1>h DEF m, p, Took

LEMMA ReturnsHears ==
    ASSUME NEW r \in Roles, NEW w, SInv, Returns(r, w), net[r] # <<>>
    PROVE  Hearing(r)
<1>1. Other(r) # r /\ DOMAIN net = Roles
  BY OtherRole DEF SInv
<1>. QED  BY <1>1 DEF Returns, Consume, Hearing

LEMMA HandlerEnds ==
    ASSUME NEW r \in Roles, NEW w, SInv, net[r] # <<>>, Ongoing(r, w, calls[r]),
           Returns(r, w), UNCHANGED SessionRest
    PROVE  SInv' /\ Tells(r)
<1>1. /\ calls' = calls /\ UNCHANGED <<params, nonce, hs, faults, mutator>>
      /\ calls = [calls EXCEPT ![r] = calls[r]]
  BY DEF SessionRest, SInv
<1>. QED  BY <1>1, TurnEnds
-----------------------------------------------------------------------------
(* The check... functions *)

LEMMA PassStep ==
    ASSUME NEW r \in Roles, NEW w, NEW event, NEW state, NEW c,
           Told(r, w), CoreInv(r, w.s, c), PlanInv(r, w.s) \/ event = "EXECUTION_PLANNED",
           Reaches(event, w.s.state, state), Ready(r, w.s, event)
    PROVE  LET v == Enter(Reach(w, event), state)
           IN  /\ Ongoing(r, v, c) /\ Working(v) /\ v.s.state = state
               /\ v.s.post = w.s.post
               /\ Same(w.s, v.s, SessionFields \ {"state", "milestones"})
<1>. DEFINE v == Enter(Reach(w, event), state)
<1>1. Working(w)
  BY DEF Told, Working
<1>2. /\ Working(v) /\ v.out = w.out /\ Advances(w.s, v.s, event) /\ v.s.state = state
      /\ v.s.post = w.s.post
  BY <1>1, PassEffect
<1>. HIDE DEF v
<1>3. LocalInv(r, v.s, c)
  BY <1>2, Advanced DEF LocalInv
<1>4. Told(r, v)
  <2>1. v.s.postSeq = w.s.postSeq /\ Onward(w, v)
    BY <1>2 DEF Onward, Advances, Same, SessionFields, Reaches
  <2>. QED  BY <1>2, <2>1, SameStep
<1>. QED  BY <1>2, <1>3, <1>4 DEF Ongoing, Advances, v

LEMMA CheckCapsulesVerifiedKeeps ==
    ASSUME NEW r \in Roles, NEW w, NEW c, Ongoing(r, w, c),
           w.s.state = "CAPSULES_EXCHANGE"
    PROVE  Ongoing(r, CheckCapsulesVerified(w), c)
<1>1. ASSUME w.s.capsuleReceived, w.s.capsuleAcked
      PROVE  Ongoing(r, Enter(Reach(w, "CAPSULES_VERIFIED"), "FUNDING"), c)
  <2>1. Ready(r, w.s, "CAPSULES_VERIFIED") /\ Reaches("CAPSULES_VERIFIED", w.s.state, "FUNDING")
    BY <1>1 DEF Ready, Met, Reaches
  <2>. QED  BY <2>1, PassStep DEF Ongoing, LocalInv
<1>. QED  BY <1>1 DEF CheckCapsulesVerified

LEMMA CheckFundingCompleteKeeps ==
    ASSUME NEW r \in Roles, NEW w, NEW c, Ongoing(r, w, c), w.s.state = "FUNDING"
    PROVE  Ongoing(r, CheckFundingComplete(w), c)
<1>1. ASSUME \A which \in Roles : w.s.fundingConfirmed[which] /\ w.s.fundingTx[which] # None
      PROVE  Ongoing(r, Enter(Reach(w, "FUNDED"), "EXEC_PREP"), c)
  <2>1. Ready(r, w.s, "FUNDED") /\ Reaches("FUNDED", w.s.state, "EXEC_PREP")
    BY <1>1 DEF Ready, Met, Reaches
  <2>. QED  BY <2>1, PassStep DEF Ongoing, LocalInv
<1>. QED  BY <1>1 DEF CheckFundingComplete

LEMMA CheckExecReadyKeeps ==
    ASSUME NEW r \in Roles, NEW w, NEW c, Ongoing(r, w, c), w.s.state = "EXEC_PREP"
    PROVE  Ongoing(r, CheckExecReady(r, w), c)
<1>. DEFINE digests == TemplatesOf(r, w.s)
            ready == [Reach(w, "EXEC_READY") EXCEPT !.s.templates = digests]
            body == CommitBody(r, digests)
            sent == Send(r, ready, "tx_template_commit", body)
            v == Enter(sent, "EXEC_TEMPLATES_SYNC")
            k == Enter(ready, "EXEC_TEMPLATES_SYNC")
            m == NextMessage(r, k, "tx_template_commit", body)
<1>1. ASSUME w.s.localNonces # None, w.s.localNonces = w.s.peerNonces,
             w.s.feeParams # None, w.s.feeAcked
      PROVE  Ongoing(r, v, c)
  <2>1. Working(w) /\ LocalInv(r, w.s, c) /\ Told(r, w)
    BY DEF Ongoing, Told, Working
  <2>2. /\ Working(ready) /\ ready.out = w.out /\ ready.s.templates = digests
        /\ ready.s.milestones = [w.s.milestones EXCEPT !["EXEC_READY"] = w.s.post]
        /\ Same(w.s, ready.s, SessionFields \ {"milestones", "templates"})
    BY <2>1 DEF Reach, Working, SessionFields, Same
  <2>3. /\ Working(sent)
        /\ sent.out = Append(w.out, NextMessage(r, ready, "tx_template_commit", body))
        /\ sent.s.post = Append(ready.s.post,
                        RecordOf(NextMessage(r, ready, "tx_template_commit", body)))
        /\ sent.s.postSeq = ready.s.postSeq + 1
        /\ Same(ready.s, sent.s, SessionFields \ {"post", "postSeq"})
    <3>. HIDE DEF ready, body
    <3>1. Appended(r, ready, sent, "tx_template_commit", body)
      BY <2>2, SendEffect
    <3>. QED  BY <2>2, <3>1 DEF Appended
  <2>4. /\ Working(k) /\ k.out = w.out /\ k.s.state = "EXEC_TEMPLATES_SYNC"
        /\ Same(ready.s, k.s, SessionFields \ {"state"})
    <3>. HIDE DEF ready
    <3>. QED  BY <2>2, EnterEffect
  <2>5. /\ Working(v) /\ v.out = sent.out /\ v.s.state = "EXEC_TEMPLATES_SYNC"
        /\ Same(sent.s, v.s, SessionFields \ {"state"})
    <3>. HIDE DEF sent
    <3>. QED  BY <2>3, EnterEffect
  <2>. HIDE DEF ready, sent, k, v, body, digests
  <2>6. /\ DOMAIN k.s = SessionFields /\ k.s.templates = digests
        /\ Same(w.s, k.s, SessionFields \ {"state", "milestones", "templates"})
        /\ k.s.milestones = [w.s.milestones EXCEPT !["EXEC_READY"] = w.s.post]
        /\ k.s.post = w.s.post /\ k.s.post = ready.s.post /\ k.s.postSeq = ready.s.postSeq
    BY <2>2, <2>4 DEF Same, SessionFields, Working
  <2>d. TemplatesOf(r, w.s) \in Digests
    <3>1. /\ hs[r].sid \in Sids /\ w.s.localNonces \in NonceReports
          /\ w.s.feeParams \in FeeChoices
      BY <1>1, <2>1 DEF LocalInv, CoreInv, StateInv, PrepInv
    <3>. QED  BY <3>1 DEF TemplatesOf, Digests
  <2>7. LocalInv(r, k.s, c) /\ From(k.s, "tx_template_commit", r) = {}
    BY <1>1, <2>1, <2>4, <2>6, <2>d, ExecAdvanced DEF digests
  <2>8. Told(r, k)
    <3>1. k.s.postSeq = w.s.postSeq /\ Onward(w, k)
      BY <1>1, <2>6 DEF Onward, Same, SessionFields
    <3>. QED  BY <2>1, <2>4, <2>6, <3>1, SameStep
  <2>9. m = NextMessage(r, ready, "tx_template_commit", body)
    BY <2>6 DEF NextMessage
  <2>10. /\ m.type = "tx_template_commit" /\ m.body = body
         /\ RecordOf(m).type = "tx_template_commit" /\ RecordOf(m).body = body
         /\ RecordOf(m).from = r /\ RecordOf(m).seq = k.s.postSeq
    BY DEF NextMessage, Message, RecordOf
  <2>. HIDE DEF m
  <2>11. /\ v.out = Append(k.out, m) /\ v.s.post = Append(k.s.post, RecordOf(m))
         /\ v.s.postSeq = k.s.postSeq + 1
         /\ Same(k.s, v.s, SessionFields \ {"post", "postSeq"})
    BY <2>3, <2>4, <2>5, <2>6, <2>9 DEF Same, SessionFields
  <2>12. /\ "tx_template_commit" \in DOMAIN StageOf
         /\ StageOf["tx_template_commit"] = "EXEC_TEMPLATES_SYNC"
    BY DEF StageOf
  <2>13. Locked(r) /\ NumberInv(r, k.s)
    BY <2>4, <2>7 DEF LocalInv, CoreInv, StateInv
  <2>14. Told(r, v)
    <3>1. Onward(k, v)
      BY <2>4, <2>5, <2>11 DEF Onward, Same, SessionFields
    <3>2. ~Refusal(RecordOf(m))
      BY <2>10 DEF Refusal
    <3>. QED  BY <2>5, <2>8, <2>11, <2>12, <2>13, <3>1, <3>2, SendStep DEF m
  <2>15. Issued(r, k.s, v.s, RecordOf(m), {})
    BY <2>4, <2>5, <2>10, <2>11, <2>12 DEF Issued, Refusal, Working
  <2>16. LocalInv(r, v.s, c)
    BY <2>6, <2>7, <2>10, <2>15, CommitSent DEF body
  <2>. QED  BY <2>14, <2>16 DEF Ongoing
<1>. HIDE DEF v
<1>2. Ongoing(r, EmitAbort(r, w, "PROTOCOL_ERROR"), c)
  BY AbortStep
<1>3. w.s.feeAcked \in BOOLEAN
  BY DEF Ongoing, LocalInv, CoreInv, PrepInv
<1>. QED  BY <1>1, <1>2, <1>3 DEF CheckExecReady, v

AdaptorTypes == {"adaptor_start", "adaptor_resp", "adaptor_ack"}

Unopened(s, leg) ==
    \A type \in AdaptorTypes : \A q : FromLeg(s, type, q, leg) = {}

LEMMA StartLegKeeps ==
    ASSUME NEW w, NEW c, NEW l \in Legs, Ongoing("alice", w, c),
           w.s.state = "ADAPTOR_NEGOTIATING", w.s.templates \in Digests,
           Unopened(w.s, l)
    PROVE  LET v == StartLeg("alice", w, l)
           IN  /\ Ongoing("alice", v, c) /\ v.s.state = "ADAPTOR_NEGOTIATING"
               /\ v.s.templates \in Digests
               /\ \A leg \in Legs \ {l} : Unopened(w.s, leg) => Unopened(v.s, leg)
<1>. DEFINE T == AdaptorT(l, w.s.templates)
            k == [w EXCEPT !.s.legs[l].T = T]
            body == [which |-> l, digests |-> w.s.templates, T |-> T]
            v == Send("alice", k, "adaptor_start", body)
<1>1. Working(w) /\ LocalInv("alice", w.s, c) /\ "alice" \in Roles
  BY DEF Ongoing, Told, Working, Roles
<1>2. /\ Working(k) /\ k.out = w.out /\ Same(w.s, k.s, SessionFields \ {"legs"})
      /\ k.s.legs = [w.s.legs EXCEPT ![l].T = T]
  BY <1>1 DEF Working, SessionFields, Same
<1>3. T \in Legs \X Digests /\ T # None
  <2>1. <<l, w.s.templates>> \in Legs \X Digests
    OBVIOUS
  <2>. QED  BY <2>1, SessionAssumption DEF AdaptorT
<1>. HIDE DEF T, k
<1>4. MaySend("alice", w, k, "adaptor_start", body, {"legs"})
  BY <1>2 DEF MaySend, StageOf, Bookkeeping
<1>5. DidSend("alice", w, k, v, "adaptor_start", body, {"legs"})
  BY <1>1, <1>4, SendMessage
<1>6. PICK x : /\ Issued("alice", w.s, v.s, x, {"legs"})
               /\ x.type = "adaptor_start" /\ x.body = body
  BY <1>5 DEF DidSend
<1>7. v = StartLeg("alice", w, l)
  BY DEF StartLeg, T, k
<1>. HIDE DEF v
<1>8. v.s.legs = [w.s.legs EXCEPT ![l].T = T] /\ v.s.templates = w.s.templates
      /\ v.s.state = w.s.state
  BY <1>2, <1>5 DEF DidSend, Same, SessionFields
<1>9. LocalInv("alice", v.s, c)
  <2>1. x.body.T = T /\ x.body = [which |-> l, digests |-> w.s.templates, T |-> x.body.T]
    BY <1>6
  <2>. HIDE DEF body
  <2>. QED  BY <1>1, <1>3, <1>6, <1>8, <2>1, StartSent DEF AdaptorTypes, Unopened
<1>10. ASSUME NEW type \in AdaptorTypes, NEW q, NEW leg \in Legs \ {l}
       PROVE  FromLeg(v.s, type, q, leg) = FromLeg(w.s, type, q, leg)
  <2>1. x.body.which # leg
    BY <1>6
  <2>2. Range(v.s.post) = Range(w.s.post) \cup {x}
    BY <1>1, <1>6, RangeAppend DEF Issued, LocalInv, CoreInv, NumberInv
  <2>. QED  BY <2>1, <2>2 DEF FromLeg, From
<1>. QED  BY <1>5, <1>7, <1>8, <1>9, <1>10 DEF Ongoing, DidSend, Unopened

LEMMA CheckTemplatesReadyKeeps ==
    ASSUME NEW r \in Roles, NEW w, NEW c, Ongoing(r, w, c),
           w.s.state = "EXEC_TEMPLATES_SYNC", w.s.templates \in Digests
    PROVE  Ongoing(r, CheckTemplatesReady(r, w), c)
<1>. DEFINE ready == Enter(Reach(w, "EXEC_TEMPLATES_READY"), "ADAPTOR_NEGOTIATING")
            first == StartLeg("alice", ready, "B")
            second == StartLeg("alice", first, "A")
<1>1. ASSUME w.s.peerCommitHash # None, w.s.localCommitAcked
      PROVE  Ongoing(r, ready, c) /\ (r = "alice" => Ongoing(r, second, c))
  <2>1. /\ Ready(r, w.s, "EXEC_TEMPLATES_READY")
        /\ Reaches("EXEC_TEMPLATES_READY", w.s.state, "ADAPTOR_NEGOTIATING")
    BY <1>1 DEF Ready, Met, Reaches
  <2>2. /\ Ongoing(r, ready, c) /\ ready.s.state = "ADAPTOR_NEGOTIATING"
        /\ ready.s.post = w.s.post
        /\ Same(w.s, ready.s, SessionFields \ {"state", "milestones"})
    BY <2>1, PassStep DEF Ongoing, LocalInv
  <2>. HIDE DEF ready
  <2>3. ready.s.templates \in Digests
    BY <2>2 DEF Same, SessionFields
  <2>4. \A leg : Unopened(ready.s, leg)
    <3>1. ~Passed(w.s, "EXEC_TEMPLATES_READY") /\ LogInv(w.s)
      BY DEF Ongoing, LocalInv, CoreInv, StateInv
    <3>2. /\ OpenedBy["adaptor_start"] = "EXEC_TEMPLATES_READY"
          /\ OpenedBy["adaptor_resp"] = "EXEC_TEMPLATES_READY"
          /\ OpenedBy["adaptor_ack"] = "EXEC_TEMPLATES_READY"
      BY DEF OpenedBy
    <3>3. \A y \in Range(ready.s.post) : y.type \notin AdaptorTypes
      BY <2>2, <3>1, <3>2 DEF LogInv, AdaptorTypes
    <3>. QED  BY <3>3 DEF FromLeg, From, Unopened
  <2>5. CASE r = "alice"
    <3>1. "B" \in Legs /\ "A" \in Legs \ {"B"} /\ "A" \in Legs
      BY DEF Legs
    <3>2. /\ Ongoing("alice", first, c) /\ first.s.state = "ADAPTOR_NEGOTIATING"
          /\ first.s.templates \in Digests
          /\ Unopened(first.s, "A")
      BY <2>2, <2>3, <2>4, <2>5, <3>1, StartLegKeeps
    <3>. HIDE DEF first
    <3>3. Ongoing("alice", second, c)
      BY <3>1, <3>2, StartLegKeeps
    <3>. QED  BY <2>2, <2>5, <3>3
  <2>. QED  BY <2>2, <2>5
<1>2. w.s.localCommitAcked \in BOOLEAN
  BY DEF Ongoing, LocalInv, CoreInv, TemplateInv
<1>. QED  BY <1>1, <1>2 DEF CheckTemplatesReady
=============================================================================
