----------------------- MODULE HandshakeRuntimeProofs -----------------------
(***************************************************************************)
(* Proofs about HandshakeRuntime, for every value of its constants: any    *)
(* parameters, any nonces, any kinds of fault and any number of them.      *)
(*                                                                         *)
(* The inductive invariant IInv says of each party what its runtime may    *)
(* hold (Sound) and of each inbox what may travel to it (Traffic).  Every  *)
(* step of a party replaces its runtime by another sound one and sends     *)
(* genuine messages (LocalStep, StartStep); every step of the network      *)
(* leaves an inbox a sequence of the same messages (FaultStep).            *)
(*                                                                         *)
(* A second invariant, AckInv, says what an ack is worth: whoever has seen *)
(* one, or has one on its way, has a peer that sent it, and no runtime     *)
(* sends one before it has seen a hello.                                   *)
(*                                                                         *)
(* TranscriptInv and OrderlyInv follow the statements of a handler in the  *)
(* same way: recording a message of the peer's, recording one's own, and   *)
(* the two calls a handler ends with.                                      *)
(***************************************************************************)
EXTENDS HandshakeInvariant, SequenceTheorems, FiniteSetTheorems, TLAPS

-----------------------------------------------------------------------------
(* Roles and sequences *)

\* The two roles are each other's peers.
LEMMA OtherRole ==
    ASSUME NEW r \in Roles
    PROVE  /\ Other(r) \in Roles /\ Other(r) # r /\ Other(Other(r)) = r
           /\ \A q \in Roles : q = r \/ q = Other(r)
BY DEF Roles, Other

\* Repeating one element of a sequence leaves its elements in the same set.
LEMMA DuplicateSeq ==
    ASSUME NEW S, NEW s \in Seq(S), NEW i \in DOMAIN s
    PROVE  SubSeq(s, 1, i) \o SubSeq(s, i, Len(s)) \in Seq(S)
<1>1. i \in 1 .. Len(s) /\ \A j \in 1 .. Len(s) : s[j] \in S
  BY LenProperties, ElementOfSeq
<1>2. SubSeq(s, 1, i) \in Seq(S) /\ SubSeq(s, i, Len(s)) \in Seq(S)
  BY <1>1, LenProperties, SubSeqProperties
<1>. QED  BY <1>2, ConcatProperties

\* So does leaving one out.
LEMMA LoseSeq ==
    ASSUME NEW S, NEW s \in Seq(S), NEW i \in DOMAIN s
    PROVE  SubSeq(s, 1, i - 1) \o SubSeq(s, i + 1, Len(s)) \in Seq(S)
<1>1. i \in 1 .. Len(s) /\ Len(s) \in Nat /\ \A j \in 1 .. Len(s) : s[j] \in S
  BY LenProperties, ElementOfSeq
<1>2. SubSeq(s, 1, i - 1) \in Seq(S)
  <2>1. i - 1 \in Int /\ \A j \in 1 .. i - 1 : s[j] \in S  BY <1>1
  <2>. QED  BY <2>1, SubSeqProperties
<1>3. SubSeq(s, i + 1, Len(s)) \in Seq(S)
  <2>1. i + 1 \in Int /\ \A j \in i + 1 .. Len(s) : s[j] \in S  BY <1>1
  <2>. QED  BY <1>1, <2>1, SubSeqProperties
<1>. QED  BY <1>2, <1>3, ConcatProperties

\* A sequence of its own elements: what appending does to their set.
LEMMA RangeAppend ==
    ASSUME NEW s, s \in Seq(Range(s)), NEW x
    PROVE  /\ Append(s, x) \in Seq(Range(Append(s, x)))
           /\ Range(Append(s, x)) = Range(s) \cup {x}
           /\ Append(s, x) # <<>>
<1>1. /\ DOMAIN s = 1 .. Len(s) /\ Len(s) \in Nat
      /\ s \in Seq(Range(s) \cup {x})
  BY LenProperties, SeqMonotonic
<1>2. /\ Append(s, x) \in Seq(Range(s) \cup {x})
      /\ Len(Append(s, x)) = Len(s) + 1
      /\ \A i \in 1 .. Len(s) : Append(s, x)[i] = s[i]
      /\ Append(s, x)[Len(s) + 1] = x
  BY <1>1, AppendProperties
<1>3. DOMAIN Append(s, x) = 1 .. Len(s) + 1
  BY <1>2, LenProperties
<1>4. Range(Append(s, x)) = Range(s) \cup {x}
  BY <1>1, <1>2, <1>3 DEF Range
<1>. QED  BY <1>2, <1>4, EmptySeq

LEMMA DistinctAppend ==
    ASSUME NEW s, s \in Seq(Range(s)), Distinct(s), NEW x, x \notin Range(s)
    PROVE  Distinct(Append(s, x))
<1>1. /\ DOMAIN s = 1 .. Len(s) /\ Len(s) \in Nat
      /\ s \in Seq(Range(s) \cup {x})
  BY LenProperties, SeqMonotonic
<1>2. /\ Append(s, x) \in Seq(Range(s) \cup {x})
      /\ Len(Append(s, x)) = Len(s) + 1
      /\ \A i \in 1 .. Len(s) : Append(s, x)[i] = s[i]
      /\ Append(s, x)[Len(s) + 1] = x
  BY <1>1, AppendProperties
<1>3. DOMAIN Append(s, x) = 1 .. Len(s) + 1
  BY <1>2, LenProperties
<1>4. \A i \in 1 .. Len(s) : s[i] # x
  BY <1>1 DEF Range
<1>. QED  BY <1>1, <1>2, <1>3, <1>4 DEF Distinct

LEMMA RangeConcat ==
    ASSUME NEW s, s \in Seq(Range(s)), NEW t, t \in Seq(Range(t))
    PROVE  /\ s \o t \in Seq(Range(s \o t))
           /\ Range(s \o t) = Range(s) \cup Range(t)
<1>1. s \in Seq(Range(s) \cup Range(t)) /\ t \in Seq(Range(s) \cup Range(t))
  BY SeqMonotonic
<1>2. s \o t \in Seq(Range(s) \cup Range(t))
  BY <1>1, ConcatProperties
<1>. QED  BY <1>1, <1>2, RangeConcatenation, SeqOfRange

LEMMA RangeTail ==
    ASSUME NEW s, s \in Seq(Range(s)), s # <<>>
    PROVE  /\ Head(s) \in Range(s)
           /\ Tail(s) \in Seq(Range(Tail(s))) /\ Range(Tail(s)) \subseteq Range(s)
<1>1. Head(s) \in Range(s) /\ Tail(s) \in Seq(Range(s))
  BY HeadTailProperties
<1>. QED  BY <1>1, SeqOfRange, RangeOfSeq

\* The hash of a transcript without repetitions is the set of its records.
LEMMA HashOfDistinct ==
    ASSUME NEW t, Distinct(t)
    PROVE  TranscriptHash(t) = [x \in Range(t) |-> 1]
<1>1. ASSUME NEW x \in Range(t)
      PROVE  Cardinality({i \in DOMAIN t : t[i] = x}) = 1
  <2>1. PICK i \in DOMAIN t : t[i] = x
    BY DEF Range
  <2>2. {j \in DOMAIN t : t[j] = x} = {i}
    BY <2>1 DEF Distinct
  <2>. QED  BY <2>2, FS_Singleton
<1>. QED  BY <1>1 DEF TranscriptHash

-----------------------------------------------------------------------------
(* How a step keeps the invariant *)

\* A pair of clients starts in IInv.
LEMMA Initially == Init => IInv
<1>. SUFFICES ASSUME Init PROVE IInv  OBVIOUS
<1>1. Created \in Runtimes
  BY DEF Created, Runtimes, States, NoSid
<1>2. \A r \in Roles : Created \in Sound(r)
  BY <1>1 DEF Sound, PeerDataOK, LockOK, NumberOK, Created, NoSid
<1>3. TypeOK
  BY <1>1, HandshakeAssumption DEF Init, TypeOK, Created
<1>. QED  BY <1>2, <1>3 DEF Init, IInv

\* computeSid of genuine data, by either role, is the sid of the pair.
LEMMA SidGenuine ==
    ASSUME IInv, NEW r \in Roles, params[Other(r)] = params[r]
    PROVE  /\ SidOf(r, nonce[Other(r)]) = TrueSid
           /\ TrueSid \in Sids /\ TrueSid # NoSid
<1>1. TrueSid \in Sids
  BY DEF IInv, TypeOK, Roles, TrueSid, Sids
<1>2. TrueSid # NoSid
  BY DEF TrueSid, NoSid
<1>. QED  BY <1>1, <1>2 DEF Roles, Other, SidOf, TrueSid

\* IInv of the next state, from its parts.
LEMMA Reassemble ==
    ASSUME IInv, UNCHANGED <<params, nonce>>, faults' \in 0 .. MaxFaults,
           DOMAIN hs' = Roles, hs' = [q \in Roles |-> hs'[q]],
           \A q \in Roles : hs'[q] \in Sound(q),
           net' = [q \in Roles |-> net'[q]],
           \A q \in Roles : net'[q] \in Seq(Traffic(Other(q)))
    PROVE  IInv'
<1>1. \A q \in Roles : Sound(q)' = Sound(q) /\ Traffic(q)' = Traffic(q)
  BY DEF Sound, Traffic, PeerDataOK, LockOK, NumberOK, TrueSid, Greeting, Messages, Runtimes,
         Records, Bodies
<1>2. \A q \in Roles : hs'[q] \in Runtimes /\ (hs'[q].sid # NoSid <=> hs'[q].state = "LOCKED")
  BY DEF Sound, LockOK
<1>3. \A q \in Roles : net'[q] \in Seq(Messages)
  <2>. TAKE q \in Roles
  <2>1. Traffic(Other(q)) \subseteq Messages  BY DEF Traffic
  <2>. QED  BY <2>1, SeqMonotonic
<1>4. TypeOK'
  BY <1>2, <1>3 DEF IInv, TypeOK
<1>. QED  BY <1>1, <1>4, OtherRole DEF IInv

\* A call that leaves a sound runtime and sends genuine messages keeps IInv.
LEMMA LocalStep ==
    ASSUME IInv, NEW r \in Roles, net[r] # <<>>,
           NEW s \in Sound(r), hs' = [hs EXCEPT ![r] = s],
           NEW out \in Seq(Traffic(r)), Consume(r, out),
           UNCHANGED <<params, nonce, faults>>
    PROVE  IInv'
<1>1. Tail(net[r]) \in Seq(Traffic(Other(r)))
  BY HeadTailProperties DEF IInv
<1>2. net[Other(r)] \o out \in Seq(Traffic(r))
  BY OtherRole, ConcatProperties DEF IInv
<1>3. /\ net' = [q \in Roles |-> net'[q]]
      /\ \A q \in Roles : net'[q] \in Seq(Traffic(Other(q)))
  BY <1>1, <1>2, OtherRole DEF IInv, TypeOK, Consume, Roles, Other
<1>4. DOMAIN hs' = Roles /\ hs' = [q \in Roles |-> hs'[q]] /\ \A q \in Roles : hs'[q] \in Sound(q)
  BY DEF IInv, TypeOK
<1>. QED  BY <1>3, <1>4, Reassemble DEF IInv, TypeOK

-----------------------------------------------------------------------------
(* Sound runtimes *)

\* Recording a message keeps the transcript a sequence of records.
LEMMA RecordAdded ==
    ASSUME NEW r \in Roles, NEW s \in Sound(r), NEW m \in Messages
    PROVE  /\ RecordOf(m) \in Records
           /\ Append(s.transcript, RecordOf(m)) \in Seq(Records)
<1>1. RecordOf(m) \in Records
  BY DEF RecordOf, Messages, Records
<1>2. s.transcript \in Seq(Records)
  BY DEF Sound, Runtimes
<1>. QED  BY <1>1, <1>2, AppendProperties

\* Recording a message of one's own under the next number keeps NumberOK.
LEMMA AppendOwn ==
    ASSUME NEW r \in Roles, NEW s, NumberOK(r, s),
           s.transcript \in Seq(Records), s.seq \in Nat,
           NEW x \in Records, x.from = r, x.seq = s.seq,
           NEW t, t.transcript = Append(s.transcript, x), t.seq = s.seq + 1
    PROVE  NumberOK(r, t)
<1>1. /\ DOMAIN s.transcript = 1 .. Len(s.transcript)
      /\ Len(s.transcript) \in Nat
      /\ DOMAIN t.transcript = 1 .. Len(s.transcript) + 1
      /\ \A i \in 1 .. Len(s.transcript) : t.transcript[i] = s.transcript[i]
      /\ t.transcript[Len(s.transcript) + 1] = x
  BY AppendProperties, LenProperties
<1>2. \A i \in 1 .. Len(s.transcript) : s.transcript[i].seq \in Nat
  <2>. TAKE i \in 1 .. Len(s.transcript)
  <2>1. s.transcript[i] \in Records  BY ElementOfSeq
  <2>. QED  BY <2>1 DEF Records
<1>. QED  BY <1>1, <1>2 DEF NumberOK

\* Recording a message of the peer keeps NumberOK.
LEMMA AppendPeer ==
    ASSUME NEW r \in Roles, NEW s, NumberOK(r, s), s.transcript \in Seq(Records),
           NEW x \in Records, x.from # r,
           NEW t, t.transcript = Append(s.transcript, x), t.seq = s.seq
    PROVE  NumberOK(r, t)
<1>1. /\ DOMAIN s.transcript = 1 .. Len(s.transcript)
      /\ Len(s.transcript) \in Nat
      /\ DOMAIN t.transcript = 1 .. Len(s.transcript) + 1
      /\ \A i \in 1 .. Len(s.transcript) : t.transcript[i] = s.transcript[i]
      /\ t.transcript[Len(s.transcript) + 1] = x
  BY AppendProperties, LenProperties
<1>. QED  BY <1>1 DEF NumberOK

\* Numbering and recording a message of one's own keeps a runtime sound.
LEMMA SentSound ==
    ASSUME NEW r \in Roles, NEW s \in Sound(r), s.state # "LOCKED",
           NEW state \in States \ {"LOCKED"},
           NEW m \in Messages, m.from = r, m.seq = s.seq
    PROVE  [s EXCEPT !.seq = @ + 1, !.state = state,
                     !.transcript = Append(@, RecordOf(m))] \in Sound(r)
<1>. DEFINE t == [s EXCEPT !.seq = @ + 1, !.state = state,
                           !.transcript = Append(@, RecordOf(m))]
<1>1. Append(s.transcript, RecordOf(m)) \in Seq(Records)
  BY RecordAdded
<1>2. s \in Runtimes /\ s.seq \in Nat /\ s.seq + 1 \in Nat /\ state \in States
  BY DEF Sound, Runtimes
<1>3. t \in Runtimes
  BY <1>1, <1>2 DEF Runtimes
<1>4. t.transcript = Append(s.transcript, RecordOf(m)) /\ t.seq = s.seq + 1
  BY <1>2 DEF Runtimes
<1>5. NumberOK(r, t)
  <2>1. RecordOf(m) \in Records /\ RecordOf(m).from = r /\ RecordOf(m).seq = s.seq
    BY RecordAdded DEF RecordOf
  <2>2. NumberOK(r, s) /\ s.transcript \in Seq(Records)
    BY DEF Sound, Runtimes
  <2>. HIDE DEF t
  <2>. QED  BY <1>2, <1>4, <2>1, <2>2, AppendOwn
<1>. QED  BY <1>3, <1>5 DEF Sound, Runtimes, PeerDataOK, LockOK

\* abort() on a sound runtime keeps IInv.
LEMMA AbortCall ==
    ASSUME IInv, NEW r \in Roles, net[r] # <<>>,
           NEW s \in Sound(r), s.state # "LOCKED",
           NEW out \in Seq(Traffic(r)),
           NEW code \in {"BAD_MESSAGE", "PROTOCOL_ERROR"},
           AbortFrom(r, s, out, code),
           UNCHANGED <<params, nonce, faults>>
    PROVE  IInv'
<1>. DEFINE m == Message(r, s.seq, s.sid, "abort", [code |-> code])
            t == [s EXCEPT !.seq = @ + 1, !.state = "ABORTED",
                           !.transcript = Append(@, RecordOf(m))]
<1>1. m \in Messages /\ m.from = r /\ m.seq = s.seq
  BY DEF Sound, Runtimes, LockOK, Message, Messages, Types, Bodies
<1>2. m \in Traffic(r)
  BY <1>1 DEF Traffic, Message
<1>3. t \in Sound(r)
  BY <1>1, SentSound DEF States
<1>4. Append(out, m) \in Seq(Traffic(r))
  BY <1>2, AppendProperties
<1>5. hs' = [hs EXCEPT ![r] = t] /\ Consume(r, Append(out, m))
  BY DEF AbortFrom
<1>. HIDE DEF t, m
<1>. QED  BY <1>3, <1>4, <1>5, LocalStep

\* tryLock() on a sound runtime keeps IInv: it locks only what is genuine.
LEMMA TryLockStep ==
    ASSUME IInv, NEW r \in Roles, net[r] # <<>>,
           NEW s \in Sound(r), s.state # "LOCKED",
           NEW out \in Seq(Traffic(r)),
           TryLock(r, s, out),
           UNCHANGED <<params, nonce, faults>>
    PROVE  IInv'
<1>1. CASE ~LockReady(s)
  BY <1>1, LocalStep DEF TryLock
<1>2. CASE LockReady(s) /\ s.peerParams # params[r]
  BY <1>2, AbortCall DEF TryLock
<1>3. CASE LockReady(s) /\ s.peerParams = params[r]
  <2>. DEFINE sid == SidOf(r, s.peerNonce)
              t == [s EXCEPT !.state = "LOCKED", !.sid = sid]
  <2>1. s.peerNonce = nonce[Other(r)] /\ params[Other(r)] = params[r]
    BY <1>3 DEF LockReady, Sound, PeerDataOK
  <2>2. sid = TrueSid /\ sid \in Sids /\ sid # NoSid /\ params["alice"] = params["bob"]
    BY <2>1, SidGenuine DEF Roles, Other
  <2>3. t \in Runtimes
    BY <2>2 DEF Sound, Runtimes, States
  <2>4. t \in Sound(r)
    BY <2>2, <2>3 DEF Sound, Runtimes, PeerDataOK, LockOK, NumberOK
  <2>5. OnLock(r, sid) \in Seq(Traffic(r))
    BY <2>2 DEF OnLock, Traffic, Message, Messages, Types, Bodies, FirstPostSeq
  <2>6. out \o OnLock(r, sid) \in Seq(Traffic(r))
    BY <2>5, ConcatProperties
  <2>7. hs' = [hs EXCEPT ![r] = t] /\ Consume(r, out \o OnLock(r, sid))
    BY <1>3 DEF TryLock
  <2>. HIDE DEF t, sid
  <2>. QED  BY <2>4, <2>6, <2>7, LocalStep
<1>. QED  BY <1>1, <1>2, <1>3

\* The message a call handles is a genuine one.
LEMMA HeadTravels ==
    ASSUME IInv, NEW r \in Roles, net[r] # <<>>
    PROVE  Head(net[r]) \in Traffic(Other(r)) /\ Head(net[r]) \in Messages
<1>1. Head(net[r]) \in Traffic(Other(r))
  BY HeadTailProperties DEF IInv
<1>. QED  BY <1>1 DEF Traffic

\* Recording the peer's message keeps a runtime sound.
LEMMA AcceptedSound ==
    ASSUME IInv, NEW r \in Roles, Open(r), NEW m \in Messages, m.from # r
    PROVE  /\ Accepted(r, m) \in Sound(r)
           /\ Accepted(r, m).state = hs[r].state
<1>. PICK s \in Sound(r) : s = hs[r]
  BY DEF IInv
<1>1. Append(s.transcript, RecordOf(m)) \in Seq(Records)
  BY RecordAdded
<1>2. /\ Accepted(r, m) \in Runtimes
      /\ Accepted(r, m).state = s.state /\ Accepted(r, m).seq = s.seq
      /\ Accepted(r, m).transcript = Append(s.transcript, RecordOf(m))
  BY <1>1 DEF Sound, Accepted, Runtimes, Messages
<1>3. NumberOK(r, Accepted(r, m))
  <2>1. RecordOf(m) \in Records /\ RecordOf(m).from # r
    BY RecordAdded DEF RecordOf
  <2>2. NumberOK(r, s) /\ s.transcript \in Seq(Records)
    BY DEF Sound, Runtimes
  <2>. QED  BY <1>2, <2>1, <2>2, AppendPeer
<1>. QED  BY <1>2, <1>3 DEF Sound, PeerDataOK, LockOK, Accepted, Runtimes

\* Storing the peer's actual parameters and nonce keeps a runtime sound.
LEMMA PeerHelloSound ==
    ASSUME IInv, NEW r \in Roles, NEW s \in Sound(r), s.state # "LOCKED",
           NEW state \in States \ {"LOCKED"}
    PROVE  [s EXCEPT !.seenPeerHello = TRUE, !.peerParams = params[Other(r)],
                     !.peerNonce = nonce[Other(r)], !.state = state] \in Sound(r)
<1>1. params[Other(r)] \in Params /\ nonce[Other(r)] \in Nonces
  BY OtherRole DEF IInv, TypeOK
<1>. QED  BY <1>1 DEF Sound, Runtimes, PeerDataOK, LockOK, NumberOK

\* So does handleHello up to its comparison of the parameters.
LEMMA GreetedSound ==
    ASSUME IInv, NEW r \in Roles, Open(r),
           NEW m \in Traffic(Other(r)), m.from # r, m.type = "hello"
    PROVE  Greeted(r, m) \in Sound(r) /\ Greeted(r, m).state # "LOCKED"
<1>1. m \in Messages /\ m.body = Greeting(Other(r))
  BY DEF Traffic
<1>2. m.body.params = params[Other(r)] /\ m.body.nonce = nonce[Other(r)]
  BY <1>1 DEF Greeting
<1>3. PICK s \in Sound(r) : s = Accepted(r, m) /\ s.state \notin {"LOCKED", "ABORTED"}
  BY <1>1, AcceptedSound DEF Open
<1>4. PICK state \in States \ {"LOCKED"} :
          state = IF s.state = "SENT_HELLO" THEN "GOT_PEER_HELLO" ELSE s.state
  BY <1>3 DEF Sound, Runtimes, States
<1>5. Greeted(r, m) = [s EXCEPT !.seenPeerHello = TRUE, !.peerParams = params[Other(r)],
                                !.peerNonce = nonce[Other(r)], !.state = state]
  BY <1>2, <1>3, <1>4 DEF Greeted
<1>6. Greeted(r, m).state = state
  BY <1>5 DEF Sound, Runtimes
<1>7. [s EXCEPT !.seenPeerHello = TRUE, !.peerParams = params[Other(r)],
                !.peerNonce = nonce[Other(r)], !.state = state] \in Sound(r)
  BY <1>3, PeerHelloSound
<1>. QED  BY <1>5, <1>6, <1>7

\* A hello or hello_ack of a party is genuine.
LEMMA GreetingMessage ==
    ASSUME IInv, NEW r \in Roles, NEW s \in Sound(r), NEW type \in {"hello", "hello_ack"}
    PROVE  /\ Message(r, s.seq, NoSid, type, Greeting(r)) \in Messages
           /\ Message(r, s.seq, NoSid, type, Greeting(r)) \in Traffic(r)
BY DEF IInv, TypeOK, Sound, Runtimes, Traffic, Message, Messages, Types, Bodies, Greeting

\* Sending the hello_ack keeps a runtime sound.
LEMMA AcknowledgedSound ==
    ASSUME NEW r \in Roles, NEW s \in Sound(r), s.state # "LOCKED",
           NEW ack \in Messages, ack.from = r, ack.seq = s.seq
    PROVE  Acknowledged(s, ack) \in Sound(r) /\ Acknowledged(s, ack).state # "LOCKED"
<1>. DEFINE t == [s EXCEPT !.seq = @ + 1, !.state = "SENT_ACK",
                           !.transcript = Append(@, RecordOf(ack))]
<1>0. t \in Sound(r)
  BY SentSound DEF States
<1>1. t \in Runtimes /\ t.state = "SENT_ACK"
  BY <1>0 DEF Sound, Runtimes
<1>2. Acknowledged(s, ack) = [t EXCEPT !.sentLocalAck = TRUE]
  BY DEF Acknowledged, Sound, Runtimes
<1>. HIDE DEF t
<1>3. [t EXCEPT !.sentLocalAck = TRUE] \in Runtimes
  BY <1>1 DEF Runtimes
<1>. QED  BY <1>0, <1>1, <1>2, <1>3 DEF Sound, Runtimes, PeerDataOK, LockOK, NumberOK

\* Noting an ack, and storing what it carries, keeps a runtime sound.
LEMMA FieldSound ==
    ASSUME IInv, NEW r \in Roles, NEW s \in Sound(r), s.state # "LOCKED",
           NEW p \in {None, params[Other(r)]}, NEW n \in {None, nonce[Other(r)]}
    PROVE  /\ [s EXCEPT !.seenPeerAck = TRUE] \in Sound(r)
           /\ [s EXCEPT !.seenPeerAck = TRUE].state # "LOCKED"
           /\ [s EXCEPT !.peerNonce = n] \in Sound(r)
           /\ [s EXCEPT !.peerNonce = n].state # "LOCKED"
           /\ [s EXCEPT !.peerParams = p] \in Sound(r)
           /\ [s EXCEPT !.peerParams = p].state # "LOCKED"
<1>1. p \in Params \cup {None} /\ n \in Nonces \cup {None}
  BY OtherRole DEF IInv, TypeOK
<1>2. /\ [s EXCEPT !.seenPeerAck = TRUE] \in Runtimes
      /\ [s EXCEPT !.peerNonce = n] \in Runtimes
      /\ [s EXCEPT !.peerParams = p] \in Runtimes
  BY <1>1 DEF Sound, Runtimes
<1>. QED  BY <1>2 DEF Sound, Runtimes, PeerDataOK, LockOK, NumberOK

\* Each runtime handleHelloAck passes on is sound.
LEMMA AckedSound ==
    ASSUME IInv, NEW r \in Roles, Open(r),
           NEW m \in Traffic(Other(r)), m.from # r, m.type = "hello_ack"
    PROVE  LET s == [Accepted(r, m) EXCEPT !.seenPeerAck = TRUE]
               n == [s EXCEPT !.peerNonce = IF @ = None THEN m.body.nonce ELSE @]
               p == [n EXCEPT !.peerParams = IF @ = None THEN m.body.params ELSE @]
           IN  /\ s \in Sound(r) /\ s.state # "LOCKED"
               /\ n \in Sound(r) /\ n.state # "LOCKED"
               /\ p \in Sound(r) /\ p.state # "LOCKED"
<1>1. m \in Messages /\ m.body = Greeting(Other(r))
  BY DEF Traffic
<1>2. m.body.params = params[Other(r)] /\ m.body.nonce = nonce[Other(r)]
  BY <1>1 DEF Greeting
<1>3. PICK a \in Sound(r) : a = Accepted(r, m) /\ a.state # "LOCKED"
  BY <1>1, AcceptedSound DEF Open
<1>. DEFINE s == [a EXCEPT !.seenPeerAck = TRUE]
            n == [s EXCEPT !.peerNonce = IF @ = None THEN m.body.nonce ELSE @]
            p == [n EXCEPT !.peerParams = IF @ = None THEN m.body.params ELSE @]
<1>4. s \in Sound(r) /\ s.state # "LOCKED"
  BY <1>3, FieldSound
<1>. HIDE DEF s
<1>5. n \in Sound(r) /\ n.state # "LOCKED"
  <2>1. (IF s.peerNonce = None THEN m.body.nonce ELSE s.peerNonce)
            \in {None, nonce[Other(r)]}
    BY <1>2, <1>4 DEF Sound, PeerDataOK
  <2>. QED  BY <1>4, <2>1, FieldSound
<1>. HIDE DEF n
<1>6. p \in Sound(r) /\ p.state # "LOCKED"
  <2>1. (IF n.peerParams = None THEN m.body.params ELSE n.peerParams)
            \in {None, params[Other(r)]}
    BY <1>2, <1>5 DEF Sound, PeerDataOK
  <2>. QED  BY <1>5, <2>1, FieldSound
<1>. QED  BY <1>3, <1>4, <1>5, <1>6 DEF s, n, p

\* A message of another type leaves a sound runtime, aborted or not.
LEMMA OtherSound ==
    ASSUME IInv, NEW r \in Roles, Open(r), NEW m \in Messages, m.from # r
    PROVE  [Accepted(r, m) EXCEPT
                !.state = IF m.type = "abort" THEN "ABORTED" ELSE @] \in Sound(r)
<1>1. PICK a \in Sound(r) : a = Accepted(r, m) /\ a.state # "LOCKED"
  BY AcceptedSound DEF Open
<1>2. PICK state \in States \ {"LOCKED"} :
          state = IF m.type = "abort" THEN "ABORTED" ELSE a.state
  BY <1>1 DEF Sound, Runtimes, States
<1>3. [a EXCEPT !.state = state] \in Sound(r)
  BY <1>1, <1>2 DEF Sound, Runtimes, PeerDataOK, LockOK, NumberOK
<1>. QED  BY <1>1, <1>2, <1>3

-----------------------------------------------------------------------------
(* The actions *)

\* start() keeps IInv.
LEMMA StartStep ==
    ASSUME IInv, NEW r \in Roles, Start(r)
    PROVE  IInv'
<1>. DEFINE hello == Message(r, hs[r].seq, NoSid, "hello", Greeting(r))
            t == [hs[r] EXCEPT !.seq = @ + 1, !.state = "SENT_HELLO",
                               !.transcript = Append(@, RecordOf(hello))]
<1>1. hs[r] \in Sound(r)
  BY DEF IInv
<1>2. /\ hello \in Messages /\ hello \in Traffic(r)
      /\ hello.from = r /\ hello.seq = hs[r].seq
  BY <1>1, GreetingMessage DEF Message
<1>3. hs[r].state # "LOCKED"
  BY DEF Start
<1>. HIDE DEF hello
<1>5. t \in Sound(r)
  BY <1>1, <1>2, <1>3, SentSound DEF States
<1>6. hs' = [hs EXCEPT ![r] = t]
  BY DEF Start, IInv, TypeOK, hello
<1>7. Append(net[Other(r)], hello) \in Seq(Traffic(r))
  BY <1>2, OtherRole, AppendProperties DEF IInv
<1>9. net' = [q \in Roles |-> net'[q]] /\ \A q \in Roles : net'[q] \in Seq(Traffic(Other(q)))
  BY <1>7, OtherRole DEF IInv, TypeOK, Start, Roles, Other, hello
<1>10. DOMAIN hs' = Roles /\ hs' = [q \in Roles |-> hs'[q]] /\ \A q \in Roles : hs'[q] \in Sound(q)
  <2>. HIDE DEF t
  <2>. QED  BY <1>5, <1>6 DEF IInv, TypeOK
<1>. QED  BY <1>9, <1>10, Reassemble DEF IInv, TypeOK, Start

\* handleIncoming() keeps IInv, whatever message it is given.
LEMMA HandlerStep ==
    ASSUME IInv, NEW r \in Roles, HandleIncoming(r)
    PROVE  IInv'
<1>. DEFINE m == Head(net[r])
<1>1. net[r] # <<>> /\ UNCHANGED <<params, nonce, faults>>
  BY DEF HandleIncoming, RcvClosed, RcvMalformed, RcvReplay, RcvUnexpectedSid,
         RcvHelloMismatch, RcvHello, RcvHelloAck, RcvOther
<1>2. /\ m \in Traffic(Other(r)) /\ m \in Messages /\ m.seq \in Nat
      /\ hs[r] \in Sound(r) /\ hs[r] \in Runtimes
      /\ <<>> \in Seq(Traffic(r))
  BY <1>1, HeadTravels DEF IInv, Messages, Sound
<1>3. Open(r) => hs[r].state # "LOCKED"
  BY DEF Open
<1>. HIDE DEF m
<1>4. CASE RcvClosed(r)
  <2>1. hs' = [hs EXCEPT ![r] = hs[r]] /\ Consume(r, <<>>)
    BY <1>4 DEF RcvClosed, IInv, TypeOK
  <2>. QED  BY <1>1, <1>2, <2>1, LocalStep
<1>5. CASE RcvMalformed(r)
  BY <1>1, <1>2, <1>3, <1>5, AbortCall DEF RcvMalformed
<1>6. CASE RcvReplay(r)
  BY <1>1, <1>2, <1>3, <1>6, AbortCall DEF RcvReplay
<1>7. CASE RcvUnexpectedSid(r)
  <2>. DEFINE s == [hs[r] EXCEPT !.lastSeq = m.seq]
  <2>1. Open(r) /\ AbortFrom(r, s, <<>>, "PROTOCOL_ERROR")
    BY <1>7 DEF RcvUnexpectedSid, m
  <2>2. s \in Sound(r) /\ s.state = hs[r].state
    BY <1>2 DEF Sound, Runtimes, PeerDataOK, LockOK, NumberOK
  <2>. HIDE DEF s
  <2>. QED  BY <1>1, <1>2, <1>3, <2>1, <2>2, AbortCall
<1>8. CASE RcvHelloMismatch(r)
  <2>1. Open(r) /\ m.from # r /\ m.type = "hello" /\ AbortFrom(r, Greeted(r, m), <<>>, "PROTOCOL_ERROR")
    BY <1>8 DEF RcvHelloMismatch, Acceptable, m
  <2>. QED  BY <1>1, <1>2, <2>1, GreetedSound, AbortCall
<1>9. CASE RcvHello(r)
  <2>. DEFINE s == Greeted(r, m)
              ack == Message(r, s.seq, NoSid, "hello_ack", Greeting(r))
  <2>1. /\ Open(r) /\ m.from # r /\ m.type = "hello"
        /\ IF s.sentLocalAck THEN TryLock(r, s, <<>>)
                             ELSE TryLock(r, Acknowledged(s, ack), <<ack>>)
    BY <1>9 DEF RcvHello, Acceptable, m
  <2>2. s \in Sound(r) /\ s.state # "LOCKED"
    BY <1>2, <2>1, GreetedSound
  <2>3. /\ ack \in Messages /\ ack.from = r /\ ack.seq = s.seq
        /\ ack \in Traffic(r) /\ <<ack>> \in Seq(Traffic(r))
    <3>. HIDE DEF s
    <3>1. ack \in Messages /\ ack \in Traffic(r)
      BY <2>2, GreetingMessage
    <3>. QED  BY <3>1 DEF Message
  <2>. HIDE DEF s, ack
  <2>4. Acknowledged(s, ack) \in Sound(r) /\ Acknowledged(s, ack).state # "LOCKED"
    BY <2>2, <2>3, AcknowledgedSound
  <2>. QED  BY <1>1, <1>2, <2>1, <2>2, <2>3, <2>4, TryLockStep
<1>10. CASE RcvHelloAck(r)
  <2>. DEFINE s == [Accepted(r, m) EXCEPT !.seenPeerAck = TRUE]
              n == [s EXCEPT !.peerNonce = IF @ = None THEN m.body.nonce ELSE @]
              p == [n EXCEPT !.peerParams = IF @ = None THEN m.body.params ELSE @]
  <2>1. /\ Open(r) /\ m.from # r /\ m.type = "hello_ack"
        /\ \/ AbortFrom(r, s, <<>>, "BAD_MESSAGE")
           \/ AbortFrom(r, n, <<>>, "BAD_MESSAGE")
           \/ TryLock(r, p, <<>>)
    BY <1>10 DEF RcvHelloAck, Acceptable, m
  <2>2. /\ s \in Sound(r) /\ s.state # "LOCKED"
        /\ n \in Sound(r) /\ n.state # "LOCKED"
        /\ p \in Sound(r) /\ p.state # "LOCKED"
    BY <1>2, <2>1, AckedSound
  <2>. HIDE DEF s, n, p
  <2>. QED  BY <1>1, <1>2, <2>1, <2>2, AbortCall, TryLockStep
<1>11. CASE RcvOther(r)
  <2>. DEFINE s == [Accepted(r, m) EXCEPT
                        !.state = IF m.type = "abort" THEN "ABORTED" ELSE @]
  <2>1. Open(r) /\ m.from # r /\ Consume(r, <<>>) /\ hs' = [hs EXCEPT ![r] = s]
    BY <1>11 DEF RcvOther, Acceptable, m
  <2>2. s \in Sound(r)
    BY <1>2, <2>1, OtherSound
  <2>. HIDE DEF s
  <2>. QED  BY <1>1, <1>2, <2>1, <2>2, LocalStep
<1>. QED  BY <1>4, <1>5, <1>6, <1>7, <1>8, <1>9, <1>10, <1>11 DEF HandleIncoming

\* A fault that leaves an inbox a sequence of genuine messages keeps IInv.
LEMMA FaultStep ==
    ASSUME IInv, NEW r \in Roles, NEW kind, MayFail(kind),
           NEW s \in Seq(Traffic(Other(r))), net' = [net EXCEPT ![r] = s]
    PROVE  IInv'
<1>1. faults' \in 0 .. MaxFaults
  BY HandshakeAssumption DEF IInv, TypeOK, MayFail
<1>2. \A q \in Roles : net'[q] \in Seq(Traffic(Other(q)))
  BY DEF IInv, TypeOK
<1>3. net' = [q \in Roles |-> net'[q]]
  BY DEF IInv, TypeOK
<1>. QED  BY <1>1, <1>2, <1>3, Reassemble DEF IInv, TypeOK, MayFail

\* Whatever set S the messages of an inbox are of, a fault leaves an inbox of such
\* messages, if S has with a message its garbled form.
LEMMA FaultSeq ==
    ASSUME NEW r \in Roles, NEW S, net[r] \in Seq(S), net = [q \in Roles |-> net[q]],
           \A x \in S : [x EXCEPT !.type = "malformed"] \in S,
           Duplicate(r) \/ Lose(r) \/ Reorder(r) \/ Corrupt(r)
    PROVE  /\ \E kind : MayFail(kind)
           /\ \E t \in Seq(S) : net' = [net EXCEPT ![r] = t]
<1>1. DOMAIN net[r] = 1 .. Len(net[r]) /\ Len(net[r]) \in Nat
  BY LenProperties
<1>2. \E kind : MayFail(kind)
  BY DEF Duplicate, Lose, Reorder, Corrupt
<1>3. CASE Duplicate(r)
  <2>1. PICK i \in DOMAIN net[r] :
            net' = [net EXCEPT ![r] = SubSeq(@, 1, i) \o SubSeq(@, i, Len(@))]
    BY <1>3 DEF Duplicate
  <2>. QED  BY <1>2, <2>1, DuplicateSeq
<1>4. CASE Lose(r)
  <2>1. PICK i \in DOMAIN net[r] :
            net' = [net EXCEPT ![r] = SubSeq(@, 1, i - 1) \o SubSeq(@, i + 1, Len(@))]
    BY <1>4 DEF Lose
  <2>. QED  BY <1>2, <2>1, LoseSeq
<1>5. CASE Reorder(r)
  <2>1. PICK i \in 1 .. Len(net[r]) - 1 :
            net' = [net EXCEPT ![r][i] = net[r][i + 1], ![r][i + 1] = net[r][i]]
    BY <1>5 DEF Reorder
  <2>. DEFINE t == [net[r] EXCEPT ![i] = net[r][i + 1]]
              u == [t EXCEPT ![i + 1] = net[r][i]]
  <2>2. i \in 1 .. Len(net[r]) /\ i + 1 \in 1 .. Len(net[r])
    BY <1>1
  <2>3. net[r][i] \in S /\ net[r][i + 1] \in S
    BY <1>1, <2>2, ElementOfSeq
  <2>4. t \in Seq(S) /\ Len(t) = Len(net[r])
    BY <1>1, <2>2, <2>3, ExceptSeq
  <2>. HIDE DEF t
  <2>5. u \in Seq(S)
    BY <2>2, <2>3, <2>4, ExceptSeq
  <2>6. net' = [net EXCEPT ![r] = u]
    BY <2>1 DEF t
  <2>. HIDE DEF u
  <2>. QED  BY <1>2, <2>5, <2>6
<1>6. CASE Corrupt(r)
  <2>1. PICK i \in DOMAIN net[r] : net' = [net EXCEPT ![r][i].type = "malformed"]
    BY <1>6 DEF Corrupt
  <2>. DEFINE x == [net[r][i] EXCEPT !.type = "malformed"]
              t == [net[r] EXCEPT ![i] = x]
  <2>2. x \in S
    BY <1>1, ElementOfSeq
  <2>3. net' = [net EXCEPT ![r] = t]
    BY <2>1
  <2>. HIDE DEF x
  <2>4. t \in Seq(S)
    BY <1>1, <2>2, ExceptSeq
  <2>. HIDE DEF t
  <2>. QED  BY <1>2, <2>3, <2>4
<1>. QED  BY <1>3, <1>4, <1>5, <1>6

\* A fault keeps IInv.
LEMMA NetworkStep ==
    ASSUME IInv, Network
    PROVE  IInv'
<1>. PICK r \in Roles : Duplicate(r) \/ Lose(r) \/ Reorder(r) \/ Corrupt(r)
  BY DEF Network
<1>1. \A x \in Traffic(Other(r)) : [x EXCEPT !.type = "malformed"] \in Traffic(Other(r))
  BY DEF Traffic, Messages, Types
<1>2. net[r] \in Seq(Traffic(Other(r))) /\ net = [q \in Roles |-> net[q]]
  BY DEF IInv, TypeOK
<1>3. PICK kind : MayFail(kind)
  BY <1>1, <1>2, FaultSeq
<1>4. PICK t \in Seq(Traffic(Other(r))) : net' = [net EXCEPT ![r] = t]
  BY <1>1, <1>2, FaultSeq
<1>. QED  BY <1>3, <1>4, FaultStep

-----------------------------------------------------------------------------
(* The theorems *)

\* Every step of either party and of the network keeps IInv.
LEMMA InvariantStays == IInv /\ [Next]_hsVars => IInv'
<1>. SUFFICES ASSUME IInv, [Next]_hsVars PROVE IInv'  OBVIOUS
<1>1. CASE \E r \in Roles : Start(r)
  BY <1>1, StartStep
<1>2. CASE \E r \in Roles : HandleIncoming(r)
  BY <1>2, HandlerStep
<1>3. CASE Network
  BY <1>3, NetworkStep
<1>4. CASE UNCHANGED hsVars
  <2>1. faults' \in 0 .. MaxFaults /\ UNCHANGED <<params, nonce, hs, net>>
    BY <1>4 DEF hsVars, IInv, TypeOK
  <2>. QED  BY <2>1, Reassemble DEF IInv, TypeOK
<1>. QED  BY <1>1, <1>2, <1>3, <1>4 DEF Next

\* IInv holds in every state of every behaviour.
THEOREM Invariance == Spec => []IInv
<1>1. Init => IInv
  BY Initially
<1>2. IInv /\ [Next]_hsVars => IInv'
  BY InvariantStays
<1>. QED  BY <1>1, <1>2, PTL DEF Spec

\* The fields and messages of handshakeRuntime.ts keep their shape, and the sid
\* is set exactly while the runtime is LOCKED.
THEOREM TypeCorrect == Spec => []TypeOK
<1>1. IInv => TypeOK
  BY DEF IInv
<1>. QED  BY <1>1, Invariance, PTL

\* tryLock() locks the sid of the two parties' actual nonces and only with equal
\* parameters, whatever the network loses, repeats, reorders or garbles.
THEOREM LocksAgree == Spec => []LockAgreement
<1>1. IInv => LockAgreement
  BY DEF IInv, Sound, LockOK, LockAgreement, Locked
<1>. QED  BY <1>1, Invariance, PTL

\* No party records two messages of its own under one sequence number.
THEOREM NumbersAreUsedOnce == Spec => []OwnSeqUnique
<1>1. IInv => OwnSeqUnique
  BY DEF IInv, Sound, NumberOK, OwnSeqUnique
<1>. QED  BY <1>1, Invariance, PTL

\* A step moves the runtime of at most one party, and only an open one.
LEMMA OnlyOneMoves ==
    ASSUME TypeOK, [Next]_hsVars
    PROVE  /\ UNCHANGED <<params, nonce>>
           /\ \/ UNCHANGED hs
              \/ \E r \in Roles : Open(r) /\ \A q \in Roles \ {r} : hs'[q] = hs[q]
<1>1. ASSUME NEW r \in Roles, NEW s, NEW out, NEW code, AbortFrom(r, s, out, code)
      PROVE  \A q \in Roles \ {r} : hs'[q] = hs[q]
  BY <1>1 DEF AbortFrom, TypeOK
<1>2. ASSUME NEW r \in Roles, NEW s, NEW out, TryLock(r, s, out)
      PROVE  \A q \in Roles \ {r} : hs'[q] = hs[q]
  <2>1. CASE ~LockReady(s)
    BY <1>2, <2>1 DEF TryLock, TypeOK
  <2>2. CASE LockReady(s) /\ s.peerParams # params[r]
    BY <1>1, <1>2, <2>2 DEF TryLock
  <2>3. CASE LockReady(s) /\ s.peerParams = params[r]
    BY <1>2, <2>3 DEF TryLock, TypeOK
  <2>. QED  BY <2>1, <2>2, <2>3
<1>3. ASSUME NEW r \in Roles, Start(r)
      PROVE  UNCHANGED <<params, nonce>> /\ Open(r) /\ \A q \in Roles \ {r} : hs'[q] = hs[q]
  BY <1>3 DEF Start, Open, TypeOK
<1>4. ASSUME NEW r \in Roles, HandleIncoming(r)
      PROVE  /\ UNCHANGED <<params, nonce>>
             /\ \/ UNCHANGED hs
                \/ Open(r) /\ \A q \in Roles \ {r} : hs'[q] = hs[q]
  <2>1. CASE RcvClosed(r)
    BY <2>1 DEF RcvClosed
  <2>2. CASE RcvMalformed(r) \/ RcvReplay(r) \/ RcvUnexpectedSid(r) \/ RcvHelloMismatch(r)
    BY <1>1, <2>2
    DEF RcvMalformed, RcvReplay, RcvUnexpectedSid, RcvHelloMismatch, Acceptable
  <2>3. CASE RcvHello(r)
    BY <1>2, <2>3 DEF RcvHello, Acceptable
  <2>4. CASE RcvHelloAck(r)
    BY <1>1, <1>2, <2>4 DEF RcvHelloAck, Acceptable
  <2>5. CASE RcvOther(r)
    BY <2>5 DEF RcvOther, Acceptable, TypeOK
  <2>. QED  BY <1>4, <2>1, <2>2, <2>3, <2>4, <2>5 DEF HandleIncoming
<1>5. ASSUME Network PROVE UNCHANGED <<params, nonce, hs>>
  BY <1>5 DEF Network, Duplicate, Lose, Reorder, Corrupt, MayFail
<1>. QED  BY <1>3, <1>4, <1>5 DEF Next, hsVars

\* handleIncoming() never changes a LOCKED runtime again.
THEOREM LocksAreFinal == Spec => LockIsFinal
<1>1. TypeOK /\ [Next]_hsVars => [\A r \in Roles : Locked(r) => hs'[r] = hs[r]]_hsVars
  BY OnlyOneMoves DEF Locked, Open
<1>. QED  BY <1>1, TypeCorrect, PTL DEF Spec, LockIsFinal

\* The handshake implements SidAgreement: every step is one party deciding, for
\* good and in accord with the other, or is invisible.
THEOREM HandshakeImplementsAgreement == Spec => ImplementsAgreement
<1>1. Init => Agreement!Init
  <2>. SUFFICES ASSUME Init PROVE Agreement!Init  OBVIOUS
  <2>1. Outcome = [r \in Agreement!Parties |-> Agreement!Undecided]
    BY DEF Init, Created, Outcome, Agreement!Parties, Agreement!Undecided, Roles, NoSid
  <2>. QED  BY <2>1 DEF Init, Agreement!Init, Agreement!Parties, Roles
<1>2. IInv /\ IInv' /\ [Next]_hsVars => [Agreement!Next]_Agreement!agreementVars
  <2>. SUFFICES ASSUME IInv, IInv', [Next]_hsVars
                PROVE  [Agreement!Next]_Agreement!agreementVars
    OBVIOUS
  <2>1. UNCHANGED <<params, nonce>>
    BY OnlyOneMoves DEF IInv
  <2>2. CASE UNCHANGED hs
    BY <2>1, <2>2 DEF Outcome, Agreement!agreementVars
  <2>3. ASSUME NEW r \in Roles, Open(r), \A q \in Roles \ {r} : hs'[q] = hs[q]
        PROVE  [Agreement!Next]_Agreement!agreementVars
    <3>0. Outcome = [q \in Roles |-> Outcome[q]]
      BY DEF Outcome
    <3>1. Outcome[r] = Agreement!Undecided
      BY <2>3 DEF IInv, TypeOK, Runtimes, States, Open, Outcome, Agreement!Undecided, NoSid
    <3>2. Outcome' = [Outcome EXCEPT ![r] = Outcome'[r]]
      BY <2>3 DEF Outcome
    <3>3. CASE hs'[r].state = "LOCKED"
      <4>1. params["alice"] = params["bob"] /\ hs'[r].sid = Agreement!Sid
        BY <2>1, <3>3 DEF IInv, Sound, LockOK, TrueSid, Agreement!Sid
      <4>2. Outcome'[r] = Agreement!LockedOn(Agreement!Sid)
        BY <3>3, <4>1 DEF Outcome, Agreement!LockedOn
      <4>. QED  BY <2>1, <3>1, <3>2, <4>1, <4>2
                DEF Agreement!Next, Agreement!Lock, Agreement!Parties, Roles
    <3>4. CASE hs'[r].state = "ABORTED"
      <4>1. Outcome'[r] = Agreement!AbortedOut
        BY <3>4 DEF IInv, TypeOK, Outcome, Agreement!AbortedOut, NoSid
      <4>. QED  BY <2>1, <3>1, <3>2, <4>1
                DEF Agreement!Next, Agreement!Abort, Agreement!Parties, Roles
    <3>5. CASE hs'[r].state \notin {"LOCKED", "ABORTED"}
      <4>1. Outcome'[r] = Agreement!Undecided
        BY <3>5 DEF IInv, TypeOK, Outcome, Agreement!Undecided, NoSid
      <4>2. Outcome' = Outcome
        BY <2>3, <3>0, <3>1, <3>2, <4>1
      <4>. QED  BY <2>1, <4>2 DEF Agreement!agreementVars
    <3>. QED  BY <3>3, <3>4, <3>5
  <2>. QED  BY <2>2, <2>3, OnlyOneMoves DEF IInv
<1>. QED  BY <1>1, <1>2, Invariance, PTL DEF Spec, ImplementsAgreement, Agreement!Spec

-----------------------------------------------------------------------------
(* What an ack is worth *)

\* A call that leaves such a runtime and sends such messages keeps AckInv.
LEMMA AckLocal ==
    ASSUME IInv, AckInv, NEW r \in Roles, net[r] # <<>>,
           NEW s \in Keeps(r), s.state = "LOCKED" => s.seenPeerAck,
           hs' = [hs EXCEPT ![r] = s],
           NEW out \in Seq(AckTraffic(s)), Consume(r, out)
    PROVE  AckInv'
<1>. DEFINE p == Other(r)
<1>0. p \in Roles /\ p # r /\ Other(p) = r /\ Roles = {r, p}
  BY OtherRole DEF Roles, Other
<1>. HIDE DEF p
<1>1. hs'[r] = s /\ hs'[p] = hs[p]
  BY <1>0 DEF IInv, TypeOK
<1>2. hs[r].sentLocalAck => s.sentLocalAck
  BY DEF Keeps
<1>3. s \in Keeps(r)' /\ hs[p] \in Keeps(p)'
  BY <1>0, <1>1, <1>2 DEF AckInv, Keeps, p
<1>4. /\ net'[r] = Tail(net[r]) /\ net'[p] = net[p] \o out
  BY <1>0 DEF Consume, IInv, TypeOK, p
<1>5. net'[r] \in Seq(AckTraffic(hs[p]))
  BY <1>4, HeadTailProperties DEF AckInv, p
<1>6. net'[p] \in Seq(AckTraffic(s))
  <2>1. AckTraffic(hs[r]) \subseteq AckTraffic(s)
    BY <1>2 DEF AckTraffic
  <2>2. net[p] \in Seq(AckTraffic(hs[r]))
    BY <1>0 DEF AckInv
  <2>3. net[p] \in Seq(AckTraffic(s))
    BY <2>1, <2>2, SeqMonotonic
  <2>. QED  BY <1>4, <2>3, ConcatProperties
<1>7. /\ (hs'[r]).state = "LOCKED" => (hs'[r]).seenPeerAck
      /\ (hs'[p]).state = "LOCKED" => (hs'[p]).seenPeerAck
  BY <1>0, <1>1 DEF AckInv, Locked
<1>8. hs'[Other(r)] = hs[p] /\ hs'[Other(p)] = s
  BY <1>0, <1>1 DEF p
<1>. QED  BY <1>0, <1>1, <1>3, <1>5, <1>6, <1>7, <1>8 DEF AckInv, Locked, AckTraffic

\* abort() keeps AckInv.
LEMMA AckAbort ==
    ASSUME IInv, IInv', AckInv, NEW r \in Roles, net[r] # <<>>,
           NEW s \in Keeps(r), NEW out \in Seq(AckTraffic(s)),
           NEW code \in {"BAD_MESSAGE", "PROTOCOL_ERROR"},
           AbortFrom(r, s, out, code)
    PROVE  AckInv'
<1>. DEFINE m == Message(r, s.seq, s.sid, "abort", [code |-> code])
            t == [s EXCEPT !.seq = @ + 1, !.state = "ABORTED",
                           !.transcript = Append(@, RecordOf(m))]
<1>1. s \in Runtimes
  BY DEF Keeps
<1>2. hs' = [hs EXCEPT ![r] = t] /\ Consume(r, Append(out, m))
  BY DEF AbortFrom
<1>3. t \in Runtimes
  <2>. HIDE DEF t
  <2>1. hs'[r] = t
    BY <1>2 DEF IInv, TypeOK
  <2>. QED  BY <2>1 DEF IInv, TypeOK
<1>4. /\ t.sentLocalAck = s.sentLocalAck /\ t.seenPeerHello = s.seenPeerHello
      /\ t.seenPeerAck = s.seenPeerAck /\ t.state = "ABORTED"
  BY <1>1 DEF Runtimes
<1>5. m \in Messages /\ m.type = "abort"
  BY <1>1 DEF Runtimes, Message, Messages, Types, Bodies
<1>. HIDE DEF t, m
<1>6. t \in Keeps(r)
  BY <1>3, <1>4 DEF Keeps
<1>7. Append(out, m) \in Seq(AckTraffic(t))
  <2>1. m \in AckTraffic(t) /\ AckTraffic(s) \subseteq AckTraffic(t)
    BY <1>4, <1>5 DEF AckTraffic
  <2>2. out \in Seq(AckTraffic(t))
    BY <2>1, SeqMonotonic
  <2>. QED  BY <2>1, <2>2, AppendProperties
<1>. QED  BY <1>2, <1>4, <1>6, <1>7, AckLocal

\* tryLock() keeps AckInv: it locks only on an ack that was seen.
LEMMA AckTryLock ==
    ASSUME IInv, IInv', AckInv, NEW r \in Roles, net[r] # <<>>,
           NEW s \in Keeps(r), s.state # "LOCKED",
           NEW out \in Seq(AckTraffic(s)), TryLock(r, s, out)
    PROVE  AckInv'
<1>1. CASE ~LockReady(s)
  BY <1>1, AckLocal DEF TryLock
<1>2. CASE LockReady(s) /\ s.peerParams # params[r]
  BY <1>2, AckAbort DEF TryLock
<1>3. CASE LockReady(s) /\ s.peerParams = params[r]
  <2>. DEFINE sid == SidOf(r, s.peerNonce)
              t == [s EXCEPT !.state = "LOCKED", !.sid = sid]
  <2>1. s \in Runtimes /\ s.seenPeerAck
    BY <1>3 DEF Keeps, LockReady
  <2>2. hs' = [hs EXCEPT ![r] = t] /\ Consume(r, out \o OnLock(r, sid))
    BY <1>3 DEF TryLock
  <2>3. /\ t.sentLocalAck = s.sentLocalAck /\ t.seenPeerHello = s.seenPeerHello
        /\ t.seenPeerAck = s.seenPeerAck /\ t.state = "LOCKED" /\ t.sid = sid
    BY <2>1 DEF Runtimes
  <2>. HIDE DEF t, sid
  <2>4. t \in Runtimes /\ sid \in Sids
    <3>1. hs'[r] = t
      BY <2>2 DEF IInv, TypeOK
    <3>2. t \in Runtimes /\ t.sid # NoSid
      BY <2>3, <3>1 DEF IInv, TypeOK
    <3>. QED  BY <2>3, <3>2 DEF Runtimes
  <2>5. t \in Keeps(r)
    BY <2>3, <2>4 DEF Keeps
  <2>6. OnLock(r, sid) \in Seq(AckTraffic(t))
    BY <2>4 DEF OnLock, AckTraffic, Message, Messages, Types, Bodies, FirstPostSeq
  <2>7. out \in Seq(AckTraffic(t))
    <3>1. AckTraffic(s) \subseteq AckTraffic(t)
      BY <2>3 DEF AckTraffic
    <3>. QED  BY <3>1, SeqMonotonic
  <2>8. out \o OnLock(r, sid) \in Seq(AckTraffic(t))
    BY <2>6, <2>7, ConcatProperties
  <2>. QED  BY <2>1, <2>2, <2>3, <2>5, <2>8, AckLocal
<1>. QED  BY <1>1, <1>2, <1>3

\* Recording a message leaves the flags alone.
LEMMA AcceptedKeeps ==
    ASSUME IInv, AckInv, NEW r \in Roles, Open(r), NEW m \in Messages, m.from # r
    PROVE  /\ Accepted(r, m) \in Keeps(r)
           /\ Accepted(r, m).state = hs[r].state /\ hs[r].state # "LOCKED"
<1>1. Accepted(r, m) \in Runtimes /\ Accepted(r, m).state = hs[r].state
  BY AcceptedSound DEF Sound
<1>2. hs[r] \in Keeps(r) /\ hs[r] \in Runtimes
  BY DEF AckInv, Keeps
<1>3. /\ Accepted(r, m).sentLocalAck = hs[r].sentLocalAck
      /\ Accepted(r, m).seenPeerHello = hs[r].seenPeerHello
      /\ Accepted(r, m).seenPeerAck = hs[r].seenPeerAck
  BY <1>2 DEF Accepted, Runtimes
<1>. QED  BY <1>1, <1>2, <1>3 DEF Keeps, Open

\* An ack that was seen was on its way, so its sender had sent it.
LEMMA HeadAnswer ==
    ASSUME IInv, AckInv, NEW r \in Roles, net[r] # <<>>, Head(net[r]).type = "hello_ack"
    PROVE  hs[Other(r)].sentLocalAck
<1>1. Head(net[r]) \in AckTraffic(hs[Other(r)])
  BY HeadTailProperties DEF AckInv
<1>. QED  BY <1>1 DEF AckTraffic

\* handleHello keeps AckInv: the ack it sends follows the hello it has recorded.
LEMMA AckHello ==
    ASSUME IInv, IInv', AckInv, NEW r \in Roles, RcvHello(r) \/ RcvHelloMismatch(r)
    PROVE  AckInv'
<1>. DEFINE m == Head(net[r])
            s == Greeted(r, m)
            ack == Message(r, s.seq, NoSid, "hello_ack", Greeting(r))
<1>1. /\ net[r] # <<>> /\ Open(r) /\ m.from # r /\ m.type = "hello"
      /\ \/ AbortFrom(r, s, <<>>, "PROTOCOL_ERROR")
         \/ s.sentLocalAck /\ TryLock(r, s, <<>>)
         \/ ~s.sentLocalAck /\ TryLock(r, Acknowledged(s, ack), <<ack>>)
  BY DEF RcvHello, RcvHelloMismatch, Acceptable
<1>2. m \in Traffic(Other(r)) /\ m \in Messages
  BY <1>1, HeadTravels
<1>3. s \in Sound(r) /\ s.state # "LOCKED"
  BY <1>1, <1>2, GreetedSound
<1>4. Accepted(r, m) \in Keeps(r) /\ Accepted(r, m) \in Runtimes
  BY <1>1, <1>2, AcceptedKeeps DEF Keeps
<1>. HIDE DEF m
<1>5. /\ s.seenPeerHello = TRUE
      /\ s.sentLocalAck = Accepted(r, m).sentLocalAck
      /\ s.seenPeerAck = Accepted(r, m).seenPeerAck
  BY <1>4 DEF Greeted, Runtimes
<1>. HIDE DEF s
<1>6. s \in Keeps(r) /\ s \in Runtimes
  BY <1>3, <1>4, <1>5 DEF Keeps, Sound
<1>7. ack \in Messages /\ ack.from = r /\ ack.seq = s.seq
  BY <1>3, GreetingMessage DEF Message
<1>. HIDE DEF ack
<1>. DEFINE t == Acknowledged(s, ack)
<1>8. t \in Runtimes /\ t.state # "LOCKED"
  BY <1>3, <1>7, AcknowledgedSound DEF Sound
<1>9. /\ t.sentLocalAck = TRUE
      /\ t.seenPeerHello = s.seenPeerHello /\ t.seenPeerAck = s.seenPeerAck
  BY <1>6 DEF Acknowledged, Runtimes
<1>. HIDE DEF t
<1>10. t \in Keeps(r) /\ <<ack>> \in Seq(AckTraffic(t))
  <2>1. t \in Keeps(r)
    BY <1>5, <1>6, <1>8, <1>9 DEF Keeps
  <2>2. ack \in AckTraffic(t)
    BY <1>7, <1>9 DEF AckTraffic
  <2>. QED  BY <2>1, <2>2
<1>11. <<>> \in Seq(AckTraffic(s))
  OBVIOUS
<1>. QED  BY <1>1, <1>3, <1>6, <1>8, <1>10, <1>11, AckAbort, AckTryLock DEF t

\* handleHelloAck keeps AckInv: the ack it notes was sent.
LEMMA AckHelloAck ==
    ASSUME IInv, IInv', AckInv, NEW r \in Roles, RcvHelloAck(r)
    PROVE  AckInv'
<1>. DEFINE m == Head(net[r])
            s == [Accepted(r, m) EXCEPT !.seenPeerAck = TRUE]
            n == [s EXCEPT !.peerNonce = IF @ = None THEN m.body.nonce ELSE @]
            p == [n EXCEPT !.peerParams = IF @ = None THEN m.body.params ELSE @]
<1>1. /\ net[r] # <<>> /\ Open(r) /\ m.from # r /\ m.type = "hello_ack"
      /\ \/ AbortFrom(r, s, <<>>, "BAD_MESSAGE")
         \/ AbortFrom(r, n, <<>>, "BAD_MESSAGE")
         \/ TryLock(r, p, <<>>)
  BY DEF RcvHelloAck, Acceptable
<1>2. m \in Traffic(Other(r)) /\ m \in Messages /\ hs[Other(r)].sentLocalAck
  BY <1>1, HeadTravels, HeadAnswer
<1>3. /\ s \in Runtimes /\ n \in Runtimes
      /\ p \in Runtimes /\ p.state # "LOCKED"
  BY <1>1, <1>2, AckedSound DEF Sound
<1>4. Accepted(r, m) \in Keeps(r) /\ Accepted(r, m) \in Runtimes
  BY <1>1, <1>2, AcceptedKeeps DEF Keeps
<1>. HIDE DEF m
<1>5. /\ s.sentLocalAck = Accepted(r, m).sentLocalAck
      /\ s.seenPeerHello = Accepted(r, m).seenPeerHello
  BY <1>4 DEF Runtimes
<1>. HIDE DEF s
<1>6. n.sentLocalAck = s.sentLocalAck /\ n.seenPeerHello = s.seenPeerHello
  BY <1>3 DEF Runtimes
<1>. HIDE DEF n
<1>7. p.sentLocalAck = n.sentLocalAck /\ p.seenPeerHello = n.seenPeerHello
  BY <1>3 DEF Runtimes
<1>. HIDE DEF p
<1>8. s \in Keeps(r) /\ n \in Keeps(r) /\ p \in Keeps(r)
  BY <1>2, <1>3, <1>4, <1>5, <1>6, <1>7 DEF Keeps
<1>9. <<>> \in Seq(AckTraffic(s)) /\ <<>> \in Seq(AckTraffic(n)) /\ <<>> \in Seq(AckTraffic(p))
  OBVIOUS
<1>. QED  BY <1>1, <1>3, <1>8, <1>9, AckAbort, AckTryLock

\* handleIncoming() keeps AckInv: what is not a hello or an ack sends and notes none.
LEMMA AckHandler ==
    ASSUME IInv, IInv', AckInv, NEW r \in Roles, HandleIncoming(r)
    PROVE  AckInv'
<1>. DEFINE m == Head(net[r])
<1>1. /\ net[r] # <<>>
      /\ hs[r] \in Keeps(r) /\ hs[r] \in Runtimes
      /\ (hs[r].state = "LOCKED" => hs[r].seenPeerAck)
      /\ \A s : <<>> \in Seq(AckTraffic(s))
  BY DEF HandleIncoming, RcvClosed, RcvMalformed, RcvReplay, RcvUnexpectedSid,
         RcvHelloMismatch, RcvHello, RcvHelloAck, RcvOther, AckInv, Keeps, Locked
<1>2. m \in Messages /\ m.seq \in Nat
  BY <1>1, HeadTravels DEF Messages
<1>. HIDE DEF m
<1>3. CASE RcvClosed(r)
  <2>1. hs' = [hs EXCEPT ![r] = hs[r]] /\ Consume(r, <<>>)
    BY <1>3 DEF RcvClosed, IInv, TypeOK
  <2>. QED  BY <1>1, <2>1, AckLocal
<1>4. CASE RcvMalformed(r) \/ RcvReplay(r)
  BY <1>1, <1>4, AckAbort DEF RcvMalformed, RcvReplay
<1>5. CASE RcvUnexpectedSid(r)
  <2>. DEFINE s == [hs[r] EXCEPT !.lastSeq = m.seq]
  <2>1. AbortFrom(r, s, <<>>, "PROTOCOL_ERROR")
    BY <1>5 DEF RcvUnexpectedSid, m
  <2>2. /\ s \in Runtimes
        /\ s.sentLocalAck = hs[r].sentLocalAck /\ s.seenPeerHello = hs[r].seenPeerHello
        /\ s.seenPeerAck = hs[r].seenPeerAck
    BY <1>1, <1>2 DEF Runtimes
  <2>. HIDE DEF s
  <2>3. s \in Keeps(r)
    BY <1>1, <2>2 DEF Keeps
  <2>. QED  BY <1>1, <2>1, <2>3, AckAbort
<1>6. CASE RcvHelloMismatch(r) \/ RcvHello(r)
  BY <1>6, AckHello
<1>7. CASE RcvHelloAck(r)
  BY <1>7, AckHelloAck
<1>8. CASE RcvOther(r)
  <2>. DEFINE a == Accepted(r, m)
              s == [a EXCEPT !.state = IF m.type = "abort" THEN "ABORTED" ELSE @]
  <2>1. Open(r) /\ m.from # r /\ Consume(r, <<>>) /\ hs' = [hs EXCEPT ![r] = s]
    BY <1>8 DEF RcvOther, Acceptable, m
  <2>2. a \in Keeps(r) /\ a \in Runtimes /\ a.state # "LOCKED"
    BY <1>2, <2>1, AcceptedKeeps DEF Keeps
  <2>. HIDE DEF a
  <2>3. /\ s \in Runtimes /\ s.state # "LOCKED"
        /\ s.sentLocalAck = a.sentLocalAck /\ s.seenPeerHello = a.seenPeerHello
        /\ s.seenPeerAck = a.seenPeerAck
    BY <2>2 DEF Runtimes, States
  <2>. HIDE DEF s
  <2>4. s \in Keeps(r)
    BY <2>2, <2>3 DEF Keeps
  <2>. QED  BY <1>1, <2>1, <2>3, <2>4, AckLocal
<1>. QED  BY <1>3, <1>4, <1>5, <1>6, <1>7, <1>8 DEF HandleIncoming

\* start() keeps AckInv: it sends a hello.
LEMMA AckStart ==
    ASSUME IInv, IInv', AckInv, NEW r \in Roles, Start(r)
    PROVE  AckInv'
<1>. DEFINE p == Other(r)
            hello == Message(r, hs[r].seq, NoSid, "hello", Greeting(r))
<1>0. p \in Roles /\ p # r /\ Other(p) = r /\ Roles = {r, p}
  BY OtherRole DEF Roles, Other
<1>. HIDE DEF p
<1>1. /\ hs'[p] = hs[p] /\ hs'[r] \in Runtimes /\ hs'[p] \in Runtimes
      /\ hs'[r].state = "SENT_HELLO"
      /\ hs'[r].sentLocalAck = hs[r].sentLocalAck
      /\ hs'[r].seenPeerHello = hs[r].seenPeerHello
      /\ hs'[r].seenPeerAck = hs[r].seenPeerAck
  <2>1. DOMAIN hs = Roles /\ hs[r] \in Runtimes
    BY DEF IInv, TypeOK
  <2>2. hs'[r] \in Runtimes /\ hs'[p] \in Runtimes
    BY <1>0 DEF IInv, TypeOK
  <2>3. {"state", "sentLocalAck", "seenPeerHello", "seenPeerAck"} \subseteq DOMAIN hs[r]
    BY <2>1 DEF Runtimes
  <2>4. hs' = [hs EXCEPT ![r].seq = @ + 1, ![r].state = "SENT_HELLO",
                         ![r].transcript = Append(@, RecordOf(hello))]
    BY DEF Start
  <2>. HIDE DEF hello
  <2>. QED  BY ONLY <1>0, <2>1, <2>2, <2>3, <2>4
<1>2. hs[r] \in Keeps(r) /\ hs[p] \in Keeps(p)
  BY <1>0 DEF AckInv
<1>3. hs'[r] \in Keeps(r)' /\ hs'[p] \in Keeps(p)'
  BY <1>0, <1>1, <1>2 DEF Keeps, p
<1>4. hello \in Messages /\ hello.type = "hello"
  <2>1. hs[r] \in Sound(r)
    BY DEF IInv
  <2>. QED  BY <2>1, GreetingMessage DEF Message
<1>5. /\ net'[r] = net[r]
      /\ net'[p] = Append(net[p], hello)
  BY <1>0 DEF Start, IInv, TypeOK, p
<1>. HIDE DEF hello
<1>6. net'[r] \in Seq(AckTraffic(hs'[p]))
  BY <1>1, <1>5 DEF AckInv, p
<1>7. net'[p] \in Seq(AckTraffic(hs'[r]))
  <2>1. AckTraffic(hs'[r]) = AckTraffic(hs[r]) /\ hello \in AckTraffic(hs[r])
    BY <1>1, <1>4 DEF AckTraffic
  <2>2. net[p] \in Seq(AckTraffic(hs[r]))
    BY <1>0 DEF AckInv
  <2>. QED  BY <1>5, <2>1, <2>2, AppendProperties
<1>8. /\ hs'[r].state = "LOCKED" => hs'[r].seenPeerAck
      /\ hs'[p].state = "LOCKED" => hs'[p].seenPeerAck
  BY <1>0, <1>1 DEF AckInv, Locked
<1>9. hs'[Other(r)] = hs'[p] /\ hs'[Other(p)] = hs'[r]
  BY <1>0 DEF p
<1>. QED  BY <1>0, <1>3, <1>6, <1>7, <1>8, <1>9 DEF AckInv, Locked, AckTraffic

\* A fault keeps AckInv: garbling makes no ack.
LEMMA AckFault ==
    ASSUME IInv, AckInv, Network
    PROVE  AckInv'
<1>. PICK r \in Roles : Duplicate(r) \/ Lose(r) \/ Reorder(r) \/ Corrupt(r)
  BY DEF Network
<1>. DEFINE S == AckTraffic(hs[Other(r)])
<1>1. \A x \in S : [x EXCEPT !.type = "malformed"] \in S
  BY DEF AckTraffic, Messages, Types
<1>2. net[r] \in Seq(S) /\ net = [q \in Roles |-> net[q]]
  BY DEF IInv, TypeOK, AckInv
<1>. HIDE DEF S
<1>3. UNCHANGED hs
  BY <1>1, <1>2, FaultSeq DEF MayFail
<1>4. PICK t \in Seq(S) : net' = [net EXCEPT ![r] = t]
  BY <1>1, <1>2, FaultSeq
<1>5. \A q \in Roles : net'[q] \in Seq(AckTraffic(hs[Other(q)]))
  BY <1>4 DEF AckInv, IInv, TypeOK, S
<1>6. \A q \in Roles : Keeps(q)' = Keeps(q) /\ hs'[q] = hs[q]
  BY <1>3 DEF Keeps
<1>7. \A q \in Roles : AckTraffic(hs[Other(q)])' = AckTraffic(hs[Other(q)])
  BY <1>3 DEF AckTraffic
<1>. QED  BY <1>3, <1>5, <1>6, <1>7 DEF AckInv, Locked

\* No ack is worth anything yet.
LEMMA AcksStart == Init => AckInv
<1>. SUFFICES ASSUME Init PROVE AckInv  OBVIOUS
<1>1. IInv
  BY Initially
<1>2. \A r \in Roles : hs[r] = Created /\ hs[r] \in Runtimes /\ net[r] = <<>>
  BY <1>1 DEF Init, IInv, TypeOK
<1>3. \A r \in Roles : hs[r] \in Keeps(r) /\ ~Locked(r)
  BY <1>2 DEF Keeps, Created, Locked
<1>4. \A S : <<>> \in Seq(S)
  OBVIOUS
<1>5. \A r \in Roles : net[r] \in Seq(AckTraffic(hs[Other(r)]))
  BY <1>2, <1>4
<1>. QED  BY <1>3, <1>5 DEF AckInv

\* Every step keeps what an ack is worth.
LEMMA AcksStay == IInv /\ IInv' /\ AckInv /\ [Next]_hsVars => AckInv'
<1>. SUFFICES ASSUME IInv, IInv', AckInv, [Next]_hsVars PROVE AckInv'  OBVIOUS
<1>1. CASE \E r \in Roles : Start(r)
  BY <1>1, AckStart
<1>2. CASE \E r \in Roles : HandleIncoming(r)
  BY <1>2, AckHandler
<1>3. CASE Network
  BY <1>3, AckFault
<1>4. CASE UNCHANGED hsVars
  <2>1. UNCHANGED <<hs, net>>
    BY <1>4 DEF hsVars
  <2>. QED  BY <2>1 DEF AckInv, Keeps, AckTraffic, Locked
<1>. QED  BY <1>1, <1>2, <1>3, <1>4 DEF Next

\* AckInv holds in every state: an ack on its way or seen was sent, and after a
\* hello was seen.
THEOREM AcksAreEarned == Spec => []AckInv
<1>1. Init => AckInv
  BY AcksStart
<1>2. IInv /\ IInv' /\ AckInv /\ [Next]_hsVars => AckInv'
  BY AcksStay
<1>. QED  BY <1>1, <1>2, Invariance, PTL DEF Spec

\* tryLock() locks only when the peer had seen a hello and had acknowledged it,
\* whatever the network does to the messages.
THEOREM LocksNeedAnAck == Spec => []LockNeedsPeerAck
<1>1. AckInv => LockNeedsPeerAck
  BY OtherRole DEF AckInv, Keeps, LockNeedsPeerAck, Locked
<1>. QED  BY <1>1, AcksAreEarned, PTL

-----------------------------------------------------------------------------
(* The two transcripts *)

\* A transcript and its records, once one more is appended.
LEMMA TranscriptAppend ==
    ASSUME NEW s \in Runtimes, NEW m
    PROVE  LET t == Append(s.transcript, RecordOf(m))
           IN  /\ Range(t) = Range(s.transcript) \cup {RecordOf(m)}
               /\ Distinct(s.transcript) /\ RecordOf(m) \notin Range(s.transcript) =>
                     Distinct(t)
<1>1. s.transcript \in Seq(Range(s.transcript))
  BY SeqOfRange DEF Runtimes
<1>. QED  BY <1>1, RangeAppend, DistinctAppend

\* An open runtime that records a new message of the peer's and sets the flag that
\* goes with it.
LEMMA PeerRecorded ==
    ASSUME NEW r \in Roles, NEW s \in Runtimes, TranscriptOK(r, s),
           NEW m \in Messages, m.from = Other(r), m.seq > s.lastSeq,
           s.state # "ABORTED",
           NEW t \in Runtimes, t.transcript = Append(s.transcript, RecordOf(m)),
           t.lastSeq = m.seq, t.seq = s.seq, t.sentLocalAck = s.sentLocalAck,
           t.seenPeerHello <=> s.seenPeerHello \/ m.type = "hello",
           t.seenPeerAck <=> s.seenPeerAck \/ m.type = "hello_ack",
           t.seenPeerHello => t.peerParams # None /\ t.peerNonce # None,
           t.state # "LOCKED", t.state = "INIT" => s.state = "INIT",
           t.state = "ABORTED" \/ m.type \in Greetings
    PROVE  TranscriptOK(r, t)
<1>1. Other(r) # r
  BY OtherRole
<1>2. s.lastSeq \in Nat \cup {-1} /\ s.seq \in Nat /\ m.seq \in Nat
  BY DEF Runtimes, Messages
<1>3. RecordOf(m) \notin Range(s.transcript)
  BY <1>2 DEF TranscriptOK, RecordOf
<1>4. Range(t.transcript) = Range(s.transcript) \cup {RecordOf(m)} /\ Distinct(t.transcript)
  BY <1>3, TranscriptAppend DEF TranscriptOK
<1>5. RecordOf(m).type = m.type /\ RecordOf(m).from = Other(r)
  BY DEF RecordOf
<1>6. \A type : Held(t, type, r) = Held(s, type, r)
  BY <1>1, <1>4, <1>5 DEF Held
<1>7. /\ Held(t, "hello", Other(r)) # {} <=>
             Held(s, "hello", Other(r)) # {} \/ m.type = "hello"
      /\ Held(t, "hello_ack", Other(r)) # {} <=>
             Held(s, "hello_ack", Other(r)) # {} \/ m.type = "hello_ack"
  BY <1>4, <1>5 DEF Held
<1>8. \A x \in Range(t.transcript) :
          /\ x.from = Other(r) => x.seq <= t.lastSeq
          /\ t.state # "ABORTED" => x.type \in Greetings
  <2>. SUFFICES ASSUME NEW x \in Range(t.transcript)
                PROVE  /\ x.from = Other(r) => x.seq <= t.lastSeq
                       /\ t.state # "ABORTED" => x.type \in Greetings
    OBVIOUS
  <2>1. CASE x \in Range(s.transcript)
    <3>1. x \in Records
      BY <2>1, RangeOfSeq DEF Runtimes
    <3>2. x.seq \in Nat /\ (x.from = Other(r) => x.seq <= s.lastSeq) /\ x.type \in Greetings
      BY <2>1, <3>1 DEF TranscriptOK, Records
    <3>. QED  BY <1>2, <3>2
  <2>2. CASE x = RecordOf(m)
    BY <1>2, <2>2 DEF RecordOf
  <2>. QED  BY <1>4, <2>1, <2>2
<1>. QED  BY <1>4, <1>6, <1>7, <1>8 DEF TranscriptOK

\* An open runtime that records the hello it starts with, its one ack or its abort.
LEMMA OwnRecorded ==
    ASSUME NEW r \in Roles, NEW s \in Runtimes, TranscriptOK(r, s), NumberOK(r, s),
           NEW m \in Messages, m.from = r, m.seq = s.seq,
           s.state # "ABORTED",
           NEW t \in Runtimes, t.transcript = Append(s.transcript, RecordOf(m)),
           t.lastSeq = s.lastSeq, t.seq = s.seq + 1,
           t.sentLocalAck <=> s.sentLocalAck \/ m.type = "hello_ack",
           t.seenPeerHello = s.seenPeerHello, t.seenPeerAck = s.seenPeerAck,
           t.peerParams = s.peerParams, t.peerNonce = s.peerNonce,
           t.state \notin {"INIT", "LOCKED"},
           m.type = "hello" => s.state = "INIT",
           m.type = "hello_ack" => ~s.sentLocalAck,
           t.state = "ABORTED" \/ m.type \in Greetings
    PROVE  TranscriptOK(r, t)
<1>1. Other(r) # r
  BY OtherRole
<1>2. s.lastSeq \in Nat \cup {-1} /\ s.seq \in Nat
  BY DEF Runtimes
<1>3. RecordOf(m) \notin Range(s.transcript)
  BY <1>2 DEF NumberOK, RecordOf, Range
<1>4. Range(t.transcript) = Range(s.transcript) \cup {RecordOf(m)} /\ Distinct(t.transcript)
  BY <1>3, TranscriptAppend DEF TranscriptOK
<1>5. RecordOf(m).type = m.type /\ RecordOf(m).from = r
  BY DEF RecordOf
<1>6. \A type : Held(t, type, Other(r)) = Held(s, type, Other(r))
  BY <1>1, <1>4, <1>5 DEF Held
<1>7. /\ AtMostOne(Held(t, "hello", r)) /\ AtMostOne(Held(t, "hello_ack", r))
      /\ t.sentLocalAck <=> Held(t, "hello_ack", r) # {}
  <2>1. /\ AtMostOne(Held(s, "hello", r)) /\ AtMostOne(Held(s, "hello_ack", r))
        /\ m.type = "hello" => Held(s, "hello", r) = {}
        /\ m.type = "hello_ack" => Held(s, "hello_ack", r) = {}
        /\ s.sentLocalAck <=> Held(s, "hello_ack", r) # {}
    BY DEF TranscriptOK
  <2>. QED  BY <1>4, <1>5, <2>1 DEF Held, AtMostOne
<1>8. \A x \in Range(t.transcript) :
          /\ x.from = Other(r) => x.seq <= t.lastSeq
          /\ t.state # "ABORTED" => x.type \in Greetings
  BY <1>1, <1>4 DEF TranscriptOK, RecordOf
<1>9. t.state # "ABORTED" => t.seq <= IF t.sentLocalAck THEN 2 ELSE 1
  BY <1>2 DEF TranscriptOK, Greetings
<1>. QED  BY <1>4, <1>6, <1>7, <1>8, <1>9 DEF TranscriptOK

\* A runtime that r may be left with in the middle of a call.
Midway(r, s) ==
    /\ s \in Sound(r) /\ TranscriptOK(r, s) /\ Confirmed(r, s)
    /\ s.state \notin {"LOCKED", "ABORTED"}
    /\ Range(hs[r].transcript) \subseteq Range(s.transcript)

\* A call that leaves such a runtime and sends what it has recorded keeps
\* TranscriptInv.
LEMMA TranscriptTurn ==
    ASSUME IInv, TranscriptInv, NEW r \in Roles, net[r] # <<>>,
           NEW s, TranscriptOK(r, s), Confirmed(r, s),
           Range(hs[r].transcript) \subseteq Range(s.transcript),
           Locked(r) => s.state = "LOCKED",
           hs' = [hs EXCEPT ![r] = s],
           NEW out \in Seq(Spoken(r, s)), Consume(r, out)
    PROVE  TranscriptInv'
<1>. DEFINE p == Other(r)
<1>0. p \in Roles /\ p # r /\ Other(p) = r /\ Roles = {r, p}
  BY OtherRole DEF Roles, Other
<1>. HIDE DEF p
<1>1. hs'[r] = s /\ hs'[p] = hs[p] /\ hs'[Other(r)] = hs[p] /\ hs'[Other(p)] = s
  BY <1>0 DEF IInv, TypeOK, p
<1>2. TranscriptOK(r, s) /\ TranscriptOK(p, hs[p])
  BY <1>0 DEF TranscriptInv
<1>3. Confirmed(r, s)' /\ Confirmed(p, hs[p])'
  <2>1. \A x \in Range(hs[p].transcript) :
            x.from = r /\ x.type \in Greetings => x \in Range(hs[r].transcript)
    BY <1>0 DEF TranscriptInv, Confirmed
  <2>. QED  BY <1>0, <1>1, <2>1 DEF Confirmed, p
<1>4. /\ net'[r] = Tail(net[r]) /\ net'[p] = net[p] \o out
  BY <1>0 DEF Consume, IInv, TypeOK, p
<1>5. net'[r] \in Seq(Spoken(p, hs[p]))
  BY <1>0, <1>4, HeadTailProperties DEF TranscriptInv, p
<1>6. net'[p] \in Seq(Spoken(r, s))
  <2>1. Spoken(r, hs[r]) \subseteq Spoken(r, s)
    BY DEF Spoken, Locked
  <2>2. net[p] \in Seq(Spoken(r, hs[r]))
    BY <1>0 DEF TranscriptInv
  <2>3. net[p] \in Seq(Spoken(r, s))
    BY <2>1, <2>2, SeqMonotonic
  <2>. QED  BY <1>4, <2>3, ConcatProperties
<1>7. \A q \in Roles : TranscriptOK(q, hs'[q]) /\ Confirmed(q, hs[q])'
  BY <1>0, <1>1, <1>2, <1>3 DEF Confirmed
<1>8. \A q \in Roles : net'[q] \in Seq(Spoken(Other(q), hs'[Other(q)]))
  BY <1>0, <1>1, <1>5, <1>6 DEF p
<1>. QED  BY <1>7, <1>8 DEF TranscriptInv, TranscriptOK, Spoken

\* abort() keeps TranscriptInv: its own message is a record like another.
LEMMA TranscriptAbort ==
    ASSUME IInv, IInv', TranscriptInv, NEW r \in Roles, net[r] # <<>>, Open(r),
           NEW s, Midway(r, s), NEW out \in Seq(Spoken(r, s)),
           NEW code \in {"BAD_MESSAGE", "PROTOCOL_ERROR"},
           AbortFrom(r, s, out, code)
    PROVE  TranscriptInv'
<1>. DEFINE m == Message(r, s.seq, s.sid, "abort", [code |-> code])
            t == [s EXCEPT !.seq = @ + 1, !.state = "ABORTED",
                           !.transcript = Append(@, RecordOf(m))]
<1>1. s \in Runtimes /\ NumberOK(r, s) /\ TranscriptOK(r, s) /\ Confirmed(r, s)
      /\ s.state \notin {"LOCKED", "ABORTED"}
      /\ Range(hs[r].transcript) \subseteq Range(s.transcript)
  BY DEF Midway, Sound
<1>2. hs' = [hs EXCEPT ![r] = t] /\ Consume(r, Append(out, m))
  BY DEF AbortFrom
<1>3. t \in Runtimes
  <2>. HIDE DEF t
  <2>1. hs'[r] = t
    BY <1>2 DEF IInv, TypeOK
  <2>. QED  BY <2>1 DEF IInv, TypeOK
<1>4. /\ t.transcript = Append(s.transcript, RecordOf(m)) /\ t.seq = s.seq + 1
      /\ t.state = "ABORTED" /\ t.lastSeq = s.lastSeq
      /\ t.sentLocalAck = s.sentLocalAck
      /\ t.seenPeerHello = s.seenPeerHello /\ t.seenPeerAck = s.seenPeerAck
      /\ t.peerParams = s.peerParams /\ t.peerNonce = s.peerNonce
  BY <1>1 DEF Runtimes
<1>5. m \in Messages /\ m.type = "abort" /\ m.from = r /\ m.seq = s.seq
  BY <1>1 DEF Runtimes, Message, Messages, Types, Bodies
<1>. HIDE DEF t, m
<1>6. TranscriptOK(r, t)
  BY <1>1, <1>3, <1>4, <1>5, OwnRecorded
<1>7. Range(t.transcript) = Range(s.transcript) \cup {RecordOf(m)}
  BY <1>1, <1>4, TranscriptAppend
<1>8. Confirmed(r, t)
  BY <1>1, <1>5, <1>7, OtherRole DEF Confirmed, RecordOf
<1>9. Append(out, m) \in Seq(Spoken(r, t))
  <2>1. m \in Spoken(r, t) /\ Spoken(r, s) \subseteq Spoken(r, t)
    BY <1>1, <1>5, <1>7 DEF Spoken, Greetings
  <2>2. out \in Seq(Spoken(r, t))
    BY <2>1, SeqMonotonic
  <2>. QED  BY <2>1, <2>2, AppendProperties
<1>10. ~Locked(r) /\ Range(hs[r].transcript) \subseteq Range(t.transcript)
  BY <1>1, <1>7 DEF Open, Locked
<1>. QED  BY <1>2, <1>6, <1>8, <1>9, <1>10, TranscriptTurn

\* tryLock() keeps TranscriptInv: whatever it locks was ready.
LEMMA TranscriptTryLock ==
    ASSUME IInv, IInv', TranscriptInv, NEW r \in Roles, net[r] # <<>>, Open(r),
           NEW s, Midway(r, s), NEW out \in Seq(Spoken(r, s)), TryLock(r, s, out)
    PROVE  TranscriptInv'
<1>0. ~Locked(r)
  BY DEF Open, Locked
<1>1. CASE ~LockReady(s)
  BY <1>0, <1>1, TranscriptTurn DEF TryLock, Midway
<1>2. CASE LockReady(s) /\ s.peerParams # params[r]
  BY <1>2, TranscriptAbort DEF TryLock
<1>3. CASE LockReady(s) /\ s.peerParams = params[r]
  <2>. DEFINE sid == SidOf(r, s.peerNonce)
              t == [s EXCEPT !.state = "LOCKED", !.sid = sid]
  <2>1. s \in Runtimes /\ TranscriptOK(r, s) /\ Confirmed(r, s)
        /\ s.state \notin {"LOCKED", "ABORTED"}
        /\ Range(hs[r].transcript) \subseteq Range(s.transcript)
    BY DEF Midway, Sound
  <2>2. hs' = [hs EXCEPT ![r] = t] /\ Consume(r, out \o OnLock(r, sid))
    BY <1>3 DEF TryLock
  <2>3. /\ t.sid = sid /\ t.state = "LOCKED"
        /\ t.transcript = s.transcript /\ t.seq = s.seq /\ t.lastSeq = s.lastSeq
        /\ t.sentLocalAck = s.sentLocalAck
        /\ t.seenPeerHello = s.seenPeerHello /\ t.seenPeerAck = s.seenPeerAck
        /\ t.peerParams = s.peerParams /\ t.peerNonce = s.peerNonce
    BY <2>1 DEF Runtimes
  <2>. HIDE DEF t, sid
  <2>4. sid \in Sids /\ sid # NoSid
    <3>1. hs'[r] = t
      BY <2>2 DEF IInv, TypeOK
    <3>. QED  BY <2>3, <3>1 DEF IInv, TypeOK, Runtimes
  <2>5. LockReady(t)
    BY <1>3, <2>3 DEF LockReady
  <2>6. TranscriptOK(r, t) /\ Confirmed(r, t)
    BY <2>1, <2>3, <2>5 DEF TranscriptOK, Held, Confirmed
  <2>7. OnLock(r, sid) \in Seq(Spoken(r, t))
    BY <2>3, <2>4 DEF OnLock, Spoken, Message, Messages, Types, Bodies, FirstPostSeq, Greetings
  <2>8. out \in Seq(Spoken(r, t))
    <3>1. Spoken(r, s) \subseteq Spoken(r, t)
      BY <2>3 DEF Spoken
    <3>. QED  BY <3>1, SeqMonotonic
  <2>9. out \o OnLock(r, sid) \in Seq(Spoken(r, t))
    BY <2>7, <2>8, ConcatProperties
  <2>. QED  BY <2>1, <2>2, <2>3, <2>6, <2>9, TranscriptTurn
<1>. QED  BY <1>1, <1>2, <1>3

\* What arrives at an open runtime that accepts it is what the peer has spoken.
LEMMA HeadSpoken ==
    ASSUME TranscriptInv, NEW r \in Roles, net[r] # <<>>
    PROVE  Head(net[r]) \in Spoken(Other(r), hs[Other(r)])
BY HeadTailProperties DEF TranscriptInv

\* An open runtime that has recorded a new message of the peer's is on its way.
LEMMA RecordedMidway ==
    ASSUME TranscriptInv, NEW r \in Roles, net[r] # <<>>, Acceptable(r, Head(net[r])),
           hs[r] \in Runtimes,
           NEW t \in Sound(r), t.transcript = Accepted(r, Head(net[r])).transcript,
           t.lastSeq = Head(net[r]).seq, t.seq = hs[r].seq,
           t.sentLocalAck = hs[r].sentLocalAck,
           t.seenPeerHello <=> hs[r].seenPeerHello \/ Head(net[r]).type = "hello",
           t.seenPeerAck <=> hs[r].seenPeerAck \/ Head(net[r]).type = "hello_ack",
           t.seenPeerHello => t.peerParams # None /\ t.peerNonce # None,
           t.state # "LOCKED", t.state = "INIT" => hs[r].state = "INIT",
           t.state = "ABORTED" \/ Head(net[r]).type \in Greetings
    PROVE  /\ TranscriptOK(r, t) /\ Confirmed(r, t)
           /\ Range(hs[r].transcript) \subseteq Range(t.transcript)
           /\ RecordOf(Head(net[r])) \in Range(t.transcript)
<1>. DEFINE m == Head(net[r])
<1>1. m \in Messages /\ m.from = Other(r) /\ m.seq > hs[r].lastSeq
      /\ (m.type \in Greetings => RecordOf(m) \in Range(hs[Other(r)].transcript))
  BY HeadSpoken DEF Spoken, Acceptable, Fresh
<1>2. t \in Runtimes /\ t.transcript = Append(hs[r].transcript, RecordOf(m))
  BY DEF Sound, Accepted, Runtimes
<1>3. TranscriptOK(r, hs[r]) /\ Confirmed(r, hs[r]) /\ hs[r].state # "ABORTED"
  BY DEF TranscriptInv, Acceptable, Open
<1>. HIDE DEF m
<1>4. TranscriptOK(r, t)
  BY <1>1, <1>2, <1>3, PeerRecorded DEF m
<1>5. Range(t.transcript) = Range(hs[r].transcript) \cup {RecordOf(m)}
  BY <1>2, TranscriptAppend
<1>6. Confirmed(r, t)
  BY <1>1, <1>3, <1>5 DEF Confirmed, RecordOf
<1>. QED  BY <1>4, <1>5, <1>6 DEF m

\* handleHello, at its comparison of the parameters and after its ack.
LEMMA HelloMidway ==
    ASSUME IInv, TranscriptInv, NEW r \in Roles, net[r] # <<>>,
           Acceptable(r, Head(net[r])), Head(net[r]).type = "hello"
    PROVE  LET s == Greeted(r, Head(net[r]))
               ack == Message(r, s.seq, NoSid, "hello_ack", Greeting(r))
               t == Acknowledged(s, ack)
           IN  /\ Midway(r, s)
               /\ ~s.sentLocalAck => Midway(r, t) /\ <<ack>> \in Seq(Spoken(r, t))
               /\ RecordOf(Head(net[r])) \in Range(s.transcript)
<1>. DEFINE m == Head(net[r])
            s == Greeted(r, m)
            ack == Message(r, s.seq, NoSid, "hello_ack", Greeting(r))
            t == Acknowledged(s, ack)
<1>1. /\ Open(r) /\ m.from # r /\ m \in Traffic(Other(r)) /\ m \in Messages
      /\ hs[r] \in Runtimes
  BY HeadTravels DEF Acceptable, IInv, TypeOK
<1>2. s \in Sound(r) /\ s \in Runtimes /\ s.state # "LOCKED"
  BY <1>1, GreetedSound DEF Sound
<1>3. m.body.params \in Params /\ m.body.nonce \in Nonces
  BY <1>1, OtherRole DEF Traffic, Greeting, IInv, TypeOK
<1>4. /\ s.transcript = Accepted(r, m).transcript /\ s.lastSeq = m.seq /\ s.seq = hs[r].seq
      /\ s.sentLocalAck = hs[r].sentLocalAck /\ s.seenPeerHello = TRUE
      /\ s.seenPeerAck = hs[r].seenPeerAck
      /\ s.peerParams = m.body.params /\ s.peerNonce = m.body.nonce
      /\ s.state = IF hs[r].state = "SENT_HELLO" THEN "GOT_PEER_HELLO" ELSE hs[r].state
  BY <1>1 DEF Greeted, Accepted, Runtimes
<1>5. s.peerParams # None /\ s.peerNonce # None
  BY <1>3, <1>4, HandshakeAssumption
<1>. HIDE DEF s
<1>6. /\ TranscriptOK(r, s) /\ Confirmed(r, s)
      /\ Range(hs[r].transcript) \subseteq Range(s.transcript)
      /\ RecordOf(m) \in Range(s.transcript)
  BY <1>1, <1>2, <1>4, <1>5, RecordedMidway DEF Greetings
<1>7. Midway(r, s)
  BY <1>1, <1>2, <1>4, <1>6 DEF Midway, Open
<1>8. ASSUME ~s.sentLocalAck
      PROVE  Midway(r, t) /\ <<ack>> \in Seq(Spoken(r, t))
  <2>1. /\ ack \in Messages /\ ack.type = "hello_ack" /\ ack.from = r /\ ack.seq = s.seq
        /\ ack.sid = NoSid
    BY <1>2, GreetingMessage DEF Message
  <2>. HIDE DEF ack
  <2>2. t \in Sound(r) /\ t \in Runtimes
    BY <1>2, <2>1, AcknowledgedSound DEF Sound
  <2>3. /\ t.transcript = Append(s.transcript, RecordOf(ack)) /\ t.seq = s.seq + 1
        /\ t.state = "SENT_ACK" /\ t.lastSeq = s.lastSeq /\ t.sentLocalAck = TRUE
        /\ t.seenPeerHello = s.seenPeerHello /\ t.seenPeerAck = s.seenPeerAck
        /\ t.peerParams = s.peerParams /\ t.peerNonce = s.peerNonce
    BY <1>2 DEF Acknowledged, Runtimes
  <2>. HIDE DEF t
  <2>4. TranscriptOK(r, t)
    BY <1>2, <1>6, <1>7, <1>8, <2>1, <2>2, <2>3, OwnRecorded DEF Sound, Midway, Greetings
  <2>5. Range(t.transcript) = Range(s.transcript) \cup {RecordOf(ack)}
    BY <1>2, <2>3, TranscriptAppend
  <2>6. Confirmed(r, t)
    BY <1>6, <2>1, <2>5, OtherRole DEF Confirmed, RecordOf
  <2>7. ack \in Spoken(r, t)
    BY <2>1, <2>5 DEF Spoken
  <2>. QED  BY <1>6, <2>2, <2>3, <2>4, <2>5, <2>6, <2>7 DEF Midway
<1>. QED  BY <1>6, <1>7, <1>8 DEF s

\* handleHelloAck, after each of the fields it sets.
LEMMA HelloAckMidway ==
    ASSUME IInv, TranscriptInv, NEW r \in Roles, net[r] # <<>>,
           Acceptable(r, Head(net[r])), Head(net[r]).type = "hello_ack"
    PROVE  LET m == Head(net[r])
               s == [Accepted(r, m) EXCEPT !.seenPeerAck = TRUE]
               n == [s EXCEPT !.peerNonce = IF @ = None THEN m.body.nonce ELSE @]
               p == [n EXCEPT !.peerParams = IF @ = None THEN m.body.params ELSE @]
           IN  /\ Midway(r, s) /\ Midway(r, n) /\ Midway(r, p)
               /\ RecordOf(m) \in Range(p.transcript)
<1>. DEFINE m == Head(net[r])
            a == Accepted(r, m)
            s == [a EXCEPT !.seenPeerAck = TRUE]
            n == [s EXCEPT !.peerNonce = IF @ = None THEN m.body.nonce ELSE @]
            p == [n EXCEPT !.peerParams = IF @ = None THEN m.body.params ELSE @]
<1>1. /\ Open(r) /\ m.from # r /\ m \in Traffic(Other(r)) /\ m \in Messages
      /\ hs[r] \in Runtimes
  BY HeadTravels DEF Acceptable, IInv, TypeOK
<1>2. /\ s \in Sound(r) /\ s.state # "LOCKED"
      /\ n \in Sound(r) /\ n.state # "LOCKED"
      /\ p \in Sound(r) /\ p.state # "LOCKED"
  BY <1>1, AckedSound
<1>3. /\ a \in Runtimes /\ a.lastSeq = m.seq /\ a.seq = hs[r].seq
      /\ a.sentLocalAck = hs[r].sentLocalAck /\ a.seenPeerHello = hs[r].seenPeerHello
      /\ a.peerParams = hs[r].peerParams /\ a.peerNonce = hs[r].peerNonce
      /\ a.state = hs[r].state
  <2>1. a \in Runtimes
    BY <1>1, AcceptedSound DEF Sound
  <2>. QED  BY <1>1, <2>1 DEF Accepted, Runtimes
<1>4. hs[r].seenPeerHello => hs[r].peerParams # None /\ hs[r].peerNonce # None
  BY DEF TranscriptInv, TranscriptOK
<1>. HIDE DEF m, a
<1>5. /\ s.seenPeerAck = TRUE
      /\ \A f \in DOMAIN a \ {"seenPeerAck"} : s[f] = a[f]
  BY <1>3 DEF Runtimes
<1>6. /\ s.transcript = a.transcript /\ s.lastSeq = a.lastSeq /\ s.seq = a.seq
      /\ s.sentLocalAck = a.sentLocalAck /\ s.seenPeerHello = a.seenPeerHello
      /\ s.peerParams = a.peerParams /\ s.peerNonce = a.peerNonce /\ s.state = a.state
  BY <1>3 DEF Runtimes
<1>. HIDE DEF s
<1>7. /\ n.transcript = s.transcript /\ n.lastSeq = s.lastSeq /\ n.seq = s.seq
      /\ n.sentLocalAck = s.sentLocalAck /\ n.seenPeerHello = s.seenPeerHello
      /\ n.seenPeerAck = s.seenPeerAck /\ n.peerParams = s.peerParams
      /\ s.peerNonce # None => n.peerNonce = s.peerNonce
      /\ n.state = s.state
  BY <1>2 DEF Sound, Runtimes
<1>. HIDE DEF n
<1>8. /\ p.transcript = n.transcript /\ p.lastSeq = n.lastSeq /\ p.seq = n.seq
      /\ p.sentLocalAck = n.sentLocalAck /\ p.seenPeerHello = n.seenPeerHello
      /\ p.seenPeerAck = n.seenPeerAck /\ p.peerNonce = n.peerNonce
      /\ n.peerParams # None => p.peerParams = n.peerParams
      /\ p.state = n.state
  BY <1>2 DEF Sound, Runtimes
<1>. HIDE DEF p
<1>9. ASSUME NEW t \in {s, n, p}
      PROVE  Midway(r, t) /\ RecordOf(m) \in Range(t.transcript)
  <2>1. /\ t \in Sound(r) /\ t.transcript = a.transcript
        /\ t.lastSeq = m.seq /\ t.seq = hs[r].seq
        /\ t.sentLocalAck = hs[r].sentLocalAck /\ t.seenPeerHello = hs[r].seenPeerHello
        /\ t.seenPeerAck = TRUE /\ t.state = hs[r].state
        /\ t.seenPeerHello => t.peerParams # None /\ t.peerNonce # None
    BY <1>2, <1>3, <1>4, <1>5, <1>6, <1>7, <1>8
  <2>2. /\ t \in Sound(r) /\ t.transcript = Accepted(r, Head(net[r])).transcript
        /\ t.lastSeq = Head(net[r]).seq
    BY <2>1 DEF a, m
  <2>3. t.seenPeerHello <=> hs[r].seenPeerHello \/ Head(net[r]).type = "hello"
    BY <2>1
  <2>4. t.seenPeerAck <=> hs[r].seenPeerAck \/ Head(net[r]).type = "hello_ack"
    BY <2>1
  <2>5. t.state \notin {"LOCKED", "ABORTED"}
    BY <1>1, <2>1 DEF Open
  <2>6. Head(net[r]).type \in Greetings
    BY DEF Greetings
  <2>. QED  BY <1>1, <2>1, <2>2, <2>3, <2>4, <2>5, <2>6, RecordedMidway DEF Midway, m
<1>. QED  BY <1>9 DEF s, n, p, a, m

\* handleIncoming() keeps TranscriptInv, whatever message it is given.
LEMMA TranscriptHandler ==
    ASSUME IInv, IInv', TranscriptInv, NEW r \in Roles, HandleIncoming(r)
    PROVE  TranscriptInv'
<1>. DEFINE m == Head(net[r])
<1>1. /\ net[r] # <<>> /\ hs[r] \in Runtimes /\ hs[r] \in Sound(r)
      /\ TranscriptOK(r, hs[r]) /\ Confirmed(r, hs[r])
      /\ \A s : <<>> \in Seq(Spoken(r, s))
      /\ Open(r) => Midway(r, hs[r])
  BY DEF HandleIncoming, RcvClosed, RcvMalformed, RcvReplay, RcvUnexpectedSid,
         RcvHelloMismatch, RcvHello, RcvHelloAck, RcvOther, IInv, TypeOK, TranscriptInv,
         Midway, Open
<1>2. m \in Spoken(Other(r), hs[Other(r)]) /\ m \in Messages /\ m.seq \in Nat
  BY <1>1, HeadSpoken DEF Spoken, Messages
<1>3. CASE RcvClosed(r)
  <2>1. hs' = [hs EXCEPT ![r] = hs[r]] /\ Consume(r, <<>>)
    BY <1>3 DEF RcvClosed, IInv, TypeOK
  <2>. QED  BY <1>1, <2>1, TranscriptTurn DEF Locked
<1>4. CASE RcvMalformed(r) \/ RcvReplay(r)
  BY <1>1, <1>4, TranscriptAbort DEF RcvMalformed, RcvReplay
<1>5. CASE RcvUnexpectedSid(r)
  <2>. DEFINE s == [hs[r] EXCEPT !.lastSeq = m.seq]
  <2>1. Open(r) /\ m.seq > hs[r].lastSeq /\ AbortFrom(r, s, <<>>, "PROTOCOL_ERROR")
    BY <1>5 DEF RcvUnexpectedSid, Fresh
  <2>. HIDE DEF m
  <2>2. /\ s.transcript = hs[r].transcript /\ s.seq = hs[r].seq /\ s.state = hs[r].state
        /\ s.lastSeq = m.seq /\ s.sentLocalAck = hs[r].sentLocalAck
        /\ s.seenPeerHello = hs[r].seenPeerHello /\ s.seenPeerAck = hs[r].seenPeerAck
        /\ s.peerParams = hs[r].peerParams /\ s.peerNonce = hs[r].peerNonce
        /\ s.sid = hs[r].sid
    BY <1>1 DEF Runtimes
  <2>3. s \in Sound(r)
    BY <1>1, <1>2 DEF Sound, Runtimes, PeerDataOK, LockOK, NumberOK
  <2>. HIDE DEF s
  <2>4. \A x \in Range(s.transcript) : x.from = Other(r) => x.seq <= s.lastSeq
    <3>. SUFFICES ASSUME NEW x \in Range(s.transcript), x.from = Other(r)
                  PROVE  x.seq <= s.lastSeq
      OBVIOUS
    <3>1. x \in Records /\ x.seq <= hs[r].lastSeq
      BY <1>1, <2>2, RangeOfSeq DEF Runtimes, TranscriptOK
    <3>. QED  BY <1>1, <1>2, <2>1, <2>2, <3>1 DEF Records, Runtimes
  <2>5. TranscriptOK(r, s) /\ Confirmed(r, s)
    BY <1>1, <2>2, <2>4 DEF TranscriptOK, Confirmed, Held, LockReady
  <2>6. Midway(r, s)
    BY <2>1, <2>2, <2>3, <2>5 DEF Midway, Open
  <2>. QED  BY <1>1, <2>1, <2>6, TranscriptAbort
<1>6. CASE RcvHelloMismatch(r) \/ RcvHello(r)
  <2>. DEFINE s == Greeted(r, m)
              ack == Message(r, s.seq, NoSid, "hello_ack", Greeting(r))
              t == Acknowledged(s, ack)
  <2>1. /\ Acceptable(r, m) /\ Open(r) /\ m.type = "hello"
        /\ \/ AbortFrom(r, s, <<>>, "PROTOCOL_ERROR")
           \/ s.sentLocalAck /\ TryLock(r, s, <<>>)
           \/ ~s.sentLocalAck /\ TryLock(r, t, <<ack>>)
    BY <1>6 DEF RcvHelloMismatch, RcvHello, Acceptable
  <2>2. /\ Midway(r, s)
        /\ ~s.sentLocalAck => Midway(r, t) /\ <<ack>> \in Seq(Spoken(r, t))
    BY <1>1, <2>1, HelloMidway
  <2>. HIDE DEF m, s, ack, t
  <2>. QED  BY <1>1, <2>1, <2>2, TranscriptAbort, TranscriptTryLock
<1>7. CASE RcvHelloAck(r)
  <2>. DEFINE s == [Accepted(r, m) EXCEPT !.seenPeerAck = TRUE]
              n == [s EXCEPT !.peerNonce = IF @ = None THEN m.body.nonce ELSE @]
              p == [n EXCEPT !.peerParams = IF @ = None THEN m.body.params ELSE @]
  <2>1. /\ Acceptable(r, m) /\ Open(r) /\ m.type = "hello_ack"
        /\ \/ AbortFrom(r, s, <<>>, "BAD_MESSAGE")
           \/ AbortFrom(r, n, <<>>, "BAD_MESSAGE")
           \/ TryLock(r, p, <<>>)
    BY <1>7 DEF RcvHelloAck, Acceptable
  <2>2. Midway(r, s) /\ Midway(r, n) /\ Midway(r, p)
    BY <1>1, <2>1, HelloAckMidway
  <2>. HIDE DEF m, s, n, p
  <2>. QED  BY <1>1, <2>1, <2>2, TranscriptAbort, TranscriptTryLock
<1>8. CASE RcvOther(r)
  <2>. DEFINE a == Accepted(r, m)
              s == [a EXCEPT !.state = IF m.type = "abort" THEN "ABORTED" ELSE @]
  <2>1. /\ Acceptable(r, m) /\ Open(r) /\ m.from # r /\ m.type \notin Greetings
        /\ Consume(r, <<>>) /\ hs' = [hs EXCEPT ![r] = s]
    BY <1>8 DEF RcvOther, Acceptable, Greetings
  <2>2. m.type = "abort"
    BY <1>2, <2>1 DEF Acceptable, Spoken, Messages, Types, Greetings
  <2>3. s \in Sound(r) /\ a \in Runtimes
    BY <1>2, <2>1, OtherSound, AcceptedSound DEF Sound
  <2>4. /\ s.transcript = a.transcript /\ s.lastSeq = a.lastSeq /\ s.seq = a.seq
        /\ s.sentLocalAck = a.sentLocalAck /\ s.seenPeerHello = a.seenPeerHello
        /\ s.seenPeerAck = a.seenPeerAck
        /\ s.peerParams = a.peerParams /\ s.peerNonce = a.peerNonce /\ s.state = "ABORTED"
    BY <2>2, <2>3 DEF Runtimes
  <2>5. /\ a.lastSeq = m.seq /\ a.seq = hs[r].seq
        /\ a.sentLocalAck = hs[r].sentLocalAck /\ a.seenPeerHello = hs[r].seenPeerHello
        /\ a.seenPeerAck = hs[r].seenPeerAck
        /\ a.peerParams = hs[r].peerParams /\ a.peerNonce = hs[r].peerNonce
    BY <1>1 DEF Accepted, Runtimes
  <2>6. hs[r].seenPeerHello => hs[r].peerParams # None /\ hs[r].peerNonce # None
    BY <1>1 DEF TranscriptOK
  <2>. HIDE DEF a, s
  <2>7. /\ s.transcript = Accepted(r, Head(net[r])).transcript
        /\ s.lastSeq = Head(net[r]).seq /\ s.seq = hs[r].seq
        /\ s.sentLocalAck = hs[r].sentLocalAck
        /\ s.seenPeerHello <=> hs[r].seenPeerHello \/ Head(net[r]).type = "hello"
        /\ s.seenPeerAck <=> hs[r].seenPeerAck \/ Head(net[r]).type = "hello_ack"
        /\ s.seenPeerHello => s.peerParams # None /\ s.peerNonce # None
    BY <2>1, <2>4, <2>5, <2>6 DEF a, Greetings
  <2>8. /\ TranscriptOK(r, s) /\ Confirmed(r, s)
        /\ Range(hs[r].transcript) \subseteq Range(s.transcript)
    BY <1>1, <2>1, <2>3, <2>4, <2>7, RecordedMidway
  <2>. QED  BY <1>1, <2>1, <2>8, TranscriptTurn DEF Open, Locked
<1>. QED  BY <1>3, <1>4, <1>5, <1>6, <1>7, <1>8 DEF HandleIncoming

\* What start() does to the runtime and the peer's inbox.
LEMMA StartEffect ==
    ASSUME IInv, TranscriptInv, NEW r \in Roles, Start(r)
    PROVE  \E t, hello :
              /\ hs' = [hs EXCEPT ![r] = t]
              /\ net' = [net EXCEPT ![Other(r)] = Append(@, hello)]
              /\ TranscriptOK(r, t) /\ Confirmed(r, t) /\ t.state = "SENT_HELLO"
              /\ Range(t.transcript) = Range(hs[r].transcript) \cup {RecordOf(hello)}
              /\ hello \in Spoken(r, t) /\ hello.type = "hello" /\ hello.seq = hs[r].seq
              /\ t.seq = hs[r].seq + 1 /\ t.lastSeq = hs[r].lastSeq
              /\ t.seenPeerAck = hs[r].seenPeerAck /\ t.seenPeerHello = hs[r].seenPeerHello
              /\ t.sentLocalAck = hs[r].sentLocalAck
              /\ t.peerParams = hs[r].peerParams /\ t.peerNonce = hs[r].peerNonce
<1>. DEFINE hello == Message(r, hs[r].seq, NoSid, "hello", Greeting(r))
            t == [hs[r] EXCEPT !.seq = @ + 1, !.state = "SENT_HELLO",
                               !.transcript = Append(@, RecordOf(hello))]
<1>1. /\ hs[r] \in Sound(r) /\ hs[r] \in Runtimes /\ NumberOK(r, hs[r])
      /\ TranscriptOK(r, hs[r]) /\ Confirmed(r, hs[r]) /\ hs[r].state = "INIT"
  BY DEF IInv, Sound, TranscriptInv, Start
<1>2. /\ hello \in Messages /\ hello.type = "hello" /\ hello.from = r
      /\ hello.seq = hs[r].seq /\ hello.sid = NoSid
  BY <1>1, GreetingMessage DEF Message
<1>3. hs' = [hs EXCEPT ![r] = t] /\ net' = [net EXCEPT ![Other(r)] = Append(@, hello)]
  BY DEF Start, IInv, TypeOK
<1>. HIDE DEF hello
<1>4. t \in Runtimes
  BY <1>1, <1>2, SentSound DEF States, Sound
<1>5. /\ t.transcript = Append(hs[r].transcript, RecordOf(hello)) /\ t.seq = hs[r].seq + 1
      /\ t.state = "SENT_HELLO" /\ t.lastSeq = hs[r].lastSeq
      /\ t.sentLocalAck = hs[r].sentLocalAck
      /\ t.seenPeerHello = hs[r].seenPeerHello /\ t.seenPeerAck = hs[r].seenPeerAck
      /\ t.peerParams = hs[r].peerParams /\ t.peerNonce = hs[r].peerNonce
  BY <1>1 DEF Runtimes
<1>. HIDE DEF t
<1>6. TranscriptOK(r, t)
  BY <1>1, <1>2, <1>4, <1>5, OwnRecorded DEF Greetings
<1>7. Range(t.transcript) = Range(hs[r].transcript) \cup {RecordOf(hello)}
  BY <1>1, <1>5, TranscriptAppend
<1>8. Confirmed(r, t)
  BY <1>1, <1>2, <1>7, OtherRole DEF Confirmed, RecordOf
<1>9. hello \in Spoken(r, t)
  BY <1>2, <1>7 DEF Spoken
<1>. QED  BY <1>2, <1>3, <1>5, <1>6, <1>7, <1>8, <1>9

\* start() keeps TranscriptInv: it records the hello it sends.
LEMMA TranscriptStart ==
    ASSUME IInv, TranscriptInv, NEW r \in Roles, Start(r)
    PROVE  TranscriptInv'
<1>. DEFINE p == Other(r)
<1>0. p \in Roles /\ p # r /\ Other(p) = r /\ Roles = {r, p}
  BY OtherRole DEF Roles, Other
<1>1. PICK t, hello :
          /\ hs' = [hs EXCEPT ![r] = t] /\ net' = [net EXCEPT ![p] = Append(@, hello)]
          /\ TranscriptOK(r, t) /\ Confirmed(r, t)
          /\ Range(t.transcript) = Range(hs[r].transcript) \cup {RecordOf(hello)}
          /\ hello \in Spoken(r, t)
  BY StartEffect
<1>. HIDE DEF p
<1>2. hs'[r] = t /\ hs'[p] = hs[p] /\ hs'[Other(r)] = hs[p] /\ hs'[Other(p)] = t
  BY <1>0, <1>1 DEF IInv, TypeOK, p
<1>3. net'[r] = net[r] /\ net'[p] = Append(net[p], hello)
  BY <1>0, <1>1 DEF IInv, TypeOK
<1>4. Confirmed(r, t)' /\ Confirmed(p, hs[p])'
  <2>1. \A x \in Range(hs[p].transcript) :
            x.from = r /\ x.type \in Greetings => x \in Range(hs[r].transcript)
    BY <1>0 DEF TranscriptInv, Confirmed
  <2>. QED  BY <1>0, <1>1, <1>2, <2>1 DEF Confirmed, p
<1>5. net'[r] \in Seq(Spoken(p, hs[p]))
  BY <1>3 DEF TranscriptInv, p
<1>6. net'[p] \in Seq(Spoken(r, t))
  <2>1. Spoken(r, hs[r]) \subseteq Spoken(r, t)
    BY <1>1 DEF Spoken, Start
  <2>2. net[p] \in Seq(Spoken(r, t))
    BY <1>0, <2>1, SeqMonotonic DEF TranscriptInv
  <2>. QED  BY <1>1, <1>3, <2>2, AppendProperties
<1>7. \A q \in Roles : TranscriptOK(q, hs'[q]) /\ Confirmed(q, hs[q])'
  BY <1>0, <1>1, <1>2, <1>4 DEF Confirmed, TranscriptInv
<1>8. \A q \in Roles : net'[q] \in Seq(Spoken(Other(q), hs'[Other(q)]))
  BY <1>0, <1>2, <1>5, <1>6 DEF p
<1>. QED  BY <1>7, <1>8 DEF TranscriptInv, TranscriptOK, Spoken

\* A fault keeps TranscriptInv: garbling makes no greeting and no announcement.
LEMMA TranscriptFault ==
    ASSUME IInv, TranscriptInv, Network
    PROVE  TranscriptInv'
<1>. PICK r \in Roles : Duplicate(r) \/ Lose(r) \/ Reorder(r) \/ Corrupt(r)
  BY DEF Network
<1>. DEFINE S == Spoken(Other(r), hs[Other(r)])
<1>1. \A x \in S : [x EXCEPT !.type = "malformed"] \in S
  BY DEF Spoken, Messages, Types, Greetings
<1>2. net[r] \in Seq(S) /\ net = [q \in Roles |-> net[q]]
  BY DEF IInv, TypeOK, TranscriptInv
<1>. HIDE DEF S
<1>3. UNCHANGED hs
  BY <1>1, <1>2, FaultSeq DEF MayFail
<1>4. PICK t \in Seq(S) : net' = [net EXCEPT ![r] = t]
  BY <1>1, <1>2, FaultSeq
<1>5. \A q \in Roles : net'[q] \in Seq(Spoken(Other(q), hs[Other(q)]))
  BY <1>4 DEF TranscriptInv, IInv, TypeOK, S
<1>. QED  BY <1>3, <1>5 DEF TranscriptInv, TranscriptOK, Confirmed, Spoken

\* The transcripts start empty.
LEMMA TranscriptsStart == Init => TranscriptInv
<1>. SUFFICES ASSUME Init PROVE TranscriptInv  OBVIOUS
<1>1. \A r \in Roles : hs[r] = Created /\ net[r] = <<>>
  BY DEF Init
<1>2. Range(<<>>) = {} /\ DOMAIN <<>> = {}
  BY DEF Range
<1>3. \A r \in Roles : TranscriptOK(r, Created) /\ Confirmed(r, Created)
  BY <1>2 DEF TranscriptOK, Confirmed, Created, Distinct, AtMostOne, Held, LockReady
<1>4. \A S : <<>> \in Seq(S)
  OBVIOUS
<1>. QED  BY <1>1, <1>3, <1>4 DEF TranscriptInv

\* Every step keeps the two transcripts in agreement.
LEMMA TranscriptsStay == IInv /\ IInv' /\ TranscriptInv /\ [Next]_hsVars => TranscriptInv'
<1>. SUFFICES ASSUME IInv, IInv', TranscriptInv, [Next]_hsVars PROVE TranscriptInv'
  OBVIOUS
<1>1. CASE \E r \in Roles : Start(r)
  BY <1>1, TranscriptStart
<1>2. CASE \E r \in Roles : HandleIncoming(r)
  BY <1>2, TranscriptHandler
<1>3. CASE Network
  BY <1>3, TranscriptFault
<1>4. CASE UNCHANGED hsVars
  <2>1. UNCHANGED <<hs, net>>
    BY <1>4 DEF hsVars
  <2>. QED  BY <2>1 DEF TranscriptInv, TranscriptOK, Confirmed, Spoken
<1>. QED  BY <1>1, <1>2, <1>3, <1>4 DEF Next

\* TranscriptInv holds in every state: flags and transcript of a runtime tell one
\* story, and the peer's transcript confirms it.
THEOREM TranscriptsTellAll == Spec => []TranscriptInv
<1>1. Init => TranscriptInv
  BY TranscriptsStart
<1>2. IInv /\ IInv' /\ TranscriptInv /\ [Next]_hsVars => TranscriptInv'
  BY TranscriptsStay
<1>. QED  BY <1>1, <1>2, Invariance, PTL DEF Spec

\* Two LOCKED runtimes hash one transcript: each holds one hello and one ack of
\* either party, and nothing else.
THEOREM TranscriptsAgree == Spec => []LockTranscriptAgreement
<1>1. IInv /\ TranscriptInv => LockTranscriptAgreement
  <2>. SUFFICES ASSUME IInv, TranscriptInv, \A r \in Roles : Locked(r)
                PROVE  TranscriptHash(hs["alice"].transcript) =
                           TranscriptHash(hs["bob"].transcript)
    BY DEF LockTranscriptAgreement
  <2>1. ASSUME NEW r \in Roles, NEW x \in Range(hs[r].transcript)
        PROVE  x \in Range(hs[Other(r)].transcript)
    <3>. DEFINE p == Other(r)
    <3>0. p \in Roles /\ Other(p) = r
      BY OtherRole
    <3>1. /\ TranscriptOK(r, hs[r]) /\ Confirmed(r, hs[r]) /\ hs[r].state = "LOCKED"
          /\ TranscriptOK(p, hs[p]) /\ Confirmed(p, hs[p]) /\ hs[p].state = "LOCKED"
      BY <3>0 DEF TranscriptInv, Locked
    <3>2. x.type \in Greetings
      BY <2>1, <3>1 DEF TranscriptOK
    <3>. HIDE DEF p
    <3>3. CASE x.from = p
      BY <3>1, <3>2, <3>3 DEF Confirmed, p
    <3>4. CASE x.from = r
      <4>1. x \in Held(hs[r], x.type, r)
        BY <2>1, <3>4 DEF Held
      <4>2. AtMostOne(Held(hs[r], x.type, r))
        BY <3>1, <3>2 DEF TranscriptOK, Greetings
      <4>3. Held(hs[p], x.type, r) # {}
        BY <3>0, <3>1, <3>2 DEF TranscriptOK, LockReady, Greetings
      <4>4. PICK y : y \in Held(hs[p], x.type, r)
        BY <4>3
      <4>5. y \in Range(hs[p].transcript) /\ y.type = x.type /\ y.from = r
        BY <4>4 DEF Held
      <4>6. y \in Held(hs[r], x.type, r)
        BY <3>0, <3>1, <3>2, <4>5 DEF Confirmed, Held
      <4>. QED  BY <4>1, <4>2, <4>5, <4>6 DEF AtMostOne, p
    <3>5. x.from \in Roles
      <4>1. hs[r].transcript \in Seq(Records)
        BY DEF IInv, TypeOK, Runtimes
      <4>2. x \in Records
        BY <2>1, <4>1, RangeOfSeq
      <4>. QED  BY <4>2 DEF Records
    <3>. QED  BY <3>3, <3>4, <3>5, OtherRole DEF p
  <2>2. Range(hs["alice"].transcript) = Range(hs["bob"].transcript)
    <3>1. "alice" \in Roles /\ "bob" \in Roles /\ Other("alice") = "bob" /\ Other("bob") = "alice"
      BY DEF Roles, Other
    <3>. QED  BY <2>1, <3>1
  <2>3. \A r \in Roles : Distinct(hs[r].transcript)
    BY DEF TranscriptInv, TranscriptOK
  <2>. QED  BY <2>2, <2>3, HashOfDistinct DEF Roles
<1>. QED  BY <1>1, Invariance, TranscriptsTellAll, PTL

-----------------------------------------------------------------------------
(* A faultless past *)

\* Numbers that rise along a sequence rise along its tail, above that of the head.
LEMMA RisingTail ==
    ASSUME NEW S, NEW s \in Seq(S), s # <<>>, Rising(s)
    PROVE  /\ Rising(Tail(s))
           /\ Range(s) = {Head(s)} \cup Range(Tail(s))
           /\ \A m \in Range(Tail(s)) : Head(s).seq < m.seq
<1>1. /\ DOMAIN s = 1 .. Len(s) /\ Len(s) \in Nat /\ Len(s) > 0
      /\ DOMAIN Tail(s) = 1 .. Len(s) - 1 /\ Head(s) = s[1]
      /\ \A i \in 1 .. Len(s) - 1 : Tail(s)[i] = s[i + 1]
  BY HeadTailProperties, LenProperties, EmptySeq
<1>2. \A i \in 1 .. Len(s) - 1 : i + 1 \in 1 .. Len(s) /\ 1 < i + 1
  BY <1>1
<1>3. Rising(Tail(s))
  BY <1>1, <1>2 DEF Rising
<1>4. \A j \in 1 .. Len(s) : j = 1 \/ (j - 1 \in 1 .. Len(s) - 1 /\ s[j] = Tail(s)[j - 1])
  BY <1>1
<1>5. Range(s) = {Head(s)} \cup Range(Tail(s))
  <2>1. Head(s) \in Range(s)
    BY <1>1 DEF Range
  <2>2. \A m \in Range(Tail(s)) : m \in Range(s)
    BY <1>1, <1>2 DEF Range
  <2>3. ASSUME NEW m \in Range(s) PROVE m = Head(s) \/ m \in Range(Tail(s))
    <3>1. PICK j \in 1 .. Len(s) : m = s[j]
      BY <1>1 DEF Range
    <3>. QED  BY <1>1, <1>4, <3>1 DEF Range
  <2>. QED  BY <2>1, <2>2, <2>3
<1>6. \A m \in Range(Tail(s)) : Head(s).seq < m.seq
  <2>1. 1 \in DOMAIN s
    BY <1>1
  <2>. QED  BY <1>1, <1>2, <2>1 DEF Rising, Range
<1>. QED  BY <1>3, <1>5, <1>6

LEMMA RisingConcat ==
    ASSUME NEW S, NEW s \in Seq(S), NEW t \in Seq(S), Rising(s), Rising(t),
           \A x \in Range(s), y \in Range(t) : x.seq < y.seq
    PROVE  Rising(s \o t)
<1>1. /\ DOMAIN s = 1 .. Len(s) /\ Len(s) \in Nat /\ DOMAIN t = 1 .. Len(t) /\ Len(t) \in Nat
      /\ DOMAIN (s \o t) = 1 .. Len(s) + Len(t)
      /\ \A i \in 1 .. Len(s) + Len(t) :
            (s \o t)[i] = IF i <= Len(s) THEN s[i] ELSE t[i - Len(s)]
  BY ConcatProperties, LenProperties
<1>. SUFFICES ASSUME NEW i \in 1 .. Len(s) + Len(t), NEW j \in 1 .. Len(s) + Len(t), i < j
              PROVE  (s \o t)[i].seq < (s \o t)[j].seq
  BY <1>1 DEF Rising
<1>2. CASE j <= Len(s)
  BY <1>1, <1>2 DEF Rising
<1>3. CASE i <= Len(s) /\ j > Len(s)
  <2>1. i \in DOMAIN s /\ j - Len(s) \in DOMAIN t
    BY <1>1, <1>3
  <2>2. (s \o t)[i] = s[i] /\ (s \o t)[j] = t[j - Len(s)]
    BY <1>1, <1>3
  <2>. QED  BY <2>1, <2>2 DEF Range
<1>4. CASE i > Len(s)
  <2>1. i - Len(s) \in DOMAIN t /\ j - Len(s) \in DOMAIN t /\ i - Len(s) < j - Len(s)
    BY <1>1, <1>4
  <2>2. (s \o t)[i] = t[i - Len(s)] /\ (s \o t)[j] = t[j - Len(s)]
    BY <1>1, <1>4
  <2>. QED  BY <2>1, <2>2 DEF Rising
<1>. QED  BY <1>1, <1>2, <1>3, <1>4

\* An announcement is heard last: whoever hears it is ready, so it has locked.
LEMMA AnnouncementHeardLast ==
    ASSUME IInv, AckInv, TranscriptInv, OrderlyInv, Faultless, NEW r \in Roles,
           net[r] # <<>>, Head(net[r]).type = "keygen_announce"
    PROVE  Locked(r)
<1>. DEFINE p == Other(r)
            m == Head(net[r])
<1>0. p \in Roles /\ Other(p) = r
  BY OtherRole
<1>. HIDE DEF p
<1>1. /\ m \in Spoken(p, hs[p]) /\ m.seq = FirstPostSeq /\ hs[p].state = "LOCKED"
  BY HeadSpoken DEF Spoken, p
<1>2. /\ TranscriptOK(p, hs[p]) /\ NumberOK(p, hs[p]) /\ hs[p] \in Runtimes
      /\ TranscriptOK(r, hs[r])
  BY <1>0 DEF TranscriptInv, IInv, Sound
<1>3. PICK y : y \in Held(hs[p], "hello_ack", p)
  BY <1>1, <1>2 DEF TranscriptOK, LockReady
<1>4. y \in Range(hs[p].transcript) /\ y.type = "hello_ack" /\ y.from = p
  BY <1>3 DEF Held
<1>5. y.seq < FirstPostSeq
  <2>1. hs[p].seq \in Nat /\ hs[p].seq <= IF hs[p].sentLocalAck THEN 2 ELSE 1
    BY <1>1, <1>2 DEF TranscriptOK, Runtimes
  <2>2. y.seq < hs[p].seq
    BY <1>2, <1>4 DEF NumberOK, Range
  <2>3. y \in Records
    BY <1>2, <1>4, RangeOfSeq DEF Runtimes
  <2>. QED  BY <2>1, <2>2, <2>3 DEF FirstPostSeq, Records
<1>6. ASSUME NEW x \in Range(net[r]) PROVE RecordOf(x) # y
  <2>1. net[r] \in Seq(Messages) /\ Rising(net[r])
    BY DEF IInv, TypeOK, OrderlyInv, OrderlyAt
  <2>2. x = m \/ m.seq < x.seq
    BY <2>1, RisingTail
  <2>3. x \in Messages
    BY <2>1, RangeOfSeq
  <2>4. y \in Records
    BY <1>2, <1>4, RangeOfSeq DEF Runtimes
  <2>5. x.seq \in Nat /\ y.seq \in Nat
    BY <2>3, <2>4 DEF Messages, Records
  <2>6. x.seq # y.seq
    BY <1>1, <1>5, <2>2, <2>5 DEF FirstPostSeq
  <2>. QED  BY <2>6 DEF RecordOf
<1>7. y \in Range(hs[r].transcript)
  BY <1>4, <1>6 DEF OrderlyInv, OrderlyAt, Arrives, p
<1>8. hs[r].seenPeerAck
  BY <1>2, <1>4, <1>7 DEF TranscriptOK, Held, p
<1>9. hs[r].sentLocalAck /\ hs[r].seenPeerHello
  <2>1. hs[p] \in Keeps(p) /\ hs[p].seenPeerAck
    BY <1>0, <1>1 DEF AckInv, Locked
  <2>2. hs[r] \in Keeps(r)
    BY DEF AckInv
  <2>. QED  BY <1>0, <2>1, <2>2 DEF Keeps
<1>10. LockReady(hs[r])
  BY <1>2, <1>8, <1>9 DEF LockReady, TranscriptOK
<1>. QED  BY <1>10 DEF OrderlyInv, OrderlyAt

\* What an open runtime hears it accepts.
LEMMA HeadAccepted ==
    ASSUME IInv, AckInv, TranscriptInv, OrderlyInv, Faultless, NEW r \in Roles,
           net[r] # <<>>, Open(r)
    PROVE  /\ Acceptable(r, Head(net[r])) /\ Head(net[r]).type \in Greetings
           /\ RecordOf(Head(net[r])) \in Range(hs[Other(r)].transcript)
           /\ Head(net[r]).seq \in Nat /\ Head(net[r]).seq < hs[Other(r)].seq
<1>. DEFINE m == Head(net[r])
<1>1. m \in Spoken(Other(r), hs[Other(r)]) /\ m \in Messages
  BY HeadSpoken DEF Spoken
<1>2. m \in Range(net[r])
  BY RangeTail, SeqOfRange DEF IInv, TypeOK
<1>3. m.type \in Greetings \cup {"keygen_announce"} /\ m.seq > hs[r].lastSeq
  BY <1>2 DEF OrderlyInv, OrderlyAt
<1>4. m.type \in Greetings
  BY <1>3, AnnouncementHeardLast DEF Open, Locked
<1>5. /\ m.sid = NoSid /\ RecordOf(m) \in Range(hs[Other(r)].transcript)
      /\ m.from = Other(r)
  BY <1>1, <1>4 DEF Spoken
<1>6. m.seq < hs[Other(r)].seq
  <2>1. NumberOK(Other(r), hs[Other(r)])
    BY OtherRole DEF IInv, Sound
  <2>. QED  BY <1>5, <2>1 DEF NumberOK, Range, RecordOf
<1>. QED  BY <1>1, <1>3, <1>4, <1>5, <1>6, OtherRole
          DEF Acceptable, Fresh, Greetings, Messages

\* Before it locks, all that a party has sent bears a number it has used up.
LEMMA SentEarlier ==
    ASSUME IInv, TranscriptInv, OrderlyInv, Faultless, NEW r \in Roles, Open(r),
           NEW x \in Range(net[Other(r)])
    PROVE  x.seq \in Nat /\ x.seq < hs[r].seq
<1>. DEFINE p == Other(r)
<1>0. p \in Roles /\ Other(p) = r
  BY OtherRole
<1>1. x \in Spoken(r, hs[r])
  <2>1. net[p] \in Seq(Spoken(r, hs[r]))
    BY <1>0 DEF TranscriptInv
  <2>. QED  BY <2>1, RangeOfSeq
<1>2. x.type \in Greetings \cup {"keygen_announce"}
  BY <1>0 DEF OrderlyInv, OrderlyAt
<1>3. RecordOf(x) \in Range(hs[r].transcript) /\ x \in Messages /\ x.from = r
  BY <1>1, <1>2 DEF Spoken, Open
<1>4. NumberOK(r, hs[r])
  BY DEF IInv, Sound
<1>. QED  BY <1>3, <1>4 DEF NumberOK, Range, RecordOf, Messages

\* A call of r's, made while it is open, that leaves its runtime at s, sends out and
\* loses nothing of what r has recorded.
Sends(r, s, out) ==
    /\ s \in Runtimes /\ s.seq >= hs[r].seq
    /\ Range(hs[r].transcript) \subseteq Range(s.transcript)
    /\ \A x \in Range(s.transcript) :
          x.from = r => \/ x \in Range(hs[r].transcript)
                        \/ \E m \in Range(out) : RecordOf(m) = x
    /\ out \in Seq(Messages) /\ Rising(out)
    /\ \A m \in Range(out) :
          m.type \in Greetings \cup {"keygen_announce"} /\ m.seq >= hs[r].seq

\* Such a call leaves the peer's side in order: new messages bear higher numbers.
LEMMA OrderlySent ==
    ASSUME IInv, TranscriptInv, OrderlyInv, Faultless, NEW r \in Roles, Open(r),
           NEW s, NEW out, Sends(r, s, out), hs' = [hs EXCEPT ![r] = s],
           net'[Other(r)] = net[Other(r)] \o out
    PROVE  OrderlyAt(Other(r))'
<1>. DEFINE p == Other(r)
<1>0. p \in Roles /\ p # r /\ Other(p) = r
  BY OtherRole
<1>1. /\ hs[r] \in Runtimes /\ s \in Runtimes /\ hs[p] \in Runtimes
      /\ net[p] \in Seq(Messages) /\ out \in Seq(Messages)
  BY <1>0 DEF IInv, TypeOK, Sends
<1>. HIDE DEF p
<1>2. hs'[r] = s /\ hs'[p] = hs[p] /\ hs'[Other(p)] = s /\ net'[p] = net[p] \o out
  BY <1>0 DEF IInv, TypeOK, p
<1>3. OrderlyAt(p)
  BY <1>0 DEF OrderlyInv
<1>4. \A x \in Range(net[p]) : x.seq \in Nat /\ x.seq < hs[r].seq
  BY SentEarlier DEF p
<1>5. \A y \in Range(out) : y \in Messages /\ y.seq \in Nat /\ y.seq >= hs[r].seq
  <2>1. \A y \in Range(out) : y \in Messages
    BY <1>1, RangeOfSeq
  <2>. QED  BY <2>1 DEF Sends, Messages
<1>6. hs[r].seq \in Nat /\ hs[p].lastSeq \in Nat \cup {-1} /\ s.seq \in Nat /\ s.seq >= hs[r].seq
  BY <1>1 DEF Runtimes, Sends
<1>7. Rising(net'[p])
  <2>1. Rising(net[p]) /\ Rising(out)
    BY <1>3 DEF OrderlyAt, Sends
  <2>2. \A x \in Range(net[p]), y \in Range(out) : x.seq < y.seq
    BY <1>4, <1>5, <1>6
  <2>. QED  BY <1>1, <1>2, <2>1, <2>2, RisingConcat
<1>8. Range(net'[p]) = Range(net[p]) \cup Range(out)
  BY <1>1, <1>2, RangeConcatenation
<1>9. \A m \in Range(net'[p]) :
          m.type \in Greetings \cup {"keygen_announce"} /\ m.seq > hs[p].lastSeq
  <2>1. hs[p].lastSeq < hs[r].seq
    BY <1>0, <1>3 DEF OrderlyAt
  <2>. QED  BY <1>3, <1>5, <1>6, <1>8, <2>1 DEF OrderlyAt, Sends
<1>10. ASSUME NEW x \in Range(s.transcript), x.from = r
       PROVE  Arrives(p, x)'
  <2>1. CASE x \in Range(hs[r].transcript)
    <3>1. Arrives(p, x)
      BY <1>0, <1>3, <1>10, <2>1 DEF OrderlyAt
    <3>. QED  BY <1>2, <1>8, <3>1 DEF Arrives
  <2>2. CASE \E m \in Range(out) : RecordOf(m) = x
    BY <1>2, <1>8, <2>2 DEF Arrives, RecordOf
  <2>. QED  BY <1>10, <2>1, <2>2 DEF Sends
<1>11. /\ hs[p].state # "ABORTED" /\ (LockReady(hs[p]) => Locked(p))
       /\ hs[p].lastSeq < s.seq
  <2>1. hs[p].state # "ABORTED" /\ (LockReady(hs[p]) => Locked(p))
        /\ hs[p].lastSeq < hs[r].seq
    BY <1>0, <1>3 DEF OrderlyAt
  <2>. QED  BY <1>6, <2>1
<1>. QED  BY <1>0, <1>2, <1>7, <1>9, <1>10, <1>11 DEF OrderlyAt, Open, Locked, LockReady, p

\* A call that handles the message at the head of r's inbox without aborting, and
\* locks if it leaves r ready.
Smooth(r, s, out) ==
    /\ Sends(r, s, out) /\ hs' = [hs EXCEPT ![r] = s] /\ Consume(r, out)
    /\ s.state # "ABORTED" /\ (LockReady(s) => s.state = "LOCKED")
    /\ s.lastSeq = Head(net[r]).seq
    /\ RecordOf(Head(net[r])) \in Range(s.transcript)

\* It keeps the past in order.
LEMMA OrderlyTurn ==
    ASSUME IInv, AckInv, TranscriptInv, OrderlyInv, Faultless, NEW r \in Roles,
           net[r] # <<>>, Open(r), NEW s, NEW out, Smooth(r, s, out)
    PROVE  OrderlyInv'
<1>. DEFINE p == Other(r)
            m == Head(net[r])
<1>0. p \in Roles /\ p # r /\ Other(p) = r /\ Roles = {r, p}
  BY OtherRole DEF Roles, Other
<1>1. net[r] \in Seq(Messages) /\ hs[p] \in Runtimes /\ m.seq < hs[p].seq
  BY <1>0, HeadAccepted DEF IInv, TypeOK
<1>. HIDE DEF p, m
<1>2. /\ hs'[r] = s /\ hs'[p] = hs[p]
      /\ net'[r] = Tail(net[r]) /\ net'[p] = net[p] \o out
  BY <1>0 DEF IInv, TypeOK, Smooth, Consume, p
<1>3. OrderlyAt(p)'
  BY <1>2, OrderlySent DEF Smooth, p
<1>4. OrderlyAt(r)
  BY DEF OrderlyInv
<1>5. /\ Rising(Tail(net[r])) /\ Range(net[r]) = {m} \cup Range(Tail(net[r]))
      /\ \A x \in Range(Tail(net[r])) : m.seq < x.seq
  BY <1>1, <1>4, RisingTail DEF OrderlyAt, m
<1>6. \A x \in Range(Tail(net[r])) :
          x.type \in Greetings \cup {"keygen_announce"} /\ x.seq > m.seq
  <2>1. \A x \in Range(Tail(net[r])) : x \in Messages /\ m \in Messages
    <3>1. \A x \in Range(net[r]) : x \in Messages
      BY <1>1, RangeOfSeq
    <3>. QED  BY <1>5, <3>1
  <2>. QED  BY <1>4, <1>5, <2>1 DEF OrderlyAt, Messages
<1>7. ASSUME NEW x \in Range(hs[p].transcript), x.from = p
      PROVE  x \in Range(s.transcript) \/ \E y \in Range(Tail(net[r])) : RecordOf(y) = x
  <2>1. Arrives(r, x)
    BY <1>4, <1>7 DEF OrderlyAt, p
  <2>. QED  BY <1>5, <2>1 DEF Arrives, Smooth, Sends, m
<1>8. OrderlyAt(r)'
  BY <1>1, <1>2, <1>5, <1>6, <1>7
     DEF OrderlyAt, Smooth, Open, Locked, LockReady, Arrives, RecordOf, m, p
<1>. QED  BY <1>0, <1>3, <1>8 DEF OrderlyInv

\* What a locked runtime drops it had recorded already, or is an announcement.
LEMMA OrderlyClosed ==
    ASSUME IInv, TranscriptInv, OrderlyInv, Faultless, NEW r \in Roles, RcvClosed(r)
    PROVE  OrderlyInv'
<1>. DEFINE p == Other(r)
            m == Head(net[r])
<1>0. p \in Roles /\ p # r /\ Other(p) = r /\ Roles = {r, p}
  BY OtherRole DEF Roles, Other
<1>1. net[r] # <<>> /\ net[r] \in Seq(Messages) /\ m \in Spoken(p, hs[p])
  BY HeadSpoken DEF RcvClosed, IInv, TypeOK
<1>2. OrderlyAt(r) /\ OrderlyAt(p) /\ hs[r].state = "LOCKED"
  BY <1>0, <1>1 DEF OrderlyInv, OrderlyAt, RcvClosed, Spoken, Open
<1>. HIDE DEF p, m
<1>3. UNCHANGED hs /\ net'[r] = Tail(net[r]) /\ net'[p] = net[p]
  <2>1. net[p] \o <<>> = net[p]
    BY <1>0, ConcatEmptySeq DEF IInv, TypeOK
  <2>. QED  BY <1>0, <2>1 DEF RcvClosed, Consume, IInv, TypeOK, p
<1>4. Rising(Tail(net[r])) /\ Range(net[r]) = {m} \cup Range(Tail(net[r]))
  BY <1>1, <1>2, RisingTail DEF OrderlyAt, m
<1>5. ASSUME NEW x \in Range(hs[p].transcript), x.from = p
      PROVE  x \in Range(hs[r].transcript) \/ \E y \in Range(Tail(net[r])) : RecordOf(y) = x
  <2>1. Arrives(r, x)
    BY <1>2, <1>5 DEF OrderlyAt, p
  <2>2. ASSUME RecordOf(m) = x
        PROVE  x \in Range(hs[r].transcript)
    <3>1. /\ TranscriptOK(r, hs[r]) /\ Confirmed(r, hs[r]) /\ TranscriptOK(p, hs[p])
      BY <1>0 DEF TranscriptInv
    <3>2. x.type \in Greetings
      BY <1>0, <1>2, <3>1 DEF TranscriptOK, OrderlyAt, p
    <3>3. Held(hs[r], x.type, p) # {}
      BY <1>2, <3>1, <3>2 DEF TranscriptOK, LockReady, Greetings, p
    <3>4. PICK y : y \in Held(hs[r], x.type, p)
      BY <3>3
    <3>5. y \in Range(hs[r].transcript) /\ y.type = x.type /\ y.from = p
      BY <3>4 DEF Held
    <3>6. y \in Held(hs[p], x.type, p) /\ x \in Held(hs[p], x.type, p)
      BY <1>5, <3>1, <3>2, <3>5 DEF Confirmed, Held, p
    <3>7. AtMostOne(Held(hs[p], x.type, p))
      BY <3>1, <3>2 DEF TranscriptOK, Greetings
    <3>. QED  BY <3>5, <3>6, <3>7 DEF AtMostOne
  <2>. QED  BY <1>4, <2>1, <2>2 DEF Arrives
<1>6. \A x \in Range(Tail(net[r])) :
          x.type \in Greetings \cup {"keygen_announce"} /\ x.seq > hs[r].lastSeq
  BY <1>2, <1>4 DEF OrderlyAt
<1>7. OrderlyAt(r)'
  BY <1>2, <1>3, <1>4, <1>5, <1>6
     DEF OrderlyAt, Open, Locked, LockReady, Arrives, RecordOf, p
<1>8. OrderlyAt(p)'
  BY <1>0, <1>2, <1>3 DEF OrderlyAt, Open, Locked, LockReady, Arrives, RecordOf
<1>. QED  BY <1>0, <1>7, <1>8 DEF OrderlyInv

\* start() sends the hello that opens the numbering.
LEMMA OrderlyStart ==
    ASSUME IInv, IInv', TranscriptInv, OrderlyInv, Faultless, NEW r \in Roles, Start(r)
    PROVE  OrderlyInv'
<1>. DEFINE p == Other(r)
<1>0. p \in Roles /\ p # r /\ Other(p) = r /\ Roles = {r, p}
  BY OtherRole DEF Roles, Other
<1>1. PICK t, hello :
          /\ hs' = [hs EXCEPT ![r] = t] /\ net' = [net EXCEPT ![p] = Append(@, hello)]
          /\ t.state = "SENT_HELLO"
          /\ Range(t.transcript) = Range(hs[r].transcript) \cup {RecordOf(hello)}
          /\ hello \in Spoken(r, t) /\ hello.type = "hello" /\ hello.seq = hs[r].seq
          /\ t.seq = hs[r].seq + 1 /\ t.lastSeq = hs[r].lastSeq
          /\ t.seenPeerAck = hs[r].seenPeerAck /\ t.seenPeerHello = hs[r].seenPeerHello
          /\ t.sentLocalAck = hs[r].sentLocalAck
          /\ t.peerParams = hs[r].peerParams /\ t.peerNonce = hs[r].peerNonce
  BY StartEffect
<1>2. Open(r) /\ hs[r].state = "INIT" /\ hs[r] \in Runtimes /\ hs[r].seq \in Nat
  BY DEF Start, Open, IInv, TypeOK, Runtimes
<1>. HIDE DEF p
<1>3. /\ hs'[r] = t /\ hs'[p] = hs[p] /\ net'[r] = net[r]
      /\ net'[p] = Append(net[p], hello) /\ net[p] \in Seq(Messages)
  BY <1>0, <1>1 DEF IInv, TypeOK
<1>4. hello \in Messages
  BY <1>1 DEF Spoken
<1>5. net'[p] = net[p] \o <<hello>>
  BY <1>3, <1>4, AppendIsConcat
<1>6. Sends(r, t, <<hello>>)
  <2>1. t \in Runtimes
    BY <1>3 DEF IInv, TypeOK
  <2>2. Range(<<hello>>) = {hello} /\ Rising(<<hello>>) /\ <<hello>> \in Seq(Messages)
    BY <1>4 DEF Range, Rising
  <2>. QED  BY <1>1, <1>2, <2>1, <2>2 DEF Sends, Greetings
<1>7. OrderlyAt(p)'
  BY <1>1, <1>2, <1>5, <1>6, OrderlySent DEF p
<1>8. OrderlyAt(r)'
  <2>1. OrderlyAt(r) /\ ~LockReady(hs[r])
    BY <1>2 DEF OrderlyInv, OrderlyAt, Locked
  <2>2. ~LockReady(t)
    BY <1>1, <2>1 DEF LockReady
  <2>3. \A x : x \in Range(hs[r].transcript) => x \in Range(t.transcript)
    BY <1>1
  <2>. QED  BY <1>0, <1>1, <1>2, <1>3, <2>1, <2>2, <2>3
            DEF OrderlyAt, Open, Locked, LockReady, Arrives, RecordOf, p
<1>. QED  BY <1>0, <1>7, <1>8 DEF OrderlyInv

\* tryLock() does not abort parties that could lock, and announces with the number
\* that lies above all others.
LEMMA SmoothTryLock ==
    ASSUME IInv, OrderlyInv, TranscriptInv, Faultless, NEW r \in Roles, net[r] # <<>>,
           Open(r), NEW s, Midway(r, s), NEW out, Sends(r, s, out),
           \A m \in Range(out) : m.seq < s.seq,
           s.lastSeq = Head(net[r]).seq, RecordOf(Head(net[r])) \in Range(s.transcript),
           TryLock(r, s, out), IInv'
    PROVE  \E t, o : Smooth(r, t, o)
<1>1. /\ s \in Runtimes /\ s.peerParams \in {None, params[Other(r)]}
      /\ s.seq \in Nat /\ s.seq <= 2 /\ s.state # "ABORTED"
  BY DEF Midway, Sound, PeerDataOK, TranscriptOK, Runtimes
<1>2. CASE ~LockReady(s)
  BY <1>1, <1>2 DEF TryLock, Smooth
<1>3. CASE LockReady(s)
  <2>. DEFINE sid == SidOf(r, s.peerNonce)
              t == [s EXCEPT !.state = "LOCKED", !.sid = sid]
              o == OnLock(r, sid)
  <2>1. s.peerParams = params[r]
    BY <1>1, <1>3 DEF LockReady, Faultless, Other, Roles
  <2>2. hs' = [hs EXCEPT ![r] = t] /\ Consume(r, out \o o)
    BY <1>3, <2>1 DEF TryLock
  <2>3. /\ t.sid = sid /\ t.state = "LOCKED" /\ t.transcript = s.transcript
        /\ t.seq = s.seq /\ t.lastSeq = s.lastSeq
    BY <1>1 DEF Runtimes
  <2>. HIDE DEF t, sid
  <2>4. t \in Runtimes /\ sid \in Sids
    <3>1. hs'[r] = t
      BY <2>2 DEF IInv, TypeOK
    <3>2. t.sid # NoSid
      BY <2>3, <3>1 DEF IInv, TypeOK
    <3>. QED  BY <2>3, <3>1, <3>2 DEF IInv, TypeOK, Runtimes
  <2>5. /\ o \in Seq(Messages) /\ Rising(o)
        /\ \A m \in Range(o) : m.type = "keygen_announce" /\ m.seq = FirstPostSeq
    BY <2>4 DEF OnLock, Message, Messages, Types, Bodies, FirstPostSeq, Rising, Range
  <2>. HIDE DEF o
  <2>6. out \in Seq(Messages) /\ Rising(out) /\ hs[r].seq \in Nat /\ s.seq >= hs[r].seq
    BY DEF Sends, IInv, TypeOK, Runtimes
  <2>7. out \o o \in Seq(Messages) /\ Range(out \o o) = Range(out) \cup Range(o)
    BY <2>5, <2>6, RangeConcatenation, ConcatProperties
  <2>8. Rising(out \o o)
    <3>1. \A x \in Range(out) : x \in Messages
      BY <2>6, RangeOfSeq
    <3>2. \A x \in Range(out), y \in Range(o) : x.seq < y.seq
      BY <1>1, <2>5, <3>1 DEF FirstPostSeq, Messages
    <3>. QED  BY <2>5, <2>6, <3>2, RisingConcat
  <2>9. Sends(r, t, out \o o)
    BY <1>1, <2>3, <2>4, <2>5, <2>6, <2>7, <2>8 DEF Sends, FirstPostSeq
  <2>. QED  BY <2>2, <2>3, <2>9 DEF Smooth
<1>. QED  BY <1>2, <1>3

\* The runtime once it has recorded its peer's message sends nothing with it.
LEMMA RecordedSends ==
    ASSUME IInv, NEW r \in Roles, NEW m, m.from # r, NEW t \in Runtimes,
           t.transcript = Accepted(r, m).transcript, t.seq = hs[r].seq
    PROVE  Sends(r, t, <<>>)
<1>1. hs[r] \in Runtimes /\ t.transcript = Append(hs[r].transcript, RecordOf(m))
  BY DEF IInv, TypeOK, Accepted, Runtimes
<1>2. Range(t.transcript) = Range(hs[r].transcript) \cup {RecordOf(m)}
  BY <1>1, TranscriptAppend
<1>3. RecordOf(m).from # r /\ t.seq \in Nat
  BY DEF RecordOf, Runtimes
<1>. QED  BY <1>2, <1>3 DEF Sends, Range, Rising

\* handleHello, of a hello with the parameters both parties have.
LEMMA SmoothHello ==
    ASSUME IInv, IInv', TranscriptInv, OrderlyInv, Faultless, NEW r \in Roles, RcvHello(r)
    PROVE  \E t, o : Smooth(r, t, o)
<1>. DEFINE m == Head(net[r])
            s == Greeted(r, m)
            ack == Message(r, s.seq, NoSid, "hello_ack", Greeting(r))
            t == Acknowledged(s, ack)
<1>1. /\ net[r] # <<>> /\ Acceptable(r, m) /\ Open(r) /\ m.type = "hello" /\ m.from # r
      /\ \/ s.sentLocalAck /\ TryLock(r, s, <<>>)
         \/ ~s.sentLocalAck /\ TryLock(r, t, <<ack>>)
  BY DEF RcvHello, Acceptable
<1>2. /\ Midway(r, s) /\ RecordOf(m) \in Range(s.transcript)
      /\ ~s.sentLocalAck => Midway(r, t)
  BY <1>1, HelloMidway
<1>3. s \in Sound(r) /\ s \in Runtimes /\ hs[r] \in Runtimes /\ s.seq \in Nat
  BY <1>2 DEF Midway, Sound, IInv, TypeOK, Runtimes
<1>. HIDE DEF m
<1>4. /\ s.transcript = Accepted(r, m).transcript /\ s.lastSeq = m.seq /\ s.seq = hs[r].seq
  BY <1>3 DEF Greeted, Accepted, Runtimes
<1>. HIDE DEF s
<1>5. Sends(r, s, <<>>)
  BY <1>1, <1>3, <1>4, RecordedSends
<1>6. CASE s.sentLocalAck
  <2>1. \A x \in Range(<<>>) : x.seq < s.seq
    BY DEF Range
  <2>. QED  BY <1>1, <1>2, <1>4, <1>5, <1>6, <2>1, SmoothTryLock DEF m
<1>7. CASE ~s.sentLocalAck
  <2>1. /\ ack \in Messages /\ ack.type = "hello_ack" /\ ack.from = r /\ ack.seq = s.seq
    BY <1>3, GreetingMessage DEF Message
  <2>. HIDE DEF ack
  <2>2. /\ t.transcript = Append(s.transcript, RecordOf(ack)) /\ t.seq = s.seq + 1
        /\ t.lastSeq = s.lastSeq
    BY <1>3 DEF Acknowledged, Runtimes
  <2>. HIDE DEF t
  <2>3. t \in Runtimes
    BY <1>2, <1>7 DEF Midway, Sound
  <2>4. Range(t.transcript) = Range(s.transcript) \cup {RecordOf(ack)}
    BY <1>3, <2>2, TranscriptAppend
  <2>5. Range(<<ack>>) = {ack} /\ Rising(<<ack>>) /\ <<ack>> \in Seq(Messages) /\ Range(<<>>) = {}
    BY <2>1 DEF Range, Rising
  <2>6. Sends(r, t, <<ack>>)
    BY <1>3, <1>4, <1>5, <2>1, <2>2, <2>3, <2>4, <2>5 DEF Sends, Greetings
  <2>7. \A x \in Range(<<ack>>) : x.seq < t.seq
    BY <1>3, <2>1, <2>2, <2>5
  <2>8. RecordOf(m) \in Range(t.transcript) /\ t.lastSeq = m.seq
    BY <1>2, <1>4, <2>2, <2>4
  <2>. QED  BY <1>1, <1>2, <1>7, <2>6, <2>7, <2>8, SmoothTryLock DEF m
<1>. QED  BY <1>6, <1>7

\* handleHelloAck: the ack carries what is held of the peer already, or was not held.
LEMMA SmoothHelloAck ==
    ASSUME IInv, IInv', TranscriptInv, OrderlyInv, Faultless, NEW r \in Roles, RcvHelloAck(r)
    PROVE  \E t, o : Smooth(r, t, o)
<1>. DEFINE m == Head(net[r])
            a == Accepted(r, m)
            s == [a EXCEPT !.seenPeerAck = TRUE]
            n == [s EXCEPT !.peerNonce = IF @ = None THEN m.body.nonce ELSE @]
            p == [n EXCEPT !.peerParams = IF @ = None THEN m.body.params ELSE @]
<1>1. /\ net[r] # <<>> /\ Acceptable(r, m) /\ Open(r) /\ m.type = "hello_ack" /\ m.from # r
      /\ n.peerNonce = m.body.nonce /\ p.peerParams = m.body.params => TryLock(r, p, <<>>)
  BY DEF RcvHelloAck, Acceptable
<1>2. /\ Midway(r, s) /\ Midway(r, n) /\ Midway(r, p)
      /\ RecordOf(m) \in Range(p.transcript)
  BY <1>1, HelloAckMidway
<1>3. /\ s \in Runtimes /\ n \in Runtimes /\ p \in Runtimes
      /\ PeerDataOK(r, n) /\ PeerDataOK(r, p)
  BY <1>2 DEF Midway, Sound
<1>4. m \in Traffic(Other(r)) /\ m \in Messages
  BY <1>1, HeadTravels
<1>5. /\ m.body.nonce = nonce[Other(r)] /\ m.body.params = params[Other(r)]
      /\ m.body.nonce # None /\ m.body.params # None
  BY <1>1, <1>4, OtherRole, HandshakeAssumption DEF Traffic, Greeting, IInv, TypeOK
<1>6. a \in Runtimes /\ a.lastSeq = m.seq /\ a.seq = hs[r].seq
  <2>1. a \in Runtimes
    BY <1>1, <1>4, AcceptedSound DEF Sound
  <2>. QED  BY <2>1 DEF Accepted, IInv, TypeOK, Runtimes
<1>. HIDE DEF m, a
<1>7. s.transcript = a.transcript /\ s.lastSeq = a.lastSeq /\ s.seq = a.seq
  BY <1>6 DEF Runtimes
<1>. HIDE DEF s
<1>8. /\ n.transcript = s.transcript /\ n.lastSeq = s.lastSeq /\ n.seq = s.seq
      /\ n.peerNonce # None
  BY <1>3, <1>5 DEF Runtimes
<1>. HIDE DEF n
<1>9. /\ p.transcript = n.transcript /\ p.lastSeq = n.lastSeq /\ p.seq = n.seq
      /\ p.peerParams # None
  BY <1>3, <1>5 DEF Runtimes
<1>. HIDE DEF p
<1>10. TryLock(r, p, <<>>)
  BY <1>1, <1>3, <1>5, <1>8, <1>9 DEF PeerDataOK
<1>11. p.transcript = Accepted(r, m).transcript /\ p.lastSeq = m.seq /\ p.seq = hs[r].seq
  BY <1>6, <1>7, <1>8, <1>9 DEF a
<1>12. Sends(r, p, <<>>)
  BY <1>1, <1>3, <1>11, RecordedSends
<1>13. \A x \in Range(<<>>) : x.seq < p.seq
  BY DEF Range
<1>. QED  BY <1>1, <1>2, <1>10, <1>11, <1>12, <1>13, SmoothTryLock DEF m

\* handleIncoming() keeps the past in order: nothing it hears makes it abort.
LEMMA OrderlyHandler ==
    ASSUME IInv, IInv', AckInv, TranscriptInv, OrderlyInv, Faultless,
           NEW r \in Roles, HandleIncoming(r)
    PROVE  OrderlyInv'
<1>. DEFINE m == Head(net[r])
<1>1. CASE RcvClosed(r)
  BY <1>1, OrderlyClosed
<1>2. CASE ~RcvClosed(r)
  <2>1. net[r] # <<>> /\ Open(r)
    BY <1>2 DEF HandleIncoming, RcvClosed, RcvMalformed, RcvReplay, RcvUnexpectedSid,
                RcvHelloMismatch, RcvHello, RcvHelloAck, RcvOther, Acceptable
  <2>2. Acceptable(r, m) /\ m.type \in Greetings
    BY <2>1, HeadAccepted
  <2>3. m.type = "hello" => m.body.params = params[r]
    <3>1. m \in Traffic(Other(r))
      BY <2>1, HeadTravels
    <3>. QED  BY <3>1 DEF Traffic, Greeting, Faultless, Roles, Other
  <2>4. RcvHello(r) \/ RcvHelloAck(r)
    BY <1>2, <2>2, <2>3 DEF HandleIncoming, RcvMalformed, RcvReplay, RcvUnexpectedSid,
                            RcvHelloMismatch, RcvOther, Acceptable, Greetings
  <2>5. \E t, o : Smooth(r, t, o)
    BY <2>4, SmoothHello, SmoothHelloAck
  <2>. QED  BY <2>1, <2>5, OrderlyTurn
<1>. QED  BY <1>1, <1>2

\* Nothing has been sent yet.
LEMMA PastStarts == Init => OrderlyInv
<1>. SUFFICES ASSUME Init, NEW r \in Roles PROVE OrderlyAt(r)
  BY DEF OrderlyInv
<1>1. /\ hs[r] = Created /\ net[r] = <<>> /\ hs[Other(r)] = Created
  BY OtherRole DEF Init
<1>. QED  BY <1>1 DEF OrderlyAt, Created, Open, LockReady, Rising, Range

\* Every step of a faultless past keeps it orderly.
LEMMA PastStays ==
    IInv /\ IInv' /\ AckInv /\ TranscriptInv /\ OrderlyInv /\ [Next]_hsVars => OrderlyInv'
<1>. SUFFICES ASSUME IInv, IInv', AckInv, TranscriptInv, OrderlyInv, [Next]_hsVars,
                     Faultless'
              PROVE  OrderlyInv'
  BY DEF OrderlyInv
<1>1. ~Network
  <2>1. Network => faults' = faults + 1
    BY DEF Network, Duplicate, Lose, Reorder, Corrupt, MayFail
  <2>2. faults \in Nat /\ faults' = 0
    BY DEF IInv, TypeOK, Faultless
  <2>. QED  BY <2>1, <2>2
<1>2. Faultless
  BY <1>1 DEF Next, Start, HandleIncoming, RcvClosed, RcvMalformed, RcvReplay,
              RcvUnexpectedSid, RcvHelloMismatch, RcvHello, RcvHelloAck, RcvOther,
              hsVars, Faultless
<1>3. CASE \E r \in Roles : Start(r)
  BY <1>2, <1>3, OrderlyStart
<1>4. CASE \E r \in Roles : HandleIncoming(r)
  BY <1>2, <1>4, OrderlyHandler
<1>5. CASE UNCHANGED hsVars
  <2>1. UNCHANGED <<params, hs, net, faults>>
    BY <1>5 DEF hsVars
  <2>. QED  BY <2>1 DEF OrderlyInv, Faultless, OrderlyAt, Open, Locked, LockReady,
                        Arrives, RecordOf, Rising
<1>. QED  BY <1>1, <1>3, <1>4, <1>5 DEF Next

\* OrderlyInv holds in every state: over a network that makes no fault nothing is
\* lost between two parties that could lock, and neither aborts.
THEOREM PastIsOrderly == Spec => []OrderlyInv
<1>1. Init => OrderlyInv
  BY PastStarts
<1>2. IInv /\ IInv' /\ AckInv /\ TranscriptInv /\ OrderlyInv /\ [Next]_hsVars => OrderlyInv'
  BY PastStays
<1>. QED  BY <1>1, <1>2, Invariance, AcksAreEarned, TranscriptsTellAll, PTL DEF Spec

\* Over a network that makes no fault nobody locks alone: once all is handled, the ack
\* of whoever has locked was heard, and it was all that its peer still missed.
THEOREM LocksAreMutual == Spec => []LockIsMutual
<1>1. IInv /\ AckInv /\ TranscriptInv /\ OrderlyInv => LockIsMutual
  <2>. SUFFICES ASSUME IInv, AckInv, TranscriptInv, OrderlyInv, faults = 0,
                       \A r \in Roles : net[r] = <<>>, NEW q \in Roles, Locked(q)
                PROVE  Locked(Other(q))
    BY DEF LockIsMutual, Roles, Other
  <2>. DEFINE r == Other(q)
  <2>0. r \in Roles /\ Other(r) = q
    BY OtherRole
  <2>. HIDE DEF r
  <2>1. Faultless
    BY DEF IInv, Sound, LockOK, Locked, Faultless
  <2>2. OrderlyAt(r) /\ TranscriptOK(q, hs[q]) /\ TranscriptOK(r, hs[r])
    BY <2>0, <2>1 DEF OrderlyInv, TranscriptInv
  <2>3. PICK y : y \in Held(hs[q], "hello_ack", q)
    BY <2>2 DEF TranscriptOK, LockReady, Locked
  <2>4. y \in Range(hs[q].transcript) /\ y.type = "hello_ack" /\ y.from = q
    BY <2>3 DEF Held
  <2>5. y \in Range(hs[r].transcript)
    <3>1. Range(net[r]) = {}
      BY <2>0 DEF Range
    <3>. QED  BY <2>0, <2>2, <2>4, <3>1 DEF OrderlyAt, Arrives
  <2>6. hs[r].seenPeerAck
    BY <2>0, <2>2, <2>4, <2>5 DEF TranscriptOK, Held
  <2>7. hs[r].sentLocalAck /\ hs[r].seenPeerHello
    <3>1. hs[q] \in Keeps(q) /\ hs[q].seenPeerAck /\ hs[r] \in Keeps(r)
      BY <2>0 DEF AckInv
    <3>. QED  BY <3>1 DEF Keeps, r
  <2>8. LockReady(hs[r])
    BY <2>2, <2>6, <2>7 DEF LockReady, TranscriptOK
  <2>. QED  BY <2>2, <2>8 DEF OrderlyAt, r
<1>. QED  BY <1>1, Invariance, AcksAreEarned, TranscriptsTellAll, PastIsOrderly, PTL
=============================================================================
