-------------------------- MODULE HandshakeRuntime --------------------------
(***************************************************************************)
(* The handshake of packages/protocol/src/handshakeRuntime.ts: two parties *)
(* exchange hello and hello_ack, each carrying the sender's parameters and *)
(* nonce, and each locks on its own the session identifier it computes     *)
(* from them.  Every handler is one action; the call that runs it consumes *)
(* the message at the head of the party's inbox and appends what the call  *)
(* returns to the peer's.                                                  *)
(*                                                                         *)
(* Abstractions.  A set of handshake parameters and a nonce are values of  *)
(* Params and Nonces, so canonicalStringify is equality and computeSid is  *)
(* the tuple of what it hashes.  The inboxes stand for the relay and the   *)
(* two sockets: FIFO, except for the faults the environment may add.       *)
(*                                                                         *)
(* An operator marked "Faulty" is its successor with a mistake in it; the  *)
(* specification does not use it, and every property below fails with one. *)
(***************************************************************************)
EXTENDS Integers, FiniteSets, Sequences, SequencesExt

CONSTANTS
    Params,      \* the handshake parameters a client can be started with
    Nonces,      \* the 32-byte nonces
    None,        \* null
    FaultKinds,  \* what the network may do: a subset of AllFaultKinds
    MaxFaults    \* bound: how many faults happen in one behaviour

Roles == {"alice", "bob"}
AllFaultKinds == {"duplicate", "lose", "reorder", "corrupt", "tamper"}

ASSUME HandshakeAssumption ==
    /\ None \notin Params \cup Nonces
    /\ FaultKinds \subseteq AllFaultKinds
    /\ MaxFaults \in Nat

VARIABLES
    params,  \* params[r]: the parameters party r was created with
    nonce,   \* nonce[r]: the nonce party r drew at creation
    hs,      \* hs[r]: the fields of party r's handshake runtime
    net,     \* net[r]: the messages on their way to party r, oldest first
    faults   \* how many faults the network has made

hsVars == <<params, nonce, hs, net, faults>>

-----------------------------------------------------------------------------
(* Messages, records and identifiers *)

Other(r) == IF r = "alice" THEN "bob" ELSE "alice"

NoSid == <<>>

\* Faulty: whoever computes the sid puts its own nonce first.
SidOwnNonceFirst(r, peerNonce) == <<params[r], nonce[r], peerNonce>>

\* The sid is a hash of the parameters and both nonces, alice's first.
SidOf(r, peerNonce) ==
    IF r = "alice" THEN <<params[r], nonce[r], peerNonce>>
                   ELSE <<params[r], peerNonce, nonce[r]>>

Message(r, seq, sid, type, body) ==
    [type |-> type, from |-> r, seq |-> seq, sid |-> sid, body |-> body]

\* A transcript record is the message without its sid.
RecordOf(m) == [type |-> m.type, from |-> m.from, seq |-> m.seq, body |-> m.body]

\* Records are sorted by sender, seq and type before they are hashed, so a hash
\* stands for the multiset of the records.
TranscriptHash(t) ==
    [x \in Range(t) |-> Cardinality({i \in DOMAIN t : t[i] = x})]

Greeting(r) == [params |-> params[r], nonce |-> nonce[r]]

\* The messages the owner of the runtime sends in the call in which it locks:
\* the key-generation announcement that opens the session's own numbering.
FirstPostSeq == 100

OnLock(r, sid) ==
    <<Message(r, FirstPostSeq, sid, "keygen_announce", [keyOf |-> <<r, sid>>])>>

-----------------------------------------------------------------------------
(* The steps the handlers share *)

\* Take the oldest message to r and send the peer what the call returns.
Consume(r, out) ==
    net' = [net EXCEPT ![r] = Tail(@), ![Other(r)] = @ \o out]

\* abort(): the runtime, left at s by the statements before the call, records
\* its abort message and stops.
AbortFrom(r, s, out, code) ==
    LET m == Message(r, s.seq, s.sid, "abort", [code |-> code])
    IN  /\ hs' = [hs EXCEPT ![r] =
               [s EXCEPT !.seq = @ + 1, !.state = "ABORTED",
                         !.transcript = Append(@, RecordOf(m))]]
        /\ Consume(r, Append(out, m))

\* Faulty: locks on the peer's hello, before the peer acknowledged this one's.
LockReadyUnacked(s) ==
    s.peerParams # None /\ s.peerNonce # None /\ s.seenPeerHello /\ s.sentLocalAck

LockReady(s) ==
    /\ s.peerParams # None /\ s.peerNonce # None
    /\ s.seenPeerHello /\ s.seenPeerAck
    /\ s.sentLocalAck

\* tryLock(), the last call of both handlers.
TryLock(r, s, out) ==
    IF ~LockReady(s)
    THEN hs' = [hs EXCEPT ![r] = s] /\ Consume(r, out)
    ELSE IF s.peerParams # params[r]
    THEN AbortFrom(r, s, out, "PROTOCOL_ERROR")
    ELSE LET sid == SidOf(r, s.peerNonce)
         IN  /\ hs' = [hs EXCEPT ![r] = [s EXCEPT !.state = "LOCKED", !.sid = sid]]
             /\ Consume(r, out \o OnLock(r, sid))

\* Faulty: a locked runtime still handles messages.
OpenWhenLocked(r) == hs[r].state # "ABORTED"

\* Faulty: an aborted runtime still handles messages.
OpenWhenAborted(r) == hs[r].state # "LOCKED"

Open(r) == hs[r].state \notin {"LOCKED", "ABORTED"}

\* Faulty: a resend is let through, as the session runtime lets it.
FreshOrResent(r, m) == m.seq >= hs[r].lastSeq

\* What handleIncoming asks of a message before it records it.
Fresh(r, m) == m.seq > hs[r].lastSeq

Acceptable(r, m) ==
    /\ Open(r)
    /\ m.type # "malformed" /\ m.from # r
    /\ Fresh(r, m)
    /\ m.sid = NoSid

\* The runtime once it has recorded m.
Accepted(r, m) ==
    [hs[r] EXCEPT !.lastSeq = m.seq, !.transcript = Append(@, RecordOf(m))]

\* handleHello up to the comparison of the parameters.
Greeted(r, m) ==
    [Accepted(r, m) EXCEPT
        !.seenPeerHello = TRUE,
        !.peerParams = m.body.params,
        !.peerNonce = m.body.nonce,
        !.state = IF @ = "SENT_HELLO" THEN "GOT_PEER_HELLO" ELSE @]

\* Faulty: the ack does not use up its number.
AcknowledgedUncounted(s, ack) ==
    [s EXCEPT !.sentLocalAck = TRUE, !.state = "SENT_ACK",
              !.transcript = Append(@, RecordOf(ack))]

\* Faulty: the runtime forgets that it sent its ack.
AcknowledgedForgotten(s, ack) ==
    [s EXCEPT !.seq = @ + 1, !.state = "SENT_ACK",
              !.transcript = Append(@, RecordOf(ack))]

\* handleHello, sending the hello_ack.
Acknowledged(s, ack) ==
    [s EXCEPT !.seq = @ + 1, !.sentLocalAck = TRUE, !.state = "SENT_ACK",
              !.transcript = Append(@, RecordOf(ack))]

-----------------------------------------------------------------------------
(* The actions *)

\* start(): a second call, or one after the first message was handled, does
\* nothing, so only the call that sends the hello is an action.
Start(r) ==
    /\ hs[r].state = "INIT"
    /\ LET hello == Message(r, hs[r].seq, NoSid, "hello", Greeting(r))
       IN  /\ hs' = [hs EXCEPT ![r].seq = @ + 1, ![r].state = "SENT_HELLO",
                               ![r].transcript = Append(@, RecordOf(hello))]
           /\ net' = [net EXCEPT ![Other(r)] = Append(@, hello)]
    /\ UNCHANGED <<params, nonce, faults>>

\* A locked or aborted runtime drops what arrives, and any runtime drops its
\* own messages.
RcvClosed(r) ==
    /\ net[r] # <<>>
    /\ ~Open(r) \/ (Head(net[r]).type # "malformed" /\ Head(net[r]).from = r)
    /\ Consume(r, <<>>)
    /\ UNCHANGED <<params, nonce, hs, faults>>

RcvMalformed(r) ==
    /\ net[r] # <<>> /\ Open(r)
    /\ Head(net[r]).type = "malformed"
    /\ AbortFrom(r, hs[r], <<>>, "BAD_MESSAGE")
    /\ UNCHANGED <<params, nonce, faults>>

RcvReplay(r) ==
    /\ net[r] # <<>> /\ Open(r)
    /\ LET m == Head(net[r])
       IN  /\ m.type # "malformed" /\ m.from # r
           /\ ~Fresh(r, m)
           /\ AbortFrom(r, hs[r], <<>>, "BAD_MESSAGE")
    /\ UNCHANGED <<params, nonce, faults>>

RcvUnexpectedSid(r) ==
    /\ net[r] # <<>> /\ Open(r)
    /\ LET m == Head(net[r])
       IN  /\ m.type # "malformed" /\ m.from # r
           /\ Fresh(r, m)
           /\ m.sid # NoSid
           /\ AbortFrom(r, [hs[r] EXCEPT !.lastSeq = m.seq], <<>>, "PROTOCOL_ERROR")
    /\ UNCHANGED <<params, nonce, faults>>

RcvHelloMismatch(r) ==
    /\ net[r] # <<>> /\ Acceptable(r, Head(net[r]))
    /\ LET m == Head(net[r])
       IN  /\ m.type = "hello"
           /\ m.body.params # params[r]
           /\ AbortFrom(r, Greeted(r, m), <<>>, "PROTOCOL_ERROR")
    /\ UNCHANGED <<params, nonce, faults>>

RcvHello(r) ==
    /\ net[r] # <<>> /\ Acceptable(r, Head(net[r]))
    /\ LET m == Head(net[r])
           s == Greeted(r, m)
           ack == Message(r, s.seq, NoSid, "hello_ack", Greeting(r))
       IN  /\ m.type = "hello"
           /\ m.body.params = params[r]
           /\ IF s.sentLocalAck THEN TryLock(r, s, <<>>)
                                ELSE TryLock(r, Acknowledged(s, ack), <<ack>>)
    /\ UNCHANGED <<params, nonce, faults>>

\* An ack before the hello brings the peer's data; after it, it must agree.
RcvHelloAck(r) ==
    /\ net[r] # <<>> /\ Acceptable(r, Head(net[r]))
    /\ LET m == Head(net[r])
           s == [Accepted(r, m) EXCEPT !.seenPeerAck = TRUE]
           n == [s EXCEPT !.peerNonce = IF @ = None THEN m.body.nonce ELSE @]
           p == [n EXCEPT !.peerParams = IF @ = None THEN m.body.params ELSE @]
       IN  /\ m.type = "hello_ack"
           /\ IF n.peerNonce # m.body.nonce THEN AbortFrom(r, s, <<>>, "BAD_MESSAGE")
              ELSE IF p.peerParams # m.body.params
              THEN AbortFrom(r, n, <<>>, "BAD_MESSAGE")
              ELSE TryLock(r, p, <<>>)
    /\ UNCHANGED <<params, nonce, faults>>

\* A peer's abort stops the runtime; every other type is recorded and ignored.
RcvOther(r) ==
    /\ net[r] # <<>> /\ Acceptable(r, Head(net[r]))
    /\ LET m == Head(net[r])
       IN  /\ m.type \notin {"hello", "hello_ack"}
           /\ hs' = [hs EXCEPT ![r] =
                  [Accepted(r, m) EXCEPT
                      !.state = IF m.type = "abort" THEN "ABORTED" ELSE @]]
    /\ Consume(r, <<>>)
    /\ UNCHANGED <<params, nonce, faults>>

HandleIncoming(r) ==
    \/ RcvClosed(r) \/ RcvMalformed(r) \/ RcvReplay(r) \/ RcvUnexpectedSid(r)
    \/ RcvHelloMismatch(r) \/ RcvHello(r) \/ RcvHelloAck(r) \/ RcvOther(r)

-----------------------------------------------------------------------------
(* The network: each fault spends one of the MaxFaults. *)

MayFail(kind) ==
    /\ kind \in FaultKinds
    /\ faults < MaxFaults
    /\ faults' = faults + 1
    /\ UNCHANGED <<params, nonce, hs>>

Duplicate(r) ==
    /\ MayFail("duplicate")
    /\ \E i \in DOMAIN net[r] :
          net' = [net EXCEPT ![r] = SubSeq(@, 1, i) \o SubSeq(@, i, Len(@))]

Lose(r) ==
    /\ MayFail("lose")
    /\ \E i \in DOMAIN net[r] :
          net' = [net EXCEPT ![r] = SubSeq(@, 1, i - 1) \o SubSeq(@, i + 1, Len(@))]

Reorder(r) ==
    /\ MayFail("reorder")
    /\ \E i \in 1 .. Len(net[r]) - 1 :
          net' = [net EXCEPT ![r][i] = net[r][i + 1], ![r][i + 1] = net[r][i]]

\* A message that parseMessage refuses arrives in the place of one it accepts.
Corrupt(r) ==
    /\ MayFail("corrupt")
    /\ \E i \in DOMAIN net[r] : net' = [net EXCEPT ![r][i].type = "malformed"]

Network == \E r \in Roles : Duplicate(r) \/ Lose(r) \/ Reorder(r) \/ Corrupt(r)

-----------------------------------------------------------------------------
(* The specification *)

Created ==
    [state |-> "INIT", seq |-> 0, sid |-> NoSid, transcript |-> <<>>,
     peerParams |-> None, peerNonce |-> None, seenPeerHello |-> FALSE,
     seenPeerAck |-> FALSE, sentLocalAck |-> FALSE, lastSeq |-> -1]

Init ==
    /\ params \in [Roles -> Params]
    /\ nonce \in [Roles -> Nonces]
    /\ hs = [r \in Roles |-> Created]
    /\ net = [r \in Roles |-> <<>>]
    /\ faults = 0

Next ==
    \/ \E r \in Roles : Start(r) \/ HandleIncoming(r)
    \/ Network

Spec == Init /\ [][Next]_hsVars

\* Both clients start the handshake once both are in the room, and a socket
\* delivers what it holds: nothing else is owed.
FairSpec ==
    Spec /\ \A r \in Roles : WF_hsVars(Start(r)) /\ WF_hsVars(HandleIncoming(r))

-----------------------------------------------------------------------------
(* Properties *)

States == {"INIT", "SENT_HELLO", "GOT_PEER_HELLO", "SENT_ACK", "LOCKED", "ABORTED"}
Sids == Params \X Nonces \X Nonces
Types == {"hello", "hello_ack", "abort", "keygen_announce", "malformed"}
Bodies == [params : Params, nonce : Nonces]
          \cup [code : {"BAD_MESSAGE", "PROTOCOL_ERROR"}]
          \cup [keyOf : Roles \X Sids]
Records == [type : Types, from : Roles, seq : Nat, body : Bodies]
Messages == [type : Types, from : Roles, seq : Nat, sid : Sids \cup {NoSid},
             body : Bodies]

Runtimes ==
    [state : States, seq : Nat, sid : Sids \cup {NoSid},
     transcript : Seq(Records),
     peerParams : Params \cup {None}, peerNonce : Nonces \cup {None},
     seenPeerHello : BOOLEAN, seenPeerAck : BOOLEAN, sentLocalAck : BOOLEAN,
     lastSeq : Nat \cup {-1}]

\* Every field of a runtime and every message has the shape the source gives
\* it, and the sid is set exactly while the state is LOCKED.
TypeOK ==
    /\ params \in [Roles -> Params]
    /\ nonce \in [Roles -> Nonces]
    /\ hs \in [Roles -> Runtimes]
    /\ net \in [Roles -> Seq(Messages)]
    /\ faults \in 0 .. MaxFaults
    /\ \A r \in Roles : hs[r].sid # NoSid <=> hs[r].state = "LOCKED"

Locked(r) == hs[r].state = "LOCKED"

\* The sid of this pair of clients, computed by someone who knows both.
TrueSid == <<params["alice"], nonce["alice"], nonce["bob"]>>

\* Whoever locks was created with the peer's parameters, and locks the sid of
\* both parties' actual nonces in their actual roles; so both lock the same.
LockAgreement ==
    \A r \in Roles :
        Locked(r) => params["alice"] = params["bob"] /\ hs[r].sid = TrueSid

\* A party locks only after the peer compared the parameters and said so: the
\* hello_ack a lock rests on was sent by a runtime that had seen the hello.
LockNeedsPeerAck ==
    \A r \in Roles :
        Locked(r) => hs[Other(r)].sentLocalAck /\ hs[Other(r)].seenPeerHello

\* Two locked parties hash the same handshake transcript, in whatever order
\* their own and the peer's messages were appended, and whatever the network
\* duplicated, lost or reordered on the way.
LockTranscriptAgreement ==
    (\A r \in Roles : Locked(r)) =>
        TranscriptHash(hs["alice"].transcript) = TranscriptHash(hs["bob"].transcript)

\* Nobody is left behind a lock by a faultless network: once every message has
\* been handled, a locked party's peer is locked as well.
LockIsMutual ==
    faults = 0 /\ (\A r \in Roles : net[r] = <<>>) =>
        (Locked("alice") <=> Locked("bob"))

\* A sequence number is used once: of the records a party made of its own
\* messages, no two share a number.
OwnSeqUnique ==
    \A r \in Roles : LET t == hs[r].transcript IN
        \A i, j \in DOMAIN t :
            t[i].from = r /\ t[j].from = r /\ t[i].seq = t[j].seq => i = j

\* A lock is final: whatever arrives late, twice or malformed, the locked
\* runtime keeps its sid and the transcript its LOCKED event hashed.
LockIsFinal == [][\A r \in Roles : Locked(r) => hs'[r] = hs[r]]_hsVars

HelloSent(r) ==
    \E i \in DOMAIN hs[r].transcript :
        hs[r].transcript[i].type = "hello" /\ hs[r].transcript[i].from = r

\* Two parties that both sent a hello lock if their parameters match and both
\* abort if they do not, unless the network fails.
BothSettle ==
    (\A r \in Roles : HelloSent(r)) ~>
        \/ faults > 0
        \/ params["alice"] = params["bob"] /\ \A r \in Roles : Locked(r)
        \/ params["alice"] # params["bob"] /\ \A r \in Roles : hs[r].state = "ABORTED"

-----------------------------------------------------------------------------
(* The abstract specification this module implements *)

\* Where a party stands, whatever its handshake is waiting for.
Outcome ==
    [r \in Roles |->
        [state |-> CASE hs[r].state = "LOCKED"  -> "locked"
                     [] hs[r].state = "ABORTED" -> "aborted"
                     [] OTHER                   -> "open",
         sid |-> hs[r].sid]]

Agreement == INSTANCE SidAgreement WITH outcome <- Outcome

\* Seen from outside, the handshake does what SidAgreement says: each party
\* decides once, and the two decisions to lock are one.
ImplementsAgreement == Agreement!Spec
=============================================================================
