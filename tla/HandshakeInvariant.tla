------------------------- MODULE HandshakeInvariant -------------------------
(***************************************************************************)
(* The inductive invariants of HandshakeRuntime, over any network of these *)
(* faults.  IInv says of each runtime that its data is genuine, AckInv     *)
(* what an ack is worth, TranscriptInv that a runtime's flags and its      *)
(* transcript tell one story that the peer's transcript confirms.          *)
(* OrderlyInv adds what holds while the network has made no fault: what a  *)
(* party has sent, the peer has heard or has in its inbox, in order.       *)
(***************************************************************************)
EXTENDS HandshakeRuntime

-----------------------------------------------------------------------------
(* What is held of the peer *)

\* What may travel from r to its peer: a hello or hello_ack carries r's actual
\* parameters and nonce; nothing is asked of the other messages.
Traffic(r) ==
    {m \in Messages : m.type \in {"hello", "hello_ack"} => m.body = Greeting(r)}

\* What r holds of its peer is nothing or the truth.
PeerDataOK(r, s) ==
    /\ s.peerParams \in {None, params[Other(r)]}
    /\ s.peerNonce \in {None, nonce[Other(r)]}

\* The sid is there exactly in LOCKED, and then it is the right one.
LockOK(r, s) ==
    /\ s.sid # NoSid <=> s.state = "LOCKED"
    /\ s.state = "LOCKED" => params["alice"] = params["bob"] /\ s.sid = TrueSid

\* The numbers r gave its own messages lie below the next one and differ.
NumberOK(r, s) ==
    \A i \in DOMAIN s.transcript : s.transcript[i].from = r =>
        /\ s.transcript[i].seq < s.seq
        /\ \A j \in DOMAIN s.transcript :
              /\ s.transcript[j].from = r
              /\ s.transcript[i].seq = s.transcript[j].seq
              => i = j

Sound(r) == {s \in Runtimes : PeerDataOK(r, s) /\ LockOK(r, s) /\ NumberOK(r, s)}

\* The type invariant, strengthened until every step preserves it: that a lock
\* is right follows from what is held of the peer, and that from what travels.
IInv ==
    /\ TypeOK
    /\ \A r \in Roles : hs[r] \in Sound(r) /\ net[r] \in Seq(Traffic(Other(r)))

-----------------------------------------------------------------------------
(* What an ack is worth *)

\* What r's runtime may become: an ack, once sent, stays sent, and is sent after a
\* hello was seen; one that was seen was sent.
Keeps(r) ==
    {s \in Runtimes :
        /\ s.sentLocalAck => s.seenPeerHello
        /\ s.seenPeerAck => hs[Other(r)].sentLocalAck
        /\ hs[r].sentLocalAck => s.sentLocalAck}

\* What may be on its way from a runtime s.
AckTraffic(s) == {m \in Messages : m.type = "hello_ack" => s.sentLocalAck}

AckInv ==
    \A r \in Roles :
        /\ hs[r] \in Keeps(r)
        /\ Locked(r) => hs[r].seenPeerAck
        /\ net[r] \in Seq(AckTraffic(hs[Other(r)]))

-----------------------------------------------------------------------------
(* The two transcripts *)

AtMostOne(S) == \A x, y \in S : x = y

Distinct(t) == \A i, j \in DOMAIN t : t[i] = t[j] => i = j

Greetings == {"hello", "hello_ack"}

\* The records of this type that s holds of messages from q.
Held(s, type, q) == {x \in Range(s.transcript) : x.type = type /\ x.from = q}

\* Each flag of r's runtime is set exactly if the message it tells of is recorded;
\* no message is recorded twice, and the own ones are one hello and one ack.
TranscriptOK(r, s) ==
    /\ Distinct(s.transcript)
    /\ \A x \in Range(s.transcript) :
          /\ x.from = Other(r) => x.seq <= s.lastSeq
          /\ s.state # "ABORTED" => x.type \in Greetings
    /\ AtMostOne(Held(s, "hello", r)) /\ AtMostOne(Held(s, "hello_ack", r))
    /\ s.state = "INIT" => Held(s, "hello", r) = {} /\ s.seq = 0
    /\ s.state # "ABORTED" => s.seq <= IF s.sentLocalAck THEN 2 ELSE 1
    /\ s.sentLocalAck <=> Held(s, "hello_ack", r) # {}
    /\ s.seenPeerHello <=> Held(s, "hello", Other(r)) # {}
    /\ s.seenPeerAck <=> Held(s, "hello_ack", Other(r)) # {}
    /\ s.seenPeerHello => s.peerParams # None /\ s.peerNonce # None
    /\ s.state = "LOCKED" => LockReady(s)

\* What r, its runtime being s, may have on its way: a greeting it has recorded,
\* an announcement once it has locked.
Spoken(r, s) ==
    {m \in Messages :
        /\ m.from = r
        /\ m.type \in Greetings => m.sid = NoSid /\ RecordOf(m) \in Range(s.transcript)
        /\ m.type = "keygen_announce" =>
              m.sid # NoSid /\ m.seq = FirstPostSeq /\ s.state = "LOCKED"}

\* What r recorded of its peer's greetings, the peer recorded when it sent them.
Confirmed(r, s) ==
    \A x \in Range(s.transcript) :
        x.from = Other(r) /\ x.type \in Greetings => x \in Range(hs[Other(r)].transcript)

\* Whatever the network does, the flags of a runtime and its transcript tell one
\* story, which the peer's transcript confirms, and nothing is on its way that its
\* sender has not recorded.
TranscriptInv ==
    \A r \in Roles :
        /\ TranscriptOK(r, hs[r]) /\ Confirmed(r, hs[r])
        /\ net[r] \in Seq(Spoken(Other(r), hs[Other(r)]))

-----------------------------------------------------------------------------
(* A faultless past *)

\* The numbers rise along t.
Rising(t) == \A i, j \in DOMAIN t : i < j => t[i].seq < t[j].seq

\* The message with record x was heard by r or still will be.
Arrives(r, x) ==
    \/ x \in Range(hs[r].transcript)
    \/ \E m \in Range(net[r]) : RecordOf(m) = x

\* In a past without faults r has not aborted, it is locked if it is ready, and what
\* its peer sent it has recorded or will hear in the order of the numbers.
OrderlyAt(r) ==
    /\ hs[r].state # "ABORTED"
    /\ LockReady(hs[r]) => Locked(r)
    /\ hs[r].lastSeq < hs[Other(r)].seq
    /\ Rising(net[r])
    /\ \A m \in Range(net[r]) :
          /\ m.type \in Greetings \cup {"keygen_announce"}
          /\ m.seq > hs[r].lastSeq
    /\ \A x \in Range(hs[Other(r)].transcript) : x.from = Other(r) => Arrives(r, x)

\* The network has made no fault, and the parties could lock.
Faultless == faults = 0 /\ params["alice"] = params["bob"]

\* Over a network that makes no fault two parties that could lock lose nothing: each
\* has recorded or will hear all that the other recorded of its own messages, in
\* order; neither aborts, and whatever is ready to lock is locked.
OrderlyInv == Faultless => \A r \in Roles : OrderlyAt(r)
=============================================================================
