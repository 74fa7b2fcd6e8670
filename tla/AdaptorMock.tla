---------------------------- MODULE AdaptorMock -----------------------------
(***************************************************************************)
(* packages/adaptor-mock/src/mockAdaptor.ts: bob answers alice's presign   *)
(* requests with masked secrets, completes some of them later, and alice   *)
(* extracts a secret from an adaptor signature and a final one.            *)
(*                                                                         *)
(* A 32-byte string is the set of the bits that are set in it.  The hashes *)
(* that are only compared are tuples of what they hash; the mask, which is *)
(* computed with, is any function whatever of what it hashes, collisions   *)
(* included.  The secret is a hash with fresh randomness: any string.      *)
(***************************************************************************)
EXTENDS Integers, Sequences

CONSTANTS
    Sids, Digests, Ts,   \* what a request is about
    Salts,               \* the salts bob can draw
    Bits,                \* the positions in a byte string
    MaxPresigns          \* bound: how many requests bob answers

ASSUME AdaptorAssumption == MaxPresigns \in Nat

VARIABLES
    mask,       \* the hash function: from a request and a salt to a byte string
    presigns,   \* the requests bob has answered, with what he drew for them
    held,       \* the presigns whose adaptor signature alice has
    published,  \* the presigns bob has completed
    extracted   \* what alice's extractions have returned

adaptorVars == <<mask, presigns, held, published, extracted>>

Bytes == SUBSET Bits
Requests == [sid : Sids, digest : Digests, T : Ts]
Presigns == [request : Requests, secret : Bytes, maskSalt : Salts]

-----------------------------------------------------------------------------
(* The functions of the module *)

\* Faulty: bits are set and never cleared.
Or32(a, b) == a \cup b

Xor32(a, b) == (a \ b) \cup (b \ a)

MaskCommit(salt) == <<"c|", salt>>

SigCore(request, secret) == <<"sig", request.sid, request.digest, secret>>

\* presignRespond(), given what it drew.
AdaptorSigOf(p) ==
    [maskCommit |-> MaskCommit(p.maskSalt),
     maskedSecret |-> Xor32(p.secret, mask[<<p.request, p.maskSalt>>])]

\* complete(), which reveals the salt.
FinalSigOf(p) ==
    [sigCore |-> SigCore(p.request, p.secret), maskSalt |-> p.maskSalt]

Unlocked(secret) == [ok |-> TRUE, secret |-> secret]
Locked == [ok |-> FALSE, secret |-> {}]

\* Faulty: does not look at the commitment to the salt.
ExtractUncommitted(request, adaptorSig, finalSig) ==
    LET secret == Xor32(adaptorSig.maskedSecret, mask[<<request, finalSig.maskSalt>>])
    IN  IF SigCore(request, secret) = finalSig.sigCore THEN Unlocked(secret) ELSE Locked

\* extract(); its two errors are one outcome.
Extract(request, adaptorSig, finalSig) ==
    LET secret == Xor32(adaptorSig.maskedSecret, mask[<<request, finalSig.maskSalt>>])
    IN  IF /\ adaptorSig.maskCommit = MaskCommit(finalSig.maskSalt)
           /\ SigCore(request, secret) = finalSig.sigCore
        THEN Unlocked(secret) ELSE Locked

-----------------------------------------------------------------------------
(* The exchange *)

PresignRespond ==
    /\ Len(presigns) < MaxPresigns
    /\ \E p \in Presigns : presigns' = Append(presigns, p)
    /\ UNCHANGED <<mask, held, published, extracted>>

PresignFinish(i) ==
    /\ held' = held \cup {i}
    /\ UNCHANGED <<mask, presigns, published, extracted>>

Complete(i) ==
    /\ published' = published \cup {i}
    /\ UNCHANGED <<mask, presigns, held, extracted>>

\* Alice tries an adaptor signature she has with a final signature she has seen,
\* which may be that of another request or of another answer.
TryExtract(i, j) ==
    /\ i \in held /\ j \in published
    /\ LET result == Extract(presigns[i].request, AdaptorSigOf(presigns[i]),
                             FinalSigOf(presigns[j]))
       IN  extracted' = extracted \cup {[from |-> i, with |-> j, result |-> result]}
    /\ UNCHANGED <<mask, presigns, held, published>>

AdaptorInit ==
    /\ mask \in [Requests \X Salts -> Bytes]
    /\ presigns = <<>>
    /\ held = {} /\ published = {} /\ extracted = {}

AdaptorNext ==
    \/ PresignRespond
    \/ \E i \in DOMAIN presigns : PresignFinish(i) \/ Complete(i)
    \/ \E i, j \in DOMAIN presigns : TryExtract(i, j)

AdaptorSpec == AdaptorInit /\ [][AdaptorNext]_adaptorVars

-----------------------------------------------------------------------------
(* Properties *)

\* With the final signature of the very answer she holds alice always gets the
\* secret bob drew for it, whatever the hash function is.
OwnSignatureUnlocks ==
    \A x \in extracted :
        x.from = x.with => x.result = Unlocked(presigns[x.from].secret)

\* No other final signature gives anything away: an extraction succeeds only if
\* the two signatures are of one session and digest, with one salt and one
\* secret, and the secret is the one it returns.
OthersStayLocked ==
    \A x \in extracted :
        LET p == presigns[x.from]
            q == presigns[x.with]
        IN  x.result.ok =>
                /\ p.request.sid = q.request.sid /\ p.request.digest = q.request.digest
                /\ p.maskSalt = q.maskSalt
                /\ p.secret = q.secret /\ x.result.secret = q.secret
=============================================================================
