------------------------- MODULE AdaptorWatchProofs -------------------------
(***************************************************************************)
(* Proofs about the two parts that work without the other party: the       *)
(* algebra of AdaptorMock, for byte strings of any length, any hash        *)
(* function for the mask, any requests and any number of answers; and the  *)
(* polling loop of WatchTx, for every number of confirmations, every poll, *)
(* timeout and latency, and a chain of any length.                         *)
(*                                                                         *)
(* AdaptorInv says that an extraction returned what Extract does of the    *)
(* answers it was tried with, which never change; the rest of that proof   *)
(* is algebra (OwnUnlocks, OnlyOwnUnlocks).  WatchInv has one part per     *)
(* question: what the loop has seen of the chain (Seen), how late it can   *)
(* be where it stands (OnTime), and where it can stand once the            *)
(* transaction is confirmed (Noticed).                                     *)
(***************************************************************************)
EXTENDS AdaptorMock, WatchTx, SequenceTheorems, TLAPS

-----------------------------------------------------------------------------
(* AdaptorMock *)

\* What TryExtract(i, j) returns.
Tried(i, j) ==
    Extract(presigns[i].request, AdaptorSigOf(presigns[i]), FinalSigOf(presigns[j]))

AdaptorInv ==
    /\ presigns \in Seq(Presigns)
    /\ held \subseteq DOMAIN presigns /\ published \subseteq DOMAIN presigns
    /\ \A x \in extracted :
          /\ x.from \in DOMAIN presigns /\ x.with \in DOMAIN presigns
          /\ x.result = Tried(x.from, x.with)

-----------------------------------------------------------------------------
(* The algebra *)

\* Masking twice with one mask is not masking.
LEMMA XorTwice ==
    ASSUME NEW a, NEW b
    PROVE  Xor32(Xor32(a, b), b) = a
BY DEF Xor32

\* extract() undoes complete(): the commitment is that of the salt, and what is
\* unmasked is the secret the core was made of.
LEMMA OwnUnlocks ==
    ASSUME NEW p \in Presigns
    PROVE  Extract(p.request, AdaptorSigOf(p), FinalSigOf(p)) = Unlocked(p.secret)
BY XorTwice DEF Extract, AdaptorSigOf, FinalSigOf

\* What extract() accepts: the commitment fixes the salt, the core the rest.
LEMMA OnlyOwnUnlocks ==
    ASSUME NEW p \in Presigns, NEW q \in Presigns,
           Extract(p.request, AdaptorSigOf(p), FinalSigOf(q)).ok
    PROVE  /\ p.request.sid = q.request.sid /\ p.request.digest = q.request.digest
           /\ p.maskSalt = q.maskSalt /\ p.secret = q.secret
           /\ Extract(p.request, AdaptorSigOf(p), FinalSigOf(q)).secret = q.secret
<1> DEFINE secret == Xor32(AdaptorSigOf(p).maskedSecret, mask[<<p.request, q.maskSalt>>])
<1>1. /\ MaskCommit(p.maskSalt) = MaskCommit(q.maskSalt)
      /\ SigCore(p.request, secret) = SigCore(q.request, q.secret)
      /\ Extract(p.request, AdaptorSigOf(p), FinalSigOf(q)) = Unlocked(secret)
  BY DEF Extract, AdaptorSigOf, FinalSigOf, Locked
<1>2. p.maskSalt = q.maskSalt
  BY <1>1 DEF MaskCommit
<1>3. /\ p.request.sid = q.request.sid /\ p.request.digest = q.request.digest
      /\ secret = q.secret
  BY <1>1 DEF SigCore
<1>4. secret = p.secret
  BY <1>2, XorTwice DEF AdaptorSigOf
<1>. QED  BY <1>1, <1>2, <1>3, <1>4 DEF Unlocked

-----------------------------------------------------------------------------
(* The invariant and the theorems *)

\* An answer is never changed by a later one, nor an extraction forgotten.
LEMMA AdaptorInvariance == AdaptorSpec => []AdaptorInv
<1>1. AdaptorInit => AdaptorInv
  BY DEF AdaptorInit, AdaptorInv
<1>2. AdaptorInv /\ [AdaptorNext]_adaptorVars => AdaptorInv'
  <2>. SUFFICES ASSUME AdaptorInv, [AdaptorNext]_adaptorVars PROVE AdaptorInv'  OBVIOUS
  <2>1. CASE PresignRespond
    <3>1. PICK p \in Presigns : presigns' = Append(presigns, p)
      BY <2>1 DEF PresignRespond
    <3>2. /\ presigns' \in Seq(Presigns)
          /\ DOMAIN presigns \subseteq DOMAIN presigns'
          /\ \A i \in DOMAIN presigns : presigns'[i] = presigns[i]
      BY <3>1, AppendProperties, LenProperties DEF AdaptorInv
    <3>3. \A i, j \in DOMAIN presigns : Tried(i, j)' = Tried(i, j)
      BY <2>1, <3>2 DEF PresignRespond, Tried, Extract, AdaptorSigOf
    <3>. QED  BY <2>1, <3>2, <3>3 DEF PresignRespond, AdaptorInv
  <2>2. ASSUME NEW i \in DOMAIN presigns, PresignFinish(i) \/ Complete(i)
        PROVE  AdaptorInv'
    <3>1. \A k, j : Tried(k, j)' = Tried(k, j)
      BY <2>2 DEF PresignFinish, Complete, Tried, Extract, AdaptorSigOf
    <3>. QED  BY <2>2, <3>1 DEF PresignFinish, Complete, AdaptorInv
  <2>3. ASSUME NEW i \in DOMAIN presigns, NEW j \in DOMAIN presigns, TryExtract(i, j)
        PROVE  AdaptorInv'
    <3>1. \A k, l : Tried(k, l)' = Tried(k, l)
      BY <2>3 DEF TryExtract, Tried, Extract, AdaptorSigOf
    <3>2. extracted' = extracted \cup {[from |-> i, with |-> j, result |-> Tried(i, j)]}
      BY <2>3 DEF TryExtract, Tried
    <3>. QED  BY <2>3, <3>1, <3>2 DEF TryExtract, AdaptorInv
  <2>4. CASE UNCHANGED adaptorVars
    <3>1. \A k, l : Tried(k, l)' = Tried(k, l)
      BY <2>4 DEF adaptorVars, Tried, Extract, AdaptorSigOf
    <3>. QED  BY <2>4, <3>1 DEF adaptorVars, AdaptorInv
  <2>. QED  BY <2>1, <2>2, <2>3, <2>4 DEF AdaptorNext
<1>. QED  BY <1>1, <1>2, PTL DEF AdaptorSpec

\* extract() after complete() returns bob's secret, for every mask function.
THEOREM OwnUnlocksAlways == AdaptorSpec => []OwnSignatureUnlocks
<1>1. AdaptorInv => OwnSignatureUnlocks
  <2>. SUFFICES ASSUME AdaptorInv, NEW x \in extracted, x.from = x.with
                PROVE  x.result = Unlocked(presigns[x.from].secret)
    BY DEF OwnSignatureUnlocks
  <2>1. presigns[x.from] \in Presigns
    BY ElementOfSeq, LenProperties DEF AdaptorInv
  <2>. QED  BY <2>1, OwnUnlocks DEF AdaptorInv, Tried
<1>. QED  BY <1>1, AdaptorInvariance, PTL

\* extract() succeeds on no final signature that is not of the same session,
\* digest, salt and secret, for every mask function.
THEOREM OthersStayLockedAlways == AdaptorSpec => []OthersStayLocked
<1>1. AdaptorInv => OthersStayLocked
  <2>. SUFFICES ASSUME AdaptorInv, NEW x \in extracted, x.result.ok
                PROVE  LET p == presigns[x.from]
                           q == presigns[x.with]
                       IN  /\ p.request.sid = q.request.sid
                           /\ p.request.digest = q.request.digest
                           /\ p.maskSalt = q.maskSalt
                           /\ p.secret = q.secret /\ x.result.secret = q.secret
    BY DEF OthersStayLocked
  <2>1. presigns[x.from] \in Presigns /\ presigns[x.with] \in Presigns
    BY ElementOfSeq, LenProperties DEF AdaptorInv
  <2>. QED  BY <2>1, OnlyOwnUnlocks DEF AdaptorInv, Tried
<1>. QED  BY <1>1, AdaptorInvariance, PTL

-----------------------------------------------------------------------------
(* WatchTx *)

TypeOK ==
    /\ pc \in {"deadline", "receipt", "block", "sleep", "done"}
    /\ result \in {"waiting", "success", "reverted", "timeout"}
    /\ elapsed \in Nat /\ height \in Nat /\ known \in 0 .. height
    /\ txBlock \in Nat \cup {None}
    /\ txStatus \in {"success", "reverted", None}
    /\ txStatus # None <=> txBlock # None
    /\ confirmedAt \in Nat \cup {None}
    /\ pc = "done" <=> result # "waiting"

Confirmed == ConfirmedBy(height, txBlock, txStatus)

\* The loop asks for the block number of a transaction that has succeeded.
Seen ==
    /\ pc = "block" => txBlock # None /\ txStatus = "success"
    /\ confirmedAt # None => Confirmed
    /\ ResultIsTrue

\* Each step after the deadline's check adds what it may last.
OnTime ==
    /\ pc = "receipt" => elapsed <= Timeout
    /\ pc = "block" => elapsed <= Timeout + MaxLatency
    /\ pc = "sleep" => elapsed <= Timeout + 2 * MaxLatency
    /\ EndsInTime

\* Unhindered, the loop falls asleep on no confirmed transaction; one that is
\* confirmed while it sleeps has waited for one poll at the next check.
Noticed ==
    /\ ~hindered /\ confirmedAt # None =>
          /\ pc = "sleep" => elapsed = confirmedAt
          /\ pc = "deadline" => elapsed <= confirmedAt + Poll
    /\ result = "timeout" => elapsed > Timeout
    /\ TimeoutIsHonest

WatchInv == TypeOK /\ Seen /\ OnTime /\ Noticed

-----------------------------------------------------------------------------
\* A call starts in the invariant.
LEMMA Initially == WatchInit => WatchInv
<1>. SUFFICES ASSUME WatchInit PROVE WatchInv  OBVIOUS
<1>1. TypeOK
  BY DEF WatchInit, TypeOK
<1>2. Seen
  BY DEF WatchInit, Seen, ResultIsTrue
<1>3. OnTime
  BY WatchAssumption DEF WatchInit, OnTime, EndsInTime
<1>4. Noticed
  BY DEF WatchInit, Noticed, TimeoutIsHonest
<1>. QED  BY <1>1, <1>2, <1>3, <1>4 DEF WatchInv

\* A confirmed transaction stays confirmed: the chain only grows.
LEMMA StaysConfirmed ==
    ASSUME NEW h \in Nat, NEW k \in Nat, k >= h,
           NEW block \in Nat, NEW status, ConfirmedBy(h, block, status)
    PROVE  ConfirmedBy(k, block, status)
<1>1. h - block + 1 >= Confirmations /\ Confirmations \in Nat
  BY WatchAssumption DEF ConfirmedBy
<1>2. k - block + 1 >= Confirmations
  BY <1>1
<1>. QED  BY <1>2 DEF ConfirmedBy

\* A block, with the transaction or without, keeps the invariant.
LEMMA ChainStep ==
    ASSUME WatchInv, MineBlock
    PROVE  WatchInv'
<1>1. height' = height + 1 /\ UNCHANGED <<pc, elapsed, result, known, hindered>>
  BY DEF MineBlock
<1>2. txBlock # None => UNCHANGED <<txBlock, txStatus>>
  BY DEF MineBlock
<1>3. TypeOK'
  BY <1>1, WatchAssumption DEF WatchInv, TypeOK, MineBlock
<1>4. Confirmed => Confirmed'
  <2>. SUFFICES ASSUME Confirmed PROVE Confirmed'  OBVIOUS
  <2>1. txBlock # None /\ txBlock \in Nat
    BY DEF Confirmed, ConfirmedBy, WatchInv, TypeOK
  <2>2. height \in Nat /\ height' \in Nat /\ height' >= height
    BY <1>1 DEF WatchInv, TypeOK
  <2>. QED  BY <1>2, <2>1, <2>2, StaysConfirmed DEF Confirmed
<1>5. \/ confirmedAt' = confirmedAt
      \/ confirmedAt = None /\ confirmedAt' = elapsed /\ Confirmed'
  BY DEF MineBlock, Confirmed
<1>6. Seen'
  <2>1. txStatus = "reverted" => txStatus' = "reverted"
    BY <1>2, WatchAssumption DEF WatchInv, TypeOK
  <2>. QED  BY <1>1, <1>2, <1>4, <1>5, <2>1 DEF WatchInv, Seen, ResultIsTrue, Confirmed
<1>7. OnTime'
  BY <1>1 DEF WatchInv, OnTime, EndsInTime
<1>8. Noticed'
  <2>1. elapsed \in Nat /\ Poll \in Nat /\ Timeout \in Nat
    BY WatchAssumption DEF WatchInv, TypeOK
  <2>2. CASE confirmedAt' = confirmedAt
    BY <1>1, <2>2 DEF WatchInv, Noticed, TimeoutIsHonest
  <2>3. CASE confirmedAt' = elapsed
    <3>1. elapsed <= elapsed + Poll /\ (elapsed > Timeout => elapsed + Poll > Timeout)
      BY <2>1
    <3>. QED  BY <1>1, <2>3, <3>1 DEF WatchInv, Noticed, TimeoutIsHonest
  <2>. QED  BY <1>5, <2>2, <2>3
<1>. QED  BY <1>3, <1>6, <1>7, <1>8 DEF WatchInv

\* So does every step of the loop.
LEMMA LoopStep ==
    ASSUME WatchInv,
           CheckDeadline \/ GetReceipt \/ GetBlockNumber \/ CallThrows \/ Sleep
    PROVE  WatchInv'
<1>1. UNCHANGED <<height, txBlock, txStatus, confirmedAt>>
  BY DEF CheckDeadline, GetReceipt, GetBlockNumber, CallThrows, Sleep, chainVars
<1>2. Confirmed' = Confirmed
  BY <1>1 DEF Confirmed
<1>3. CASE CheckDeadline
  BY <1>1, <1>2, <1>3, WatchAssumption
  DEF WatchInv, TypeOK, Seen, ResultIsTrue, OnTime, EndsInTime, Noticed, TimeoutIsHonest,
      CheckDeadline, Expired, Ends, GoesOn
<1>4. CASE GetReceipt
  <2>1. PICK t \in 0 .. MaxLatency : elapsed' = elapsed + t
    BY <1>4 DEF GetReceipt, Latency, Passes
  <2>2. pc = "receipt" /\ result = "waiting" /\ UNCHANGED <<known, hindered>>
    BY <1>4 DEF GetReceipt, WatchInv, TypeOK
  <2>3. CASE txBlock = None /\ GoesOn("sleep")
    <3>1. confirmedAt = None
      BY <2>3 DEF WatchInv, Seen, Confirmed, ConfirmedBy
    <3>. QED
      BY <1>1, <1>2, <2>1, <2>2, <2>3, <3>1, WatchAssumption
      DEF WatchInv, TypeOK, Seen, ResultIsTrue, OnTime, EndsInTime, Noticed, TimeoutIsHonest, GoesOn
  <2>4. CASE txStatus = "reverted" /\ Ends("reverted")
    BY <1>1, <1>2, <2>1, <2>2, <2>4, WatchAssumption
    DEF WatchInv, TypeOK, Seen, ResultIsTrue, OnTime, EndsInTime, Noticed, TimeoutIsHonest, Ends
  <2>5. CASE txStatus = "success" /\ GoesOn("block")
    BY <1>1, <1>2, <2>1, <2>2, <2>5, WatchAssumption
    DEF WatchInv, TypeOK, Seen, ResultIsTrue, OnTime, EndsInTime, Noticed, TimeoutIsHonest, GoesOn
  <2>. QED  BY <1>4, <2>3, <2>4, <2>5 DEF GetReceipt
<1>5. CASE GetBlockNumber
  <2>1. PICK t \in 0 .. MaxLatency : elapsed' = elapsed + t
    BY <1>5 DEF GetBlockNumber, Latency, Passes
  <2>2. PICK current \in known .. height :
            /\ known' = current
            /\ hindered' = (hindered \/ current < height)
            /\ IF Enough(current) THEN Ends("success") ELSE GoesOn("sleep")
    BY <1>5 DEF GetBlockNumber
  <2>3. pc = "block" /\ result = "waiting" /\ txBlock # None /\ txStatus = "success"
    BY <1>5 DEF GetBlockNumber, WatchInv, TypeOK, Seen
  <2>4. TypeOK'
    BY <1>1, <2>1, <2>2, <2>3, WatchAssumption DEF WatchInv, TypeOK, Ends, GoesOn
  <2>5. CASE Enough(current) /\ Ends("success")
    <3>1. Confirmed
      BY <2>2, <2>3, <2>5, WatchAssumption DEF WatchInv, TypeOK, Enough, Confirmed, ConfirmedBy
    <3>. QED
      BY <1>1, <1>2, <2>1, <2>4, <2>5, <3>1, WatchAssumption
      DEF WatchInv, Seen, ResultIsTrue, OnTime, EndsInTime, Noticed, TimeoutIsHonest, Confirmed, Ends
  <2>6. CASE ~Enough(current) /\ GoesOn("sleep")
    <3>0. ~hindered' => ~(current < height)
      BY <2>2
    <3>1. ~hindered' => ~Confirmed
      <4>. SUFFICES ASSUME ~hindered', Confirmed PROVE FALSE  OBVIOUS
      <4>1. current = height
        BY <2>2, <3>0 DEF WatchInv, TypeOK
      <4>. QED  BY <2>6, <4>1 DEF Enough, Confirmed, ConfirmedBy
    <3>2. ~hindered' => confirmedAt = None
      BY <3>1 DEF WatchInv, Seen
    <3>. QED
      BY <1>1, <1>2, <2>1, <2>3, <2>4, <2>6, <3>2, WatchAssumption
      DEF WatchInv, TypeOK, Seen, ResultIsTrue, OnTime, EndsInTime, Noticed, TimeoutIsHonest, GoesOn
  <2>. QED  BY <2>2, <2>5, <2>6
<1>6. CASE CallThrows
  BY <1>1, <1>2, <1>6, WatchAssumption
  DEF WatchInv, TypeOK, Seen, ResultIsTrue, OnTime, EndsInTime, Noticed, TimeoutIsHonest,
      CallThrows, GoesOn, Passes, Latency
<1>7. CASE Sleep
  BY <1>1, <1>2, <1>7, WatchAssumption
  DEF WatchInv, TypeOK, Seen, ResultIsTrue, OnTime, EndsInTime, Noticed, TimeoutIsHonest,
      Sleep, GoesOn, Passes
<1>. QED  BY <1>3, <1>4, <1>5, <1>6, <1>7

\* The invariant holds throughout a watch.
LEMMA WatchInvariance == WatchSpec => []WatchInv
<1>1. WatchInv /\ [WatchNext]_watchVars => WatchInv'
  <2>. SUFFICES ASSUME WatchInv, [WatchNext]_watchVars PROVE WatchInv'  OBVIOUS
  <2>1. CASE UNCHANGED watchVars
    BY <2>1 DEF watchVars, chainVars, WatchInv, TypeOK, Seen, Confirmed, ResultIsTrue, OnTime,
                EndsInTime, Noticed, TimeoutIsHonest
  <2>. QED  BY <2>1, LoopStep, ChainStep DEF WatchNext
<1>. QED  BY <1>1, Initially, PTL DEF WatchSpec

\* What waitForTxConfirmations returns is true of the chain, and stays so.
THEOREM ResultsAreTrue == WatchSpec => []ResultIsTrue
BY WatchInvariance, PTL DEF WatchInv, Seen

\* An unhindered watch misses a confirmation only in the last poll.
THEOREM TimeoutsAreHonest == WatchSpec => []TimeoutIsHonest
BY WatchInvariance, PTL DEF WatchInv, Noticed

\* The loop ends one turn after the deadline, whatever the node does.
THEOREM WatchesEnd == WatchSpec => []EndsInTime
BY WatchInvariance, PTL DEF WatchInv, OnTime
=============================================================================
