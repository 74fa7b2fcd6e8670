--------------------------- MODULE LockstepProofs ---------------------------
(***************************************************************************)
(* Proofs about Lockstep, for any number of milestones: what every         *)
(* implementation of it promises, whatever it finds at its milestones.     *)
(***************************************************************************)
EXTENDS Lockstep, SequenceTheorems, TLAPS

\* The logs are sequences of some values; which, the specification leaves open.
Logged(S) == log \in [Parties -> Seq(S)]

-----------------------------------------------------------------------------
\* A pass makes one log longer by one entry, which is the peer's where the peer
\* has one.
LEMMA PassKeepsStep ==
    ASSUME NEW S, Logged(S), InStep, NEW r \in Parties, Pass(r)
    PROVE  InStep' /\ \E T : Logged(T)'
<1> DEFINE k == Len(log[r]) + 1
<1>0. PICK x : x = log'[r][k]  OBVIOUS
<1>1. Peer(r) \in Parties /\ Peer(r) # r /\ Peer(Peer(r)) = r
      /\ \A q \in Parties : q = r \/ q = Peer(r)
  BY DEF Parties, Peer
<1>2. log[r] \in Seq(S \cup {x}) /\ log[Peer(r)] \in Seq(S \cup {x})
  BY <1>1, SeqMonotonic DEF Logged
<1>3. log'[r] = Append(log[r], x) /\ log'[Peer(r)] = log[Peer(r)]
      /\ log' = [log EXCEPT ![r] = Append(log[r], x)]
  BY <1>0, <1>1 DEF Pass, Logged
<1>4. /\ Append(log[r], x) \in Seq(S \cup {x})
      /\ Len(Append(log[r], x)) = k
      /\ \A i \in 1 .. Len(log[r]) : Append(log[r], x)[i] = log[r][i]
      /\ Append(log[r], x)[k] = x
  BY <1>2, AppendProperties
<1>5. Logged(S \cup {x})'
  <2>1. log \in [Parties -> Seq(S \cup {x})]
    BY <1>1, <1>2 DEF Logged
  <2>. QED  BY <1>3, <1>4, <2>1 DEF Logged
<1>6. Len(log[r]) \in Nat /\ Len(log[Peer(r)]) \in Nat
  BY <1>2, LenProperties
<1>7. \A q \in Parties : Len(log'[q]) <= Len(log'[Peer(q)]) + 1
  <2>1. Len(log'[r]) <= Len(log'[Peer(r)]) + 1
    BY <1>3, <1>4 DEF Pass
  <2>2. Len(log'[Peer(r)]) <= Len(log'[r]) + 1
    BY <1>1, <1>3, <1>4, <1>6 DEF InStep
  <2>. QED  BY <1>1, <2>1, <2>2
<1>8. \A q \in Parties : \A i \in 1 .. Len(log'[q]) :
          i <= Len(log'[Peer(q)]) => log'[q][i] = log'[Peer(q)][i]
  <2>1. \A i \in 1 .. k : i <= Len(log[Peer(r)]) => log'[r][i] = log[Peer(r)][i]
    <3>. TAKE i \in 1 .. k
    <3>1. CASE i = k
      BY <1>0, <3>1 DEF Pass
    <3>2. CASE i \in 1 .. Len(log[r])
      BY <1>3, <1>4, <3>2 DEF InStep
    <3>. QED  BY <1>6, <3>1, <3>2
  <2>. TAKE q \in Parties
  <2>. TAKE i \in 1 .. Len(log'[q])
  <2>2. CASE q = r
    BY <1>3, <1>4, <2>1, <2>2
  <2>3. CASE q = Peer(r)
    BY <1>1, <1>3, <1>4, <1>6, <2>1, <2>3
  <2>. QED  BY <1>1, <2>2, <2>3
<1>. QED  BY <1>5, <1>7, <1>8 DEF InStep

\* Lockstep: the logs agree where both have been and differ by at most one entry
\* in length.  So do the milestones of two sessions, which implement it.
THEOREM StaysInStep == Spec => []InStep
<1> DEFINE IInv == InStep /\ \E S : Logged(S)
<1>1. Init => IInv
  <2>. SUFFICES ASSUME Init PROVE IInv  OBVIOUS
  <2>1. log \in [Parties -> Seq({})] /\ \A r \in Parties : log[r] = <<>>
    BY EmptySeq DEF Init
  <2>2. Logged({})  BY <2>1 DEF Logged
  <2>3. \A r \in Parties : Peer(r) \in Parties  BY DEF Parties, Peer
  <2>4. InStep  BY <2>1, <2>3 DEF InStep
  <2>. QED  BY <2>2, <2>4
<1>2. IInv /\ [Next]_lockstepVars => IInv'
  <2>. SUFFICES ASSUME IInv, [Next]_lockstepVars PROVE IInv'  OBVIOUS
  <2>1. PICK S : Logged(S)  OBVIOUS
  <2>2. CASE UNCHANGED log
    <3>1. Logged(S)'  BY <2>1, <2>2 DEF Logged
    <3>2. InStep'  BY <2>2 DEF InStep
    <3>. QED  BY <3>1, <3>2
  <2>3. ASSUME NEW r \in Parties, Pass(r) PROVE IInv'
    BY <2>1, <2>3, PassKeepsStep
  <2>. QED  BY <2>2, <2>3 DEF Next, Stop, lockstepVars
<1>. QED  BY <1>1, <1>2, PTL DEF Spec
=============================================================================
