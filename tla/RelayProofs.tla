---------------------------- MODULE RelayProofs -----------------------------
(***************************************************************************)
(* Proofs about Relay, for any number of clients and rooms and any number  *)
(* of payloads.                                                            *)
(*                                                                         *)
(* The argument for StartsBeforePayload: whoever shares a room with        *)
(* another client has started or has a notice on its way that makes it     *)
(* start (Told); a payload is queued behind that notice (Ordered), since   *)
(* the relay forwards only what a member of the room sends (UpOK and       *)
(* Membership), and a queue keeps its order.                               *)
(*                                                                         *)
(* For UnbrokenPerPeer: the numbers in a queue to the relay follow from    *)
(* their places (Line), what a client has been sent of a peer ends where   *)
(* that queue goes on (Chain), and who has not joined has nothing yet      *)
(* (Newcomers), so it may begin at any number.                             *)
(***************************************************************************)
EXTENDS Relay, SequenceTheorems, FiniteSetTheorems, TLAPS

-----------------------------------------------------------------------------
(* The invariant *)

RelayMessages ==
    [type : {"join"}, room : Rooms] \cup [type : {"msg"}, room : Rooms, n : Nat]
    \cup [type : {"close"}]

ClientMessages ==
    [type : {"joined", "peer_joined"}, count : Nat]
    \cup [type : {"msg"}, from : Clients, n : Nat]

Shape ==
    /\ room \in [Clients -> Rooms]
    /\ link \in [Clients -> {"new", "up", "down"}]
    /\ toRelay \in [Clients -> Seq(RelayMessages)]
    /\ toClient \in [Clients -> Seq(ClientMessages)]
    /\ members \in [Rooms -> SUBSET Clients]
    /\ joined \in [Clients -> Rooms \cup {None}]
    /\ started \in [Clients -> BOOLEAN]
    /\ sent \in [Clients -> 0 .. MaxPayloads]
    /\ got \in [Clients -> [Clients -> Seq(Nat)]]

\* What a queue q to the relay holds for a client of room x whose link is l and
\* which the relay has in room j: a join first, then payloads, a close last.
UpOK(q, x, j, l) ==
    /\ j \in {None, x}
    /\ l = "new" => q = <<>> /\ j = None
    /\ l = "up" /\ j = None => q # <<>> /\ q[1].type = "join"
    /\ \A i \in 1 .. Len(q) :
          /\ q[i].type = "join" => i = 1 /\ q[i].room = x
          /\ q[i].type = "msg" => q[i].room = x /\ (j = x \/ q[1].type = "join")
          /\ q[i].type = "close" => i = Len(q) /\ l = "down"
    /\ l = "down" /\ q # <<>> => q[Len(q)].type = "close"

Starts(m) == m.type \in {"joined", "peer_joined"} /\ m.count >= 2

Announced(q) == \E i \in 1 .. Len(q) : Starts(q[i])

\* Every payload in q is behind a notice that makes a client start, or its client
\* has started, which is s.
Ordered(q, s) ==
    \A i \in 1 .. Len(q) :
        q[i].type = "msg" => s \/ \E j \in 1 .. i - 1 : Starts(q[j])

Membership ==
    \A c \in Clients, x \in Rooms :
        c \in members[x] <=> joined[c] = x /\ (link[c] = "up" \/ toRelay[c] # <<>>)

Told ==
    \A x \in Rooms : \A c, d \in members[x] :
        c # d /\ link[c] = "up" => started[c] \/ Announced(toClient[c])

IInv ==
    /\ Shape
    /\ \A c \in Clients : UpOK(toRelay[c], room[c], joined[c], link[c])
    /\ Membership
    /\ \A c \in Clients : Ordered(toClient[c], started[c])
    /\ Told
    /\ StartsBeforePayload
    /\ \A c \in Clients : sent[c] > 0 => started[c]

-----------------------------------------------------------------------------
(* Queues *)

\* A notice or payload at the end of the queue to a client.
LEMMA DownAppend ==
    ASSUME NEW q \in Seq(ClientMessages), NEW m \in ClientMessages, NEW s \in BOOLEAN,
           Ordered(q, s), m.type = "msg" => s \/ Announced(q)
    PROVE  /\ Append(q, m) \in Seq(ClientMessages)
           /\ Ordered(Append(q, m), s)
           /\ Announced(q) \/ Starts(m) => Announced(Append(q, m))
<1>1. /\ Append(q, m) \in Seq(ClientMessages)
      /\ Len(Append(q, m)) = Len(q) + 1 /\ Len(q) \in Nat
      /\ \A i \in 1 .. Len(q) : Append(q, m)[i] = q[i]
      /\ Append(q, m)[Len(q) + 1] = m
  BY AppendProperties, LenProperties
<1>2. Ordered(Append(q, m), s)
  <2>. SUFFICES ASSUME NEW i \in 1 .. Len(q) + 1, Append(q, m)[i].type = "msg", ~s
                PROVE  \E j \in 1 .. i - 1 : Starts(Append(q, m)[j])
    BY <1>1 DEF Ordered
  <2>1. CASE i \in 1 .. Len(q)
    <3>1. PICK j \in 1 .. i - 1 : Starts(q[j])
      BY <1>1, <2>1 DEF Ordered
    <3>. QED  BY <1>1, <2>1, <3>1
  <2>2. CASE i = Len(q) + 1
    <3>1. PICK j \in 1 .. Len(q) : Starts(q[j])
      BY <1>1, <2>2 DEF Announced
    <3>. QED  BY <1>1, <2>2, <3>1
  <2>. QED  BY <1>1, <2>1, <2>2
<1>3. Announced(q) \/ Starts(m) => Announced(Append(q, m))
  <2>1. ASSUME Announced(q) PROVE Announced(Append(q, m))
    <3>1. PICK j \in 1 .. Len(q) : Starts(q[j])
      BY <2>1 DEF Announced
    <3>. QED  BY <1>1, <3>1 DEF Announced
  <2>2. ASSUME Starts(m) PROVE Announced(Append(q, m))
    <3>1. Len(q) + 1 \in 1 .. Len(Append(q, m))  BY <1>1
    <3>. QED  BY <1>1, <2>2, <3>1 DEF Announced
  <2>. QED  BY <2>1, <2>2
<1>. QED  BY <1>1, <1>2, <1>3

\* A client takes the oldest notice or payload; t says whether it has started
\* then.
LEMMA DownTail ==
    ASSUME NEW q \in Seq(ClientMessages), q # <<>>, NEW s \in BOOLEAN, NEW t \in BOOLEAN,
           Ordered(q, s), s \/ Starts(Head(q)) => t
    PROVE  /\ Tail(q) \in Seq(ClientMessages)
           /\ Ordered(Tail(q), t)
           /\ Announced(q) => t \/ Announced(Tail(q))
           /\ Head(q).type = "msg" => s
<1>1. /\ Tail(q) \in Seq(ClientMessages) /\ Head(q) = q[1]
      /\ Len(q) \in Nat \ {0} /\ Len(Tail(q)) = Len(q) - 1
      /\ \A i \in 1 .. Len(Tail(q)) : Tail(q)[i] = q[i + 1]
  BY HeadTailProperties, LenProperties
<1>2. Ordered(Tail(q), t)
  <2>. SUFFICES ASSUME NEW i \in 1 .. Len(q) - 1, q[i + 1].type = "msg", ~t
                PROVE  \E j \in 1 .. i - 1 : Starts(Tail(q)[j])
    BY <1>1 DEF Ordered
  <2>1. PICK j \in 1 .. i : Starts(q[j])
    <3>1. i + 1 \in 1 .. Len(q) /\ (i + 1) - 1 = i  BY <1>1
    <3>. QED  BY <3>1 DEF Ordered
  <2>2. j # 1  BY <1>1, <2>1
  <2>3. j - 1 \in 1 .. i - 1 /\ Tail(q)[j - 1] = q[j]
    BY <1>1, <2>2
  <2>. QED  BY <2>1, <2>3
<1>3. ASSUME Announced(q), ~t PROVE Announced(Tail(q))
  <2>1. PICK j \in 1 .. Len(q) : Starts(q[j])
    BY <1>3 DEF Announced
  <2>2. j # 1  BY <1>1, <1>3, <2>1
  <2>3. j - 1 \in 1 .. Len(Tail(q)) /\ Tail(q)[j - 1] = q[j]
    BY <1>1, <2>2
  <2>. QED  BY <2>1, <2>3 DEF Announced
<1>4. Head(q).type = "msg" => s
  BY <1>1 DEF Ordered
<1>. QED  BY <1>1, <1>2, <1>3, <1>4

\* A client that is connected sends one more payload.
LEMMA UpAppend ==
    ASSUME NEW q \in Seq(RelayMessages), NEW x \in Rooms, NEW j, UpOK(q, x, j, "up"),
           NEW n \in Nat
    PROVE  /\ Append(q, Payload(x, n)) \in Seq(RelayMessages)
           /\ UpOK(Append(q, Payload(x, n)), x, j, "up")
<1> DEFINE m == Payload(x, n)
<1>1. m \in RelayMessages /\ m.type = "msg" /\ m.room = x
  BY DEF Payload, RelayMessages
<1>. HIDE DEF m
<1>2. /\ Append(q, m) \in Seq(RelayMessages) /\ Append(q, m) # <<>>
      /\ Len(Append(q, m)) = Len(q) + 1 /\ Len(q) \in Nat
      /\ \A i \in 1 .. Len(q) : Append(q, m)[i] = q[i]
      /\ Append(q, m)[Len(q) + 1] = m
  BY <1>1, AppendProperties, LenProperties
<1>3. q # <<>> => 1 \in 1 .. Len(q)
  BY <1>2, EmptySeq
<1>4. UpOK(Append(q, m), x, j, "up")
  <2>1. \A i \in 1 .. Len(q) + 1 : i \in 1 .. Len(q) \/ i = Len(q) + 1
    BY <1>2
  <2>. QED  BY <1>1, <1>2, <1>3, <2>1 DEF UpOK
<1>. QED  BY <1>2, <1>4 DEF m

\* A client's end goes down with a part of what it sent and the close.
LEMMA UpClose ==
    ASSUME NEW q \in Seq(RelayMessages), NEW x \in Rooms, NEW j, UpOK(q, x, j, "up"),
           NEW n \in 0 .. Len(q)
    PROVE  LET p == Append(SubSeq(q, 1, n), Close)
           IN  p \in Seq(RelayMessages) /\ p # <<>> /\ UpOK(p, x, j, "down")
<1> DEFINE s == SubSeq(q, 1, n)
           p == Append(s, Close)
<1>1. Close \in RelayMessages /\ Close.type = "close"
  BY DEF Close, RelayMessages
<1>2. Len(q) \in Nat /\ n \in Nat /\ \A i \in 1 .. n : i \in 1 .. Len(q) /\ q[i] \in RelayMessages
  BY LenProperties, ElementOfSeq
<1>3. s \in Seq(RelayMessages) /\ Len(s) = n /\ \A i \in 1 .. n : s[i] = q[i]
  BY <1>2, SubSeqProperties
<1>4. /\ p \in Seq(RelayMessages) /\ p # <<>> /\ Len(p) = n + 1
      /\ \A i \in 1 .. n : p[i] = q[i]
      /\ p[n + 1] = Close
  BY <1>1, <1>3, AppendProperties
<1>5. \A i \in 1 .. n + 1 : i = n + 1 \/ (i \in 1 .. n /\ 1 \in 1 .. n)
  BY <1>2
<1>6. UpOK(p, x, j, "down")
  BY <1>1, <1>2, <1>4, <1>5 DEF UpOK
<1>. QED  BY <1>4, <1>6

\* The relay takes the oldest message of a client: a join of its room, which
\* makes it a member; a payload, of a member; or a close, the last message.
LEMMA UpTail ==
    ASSUME NEW q \in Seq(RelayMessages), q # <<>>, NEW x \in Rooms, NEW j, NEW l,
           UpOK(q, x, j, l)
    PROVE  /\ Tail(q) \in Seq(RelayMessages)
           /\ Head(q).type = "join" =>
                 /\ Head(q).room = x /\ UpOK(Tail(q), x, x, l)
                 /\ l = "down" => Tail(q) # <<>>
           /\ Head(q).type = "msg" =>
                 /\ Head(q).room = x /\ j = x /\ UpOK(Tail(q), x, x, l)
                 /\ l = "down" => Tail(q) # <<>>
           /\ Head(q).type = "close" =>
                 Tail(q) = <<>> /\ l = "down" /\ UpOK(Tail(q), x, j, l)
<1>0. Len(q) \in Nat \ {0}
  BY HeadTailProperties, LenProperties
<1>1. /\ Tail(q) \in Seq(RelayMessages) /\ Head(q) = q[1]
      /\ Len(q) \in Nat \ {0} /\ Len(Tail(q)) = Len(q) - 1
      /\ \A i \in 1 .. Len(Tail(q)) : Tail(q)[i] = q[i + 1]
  BY HeadTailProperties, LenProperties
<1>2. /\ 1 \in 1 .. Len(q)
      /\ \A i \in 1 .. Len(q) - 1 : i + 1 \in 1 .. Len(q) /\ i + 1 # 1
  BY <1>1
<1>3. Tail(q) = <<>> <=> Len(q) = 1
  BY <1>1, EmptySeq
<1>4. x # None
  BY RelayAssumption
<1>5. CASE Head(q).type \in {"join", "msg"}
  <2>1. Head(q).room = x /\ (Head(q).type = "msg" => j = x)
    BY <1>1, <1>2, <1>5 DEF UpOK
  <2>2. l = "down" => Len(q) # 1
    BY <1>1, <1>5 DEF UpOK
  <2>3. \A i \in 1 .. Len(q) - 1 :
            /\ q[i + 1].type # "join"
            /\ q[i + 1].type = "msg" => q[i + 1].room = x
            /\ q[i + 1].type = "close" => i = Len(q) - 1 /\ l = "down"
    <3>. TAKE i \in 1 .. Len(q) - 1
    <3>1. i + 1 = Len(q) => i = Len(q) - 1  BY <1>0
    <3>. QED  BY <1>2, <3>1 DEF UpOK
  <2>4. l = "down" => Tail(q)[Len(q) - 1].type = "close"
    <3>. SUFFICES ASSUME l = "down" PROVE Tail(q)[Len(q) - 1].type = "close"  OBVIOUS
    <3>1. Len(q) - 1 \in 1 .. Len(Tail(q)) /\ (Len(q) - 1) + 1 = Len(q)
      BY <1>1, <2>2
    <3>2. Tail(q)[Len(q) - 1] = q[Len(q)]
      BY <1>1, <3>1
    <3>. QED  BY <3>2 DEF UpOK
  <2>5. l # "new"  BY DEF UpOK
  <2>6. UpOK(Tail(q), x, x, l)
    <3>1. \A i \in 1 .. Len(Tail(q)) :
              /\ Tail(q)[i].type # "join"
              /\ Tail(q)[i].type = "msg" => Tail(q)[i].room = x
              /\ Tail(q)[i].type = "close" => i = Len(Tail(q)) /\ l = "down"
      BY <1>1, <2>3
    <3>2. l = "down" => Tail(q)[Len(Tail(q))].type = "close"
      BY <1>1, <2>4
    <3>. QED  BY <1>4, <2>5, <3>1, <3>2 DEF UpOK
  <2>. QED  BY <1>1, <1>3, <1>5, <2>1, <2>2, <2>6
<1>6. CASE Head(q).type = "close"
  <2>1. Len(q) = 1 /\ l = "down"
    BY <1>1, <1>2, <1>6 DEF UpOK
  <2>2. Tail(q) = <<>>
    BY <1>3, <2>1
  <2>3. \A i \in 1 .. Len(<<>>) : FALSE
    OBVIOUS
  <2>4. j \in {None, x}
    BY DEF UpOK
  <2>5. UpOK(Tail(q), x, j, l)
    BY <2>1, <2>2, <2>3, <2>4 DEF UpOK
  <2>. QED  BY <1>1, <1>6, <2>1, <2>2, <2>5
<1>7. Head(q).type \in {"join", "msg", "close"}
  BY HeadTailProperties DEF RelayMessages
<1>. QED  BY <1>5, <1>6, <1>7

-----------------------------------------------------------------------------
(* The steps of the relay *)

\* Two members make a count of two, in whatever order they are counted.
LEMMA Counts ==
    ASSUME NEW S \in SUBSET Clients
    PROVE  /\ Cardinality(S) \in Nat
           /\ \A c, d \in S : c # d => Cardinality(S) >= 2
<1>1. IsFiniteSet(S)
  BY RelayAssumption, FS_Subset
<1>2. Cardinality(S) \in Nat
  BY <1>1, FS_CardinalityType
<1>3. ASSUME NEW c \in S, NEW d \in S, c # d
      PROVE  Cardinality(S) >= 2
  <2>1. IsFiniteSet({c}) /\ Cardinality({c}) = 1
    BY FS_Singleton
  <2>2. Cardinality({c} \cup {d}) = 2
    BY <1>3, <2>1, FS_AddElement
  <2>3. {c} \cup {d} \in SUBSET S  OBVIOUS
  <2>. QED  BY <1>1, <1>2, <2>2, <2>3, FS_Subset
<1>. QED  BY <1>2, <1>3

\* What a client is sent stays in order, and what it was announced is announced.
LEMMA Delivered ==
    ASSUME IInv, NEW d \in Clients, NEW m \in ClientMessages,
           m.type = "msg" => started[d] \/ Announced(toClient[d])
    PROVE  /\ Append(toClient[d], m) \in Seq(ClientMessages)
           /\ Ordered(Append(toClient[d], m), started[d])
           /\ Announced(toClient[d]) \/ Starts(m) => Announced(Append(toClient[d], m))
<1>1. toClient[d] \in Seq(ClientMessages) /\ started[d] \in BOOLEAN
  BY DEF IInv, Shape
<1>. QED  BY <1>1, DownAppend DEF IInv

\* What the relay finds when it handles a message of c.
LEMMA FirstOf ==
    ASSUME IInv, NEW c \in Clients, toRelay[c] # <<>>
    PROVE  LET q == toRelay[c]
               x == room[c]
           IN  /\ x \in Rooms /\ x # None /\ link[c] \in {"up", "down"}
               /\ Tail(q) \in Seq(RelayMessages)
               /\ Head(q).type = "join" =>
                     /\ Head(q).room = x /\ UpOK(Tail(q), x, x, link[c])
                     /\ link[c] = "down" => Tail(q) # <<>>
               /\ Head(q).type = "msg" =>
                     /\ Head(q) \in [type : {"msg"}, room : Rooms, n : Nat]
                     /\ Head(q).room = x /\ joined[c] = x
                     /\ UpOK(Tail(q), x, x, link[c])
                     /\ link[c] = "down" => Tail(q) # <<>>
               /\ Head(q).type = "close" =>
                     Tail(q) = <<>> /\ link[c] = "down" /\ UpOK(Tail(q), x, joined[c], link[c])
<1>1. /\ toRelay[c] \in Seq(RelayMessages) /\ room[c] \in Rooms
      /\ UpOK(toRelay[c], room[c], joined[c], link[c])
      /\ link[c] \in {"new", "up", "down"}
  BY DEF IInv, Shape
<1>2. link[c] # "new" /\ room[c] # None
  BY <1>1, RelayAssumption DEF UpOK
<1>3. Head(toRelay[c]) \in RelayMessages
  BY <1>1, HeadTailProperties
<1>4. Head(toRelay[c]).type = "msg" =>
          Head(toRelay[c]) \in [type : {"msg"}, room : Rooms, n : Nat]
  BY <1>3 DEF RelayMessages
<1>. QED  BY <1>1, <1>2, <1>4, UpTail

\* Nothing of the client's side changes when the relay handles a message.
LEMMA ClientSide ==
    ASSUME IInv, UNCHANGED clientSide,
           toClient' \in [Clients -> Seq(ClientMessages)],
           \A d \in Clients : Ordered(toClient'[d], started[d])
    PROVE  /\ UNCHANGED <<room, link, started, sent, got>>
           /\ \A d \in Clients : Ordered(toClient[d], started[d])'
           /\ StartsBeforePayload'
           /\ \A d \in Clients : (sent[d] > 0 => started[d])'
BY DEF IInv, clientSide, StartsBeforePayload

\* A join makes its client a member, and tells every member of a room of two.
LEMMA JoinStep ==
    ASSUME IInv, NEW c \in Clients, HandleJoin(c)
    PROVE  IInv'
<1> DEFINE x == room[c]
           now == members[x] \cup {c}
           count == Cardinality(now)
<1>1. /\ toRelay[c] # <<>> /\ Head(toRelay[c]).type = "join" /\ Head(toRelay[c]).room = x
      /\ x \in Rooms /\ x # None /\ link[c] \in {"up", "down"}
      /\ Tail(toRelay[c]) \in Seq(RelayMessages)
      /\ UpOK(Tail(toRelay[c]), x, x, link[c])
      /\ link[c] = "down" => Tail(toRelay[c]) # <<>>
  BY FirstOf DEF HandleJoin
<1>2. /\ members' = [y \in Rooms |-> IF y = x THEN now ELSE members[y] \ {c}]
      /\ joined' = [joined EXCEPT ![c] = x]
      /\ toClient' = JoinNotices(c, now)
      /\ toRelay' = [toRelay EXCEPT ![c] = Tail(@)]
      /\ UNCHANGED clientSide
  BY <1>1 DEF HandleJoin, Handled
<1>3. now \in SUBSET Clients /\ count \in Nat /\ (\A d, e \in now : d # e => count >= 2)
  BY <1>1, Counts DEF IInv, Shape
<1>4. \A d \in Clients :
         \E type \in {"joined", "peer_joined"} :
            toClient'[d] = IF d \in now /\ link[d] = "up"
                           THEN Append(toClient[d], Notice(type, count)) ELSE toClient[d]
  BY <1>2 DEF JoinNotices, Send
<1>5. \A type \in {"joined", "peer_joined"} :
         /\ Notice(type, count) \in ClientMessages
         /\ Notice(type, count).type # "msg"
         /\ count >= 2 => Starts(Notice(type, count))
  BY <1>3 DEF Notice, ClientMessages, Starts
<1>6. \A d \in Clients :
         /\ toClient'[d] \in Seq(ClientMessages)
         /\ Ordered(toClient'[d], started[d])
         /\ Announced(toClient[d]) => Announced(toClient'[d])
         /\ d \in now /\ link[d] = "up" /\ count >= 2 => Announced(toClient'[d])
  <2>. TAKE d \in Clients
  <2>1. PICK type \in {"joined", "peer_joined"} :
            toClient'[d] = IF d \in now /\ link[d] = "up"
                           THEN Append(toClient[d], Notice(type, count)) ELSE toClient[d]
    BY <1>4
  <2>2. CASE d \in now /\ link[d] = "up"
    BY <1>5, <2>1, <2>2, Delivered
  <2>3. CASE ~(d \in now /\ link[d] = "up")
    BY <2>1, <2>3 DEF IInv, Shape
  <2>. QED  BY <2>2, <2>3
<1>. HIDE DEF count
<1>7. toClient' \in [Clients -> Seq(ClientMessages)]
  BY <1>2, <1>6 DEF JoinNotices
<1>8. /\ UNCHANGED <<room, link, started, sent, got>>
      /\ \A d \in Clients : Ordered(toClient[d], started[d])'
      /\ StartsBeforePayload'
      /\ \A d \in Clients : (sent[d] > 0 => started[d])'
  BY <1>2, <1>6, <1>7, ClientSide
<1>9. Shape'
  BY <1>1, <1>2, <1>3, <1>7, <1>8 DEF IInv, Shape
<1>10. \A d \in Clients : UpOK(toRelay[d], room[d], joined[d], link[d])'
  <2>. TAKE d \in Clients
  <2>1. CASE d = c
    BY <1>1, <1>2, <1>8, <2>1 DEF IInv, Shape
  <2>2. CASE d # c
    BY <1>2, <1>8, <2>2 DEF IInv, Shape
  <2>. QED  BY <2>1, <2>2
<1>11. Membership'
  <2>. SUFFICES ASSUME NEW d \in Clients, NEW y \in Rooms
                PROVE  d \in members'[y] <=>
                          joined'[d] = y /\ (link'[d] = "up" \/ toRelay'[d] # <<>>)
    BY DEF Membership
  <2>1. CASE d = c
    BY <1>1, <1>2, <1>8, <2>1 DEF IInv, Shape
  <2>2. CASE d # c
    BY <1>2, <1>8, <2>2 DEF IInv, Shape, Membership
  <2>. QED  BY <2>1, <2>2
<1>12. Told'
  <2>. SUFFICES ASSUME NEW y \in Rooms, NEW d \in members'[y], NEW e \in members'[y],
                       d # e, link[d] = "up"
                PROVE  started[d] \/ Announced(toClient'[d])
    BY <1>8 DEF Told
  <2>1. CASE y = x
    <3>1. d \in now /\ e \in now  BY <1>2, <2>1
    <3>. QED  BY <1>3, <1>6, <3>1
  <2>2. CASE y # x
    <3>1. d \in members[y] /\ e \in members[y] /\ d \in Clients
      BY <1>2, <2>2 DEF IInv, Shape
    <3>. QED  BY <1>6, <3>1 DEF IInv, Told
  <2>. QED  BY <2>1, <2>2
<1>. QED  BY <1>8, <1>9, <1>10, <1>11, <1>12 DEF IInv

\* A payload comes from a member, so its receivers have been told of each other.
LEMMA MsgStep ==
    ASSUME IInv, NEW c \in Clients, HandleMsg(c)
    PROVE  IInv'
<1> DEFINE x == room[c]
           m == Forwarded(c, Head(toRelay[c]).n)
<1>1. /\ toRelay[c] # <<>> /\ Head(toRelay[c]).type = "msg" /\ Head(toRelay[c]).room = x
      /\ Head(toRelay[c]) \in [type : {"msg"}, room : Rooms, n : Nat]
      /\ x \in Rooms /\ joined[c] = x /\ link[c] \in {"up", "down"}
      /\ Tail(toRelay[c]) \in Seq(RelayMessages)
      /\ UpOK(Tail(toRelay[c]), x, x, link[c])
      /\ link[c] = "down" => Tail(toRelay[c]) # <<>>
  BY FirstOf DEF HandleMsg
<1>2. /\ toClient' = Send(members[x] \ {c}, m)
      /\ toRelay' = [toRelay EXCEPT ![c] = Tail(@)]
      /\ UNCHANGED <<clientSide, members, joined>>
  BY <1>1 DEF HandleMsg, Handled, Receivers
<1>3. m \in ClientMessages
  BY <1>1 DEF Forwarded, ClientMessages
<1>4. c \in members[x]
  BY <1>1 DEF IInv, Membership
<1>5. \A d \in Clients : d \in members[x] \ {c} /\ link[d] = "up" =>
          started[d] \/ Announced(toClient[d])
  BY <1>1, <1>4 DEF IInv, Told
<1>. HIDE DEF m
<1>6. \A d \in Clients :
         /\ toClient'[d] \in Seq(ClientMessages)
         /\ Ordered(toClient'[d], started[d])
         /\ Announced(toClient[d]) => Announced(toClient'[d])
  <2>. TAKE d \in Clients
  <2>1. CASE d \in members[x] \ {c} /\ link[d] = "up"
    <3>1. toClient'[d] = Append(toClient[d], m)
      BY <1>2, <2>1 DEF Send
    <3>. QED  BY <1>3, <1>5, <2>1, <3>1, Delivered
  <2>2. CASE ~(d \in members[x] \ {c} /\ link[d] = "up")
    <3>1. toClient'[d] = toClient[d]
      BY <1>2, <2>2 DEF Send
    <3>. QED  BY <3>1 DEF IInv, Shape
  <2>. QED  BY <2>1, <2>2
<1>7. toClient' \in [Clients -> Seq(ClientMessages)]
  BY <1>2, <1>6 DEF Send
<1>8. /\ UNCHANGED <<room, link, started, sent, got>>
      /\ \A d \in Clients : Ordered(toClient[d], started[d])'
      /\ StartsBeforePayload'
      /\ \A d \in Clients : (sent[d] > 0 => started[d])'
  BY <1>2, <1>6, <1>7, ClientSide
<1>9. Shape'
  BY <1>1, <1>2, <1>7, <1>8 DEF IInv, Shape
<1>10. \A d \in Clients : UpOK(toRelay[d], room[d], joined[d], link[d])'
  <2>. TAKE d \in Clients
  <2>1. CASE d = c
    BY <1>1, <1>2, <1>8, <2>1 DEF IInv, Shape
  <2>2. CASE d # c
    BY <1>2, <1>8, <2>2 DEF IInv, Shape
  <2>. QED  BY <2>1, <2>2
<1>11. Membership'
  <2>. SUFFICES ASSUME NEW d \in Clients, NEW y \in Rooms
                PROVE  d \in members'[y] <=>
                          joined'[d] = y /\ (link'[d] = "up" \/ toRelay'[d] # <<>>)
    BY DEF Membership
  <2>1. CASE d = c
    BY <1>1, <1>2, <1>8, <2>1 DEF IInv, Shape, Membership
  <2>2. CASE d # c
    BY <1>2, <1>8, <2>2 DEF IInv, Shape, Membership
  <2>. QED  BY <2>1, <2>2
<1>12. Told'
  BY <1>2, <1>6, <1>8 DEF IInv, Shape, Told
<1>. QED  BY <1>8, <1>9, <1>10, <1>11, <1>12 DEF IInv

\* A close is the last message of its client, which then is in no room.
LEMMA CloseStep ==
    ASSUME IInv, NEW c \in Clients, HandleClose(c)
    PROVE  IInv'
<1>1. /\ toRelay[c] # <<>> /\ Head(toRelay[c]).type = "close"
      /\ Tail(toRelay[c]) = <<>> /\ Tail(toRelay[c]) \in Seq(RelayMessages)
      /\ link[c] = "down" /\ UpOK(Tail(toRelay[c]), room[c], joined[c], link[c])
  BY FirstOf DEF HandleClose
<1>2. /\ members' = Left(c)
      /\ toRelay' = [toRelay EXCEPT ![c] = Tail(@)]
      /\ UNCHANGED <<clientSide, toClient, joined>>
  BY DEF HandleClose, Handled
<1>3. /\ members' \in [Rooms -> SUBSET Clients]
      /\ \A y \in Rooms : members'[y] = members[y] \ {c}
  <2>1. CASE joined[c] = None
    <3>1. \A y \in Rooms : c \notin members[y]
      BY <2>1, RelayAssumption DEF IInv, Membership
    <3>. QED  BY <1>2, <2>1, <3>1 DEF Left, IInv, Shape
  <2>2. CASE joined[c] # None
    <3>1. \A y \in Rooms : y # joined[c] => c \notin members[y]
      BY DEF IInv, Membership
    <3>. QED  BY <1>2, <2>2, <3>1 DEF Left, IInv, Shape
  <2>. QED  BY <2>1, <2>2
<1>8. /\ UNCHANGED <<room, link, started, sent, got>>
      /\ \A d \in Clients : Ordered(toClient[d], started[d])'
      /\ StartsBeforePayload'
      /\ \A d \in Clients : (sent[d] > 0 => started[d])'
  BY <1>2, ClientSide DEF IInv, Shape
<1>9. Shape'
  BY <1>1, <1>2, <1>3, <1>8 DEF IInv, Shape
<1>10. \A d \in Clients : UpOK(toRelay[d], room[d], joined[d], link[d])'
  <2>. TAKE d \in Clients
  <2>1. CASE d = c
    BY <1>1, <1>2, <1>8, <2>1 DEF IInv, Shape
  <2>2. CASE d # c
    BY <1>2, <1>8, <2>2 DEF IInv, Shape
  <2>. QED  BY <2>1, <2>2
<1>11. Membership'
  <2>. SUFFICES ASSUME NEW d \in Clients, NEW y \in Rooms
                PROVE  d \in members'[y] <=>
                          joined'[d] = y /\ (link'[d] = "up" \/ toRelay'[d] # <<>>)
    BY DEF Membership
  <2>1. CASE d = c
    BY <1>1, <1>2, <1>3, <1>8, <2>1 DEF IInv, Shape
  <2>2. CASE d # c
    BY <1>2, <1>3, <1>8, <2>2 DEF IInv, Shape, Membership
  <2>. QED  BY <2>1, <2>2
<1>12. Told'
  BY <1>2, <1>3, <1>8 DEF IInv, Told
<1>. QED  BY <1>8, <1>9, <1>10, <1>11, <1>12 DEF IInv

-----------------------------------------------------------------------------
(* The steps of a client *)

\* A client that connects is in no room yet.
LEMMA ConnectStep ==
    ASSUME IInv, NEW c \in Clients, Connect(c)
    PROVE  IInv'
<1>1. /\ link[c] = "new" /\ toRelay[c] = <<>> /\ joined[c] = None
      /\ room[c] \in Rooms /\ room[c] # None
  BY RelayAssumption DEF Connect, IInv, Shape, UpOK
<1>2. /\ link' = [link EXCEPT ![c] = "up"]
      /\ toRelay' = [toRelay EXCEPT ![c] = <<Join(room[c])>>]
      /\ UNCHANGED <<room, toClient, members, joined, started, sent, got>>
  BY DEF Connect
<1>3. /\ Join(room[c]) \in RelayMessages /\ Join(room[c]).type = "join"
      /\ Join(room[c]).room = room[c]
  BY <1>1 DEF Join, RelayMessages
<1>4. <<Join(room[c])>> \in Seq(RelayMessages) /\ <<Join(room[c])>> # <<>>
  BY <1>3
<1>5. UpOK(<<Join(room[c])>>, room[c], None, "up")
  <2>1. \A i \in 1 .. Len(<<Join(room[c])>>) : i = 1 /\ <<Join(room[c])>>[i] = Join(room[c])
    OBVIOUS
  <2>. QED  BY <1>3, <1>4, <2>1 DEF UpOK
<1>6. Shape'
  BY <1>2, <1>4 DEF IInv, Shape
<1>7. \A d \in Clients : UpOK(toRelay[d], room[d], joined[d], link[d])'
  <2>. TAKE d \in Clients
  <2>1. CASE d = c
    BY <1>1, <1>2, <1>5, <2>1 DEF IInv, Shape
  <2>2. CASE d # c
    BY <1>2, <2>2 DEF IInv, Shape
  <2>. QED  BY <2>1, <2>2
<1>8. \A y \in Rooms : c \notin members[y]
  BY <1>1, RelayAssumption DEF IInv, Membership
<1>9. Membership'
  <2>. SUFFICES ASSUME NEW d \in Clients, NEW y \in Rooms
                PROVE  d \in members'[y] <=>
                          joined'[d] = y /\ (link'[d] = "up" \/ toRelay'[d] # <<>>)
    BY DEF Membership
  <2>1. CASE d = c
    BY <1>1, <1>2, <1>8, <2>1, RelayAssumption DEF IInv, Shape
  <2>2. CASE d # c
    BY <1>2, <2>2 DEF IInv, Shape, Membership
  <2>. QED  BY <2>1, <2>2
<1>10. Told'
  <2>. SUFFICES ASSUME NEW y \in Rooms, NEW d \in members[y], NEW e \in members[y],
                       d # e, link'[d] = "up"
                PROVE  started[d] \/ Announced(toClient[d])
    BY <1>2 DEF Told
  <2>1. d # c /\ d \in Clients  BY <1>8 DEF IInv, Shape
  <2>2. link[d] = "up"  BY <1>2, <2>1 DEF IInv, Shape
  <2>. QED  BY <2>2 DEF IInv, Told
<1>. QED
  BY <1>2, <1>6, <1>7, <1>9, <1>10 DEF IInv, StartsBeforePayload

\* A client that is connected sends one more payload; its queue is all that the
\* invariant asks about.
LEMMA Sends ==
    ASSUME IInv, NEW c \in Clients, link[c] = "up"
    PROVE  /\ Queued(c) \in Seq(RelayMessages) /\ Queued(c) # <<>>
           /\ UpOK(Queued(c), room[c], joined[c], "up")
<1>1. /\ toRelay[c] \in Seq(RelayMessages) /\ room[c] \in Rooms /\ sent[c] + 1 \in Nat
      /\ UpOK(toRelay[c], room[c], joined[c], "up")
  BY RelayAssumption DEF IInv, Shape
<1>2. /\ Queued(c) \in Seq(RelayMessages)
      /\ UpOK(Queued(c), room[c], joined[c], "up")
  BY <1>1, UpAppend DEF Queued
<1>3. Queued(c) # <<>>
  <2>1. Payload(room[c], sent[c] + 1) \in RelayMessages
    BY <1>1 DEF Payload, RelayMessages
  <2>. QED  BY <1>1, <2>1, AppendProperties DEF Queued
<1>. QED  BY <1>2, <1>3

\* The relay's side of the invariant, when c's queue to it grew or not.
LEMMA RelaySide ==
    ASSUME IInv, NEW c \in Clients, link[c] = "up",
           UNCHANGED <<room, link, members, joined>>,
           UNCHANGED toRelay \/ toRelay' = [toRelay EXCEPT ![c] = Queued(c)]
    PROVE  /\ toRelay' \in [Clients -> Seq(RelayMessages)]
           /\ \A d \in Clients : UpOK(toRelay[d], room[d], joined[d], link[d])'
           /\ Membership'
<1>1. CASE UNCHANGED toRelay
  BY <1>1 DEF IInv, Shape, Membership
<1>2. CASE toRelay' = [toRelay EXCEPT ![c] = Queued(c)]
  <2>1. toRelay' \in [Clients -> Seq(RelayMessages)]
    BY <1>2, Sends DEF IInv, Shape
  <2>2. \A d \in Clients : UpOK(toRelay[d], room[d], joined[d], link[d])'
    <3>. TAKE d \in Clients
    <3>1. CASE d = c
      BY <1>2, <3>1, Sends DEF IInv, Shape
    <3>2. CASE d # c
      BY <1>2, <3>2 DEF IInv, Shape
    <3>. QED  BY <3>1, <3>2
  <2>3. \A d \in Clients : link[d] = "up" \/ toRelay'[d] # <<>> <=>
                           link[d] = "up" \/ toRelay[d] # <<>>
    BY <1>2 DEF IInv, Shape
  <2>. QED  BY <2>1, <2>2, <2>3 DEF IInv, Membership
<1>. QED  BY <1>1, <1>2

\* A notice with a count of two leaves its client started.
LEMMA NoticeStep ==
    ASSUME IInv, NEW c \in Clients, ReceiveNotice(c)
    PROVE  IInv'
<1> DEFINE m == Head(toClient[c])
<1>1. /\ link[c] = "up" /\ toClient[c] # <<>> /\ m.type \in {"joined", "peer_joined"}
      /\ toClient' = [toClient EXCEPT ![c] = Tail(@)]
      /\ UNCHANGED <<room, link, members, joined, got>>
  BY DEF ReceiveNotice
<1>2. \/ /\ MustStart(c, m)
         /\ started' = [started EXCEPT ![c] = TRUE]
         /\ sent' = [sent EXCEPT ![c] = @ + 1]
         /\ toRelay' = [toRelay EXCEPT ![c] = Queued(c)]
      \/ ~MustStart(c, m) /\ UNCHANGED <<started, sent, toRelay>>
  BY DEF ReceiveNotice
<1>3. /\ started' \in [Clients -> BOOLEAN]
      /\ \A d \in Clients : d # c => started'[d] = started[d]
      /\ started[c] \/ Starts(m) => started'[c]
  BY <1>1, <1>2 DEF IInv, Shape, MustStart, Starts
<1>4. /\ sent' \in [Clients -> 0 .. MaxPayloads]
      /\ \A d \in Clients : sent'[d] > 0 => started'[d]
  <2>1. CASE MustStart(c, m)
    <3>1. sent[c] = 0
      BY <2>1 DEF MustStart, IInv, Shape
    <3>2. 0 + 1 \in 0 .. MaxPayloads
      BY RelayAssumption
    <3>3. /\ sent' = [sent EXCEPT ![c] = 0 + 1]
          /\ started' = [started EXCEPT ![c] = TRUE]
      BY <1>2, <2>1, <3>1
    <3>4. sent' \in [Clients -> 0 .. MaxPayloads]
      BY <3>2, <3>3 DEF IInv, Shape
    <3>5. ASSUME NEW d \in Clients, sent'[d] > 0  PROVE started'[d]
      <4>1. CASE d = c
        BY <3>3, <4>1 DEF IInv, Shape
      <4>2. CASE d # c
        BY <3>3, <3>5, <4>2 DEF IInv, Shape
      <4>. QED  BY <4>1, <4>2
    <3>. QED  BY <3>4, <3>5
  <2>2. CASE ~MustStart(c, m)
    BY <1>2, <2>2 DEF IInv, Shape
  <2>. QED  BY <2>1, <2>2
<1>5. /\ Tail(toClient[c]) \in Seq(ClientMessages)
      /\ Ordered(Tail(toClient[c]), started'[c])
      /\ Announced(toClient[c]) => started'[c] \/ Announced(Tail(toClient[c]))
  <2>1. /\ toClient[c] \in Seq(ClientMessages) /\ started[c] \in BOOLEAN
        /\ started'[c] \in BOOLEAN /\ Ordered(toClient[c], started[c])
    BY <1>3 DEF IInv, Shape
  <2>. QED  BY <1>1, <1>3, <2>1, DownTail
<1>. HIDE DEF m
<1>6. /\ toRelay' \in [Clients -> Seq(RelayMessages)]
      /\ \A d \in Clients : UpOK(toRelay[d], room[d], joined[d], link[d])'
      /\ Membership'
  BY <1>1, <1>2, RelaySide
<1>7. Shape'
  BY <1>1, <1>3, <1>4, <1>5, <1>6 DEF IInv, Shape
<1>8. \A d \in Clients : Ordered(toClient[d], started[d])'
  <2>. TAKE d \in Clients
  <2>1. CASE d = c
    BY <1>1, <1>5, <2>1 DEF IInv, Shape
  <2>2. CASE d # c
    BY <1>1, <1>3, <2>2 DEF IInv, Shape
  <2>. QED  BY <2>1, <2>2
<1>9. Told'
  <2>. SUFFICES ASSUME NEW y \in Rooms, NEW d \in members[y], NEW e \in members[y],
                       d # e, link[d] = "up"
                PROVE  started'[d] \/ Announced(toClient'[d])
    BY <1>1 DEF Told
  <2>1. d \in Clients /\ (started[d] \/ Announced(toClient[d]))
    BY DEF IInv, Shape, Told
  <2>2. CASE d = c
    BY <1>1, <1>3, <1>5, <2>1, <2>2 DEF IInv, Shape
  <2>3. CASE d # c
    BY <1>1, <1>3, <2>1, <2>3 DEF IInv, Shape
  <2>. QED  BY <2>2, <2>3
<1>10. StartsBeforePayload'
  BY <1>1, <1>3 DEF IInv, StartsBeforePayload
<1>. QED  BY <1>4, <1>6, <1>7, <1>8, <1>9, <1>10 DEF IInv

\* The oldest message is a payload only for a client that has started.
LEMMA PayloadStep ==
    ASSUME IInv, NEW c \in Clients, ReceivePayload(c)
    PROVE  IInv'
<1> DEFINE m == Head(toClient[c])
<1>1. /\ link[c] = "up" /\ toClient[c] # <<>> /\ m.type = "msg"
      /\ toClient' = [toClient EXCEPT ![c] = Tail(@)]
      /\ got' = [got EXCEPT ![c][m.from] = Append(@, m.n)]
      /\ UNCHANGED <<room, link, toRelay, members, joined, started, sent>>
  BY DEF ReceivePayload
<1>2. /\ Tail(toClient[c]) \in Seq(ClientMessages)
      /\ Ordered(Tail(toClient[c]), started[c])
      /\ Announced(toClient[c]) => started[c] \/ Announced(Tail(toClient[c]))
      /\ started[c]
  <2>1. /\ toClient[c] \in Seq(ClientMessages) /\ started[c] \in BOOLEAN
        /\ Ordered(toClient[c], started[c])
    BY DEF IInv, Shape
  <2>2. ~Starts(m)  BY <1>1 DEF Starts
  <2>. QED  BY <1>1, <2>1, <2>2, DownTail
<1>3. m.from \in Clients /\ m.n \in Nat
  <2>1. m \in ClientMessages
    BY <1>1, HeadTailProperties DEF IInv, Shape
  <2>. QED  BY <1>1, <2>1 DEF ClientMessages
<1>. HIDE DEF m
<1>4. /\ got' \in [Clients -> [Clients -> Seq(Nat)]]
      /\ \A d, e \in Clients : d # c => got'[d][e] = got[d][e]
  <2>1. got[c] \in [Clients -> Seq(Nat)] /\ got[c][m.from] \in Seq(Nat)
    BY <1>3 DEF IInv, Shape
  <2>2. Append(got[c][m.from], m.n) \in Seq(Nat)
    BY <1>3, <2>1, AppendProperties
  <2>. QED  BY <1>1, <1>3, <2>1, <2>2 DEF IInv, Shape
<1>5. Shape'
  BY <1>1, <1>2, <1>4 DEF IInv, Shape
<1>6. \A d \in Clients : Ordered(toClient[d], started[d])'
  <2>. TAKE d \in Clients
  <2>1. CASE d = c
    BY <1>1, <1>2, <2>1 DEF IInv, Shape
  <2>2. CASE d # c
    BY <1>1, <2>2 DEF IInv, Shape
  <2>. QED  BY <2>1, <2>2
<1>7. Told'
  <2>. SUFFICES ASSUME NEW y \in Rooms, NEW d \in members[y], NEW e \in members[y],
                       d # e, link[d] = "up"
                PROVE  started[d] \/ Announced(toClient'[d])
    BY <1>1 DEF Told
  <2>1. CASE d = c
    BY <1>2, <2>1
  <2>2. CASE d # c
    BY <1>1, <2>2 DEF IInv, Shape, Told
  <2>. QED  BY <2>1, <2>2
<1>8. StartsBeforePayload'
  BY <1>1, <1>2, <1>4 DEF IInv, StartsBeforePayload
<1>9. Membership' /\ \A d \in Clients : UpOK(toRelay[d], room[d], joined[d], link[d])'
  BY <1>1 DEF IInv, Membership
<1>. QED  BY <1>1, <1>5, <1>6, <1>7, <1>8, <1>9 DEF IInv

\* A client that has heard the other has started.
LEMMA SendStep ==
    ASSUME IInv, NEW c \in Clients, SendPayload(c)
    PROVE  IInv'
<1>1. /\ link[c] = "up" /\ sent[c] < MaxPayloads /\ started[c]
      /\ sent' = [sent EXCEPT ![c] = @ + 1]
      /\ toRelay' = [toRelay EXCEPT ![c] = Queued(c)]
      /\ UNCHANGED <<room, link, toClient, members, joined, started, got>>
  BY DEF SendPayload, IInv, StartsBeforePayload
<1>2. /\ toRelay' \in [Clients -> Seq(RelayMessages)]
      /\ \A d \in Clients : UpOK(toRelay[d], room[d], joined[d], link[d])'
      /\ Membership'
  BY <1>1, RelaySide
<1>3. /\ sent' \in [Clients -> 0 .. MaxPayloads]
      /\ \A d \in Clients : sent'[d] > 0 => started[d]
  BY <1>1, RelayAssumption DEF IInv, Shape
<1>4. Shape'
  BY <1>1, <1>2, <1>3 DEF IInv, Shape
<1>. QED  BY <1>1, <1>2, <1>3, <1>4 DEF IInv, Told, StartsBeforePayload

\* A client that goes down stays a member until its close is handled.
LEMMA DisconnectStep ==
    ASSUME IInv, NEW c \in Clients, Disconnect(c)
    PROVE  IInv'
<1>1. PICK n \in 0 .. Len(toRelay[c]) :
          toRelay' = [toRelay EXCEPT ![c] = Append(SubSeq(@, 1, n), Close)]
  BY DEF Disconnect
<1> DEFINE p == Append(SubSeq(toRelay[c], 1, n), Close)
<1>2. /\ link[c] = "up" /\ link' = [link EXCEPT ![c] = "down"]
      /\ toClient' = [toClient EXCEPT ![c] = <<>>]
      /\ UNCHANGED <<room, members, joined, started, sent, got>>
  BY DEF Disconnect
<1>3. p \in Seq(RelayMessages) /\ p # <<>> /\ UpOK(p, room[c], joined[c], "down")
  <2>1. /\ toRelay[c] \in Seq(RelayMessages) /\ room[c] \in Rooms
        /\ UpOK(toRelay[c], room[c], joined[c], "up")
    BY <1>2 DEF IInv, Shape
  <2>. QED  BY <2>1, UpClose
<1>4. toRelay' = [toRelay EXCEPT ![c] = p]
  BY <1>1
<1>. HIDE DEF p
<1>5. Shape'
  <2>1. <<>> \in Seq(ClientMessages)  OBVIOUS
  <2>. QED  BY <1>2, <1>3, <1>4, <2>1 DEF IInv, Shape
<1>6. \A d \in Clients : UpOK(toRelay[d], room[d], joined[d], link[d])'
  <2>. TAKE d \in Clients
  <2>1. CASE d = c
    BY <1>2, <1>3, <1>4, <2>1 DEF IInv, Shape
  <2>2. CASE d # c
    BY <1>2, <1>4, <2>2 DEF IInv, Shape
  <2>. QED  BY <2>1, <2>2
<1>7. Membership'
  <2>1. \A d \in Clients : link'[d] = "up" \/ toRelay'[d] # <<>> <=>
                           link[d] = "up" \/ toRelay[d] # <<>>
    BY <1>2, <1>3, <1>4 DEF IInv, Shape
  <2>. QED  BY <1>2, <2>1 DEF IInv, Membership
<1>8. \A d \in Clients : Ordered(toClient[d], started[d])'
  <2>. TAKE d \in Clients
  <2>1. CASE d = c
    <3>1. \A i \in 1 .. Len(<<>>) : FALSE  OBVIOUS
    <3>2. Ordered(<<>>, started[c])  BY <3>1 DEF Ordered
    <3>. QED  BY <1>2, <2>1, <3>2 DEF IInv, Shape
  <2>2. CASE d # c
    BY <1>2, <2>2 DEF IInv, Shape
  <2>. QED  BY <2>1, <2>2
<1>9. Told'
  <2>. SUFFICES ASSUME NEW y \in Rooms, NEW d \in members[y], NEW e \in members[y],
                       d # e, link'[d] = "up"
                PROVE  started[d] \/ Announced(toClient'[d])
    BY <1>2 DEF Told
  <2>1. d \in Clients  BY DEF IInv, Shape
  <2>2. d # c /\ link[d] = "up" /\ toClient'[d] = toClient[d]
    BY <1>2, <2>1 DEF IInv, Shape
  <2>. QED  BY <2>2 DEF IInv, Told
<1>. QED
  BY <1>2, <1>5, <1>6, <1>7, <1>8, <1>9 DEF IInv, StartsBeforePayload

-----------------------------------------------------------------------------
(* Unbroken runs *)

\* 1 if a join is still at the head of a queue to the relay.
Joins(q) == IF q # <<>> /\ q[1].type = "join" THEN 1 ELSE 0

\* A queue q to the relay, of a client whose link is l and that has sent s
\* payloads, goes on from number e: the payload at a place has the number the
\* place gives it, and unless the client is gone the queue ends with the last.
Line(q, e, l, s) ==
    /\ e \in Nat /\ e <= s
    /\ \A i \in 1 .. Len(q) : q[i].type = "msg" => q[i].n = e + i - Joins(q)
    /\ l = "new" => e = s
    /\ l = "up" => s = e + Len(q) - Joins(q)
    /\ l = "down" /\ q # <<>> => e + Len(q) - 1 - Joins(q) <= s

\* What c has handled of d's payloads, what the relay has sent it and what the
\* relay has not handled follow on each other.
Chain(c, d) ==
    \E a, b, e \in Nat :
        /\ a <= b /\ b <= e
        /\ got[c][d] = [i \in 1 .. b - a |-> a + i]
        /\ Run(toClient[c], Own(toClient[c], d), b, e)
        /\ Line(toRelay[d], e, link[d], sent[d])

Nothing(c, d) == got[c][d] = <<>> /\ Own(toClient[c], d) = {}

Chains ==
    \A c, d \in Clients :
        link[c] # "down" =>
            IF c # d /\ room[c] = room[d] THEN Chain(c, d) ELSE Nothing(c, d)

\* Who has not joined has been sent nothing.
Newcomers ==
    \A c \in Clients :
        joined[c] = None => toClient[c] = <<>> /\ \A d \in Clients : got[c][d] = <<>>

\* The strengthening of UnbrokenPerPeer: the numbers a queue to the relay still
\* holds follow from their places, so a part of it is a run as well.
RInv == IInv /\ Chains /\ Newcomers

\* A payload more.
LEMMA LineAppend ==
    ASSUME NEW q \in Seq(RelayMessages), NEW x \in Rooms, NEW j, UpOK(q, x, j, "up"),
           NEW e, NEW s \in Nat, Line(q, e, "up", s)
    PROVE  Line(Append(q, Payload(x, s + 1)), e, "up", s + 1)
<1> DEFINE m == Payload(x, s + 1)
           p == Append(q, m)
<1>1. m \in RelayMessages /\ m.type = "msg" /\ m.n = s + 1
  BY DEF Payload, RelayMessages
<1>. HIDE DEF m
<1>2. /\ Len(p) = Len(q) + 1 /\ Len(q) \in Nat /\ p # <<>>
      /\ \A i \in 1 .. Len(q) : p[i] = q[i]
      /\ p[Len(q) + 1] = m
  BY <1>1, AppendProperties, LenProperties
<1>3. q # <<>> => 1 \in 1 .. Len(q)
  BY <1>2, EmptySeq
<1>4. q = <<>> => p[1] = m
  BY <1>2
<1>5. Joins(p) = Joins(q) /\ Joins(q) \in {0, 1}
  BY <1>1, <1>2, <1>3, <1>4 DEF Joins
<1>. HIDE DEF p
<1>6. ASSUME NEW i \in 1 .. Len(p), p[i].type = "msg"
      PROVE  p[i].n = e + i - Joins(p)
  <2>1. CASE i \in 1 .. Len(q)
    BY <1>2, <1>5, <1>6, <2>1 DEF Line
  <2>2. CASE i = Len(q) + 1
    BY <1>1, <1>2, <1>5, <2>2 DEF Line
  <2>. QED  BY <1>2, <2>1, <2>2
<1>7. e \in Nat /\ e <= s /\ s = e + Len(q) - Joins(q)
  BY DEF Line
<1>8. e <= s + 1 /\ s + 1 = e + Len(p) - Joins(p)
  BY <1>2, <1>5, <1>7
<1>9. Line(p, e, "up", s + 1)
  BY <1>6, <1>7, <1>8 DEF Line
<1>. QED  BY <1>9 DEF p, m

\* A part of the queue, and the close.
LEMMA LineClose ==
    ASSUME NEW q \in Seq(RelayMessages), NEW e, NEW s \in Nat, Line(q, e, "up", s),
           NEW n \in 0 .. Len(q)
    PROVE  Line(Append(SubSeq(q, 1, n), Close), e, "down", s)
<1> DEFINE t == SubSeq(q, 1, n)
           p == Append(t, Close)
<1>1. Close \in RelayMessages /\ Close.type = "close"
  BY DEF Close, RelayMessages
<1>2. Len(q) \in Nat /\ n \in Nat /\ \A i \in 1 .. n : i \in 1 .. Len(q) /\ q[i] \in RelayMessages
  BY LenProperties, ElementOfSeq
<1>3. t \in Seq(RelayMessages) /\ Len(t) = n /\ \A i \in 1 .. n : t[i] = q[i]
  BY <1>2, SubSeqProperties
<1>4. /\ p # <<>> /\ Len(p) = n + 1
      /\ \A i \in 1 .. n : p[i] = q[i]
      /\ p[n + 1] = Close
  <2>. HIDE DEF t
  <2>. QED  BY <1>1, <1>2, <1>3, AppendProperties
<1>5. Joins(q) \in {0, 1}
  BY DEF Joins
<1>. HIDE DEF p, t
<1>6. CASE n = 0
  <2>1. p[1].type = "close" /\ Len(p) = 1
    BY <1>1, <1>4, <1>6
  <2>2. Joins(p) = 0
    BY <2>1 DEF Joins
  <2>3. \A i \in 1 .. Len(p) : p[i].type # "msg"
    BY <2>1
  <2>. QED  BY <1>4, <2>1, <2>2, <2>3 DEF Line, p, t
<1>7. CASE n # 0
  <2>1. 1 \in 1 .. n /\ q # <<>>
    BY <1>2, <1>7, EmptySeq
  <2>2. Joins(p) = Joins(q)
    BY <1>4, <2>1 DEF Joins
  <2>3. ASSUME NEW i \in 1 .. Len(p), p[i].type = "msg"
        PROVE  p[i].n = e + i - Joins(p)
    <3>1. i # n + 1
      BY <1>1, <1>4, <2>3
    <3>2. i \in 1 .. n /\ i \in 1 .. Len(q)
      BY <1>2, <1>4, <3>1
    <3>. QED  BY <1>4, <2>2, <2>3, <3>2 DEF Line
  <2>4. e + Len(p) - 1 - Joins(p) <= s
    BY <1>2, <1>4, <1>5, <2>2 DEF Line
  <2>. QED  BY <2>3, <2>4 DEF Line, p, t
<1>. QED  BY <1>6, <1>7

\* The relay takes the oldest message: a payload is the number after e.
LEMMA LineTail ==
    ASSUME NEW q \in Seq(RelayMessages), q # <<>>, NEW x \in Rooms, NEW j,
           NEW l \in {"up", "down"}, UpOK(q, x, j, l),
           NEW e, NEW s \in Nat, Line(q, e, l, s)
    PROVE  /\ Head(q).type # "msg" => Line(Tail(q), e, l, s)
           /\ Head(q).type = "msg" => Head(q).n = e + 1 /\ Line(Tail(q), e + 1, l, s)
<1> DEFINE t == Tail(q)
<1>1. /\ Head(q) = q[1]
      /\ Len(q) \in Nat \ {0} /\ Len(t) = Len(q) - 1
      /\ \A i \in 1 .. Len(t) : t[i] = q[i + 1]
      /\ t \in Seq(RelayMessages)
  BY HeadTailProperties, LenProperties
<1>0. t = <<>> <=> Len(q) = 1
  BY <1>1, EmptySeq
<1>2. \A i \in 1 .. Len(q) - 1 : i + 1 \in 1 .. Len(q) /\ i + 1 # 1
  BY <1>1
<1>3. \A i \in 1 .. Len(t) : t[i].type # "join"
  <2>. TAKE i \in 1 .. Len(t)
  <2>1. t[i] = q[i + 1] /\ i + 1 \in 1 .. Len(q) /\ i + 1 # 1
    BY <1>1, <1>2
  <2>. QED  BY <2>1 DEF UpOK
<1>4. Joins(t) = 0
  <2>1. t # <<>> => 1 \in 1 .. Len(t)
    BY <1>0, <1>1
  <2>. QED  BY <1>3, <2>1 DEF Joins
<1>5. Joins(q) = IF Head(q).type = "join" THEN 1 ELSE 0
  BY <1>1 DEF Joins
<1>. HIDE DEF t
<1>6. e \in Nat /\ e <= s
  BY DEF Line
<1>7. \A i \in 1 .. Len(t) : t[i].type = "msg" => t[i].n = e + (i + 1) - Joins(q)
  BY <1>1, <1>2 DEF Line
<1>8. CASE Head(q).type = "join"
  <2>1. Joins(q) = 1
    BY <1>5, <1>8
  <2>2. \A i \in 1 .. Len(t) : t[i].type = "msg" => t[i].n = e + i - Joins(t)
    BY <1>4, <1>6, <1>7, <2>1
  <2>3. l = "up" => s = e + Len(t) - Joins(t)
    BY <1>1, <1>4, <1>6, <2>1 DEF Line
  <2>4. l = "down" => e + Len(t) - 1 - Joins(t) <= s
    BY <1>1, <1>4, <1>6, <2>1 DEF Line
  <2>. QED  BY <1>6, <1>8, <2>2, <2>3, <2>4 DEF Line, t
<1>9. CASE Head(q).type = "msg"
  <2>1. Joins(q) = 0
    BY <1>5, <1>9
  <2>2. Head(q).n = e + 1
    <3>1. 1 \in 1 .. Len(q)
      BY <1>1
    <3>2. q[1].n = e + 1 - Joins(q)
      BY <1>1, <1>9, <3>1 DEF Line
    <3>. QED  BY <1>1, <1>6, <2>1, <3>2
  <2>3. \A i \in 1 .. Len(t) : t[i].type = "msg" => t[i].n = (e + 1) + i - Joins(t)
    BY <1>4, <1>6, <1>7, <2>1
  <2>4. l = "up" => s = (e + 1) + Len(t) - Joins(t)
    BY <1>1, <1>4, <1>6, <2>1 DEF Line
  <2>5. l = "down" => (e + 1) + Len(t) - 1 - Joins(t) <= s
    BY <1>1, <1>4, <1>6, <2>1 DEF Line
  <2>6. l = "down" => Len(q) # 1
    BY <1>1, <1>9 DEF UpOK
  <2>7. e + 1 \in Nat /\ e + 1 <= s
    <3>1. l = "up" => e + 1 <= s
      BY <1>1, <1>4, <1>6, <2>4
    <3>2. l = "down" => e + 1 <= s
      BY <1>1, <1>4, <1>6, <2>5, <2>6
    <3>. QED  BY <1>6, <3>1, <3>2
  <2>8. Line(t, e + 1, l, s)
    BY <2>3, <2>4, <2>5, <2>7 DEF Line
  <2>. QED  BY <1>9, <2>2, <2>8 DEF t
<1>10. CASE Head(q).type = "close"
  <2>1. Len(q) = 1 /\ l = "down"
    BY <1>1, <1>10 DEF UpOK
  <2>2. t = <<>> /\ \A i \in 1 .. Len(t) : FALSE
    BY <1>0, <1>1, <2>1
  <2>. QED  BY <1>6, <1>10, <2>1, <2>2 DEF Line, t
<1>11. Head(q).type \in {"join", "msg", "close"}
  BY HeadTailProperties DEF RelayMessages
<1>. QED  BY <1>8, <1>9, <1>10, <1>11

\* What the relay sends a client: what is not a payload of d leaves d's run as it
\* is, the next payload of d prolongs it.
LEMMA RunAppend ==
    ASSUME NEW q \in Seq(ClientMessages), NEW m \in ClientMessages, NEW d,
           NEW b \in Nat, NEW e \in Nat, b <= e, Run(q, Own(q, d), b, e)
    PROVE  LET p == Append(q, m)
           IN  /\ ~(m.type = "msg" /\ m.from = d) => Run(p, Own(p, d), b, e)
               /\ m.type = "msg" /\ m.from = d /\ m.n = e + 1 => Run(p, Own(p, d), b, e + 1)
<1> DEFINE p == Append(q, m)
<1>1. /\ Len(p) = Len(q) + 1 /\ Len(q) \in Nat
      /\ DOMAIN q = 1 .. Len(q) /\ DOMAIN p = 1 .. Len(q) + 1
      /\ \A i \in 1 .. Len(q) : p[i] = q[i]
      /\ p[Len(q) + 1] = m
  BY AppendProperties, LenProperties
<1>. HIDE DEF p
<1>2. \A i \in Own(q, d) : i \in 1 .. Len(q) /\ p[i] = q[i]
  BY <1>1 DEF Own
<1>3. ASSUME ~(m.type = "msg" /\ m.from = d) PROVE Run(p, Own(p, d), b, e)
  <2>1. Own(p, d) = Own(q, d)
    BY <1>1, <1>3 DEF Own
  <2>. QED  BY <1>2, <2>1 DEF Run
<1>4. ASSUME m.type = "msg", m.from = d, m.n = e + 1 PROVE Run(p, Own(p, d), b, e + 1)
  <2>1. Own(p, d) = Own(q, d) \cup {Len(q) + 1}
    BY <1>1, <1>4 DEF Own
  <2>2. {p[i].n : i \in Own(p, d)} = (b + 1 .. e) \cup {e + 1}
    BY <1>1, <1>2, <1>4, <2>1 DEF Run
  <2>3. (b + 1 .. e) \cup {e + 1} = b + 1 .. e + 1
    OBVIOUS
  <2>4. \A i \in Own(q, d) : q[i].n \in b + 1 .. e
    BY DEF Run
  <2>5. ASSUME NEW i \in Own(p, d), NEW j \in Own(p, d), i < j
        PROVE  p[i].n < p[j].n
    <3>1. i \in Own(q, d)
      BY <1>1, <1>2, <2>1, <2>5
    <3>2. CASE j \in Own(q, d)
      BY <1>2, <2>5, <3>1, <3>2 DEF Run
    <3>3. CASE j = Len(q) + 1
      <4>1. p[j].n = e + 1
        BY <1>1, <1>4, <3>3
      <4>2. p[i].n \in b + 1 .. e
        BY <1>2, <2>4, <3>1
      <4>. QED  BY <4>1, <4>2
    <3>. QED  BY <2>1, <3>2, <3>3
  <2>. QED  BY <2>2, <2>3, <2>5 DEF Run
<1>. QED  BY <1>3, <1>4 DEF p

\* The client takes the oldest: a payload of d is the first of d's run.
LEMMA RunTail ==
    ASSUME NEW q \in Seq(ClientMessages), q # <<>>, NEW d,
           NEW b \in Nat, NEW e \in Nat, b <= e, Run(q, Own(q, d), b, e)
    PROVE  LET m == Head(q)
               t == Tail(q)
           IN  /\ ~(m.type = "msg" /\ m.from = d) => Run(t, Own(t, d), b, e)
               /\ m.type = "msg" /\ m.from = d =>
                     m.n = b + 1 /\ b + 1 <= e /\ Run(t, Own(t, d), b + 1, e)
<1> DEFINE m == Head(q)
           t == Tail(q)
<1>1. /\ m = q[1]
      /\ Len(q) \in Nat \ {0} /\ Len(t) = Len(q) - 1
      /\ DOMAIN q = 1 .. Len(q) /\ DOMAIN t = 1 .. Len(q) - 1
      /\ \A i \in 1 .. Len(q) - 1 : t[i] = q[i + 1]
  BY HeadTailProperties, LenProperties
<1>. HIDE DEF m, t
<1>2. \A i \in Own(t, d) : i + 1 \in Own(q, d) /\ t[i] = q[i + 1] /\ i \in Nat
  BY <1>1 DEF Own
<1>3. \A i \in Own(q, d) : i # 1 => i - 1 \in Own(t, d) /\ t[i - 1] = q[i] /\ i \in Nat
  BY <1>1 DEF Own
<1>4. \A i, j \in Own(t, d) : i < j => t[i].n < t[j].n
  <2>. SUFFICES ASSUME NEW i \in Own(t, d), NEW j \in Own(t, d), i < j
                PROVE  t[i].n < t[j].n
    OBVIOUS
  <2>. QED  BY <1>2 DEF Run
<1>5. ASSUME ~(m.type = "msg" /\ m.from = d) PROVE Run(t, Own(t, d), b, e)
  <2>1. 1 \notin Own(q, d)
    BY <1>1, <1>5 DEF Own
  <2>2. {t[i].n : i \in Own(t, d)} = {q[i].n : i \in Own(q, d)}
    BY <1>2, <1>3, <2>1
  <2>. QED  BY <1>4, <2>2 DEF Run
<1>6. ASSUME m.type = "msg", m.from = d
      PROVE  m.n = b + 1 /\ b + 1 <= e /\ Run(t, Own(t, d), b + 1, e)
  <2>1. 1 \in Own(q, d)
    BY <1>1, <1>6 DEF Own
  <2>2. m.n \in b + 1 .. e
    BY <1>1, <2>1 DEF Run
  <2>3. \A i \in Own(q, d) : i # 1 => m.n < q[i].n
    BY <1>1, <2>1 DEF Run, Own
  <2>4. m.n = b + 1
    <3>1. b + 1 \in b + 1 .. e
      BY <2>2
    <3>2. PICK i \in Own(q, d) : q[i].n = b + 1
      BY <3>1 DEF Run
    <3>. QED  BY <1>1, <2>2, <2>3, <3>2
  <2>5. {t[i].n : i \in Own(t, d)} \subseteq b + 2 .. e
    <3>. SUFFICES ASSUME NEW i \in Own(t, d) PROVE t[i].n \in b + 2 .. e
      OBVIOUS
    <3>1. i + 1 \in Own(q, d) /\ t[i] = q[i + 1] /\ i + 1 # 1
      BY <1>1, <1>2 DEF Own
    <3>2. q[i + 1].n \in b + 1 .. e /\ b + 1 < q[i + 1].n
      BY <2>3, <2>4, <3>1 DEF Run
    <3>. QED  BY <3>1, <3>2
  <2>6. b + 2 .. e \subseteq {t[i].n : i \in Own(t, d)}
    <3>. SUFFICES ASSUME NEW n \in b + 2 .. e PROVE \E i \in Own(t, d) : n = t[i].n
      OBVIOUS
    <3>1. n \in b + 1 .. e
      OBVIOUS
    <3>2. PICK i \in Own(q, d) : q[i].n = n
      BY <3>1 DEF Run
    <3>3. i # 1
      BY <1>1, <2>4, <3>2
    <3>. QED  BY <1>3, <3>2, <3>3
  <2>7. (b + 1) + 1 .. e = b + 2 .. e
    OBVIOUS
  <2>. QED  BY <1>4, <2>2, <2>4, <2>5, <2>6, <2>7 DEF Run
<1>. QED  BY <1>5, <1>6 DEF m, t

LEMMA Between ==
    \A n \in Nat : \A k \in {0, 1} : \A i \in 1 .. n :
        ~(i <= k) /\ i # n <=> i \in k + 1 .. n - 1
OBVIOUS

\* All the payloads of a queue to the relay are one run.
LEMMA LineRun ==
    ASSUME NEW q \in Seq(RelayMessages), NEW x, NEW j, NEW l \in {"new", "up", "down"},
           UpOK(q, x, j, l), NEW e, NEW s \in Nat, Line(q, e, l, s)
    PROVE  \E z \in 0 .. s : e <= z /\ Run(q, Payloads(q), e, z)
<1>1. /\ Len(q) \in Nat /\ DOMAIN q = 1 .. Len(q)
      /\ \A i \in 1 .. Len(q) : q[i].type \in {"join", "msg", "close"}
  <2>1. \A i \in 1 .. Len(q) : q[i] \in RelayMessages
    BY LenProperties, ElementOfSeq
  <2>. QED  BY <2>1, LenProperties DEF RelayMessages
<1>2. e \in Nat /\ e <= s
  BY DEF Line
<1>3. ASSUME q = <<>>
      PROVE  Run(q, Payloads(q), e, e)
  <2>1. Payloads(q) = {}
    BY <1>3 DEF Payloads
  <2>. QED  BY <1>2, <2>1 DEF Run
<1>4. ASSUME NEW h \in Nat, Joins(q) <= h, Payloads(q) = Joins(q) + 1 .. h, h <= Len(q)
      PROVE  /\ e <= e + h - Joins(q)
             /\ Run(q, Payloads(q), e, e + h - Joins(q))
  <2>1. Joins(q) \in {0, 1}
    BY DEF Joins
  <2>2. \A i \in Payloads(q) : i \in Nat /\ q[i].n = e + i - Joins(q)
    BY <1>1, <1>4, <2>1 DEF Line, Payloads
  <2>3. \A i \in Payloads(q) : q[i].n \in e + 1 .. e + h - Joins(q)
    BY <1>2, <1>4, <2>1, <2>2
  <2>4. ASSUME NEW n \in e + 1 .. e + h - Joins(q)
        PROVE  \E i \in Payloads(q) : q[i].n = n
    <3>1. n - e + Joins(q) \in Payloads(q)
      BY <1>2, <1>4, <2>1
    <3>2. e + (n - e + Joins(q)) - Joins(q) = n
      BY <1>2, <2>1
    <3>. QED  BY <2>2, <3>1, <3>2
  <2>5. \A i, k \in Payloads(q) : i < k => q[i].n < q[k].n
    BY <1>2, <2>1, <2>2
  <2>. QED  BY <1>2, <1>4, <2>1, <2>3, <2>4, <2>5 DEF Run
<1>5. ASSUME q # <<>>
      PROVE  /\ Len(q) >= 1 /\ l # "new" /\ Joins(q) \in {0, 1}
             /\ Joins(q) = 1 <=> q[1].type = "join"
             /\ \A i \in 1 .. Len(q) : q[i].type = "join" <=> i <= Joins(q)
             /\ \A i \in 1 .. Len(q) : q[i].type = "close" <=> i = Len(q) /\ l = "down"
  <2>1. Len(q) # 0
    BY <1>5, EmptySeq
  <2>2. 1 \in 1 .. Len(q) /\ Len(q) \in 1 .. Len(q) /\ Len(q) >= 1
    BY <1>1, <2>1
  <2>3. l # "new"
    BY <1>5 DEF UpOK
  <2>4. Joins(q) \in {0, 1} /\ (Joins(q) = 1 <=> q[1].type = "join")
    BY <1>5 DEF Joins
  <2>5. ASSUME NEW i \in 1 .. Len(q)
        PROVE  q[i].type = "join" <=> i <= Joins(q)
    <3>1. q[i].type = "join" => i = 1
      BY DEF UpOK
    <3>2. i <= Joins(q) <=> i = 1 /\ Joins(q) = 1
      BY <2>4
    <3>. QED  BY <2>4, <3>1, <3>2
  <2>6. ASSUME NEW i \in 1 .. Len(q)
        PROVE  q[i].type = "close" <=> i = Len(q) /\ l = "down"
    BY <1>5, <2>2 DEF UpOK
  <2>. QED  BY <2>2, <2>3, <2>4, <2>5, <2>6
<1>6. ASSUME q # <<>>, l = "up"
      PROVE  \E z \in 0 .. s : e <= z /\ Run(q, Payloads(q), e, z)
  <2>1. Joins(q) \in {0, 1} /\ Joins(q) <= Len(q)
    BY <1>1, <1>5, <1>6
  <2>2. Payloads(q) = Joins(q) + 1 .. Len(q)
    <3>1. \A i \in 1 .. Len(q) : q[i].type = "msg" <=> ~(i <= Joins(q))
      BY <1>1, <1>5, <1>6
    <3>. QED  BY <1>1, <2>1, <3>1 DEF Payloads
  <2>3. s = e + Len(q) - Joins(q)
    BY <1>6 DEF Line
  <2>4. e <= s /\ Run(q, Payloads(q), e, s)
    BY <1>1, <1>4, <2>1, <2>2, <2>3
  <2>. QED  BY <2>4
<1>7. ASSUME q # <<>>, l = "down"
      PROVE  \E z \in 0 .. s : e <= z /\ Run(q, Payloads(q), e, z)
  <2> DEFINE h == Len(q) - 1
             z == e + h - Joins(q)
  <2>0. Joins(q) = 1 => Len(q) # 1
    <3>. SUFFICES ASSUME Joins(q) = 1, Len(q) = 1 PROVE FALSE
      OBVIOUS
    <3>1. 1 \in 1 .. Len(q)
      BY <1>5, <1>7
    <3>. QED  BY <1>5, <1>7, <3>1
  <2>1. Joins(q) \in {0, 1} /\ h \in Nat /\ Joins(q) <= h /\ h <= Len(q)
    <3>1. Joins(q) \in {0, 1}
      BY DEF Joins
    <3>2. Len(q) >= 1
      BY <1>5, <1>7
    <3>. QED  BY <1>1, <2>0, <3>1, <3>2
  <2>2. Payloads(q) = Joins(q) + 1 .. h
    <3>1. \A i \in 1 .. Len(q) : q[i].type = "msg" <=> ~(i <= Joins(q)) /\ i # Len(q)
      BY <1>1, <1>5, <1>7
    <3>2. \A i \in 1 .. Len(q) : q[i].type = "msg" <=> i \in Joins(q) + 1 .. h
      <4>. TAKE i \in 1 .. Len(q)
      <4>1. ~(i <= Joins(q)) /\ i # Len(q) <=> i \in Joins(q) + 1 .. h
        BY <1>1, <2>1, Between
      <4>. QED  BY <3>1, <4>1
    <3>3. \A i \in Joins(q) + 1 .. h : i \in 1 .. Len(q)
      BY <1>1, <2>1
    <3>. QED  BY <1>1, <3>2, <3>3 DEF Payloads
  <2>3. e + Len(q) - 1 - Joins(q) <= s
    BY <1>7 DEF Line
  <2>. HIDE DEF h
  <2>4. e <= z /\ Run(q, Payloads(q), e, z)
    BY <1>4, <2>1, <2>2
  <2>5. z \in 0 .. s
    BY <1>1, <1>2, <2>1, <2>3, <2>4 DEF h
  <2>. QED  BY <2>4, <2>5
<1>. QED  BY <1>2, <1>3, <1>5, <1>6, <1>7

\* p holds of every client's payloads the run that q holds.
Kept(q, p) ==
    \A d \in Clients :
        /\ Own(q, d) = {} => Own(p, d) = {}
        /\ \A b, e \in Nat :
              b <= e /\ Run(q, Own(q, d), b, e) => Run(p, Own(p, d), b, e)

LEMMA KeptAppend ==
    ASSUME NEW q \in Seq(ClientMessages), NEW m \in ClientMessages, m.type # "msg"
    PROVE  Kept(q, Append(q, m))
<1>. SUFFICES ASSUME NEW d \in Clients
              PROVE  /\ Own(q, d) = {} => Own(Append(q, m), d) = {}
                     /\ \A b, e \in Nat : b <= e /\ Run(q, Own(q, d), b, e) =>
                            Run(Append(q, m), Own(Append(q, m), d), b, e)
  BY DEF Kept
<1>1. Own(Append(q, m), d) = Own(q, d)
  BY AppendProperties, LenProperties DEF Own
<1>. QED  BY <1>1, RunAppend

LEMMA KeptTail ==
    ASSUME NEW q \in Seq(ClientMessages), q # <<>>, Head(q).type # "msg"
    PROVE  Kept(q, Tail(q))
<1>. SUFFICES ASSUME NEW d \in Clients
              PROVE  /\ Own(q, d) = {} => Own(Tail(q), d) = {}
                     /\ \A b, e \in Nat : b <= e /\ Run(q, Own(q, d), b, e) =>
                            Run(Tail(q), Own(Tail(q), d), b, e)
  BY DEF Kept
<1>1. \A i \in Own(Tail(q), d) : i + 1 \in Own(q, d)
  BY HeadTailProperties, LenProperties DEF Own
<1>. QED  BY <1>1, RunTail

\* A step that leaves what the clients hold of each other as it is and lets every
\* queue to the relay go on from the same number.
LEMMA Onward ==
    ASSUME Chains, UNCHANGED <<room, got>>,
           \A c \in Clients :
              link'[c] # "down" => link[c] # "down" /\ Kept(toClient[c], toClient'[c]),
           \A d \in Clients : \A e \in Nat :
              Line(toRelay[d], e, link[d], sent[d]) => Line(toRelay'[d], e, link'[d], sent'[d])
    PROVE  Chains'
<1>. SUFFICES ASSUME NEW c \in Clients, NEW d \in Clients, link'[c] # "down"
              PROVE  IF c # d /\ room[c] = room[d] THEN Chain(c, d)' ELSE Nothing(c, d)'
  BY DEF Chains
<1>1. link[c] # "down" /\ Kept(toClient[c], toClient'[c])
  OBVIOUS
<1>2. CASE c # d /\ room[c] = room[d]
  <2>1. PICK a \in Nat, b \in Nat, e \in Nat :
            /\ a <= b /\ b <= e
            /\ got[c][d] = [i \in 1 .. b - a |-> a + i]
            /\ Run(toClient[c], Own(toClient[c], d), b, e)
            /\ Line(toRelay[d], e, link[d], sent[d])
    BY <1>1, <1>2 DEF Chains, Chain
  <2>2. Run(toClient'[c], Own(toClient'[c], d), b, e)
    BY <1>1, <2>1 DEF Kept
  <2>3. Line(toRelay'[d], e, link'[d], sent'[d])
    BY <2>1
  <2>4. Chain(c, d)'
    BY <2>1, <2>2, <2>3 DEF Chain
  <2>. QED  BY <1>2, <2>4
<1>3. CASE ~(c # d /\ room[c] = room[d])
  <2>1. Nothing(c, d)
    BY <1>1, <1>3 DEF Chains
  <2>2. Nothing(c, d)'
    BY <1>1, <2>1 DEF Kept, Nothing
  <2>. QED  BY <1>3, <2>2
<1>. QED  BY <1>2, <1>3

LEMMA KeptSame == ASSUME NEW q PROVE Kept(q, q)
BY DEF Kept

\* The relay's own steps leave the client's side as it is.
LEMMA LineJoin ==
    ASSUME IInv, NEW c \in Clients, toRelay[c] # <<>>, Head(toRelay[c]).type # "msg",
           UNCHANGED clientSide, toRelay' = [toRelay EXCEPT ![c] = Tail(@)]
    PROVE  \A d \in Clients : \A e \in Nat :
              Line(toRelay[d], e, link[d], sent[d]) => Line(toRelay'[d], e, link'[d], sent'[d])
<1>. SUFFICES ASSUME NEW d \in Clients, NEW e \in Nat,
                     Line(toRelay[d], e, link[d], sent[d])
              PROVE  Line(toRelay'[d], e, link[d], sent[d])
  BY DEF clientSide
<1>1. CASE d = c
  <2>1. /\ toRelay[c] \in Seq(RelayMessages) /\ room[c] \in Rooms /\ sent[c] \in Nat
        /\ UpOK(toRelay[c], room[c], joined[c], link[c])
        /\ link[c] \in {"up", "down"}
    BY FirstOf DEF IInv, Shape
  <2>2. Line(Tail(toRelay[c]), e, link[c], sent[c])
    BY <1>1, <2>1, LineTail
  <2>. QED  BY <1>1, <2>2 DEF IInv, Shape
<1>2. CASE d # c
  BY <1>2 DEF IInv, Shape
<1>. QED  BY <1>1, <1>2

LEMMA JoinRuns ==
    ASSUME RInv, NEW c \in Clients, HandleJoin(c)
    PROVE  Chains' /\ Newcomers'
<1> DEFINE x == room[c]
           now == members[x] \cup {c}
           count == Cardinality(now)
<1>0. IInv /\ Chains /\ Newcomers
  BY DEF RInv
<1>1. /\ toRelay[c] # <<>> /\ Head(toRelay[c]).type = "join" /\ Head(toRelay[c]).room = x
      /\ x \in Rooms /\ x # None
  BY <1>0, FirstOf DEF HandleJoin
<1>2. /\ joined' = [joined EXCEPT ![c] = x]
      /\ toClient' = JoinNotices(c, now)
      /\ toRelay' = [toRelay EXCEPT ![c] = Tail(@)]
      /\ UNCHANGED clientSide
  BY <1>1 DEF HandleJoin, Handled
<1>3. count \in Nat
  BY <1>0, <1>1, Counts DEF IInv, Shape
<1>4. \A d \in Clients :
         \E type \in {"joined", "peer_joined"} :
            toClient'[d] = IF d \in now /\ link[d] = "up"
                           THEN Append(toClient[d], Notice(type, count)) ELSE toClient[d]
  BY <1>2 DEF JoinNotices, Send
<1>5. \A type \in {"joined", "peer_joined"} :
         Notice(type, count) \in ClientMessages /\ Notice(type, count).type # "msg"
  BY <1>3 DEF Notice, ClientMessages
<1>. HIDE DEF count
<1>6. \A d \in Clients : Kept(toClient[d], toClient'[d])
  <2>. TAKE d \in Clients
  <2>1. toClient[d] \in Seq(ClientMessages)
    BY <1>0 DEF IInv, Shape
  <2>. QED  BY <1>4, <1>5, <2>1, KeptAppend, KeptSame
<1>7. Chains'
  <2>1. \A d \in Clients : \A e \in Nat :
            Line(toRelay[d], e, link[d], sent[d]) => Line(toRelay'[d], e, link'[d], sent'[d])
    BY <1>0, <1>1, <1>2, LineJoin
  <2>2. UNCHANGED <<room, link, got>>
    BY <1>2 DEF clientSide
  <2>. QED  BY <1>0, <1>6, <2>1, <2>2, Onward
<1>8. Newcomers'
  <2>. SUFFICES ASSUME NEW d \in Clients, joined'[d] = None
                PROVE  toClient'[d] = <<>> /\ \A e \in Clients : got'[d][e] = <<>>
    BY DEF Newcomers
  <2>1. d # c /\ joined[d] = None
    BY <1>0, <1>1, <1>2 DEF IInv, Shape
  <2>2. d \notin now
    BY <1>0, <1>1, <2>1 DEF IInv, Membership
  <2>3. toClient'[d] = toClient[d]
    BY <1>4, <2>2
  <2>. QED  BY <1>0, <1>2, <2>1, <2>3 DEF Newcomers, clientSide
<1>. QED  BY <1>7, <1>8

\* The relay passes the payload after number e on to every member that is up;
\* who is none yet has nothing of the sender and begins behind it.
LEMMA MsgRuns ==
    ASSUME RInv, NEW c \in Clients, HandleMsg(c)
    PROVE  Chains' /\ Newcomers'
<1> DEFINE x == room[c]
           m == Forwarded(c, Head(toRelay[c]).n)
<1>0. IInv /\ Chains /\ Newcomers
  BY DEF RInv
<1>1. /\ toRelay[c] # <<>> /\ Head(toRelay[c]).type = "msg" /\ Head(toRelay[c]).room = x
      /\ Head(toRelay[c]) \in [type : {"msg"}, room : Rooms, n : Nat]
      /\ x \in Rooms /\ x # None /\ joined[c] = x /\ link[c] \in {"up", "down"}
  BY <1>0, FirstOf DEF HandleMsg
<1>2. /\ toClient' = Send(members[x] \ {c}, m)
      /\ toRelay' = [toRelay EXCEPT ![c] = Tail(@)]
      /\ UNCHANGED <<room, link, sent, got, members, joined>>
  BY <1>1 DEF HandleMsg, Handled, Receivers, clientSide
<1>3. m \in ClientMessages /\ m.type = "msg" /\ m.from = c /\ m.n = Head(toRelay[c]).n
  BY <1>1 DEF Forwarded, ClientMessages
<1>. HIDE DEF m
<1>4. \A k \in Clients :
         toClient'[k] = IF k \in members[x] /\ k # c /\ link[k] = "up"
                        THEN Append(toClient[k], m) ELSE toClient[k]
  BY <1>2 DEF Send
<1>5. \A e \in Nat : Line(toRelay[c], e, link[c], sent[c]) =>
                        m.n = e + 1 /\ Line(toRelay'[c], e + 1, link[c], sent[c])
  <2>1. /\ toRelay[c] \in Seq(RelayMessages) /\ sent[c] \in Nat
        /\ UpOK(toRelay[c], room[c], joined[c], link[c])
    BY <1>0 DEF IInv, Shape
  <2>2. toRelay'[c] = Tail(toRelay[c])
    BY <1>0, <1>2 DEF IInv, Shape
  <2>. QED  BY <1>1, <1>3, <2>1, <2>2, LineTail
<1>6. Newcomers'
  <2>. SUFFICES ASSUME NEW k \in Clients, joined[k] = None
                PROVE  toClient'[k] = <<>> /\ \A d \in Clients : got[k][d] = <<>>
    BY <1>2 DEF Newcomers
  <2>1. k \notin members[x]
    BY <1>0, <1>1 DEF IInv, Membership
  <2>. QED  BY <1>0, <1>4, <2>1 DEF Newcomers
<1>7. ASSUME NEW k \in Clients, NEW d \in Clients, link[k] # "down"
      PROVE  IF k # d /\ room[k] = room[d] THEN Chain(k, d)' ELSE Nothing(k, d)'
  <2>0. toClient[k] \in Seq(ClientMessages)
    BY <1>0 DEF IInv, Shape
  <2>1. CASE k # d /\ room[k] = room[d] /\ d # c
    <3>1. PICK a \in Nat, b \in Nat, e \in Nat :
              /\ a <= b /\ b <= e
              /\ got[k][d] = [i \in 1 .. b - a |-> a + i]
              /\ Run(toClient[k], Own(toClient[k], d), b, e)
              /\ Line(toRelay[d], e, link[d], sent[d])
      BY <1>0, <1>7, <2>1 DEF Chains, Chain
    <3>2. Run(toClient'[k], Own(toClient'[k], d), b, e)
      BY <1>3, <1>4, <2>0, <2>1, <3>1, RunAppend
    <3>3. toRelay'[d] = toRelay[d]
      BY <1>0, <1>2, <2>1 DEF IInv, Shape
    <3>4. Chain(k, d)'
      BY <1>2, <3>1, <3>2, <3>3 DEF Chain
    <3>. QED  BY <2>1, <3>4
  <2>2. CASE k # d /\ room[k] = room[d] /\ d = c
    <3>1. PICK a \in Nat, b \in Nat, e \in Nat :
              /\ a <= b /\ b <= e
              /\ got[k][c] = [i \in 1 .. b - a |-> a + i]
              /\ Run(toClient[k], Own(toClient[k], c), b, e)
              /\ Line(toRelay[c], e, link[c], sent[c])
      BY <1>0, <1>7, <2>2 DEF Chains, Chain
    <3>2. m.n = e + 1 /\ Line(toRelay'[c], e + 1, link[c], sent[c])
      BY <1>5, <3>1
    <3>3. CASE k \in members[x] /\ link[k] = "up"
      <4>1. Run(toClient'[k], Own(toClient'[k], c), b, e + 1)
        BY <1>3, <1>4, <2>0, <2>2, <3>1, <3>2, <3>3, RunAppend
      <4>2. e + 1 \in Nat /\ b <= e + 1
        BY <3>1
      <4>3. Chain(k, c)'
        BY <1>2, <3>1, <3>2, <4>1, <4>2 DEF Chain
      <4>. QED  BY <2>2, <4>3
    <3>4. CASE ~(k \in members[x] /\ link[k] = "up")
      <4>1. joined[k] = None
        BY <1>0, <1>7, <2>2, <3>4 DEF IInv, Shape, UpOK, Membership
      <4>2. got[k][c] = <<>> /\ toClient'[k] = <<>>
        BY <1>0, <1>2, <1>6, <4>1 DEF Newcomers
      <4>3. Run(toClient'[k], Own(toClient'[k], c), e + 1, e + 1)
        <5>1. Own(toClient'[k], c) = {}
          BY <4>2 DEF Own
        <5>. QED  BY <3>1, <5>1 DEF Run
      <4>4. got[k][c] = [i \in 1 .. (e + 1) - (e + 1) |-> (e + 1) + i]
        BY <4>2
      <4>5. e + 1 \in Nat /\ e + 1 <= e + 1
        OBVIOUS
      <4>6. Chain(k, c)'
        BY <1>2, <3>2, <4>3, <4>4, <4>5 DEF Chain
      <4>. QED  BY <2>2, <4>6
    <3>. QED  BY <3>3, <3>4
  <2>3. CASE ~(k # d /\ room[k] = room[d])
    <3>1. got[k][d] = <<>> /\ Own(toClient[k], d) = {}
      BY <1>0, <1>7, <2>3 DEF Chains, Nothing
    <3>2. CASE d = c
      <4>1. k \notin members[x] \/ k = c
        BY <1>0, <2>3, <3>2, <1>1 DEF IInv, Membership, UpOK
      <4>2. toClient'[k] = toClient[k]
        BY <1>4, <4>1
      <4>. QED  BY <1>2, <2>3, <3>1, <4>2 DEF Nothing
    <3>3. CASE d # c
      <4>1. Own(Append(toClient[k], m), d) = Own(toClient[k], d)
        BY <1>3, <2>0, <3>3, AppendProperties, LenProperties DEF Own
      <4>2. Own(toClient'[k], d) = {}
        BY <1>4, <3>1, <4>1
      <4>. QED  BY <1>2, <2>3, <3>1, <4>2 DEF Nothing
    <3>. QED  BY <3>2, <3>3
  <2>. QED  BY <2>1, <2>2, <2>3
<1>8. Chains'
  BY <1>2, <1>7 DEF Chains
<1>. QED  BY <1>6, <1>8

LEMMA CloseRuns ==
    ASSUME RInv, NEW c \in Clients, HandleClose(c)
    PROVE  Chains' /\ Newcomers'
<1>0. IInv /\ Chains /\ Newcomers
  BY DEF RInv
<1>1. /\ toRelay[c] # <<>> /\ Head(toRelay[c]).type = "close"
      /\ toRelay' = [toRelay EXCEPT ![c] = Tail(@)]
      /\ UNCHANGED <<clientSide, toClient, joined>>
  BY DEF HandleClose, Handled
<1>2. \A d \in Clients : \A e \in Nat :
          Line(toRelay[d], e, link[d], sent[d]) => Line(toRelay'[d], e, link'[d], sent'[d])
  BY <1>0, <1>1, LineJoin
<1>3. UNCHANGED <<room, link, got>>
  BY <1>1 DEF clientSide
<1>4. \A d \in Clients : Kept(toClient[d], toClient'[d])
  BY <1>1, KeptSame
<1>. QED  BY <1>0, <1>1, <1>2, <1>3, <1>4, Onward DEF Newcomers

LEMMA ConnectRuns ==
    ASSUME RInv, NEW c \in Clients, Connect(c)
    PROVE  Chains' /\ Newcomers'
<1>0. IInv /\ Chains /\ Newcomers
  BY DEF RInv
<1>1. /\ link[c] = "new" /\ link' = [link EXCEPT ![c] = "up"]
      /\ toRelay' = [toRelay EXCEPT ![c] = <<Join(room[c])>>]
      /\ UNCHANGED <<room, toClient, members, joined, started, sent, got>>
  BY DEF Connect
<1>2. ASSUME NEW d \in Clients, NEW e \in Nat, Line(toRelay[d], e, link[d], sent[d])
      PROVE  Line(toRelay'[d], e, link'[d], sent'[d])
  <2>1. CASE d = c
    <3>1. e = sent[c]
      BY <1>1, <1>2, <2>1 DEF Line
    <3>2. toRelay'[c] = <<Join(room[c])>> /\ link'[c] = "up" /\ sent'[c] = sent[c]
      BY <1>0, <1>1 DEF IInv, Shape
    <3>3. Joins(<<Join(room[c])>>) = 1
      BY DEF Joins, Join
    <3>4. \A i \in 1 .. Len(<<Join(room[c])>>) : <<Join(room[c])>>[i].type # "msg"
      BY DEF Join
    <3>5. e = e + Len(<<Join(room[c])>>) - Joins(<<Join(room[c])>>)
      BY <3>3
    <3>. HIDE DEF Joins
    <3>. QED  BY <2>1, <3>1, <3>2, <3>4, <3>5 DEF Line
  <2>2. CASE d # c
    BY <1>0, <1>1, <1>2, <2>2 DEF IInv, Shape
  <2>. QED  BY <2>1, <2>2
<1>3. ASSUME NEW d \in Clients, link'[d] # "down"
      PROVE  link[d] # "down" /\ Kept(toClient[d], toClient'[d])
  BY <1>0, <1>1, <1>3, KeptSame DEF IInv, Shape
<1>4. Chains'
  BY <1>0, <1>1, <1>2, <1>3, Onward
<1>. QED  BY <1>0, <1>1, <1>4 DEF Newcomers

\* A client that sends a payload prolongs its own queue by the next number.
LEMMA LineSends ==
    ASSUME IInv, NEW c \in Clients, link[c] = "up",
           UNCHANGED link,
           \/ UNCHANGED <<toRelay, sent>>
           \/ /\ toRelay' = [toRelay EXCEPT ![c] = Queued(c)]
              /\ sent' = [sent EXCEPT ![c] = @ + 1]
    PROVE  \A d \in Clients : \A e \in Nat :
              Line(toRelay[d], e, link[d], sent[d]) => Line(toRelay'[d], e, link'[d], sent'[d])
<1>. SUFFICES ASSUME NEW d \in Clients, NEW e \in Nat,
                     Line(toRelay[d], e, link[d], sent[d]),
                     toRelay' = [toRelay EXCEPT ![c] = Queued(c)],
                     sent' = [sent EXCEPT ![c] = @ + 1]
              PROVE  Line(toRelay'[d], e, link[d], sent'[d])
  OBVIOUS
<1>1. CASE d = c
  <2>1. /\ toRelay[c] \in Seq(RelayMessages) /\ room[c] \in Rooms /\ sent[c] \in Nat
        /\ UpOK(toRelay[c], room[c], joined[c], "up")
    BY DEF IInv, Shape
  <2>2. Line(Queued(c), e, "up", sent[c] + 1)
    BY <1>1, <2>1, LineAppend DEF Queued
  <2>3. toRelay'[c] = Queued(c) /\ sent'[c] = sent[c] + 1
    BY DEF IInv, Shape
  <2>. QED  BY <1>1, <2>2, <2>3
<1>2. CASE d # c
  BY <1>2 DEF IInv, Shape
<1>. QED  BY <1>1, <1>2

LEMMA NoticeRuns ==
    ASSUME RInv, NEW c \in Clients, ReceiveNotice(c)
    PROVE  Chains' /\ Newcomers'
<1>0. IInv /\ Chains /\ Newcomers
  BY DEF RInv
<1>1. /\ link[c] = "up" /\ toClient[c] # <<>> /\ Head(toClient[c]).type # "msg"
      /\ toClient' = [toClient EXCEPT ![c] = Tail(@)]
      /\ UNCHANGED <<room, link, members, joined, got>>
  BY DEF ReceiveNotice
<1>2. \/ UNCHANGED <<toRelay, sent>>
      \/ /\ toRelay' = [toRelay EXCEPT ![c] = Queued(c)]
         /\ sent' = [sent EXCEPT ![c] = @ + 1]
  BY DEF ReceiveNotice
<1>3. \A d \in Clients : \A e \in Nat :
          Line(toRelay[d], e, link[d], sent[d]) => Line(toRelay'[d], e, link'[d], sent'[d])
  BY <1>0, <1>1, <1>2, LineSends
<1>4. \A d \in Clients : Kept(toClient[d], toClient'[d])
  <2>. TAKE d \in Clients
  <2>1. toClient[d] \in Seq(ClientMessages)
    BY <1>0 DEF IInv, Shape
  <2>2. CASE d = c
    <3>1. toClient'[d] = Tail(toClient[d])
      BY <1>0, <1>1, <2>2 DEF IInv, Shape
    <3>. QED  BY <1>1, <2>1, <2>2, <3>1, KeptTail
  <2>3. CASE d # c
    <3>1. toClient'[d] = toClient[d]
      BY <1>0, <1>1, <2>3 DEF IInv, Shape
    <3>. QED  BY <3>1, KeptSame
  <2>. QED  BY <2>2, <2>3
<1>5. Chains'
  BY <1>0, <1>1, <1>3, <1>4, Onward
<1>6. Newcomers'
  BY <1>0, <1>1 DEF IInv, Shape, Newcomers
<1>. QED  BY <1>5, <1>6

\* What is handled is the next number, which the run of handled payloads takes up.
LEMMA NextNumber ==
    ASSUME NEW a \in Nat, NEW b \in Nat, a <= b
    PROVE  Append([i \in 1 .. b - a |-> a + i], b + 1) = [i \in 1 .. (b + 1) - a |-> a + i]
<1> DEFINE f == [i \in 1 .. b - a |-> a + i]
           g == [i \in 1 .. (b + 1) - a |-> a + i]
<1>1. b - a \in Nat /\ (b + 1) - a \in Nat /\ (b + 1) - a = (b - a) + 1
  OBVIOUS
<1>2. f \in Seq(Nat) /\ Len(f) = b - a
  <2>1. \A i \in 1 .. b - a : a + i \in Nat
    OBVIOUS
  <2>. QED  BY <1>1, <2>1, IsASeq
<1>3. g \in Seq(Nat) /\ Len(g) = (b - a) + 1
  <2>1. \A i \in 1 .. (b + 1) - a : a + i \in Nat
    OBVIOUS
  <2>. QED  BY <1>1, <2>1, IsASeq
<1>4. /\ Append(f, b + 1) \in Seq(Nat) /\ Len(Append(f, b + 1)) = (b - a) + 1
      /\ \A i \in 1 .. b - a : Append(f, b + 1)[i] = f[i]
      /\ Append(f, b + 1)[(b - a) + 1] = b + 1
  BY <1>2, AppendProperties
<1>5. ASSUME NEW i \in 1 .. (b - a) + 1
      PROVE  Append(f, b + 1)[i] = g[i]
  <2>1. g[i] = a + i
    BY <1>1
  <2>2. CASE i \in 1 .. b - a
    BY <1>4, <2>1, <2>2
  <2>3. CASE i = (b - a) + 1
    BY <1>4, <2>1, <2>3
  <2>. QED  BY <1>1, <2>2, <2>3
<1>. HIDE DEF f, g
<1>6. Append(f, b + 1) = g
  BY <1>3, <1>4, <1>5, SeqEqual
<1>. QED  BY <1>6 DEF f, g

LEMMA PayloadRuns ==
    ASSUME RInv, NEW c \in Clients, ReceivePayload(c)
    PROVE  Chains' /\ Newcomers'
<1> DEFINE m == Head(toClient[c])
<1>0. IInv /\ Chains /\ Newcomers
  BY DEF RInv
<1>1. /\ link[c] = "up" /\ toClient[c] # <<>> /\ m.type = "msg"
      /\ toClient' = [toClient EXCEPT ![c] = Tail(@)]
      /\ got' = [got EXCEPT ![c][m.from] = Append(@, m.n)]
      /\ UNCHANGED <<room, link, toRelay, members, joined, started, sent>>
  BY DEF ReceivePayload
<1>2. toClient[c] \in Seq(ClientMessages) /\ m \in ClientMessages /\ m = toClient[c][1]
  BY <1>0, <1>1, HeadTailProperties DEF IInv, Shape
<1>3. m.from \in Clients /\ m.n \in Nat
  BY <1>1, <1>2 DEF ClientMessages
<1>10. ASSUME NEW d \in Clients, NEW b \in Nat, NEW e \in Nat, b <= e,
              Run(toClient[c], Own(toClient[c], d), b, e)
       PROVE  /\ d # m.from => Run(Tail(toClient[c]), Own(Tail(toClient[c]), d), b, e)
              /\ d = m.from =>
                    /\ m.n = b + 1 /\ b + 1 <= e
                    /\ Run(Tail(toClient[c]), Own(Tail(toClient[c]), d), b + 1, e)
  <2>1. LET h == Head(toClient[c])
            t == Tail(toClient[c])
        IN  /\ ~(h.type = "msg" /\ h.from = d) => Run(t, Own(t, d), b, e)
            /\ h.type = "msg" /\ h.from = d =>
                  h.n = b + 1 /\ b + 1 <= e /\ Run(t, Own(t, d), b + 1, e)
    BY <1>1, <1>2, <1>10, RunTail
  <2>. QED  BY <1>1, <2>1
<1>. HIDE DEF m
<1>4. /\ \A k, d \in Clients : k # c \/ d # m.from => got'[k][d] = got[k][d]
      /\ got'[c][m.from] = Append(got[c][m.from], m.n)
      /\ \A k \in Clients : k # c => toClient'[k] = toClient[k]
      /\ toClient'[c] = Tail(toClient[c])
  BY <1>0, <1>1, <1>3 DEF IInv, Shape
<1>5. ASSUME NEW d \in Clients, d # m.from
      PROVE  IF c # d /\ room[c] = room[d] THEN Chain(c, d)' ELSE Nothing(c, d)'
  <2>1. CASE c # d /\ room[c] = room[d]
    <3>1. PICK a \in Nat, b \in Nat, e \in Nat :
              /\ a <= b /\ b <= e
              /\ got[c][d] = [i \in 1 .. b - a |-> a + i]
              /\ Run(toClient[c], Own(toClient[c], d), b, e)
              /\ Line(toRelay[d], e, link[d], sent[d])
      BY <1>0, <1>1, <2>1 DEF Chains, Chain
    <3>2. Run(toClient'[c], Own(toClient'[c], d), b, e)
      BY <1>4, <1>5, <1>10, <3>1
    <3>3. Chain(c, d)'
      BY <1>1, <1>4, <1>5, <3>1, <3>2 DEF Chain
    <3>. QED  BY <1>1, <2>1, <3>3
  <2>2. CASE ~(c # d /\ room[c] = room[d])
    <3>1. got[c][d] = <<>> /\ Own(toClient[c], d) = {}
      BY <1>0, <1>1, <2>2 DEF Chains, Nothing
    <3>2. \A i \in Own(Tail(toClient[c]), d) : i + 1 \in Own(toClient[c], d)
      BY <1>1, <1>2, HeadTailProperties, LenProperties DEF Own
    <3>. QED  BY <1>1, <1>4, <1>5, <2>2, <3>1, <3>2 DEF Nothing
  <2>. QED  BY <2>1, <2>2
<1>6. ASSUME NEW d \in Clients, d = m.from
      PROVE  c # d /\ room[c] = room[d] /\ Chain(c, d)'
  <2>1. 1 \in Own(toClient[c], d)
    <3>1. DOMAIN toClient[c] = 1 .. Len(toClient[c]) /\ 1 \in 1 .. Len(toClient[c])
      BY <1>1, <1>2, HeadTailProperties, LenProperties
    <3>. QED  BY <1>1, <1>2, <1>6, <3>1 DEF Own
  <2>2. c # d /\ room[c] = room[d] /\ Chain(c, d)
    BY <1>0, <1>1, <1>3, <2>1 DEF Chains, Nothing
  <2>3. PICK a \in Nat, b \in Nat, e \in Nat :
            /\ a <= b /\ b <= e
            /\ got[c][d] = [i \in 1 .. b - a |-> a + i]
            /\ Run(toClient[c], Own(toClient[c], d), b, e)
            /\ Line(toRelay[d], e, link[d], sent[d])
    BY <2>2 DEF Chain
  <2>4. m.n = b + 1 /\ b + 1 <= e /\ Run(toClient'[c], Own(toClient'[c], d), b + 1, e)
    BY <1>4, <1>6, <1>10, <2>3
  <2>5. got'[c][d] = [i \in 1 .. (b + 1) - a |-> a + i]
    <3>1. got'[c][d] = Append([i \in 1 .. b - a |-> a + i], b + 1)
      BY <1>4, <1>6, <2>3, <2>4
    <3>. QED  BY <2>3, <3>1, NextNumber
  <2>6. b + 1 \in Nat /\ a <= b + 1
    BY <2>3
  <2>7. Line(toRelay'[d], e, link'[d], sent'[d])
    BY <1>1, <2>3
  <2>. QED  BY <2>2, <2>3, <2>4, <2>5, <2>6, <2>7 DEF Chain
<1>7. ASSUME NEW k \in Clients, NEW d \in Clients, link[k] # "down"
      PROVE  IF k # d /\ room[k] = room[d] THEN Chain(k, d)' ELSE Nothing(k, d)'
  <2>1. CASE k = c /\ d # m.from
    BY <1>5, <2>1
  <2>2. CASE k = c /\ d = m.from
    BY <1>1, <1>6, <2>2
  <2>3. CASE k # c
    <3>1. IF k # d /\ room[k] = room[d] THEN Chain(k, d) ELSE Nothing(k, d)
      BY <1>0, <1>7 DEF Chains
    <3>2. UNCHANGED <<got[k][d], toClient[k], toRelay[d], link[d], sent[d]>>
      BY <1>1, <1>4, <2>3
    <3>. QED  BY <3>1, <3>2 DEF Chain, Nothing
  <2>. QED  BY <2>1, <2>2, <2>3
<1>8. Chains'
  BY <1>1, <1>7 DEF Chains
<1>9. Newcomers'
  BY <1>0, <1>1, <1>4 DEF Newcomers
<1>. QED  BY <1>8, <1>9

LEMMA SendRuns ==
    ASSUME RInv, NEW c \in Clients, SendPayload(c)
    PROVE  Chains' /\ Newcomers'
<1>0. IInv /\ Chains /\ Newcomers
  BY DEF RInv
<1>1. /\ link[c] = "up"
      /\ sent' = [sent EXCEPT ![c] = @ + 1]
      /\ toRelay' = [toRelay EXCEPT ![c] = Queued(c)]
      /\ UNCHANGED <<room, link, toClient, members, joined, started, got>>
  BY DEF SendPayload
<1>2. \A d \in Clients : \A e \in Nat :
          Line(toRelay[d], e, link[d], sent[d]) => Line(toRelay'[d], e, link'[d], sent'[d])
  BY <1>0, <1>1, LineSends
<1>3. \A d \in Clients : Kept(toClient[d], toClient'[d])
  BY <1>1, KeptSame
<1>. QED  BY <1>0, <1>1, <1>2, <1>3, Onward DEF Newcomers

LEMMA DisconnectRuns ==
    ASSUME RInv, NEW c \in Clients, Disconnect(c)
    PROVE  Chains' /\ Newcomers'
<1>0. IInv /\ Chains /\ Newcomers
  BY DEF RInv
<1>1. PICK n \in 0 .. Len(toRelay[c]) :
          toRelay' = [toRelay EXCEPT ![c] = Append(SubSeq(@, 1, n), Close)]
  BY DEF Disconnect
<1>2. /\ link[c] = "up" /\ link' = [link EXCEPT ![c] = "down"]
      /\ toClient' = [toClient EXCEPT ![c] = <<>>]
      /\ UNCHANGED <<room, members, joined, started, sent, got>>
  BY DEF Disconnect
<1>3. ASSUME NEW d \in Clients, NEW e \in Nat, Line(toRelay[d], e, link[d], sent[d])
      PROVE  Line(toRelay'[d], e, link'[d], sent'[d])
  <2>1. CASE d = c
    <3>1. toRelay[c] \in Seq(RelayMessages) /\ sent[c] \in Nat
      BY <1>0 DEF IInv, Shape
    <3>2. Line(Append(SubSeq(toRelay[c], 1, n), Close), e, "down", sent[c])
      BY <1>2, <1>3, <2>1, <3>1, LineClose
    <3>3. /\ toRelay'[c] = Append(SubSeq(toRelay[c], 1, n), Close)
          /\ link'[c] = "down" /\ sent'[c] = sent[c]
      BY <1>0, <1>1, <1>2 DEF IInv, Shape
    <3>. QED  BY <2>1, <3>2, <3>3
  <2>2. CASE d # c
    BY <1>0, <1>1, <1>2, <1>3, <2>2 DEF IInv, Shape
  <2>. QED  BY <2>1, <2>2
<1>4. ASSUME NEW d \in Clients, link'[d] # "down"
      PROVE  link[d] # "down" /\ Kept(toClient[d], toClient'[d])
  <2>1. d # c
    BY <1>0, <1>2, <1>4 DEF IInv, Shape
  <2>2. link'[d] = link[d] /\ toClient'[d] = toClient[d]
    BY <1>0, <1>2, <2>1 DEF IInv, Shape
  <2>. QED  BY <1>4, <2>2, KeptSame
<1>5. Chains'
  BY <1>0, <1>2, <1>3, <1>4, Onward
<1>6. Newcomers'
  BY <1>0, <1>2 DEF IInv, Shape, Newcomers
<1>. QED  BY <1>5, <1>6

-----------------------------------------------------------------------------
(* The theorems *)

\* The invariant holds throughout.
LEMMA Invariance == RelaySpec => []IInv
<1>1. RelayInit => IInv
  <2>. SUFFICES ASSUME RelayInit PROVE IInv  OBVIOUS
  <2>1. Shape
    <3>1. <<>> \in Seq(RelayMessages) /\ <<>> \in Seq(ClientMessages) /\ <<>> \in Seq(Nat)
      OBVIOUS
    <3>. QED  BY <3>1, RelayAssumption DEF RelayInit, Shape
  <2>2. \A i \in 1 .. Len(<<>>) : FALSE
    OBVIOUS
  <2>3. \A c \in Clients : UpOK(toRelay[c], room[c], joined[c], link[c])
    BY <2>2 DEF RelayInit, UpOK
  <2>4. \A c \in Clients : Ordered(toClient[c], started[c])
    BY <2>2 DEF RelayInit, Ordered
  <2>5. Membership
    BY RelayAssumption DEF RelayInit, Membership
  <2>6. Told
    BY DEF RelayInit, Told
  <2>7. StartsBeforePayload
    BY DEF RelayInit, StartsBeforePayload
  <2>8. \A c \in Clients : ~(sent[c] > 0)
    BY DEF RelayInit
  <2>. QED  BY <2>1, <2>3, <2>4, <2>5, <2>6, <2>7, <2>8 DEF IInv
<1>2. IInv /\ [RelayNext]_relayVars => IInv'
  <2>. SUFFICES ASSUME IInv, [RelayNext]_relayVars PROVE IInv'  OBVIOUS
  <2>1. CASE UNCHANGED relayVars
    BY <2>1 DEF relayVars, IInv, Shape, Membership, Told, StartsBeforePayload
  <2>2. ASSUME NEW c \in Clients, HandleMessage(c)
        PROVE  IInv'
    BY <2>2, JoinStep, MsgStep, CloseStep DEF HandleMessage
  <2>3. ASSUME NEW c \in Clients,
               \/ Connect(c) \/ ReceiveNotice(c) \/ ReceivePayload(c)
               \/ SendPayload(c) \/ Disconnect(c)
        PROVE  IInv'
    BY <2>3, ConnectStep, NoticeStep, PayloadStep, SendStep, DisconnectStep
  <2>. QED  BY <2>1, <2>2, <2>3 DEF RelayNext
<1>. QED  BY <1>1, <1>2, PTL DEF RelaySpec

\* tryStartHandshake has run before the first payload arrives, with any number
\* of clients that join, send and go in any order.
THEOREM AlwaysStartsFirst == RelaySpec => []StartsBeforePayload
BY Invariance, PTL DEF IInv

\* The room sets and joinedRoom agree, and no client is answered with an error.
THEOREM RoomsAgree == RelaySpec => []RelayTypeOK
<1>1. IInv => RelayTypeOK
  <2>. SUFFICES ASSUME IInv PROVE RelayTypeOK  OBVIOUS
  <2>1. \A c \in Clients : joined[c] \in {None, room[c]} /\ sent[c] \in 0 .. MaxPayloads
    BY DEF IInv, Shape, UpOK
  <2>2. \A c \in Clients : \A i \in DOMAIN toClient[c] : toClient[c][i].type # "error"
    <3>. TAKE c \in Clients
    <3>. TAKE i \in DOMAIN toClient[c]
    <3>1. toClient[c][i] \in ClientMessages
      BY ElementOfSeq, LenProperties DEF IInv, Shape
    <3>. QED  BY <3>1 DEF ClientMessages
  <2>. QED  BY <2>1, <2>2 DEF IInv, Membership, RelayTypeOK
<1>. QED  BY <1>1, Invariance, PTL

\* No payload of a peer is skipped, repeated or overtaken on its way to a client,
\* whoever joins, sends and goes; nothing of another room reaches it.
THEOREM RunsUnbroken == RelaySpec => []UnbrokenPerPeer
<1>1. RelayInit /\ IInv => RInv
  <2>. SUFFICES ASSUME RelayInit, IInv PROVE Chains /\ Newcomers
    BY DEF RInv
  <2>1. \A c \in Clients : toClient[c] = <<>> /\ toRelay[c] = <<>> /\ sent[c] = 0 /\ link[c] = "new"
    BY DEF RelayInit
  <2>2. \A c, d \in Clients : got[c][d] = <<>> /\ Own(toClient[c], d) = {}
    BY DEF RelayInit, Own
  <2>3. ASSUME NEW c \in Clients, NEW d \in Clients
        PROVE  Chain(c, d)
    <3>1. got[c][d] = [i \in 1 .. 0 - 0 |-> 0 + i]
      BY <2>2
    <3>2. Run(toClient[c], Own(toClient[c], d), 0, 0)
      BY <2>2 DEF Run
    <3>3. Line(toRelay[d], 0, link[d], sent[d])
      <4>1. \A i \in 1 .. Len(<<>>) : FALSE
        OBVIOUS
      <4>. QED  BY <2>1, <4>1 DEF Line
    <3>. QED  BY <3>1, <3>2, <3>3 DEF Chain
  <2>4. Chains
    BY <2>2, <2>3 DEF Chains, Nothing
  <2>5. Newcomers
    BY <2>1, <2>2 DEF Newcomers
  <2>. QED  BY <2>4, <2>5
<1>2. RInv /\ IInv' /\ [RelayNext]_relayVars => RInv'
  <2>. SUFFICES ASSUME RInv, IInv', [RelayNext]_relayVars PROVE Chains' /\ Newcomers'
    BY DEF RInv
  <2>1. CASE UNCHANGED relayVars
    BY <2>1 DEF relayVars, RInv, Chains, Chain, Nothing, Newcomers
  <2>2. ASSUME NEW c \in Clients, HandleMessage(c)
        PROVE  Chains' /\ Newcomers'
    BY <2>2, JoinRuns, MsgRuns, CloseRuns DEF HandleMessage
  <2>3. ASSUME NEW c \in Clients,
               \/ Connect(c) \/ ReceiveNotice(c) \/ ReceivePayload(c)
               \/ SendPayload(c) \/ Disconnect(c)
        PROVE  Chains' /\ Newcomers'
    BY <2>3, ConnectRuns, NoticeRuns, PayloadRuns, SendRuns, DisconnectRuns
  <2>. QED  BY <2>1, <2>2, <2>3 DEF RelayNext
<1>3. RInv => UnbrokenPerPeer
  <2>. SUFFICES ASSUME RInv, NEW c \in Clients, NEW d \in Clients, link[c] = "up"
                PROVE  IF c # d /\ room[c] = room[d]
                       THEN \E a, b, e, z \in 0 .. MaxPayloads :
                               /\ a <= b /\ b <= e /\ e <= z
                               /\ got[c][d] = [i \in 1 .. b - a |-> a + i]
                               /\ Run(toClient[c], Own(toClient[c], d), b, e)
                               /\ Run(toRelay[d], Payloads(toRelay[d]), e, z)
                       ELSE got[c][d] = <<>> /\ Own(toClient[c], d) = {}
    BY DEF UnbrokenPerPeer
  <2>1. CASE c # d /\ room[c] = room[d]
    <3>1. PICK a \in Nat, b \in Nat, e \in Nat :
              /\ a <= b /\ b <= e
              /\ got[c][d] = [i \in 1 .. b - a |-> a + i]
              /\ Run(toClient[c], Own(toClient[c], d), b, e)
              /\ Line(toRelay[d], e, link[d], sent[d])
      BY <2>1 DEF RInv, Chains, Chain
    <3>2. /\ toRelay[d] \in Seq(RelayMessages) /\ link[d] \in {"new", "up", "down"}
          /\ UpOK(toRelay[d], room[d], joined[d], link[d])
          /\ sent[d] \in 0 .. MaxPayloads /\ sent[d] \in Nat
      BY RelayAssumption DEF RInv, IInv, Shape
    <3>3. PICK z \in 0 .. sent[d] : e <= z /\ Run(toRelay[d], Payloads(toRelay[d]), e, z)
      BY <3>1, <3>2, LineRun
    <3>4. a \in 0 .. MaxPayloads /\ b \in 0 .. MaxPayloads /\ e \in 0 .. MaxPayloads
          /\ z \in 0 .. MaxPayloads
      BY <3>1, <3>2, <3>3, RelayAssumption
    <3>5. \E a1, b1, e1, z1 \in 0 .. MaxPayloads :
             /\ a1 <= b1 /\ b1 <= e1 /\ e1 <= z1
             /\ got[c][d] = [i \in 1 .. b1 - a1 |-> a1 + i]
             /\ Run(toClient[c], Own(toClient[c], d), b1, e1)
             /\ Run(toRelay[d], Payloads(toRelay[d]), e1, z1)
      BY <3>1, <3>3, <3>4
    <3>. QED  BY <2>1, <3>5
  <2>2. CASE ~(c # d /\ room[c] = room[d])
    BY <2>2 DEF RInv, Chains, Nothing
  <2>. QED  BY <2>1, <2>2
<1>. QED  BY <1>1, <1>2, <1>3, Invariance, PTL DEF RelaySpec
=============================================================================
