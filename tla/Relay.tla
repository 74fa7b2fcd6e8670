------------------------------- MODULE Relay --------------------------------
(***************************************************************************)
(* packages/relay/src/server.ts and the clients' end of it: the transport  *)
(* of client-cli/src/transport.ts and tryStartHandshake in index.ts.  The  *)
(* relay keeps a set of sockets per room and forwards what one of them     *)
(* sends to the others; a client starts its handshake, once, when it is    *)
(* told that the room has two members.                                     *)
(*                                                                         *)
(* A client is one process: one that starts again is another client.  Each *)
(* socket is a queue in each direction.  A process that exits, is killed   *)
(* or loses its connection is one case, Disconnect: what it had sent may   *)
(* or may not arrive, and the relay learns of it when its queue ends.      *)
(* A payload is the number its sender gave it; the first is the hello.     *)
(***************************************************************************)
EXTENDS Naturals, FiniteSets, Sequences, SequencesExt

CONSTANTS
    Clients,      \* the client processes, in all rooms, over time
    Rooms,        \* the names a client can be given with --room
    None,         \* null
    MaxPayloads   \* bound: the client that sends most sends no more than this

ASSUME RelayAssumption ==
    /\ IsFiniteSet(Clients)
    /\ None \notin Rooms
    /\ MaxPayloads \in Nat \ {0}

VARIABLES
    room,      \* room[c]: the room client c was given
    link,      \* link[c]: "new", "up" or "down", as client c sees its socket
    toRelay,   \* toRelay[c]: what c sent and the relay has not handled
    toClient,  \* toClient[c]: what the relay sent to c and c has not handled
    members,   \* members[x]: the sockets in room x; no room is an empty one
    joined,    \* joined[c]: the relay's ws.state.joinedRoom
    started,   \* started[c]: c's handshakeStarted
    sent,      \* sent[c]: how many payloads c has sent
    got        \* got[c][d]: the payloads of d that c has handled, in order

clientSide == <<room, link, started, sent, got>>
relayVars == <<room, link, toRelay, toClient, members, joined, started, sent, got>>

-----------------------------------------------------------------------------
(* Messages *)

Join(x)         == [type |-> "join", room |-> x]
Payload(x, n)   == [type |-> "msg", room |-> x, n |-> n]
Close           == [type |-> "close"]

Notice(type, count) == [type |-> type, count |-> count]
Forwarded(d, n)     == [type |-> "msg", from |-> d, n |-> n]
Error(code)         == [type |-> "error", code |-> code]

\* send() to every client of a set; a socket that is not open takes nothing.
Send(receivers, m) ==
    [c \in Clients |-> IF c \in receivers /\ link[c] = "up"
                       THEN Append(toClient[c], m) ELSE toClient[c]]

-----------------------------------------------------------------------------
(* The relay *)

Handled(c) == toRelay' = [toRelay EXCEPT ![c] = Tail(@)]

\* Faulty: only the socket that joins is told.
JoinNotices1(c, now) == Send({c}, Notice("joined", Cardinality(now)))

\* What a join sends: an answer to c, word of c to the others.
JoinNotices(c, now) ==
    [d \in Clients |->
        IF d = c THEN Send({c}, Notice("joined", Cardinality(now)))[d]
                 ELSE Send(now, Notice("peer_joined", Cardinality(now)))[d]]

\* handleJoin(): leave the room c is in, if any, and enter the one it names.
HandleJoin(c) ==
    /\ toRelay[c] # <<>> /\ Head(toRelay[c]).type = "join"
    /\ LET x == Head(toRelay[c]).room
           now == members[x] \cup {c}
       IN  /\ members' = [y \in Rooms |-> IF y = x THEN now ELSE members[y] \ {c}]
           /\ joined' = [joined EXCEPT ![c] = x]
           /\ toClient' = JoinNotices(c, now)
    /\ Handled(c)
    /\ UNCHANGED clientSide

\* Faulty: the sender gets its own payload back.
ReceiversWithSender(c, x) == members[x]

Receivers(c, x) == members[x] \ {c}

\* handleMsg(): c may send only to the room it has joined.
HandleMsg(c) ==
    /\ toRelay[c] # <<>> /\ Head(toRelay[c]).type = "msg"
    /\ LET m == Head(toRelay[c])
       IN  toClient' =
             IF joined[c] # m.room THEN Send({c}, Error("NOT_JOINED"))
             ELSE Send(Receivers(c, m.room), Forwarded(c, m.n))
    /\ Handled(c)
    /\ UNCHANGED <<clientSide, members, joined>>

\* Faulty: a socket that closes stays in its room.
LeftNot(c) == members

\* handleClose(): nobody is told.
Left(c) ==
    IF joined[c] = None THEN members ELSE [members EXCEPT ![joined[c]] = @ \ {c}]

HandleClose(c) ==
    /\ toRelay[c] # <<>> /\ Head(toRelay[c]).type = "close"
    /\ members' = Left(c)
    /\ Handled(c)
    /\ UNCHANGED <<clientSide, toClient, joined>>

HandleMessage(c) == HandleJoin(c) \/ HandleMsg(c) \/ HandleClose(c)

-----------------------------------------------------------------------------
(* The client *)

\* new Transport(), whose socket joins the room when it opens.
Connect(c) ==
    /\ link[c] = "new"
    /\ link' = [link EXCEPT ![c] = "up"]
    /\ toRelay' = [toRelay EXCEPT ![c] = <<Join(room[c])>>]
    /\ UNCHANGED <<room, toClient, members, joined, started, sent, got>>

\* sendPayload(), not yet assigned to the queue.
Queued(c) == Append(toRelay[c], Payload(room[c], sent[c] + 1))

\* Faulty: a start needs two peers besides this client.
MustStartAtThree(c, m) ==
    m.type \in {"joined", "peer_joined"} /\ ~started[c] /\ m.count > 2

\* tryStartHandshake(): with two members, start, once.
MustStart(c, m) ==
    m.type \in {"joined", "peer_joined"} /\ ~started[c] /\ m.count >= 2

\* handleMessage() of the transport, when no payload is in it: start the
\* handshake, which sends the hello, or wait for the peer.  An error would end
\* the process; RelayTypeOK says that none is ever sent.
ReceiveNotice(c) ==
    /\ link[c] = "up" /\ toClient[c] # <<>>
    /\ Head(toClient[c]).type \in {"joined", "peer_joined"}
    /\ toClient' = [toClient EXCEPT ![c] = Tail(@)]
    /\ IF MustStart(c, Head(toClient[c]))
       THEN /\ started' = [started EXCEPT ![c] = TRUE]
            /\ sent' = [sent EXCEPT ![c] = @ + 1]
            /\ toRelay' = [toRelay EXCEPT ![c] = Queued(c)]
       ELSE UNCHANGED <<started, sent, toRelay>>
    /\ UNCHANGED <<room, link, members, joined, got>>

ReceivePayload(c) ==
    /\ link[c] = "up" /\ toClient[c] # <<>>
    /\ Head(toClient[c]).type = "msg"
    /\ LET m == Head(toClient[c])
       IN  got' = [got EXCEPT ![c][m.from] = Append(@, m.n)]
    /\ toClient' = [toClient EXCEPT ![c] = Tail(@)]
    /\ UNCHANGED <<room, link, toRelay, members, joined, started, sent>>

\* The session sends nothing more before it has heard the peer: then answers, or
\* what a callback of a later phase sends.
SendPayload(c) ==
    /\ link[c] = "up"
    /\ \E d \in Clients : got[c][d] # <<>>
    /\ \A d \in Clients : sent[d] < MaxPayloads
    /\ sent' = [sent EXCEPT ![c] = @ + 1]
    /\ toRelay' = [toRelay EXCEPT ![c] = Queued(c)]
    /\ UNCHANGED <<room, link, toClient, members, joined, started, got>>

\* The client's end of the socket is gone: nothing reaches the client any more,
\* and of what it sent the relay gets a part, then the close.
Disconnect(c) ==
    /\ link[c] = "up"
    /\ link' = [link EXCEPT ![c] = "down"]
    /\ toClient' = [toClient EXCEPT ![c] = <<>>]
    /\ \E n \in 0 .. Len(toRelay[c]) :
          toRelay' = [toRelay EXCEPT ![c] = Append(SubSeq(@, 1, n), Close)]
    /\ UNCHANGED <<room, members, joined, started, sent, got>>

-----------------------------------------------------------------------------
(* The specification *)

RelayInit ==
    /\ room \in [Clients -> Rooms]
    /\ link = [c \in Clients |-> "new"]
    /\ toRelay = [c \in Clients |-> <<>>]
    /\ toClient = [c \in Clients |-> <<>>]
    /\ members = [x \in Rooms |-> {}]
    /\ joined = [c \in Clients |-> None]
    /\ started = [c \in Clients |-> FALSE]
    /\ sent = [c \in Clients |-> 0]
    /\ got = [c \in Clients |-> [d \in Clients |-> <<>>]]

RelayNext ==
    \E c \in Clients :
        \/ HandleMessage(c)
        \/ Connect(c) \/ ReceiveNotice(c) \/ ReceivePayload(c)
        \/ SendPayload(c) \/ Disconnect(c)

RelaySpec == RelayInit /\ [][RelayNext]_relayVars

\* The relay handles what a socket holds and a client what it is sent; nobody
\* has to connect, to say more than its hello, or to leave.
RelayFairSpec ==
    /\ RelaySpec
    /\ \A c \in Clients :
          /\ WF_relayVars(HandleMessage(c))
          /\ WF_relayVars(ReceiveNotice(c))
          /\ WF_relayVars(ReceivePayload(c))

-----------------------------------------------------------------------------
(* Properties *)

\* The relay's two records of who is where agree: a socket is in the room its
\* state names and in no other, until its close has been handled; and no client
\* of this repository is ever answered with an error.
RelayTypeOK ==
    /\ \A c \in Clients, x \in Rooms :
          c \in members[x] <=>
              joined[c] = x /\ (link[c] = "up" \/ toRelay[c] # <<>>)
    /\ \A c \in Clients :
          /\ joined[c] \in {None, room[c]}
          /\ sent[c] \in 0 .. MaxPayloads
          /\ \A i \in DOMAIN toClient[c] : toClient[c][i].type # "error"

\* No client handles a payload before it has started its own handshake, however
\* joins, payloads and disconnections cross: a session that hears the peer's
\* hello first would never send its own.
StartsBeforePayload ==
    \A c, d \in Clients : got[c][d] # <<>> => started[c]

\* The places in a client's queue q that hold a payload of d, and those in a
\* queue q to the relay that hold one.
Own(q, d)   == {i \in DOMAIN q : q[i].type = "msg" /\ q[i].from = d}
Payloads(q) == {i \in DOMAIN q : q[i].type = "msg"}

\* At the places in I, q holds the payloads after number lo up to number hi, in
\* order and each once.
Run(q, I, lo, hi) ==
    /\ {q[i].n : i \in I} = lo + 1 .. hi
    /\ \A i, j \in I : i < j => q[i].n < q[j].n

\* What a connected client has of a peer's payloads and what is on the way to
\* it is one unbroken run of them, in order and each once, even if the client
\* came late or the peer went: it has handled those after number a up to b, the
\* relay has sent it those up to e, and the peer the relay those up to z.
\* Nothing comes from another room or from itself.
UnbrokenPerPeer ==
    \A c, d \in Clients :
        link[c] = "up" =>
            IF c # d /\ room[c] = room[d]
            THEN \E a, b, e, z \in 0 .. MaxPayloads :
                    /\ a <= b /\ b <= e /\ e <= z
                    /\ got[c][d] = [i \in 1 .. b - a |-> a + i]
                    /\ Run(toClient[c], Own(toClient[c], d), b, e)
                    /\ Run(toRelay[d], Payloads(toRelay[d]), e, z)
            ELSE got[c][d] = <<>> /\ Own(toClient[c], d) = {}

Heard(c, d) == got[c][d] # <<>> /\ got[c][d][1] = 1

SameRoom(cs) == \A c, d \in cs : room[c] = room[d]

Pairs == {p \in SUBSET Clients : Cardinality(p) = 2}

\* Two clients that connect to a room get each other's hello, whoever was first,
\* if both stay and no third client is or was in the room.
GreetingsCross ==
    \A p \in Pairs :
        (\A c \in p : link[c] = "up") /\ SameRoom(p) ~>
            \/ \A c, d \in p : c # d => Heard(c, d)
            \/ \E c \in p : link[c] = "down"
            \/ \E e \in Clients \ p : SameRoom(p \cup {e}) /\ link[e] # "new"
=============================================================================
