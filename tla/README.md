# VoidSwap in TLA+

VoidSwap swaps value between two clients, Alice and Bob, through two wallets
whose keys both share: each funds one wallet, the two agree on the transactions
that empty them, exchange adaptor signatures so that publishing `tx_B` reveals
the secret that completes `tx_A`, and broadcast. This directory models the
protocol of `packages/protocol`, the clients around it, the relay between them,
the watcher of `tx_A` and the mock adaptor signatures, checks them with TLC, and
proves with TLAPS what matters most of them. Paths below are relative to the
repository root.

## The system

| Component | State | Operations | Talks to |
|---|---|---|---|
| handshake runtime, `protocol/src/handshakeRuntime.ts` | state, seq, sid, transcript, peer's params and nonce, three flags, last seq heard | `start`, `handleIncoming` (`handleHello`, `handleHelloAck`, `tryLock`, `abort`) | owned by the session runtime |
| session runtime, `protocol/src/sessionRuntime.ts` | state, post-handshake seq and transcript, and the data of each phase: keys, capsules, funding, nonces and fee, templates, adaptor legs, announced hashes | `startHandshake`, `handleIncoming` (14 message types over 9 states), `emitFundingTx`, `notifyFundingConfirmed`, `setLocalNonceReport`, `proposeFeeParams`, `announceTxBHash`, `announceTxAHash`, `abort` | returns events; the client sends the `NET_OUT` ones and makes callbacks of the others |
| messages, transcript, sid, canonical form, hex; mock keygen, time lock, capsule proof; execution templates | none | pure functions | called by the runtimes |
| adaptor mock, `adaptor-mock/src/mockAdaptor.ts` | a random draw per call | `presignStart/Respond/Finish`, `complete`, `extract`, `bindExpectedSecret`, `completeWithSecret` | session runtime, client |
| client, `client-cli/src` (`index.ts`, `handshake.ts`, `cli.ts`) | pending templates and signatures, `handshakeStarted` | the callbacks: funding, reading nonces, broadcasting, watching, exiting | runtime, chain, relay |
| chain access, `chain.ts`, `watchTx.ts`, `validateTx.ts` | none | RPC calls, polling with a deadline | an Ethereum node |
| relay, `relay/src` | a set of sockets per room, with no limit; the room of each socket | connection, join, msg (forwarded to all others), close | any number of clients |
| transport, `client-cli/src/transport.ts` | one socket, its room | join on open, dispatch, `sendPayload`, `close` | relay, client |

A call into a runtime is synchronous and its messages leave in the same call,
so a handler is one atomic step. What is concurrent is the two clients, the
messages between them, and each client's callbacks, which wait for the chain
and call back later. Nothing is persisted and nothing is resent; there are no
timeouts in the runtimes.

What is hard, and where the properties aim (`hazards` in PROJECT.json lists each
at its line):

* each side locks on its own, from messages that cross, and nobody confirms it;
* every phase ends on a conjunction of facts that arrive in any order, checked
  by a `check...` function at the end of several handlers;
* a message that is early for its state is dropped after its number was noted;
* an equal sequence number is let through after the handshake, so every handler
  recognises resends itself;
* transcript hashes must agree although the two sides append in different orders;
* a peer's abort, a duplicate or a loss may leave one side waiting;
* a client's callbacks wait for the chain while its exit timer runs, and an
  exception in one of them may end the process or only be logged;
* joins, payloads and disconnections cross at the relay.

## Modules

| Module | What it is |
|---|---|
| `SidAgreement` | abstract: two parties decide once, to lock the one sid they have, or to abort |
| `Lockstep` | abstract: two parties pass the same milestones in one order, at most one apart, over the same findings |
| `HandshakeRuntime` | two handshake runtimes over a faulty network; implements `SidAgreement` |
| `SessionRuntime` | two session runtimes and the calls of their clients; extends `HandshakeRuntime` and uses its actions for the handshake phase; implements `Lockstep` |
| `SwapClient` | two clients and the chain; extends `SessionRuntime` and uses its actions for what the sessions do |
| `Relay` | the relay and the clients' end of it, up to the start of the handshake |
| `WatchTx` | the polling loop of `waitForTxConfirmations` |
| `AdaptorMock` | the algebra of `presignRespond`, `complete` and `extract` |
| `HandshakeInvariant` | the inductive invariants of `HandshakeRuntime`: `IInv`, `AckInv`, `TranscriptInv`, `OrderlyInv` |
| `SessionInvariant` | the inductive invariant `SInv` of `SessionRuntime`, and two more of a network that has not failed: `CalmInv` of two honest parties, `FaultlessInv` of any two; extends `HandshakeInvariant` too |
| `SessionRecordProofs` | lemmas about one party's session: what a statement of a handler does to one record and the fields set with it, what it never touches, what the `check...` functions and the end of a handler make of it |
| `SessionRuntimeProofs` | theorems about two sessions; extends `SessionRecordProofs` and, through it, `HandshakeRuntimeProofs` |
| `SessionFaultlessProofs` | theorems about two sessions over a network that has not failed, honest or not; extends `SessionRuntimeProofs` |
| `SwapClientProofs` | theorems about two clients; extends `SessionRuntimeProofs` |
| `HandshakeRuntimeProofs`, `LockstepProofs`, `RelayProofs` | theorems about the module of that name |
| `AdaptorWatchProofs` | theorems about `AdaptorMock` and about `WatchTx` |
| `HandshakeClaims`, `SessionClaims`, `SwapClaims` | statements of the documentation the code does not keep |

### HandshakeRuntime

`hs[r]` is the record of the variables in `createHandshakeRuntime`; `net[r]` is
what is on its way to party `r` (relay and both sockets), oldest first.
`Start(r)` is `start()`. Each way through `handleIncoming` is an action
`Rcv...(r)` that consumes the head of the inbox and appends what the call
returns to the peer's inbox: a closed runtime or an own message (dropped), a
payload `parseMessage` refuses, a replay, a sid before the lock, a hello with
other parameters, a hello, an ack, anything else. `TryLock` and `AbortFrom` are
the two calls handlers end with, given the runtime as the statements before
them left it. When a runtime locks, its owner sends `keygen_announce` in the same
call (`OnLock`), which the peer may receive before it has locked itself.

Parameters and nonces are model values, so canonical JSON is equality and the
sid is the tuple of what `computeSid` hashes, in its role order. A transcript
hash is the multiset of the records: `sortRecords` makes it independent of the
order of appending, and nothing else about SHA-256 matters here.

`Duplicate`, `Lose`, `Reorder` and `Corrupt` change one inbox; `MaxFaults`
bounds how many happen and `FaultKinds` which.

### SessionRuntime

`ss[r]` is the record of the variables in `createSessionRuntime`. A handler works
on `w`, a pair of those fields and the messages it returns, so that
`Send`, `Note` (`recordPost`), `EmitAbort` and the `check...` functions compose in
the order the code runs them. `Takes(r, type)` is the test every handler starts
with (the state that handles this type, after sid and seq were checked);
`RcvForeignSid`, `RcvOutOfOrder`, `RcvUnparsable`, `RcvAborted` and `RcvUnused` are
the ways a message never gets to a handler. Among them they keep the code's
asymmetries: `EXECUTION_PLANNED` checks neither sid nor seq, a repeated
`keygen_announce` is compared before the two late states check anything, a
peer's abort is recognised only before the lock.

The client is the part of `index.ts` that decides which method is called after
which event: each at most once, at any time after its event, also after the
session has moved on or aborted in the meantime (the runtime answers such a
call; that the CLI exits on an abort is in `SwapClient`). Calls with no
await between them are one action: alice's nonce report and fee proposal. The chain is external: a
funding transaction that was announced may be confirmed at any later time, and
alice may find `tx_A` failed. `milestones[e]` keeps the transcript that event `e`
hashed; it is the only history variable.

`MilestoneOrder` is the order in which the code emits the milestone events that
carry a hash. Mapped to `Lockstep`, a session's log is the transcripts of the
milestones it has reached, and a session has stopped when it is ABORTED.
`SortHasNoTies` is why a multiset is enough for a hash: `sortRecords` compares
sender, number and type only, and records that tie would stay in the order of
their arrival, which differs between the parties.

Hashes, digests, keys and signatures are the tuples they are computed from, a
capsule is its target and its flaw, a funding payload whether its value
suffices, a nonce report the pair that is compared. `mutator` is bob's
`outboundMutator`, built from `--tamperTemplateCommit` or `--tamperAdaptor`.

### SwapClient

Here the callbacks of `index.ts` are split at their awaits. `SendFunding` is
`onFundingStarted` up to `sendEthTransfer`, `AnnounceFunding` the call after it,
`ConfirmFunding` the end of either wait in `validateFundingTx`; `SendTxB` and
`AnnounceTxB` are the two halves of `onExecutionPlanned`, `SendTxA` and
`AnnounceTxA` those of `onTxBHashReceived`. What a callback has done is what it
has sent and called, so no program counter is kept. `proc[r]` is the process: an
`ABORTED` event ends it with 1 (`OnAbort`), the timer of
`onExecTemplatesReady` with 0, an exception in the callbacks up to the nonces
with 1; one in the two broadcasting callbacks is only logged (`logged[r]`), and
the transaction may have reached the node all the same. A message to a process
that has ended stays in its inbox.

`chain[tx]` is external: sent, then mined, or failed. One kind of thing may break
per behaviour (`broken`: the RPC, the socket, or a transaction on chain). Two
things go wrong with nothing broken: a node that has not heard of the peer's funding
transaction yet ends the process (`NotFound`), and the watch of `tx_A` gives up
after its minute (`WatchTxAFails`). `TxBValid` is the receipt's status and
`MatchesPlan`, which stands for the comparisons of `validateTxBAgainstPlan`: alice made
`tx_B` from her templates, bob compares it with his. What bob's callback does with a
`tx_B` that failed, or with a plan or a signature it does not hold, is the same as with
an RPC that throws (`BroadcastThrows`).

### Relay

`members[x]` is the set of `rooms`, `joined[c]` the `joinedRoom` of a socket, and
each socket is a queue in either direction. `HandleJoin`, `HandleMsg` and
`HandleClose` are the handlers of `server.ts`; `Connect`, `ReceiveNotice`,
`ReceivePayload` and `SendPayload` are `transport.ts` with `tryStartHandshake`. A
session is reduced to what the relay can see of it: its first payload when it
starts, others only after it has heard a peer. `Disconnect` is every way of going
away; what was on the way to the relay may be cut anywhere. Rooms are not
limited to two, and the model does not limit them either: a client that is
started again is a third one, and the old one may still be counted.

The composition with `SessionRuntime` is by contract: `UnbrokenPerPeer` and
`StartsBeforePayload` are what the inboxes and `Start` of the session's model
assume of a room with two clients.

### WatchTx

The loop is a program counter over its awaits, `elapsed` its clock: a call to the
node takes up to `MaxLatency`, sleeping takes `Poll`. The chain grows and keeps what
it has. The node may answer with a block number that is behind the chain but
not behind its last answer. `hindered` and `confirmedAt` are history variables
that say which timeouts are excusable.

### AdaptorMock

A byte string is the set of its bits, so xor is the symmetric difference. The
hash that is computed with (the mask) is a variable that never changes and is
chosen from all functions, collisions included; hashes that are only compared
are tuples. `TryExtract(i, j)` tries any adaptor signature with any final one,
also of another request and another answer to the same request.

An operator marked "Faulty" is a wrong version of the operator after it, kept to
show which mistake each property catches. The specifications do not use it.

## Runs

| Run | Instance | Shows |
|---|---|---|
| `handshake` | 2 parameter sets, 2 nonces (equal ones included), up to 3 faults of any kind; 50 thousand states | agreement, mutuality and finality of the lock, equal transcripts, numbers used once, both settle without faults, implements `SidAgreement`; the inductive invariant `OrderlyInv` |
| `session` | no faults; differing nonces, short funding, both mutators, failing `tx_A`; 4 thousand states | agreement at every milestone, at most one milestone apart, honest parties never abort, where early messages are dropped, honest parties complete |
| `session_faults` | 2 faults of any kind, among them a flawed capsule; 48 thousand states | the inductive invariant `SInv`; lockstep and agreements under faults; no ties in the transcript sort; a resend changes nothing |
| `swap` | two honest clients; nothing breaks, or the RPC, or the socket, or a transaction; 13 thousand states | an aborted session's process is gone, both wallets are full before one is spent, `tx_A` follows a mined `tx_B`, what exit code 0 is worth, a mined `tx_B` gets bob `tx_A` |
| `relay` | 3 clients, 2 rooms, each client sends at most 2 payloads; 200 thousand states | the two records of membership agree, starts precede payloads, unbroken runs per peer, two who stay hear each other |
| `watch_tx` | 4 blocks, 2 confirmations, deadline 5, poll 2, latency to 2; 7 thousand states | results are true, timeouts honest, the loop ends |
| `adaptor_mock` | 2 answers, 2 digests, 2 salts, 1 bit, all 16 masks of these | the own final signature unlocks, no other one does |
| `handshake_duplicates` | 1 duplicate | violation, below |
| `handshake_missed_hello` | 1 loss | violation, below |
| `session_early_nonces` | no faults, honest | violation, below |
| `session_tampered_commit` | no faults, tampered commit | violation, below |
| `swap_exit_timer` | two honest clients, nothing breaks | violation, below |

Bounds. Three handshake messages per side are in play, so three faults reach
every combination of a loss, a duplicate and a swap around one lock. Two
parameter sets are enough for match and mismatch, two nonces for a sid computed
from the wrong one. The session's messages are sent once each, so two faults
cover a fault and a second one on its consequence. One value is enough where
only equality with what was sent matters (fee, hashes); two nonce reports
exist because the two sides read them independently.

Three clients are enough for the relay's cases: a pair and a stranger in the same
room, in another one, or in the place of one that left. The second payload makes
order and gaps visible. The watcher's times are small but differ in every way
that matters: the deadline falls inside and at the end of a poll, a call may take
longer than the rest of the time, and a receipt may precede its confirmations by
several polls. Two answers make a pair that can be mixed up, with equal or
different digests, salts and secrets; the theorems cover the rest.

`CHECK_DEADLOCK FALSE` everywhere: a protocol that has finished or aborted stops.

Fairness. `FairSpec` and `SessionFairSpec` say that a socket delivers what it
holds (WF of the receive actions, per party: a FIFO inbox delivers its head) and
that a handshake that can be started is. The second is what
`tryStartHandshake` does once both are in the room. `SessionFairSpec` adds that
clients run with `--autoFund` and auto broadcast make their calls and that
announced funding transactions get confirmed. `AbortOnTxA` and the faults are
owed to nobody. Strong fairness is used nowhere: no action is enabled and
disabled again and again.

`SwapFairSpec` says the same of a process that is up: what it is due to run it
runs, and the chain takes in what it was sent. The exit timer, exceptions and
socket errors are owed to nobody, so they may or may not come. `RelayFairSpec` owes
that the relay handles what sockets hold and that clients handle what they are
sent; nobody has to connect, to send more than its hello, or to stay.

The session's liveness is stated from "both have sent a hello": `start()` is a
no-op once a message was handled, so a client that heard the peer before starting
would stay silent. `StartsBeforePayload` proves that the relay and the client
never let that happen, and `GreetingsCross` checks that two clients that stay
in a room of their own hear each other's hello.

### What the code does not keep

* `DuplicatesDoNotAbort` (README.md:289): a handshake message that arrives twice
  aborts with `BAD_MESSAGE`; only later messages are idempotent.
* `AckMakesUpForHello` (messages.ts:109): the ack repeats the parameters "so both
  sides can lock even if one misses the initial hello"; `tryLock` insists on the
  hello, and both wait for ever.
* `BothReachPlanned` (README.md:72): the side that finishes funding first sends
  its nonce report at once; the other may still be waiting for its own view of a
  confirmation, and drops it. Then the session stops: both in EXEC_PREP if alice
  was early (bob has no fee either), alice in EXEC_PREP and bob in
  EXEC_TEMPLATES_SYNC if bob was. `NoOtherEarlyDrop` shows that this is the only place,
  and `HonestCompletes` that without it two honest parties always finish.
* `BothTransactionsBroadcast` (README.md:72): one second after
  EXEC_TEMPLATES_READY each client exits with 0, although the adaptor
  negotiation and both broadcasts are still to come. On a chain with blocks
  minutes apart bob's process ends while he waits for `tx_B`. `TxBPaysBob` shows that
  apart from such an end of a process, and from an RPC that throws, a mined `tx_B`
  always leads to `tx_A`: none of bob's own checks is in the way.
  `ExitZeroMeansTemplates` says what a code 0 does mean.
* `BothAbort` (README.md:250): after the lock a peer's abort is not handled, so
  the party whose tampering was noticed waits for ever.

## Proofs

Each theorem holds for every value of the constants that satisfies the module's
named assumption (`HandshakeAssumption`, `SessionAssumption`, `SwapAssumption`,
`RelayAssumption`, `WatchAssumption`, `AdaptorAssumption`: types, finiteness, and
`null` being no other value, so that a field that holds a payload, a digest or a
signature is not taken for an empty one).

| Module | Theorem | States |
|---|---|---|
| `HandshakeRuntimeProofs` | `Invariance` | `Spec => []IInv` |
| | `TypeCorrect` | `Spec => []TypeOK` |
| | `LocksAgree` | `Spec => []LockAgreement` |
| | `NumbersAreUsedOnce` | `Spec => []OwnSeqUnique` |
| | `LocksAreFinal` | `Spec => LockIsFinal` |
| | `HandshakeImplementsAgreement` | `Spec => ImplementsAgreement` |
| | `LocksNeedAnAck` | `Spec => []LockNeedsPeerAck` |
| | `TranscriptsTellAll` | `Spec => []TranscriptInv` |
| | `TranscriptsAgree` | `Spec => []LockTranscriptAgreement` |
| | `PastIsOrderly` | `Spec => []OrderlyInv` |
| | `LocksAreMutual` | `Spec => []LockIsMutual` |
| `SessionRuntimeProofs` | `SessionInvariance` | `SessionSpec => []SInv` |
| | `SessionTypes` | `SessionSpec => []SessionTypeOK`: every field, and that a session opens exactly with its lock |
| | `NoTies` | `SessionSpec => []SortHasNoTies` |
| | `FundingAgreed` | `SessionSpec => []FundingAgreement` |
| | `TemplatesAgree` | `SessionSpec => []TemplateAgreement` |
| | `AdaptorsAgree` | `SessionSpec => []AdaptorAgreement` |
| | `MilestonesAgree` | `SessionSpec => []MilestoneAgreement` |
| | `NeverTwoAhead` | `SessionSpec => []PhaseLag` |
| | `ResendsIgnored` | `SessionSpec => ResendIgnored` |
| | `SessionsInLockstep` | `SessionSpec => ImplementsLockstep` |
| `SessionFaultlessProofs` | `HonestStayCalm` | `SessionSpec => []CalmInv` |
| | `HonestSessionsNeverAbort` | `SessionSpec => []HonestNeverAborts` |
| | `NothingIsLost` | `SessionSpec => []FaultlessInv` |
| | `NothingElseDropped` | `SessionSpec => NoOtherEarlyDrop` |
| `SwapClientProofs` | `SwapRunsSessions` | `SwapSpec => SessionSpec` |
| | `ClientInvariance` | `SwapSpec => []ClientInv` |
| | `SwapTypes` | `SwapSpec => []SwapTypeOK` |
| | `FundedFirst` | `SwapSpec => []FundedBeforeSpent` |
| | `TxAFollowsTxB` | `SwapSpec => []TxAAfterTxB` |
| | `ExitZeroTemplates` | `SwapSpec => []ExitZeroMeansTemplates` |
| `LockstepProofs` | `StaysInStep` | `Spec => []InStep` |
| `RelayProofs` | `AlwaysStartsFirst` | `RelaySpec => []StartsBeforePayload` |
| | `RoomsAgree` | `RelaySpec => []RelayTypeOK` |
| | `RunsUnbroken` | `RelaySpec => []UnbrokenPerPeer` |
| `AdaptorWatchProofs` | `ResultsAreTrue` | `WatchSpec => []ResultIsTrue` |
| | `TimeoutsAreHonest` | `WatchSpec => []TimeoutIsHonest` |
| | `WatchesEnd` | `WatchSpec => []EndsInTime` |
| | `OwnUnlocksAlways` | `AdaptorSpec => []OwnSignatureUnlocks` |
| | `OthersStayLockedAlways` | `AdaptorSpec => []OthersStayLocked` |

**Handshake**, for every set of parameters and nonces, every subset of the four
faults and any number of them. `LockAgreement` is not inductive: that the locked
sid is the right one rests on the peer's data in the runtime, which rests on the
messages that brought it. So `IInv` adds that every message in flight to `r` is
one its peer could have sent (`Traffic`: with the peer's parameters and nonce if
it is a hello or an ack; no fault changes that), that what a runtime stored is
the peer's own (`PeerDataOK`), that a locked runtime locked the true sid with
matching parameters (`LockOK`), and that numbers in the transcript stay below
the counter and are distinct (`NumberOK`). The lemmas follow the code: what
recording, acknowledging, aborting and `tryLock` do to a sound runtime, then one
per action. The refinement uses `LockOK` for the step that locks and
`LockIsFinal` for the steps after it.

`LockNeedsPeerAck` relates two runtimes and the messages between them, so it needs
an invariant of its own, `AckInv` (theorem `AcksAreEarned`): a runtime that sent an
ack has seen a hello and never forgets either (`Keeps`), an ack on its way, or
noted by its receiver, was sent (`AckTraffic`), and a locked runtime has noted one. No
fault makes an ack out of another message, which is what `FaultSeq` shows of the
network for any such set of messages.

That two locked parties hash one transcript holds under every fault, and rests on
`TranscriptInv`. A runtime's flags say exactly what its transcript holds, one hello
and one ack of its own at most, nothing twice (`TranscriptOK`); what it recorded of
the peer's greetings the peer recorded too (`Confirmed`), since what is in flight is
recorded by its sender (`Spoken`). A locked runtime has all flags set, so it holds all
four records, and they are the peer's.

`LockIsMutual` is about what is not lost, so its invariant `OrderlyInv` supposes that
no fault has happened: what a party recorded of its own messages the peer has
recorded or has in its inbox (`Arrives`), the inbox is in the order of the numbers and
above the last one heard (`OrderlyAt`). Hence what an open runtime hears it accepts
(`HeadAccepted`); the announcement a locked party sends comes last, when its hearer
has locked too (`AnnouncementHeardLast`); no call aborts (`OrderlyHandler`). Once the
inboxes are empty, the ack of whoever locked was heard, and by `AckInv` the hearer
then lacked nothing else.

**Session**, for every set of parameters, nonces, nonce reports, fees and hashes,
both mutators, every subset of the faults and any number of them. None of the
agreements is inductive: that two transcripts are equal, say, rests on what
each party recorded, on where that came from and on what is still in flight. `SInv`
says this in three parts.

* `LocalInv` is about one party: its fields and the records of its transcript
  tell one story, with a conjunct for each phase. A field is set exactly if the
  record that goes with it is there, there is at most one such record, and its
  body is what the fields determine (`KeygenInv` to `BroadcastInv`). The state
  is that of the last milestone passed (`StateInv`), the numbers fit the counters and
  a party's own rise with its phases (`NumberInv`), and the transcript a milestone
  hashed is the one of the types finished with by then (`LogInv`): that is why no late
  record can make two hashes differ.
  The same conjuncts give each field its shape, whence `SessionTypes`.
* `Shared`: what a party recorded of the peer, the peer recorded too.
* `Genuine`: what is in flight is recorded by its sender. Faults take from,
  repeat or permute an inbox, or make a message that asks for nothing. A
  flawed capsule is the one exception: its receiver refuses it and stops, so it
  is in no transcript that is hashed (`Refusal`).

A handler is a sequence of statements on `w`, and the proof follows it.
`SessionRecordProofs` has a lemma for each record a party can add, one for
passing a milestone and one for each `check...` function; `SessionRuntimeProofs`
has one for each handler, each method of the client and each kind of fault, and
`SInv` follows. Between two statements of a handler all of `LocalInv` holds but
`PlanInv`, because alice has both signatures a statement before she plans
(`CoreInv`).

What two parties hold of one another then needs no further induction. A milestone
that needs a record of the peer finds it in the peer's transcript by `Shared`, and
what it says there by the peer's own `LocalInv`: `FundingAgreed`, `TemplatesAgree`,
`AdaptorsAgree`. `MilestonesAgree` collects, milestone by milestone, the types of
which both parties must hold the same records (`Knows...`); no transcript holds
one twice (`NumberInv`), so equal sets are equal hashes. `NeverTwoAhead` uses that
the peer could record what opens a phase only after closing the one before
(`OpenedByPeer`).

Action properties and the refinement need what a step cannot do. `Steady` and
`Final` follow a handler's statements again: it keeps its fields together, touches no
confirmation, passes one milestone at most and only out of the state that milestone
ends, and does not abort as it does (`Progress`). `ResendsIgnored` shows that a message
consumed without a fault was handled by `handleIncoming`, and that each handler
finds a record it has made already, whatever its state (`ResentReturns`).
`SessionsInLockstep` maps a step to the `Pass`, the `Stop` or the stutter of
`Lockstep`: one session moves at most (`OneMoves`), it appends the next milestone
in order (`NextMilestone`), `PhaseLag` and `MilestoneAgreement` after the step
give the two guards of `Pass`.

`HonestNeverAborts` is of another kind: it says that no handler finds anything to
object to, and a handler objects to an old number, to a value that is not its own, to
a message for a phase its party is not ready for. `SInv` cannot say so, since it holds
of a network that permutes messages. `CalmInv` supposes `Honest` (no fault, no
mutator, matching parameters, enough funds, one reading of the nonces) and has two
halves. Until both parties have locked it consists of the invariants of the
handshake, and `OrderlyInv` among them rules an abort out (`Meeting`). From then on
each party is `InStep`: what is on its way to it its sender has recorded, the
numbers rise, and none lies behind the last one heard. With `SInv` this is enough
(`CalmHead`): the message passes the checks all of them meet, and what its handler
compares it with is, by `Shared` and the agreements above, what the sender held when
it recorded it. There is one lemma for each handler (`CalmKeygenAnnounce` to
`CalmTxABroadcast`; `CalmUnused` for what comes too early or again) and for each
method of the client, which must not be called in a state its event does not belong
to. `TurnInStep` then shows that a turn leaves both in step, because what a party
sends takes its number from the counter and is recorded in the same call.
Messages that come too early and are thrown away (`NoOtherEarlyDrop`) break none of
this, since the numbers a party accepts need only rise, not follow.

`NoOtherEarlyDrop` says that a message is in time, of parties that cheat, disagree or
have stopped too, which `CalmInv` leaves out; and it needs to know what is *not* missing,
while `InStep` only says that what comes is in order. `FaultlessInv` supposes nothing but
that no fault has happened. Up to the second lock it is the handshake's story again,
with the announcement of whoever has locked on its way (`Announces`). From then on every
party is `Flowing`:

* `Delivered`: what comes its sender has recorded and its receiver has not, and it comes
  in the order of the numbers. Of what was sent, the reports may have been thrown away;
  but the messages that complete a phase (`Closers`) have been recorded or still come.
* `Eager`: a party that has not aborted has passed every milestone whose conditions
  (`Met`) hold: no handler forgets its `check...` function.
* `Answering`: what a party has accepted it has acknowledged, so that to have the
  peer's next message is to have its acknowledgement, or to hear it first.
* It has refused no capsule, because one that is refused ends the session.

Suppose now that a message of a later phase is found in an earlier state. Its sender
had passed the milestone between, hence (`SInv`) had sent what completes the phase for
the receiver, with a lower number. By `Delivered` that was recorded or is still
behind in the queue, and the order excludes the second; so the receiver has all it
waits for, and being `Eager` has left that state. `NotInKeygen` to `NotInAdaptors` are this
argument, one lemma for each state, and `NothingSkipped` collects them with the two
exceptions: FUNDING is completed by the chain and not by a message, and what is
thrown away there may be missed in EXEC_PREP. That the invariant is kept rests on the
same argument, because what is dropped must be no `Closer`. `Heeds...`, one lemma for
each handler, shows that it leaves its party eager and answering, `Settles...` the same
of the client's methods, and `TurnDelivers` what a turn puts on the way.

**Clients**, for any values and any set of things that may break. `SwapRunsSessions`
shows that the split callbacks of `SwapClient` take no step a session could not
take, so that everything above holds of the clients too. `ClientInv` ties the
sessions to the chain: a confirmed funding transaction is mined, an announced
`tx_B` or `tx_A` was sent, `tx_A` only after `tx_B` was mined, and a process that
ended with 0 had passed `EXEC_TEMPLATES_READY`. `FundedFirst` then says that alice,
who sends `tx_B` once she has planned, is past FUNDED and saw both confirmations;
`ExitZeroTemplates` is `TemplatesAgree` at the time of the exit, kept since.

**Lockstep**, for any number of milestones. With `SessionsInLockstep` it gives
`MilestoneAgreement` and `PhaseLag` a second derivation, from what the abstract
specification allows.

**Relay**, for any number of clients and rooms. Whoever shares a room with
another client has started or has a notice on its way that makes it start
(`Told`: the relay sends `joined` to the newcomer and `peer_joined` to the others
in the handler that adds the member). A payload is queued behind such a notice
(`Ordered`), since the relay forwards only what a member of the room sends (`UpOK`:
a join is the first thing a client sends and a close the last; `Membership`: the
two records agree until the close is handled) and a queue keeps its order.

`UnbrokenPerPeer` needs `RInv` besides. The numbers in a client's queue to the relay
follow from their places (`Line`: the last payload is the last one sent, unless the
line was cut by going away). What a peer was given of it, handed over or still on
its way, ends just before that queue goes on (`Chain`), for whoever the relay
counts as a member; and a client that has not joined has been given nothing yet
(`Newcomers`), so its run may begin anywhere. Each step of the relay then prolongs
a run by its next number (`RunAppend`) or leaves it alone.

**WatchTx**, for all times. `Seen` is what the loop knows when it stands where it
stands, `OnTime` bounds the clock there, and `Noticed` says that an unhindered loop
never falls asleep on a transaction that was confirmed before.

**AdaptorMock**, for any width and any masking function. `XorTwice` (masking twice
is nothing) gives `OwnUnlocks`; `OnlyOwnUnlocks` needs the commitment: the revealed
salt must be the committed one before the unmasked secret is the drawn one. The
invariant is that an answer, once given, never changes.

Only model-checked is all liveness (`BothSettle`, `MismatchAborts`, `HonestCompletes`,
`GreetingsCross`, `TxBPaysBob`), which is out of TLAPS's reach. Every invariant and every
action property of a passing run is a theorem.

## Not modelled

* JSON, hex and Zod formats; SHA-256 and Keccak (injective tuples instead, except
  for the mask of `AdaptorMock`); the encoding of transactions; logging.
* `deriveSecret.ts` and `sigFingerprint.ts`: pure conversions of a signature.
  `bindExpectedSecret` and `completeWithSecret`: `index.ts:515` gives both the same
  variable, so the check cannot fail and there is nothing to get wrong in a model.
* `cli.ts` and the chain id check before the session is created; clients without
  `--autoFund` or `--autoBroadcast`, which stop where a person should act;
  `tamperCapsule` and `tamperNonceReport`, which the command line or the session
  wrapper does not act on.
* A socket that closes without an error: `onClose` only logs, and the process
  stays up (`SwapClient` has sockets that fail with an error). Reorganisations of the
  chain. Two sessions with different sids in one room.
* The relay's refusals of oversized or malformed messages, which no client of this
  repository sends.

## Plan

What is left: two sessions over one `Relay` room, with sid and seq unchecked in
EXECUTION_PLANNED.
