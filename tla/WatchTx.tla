------------------------------ MODULE WatchTx -------------------------------
(***************************************************************************)
(* waitForTxConfirmations of packages/client-cli/src/watchTx.ts: the loop  *)
(* in which alice polls the node for tx_A until it has enough              *)
(* confirmations, has failed, or the deadline has passed.                  *)
(*                                                                         *)
(* Time is the number of units since the call.  A call to the node takes   *)
(* up to MaxLatency of them and returns what the node knew when it         *)
(* returns; the node, or the cache in front of it, may give a block number *)
(* that is behind, but never one behind what it gave before.  The chain is *)
(* external: it grows, and keeps what it has.                              *)
(***************************************************************************)
EXTENDS Integers

CONSTANTS
    Confirmations,   \* args.confirmations
    Poll,            \* pollMs
    Timeout,         \* timeoutMs
    MaxLatency,      \* how long a call to the node takes at most
    MaxHeight,       \* bound: the last block that is mined
    None             \* undefined

ASSUME WatchAssumption ==
    /\ Confirmations \in Nat /\ Poll \in Nat \ {0} /\ Timeout \in Nat
    /\ MaxLatency \in Nat /\ MaxHeight \in Nat
    /\ None \notin Nat /\ None \notin {"success", "reverted"}

VARIABLES
    pc,          \* where the loop is: what it awaits, or will do next
    elapsed,     \* Date.now() - startTime
    result,      \* "waiting", or how the call has ended
    known,       \* the last block number the node has given
    height,      \* the last block of the chain
    txBlock,     \* the block the transaction is in, or None
    txStatus,    \* "success" or "reverted", once it is in a block
    confirmedAt, \* history: when the transaction had its confirmations
    hindered     \* history: a call has thrown, or has been answered late

watchVars == <<pc, elapsed, result, known, height, txBlock, txStatus,
               confirmedAt, hindered>>
chainVars == <<height, txBlock, txStatus, confirmedAt>>

Latency == 0 .. MaxLatency

Passes(t) == elapsed' = elapsed + t

-----------------------------------------------------------------------------
(* One turn of the loop *)

Ends(how) == pc' = "done" /\ result' = how

GoesOn(next) == pc' = next /\ UNCHANGED result

\* Faulty: gives up when the next poll would be too late.
ExpiredEarly == elapsed + Poll > Timeout

\* Faulty: waits on once there is a receipt.
ExpiredUnseen == elapsed > Timeout /\ txBlock = None

Expired == elapsed > Timeout

CheckDeadline ==
    /\ pc = "deadline"
    /\ IF Expired THEN Ends("timeout") ELSE GoesOn("receipt")
    /\ UNCHANGED <<elapsed, known, hindered, chainVars>>

\* getTransactionReceipt: it throws as long as there is no receipt.
GetReceipt ==
    /\ pc = "receipt"
    /\ \E t \in Latency : Passes(t)
    /\ \/ txBlock = None /\ GoesOn("sleep")
       \/ txStatus = "reverted" /\ Ends("reverted")
       \/ txStatus = "success" /\ GoesOn("block")
    /\ UNCHANGED <<known, hindered, chainVars>>

\* Faulty: the block of the transaction does not count.
EnoughOffByOne(current) == current - txBlock + 2 >= Confirmations

Enough(current) == current - txBlock + 1 >= Confirmations

GetBlockNumber ==
    /\ pc = "block"
    /\ \E t \in Latency : Passes(t)
    /\ \E current \in known .. height :
          /\ known' = current
          /\ hindered' = (hindered \/ current < height)
          /\ IF Enough(current) THEN Ends("success") ELSE GoesOn("sleep")
    /\ UNCHANGED chainVars

\* Whatever a call throws is ignored.
CallThrows ==
    /\ pc \in {"receipt", "block"}
    /\ \E t \in Latency : Passes(t)
    /\ hindered' = TRUE
    /\ GoesOn("sleep")
    /\ UNCHANGED <<known, chainVars>>

Sleep ==
    /\ pc = "sleep"
    /\ Passes(Poll)
    /\ GoesOn("deadline")
    /\ UNCHANGED <<known, hindered, chainVars>>

-----------------------------------------------------------------------------
(* The chain *)

ConfirmedBy(h, block, status) ==
    block # None /\ status = "success" /\ h - block + 1 >= Confirmations

\* A block, with the transaction in it or without; the first one that confirms
\* the transaction leaves its time.
MineBlock ==
    /\ height < MaxHeight
    /\ height' = height + 1
    /\ \/ UNCHANGED <<txBlock, txStatus>>
       \/ /\ txBlock = None
          /\ txBlock' = height + 1
          /\ txStatus' \in {"success", "reverted"}
    /\ confirmedAt' = IF confirmedAt = None /\ ConfirmedBy(height', txBlock', txStatus')
                      THEN elapsed ELSE confirmedAt
    /\ UNCHANGED <<pc, elapsed, result, known, hindered>>

WatchInit ==
    /\ pc = "deadline" /\ elapsed = 0 /\ result = "waiting"
    /\ known = 0 /\ height = 0 /\ txBlock = None /\ txStatus = None
    /\ confirmedAt = None /\ hindered = FALSE

WatchNext ==
    \/ CheckDeadline \/ GetReceipt \/ GetBlockNumber \/ CallThrows \/ Sleep
    \/ MineBlock

WatchSpec == WatchInit /\ [][WatchNext]_watchVars

-----------------------------------------------------------------------------
(* Properties *)

\* What the caller is told is so: a success has its confirmations in the chain,
\* however old the block number was, and a failure is one of the transaction.
ResultIsTrue ==
    /\ result = "success" => ConfirmedBy(height, txBlock, txStatus)
    /\ result = "reverted" => txStatus = "reverted"

\* A watch that nothing hindered times out on a confirmed transaction only if
\* the confirmation came within one poll of the deadline or after it: alice
\* aborts an exchange that has succeeded in that case and no other.
TimeoutIsHonest ==
    result = "timeout" /\ ~hindered =>
        confirmedAt = None \/ confirmedAt + Poll > Timeout

\* Whatever the node does, the watch is over one turn after the deadline.
EndsInTime ==
    result = "waiting" => elapsed <= Timeout + 2 * MaxLatency + Poll
=============================================================================
