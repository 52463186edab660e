--------------------------- MODULE BatchTxManager ----------------------------
(***************************************************************************)
(* app/batch_tx_manager.go: every message to the chain (proposals, updates,*)
(* challenge responses) is appended to one queue by AddToBatch; a worker   *)
(* turns the queue into one transaction per tick, and Stop sends what is   *)
(* left.  AddToBatch never waits for the chain: its callers poll for the   *)
(* effect of their message and give up after ten seconds.                  *)
(*                                                                         *)
(* The mutex makes the append and the copy-and-clear of processBatch one   *)
(* step each.  The broadcast runs outside of it, so Stop's processBatch    *)
(* and the worker's can be sending at the same time.                       *)
(***************************************************************************)
EXTENDS Naturals, Sequences

CONSTANTS Msgs,      \* messages, each with the caller that polls for it
          Worker,    \* the goroutine that runs processBatches
          Stoppers   \* who calls Stop: start's defer (start.go:89) and, when New
                     \* cannot reach the cluster, Server.Shutdown (server.go:69)

ASSUME WorkerAssumption == Worker \notin Stoppers

VARIABLES
    txQueue,   \* messages accepted and not taken by a processBatch
    pc,        \* sender -> where it is
    batch,     \* sender -> the copy of the queue it is sending
    tick,      \* the ticker's channel: "none" or "ready" (it buffers one)
    stopCh,    \* "open" or "closed"
    limbo,     \* batches whose wait timed out, still on their way to the chain
    chain,     \* messages the chain took, in order
    lost,      \* messages of batches that failed: the error is only logged
    caller,    \* message -> what its caller knows
    panicked,  \* close of a closed channel
    added,     \* history: messages in the order AddToBatch accepted them
    tooLate,   \* history: messages accepted after stopCh was closed
    timedOut   \* history: some broadcast gave up waiting

vars == <<txQueue, pc, batch, tick, stopCh, limbo, chain, lost, caller, panicked,
          added, tooLate, timedOut>>
history == <<added, tooLate, timedOut>>

Senders == Stoppers \cup {Worker}

(* The messages of a sequence, as a set.                                    *)
In(s) == {s[i] : i \in 1..Len(s)}

Init ==
    /\ txQueue = <<>>
    /\ pc = [s \in Senders |-> IF s = Worker THEN "select" ELSE "idle"]
    /\ batch = [s \in Senders |-> <<>>]
    /\ tick = "none"
    /\ stopCh = "open"
    /\ limbo = {}
    /\ chain = <<>>
    /\ lost = {}
    /\ caller = [m \in Msgs |-> "idle"]
    /\ panicked = "no"
    /\ added = <<>>
    /\ tooLate = {}
    /\ timedOut = "no"

Goto(s, l) == pc' = [pc EXCEPT ![s] = l]

(* Where a sender continues after processBatch: the worker selects again,   *)
(* Stop is done.                                                            *)
Continue(s) == IF s = Worker THEN "select" ELSE "done"

(* AddToBatch: always accepted, whatever became of the worker.              *)
AddToBatch(m) ==
    /\ panicked = "no" /\ caller[m] = "idle"
    /\ txQueue' = Append(txQueue, m)
    /\ caller' = [caller EXCEPT ![m] = "polling"]
    /\ added' = Append(added, m)
    /\ tooLate' = IF stopCh = "closed" THEN tooLate \cup {m} ELSE tooLate
    /\ UNCHANGED <<tick, pc, batch, stopCh, limbo, chain, lost, panicked, timedOut>>

(* PollForUpdate: the initial check or a later tick sees the effect.        *)
PollSucceeds(m) ==
    /\ panicked = "no" /\ caller[m] = "polling" /\ m \in In(chain)
    /\ caller' = [caller EXCEPT ![m] = "ok"]
    /\ UNCHANGED <<tick, txQueue, pc, batch, stopCh, limbo, chain, lost, panicked, history>>

(* PollForUpdate: a query fails, or the ten seconds are over.               *)
PollGivesUp(m) ==
    /\ panicked = "no" /\ caller[m] = "polling"
    /\ caller' = [caller EXCEPT ![m] = "failed"]
    /\ UNCHANGED <<tick, txQueue, pc, batch, stopCh, limbo, chain, lost, panicked, history>>

(* The ticker fires; a tick nobody has read yet is not repeated.            *)
TickerFires ==
    /\ panicked = "no" /\ stopCh = "open" /\ tick = "none"
    /\ tick' = "ready"
    /\ UNCHANGED <<txQueue, pc, batch, stopCh, limbo, chain, lost, caller, panicked, history>>

(* processBatches: the worker reads a tick.  A tick that was there when     *)
(* Stop stopped the ticker is still read if select picks it.                *)
Tick ==
    /\ panicked = "no" /\ pc[Worker] = "select" /\ tick = "ready"
    /\ tick' = "none"
    /\ Goto(Worker, "take")
    /\ UNCHANGED <<txQueue, batch, stopCh, limbo, chain, lost, caller, panicked, history>>

(* processBatches: stopCh is closed, the worker returns.                    *)
WorkerReturns ==
    /\ panicked = "no" /\ pc[Worker] = "select" /\ stopCh = "closed"
    /\ Goto(Worker, "returned")
    /\ UNCHANGED <<tick, txQueue, batch, stopCh, limbo, chain, lost, caller, panicked, history>>

(* Mutant: Stop without the final processBatch.                             *)
BugStopWithoutFlush(s) ==
    /\ panicked = "no" /\ s \in Stoppers /\ pc[s] = "idle"
    /\ stopCh' = "closed"
    /\ Goto(s, "done")
    /\ UNCHANGED <<tick, txQueue, batch, limbo, chain, lost, caller, panicked, history>>

(* Stop: ticker.Stop(), close(stopCh), then a last processBatch.  Closing   *)
(* a closed channel panics.                                                 *)
Stop(s) ==
    /\ panicked = "no" /\ s \in Stoppers /\ pc[s] = "idle"
    /\ IF stopCh = "open"
       THEN /\ stopCh' = "closed"
            /\ Goto(s, "take")
            /\ UNCHANGED panicked
       ELSE /\ panicked' = "yes"
            /\ UNCHANGED <<stopCh, pc>>
    /\ UNCHANGED <<tick, txQueue, batch, limbo, chain, lost, caller, history>>

(* Mutant: the queue is copied and not cleared.                             *)
BugQueueNotCleared(s) ==
    /\ panicked = "no" /\ pc[s] = "take" /\ txQueue # <<>>
    /\ batch' = [batch EXCEPT ![s] = txQueue]
    /\ Goto(s, "send")
    /\ UNCHANGED <<tick, txQueue, stopCh, limbo, chain, lost, caller, panicked, history>>

(* Mutant: the queue is sent newest message first.                          *)
BugNewestFirst(s) ==
    /\ panicked = "no" /\ pc[s] = "take" /\ txQueue # <<>>
    /\ batch' = [batch EXCEPT ![s] =
                   [i \in 1..Len(txQueue) |-> txQueue[Len(txQueue) + 1 - i]]]
    /\ txQueue' = <<>>
    /\ Goto(s, "send")
    /\ UNCHANGED <<tick, stopCh, limbo, chain, lost, caller, panicked, history>>

(* processBatch up to the unlock: copy and clear, or return when empty.     *)
TakeBatch(s) ==
    /\ panicked = "no" /\ pc[s] = "take"
    /\ IF txQueue = <<>>
       THEN /\ Goto(s, Continue(s))
            /\ UNCHANGED <<txQueue, batch>>
       ELSE /\ batch' = [batch EXCEPT ![s] = txQueue]
            /\ txQueue' = <<>>
            /\ Goto(s, "send")
    /\ UNCHANGED <<tick, stopCh, limbo, chain, lost, caller, panicked, history>>

(* BroadcastTxAndWait returns nil: the chain took the whole batch.          *)
BroadcastSucceeds(s) ==
    /\ panicked = "no" /\ pc[s] = "send"
    /\ chain' = chain \o batch[s]
    /\ batch' = [batch EXCEPT ![s] = <<>>]
    /\ Goto(s, Continue(s))
    /\ UNCHANGED <<tick, txQueue, stopCh, limbo, lost, caller, panicked, history>>

(* BroadcastTxAndWait fails: logged, the whole batch is gone.               *)
BroadcastFails(s) ==
    /\ panicked = "no" /\ pc[s] = "send"
    /\ lost' = lost \cup In(batch[s])
    /\ batch' = [batch EXCEPT ![s] = <<>>]
    /\ Goto(s, Continue(s))
    /\ UNCHANGED <<tick, txQueue, stopCh, limbo, chain, caller, panicked, history>>

(* The ten seconds of the broadcast end while the transaction is still in a *)
(* mempool: the manager treats it as failed, the chain may take it later.   *)
BroadcastTimesOut(s) ==
    /\ panicked = "no" /\ pc[s] = "send"
    /\ limbo' = limbo \cup {batch[s]}
    /\ timedOut' = "yes"
    /\ batch' = [batch EXCEPT ![s] = <<>>]
    /\ Goto(s, Continue(s))
    /\ UNCHANGED <<tick, txQueue, stopCh, chain, lost, caller, panicked, added, tooLate>>

(* The chain takes a transaction nobody waits for any more.                 *)
LateInclusion(b) ==
    /\ b \in limbo
    /\ limbo' = limbo \ {b}
    /\ chain' = chain \o b
    /\ UNCHANGED <<tick, txQueue, pc, batch, stopCh, lost, caller, panicked, history>>

(* Or it never does.                                                        *)
LateDrop(b) ==
    /\ b \in limbo
    /\ limbo' = limbo \ {b}
    /\ lost' = lost \cup In(b)
    /\ UNCHANGED <<tick, txQueue, pc, batch, stopCh, chain, caller, panicked, history>>

processBatch(s) ==
    TakeBatch(s) \/ BroadcastSucceeds(s) \/ BroadcastFails(s) \/ BroadcastTimesOut(s)

Next ==
    \/ \E m \in Msgs : AddToBatch(m) \/ PollSucceeds(m) \/ PollGivesUp(m)
    \/ TickerFires \/ Tick \/ WorkerReturns
    \/ \E s \in Senders : Stop(s) \/ processBatch(s)
    \/ \E b \in limbo : LateInclusion(b) \/ LateDrop(b)

Spec == Init /\ [][Next]_vars

(* The ticker ticks and the worker is scheduled; a broadcast returns within *)
(* its timeout, for the worker and for Stop.  Nobody has to call Stop.      *)
Fairness ==
    /\ WF_vars(TickerFires) /\ WF_vars(Tick \/ WorkerReturns)
    /\ \A s \in Senders : WF_vars(processBatch(s))

FairSpec == Spec /\ Fairness

-----------------------------------------------------------------------------
Types ==
    /\ txQueue \in Seq(Msgs)
    /\ pc \in [Senders -> {"idle", "select", "take", "send", "returned", "done"}]
    /\ batch \in [Senders -> Seq(Msgs)]
    /\ tick \in {"none", "ready"}
    /\ stopCh \in {"open", "closed"}
    /\ limbo \in SUBSET Seq(Msgs)
    /\ chain \in Seq(Msgs)
    /\ lost \in SUBSET Msgs
    /\ caller \in [Msgs -> {"idle", "polling", "ok", "failed"}]
    /\ panicked \in {"no", "yes"}
    /\ added \in Seq(Msgs)
    /\ tooLate \in SUBSET Msgs
    /\ timedOut \in {"no", "yes"}

BatchOnlyInSend == \A s \in Senders : pc[s] = "send" <=> batch[s] # <<>>

(* The state has the shape the code gives it, and processBatch broadcasts a *)
(* transaction only with messages in it.                                    *)
TypeOK == Types /\ BatchOnlyInSend

NoRepeat(s) == \A i, j \in 1..Len(s) : s[i] = s[j] => i = j

NoneRepeated ==
    /\ NoRepeat(txQueue) /\ NoRepeat(chain)
    /\ \A s \in Senders : NoRepeat(batch[s])
    /\ \A b \in limbo : NoRepeat(b)

OnePlaceOnly ==
    /\ In(txQueue) \cap In(chain) = {}
    /\ lost \cap (In(txQueue) \cup In(chain)) = {}
    /\ \A s \in Senders : In(batch[s]) \cap (In(txQueue) \cup In(chain) \cup lost) = {}
    /\ \A b \in limbo : In(b) \cap (In(txQueue) \cup In(chain) \cup lost) = {}
    /\ \A s, t \in Senders : s # t => In(batch[s]) \cap In(batch[t]) = {}
    /\ \A b, c \in limbo : b # c => In(b) \cap In(c) = {}
    /\ \A s \in Senders, b \in limbo : In(batch[s]) \cap In(b) = {}

SomePlace ==
    \A m \in In(added) :
        \/ m \in In(txQueue) \/ m \in In(chain) \/ m \in lost
        \/ \E s \in Senders : m \in In(batch[s])
        \/ \E b \in limbo : m \in In(b)

(* processBatch: copying under the mutex and sending outside of it neither  *)
(* duplicates nor forgets a message: an accepted message is in exactly one  *)
(* place, once, and so it cannot reach the chain twice even when Stop and   *)
(* the worker send at the same time.                                        *)
SentAtMostOnce == NoneRepeated /\ OnePlaceOnly /\ SomePlace

(* Stop: once it has returned, a message still in the queue was added after *)
(* the channel was closed; everything accepted before was sent.             *)
StopFlushes ==
    \A s \in Stoppers : pc[s] = "done" => In(txQueue) \subseteq tooLate

(* processBatch: as long as nobody has called Stop and no broadcast has     *)
(* timed out, the chain sees the messages in the order they were added.     *)
ChainInOrder ==
    stopCh = "open" /\ timedOut = "no" =>
        \A i, j \in 1..Len(chain), k, l \in 1..Len(added) :
            i < j /\ chain[i] = added[k] /\ chain[j] = added[l] => k < l

(* processBatches under fairness: a message accepted while the manager runs *)
(* does not stay in it for ever, even when Stop comes in between.           *)
EveryMessageLeaves ==
    \A m \in Msgs : m \in In(added) /\ stopCh = "open" ~>
        \/ m \in In(chain) \/ m \in lost
        \/ \E b \in limbo : m \in In(b)
        \/ panicked = "yes"

(* The manager implements TxOutbox.                                         *)
Outbox == INSTANCE TxOutbox WITH
    status <- [m \in Msgs |-> IF m \in In(chain) THEN "committed"
                              ELSE IF m \in lost THEN "lost"
                              ELSE IF m \in In(added) THEN "pending"
                              ELSE "new"]

(* batch_tx_manager.go as a whole: seen by its callers, messages are handed *)
(* over once and resolved once, the whole batch in one step.                *)
ImplementsOutbox == Outbox!Spec
=============================================================================
