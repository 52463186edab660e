------------------------ MODULE BatchTxManagerProofs -------------------------
(***************************************************************************)
(* The batch transaction manager neither duplicates nor forgets a message, *)
(* Stop flushes, and the manager implements TxOutbox: for any messages and *)
(* any number of places that call Stop.                                    *)
(***************************************************************************)
EXTENDS BatchTxManager, TLAPS

USE WorkerAssumption

-----------------------------------------------------------------------------
(* Sequences as the sets of their messages.                                *)

LEMMA InType ==
  ASSUME NEW s \in Seq(Msgs) PROVE In(s) \in SUBSET Msgs
  BY DEF In

LEMMA InEmpty == In(<<>>) = {}
  BY DEF In

LEMMA InAppend ==
  ASSUME NEW s \in Seq(Msgs), NEW m \in Msgs
  PROVE  /\ In(Append(s, m)) = In(s) \cup {m}
         /\ NoRepeat(s) /\ m \notin In(s) => NoRepeat(Append(s, m))
  <1>1. /\ Len(Append(s, m)) = Len(s) + 1
        /\ \A i \in 1..Len(s) : Append(s, m)[i] = s[i]
        /\ Append(s, m)[Len(s) + 1] = m
    OBVIOUS
  <1>2. ASSUME NEW x PROVE x \in In(Append(s, m)) <=> x \in In(s) \cup {m}
    BY <1>1 DEF In
  <1>3. NoRepeat(s) /\ m \notin In(s) => NoRepeat(Append(s, m))
    BY <1>1 DEF NoRepeat, In
  <1> QED
    BY <1>2, <1>3

LEMMA ConcatIndex ==
  ASSUME NEW s \in Seq(Msgs), NEW t \in Seq(Msgs)
  PROVE  /\ Len(s \o t) = Len(s) + Len(t)
         /\ Len(s) \in Nat /\ Len(t) \in Nat
         /\ \A i \in 1..Len(s) : (s \o t)[i] = s[i]
         /\ \A i \in 1..Len(t) : (s \o t)[Len(s) + i] = t[i]
         /\ \A i \in 1..Len(s \o t) :
               \/ i \in 1..Len(s) /\ (s \o t)[i] = s[i]
               \/ \E j \in 1..Len(t) : i = Len(s) + j /\ (s \o t)[i] = t[j]
  <1>1. /\ Len(s \o t) = Len(s) + Len(t)
        /\ Len(s) \in Nat /\ Len(t) \in Nat
        /\ \A i \in 1..Len(s) : (s \o t)[i] = s[i]
        /\ \A i \in 1..Len(t) : (s \o t)[Len(s) + i] = t[i]
    OBVIOUS
  <1>2. ASSUME NEW i \in 1..Len(s \o t)
        PROVE  \/ i \in 1..Len(s) /\ (s \o t)[i] = s[i]
               \/ \E j \in 1..Len(t) : i = Len(s) + j /\ (s \o t)[i] = t[j]
    <2>1. CASE i <= Len(s)
      BY <1>1, <2>1
    <2>2. CASE i > Len(s)
      <3>1. i - Len(s) \in 1..Len(t) /\ i = Len(s) + (i - Len(s))
        BY <1>1, <2>2
      <3> QED
        BY <1>1, <3>1
    <2> QED
      BY <1>1, <2>1, <2>2
  <1> QED
    BY <1>1, <1>2

LEMMA InConcat ==
  ASSUME NEW s \in Seq(Msgs), NEW t \in Seq(Msgs)
  PROVE  /\ In(s \o t) = In(s) \cup In(t)
         /\ NoRepeat(s) /\ NoRepeat(t) /\ In(s) \cap In(t) = {} => NoRepeat(s \o t)
  <1>1. /\ Len(s \o t) = Len(s) + Len(t)
        /\ Len(s) \in Nat /\ Len(t) \in Nat
        /\ \A i \in 1..Len(s) : (s \o t)[i] = s[i]
        /\ \A i \in 1..Len(t) : (s \o t)[Len(s) + i] = t[i]
    BY ConcatIndex
  <1>2. \A i \in 1..Len(s \o t) :
            \/ i \in 1..Len(s) /\ (s \o t)[i] = s[i]
            \/ \E j \in 1..Len(t) : i = Len(s) + j /\ (s \o t)[i] = t[j]
    BY ConcatIndex
  <1>3. ASSUME NEW x, x \in In(s \o t) PROVE x \in In(s) \cup In(t)
    BY <1>2, <1>3 DEF In
  <1>4. ASSUME NEW x, x \in In(s) PROVE x \in In(s \o t)
    BY <1>1, <1>4 DEF In
  <1>5. ASSUME NEW x, x \in In(t) PROVE x \in In(s \o t)
    <2>1. PICK j \in 1..Len(t) : x = t[j]
      BY <1>5 DEF In
    <2>2. Len(s) + j \in 1..Len(s \o t) /\ (s \o t)[Len(s) + j] = x
      BY <1>1, <2>1
    <2> QED
      BY <2>2 DEF In
  <1>6. ASSUME NoRepeat(s), NoRepeat(t), In(s) \cap In(t) = {}
        PROVE  NoRepeat(s \o t)
    <2>1. \A i \in 1..Len(s), j \in 1..Len(t) : s[i] # t[j]
      BY <1>6 DEF In
    <2> SUFFICES ASSUME NEW i \in 1..Len(s \o t), NEW j \in 1..Len(s \o t),
                        (s \o t)[i] = (s \o t)[j]
                 PROVE  i = j
      BY DEF NoRepeat
    <2> QED
      BY <1>1, <1>2, <1>6, <2>1 DEF NoRepeat
  <1> QED
    BY <1>3, <1>4, <1>5, <1>6

-----------------------------------------------------------------------------
(* The inductive invariant: TypeOK, and a message is known to the manager  *)
(* exactly when its caller handed it over.                                 *)
AddedByCaller == \A m \in Msgs : m \in In(added) <=> caller[m] # "idle"

PlacesAdded ==
    /\ In(txQueue) \subseteq In(added) /\ In(chain) \subseteq In(added)
    /\ lost \subseteq In(added)
    /\ \A s \in Senders : In(batch[s]) \subseteq In(added)
    /\ \A b \in limbo : In(b) \subseteq In(added)

MsgInv == /\ Types /\ BatchOnlyInSend /\ AddedByCaller /\ PlacesAdded
          /\ NoneRepeated /\ OnePlaceOnly /\ SomePlace

LEMMA MsgInit == Init => MsgInv
  <1> SUFFICES ASSUME Init PROVE MsgInv
    OBVIOUS
  <1>1. Types /\ BatchOnlyInSend
    BY DEF Init, Types, BatchOnlyInSend, Senders
  <1>2. AddedByCaller /\ PlacesAdded /\ OnePlaceOnly /\ SomePlace
    BY InEmpty DEF Init, AddedByCaller, PlacesAdded, OnePlaceOnly, SomePlace, Senders
  <1>3. NoneRepeated
    BY DEF Init, NoneRepeated, NoRepeat, Senders
  <1> QED
    BY <1>1, <1>2, <1>3 DEF MsgInv

LEMMA AddStep ==
  ASSUME MsgInv, NEW m \in Msgs, AddToBatch(m) PROVE MsgInv'
  <1> USE DEF AddToBatch, MsgInv
  <1>1. m \notin In(added)
    BY DEF AddedByCaller, Types
  <1>2. /\ In(txQueue') = In(txQueue) \cup {m}
        /\ In(added') = In(added) \cup {m}
        /\ NoRepeat(txQueue')
    BY <1>1, InAppend DEF Types, PlacesAdded, NoneRepeated
  <1>3. Types'
    BY DEF Types
  <1>4. BatchOnlyInSend' /\ AddedByCaller'
    BY <1>2 DEF BatchOnlyInSend, AddedByCaller, Types
  <1>5. PlacesAdded'
    BY <1>2 DEF PlacesAdded
  <1>6. NoneRepeated'
    BY <1>2 DEF NoneRepeated
  <1>7. OnePlaceOnly'
    <2>1. /\ UNCHANGED <<batch, limbo, chain, lost>>
          /\ m \notin In(chain) /\ m \notin lost
          /\ \A s \in Senders : m \notin In(batch[s])
          /\ \A b \in limbo : m \notin In(b)
      BY <1>1 DEF PlacesAdded
    <2>2. /\ In(txQueue') \cap In(chain') = {}
          /\ lost' \cap (In(txQueue') \cup In(chain')) = {}
      BY <1>2, <2>1 DEF OnePlaceOnly
    <2>3. \A s \in Senders :
              In(batch'[s]) \cap (In(txQueue') \cup In(chain') \cup lost') = {}
      BY <1>2, <2>1 DEF OnePlaceOnly
    <2>4. \A b \in limbo' :
              In(b) \cap (In(txQueue') \cup In(chain') \cup lost') = {}
      BY <1>2, <2>1 DEF OnePlaceOnly
    <2> QED
      BY <2>1, <2>2, <2>3, <2>4 DEF OnePlaceOnly
  <1>8. SomePlace'
    BY <1>2 DEF SomePlace
  <1> QED
    BY <1>3, <1>4, <1>5, <1>6, <1>7, <1>8

(* Steps that move no message.                                             *)
LEMMA QuietStep ==
  ASSUME MsgInv,
         \/ \E m \in Msgs : PollSucceeds(m) \/ PollGivesUp(m)
         \/ TickerFires \/ Tick \/ WorkerReturns
         \/ \E s \in Senders : Stop(s)
         \/ UNCHANGED vars
  PROVE  MsgInv'
  <1>1. /\ UNCHANGED <<txQueue, batch, limbo, chain, lost, added, tooLate, timedOut>>
        /\ Types'
        /\ \A s \in Senders : pc[s] = "send" <=> pc'[s] = "send"
        /\ \A m \in Msgs : caller[m] = "idle" <=> caller'[m] = "idle"
    BY DEF MsgInv, Types, PollSucceeds, PollGivesUp, TickerFires, Tick,
           WorkerReturns, Stop, Goto, vars, history, Senders
  <1> QED
    BY <1>1 DEF MsgInv, BatchOnlyInSend, AddedByCaller, PlacesAdded,
                NoneRepeated, OnePlaceOnly, SomePlace

LEMMA TakeStep ==
  ASSUME MsgInv, NEW s \in Senders, TakeBatch(s) PROVE MsgInv'
  <1> USE DEF TakeBatch, MsgInv, Goto, Continue, history
  <1>1. batch[s] = <<>> /\ In(batch[s]) = {}
    BY InEmpty DEF BatchOnlyInSend
  <1>2. CASE txQueue = <<>>
    <2>1. Types'
      BY <1>2 DEF Types, Senders
    <2>2. BatchOnlyInSend'
      BY <1>1, <1>2 DEF Types, BatchOnlyInSend
    <2> QED
      BY <1>1, <1>2, <2>1, <2>2 DEF AddedByCaller, PlacesAdded,
         NoneRepeated, OnePlaceOnly, SomePlace
  <1>3. CASE txQueue # <<>>
    <2>1. /\ batch' = [batch EXCEPT ![s] = txQueue] /\ txQueue' = <<>>
          /\ pc' = [pc EXCEPT ![s] = "send"]
          /\ UNCHANGED <<limbo, chain, lost, caller, added>>
      BY <1>3
    <2>2. In(txQueue') = {} /\ NoRepeat(txQueue')
      BY <2>1, InEmpty DEF NoRepeat
    <2>3. Types'
      BY <1>3, <2>1 DEF Types
    <2>4. /\ batch'[s] = txQueue
          /\ \A t \in Senders : t # s => batch'[t] = batch[t]
      BY <2>1 DEF Types
    <2>5. BatchOnlyInSend' /\ AddedByCaller'
      BY <2>1, <2>4 DEF BatchOnlyInSend, AddedByCaller, Types
    <2>6. PlacesAdded'
      BY <2>1, <2>2, <2>4 DEF PlacesAdded
    <2>7. NoneRepeated'
      BY <2>1, <2>2, <2>4 DEF NoneRepeated
    <2>8. OnePlaceOnly'
      BY <2>1, <2>2, <2>4 DEF OnePlaceOnly
    <2>9. SomePlace'
      BY <1>1, <2>1, <2>4 DEF SomePlace
    <2> QED
      BY <2>3, <2>5, <2>6, <2>7, <2>8, <2>9
  <1> QED
    BY <1>2, <1>3

(* A sender hands its batch to the chain, to the losses or to limbo.       *)
LEMMA SendStep ==
  ASSUME MsgInv, NEW s \in Senders,
         BroadcastSucceeds(s) \/ BroadcastFails(s) \/ BroadcastTimesOut(s)
  PROVE  MsgInv'
  <1> USE DEF MsgInv
  <1> DEFINE b == batch[s]
  <1>1. /\ batch' = [batch EXCEPT ![s] = <<>>]
        /\ pc' = [pc EXCEPT ![s] = Continue(s)]
        /\ UNCHANGED <<txQueue, caller, added, panicked, tick, stopCh, tooLate>>
    BY DEF BroadcastSucceeds, BroadcastFails, BroadcastTimesOut, Goto, history
  <1>2. /\ batch'[s] = <<>> /\ In(batch'[s]) = {} /\ NoRepeat(batch'[s])
        /\ \A t \in Senders : t # s => batch'[t] = batch[t]
    BY <1>1, InEmpty DEF Types, NoRepeat
  <1>3. b \in Seq(Msgs) /\ chain \in Seq(Msgs) /\ In(b) \subseteq Msgs
    BY InType DEF Types
  <1>4. BatchOnlyInSend' /\ AddedByCaller'
    BY <1>1, <1>2 DEF BatchOnlyInSend, AddedByCaller, Types, Continue
  <1>5. pc' \in [Senders -> {"idle", "select", "take", "send", "returned", "done"}]
    BY <1>1 DEF Types, Continue
  <1>6. CASE BroadcastSucceeds(s)
    <2>1. chain' = chain \o b /\ UNCHANGED <<limbo, lost, timedOut>>
      BY <1>6 DEF BroadcastSucceeds, history
    <2>2. In(chain') = In(chain) \cup In(b) /\ NoRepeat(chain')
      BY <1>3, <2>1, InConcat DEF OnePlaceOnly, NoneRepeated
    <2>3. Types'
      BY <1>1, <1>3, <1>5, <2>1 DEF Types
    <2>4. PlacesAdded' /\ NoneRepeated'
      BY <1>1, <1>2, <2>1, <2>2 DEF PlacesAdded, NoneRepeated
    <2>5. OnePlaceOnly'
      BY <1>1, <1>2, <2>1, <2>2 DEF OnePlaceOnly
    <2>6. SomePlace'
      BY <1>1, <1>2, <2>1, <2>2 DEF SomePlace
    <2> QED
      BY <1>4, <2>3, <2>4, <2>5, <2>6
  <1>7. CASE BroadcastFails(s)
    <2>1. lost' = lost \cup In(b) /\ UNCHANGED <<limbo, chain, timedOut>>
      BY <1>7 DEF BroadcastFails, history
    <2>3. Types'
      BY <1>1, <1>3, <1>5, <2>1 DEF Types
    <2>4. PlacesAdded' /\ NoneRepeated'
      BY <1>1, <1>2, <2>1 DEF PlacesAdded, NoneRepeated
    <2>5. OnePlaceOnly'
      BY <1>1, <1>2, <2>1 DEF OnePlaceOnly
    <2>6. SomePlace'
      BY <1>1, <1>2, <2>1 DEF SomePlace
    <2> QED
      BY <1>4, <2>3, <2>4, <2>5, <2>6
  <1>8. CASE BroadcastTimesOut(s)
    <2>1. /\ limbo' = limbo \cup {b} /\ timedOut' = "yes"
          /\ UNCHANGED <<lost, chain>>
      BY <1>8 DEF BroadcastTimesOut
    <2>3. Types'
      BY <1>1, <1>3, <1>5, <2>1 DEF Types
    <2>4. PlacesAdded' /\ NoneRepeated'
      BY <1>1, <1>2, <2>1 DEF PlacesAdded, NoneRepeated
    <2>5. OnePlaceOnly'
      BY <1>1, <1>2, <2>1 DEF OnePlaceOnly
    <2>6. SomePlace'
      BY <1>1, <1>2, <2>1 DEF SomePlace
    <2> QED
      BY <1>4, <2>3, <2>4, <2>5, <2>6
  <1> QED
    BY <1>6, <1>7, <1>8

(* The chain decides about a batch nobody waits for.                       *)
LEMMA LateStep ==
  ASSUME MsgInv, NEW b \in limbo, LateInclusion(b) \/ LateDrop(b)
  PROVE  MsgInv'
  <1> USE DEF MsgInv
  <1>1. /\ limbo' = limbo \ {b}
        /\ UNCHANGED <<tick, txQueue, pc, batch, stopCh, caller, panicked, added,
                       tooLate, timedOut>>
    BY DEF LateInclusion, LateDrop, history
  <1>2. b \in Seq(Msgs) /\ chain \in Seq(Msgs) /\ In(b) \subseteq Msgs
    BY InType DEF Types
  <1>3. BatchOnlyInSend' /\ AddedByCaller'
    BY <1>1 DEF BatchOnlyInSend, AddedByCaller
  <1>4. CASE LateInclusion(b)
    <2>1. chain' = chain \o b /\ UNCHANGED lost
      BY <1>4 DEF LateInclusion
    <2>2. In(chain') = In(chain) \cup In(b) /\ NoRepeat(chain')
      BY <1>2, <2>1, InConcat DEF OnePlaceOnly, NoneRepeated
    <2>3. Types'
      BY <1>1, <1>2, <2>1 DEF Types
    <2>4. PlacesAdded' /\ NoneRepeated'
      BY <1>1, <2>1, <2>2 DEF PlacesAdded, NoneRepeated
    <2>5. OnePlaceOnly'
      BY <1>1, <2>1, <2>2 DEF OnePlaceOnly
    <2>6. SomePlace'
      BY <1>1, <2>1, <2>2 DEF SomePlace
    <2> QED
      BY <1>3, <2>3, <2>4, <2>5, <2>6
  <1>5. CASE LateDrop(b)
    <2>1. lost' = lost \cup In(b) /\ UNCHANGED chain
      BY <1>5 DEF LateDrop
    <2>3. Types'
      BY <1>1, <1>2, <2>1 DEF Types
    <2>4. PlacesAdded' /\ NoneRepeated'
      BY <1>1, <2>1 DEF PlacesAdded, NoneRepeated
    <2>5. OnePlaceOnly'
      BY <1>1, <2>1 DEF OnePlaceOnly
    <2>6. SomePlace'
      BY <1>1, <2>1 DEF SomePlace
    <2> QED
      BY <1>3, <2>3, <2>4, <2>5, <2>6
  <1> QED
    BY <1>4, <1>5

LEMMA MsgStep == MsgInv /\ [Next]_vars => MsgInv'
  BY AddStep, QuietStep, TakeStep, SendStep, LateStep DEF Next, processBatch

LEMMA MsgInvariant == Spec => []MsgInv
  BY MsgInit, MsgStep, PTL DEF Spec

(* The type invariant, and: a message is never sent twice nor forgotten.   *)
THEOREM OneTransactionPerMessage == Spec => [](TypeOK /\ SentAtMostOnce)
  <1>1. MsgInv => TypeOK /\ SentAtMostOnce
    BY DEF MsgInv, TypeOK, SentAtMostOnce
  <1> QED
    BY <1>1, MsgInvariant, PTL

-----------------------------------------------------------------------------
(* A Stop that sends or has returned took the queue after the channel was  *)
(* closed: what is in the queue now came later.                            *)
FlushInv ==
    \A s \in Stoppers :
        /\ pc[s] # "idle" => stopCh = "closed"
        /\ pc[s] \in {"send", "done"} => In(txQueue) \subseteq tooLate

LEMMA FlushStep ==
  ASSUME MsgInv, FlushInv, [Next]_vars PROVE FlushInv'
  <1> USE DEF FlushInv, MsgInv, Senders
  <1>1. CASE \E m \in Msgs : AddToBatch(m)
    <2>1. PICK m \in Msgs : AddToBatch(m)
      BY <1>1
    <2>2. In(txQueue') = In(txQueue) \cup {m}
      BY <2>1, InAppend DEF AddToBatch, Types
    <2> QED
      BY <2>1, <2>2 DEF AddToBatch
  <1>2. CASE \/ \E m \in Msgs : PollSucceeds(m) \/ PollGivesUp(m)
             \/ TickerFires \/ \E b \in limbo : LateInclusion(b) \/ LateDrop(b)
             \/ UNCHANGED vars
    BY <1>2 DEF PollSucceeds, PollGivesUp, TickerFires, LateInclusion, LateDrop,
       vars, history
  <1>3. CASE Tick \/ WorkerReturns
    BY <1>3 DEF Tick, WorkerReturns, Goto, history, Types
  <1>4. CASE \E s \in Senders : Stop(s)
    <2>1. PICK s \in Stoppers : Stop(s)
      BY <1>4 DEF Stop
    <2>2. CASE stopCh = "open"
      BY <2>1, <2>2 DEF Stop, Goto, history, Types
    <2>3. CASE stopCh # "open"
      BY <2>1, <2>3 DEF Stop, Goto, history, Types
    <2> QED
      BY <2>2, <2>3
  <1>5. CASE \E s \in Senders : TakeBatch(s)
    <2>1. PICK s \in Senders : TakeBatch(s)
      BY <1>5
    <2>2. In(txQueue') = {} /\ UNCHANGED <<stopCh, tooLate>>
      BY <2>1, InEmpty DEF TakeBatch, history
    <2>3. \A t \in Senders : t # s => pc'[t] = pc[t]
      BY <2>1 DEF TakeBatch, Goto, Types
    <2> QED
      BY <2>1, <2>2, <2>3 DEF TakeBatch
  <1>6. CASE \E s \in Senders : \/ BroadcastSucceeds(s) \/ BroadcastFails(s)
                                 \/ BroadcastTimesOut(s)
    <2>1. PICK s \in Senders : \/ BroadcastSucceeds(s) \/ BroadcastFails(s)
                               \/ BroadcastTimesOut(s)
      BY <1>6
    <2>2. /\ UNCHANGED <<txQueue, stopCh, tooLate>>
          /\ pc[s] = "send" /\ \A t \in Senders : t # s => pc'[t] = pc[t]
      BY <2>1 DEF BroadcastSucceeds, BroadcastFails, BroadcastTimesOut, Goto,
         history, Types
    <2> QED
      BY <2>2
  <1> QED
    BY <1>1, <1>2, <1>3, <1>4, <1>5, <1>6 DEF Next, processBatch

(* Everything accepted before Stop closed the channel has been sent when   *)
(* Stop returns, whichever of the worker and Stop took it.                 *)
THEOREM FlushedOnStop == Spec => []StopFlushes
  <1>1. Init => FlushInv
    BY DEF Init, FlushInv, Senders
  <1>2. FlushInv => StopFlushes
    BY DEF FlushInv, StopFlushes
  <1> QED
    BY <1>1, <1>2, FlushStep, MsgInvariant, PTL DEF Spec

-----------------------------------------------------------------------------
(***************************************************************************)
(* The order of the messages.  Until Stop is called only the worker sends, *)
(* and until a broadcast times out nothing reaches the chain late: then    *)
(* the chain, the worker's batch and the queue follow each other, and each *)
(* is sorted by the order in which AddToBatch accepted its messages.       *)
(***************************************************************************)
Sorted(s, a) ==
    \A i, j \in 1..Len(s), k, l \in 1..Len(a) :
        i < j /\ s[i] = a[k] /\ s[j] = a[l] => k < l

Precedes(s, t, a) ==
    \A i \in 1..Len(s), j \in 1..Len(t), k, l \in 1..Len(a) :
        s[i] = a[k] /\ t[j] = a[l] => k < l

OnlyWorkerSends == limbo = {} /\ \A s \in Stoppers : pc[s] = "idle"

InSequence ==
    /\ Sorted(chain, added) /\ Sorted(batch[Worker], added) /\ Sorted(txQueue, added)
    /\ Precedes(chain, batch[Worker], added)
    /\ Precedes(chain, txQueue, added)
    /\ Precedes(batch[Worker], txQueue, added)

OrderInv == stopCh = "open" /\ timedOut = "no" => OnlyWorkerSends /\ InSequence

LEMMA EmptyInOrder ==
  ASSUME NEW s, NEW a
  PROVE  Sorted(<<>>, a) /\ Precedes(<<>>, s, a) /\ Precedes(s, <<>>, a)
  BY DEF Sorted, Precedes

(* Accepting one more message disturbs no order, and it comes last.        *)
LEMMA AcceptKeepsOrder ==
  ASSUME NEW a \in Seq(Msgs), NEW m \in Msgs, m \notin In(a),
         NEW s \in Seq(Msgs), NEW t \in Seq(Msgs),
         In(s) \subseteq In(a), In(t) \subseteq In(a)
  PROVE  /\ Sorted(s, a) => Sorted(s, Append(a, m))
         /\ Sorted(s, a) => Sorted(Append(s, m), Append(a, m))
         /\ Precedes(s, t, a) => Precedes(s, t, Append(a, m))
         /\ Precedes(s, t, a) => Precedes(s, Append(t, m), Append(a, m))
  <1> DEFINE b == Append(a, m)
  <1>1. /\ Len(b) = Len(a) + 1 /\ Len(a) \in Nat
        /\ \A k \in 1..Len(a) : b[k] = a[k]
        /\ b[Len(a) + 1] = m
    OBVIOUS
  <1>2. \A x \in In(a), k \in 1..Len(b) : x = b[k] => k \in 1..Len(a) /\ x = a[k]
    BY <1>1 DEF In
  <1>3. \A k \in 1..Len(b) : m = b[k] => k = Len(a) + 1
    BY <1>1 DEF In
  <1>4. /\ \A i \in 1..Len(s) : s[i] \in In(a)
        /\ \A i \in 1..Len(t) : t[i] \in In(a)
    BY DEF In
  <1>5. ASSUME NEW u \in Seq(Msgs)
        PROVE  /\ Len(u) \in Nat /\ Len(Append(u, m)) = Len(u) + 1
               /\ \A i \in 1..Len(u) : Append(u, m)[i] = u[i]
               /\ Append(u, m)[Len(u) + 1] = m
    OBVIOUS
  <1> HIDE DEF b
  <1>6. Sorted(s, a) => Sorted(s, b)
    BY <1>2, <1>4 DEF Sorted
  <1>7. ASSUME Precedes(s, t, a) PROVE Precedes(s, t, b)
    <2> SUFFICES ASSUME NEW i \in 1..Len(s), NEW j \in 1..Len(t),
                        NEW k \in 1..Len(b), NEW l \in 1..Len(b),
                        s[i] = b[k], t[j] = b[l]
                 PROVE  k < l
      BY DEF Precedes
    <2>1. k \in 1..Len(a) /\ s[i] = a[k] /\ l \in 1..Len(a) /\ t[j] = a[l]
      BY <1>2, <1>4
    <2> QED
      BY <1>7, <2>1 DEF Precedes
  <1>8. ASSUME Sorted(s, a) PROVE Sorted(Append(s, m), b)
    <2> SUFFICES ASSUME NEW i \in 1..(Len(s) + 1), NEW j \in 1..(Len(s) + 1),
                        NEW k \in 1..Len(b), NEW l \in 1..Len(b), i < j,
                        Append(s, m)[i] = b[k], Append(s, m)[j] = b[l]
                 PROVE  k < l
      BY <1>5 DEF Sorted
    <2>1. i \in 1..Len(s) /\ s[i] = b[k] /\ k \in 1..Len(a)
      BY <1>2, <1>4, <1>5
    <2>2. CASE j = Len(s) + 1
      <3>1. l = Len(a) + 1
        BY <1>3, <1>5, <2>2
      <3> QED
        BY <1>1, <2>1, <3>1
    <2>3. CASE j # Len(s) + 1
      <3>1. j \in 1..Len(s) /\ s[j] = b[l]
        BY <1>5, <2>3
      <3> QED
        BY <1>6, <1>8, <2>1, <3>1 DEF Sorted
    <2> QED
      BY <2>2, <2>3
  <1>9. ASSUME Precedes(s, t, a) PROVE Precedes(s, Append(t, m), b)
    <2> SUFFICES ASSUME NEW i \in 1..Len(s), NEW j \in 1..(Len(t) + 1),
                        NEW k \in 1..Len(b), NEW l \in 1..Len(b),
                        s[i] = b[k], Append(t, m)[j] = b[l]
                 PROVE  k < l
      BY <1>5 DEF Precedes
    <2>1. k \in 1..Len(a)
      BY <1>2, <1>4
    <2>2. CASE j = Len(t) + 1
      <3>1. l = Len(a) + 1
        BY <1>3, <1>5, <2>2
      <3> QED
        BY <1>1, <2>1, <3>1
    <2>3. CASE j # Len(t) + 1
      <3>1. j \in 1..Len(t) /\ t[j] = b[l]
        BY <1>5, <2>3
      <3> QED
        BY <1>7, <1>9, <3>1 DEF Precedes
    <2> QED
      BY <2>2, <2>3
  <1> QED
    BY <1>6, <1>7, <1>8, <1>9 DEF b

(* Two sorted pieces, one after the other, are sorted.                     *)
LEMMA ConcatInOrder ==
  ASSUME NEW a \in Seq(Msgs), NEW s \in Seq(Msgs), NEW t \in Seq(Msgs),
         NEW u \in Seq(Msgs)
  PROVE  /\ Sorted(s, a) /\ Sorted(t, a) /\ Precedes(s, t, a) => Sorted(s \o t, a)
         /\ Precedes(s, u, a) /\ Precedes(t, u, a) => Precedes(s \o t, u, a)
  <1> DEFINE c == s \o t
  <1>1. /\ Len(s) \in Nat /\ Len(t) \in Nat
        /\ \A i \in 1..Len(c) :
             \/ i \in 1..Len(s) /\ c[i] = s[i]
             \/ \E j \in 1..Len(t) : i = Len(s) + j /\ c[i] = t[j]
    BY ConcatIndex
  <1> HIDE DEF c
  <1>2. ASSUME Sorted(s, a), Sorted(t, a), Precedes(s, t, a) PROVE Sorted(c, a)
    <2> SUFFICES ASSUME NEW i \in 1..Len(c), NEW j \in 1..Len(c),
                        NEW k \in 1..Len(a), NEW l \in 1..Len(a), i < j,
                        c[i] = a[k], c[j] = a[l]
                 PROVE  k < l
      BY DEF Sorted
    <2>1. CASE j \in 1..Len(s) /\ c[j] = s[j]
      <3>1. i \in 1..Len(s) /\ c[i] = s[i]
        BY <1>1, <2>1
      <3> QED
        BY <1>2, <2>1, <3>1 DEF Sorted
    <2>2. CASE \E y \in 1..Len(t) : j = Len(s) + y /\ c[j] = t[y]
      <3>1. PICK y \in 1..Len(t) : j = Len(s) + y /\ c[j] = t[y]
        BY <2>2
      <3>2. CASE i \in 1..Len(s) /\ c[i] = s[i]
        BY <1>2, <3>1, <3>2 DEF Precedes
      <3>3. CASE \E x \in 1..Len(t) : i = Len(s) + x /\ c[i] = t[x]
        <4>1. PICK x \in 1..Len(t) : i = Len(s) + x /\ c[i] = t[x]
          BY <3>3
        <4>2. x < y
          BY <1>1, <3>1, <4>1
        <4> QED
          BY <1>2, <3>1, <4>1, <4>2 DEF Sorted
      <3> QED
        BY <1>1, <3>2, <3>3
    <2> QED
      BY <1>1, <2>1, <2>2
  <1>3. ASSUME Precedes(s, u, a), Precedes(t, u, a) PROVE Precedes(c, u, a)
    <2> SUFFICES ASSUME NEW i \in 1..Len(c), NEW j \in 1..Len(u),
                        NEW k \in 1..Len(a), NEW l \in 1..Len(a),
                        c[i] = a[k], u[j] = a[l]
                 PROVE  k < l
      BY DEF Precedes
    <2>1. CASE i \in 1..Len(s) /\ c[i] = s[i]
      BY <1>3, <2>1 DEF Precedes
    <2>2. CASE \E x \in 1..Len(t) : i = Len(s) + x /\ c[i] = t[x]
      BY <1>3, <2>2 DEF Precedes
    <2> QED
      BY <1>1, <2>1, <2>2
  <1> QED
    BY <1>2, <1>3 DEF c

LEMMA OrderStep ==
  ASSUME MsgInv, OrderInv, [Next]_vars PROVE OrderInv'
  <1> SUFFICES ASSUME stopCh' = "open", timedOut' = "no"
               PROVE  OnlyWorkerSends' /\ InSequence'
    BY DEF OrderInv
  <1> USE DEF MsgInv
  <1>0. Worker \in Senders /\ Stoppers \subseteq Senders
    BY DEF Senders
  <1>a. stopCh = "open" /\ timedOut = "no"
    BY DEF Next, AddToBatch, PollSucceeds, PollGivesUp, TickerFires, Tick,
       WorkerReturns, Stop, processBatch, TakeBatch, BroadcastSucceeds,
       BroadcastFails, BroadcastTimesOut, LateInclusion, LateDrop, vars, history,
       Types
  <1>b. OnlyWorkerSends /\ InSequence
    BY <1>a DEF OrderInv
  <1>c. \A s \in Senders : pc[s] \in {"take", "send"} => s = Worker
    BY <1>b DEF OnlyWorkerSends, Senders
  <1>d. /\ chain \in Seq(Msgs) /\ batch[Worker] \in Seq(Msgs)
        /\ txQueue \in Seq(Msgs) /\ added \in Seq(Msgs)
    BY <1>0 DEF Types
  <1>1. ASSUME NEW m \in Msgs, AddToBatch(m) PROVE OnlyWorkerSends' /\ InSequence'
    <2>1. /\ txQueue' = Append(txQueue, m) /\ added' = Append(added, m)
          /\ UNCHANGED <<pc, batch, limbo, chain>>
      BY <1>1 DEF AddToBatch
    <2>2. m \notin In(added)
      BY <1>1 DEF AddToBatch, AddedByCaller
    <2>3. /\ In(chain) \subseteq In(added) /\ In(batch[Worker]) \subseteq In(added)
          /\ In(txQueue) \subseteq In(added)
      BY <1>0 DEF PlacesAdded
    <2>4. OnlyWorkerSends'
      BY <1>b, <2>1 DEF OnlyWorkerSends
    <2>5. /\ Sorted(chain', added') /\ Sorted(batch'[Worker], added')
          /\ Precedes(chain', batch'[Worker], added')
      BY <1>b, <1>d, <2>1, <2>2, <2>3, AcceptKeepsOrder DEF InSequence
    <2>6. Sorted(txQueue', added')
      BY <1>b, <1>d, <2>1, <2>2, <2>3, AcceptKeepsOrder DEF InSequence
    <2>7. /\ Precedes(chain', txQueue', added')
          /\ Precedes(batch'[Worker], txQueue', added')
      BY <1>b, <1>d, <2>1, <2>2, <2>3, AcceptKeepsOrder DEF InSequence
    <2> QED
      BY <2>4, <2>5, <2>6, <2>7 DEF InSequence
  <1>2. CASE UNCHANGED <<txQueue, batch, limbo, chain, added>>
             /\ \A s \in Stoppers : pc'[s] = pc[s]
    BY <1>b, <1>2 DEF OnlyWorkerSends, InSequence
  <1>3. CASE Tick \/ WorkerReturns
    <2>1. \A s \in Stoppers : pc'[s] = pc[s]
      BY <1>0, <1>3 DEF Tick, WorkerReturns, Goto, Types
    <2> QED
      BY <1>2, <1>3, <2>1 DEF Tick, WorkerReturns, history
  <1>4. ASSUME NEW s \in Senders, Stop(s) PROVE OnlyWorkerSends' /\ InSequence'
    BY <1>2, <1>4, <1>a DEF Stop
  <1>5. ASSUME NEW s \in Senders, TakeBatch(s) PROVE OnlyWorkerSends' /\ InSequence'
    <2>1. s = Worker /\ pc[Worker] = "take"
      BY <1>5, <1>c DEF TakeBatch
    <2>2. \A t \in Stoppers : pc'[t] = pc[t]
      BY <1>0, <1>5, <2>1 DEF TakeBatch, Goto, Types
    <2>3. CASE txQueue = <<>>
      BY <1>2, <1>5, <2>2, <2>3 DEF TakeBatch, history
    <2>4. CASE txQueue # <<>>
      <3>1. /\ batch'[Worker] = txQueue /\ txQueue' = <<>>
            /\ UNCHANGED <<limbo, chain, added>>
        BY <1>0, <1>5, <2>1, <2>4 DEF TakeBatch, Types, history
      <3> QED
        BY <1>b, <2>2, <3>1, EmptyInOrder DEF OnlyWorkerSends, InSequence
    <2> QED
      BY <2>3, <2>4
  <1>6. ASSUME NEW s \in Senders, BroadcastSucceeds(s) \/ BroadcastFails(s)
        PROVE  OnlyWorkerSends' /\ InSequence'
    <2>1. s = Worker
      BY <1>6, <1>c DEF BroadcastSucceeds, BroadcastFails
    <2>2. \A t \in Stoppers : pc'[t] = pc[t]
      BY <1>0, <1>6, <2>1 DEF BroadcastSucceeds, BroadcastFails, Goto, Types
    <2>3. batch'[Worker] = <<>> /\ UNCHANGED <<txQueue, limbo, added>>
      BY <1>0, <1>6, <2>1 DEF BroadcastSucceeds, BroadcastFails, history, Types
    <2>4. chain' = chain \/ chain' = chain \o batch[Worker]
      BY <1>6, <2>1 DEF BroadcastSucceeds, BroadcastFails
    <2>5. Sorted(chain', added) /\ Precedes(chain', txQueue, added)
      BY <1>b, <1>d, <2>4, ConcatInOrder DEF InSequence
    <2> QED
      BY <1>b, <2>2, <2>3, <2>5, EmptyInOrder DEF OnlyWorkerSends, InSequence
  <1> QED
    BY <1>1, <1>2, <1>3, <1>4, <1>5, <1>6, <1>b
       DEF Next, processBatch, PollSucceeds, PollGivesUp, TickerFires,
       BroadcastTimesOut, OnlyWorkerSends, vars, history

(* The chain sees the messages in the order in which they were added, until *)
(* Stop becomes a second sender or a broadcast times out.                  *)
THEOREM MessagesInOrder == Spec => []ChainInOrder
  <1>1. Init => OrderInv
    BY EmptyInOrder DEF Init, OrderInv, OnlyWorkerSends, InSequence, Senders
  <1>2. OrderInv => ChainInOrder
    BY DEF OrderInv, InSequence, Sorted, ChainInOrder
  <1> QED
    BY <1>1, <1>2, OrderStep, MsgInvariant, PTL DEF Spec

-----------------------------------------------------------------------------
(* A batch that changes places is a step of the outbox.                    *)
Status(m) == IF m \in In(chain) THEN "committed"
             ELSE IF m \in lost THEN "lost"
             ELSE IF m \in In(added) THEN "pending" ELSE "new"

LEMMA ResolveIsOutboxStep ==
  ASSUME NEW S \in SUBSET Msgs, NEW outcome \in {"committed", "lost"},
         \A m \in S : Status(m) = "pending" /\ Status(m)' = outcome,
         \A m \in Msgs \ S : Status(m)' = Status(m)
  PROVE  [Outbox!Next]_([m \in Msgs |-> Status(m)])
  <1>1. CASE S = {}
    BY <1>1
  <1>2. CASE S # {}
    <2>1. Outbox!Resolve(S, outcome)
      BY <1>2 DEF Outbox!Resolve, Status
    <2> QED
      BY <2>1 DEF Outbox!Next
  <1> QED
    BY <1>1, <1>2

LEMMA OutboxStep ==
  ASSUME MsgInv, MsgInv', [Next]_vars
  PROVE  [Outbox!Next]_([m \in Msgs |-> Status(m)])
  <1>1. CASE \E m \in Msgs : AddToBatch(m)
    <2>1. PICK m \in Msgs : AddToBatch(m)
      BY <1>1
    <2>2. /\ In(added') = In(added) \cup {m} /\ UNCHANGED <<chain, lost>>
          /\ m \notin In(added)
      BY <2>1, InAppend DEF AddToBatch, MsgInv, Types, AddedByCaller
    <2>3. m \notin In(chain) /\ m \notin lost
      BY <2>2 DEF MsgInv, PlacesAdded
    <2>4. Outbox!Submit(m)
      BY <2>2, <2>3 DEF Outbox!Submit
    <2> QED
      BY <2>4 DEF Outbox!Next
  <1>2. CASE UNCHANGED <<chain, lost, added>>
    BY <1>2 DEF Status
  <1>3. ASSUME NEW b \in Seq(Msgs), chain' = chain \o b, UNCHANGED <<lost, added>>,
               In(b) \cap (In(chain) \cup lost) = {}, In(b) \subseteq In(added)
        PROVE  [Outbox!Next]_([m \in Msgs |-> Status(m)])
    <2>1. In(chain') = In(chain) \cup In(b) /\ In(b) \in SUBSET Msgs
      BY <1>3, InConcat, InType DEF MsgInv, Types
    <2> QED
      BY <1>3, <2>1, ResolveIsOutboxStep DEF Status
  <1>4. ASSUME NEW b \in Seq(Msgs), lost' = lost \cup In(b), UNCHANGED <<chain, added>>,
               In(b) \cap (In(chain) \cup lost) = {}, In(b) \subseteq In(added)
        PROVE  [Outbox!Next]_([m \in Msgs |-> Status(m)])
    <2>1. In(b) \in SUBSET Msgs
      BY InType
    <2> QED
      BY <1>4, <2>1, ResolveIsOutboxStep DEF Status
  <1>5. ASSUME NEW s \in Senders, BroadcastSucceeds(s) \/ BroadcastFails(s)
        PROVE  [Outbox!Next]_([m \in Msgs |-> Status(m)])
    <2>1. /\ batch[s] \in Seq(Msgs) /\ In(batch[s]) \subseteq In(added)
          /\ In(batch[s]) \cap (In(chain) \cup lost) = {}
      BY DEF MsgInv, Types, PlacesAdded, OnePlaceOnly
    <2> QED
      BY <1>3, <1>4, <1>5, <2>1 DEF BroadcastSucceeds, BroadcastFails, history
  <1>6. ASSUME NEW b \in limbo, LateInclusion(b) \/ LateDrop(b)
        PROVE  [Outbox!Next]_([m \in Msgs |-> Status(m)])
    <2>1. /\ b \in Seq(Msgs) /\ In(b) \subseteq In(added)
          /\ In(b) \cap (In(chain) \cup lost) = {}
      BY DEF MsgInv, Types, PlacesAdded, OnePlaceOnly
    <2> QED
      BY <1>3, <1>4, <1>6, <2>1 DEF LateInclusion, LateDrop, history
  <1> QED
    BY <1>1, <1>2, <1>5, <1>6 DEF Next, processBatch, PollSucceeds, PollGivesUp,
       TickerFires, Tick, WorkerReturns, Stop, TakeBatch, BroadcastTimesOut, vars,
       history

(* The manager implements TxOutbox: handed over once, resolved once, the   *)
(* messages of a batch together.                                           *)
THEOREM RefinesOutbox == Spec => ImplementsOutbox
  <1>1. Init => Outbox!Init
    BY InEmpty DEF Init, Outbox!Init
  <1>2. MsgInv /\ MsgInv' /\ [Next]_vars =>
            [Outbox!Next]_([m \in Msgs |-> IF m \in In(chain) THEN "committed"
                              ELSE IF m \in lost THEN "lost"
                              ELSE IF m \in In(added) THEN "pending" ELSE "new"])
    BY OutboxStep DEF Status
  <1> QED
    BY <1>1, <1>2, MsgInvariant, PTL DEF Spec, ImplementsOutbox, Outbox!Spec
=============================================================================
