--------------------------- MODULE ExternalPinning ---------------------------
(***************************************************************************)
(* Redundant copies with external providers (Pinata, Filebase): the        *)
(* handlers of PackfileUpdated, LfsObjectUpdated, ReleaseAssetsUpdated and *)
(* RepositoryDeleted events and the storage manager.  A copy is made when  *)
(* the chain counts exactly one reference to new content, and removed when *)
(* it counts none to old content.  The count is the one at the time the    *)
(* event is handled, not when it was emitted, and it is of the CID.  A     *)
(* provider's copy has a name: "packfiles/", "lfs-objects/" or             *)
(* "release-assets/" and the content's own name there, here a kind and the *)
(* CID.                                                                    *)
(*                                                                         *)
(* A slot is something on the chain that references one CID: a             *)
(* repository's packfile, an LFS object, a release asset.  A buffer is     *)
(* what one websocket message brings: the events of one type of one        *)
(* transaction.  Buffers are handled one after the other; the packfile and *)
(* LFS events of a buffer by a bounded number of goroutines at a time.     *)
(***************************************************************************)
EXTENDS Naturals, Sequences, FiniteSets, SequencesExt

CONSTANTS Slots, Cids, Providers,
          SlotKind,    \* slot -> "packfile", "lfs" or "asset"
          None,        \* no CID
          MaxWorkers,  \* the size of a handler's semaphore
          MaxTx,       \* bound on the chain's transactions
          Faults       \* what may fail: "query", "cache", "pin", "unpin", "hang"

Kinds == {"packfile", "lfs", "asset"}

ASSUME ConstantsAssumption ==
    /\ SlotKind \in [Slots -> Kinds]
    /\ IsFiniteSet(Slots)
    /\ None \notin Cids
    /\ MaxWorkers \in Nat \ {0} /\ MaxTx \in Nat
    /\ Faults \subseteq {"query", "cache", "pin", "unpin", "hang"}

VARIABLES
    current,  \* chain: slot -> the CID it references, or None
    txs,      \* chain: number of transactions so far
    queue,    \* buffers received and not handled: sequences of events
    work,     \* the events of the buffer being handled, with their progress
    copies,   \* provider -> the copies it holds, by their names
    named,    \* history: names of all that was ever referenced
    shared,   \* history: CIDs that two slots referenced at the same time
    failed    \* history: CIDs whose handling failed at least once

vars == <<current, txs, queue, work, copies, named, shared, failed>>

refCount(c) == Cardinality({s \in Slots : current[s] = c})
Referenced == {current[s] : s \in Slots} \ {None}

(* The content a provider holds, and content that was referenced under more *)
(* than one kind.                                                           *)
Held(p) == {c \in Cids : \E k \in Kinds : <<k, c>> \in copies[p]}
Mixed == {c \in Cids : \E k, l \in Kinds : k # l /\ <<k, c>> \in named /\ <<l, c>> \in named}

Init ==
    /\ current = [s \in Slots |-> None]
    /\ txs = 0
    /\ queue = <<>>
    /\ work = <<>>
    /\ copies = [p \in Providers |-> {}]
    /\ named = {} /\ shared = {} /\ failed = {}

----------------------------------------------------------------------------
(* The chain.  An event lists what changed as items: the kind of slot, the  *)
(* new CID and the old one.  Deleting a slot is an item with no new CID.    *)

Item(s, new) == [kind |-> SlotKind[s], new |-> new, old |-> current[s]]
Event(kind, items) == [kind |-> kind, items |-> items, step |-> "wait"]

(* The events of a transaction that gives the slots of S, all of one kind,  *)
(* the CIDs f.  The assets of a release come in one event.                  *)
Buffer(kind, S, f) ==
    LET items == [i \in 1..Cardinality(S) |-> Item(SetToSeq(S)[i], f[SetToSeq(S)[i]])]
    IN IF kind \in {"asset", "repo"} THEN <<Event(kind, items)>>
       ELSE [i \in DOMAIN items |-> Event(kind, <<items[i]>>)]

Commit(kind, S, f) ==
    /\ txs < MaxTx
    /\ txs' = txs + 1
    /\ current' = [s \in Slots |-> IF s \in S THEN f[s] ELSE current[s]]
    /\ queue' = Append(queue, Buffer(kind, S, f))
    /\ named' = named \cup {<<SlotKind[s], f[s]>> : s \in {t \in S : f[t] # None}}
    /\ shared' = shared \cup {c \in Cids : Cardinality({s \in Slots : current'[s] = c}) > 1}
    /\ UNCHANGED <<work, copies, failed>>

Update ==
    \E kind \in Kinds : \E S \in SUBSET {s \in Slots : SlotKind[s] = kind} :
        /\ S # {}
        /\ \E f \in [S -> Cids \cup {None}] :
             /\ \A s \in S : f[s] # current[s]
             /\ kind = "lfs" => \A s \in S : None \in {f[s], current[s]}
             /\ Commit(kind, S, f)

DeleteRepository ==
    LET S == {s \in Slots : current[s] # None}
    IN S # {} /\ Commit("repo", S, [s \in S |-> None])

----------------------------------------------------------------------------
(* The handlers.  An event's goroutine goes through its items; for each it  *)
(* asks for the count of the new CID, copies it, asks for the count of the  *)
(* old one and removes its copies.                                          *)

(* The websocket client hands over the next buffer when the last is done.   *)
Handle ==
    /\ work = <<>> /\ queue # <<>>
    /\ work' = Head(queue)
    /\ queue' = Tail(queue)
    /\ UNCHANGED <<current, txs, copies, named, shared, failed>>

(* wg.Wait: all goroutines of the buffer are done.                          *)
Handled ==
    /\ work # <<>>
    /\ \A i \in DOMAIN work : work[i].step = "done"
    /\ work' = <<>>
    /\ UNCHANGED <<current, txs, queue, copies, named, shared, failed>>

Step(i, l) == work' = [work EXCEPT ![i].step = l]

(* The next item, or the end.                                               *)
NextItem(i) ==
    work' = [work EXCEPT ![i].items = Tail(@),
                         ![i].step = IF Len(work[i].items) = 1 THEN "done" ELSE "new"]

(* A failure touches the CIDs of the current item, or, when the handler     *)
(* gives up its event, those of all items that are left.                    *)
CidsOf(items) == (UNION {{it.new, it.old} : it \in ToSet(items)}) \ {None}
Failed(items) == failed' = failed \cup CidsOf(items)
Return(i) == Step(i, "done") /\ Failed(work[i].items)

(* Acquire the semaphore.                                                   *)
Start(i) ==
    /\ work[i].step = "wait"
    /\ Cardinality({j \in DOMAIN work : work[j].step \notin {"wait", "done"}}) < MaxWorkers
    /\ Step(i, "new")
    /\ UNCHANGED <<current, txs, queue, copies, named, shared, failed>>

(* The count of the new CID: copy it if this is its only reference.  Every  *)
(* handler gives up its event when the query fails.                         *)
BugPinIfUnreferenced(i) ==
    /\ work[i].step = "new"
    /\ LET new == Head(work[i].items).new
       IN \/ new = None /\ Step(i, "old") /\ UNCHANGED failed
          \/ new # None /\ refCount(new) = 0 /\ Step(i, "cache") /\ UNCHANGED failed
          \/ new # None /\ refCount(new) # 0 /\ Step(i, "old") /\ UNCHANGED failed
          \/ new # None /\ "query" \in Faults /\ Return(i)
    /\ UNCHANGED <<current, txs, queue, copies, named, shared>>

QueryNew(i) ==
    /\ work[i].step = "new"
    /\ LET new == Head(work[i].items).new
       IN \/ new = None /\ Step(i, "old") /\ UNCHANGED failed
          \/ new # None /\ refCount(new) = 1 /\ Step(i, "cache") /\ UNCHANGED failed
          \/ new # None /\ refCount(new) # 1 /\ Step(i, "old") /\ UNCHANGED failed
          \/ new # None /\ "query" \in Faults /\ Return(i)
    /\ UNCHANGED <<current, txs, queue, copies, named, shared>>

(* The file is brought into the local cache.  If that fails the packfile    *)
(* handler returns; the others go on, and no provider can open the file.    *)
(* A packfile or asset the chain has moved on from since the count need not *)
(* be the file that is fetched: no provider can open it then either.        *)
Cache(i) ==
    /\ work[i].step = "cache"
    /\ LET it == Head(work[i].items)
       IN \/ Step(i, "pin") /\ UNCHANGED failed
          \/ "cache" \in Faults /\ work[i].kind = "packfile" /\ Return(i)
          \/ "cache" \in Faults /\ work[i].kind # "packfile" /\ Step(i, "old") /\ Failed(<<it>>)
          \/ work[i].kind # "lfs" /\ refCount(it.new) = 0 /\ Step(i, "old") /\ UNCHANGED failed
    /\ UNCHANGED <<current, txs, queue, copies, named, shared>>

(* A name is put with, or taken from, the providers of P.                   *)
PutWith(n, P) == copies' = [p \in Providers |-> IF p \in P THEN copies[p] \cup {n} ELSE copies[p]]
TakeFrom(n, P) == copies' = [p \in Providers |-> IF p \in P THEN copies[p] \ {n} ELSE copies[p]]

(* Manager.PinFile: every provider is asked; those that fail are logged.    *)
PinFile(i) ==
    /\ work[i].step = "pin"
    /\ LET it == Head(work[i].items)
       IN \E P \in SUBSET Providers :
            /\ "pin" \in Faults \/ P = Providers
            /\ PutWith(<<it.kind, it.new>>, P)
            /\ failed' = IF P = Providers THEN failed ELSE failed \cup {it.new}
    /\ Step(i, "old")
    /\ UNCHANGED <<current, txs, queue, named, shared>>

(* The count of the old CID, if there is one and it is not the new one.     *)
(* When the query fails a release goes on to its next asset, the others     *)
(* give up their event.                                                     *)
BugOldKept(i) ==
    /\ work[i].step = "old"
    /\ NextItem(i)
    /\ UNCHANGED <<current, txs, queue, copies, named, shared, failed>>

BugRetriedForEver(i) ==
    /\ work[i].step = "old"
    /\ LET it == Head(work[i].items)
           due == it.old # None /\ it.old # it.new
       IN \/ (~due \/ refCount(it.old) # 0) /\ NextItem(i) /\ UNCHANGED failed
          \/ due /\ refCount(it.old) = 0 /\ Step(i, "unpin") /\ UNCHANGED failed
          \/ due /\ "query" \in Faults /\ Step(i, "wait") /\ Failed(<<it>>)
    /\ UNCHANGED <<current, txs, queue, copies, named, shared>>

QueryOld(i) ==
    /\ work[i].step = "old"
    /\ LET it == Head(work[i].items)
           due == it.old # None /\ it.old # it.new
       IN \/ (~due \/ refCount(it.old) # 0) /\ NextItem(i) /\ UNCHANGED failed
          \/ due /\ refCount(it.old) = 0 /\ Step(i, "unpin") /\ UNCHANGED failed
          \/ due /\ "query" \in Faults /\ work[i].kind = "asset" /\ NextItem(i) /\ Failed(<<it>>)
          \/ due /\ "query" \in Faults /\ work[i].kind # "asset" /\ Return(i)
    /\ UNCHANGED <<current, txs, queue, copies, named, shared>>

(* Manager.UnpinFile: never an error.                                       *)
UnpinFile(i) ==
    /\ work[i].step = "unpin"
    /\ LET it == Head(work[i].items)
       IN \E P \in SUBSET Providers :
            /\ "unpin" \in Faults \/ P = Providers
            /\ TakeFrom(<<it.kind, it.old>>, P)
            /\ failed' = IF P = Providers THEN failed ELSE failed \cup {it.old}
    /\ NextItem(i)
    /\ UNCHANGED <<current, txs, queue, named, shared>>

(* A call that never returns: the repository's read lock, behind merges     *)
(* that wait for each other; the download from IPFS and the provider's own  *)
(* calls, which have no timeout.  The providers before it have been asked.  *)
Hang(i) ==
    /\ "hang" \in Faults
    /\ LET it == Head(work[i].items)
       IN \/ work[i].step = "cache" /\ UNCHANGED copies
          \/ /\ work[i].step = "pin"
             /\ \E P \in SUBSET Providers : P # Providers /\ PutWith(<<it.kind, it.new>>, P)
          \/ /\ work[i].step = "unpin"
             /\ \E P \in SUBSET Providers : P # Providers /\ TakeFrom(<<it.kind, it.old>>, P)
    /\ Step(i, "hung")
    /\ UNCHANGED <<current, txs, queue, named, shared, failed>>

Process(i) ==
    \/ Start(i) \/ QueryNew(i) \/ Cache(i) \/ PinFile(i) \/ QueryOld(i) \/ UnpinFile(i)

Handlers == Handle \/ Handled \/ \E i \in DOMAIN work : Process(i)

Next == Update \/ DeleteRepository \/ Handlers \/ \E i \in DOMAIN work : Hang(i)

Spec == Init /\ [][Next]_vars

(* The client's loop and the goroutines run; the chain answers queries.     *)
FairSpec == Spec /\ WF_vars(Handlers)

----------------------------------------------------------------------------
Steps == {"wait", "new", "cache", "pin", "old", "unpin", "done", "hung"}

(* The state has the shape the code gives it, and no more goroutines are    *)
(* past the semaphore than it admits.                                       *)
TypeOK ==
    /\ current \in [Slots -> Cids \cup {None}]
    /\ txs \in 0..MaxTx
    /\ \A i \in DOMAIN work :
         work[i].step \in Steps /\ (work[i].step = "done" \/ work[i].items # <<>>)
    /\ copies \in [Providers -> SUBSET (Kinds \X Cids)]
    /\ named \subseteq Kinds \X Cids
    /\ shared \subseteq Cids /\ failed \subseteq Cids
    /\ Cardinality({i \in DOMAIN work : work[i].step \notin {"wait", "done"}}) <= MaxWorkers

Quiet == queue = <<>> /\ work = <<>>

(* Once all events are handled no provider holds content that nothing       *)
(* references, unless its handling failed or it was referenced under more   *)
(* than one kind: however late events are handled and however the           *)
(* goroutines of a buffer interleave, the last removal's event sees the     *)
(* count at zero (packfileUpdated.go:192-201 and its siblings).             *)
NothingLeftBehind == Quiet => \A p \in Providers : Held(p) \ (failed \cup Mixed) \subseteq Referenced

(* Once all events are handled every provider holds the referenced content  *)
(* that was never referenced twice at the same time and whose handling did  *)
(* not fail.                                                                *)
UnsharedIsCopied ==
    Quiet => \A p \in Providers : Referenced \ (shared \cup failed) \subseteq Held(p)

Hung == {i \in DOMAIN work : work[i].step = "hung"}

(* All buffers are handled in the end, whatever fails, unless a call never  *)
(* returns.  Then the other goroutines of its buffer come to their end, as  *)
(* long as those that hang leave a place in the semaphore                   *)
(* (packfileUpdated.go:122-132).                                            *)
BuffersAreHandled ==
    \/ []<>Quiet
    \/ <>[](/\ Hung # {}
            /\ \A i \in DOMAIN work \ Hung :
                 work[i].step = "done" \/ (work[i].step = "wait" /\ Cardinality(Hung) = MaxWorkers))
=============================================================================
