-------------------------- MODULE RefCountedRWMutex --------------------------
(***************************************************************************)
(* The reference-counted lock table of utils/cache.go, for one key.        *)
(*                                                                         *)
(* The code keeps three identical tables (repoMutexes, assetMutexes and    *)
(* lfsMutexes); nothing is shared between two keys or two tables, so one   *)
(* key stands for all.  A key is mapped to a *RefCountedRWMutex that is    *)
(* created on first use and deleted from the map by a goroutine started by *)
(* the release that found the counters at zero, five minutes later.  The   *)
(* deletion looks at nothing: whoever uses the entry at that moment keeps  *)
(* the old mutex while the next caller creates a new one.                  *)
(*                                                                         *)
(* Each counter is represented by the set of the goroutines whose          *)
(* increments it holds, so its value is the size of the set.  A decrement  *)
(* by a goroutine whose own increment is elsewhere (it releases a mutex it *)
(* never locked) takes away one of the others.                             *)
(***************************************************************************)
EXTENDS Integers

CONSTANTS Procs,     \* goroutines that lock and unlock the key
          None,      \* no goroutine
          MaxInst,   \* bound: mutexes ever created for the key
          MaxOps     \* bound: lock operations ever begun

ASSUME NoneAssumption == None \notin Procs
ASSUME BoundsAssumption == MaxInst \in Nat /\ MaxOps \in Nat

VARIABLES
    mapped,       \* the mutex the sync.Map holds for the key, 0 when absent
    alloc,        \* how many mutexes were created so far
    writeCount,   \* mutex -> its writeCount
    readCount,    \* mutex -> its readCount
    announced,    \* mutex -> the writer inside mu.Lock() that shuts readers out
    writer,       \* mutex -> the writer whose mu.Lock() returned
    readers,      \* mutex -> the readers mu counts as holding it
    timers,       \* cleanup goroutines that sleep
    pc, mode, ref,\* goroutine -> where it is, what it asked for, local "mutex"
    ops,          \* lock operations begun so far
    fault,        \* what a misused sync.RWMutex did to the program
    table         \* history: "torn" once a deletion hit a mutex in use

countVars == <<writeCount, readCount>>
muVars    == <<announced, writer, readers>>
vars == <<mapped, alloc, writeCount, readCount, announced, writer, readers,
          timers, pc, mode, ref, ops, fault, table>>

Inst  == 1..MaxInst
Modes == {"w", "r"}
PCs   == {"idle", "got", "counted", "pending", "parked", "holding",
          "relgot", "checked", "unlocked", "zeroed"}

-----------------------------------------------------------------------------
(* A goroutine uses the entry from the getMutex of its lock to the getMutex *)
(* of its unlock: in between it relies on the map to lead back to the same  *)
(* mutex.                                                                   *)
Using(p) == pc[p] \in {"got", "counted", "pending", "parked", "holding"}

(* A counter without one increment: p's own when it is there, or else one   *)
(* of the others.                                                           *)
Decremented(S, p) == IF p \in S THEN {S \ {p}} ELSE {S \ {q} : q \in S}

Goto(p, l) == pc' = [pc EXCEPT ![p] = l]

-----------------------------------------------------------------------------
Init ==
    /\ mapped = 0
    /\ alloc = 0
    /\ writeCount = [i \in Inst |-> {}]
    /\ readCount  = [i \in Inst |-> {}]
    /\ announced  = [i \in Inst |-> None]
    /\ writer     = [i \in Inst |-> None]
    /\ readers    = [i \in Inst |-> {}]
    /\ timers = 0
    /\ pc   = [p \in Procs |-> "idle"]
    /\ mode = [p \in Procs |-> "w"]
    /\ ref  = [p \in Procs |-> 0]
    /\ ops = 0
    /\ fault = "none"
    /\ table = "intact"

(* Mutant: Store instead of LoadOrStore, every caller maps a new mutex.     *)
BugStoreAlways(p) ==
    /\ alloc < MaxInst
    /\ alloc' = alloc + 1
    /\ mapped' = alloc + 1
    /\ ref' = [ref EXCEPT ![p] = alloc + 1]

(* getRepoMutex: LoadOrStore returns the mapped mutex or maps a new one.    *)
getMutex(p) ==
    IF mapped # 0
    THEN /\ ref' = [ref EXCEPT ![p] = mapped]
         /\ UNCHANGED <<mapped, alloc>>
    ELSE /\ alloc < MaxInst
         /\ alloc' = alloc + 1
         /\ mapped' = alloc + 1
         /\ ref' = [ref EXCEPT ![p] = alloc + 1]

(* LockRepository and RLockRepository, up to the reference they fetch.      *)
LockGet(p, m) ==
    /\ fault = "none" /\ pc[p] = "idle" /\ ops < MaxOps
    /\ getMutex(p)
    /\ mode' = [mode EXCEPT ![p] = m]
    /\ ops' = ops + 1
    /\ Goto(p, "got")
    /\ UNCHANGED <<countVars, muVars, timers, fault, table>>

(* Mutant: LockRepository forgets to count itself.                          *)
BugLockUncounted(p) ==
    /\ fault = "none" /\ pc[p] = "got" /\ mode[p] = "w"
    /\ Goto(p, "counted")
    /\ UNCHANGED <<mapped, alloc, countVars, muVars, timers, mode, ref, ops,
                   fault, table>>

(* atomic.AddInt32(&mutex.writeCount, 1), before mu.Lock() is called.       *)
LockCount(p) ==
    /\ fault = "none" /\ pc[p] = "got" /\ mode[p] = "w"
    /\ writeCount' = [writeCount EXCEPT ![ref[p]] = @ \cup {p}]
    /\ Goto(p, "counted")
    /\ UNCHANGED <<mapped, alloc, readCount, muVars, timers, mode, ref, ops,
                   fault, table>>

(* atomic.AddInt32(&mutex.readCount, 1), before mu.RLock() is called.       *)
RLockCount(p) ==
    /\ fault = "none" /\ pc[p] = "got" /\ mode[p] = "r"
    /\ readCount' = [readCount EXCEPT ![ref[p]] = @ \cup {p}]
    /\ Goto(p, "counted")
    /\ UNCHANGED <<mapped, alloc, writeCount, muVars, timers, mode, ref, ops,
                   fault, table>>

(* mu.Lock(), first half: wins over the other writers, shuts readers out.   *)
LockAnnounce(p) ==
    LET i == ref[p] IN
    /\ fault = "none" /\ pc[p] = "counted" /\ mode[p] = "w"
    /\ announced[i] = None /\ writer[i] = None
    /\ announced' = [announced EXCEPT ![i] = p]
    /\ Goto(p, "pending")
    /\ UNCHANGED <<mapped, alloc, countVars, writer, readers, timers, mode,
                   ref, ops, fault, table>>

(* mu.Lock(), second half: returns once the readers it found have left.     *)
LockAcquire(p) ==
    LET i == ref[p] IN
    /\ fault = "none" /\ pc[p] = "pending" /\ readers[i] = {}
    /\ announced' = [announced EXCEPT ![i] = None]
    /\ writer' = [writer EXCEPT ![i] = p]
    /\ Goto(p, "holding")
    /\ UNCHANGED <<mapped, alloc, countVars, readers, timers, mode, ref, ops,
                   fault, table>>

(* Mutant: TryRLock() whose result is ignored.                              *)
BugTryRLock(p) ==
    LET i == ref[p] IN
    /\ fault = "none" /\ pc[p] = "counted" /\ mode[p] = "r"
    /\ readers' = IF announced[i] = None /\ writer[i] = None
                  THEN [readers EXCEPT ![i] = @ \cup {p}] ELSE readers
    /\ Goto(p, "holding")
    /\ UNCHANGED <<mapped, alloc, countVars, announced, writer, timers, mode,
                   ref, ops, fault, table>>

(* mu.RLock(): enters unless a writer is announced or holds the mutex; then *)
(* it sleeps until that writer's Unlock.                                    *)
RLockAcquire(p) ==
    LET i == ref[p] IN
    /\ fault = "none" /\ pc[p] = "counted" /\ mode[p] = "r"
    /\ IF announced[i] = None /\ writer[i] = None
       THEN /\ readers' = [readers EXCEPT ![i] = @ \cup {p}]
            /\ Goto(p, "holding")
       ELSE /\ Goto(p, "parked")
            /\ UNCHANGED readers
    /\ UNCHANGED <<mapped, alloc, countVars, announced, writer, timers, mode,
                   ref, ops, fault, table>>

(* UnlockRepository and RUnlockRepository look the mutex up again: what     *)
(* they find need not be what LockGet found.                                *)
UnlockGet(p) ==
    /\ fault = "none" /\ pc[p] = "holding"
    /\ getMutex(p)
    /\ Goto(p, "relgot")
    /\ UNCHANGED <<countVars, muVars, timers, mode, ops, fault, table>>

(* Mutant: the counter is compared with 1 instead of 0.                     *)
BugCheckOffByOne(p) ==
    LET c == IF mode[p] = "w" THEN writeCount[ref[p]] ELSE readCount[ref[p]] IN
    /\ fault = "none" /\ pc[p] = "relgot"
    /\ Goto(p, IF \A x, y \in c : x = y THEN "idle" ELSE "checked")
    /\ UNCHANGED <<mapped, alloc, countVars, muVars, timers, mode, ref, ops,
                   fault, table>>

(* "prevent double unlock panic": return at once when the counter is zero.  *)
UnlockCheck(p) ==
    LET c == IF mode[p] = "w" THEN writeCount[ref[p]] ELSE readCount[ref[p]] IN
    /\ fault = "none" /\ pc[p] = "relgot"
    /\ Goto(p, IF c = {} THEN "idle" ELSE "checked")
    /\ UNCHANGED <<mapped, alloc, countVars, muVars, timers, mode, ref, ops,
                   fault, table>>

(* Mutant: the readers that sleep are not woken.                            *)
BugUnlockWakesNobody(p) ==
    LET i == ref[p] IN
    /\ fault = "none" /\ pc[p] = "checked" /\ mode[p] = "w"
    /\ writer' = [writer EXCEPT ![i] = None]
    /\ Goto(p, "unlocked")
    /\ UNCHANGED <<mapped, alloc, countVars, announced, readers, timers, mode,
                   ref, ops, fault, table>>

(* mu.Unlock(): every reader that slept enters.  A mutex no writer holds    *)
(* makes it a fatal error, or corrupts the mutex when a writer waits there. *)
UnlockMu(p) ==
    LET i == ref[p]
        woken == {q \in Procs : pc[q] = "parked" /\ ref[q] = i}
    IN
    /\ fault = "none" /\ pc[p] = "checked" /\ mode[p] = "w"
    /\ IF writer[i] # None
       THEN /\ writer' = [writer EXCEPT ![i] = None]
            /\ readers' = [readers EXCEPT ![i] = @ \cup woken]
            /\ pc' = [q \in Procs |-> IF q = p THEN "unlocked"
                                      ELSE IF q \in woken THEN "holding"
                                      ELSE pc[q]]
            /\ UNCHANGED fault
       ELSE /\ fault' = IF announced[i] = None THEN "fatal" ELSE "corrupt"
            /\ UNCHANGED <<writer, readers, pc>>
    /\ UNCHANGED <<mapped, alloc, countVars, announced, timers, mode, ref, ops,
                   table>>

(* mu.RUnlock(): the reader count goes down by one, whoever calls.          *)
RUnlockMu(p) ==
    LET i == ref[p] IN
    /\ fault = "none" /\ pc[p] = "checked" /\ mode[p] = "r"
    /\ IF readers[i] # {}
       THEN /\ \E S \in Decremented(readers[i], p) :
                  readers' = [readers EXCEPT ![i] = S]
            /\ Goto(p, "unlocked")
            /\ UNCHANGED fault
       ELSE /\ fault' = IF \E q \in Procs : pc[q] = "parked" /\ ref[q] = i
                        THEN "corrupt" ELSE "fatal"
            /\ UNCHANGED <<readers, pc>>
    /\ UNCHANGED <<mapped, alloc, countVars, announced, writer, timers, mode,
                   ref, ops, table>>

(* Mutant: the last writer schedules no cleanup.                            *)
BugNoCleanupScheduled(p) ==
    LET i == ref[p] IN
    /\ fault = "none" /\ pc[p] = "unlocked" /\ mode[p] = "w"
    /\ \E S \in Decremented(writeCount[i], p) :
          writeCount' = [writeCount EXCEPT ![i] = S]
    /\ Goto(p, "idle")
    /\ UNCHANGED <<mapped, alloc, readCount, muVars, timers, mode, ref, ops,
                   fault, table>>

(* The decrement of writeCount; at zero the cleanup goroutine starts.       *)
UnlockCount(p) ==
    LET i == ref[p] IN
    /\ fault = "none" /\ pc[p] = "unlocked" /\ mode[p] = "w"
    /\ \E S \in Decremented(writeCount[i], p) :
          /\ writeCount' = [writeCount EXCEPT ![i] = S]
          /\ timers' = IF S = {} THEN timers + 1 ELSE timers
    /\ Goto(p, "idle")
    /\ UNCHANGED <<mapped, alloc, readCount, muVars, mode, ref, ops, fault,
                   table>>

(* The decrement of readCount; only at zero is writeCount looked at.        *)
RUnlockCount(p) ==
    LET i == ref[p] IN
    /\ fault = "none" /\ pc[p] = "unlocked" /\ mode[p] = "r"
    /\ \E S \in Decremented(readCount[i], p) :
          /\ readCount' = [readCount EXCEPT ![i] = S]
          /\ Goto(p, IF S = {} THEN "zeroed" ELSE "idle")
    /\ UNCHANGED <<mapped, alloc, writeCount, muVars, timers, mode, ref, ops,
                   fault, table>>

(* atomic.LoadInt32(&mutex.writeCount) == 0, a step after the decrement.    *)
RUnlockSchedule(p) ==
    /\ fault = "none" /\ pc[p] = "zeroed"
    /\ timers' = IF writeCount[ref[p]] = {} THEN timers + 1 ELSE timers
    /\ Goto(p, "idle")
    /\ UNCHANGED <<mapped, alloc, countVars, muVars, mode, ref, ops, fault,
                   table>>

(* The cleanup goroutine after its five minutes: repoMutexes.Delete.        *)
(* Nobody ever sends on cleanupCh, so the other case is never chosen.       *)
Cleanup ==
    /\ fault = "none" /\ timers > 0
    /\ timers' = timers - 1
    /\ mapped' = 0
    /\ table' = IF mapped # 0 /\ \E p \in Procs : Using(p) THEN "torn" ELSE table
    /\ UNCHANGED <<alloc, countVars, muVars, pc, mode, ref, ops, fault>>

Lock(p)   == LockCount(p) \/ LockAnnounce(p) \/ LockAcquire(p)
RLock(p)  == RLockCount(p) \/ RLockAcquire(p)
Unlock(p) == UnlockCheck(p) \/ UnlockMu(p) \/ UnlockCount(p)
RUnlock(p) == RUnlockMu(p) \/ RUnlockCount(p) \/ RUnlockSchedule(p)

Next ==
    \/ \E p \in Procs, m \in Modes : LockGet(p, m)
    \/ \E p \in Procs : Lock(p) \/ RLock(p) \/ UnlockGet(p) \/ Unlock(p) \/ RUnlock(p)
    \/ Cleanup

Spec == Init /\ [][Next]_vars

(* A goroutine that is inside the lock's code goes on; a holder unlocks (the *)
(* handlers defer it); sync.RWMutex starves nobody, so a writer that keeps   *)
(* finding the mutex free gets it.  Cleanup and new callers are not forced.  *)
Fairness ==
    \A p \in Procs :
        /\ WF_vars(LockCount(p)) /\ SF_vars(LockAnnounce(p)) /\ WF_vars(LockAcquire(p))
        /\ WF_vars(RLock(p)) /\ WF_vars(UnlockGet(p))
        /\ WF_vars(Unlock(p)) /\ WF_vars(RUnlock(p))

FairSpec == Spec /\ Fairness

-----------------------------------------------------------------------------
(* The state has the shape the code gives it; in particular no cleanup      *)
(* goroutine ends that no release started.                                  *)
TypeOK ==
    /\ mapped \in 0..MaxInst
    /\ alloc \in 0..MaxInst
    /\ writeCount \in [Inst -> SUBSET Procs]
    /\ readCount \in [Inst -> SUBSET Procs]
    /\ announced \in [Inst -> Procs \cup {None}]
    /\ writer \in [Inst -> Procs \cup {None}]
    /\ readers \in [Inst -> SUBSET Procs]
    /\ timers \in Nat
    /\ pc \in [Procs -> PCs]
    /\ mode \in [Procs -> Modes]
    /\ ref \in [Procs -> 0..MaxInst]
    /\ ops \in 0..MaxOps
    /\ fault \in {"none", "fatal", "corrupt"}
    /\ table \in {"intact", "torn"}

(* IsRepositoryInUse, as the cache manager asks it.                         *)
IsInUse == mapped # 0 /\ (readCount[mapped] # {} \/ writeCount[mapped] # {})

Holds(p, m) == pc[p] = "holding" /\ mode[p] = m

(* Whoever holds the lock for writing holds it alone.                       *)
Exclusive ==
    \A p, q \in Procs : p # q /\ Holds(p, "w") => pc[q] # "holding"

(* Exclusion (LockRepository/RLockRepository): as long as no cleanup        *)
(* goroutine has deleted a mutex in use, a writer excludes every other      *)
(* holder, over any number of deletions of unused mutexes and recreations.  *)
ExclusiveUntilRemoved == table = "torn" \/ Exclusive

(* UnlockRepository: until a mutex in use was deleted, neither a fatal      *)
(* unlock of an unlocked mutex nor a corrupted mutex can happen.            *)
NoFaultUntilRemoved == table = "torn" \/ fault = "none"

(* IsRepositoryInUse: until a mutex in use was deleted, whoever waits for   *)
(* the lock or holds it is seen, so the cache manager does not evict what   *)
(* is being read or written.                                                *)
InUseSeen ==
    /\ table = "intact"
    /\ \E p \in Procs : pc[p] \in {"counted", "pending", "parked", "holding"}
    => IsInUse

(* UnlockRepository: until a mutex in use was deleted, every release        *)
(* reaches the mutex that was locked, so that when nobody is left every     *)
(* mutex ever created is free and every counter is back to zero.            *)
NothingLeaked ==
    table = "intact" /\ (\A p \in Procs : pc[p] = "idle") =>
        \A i \in Inst : /\ writeCount[i] = {} /\ readCount[i] = {}
                        /\ announced[i] = None /\ writer[i] = None /\ readers[i] = {}

(* RLockRepository: a reader that sleeps always has a writer that will wake *)
(* it, on the mutex it sleeps on: no wakeup is lost.                        *)
NoLostReader ==
    table = "intact" =>
        \A p \in Procs : pc[p] = "parked" =>
            announced[ref[p]] # None \/ writer[ref[p]] # None

(* Cleanup goroutine: the table does not lose a mutex for good: once        *)
(* nobody uses the key and nobody is about to schedule, either the key is   *)
(* unmapped or a cleanup that will unmap it is scheduled.                   *)
NoEntryForgotten ==
    table = "intact" /\ (\A p \in Procs : pc[p] = "idle") => mapped = 0 \/ timers > 0

(* LockRepository/RLockRepository under fairness: whoever asks for the lock *)
(* gets it, unless a deletion of a mutex in use comes in between.           *)
EveryRequestServed ==
    \A p \in Procs : pc[p] = "got" ~> pc[p] = "holding" \/ table = "torn"

(* Seen by its callers: the lock is held from mu.Lock() or mu.RLock() to    *)
(* the lookup of the unlock, and lost once a mutex in use was deleted.      *)
CallerState(p) ==
    CASE table = "torn" -> "lost"
      [] table = "intact" /\ ~Using(p) -> "idle"
      [] table = "intact" /\ pc[p] = "pending" -> "next"
      [] table = "intact" /\ Holds(p, "w") -> "writes"
      [] table = "intact" /\ Holds(p, "r") -> "reads"
      [] table = "intact" /\ pc[p] \in {"got", "counted", "parked"} ->
             IF mode[p] = "w" THEN "wantsWrite" ELSE "wantsRead"

Abstract == INSTANCE RWLock WITH state <- [p \in Procs |-> CallerState(p)]

(* cache.go's lock functions as a whole: over any number of mutexes that    *)
(* come and go, the key is one reader-writer lock, until a mutex in use is  *)
(* deleted.                                                                 *)
ImplementsRWLock == Abstract!Spec

-----------------------------------------------------------------------------
(* What the comments of utils/cache.go promise without that condition.      *)

(* Refuted: "Multiple read locks can be held concurrently, but read locks   *)
(* block write locks" (cache.go:219).  A writer that comes after the        *)
(* deletion locks a new mutex.                                              *)
ReadLocksBlockWriteLocks ==
    \A p, q \in Procs : ~(Holds(p, "r") /\ Holds(q, "w"))
=============================================================================
