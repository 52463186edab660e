---------------------------- MODULE CacheManager -----------------------------
(***************************************************************************)
(* utils/cache_manager.go: a goroutine that, on every tick, sweeps three   *)
(* cache directories in turn (repositories, release assets, LFS objects).  *)
(* A sweep first removes what is older than the maximal age, then, if what *)
(* is left is too large, the oldest entries until it is not.  Entries in   *)
(* use are skipped: IsRepositoryInUse and its two siblings read the        *)
(* reference counts of RefCountedRWMutex, here the users that hold an      *)
(* entry's lock and are counted by the mutex the table has for it.  The    *)
(* sweep itself takes no such lock.                                        *)
(*                                                                         *)
(* An entry is its modification time and its size.  os.ReadDir returns     *)
(* entries in the order of their names, here the order of the numbers.     *)
(***************************************************************************)
EXTENDS Integers, Sequences, FiniteSets, SequencesExt

CONSTANTS Entries,   \* the names a cache directory can hold, as numbers
          Layouts,   \* which entry lives in which directory, if in any
          Users,     \* goroutines that lock an entry to serve a request
          None,      \* no entry
          Faults,    \* which system calls can fail: "readdir", "remove"
          MaxAge,    \* CACHE_*_MAX_AGE
          MaxSize,   \* CACHE_*_MAX_SIZE
          Sizes,     \* sizes an entry can have
          MaxNow     \* bound on the clock

Kinds == {"repo", "asset", "lfs"}

ASSUME ConstantsAssumption ==
    /\ Entries \subseteq Nat /\ IsFiniteSet(Entries)
    /\ Layouts \subseteq [Entries -> Kinds \cup {None}]
    /\ None \notin Entries
    /\ Faults \subseteq {"readdir", "remove"}
    /\ MaxAge \in Nat /\ MaxSize \in Nat /\ MaxNow \in Nat
    /\ Sizes \subseteq Nat

VARIABLES
    disk,       \* entry -> its file or directory, or Absent
    now,        \* the clock
    lock,       \* user -> [key, mode]: the entry's lock it holds, or NoLock
    state,      \* user -> "idle", "locked" or "using"
    pc,         \* where the sweeping goroutine is
    kind,       \* the directory being swept
    entries,    \* the directory as os.ReadDir returned it
    todo,       \* what the current loop has still to visit
    sorted,     \* snapshots of the entries that may be evicted, oldest first
    totalSize,  \* the sweep's account of the directory's size
    tick,       \* the ticker's channel: "none" or "ready" (it buffers one)
    stopChan,   \* "open" or "closed"
    kindOf,     \* entry -> the directory it lives in
    faults,     \* the system calls that may fail
    unseen,     \* users whose lock the table's mutex does not count (any more)
    since,      \* history: users of a cached entry since before this directory's sweep
    quiet       \* history: "yes" while only the sweep has acted since it began and
                \* nothing it removes has failed to go

sweep == <<pc, kind, entries, todo, sorted, totalSize>>
users == <<lock, state, kindOf, faults, unseen>>
vars == <<disk, now, lock, state, pc, kind, entries, todo, sorted, totalSize,
          tick, stopChan, kindOf, faults, unseen, since, quiet>>

Absent == [mtime |-> 0, size |-> -1]
NoLock == [key |-> None, mode |-> "none"]
Present(k) == disk[k] # Absent
In(kd) == {k \in Entries : kindOf[k] = kd}

(* utils.IsRepositoryInUse, IsAssetInUse, IsLFSObjectInUse: some count of   *)
(* the mutex in the table is positive.                                      *)
Counted(k) == {u \in Users \ unseen : lock[u].key = k}
InUse(k) == Counted(k) # {}

Expired(k) == now - disk[k].mtime > MaxAge

Init ==
    /\ kindOf \in Layouts
    /\ disk \in [Entries -> {Absent} \cup [mtime : {0}, size : Sizes]]
    /\ \A k \in Entries : kindOf[k] = None => disk[k] = Absent
    /\ now = 0
    /\ lock = [u \in Users |-> NoLock]
    /\ state = [u \in Users |-> "idle"]
    /\ pc = "select"
    /\ kind = "repo"
    /\ entries = <<>> /\ todo = <<>> /\ sorted = <<>>
    /\ totalSize = 0
    /\ tick = "none"
    /\ stopChan = "open"
    /\ faults \in {{}, Faults}
    /\ unseen = {}
    /\ since = {}
    /\ quiet = "yes"

----------------------------------------------------------------------------
(* The users.  A request locks the entry it is about, brings it into the    *)
(* cache if it is not there, uses it and unlocks it.                        *)

Acquire(u, k, m) ==
    /\ state[u] = "idle" /\ kindOf[k] # None
    /\ \A v \in Counted(k) : m = "r" /\ lock[v].mode = "r"
    /\ lock' = [lock EXCEPT ![u] = [key |-> k, mode |-> m]]
    /\ state' = [state EXCEPT ![u] = "locked"]
    /\ UNCHANGED <<disk, now, sweep, tick, stopChan, kindOf, faults, unseen, since>>

(* An LFS object is fetched or uploaded under the write lock only; a        *)
(* download request that does not find it fails.                            *)
Missing(u) ==
    /\ state[u] = "locked" /\ lock[u].mode = "r"
    /\ kindOf[lock[u].key] = "lfs" /\ ~Present(lock[u].key)

(* CacheRepository, CacheReleaseAsset, DownloadLFSObject: found, or         *)
(* downloaded.                                                              *)
Cache(u) ==
    /\ state[u] = "locked" /\ ~Missing(u)
    /\ IF Present(lock[u].key)
       THEN UNCHANGED disk
       ELSE \E s \in Sizes : disk' = [disk EXCEPT ![lock[u].key] = [mtime |-> now, size |-> s]]
    /\ state' = [state EXCEPT ![u] = "using"]
    /\ UNCHANGED <<now, lock, sweep, tick, stopChan, kindOf, faults, unseen, since>>

(* A push, a merge or an upload, under the write lock, changes the entry.   *)
Write(u) ==
    /\ state[u] = "using" /\ lock[u].mode = "w"
    /\ Present(lock[u].key)
    /\ \E s \in Sizes : disk' = [disk EXCEPT ![lock[u].key] = [mtime |-> now, size |-> s]]
    /\ UNCHANGED <<now, users, sweep, tick, stopChan, since>>

(* UnlockRepository and its siblings look the mutex up again.  A user that  *)
(* it does not count takes the count, and the lock, of one that it does.    *)
Unlock(u) ==
    LET robbed == {v \in Counted(lock[u].key) : lock[v].mode = lock[u].mode}
    IN /\ lock' = [lock EXCEPT ![u] = NoLock]
       /\ state' = [state EXCEPT ![u] = "idle"]
       /\ since' = since \ {u}
       /\ IF u \notin unseen \/ robbed = {}
          THEN unseen' = unseen \ {u}
          ELSE \E v \in robbed : unseen' = (unseen \ {u}) \cup {v}

Release(u) ==
    /\ state[u] = "using" \/ Missing(u)
    /\ Unlock(u)
    /\ UNCHANGED <<disk, now, sweep, tick, stopChan, kindOf, faults>>

(* cleanupRepoDir: a push that failed removes the local repository, still   *)
(* under its write lock, and unlocks; so does a failed LFS upload its file. *)
Drop(u) ==
    /\ state[u] = "using" /\ lock[u].mode = "w" /\ kindOf[lock[u].key] \in {"repo", "lfs"}
    /\ disk' = [disk EXCEPT ![lock[u].key] = Absent]
    /\ Unlock(u)
    /\ UNCHANGED <<now, sweep, tick, stopChan, kindOf, faults>>

User(u) ==
    /\ \/ \E k \in Entries, m \in {"r", "w"} : Acquire(u, k, m)
       \/ Cache(u) \/ Write(u) \/ Release(u) \/ Drop(u)
    /\ quiet' = "no"

(* The goroutine an earlier unlock of entry k left behind deletes the mutex *)
(* from the table after five minutes, whoever uses the entry by then        *)
(* (cache.go:150, 182, 212, 244); the unlock may have been before Init.     *)
ForgetMutex(k) ==
    /\ InUse(k)
    /\ unseen' = unseen \cup Counted(k)
    /\ quiet' = "no"
    /\ UNCHANGED <<disk, now, lock, state, kindOf, faults, sweep, tick, stopChan, since>>

(* cleanupExpiredUploads removes the file of an expired upload, without the *)
(* asset's lock.                                                            *)
cleanupExpiredUploads(k) ==
    /\ kindOf[k] = "asset" /\ Present(k)
    /\ disk' = [disk EXCEPT ![k] = Absent]
    /\ quiet' = "no"
    /\ UNCHANGED <<now, users, sweep, tick, stopChan, since>>

Clock ==
    /\ now < MaxNow
    /\ now' = now + 1
    /\ quiet' = "no"
    /\ UNCHANGED <<disk, users, sweep, tick, stopChan, since>>

----------------------------------------------------------------------------
(* The sweep.                                                               *)

UNTOUCHED == <<now, users, stopChan>>

(* os.ReadDir of one of the directories: the i-th name is the one with i - 1 *)
(* names before it.                                                         *)
ReadDir(kd) ==
    LET names == {k \in In(kd) : Present(k)}
    IN [i \in 1..Cardinality(names) |->
           CHOOSE k \in names : Cardinality({j \in names : j < k}) = i - 1]

TickerFires ==
    /\ tick = "none"
    /\ tick' = "ready"
    /\ UNCHANGED <<disk, sweep, since, quiet, UNTOUCHED>>

(* Stop: closes the channel once; it does not wait for a sweep under way.   *)
Stop ==
    /\ stopChan = "open"
    /\ stopChan' = "closed"
    /\ UNCHANGED <<disk, now, users, sweep, tick, since, quiet>>

(* clearCacheRoutine: Go's select takes either ready channel.               *)
Return ==
    /\ pc = "select" /\ stopChan = "closed"
    /\ pc' = "returned"
    /\ UNCHANGED <<disk, kind, entries, todo, sorted, totalSize, tick, since, quiet, UNTOUCHED>>

(* The sweep of directory kd begins, or its os.ReadDir fails, which ends    *)
(* clearCache: the directories after it are not swept.                      *)
Enter(kd) ==
    /\ totalSize' = 0
    /\ sorted' = <<>>
    /\ since' = {u \in Users : state[u] = "using" /\ Present(lock[u].key)}
    /\ quiet' = "yes"
    /\ kind' = kd
    /\ \/ /\ entries' = ReadDir(kd)
          /\ todo' = ReadDir(kd)
          /\ pc' = "scan"
       \/ /\ "readdir" \in faults
          /\ entries' = <<>> /\ todo' = <<>>
          /\ pc' = "select"

clearCache ==
    /\ pc = "select" /\ tick = "ready"
    /\ tick' = "none"
    /\ Enter("repo")
    /\ UNCHANGED <<disk, UNTOUCHED>>

NextDirectory ==
    /\ pc = "swept"
    /\ \/ kind = "repo" /\ Enter("asset")
       \/ kind = "asset" /\ Enter("lfs")
       \/ /\ kind = "lfs"
          /\ pc' = "select"
          /\ UNCHANGED <<kind, entries, todo, sorted, totalSize, since, quiet>>
    /\ UNCHANGED <<disk, tick, UNTOUCHED>>

(* Removing one entry, which may fail; worked is what the code does next    *)
(* when it did not.                                                         *)
Unlink(k, worked) ==
    \/ disk' = [disk EXCEPT ![k] = Absent] /\ worked /\ UNCHANGED quiet
    \/ "remove" \in faults /\ quiet' = "no" /\ UNCHANGED <<disk, totalSize>>

(* The first loop: skip what is in use ...                                  *)
BugScanInUse ==
    /\ pc = "scan" /\ todo # <<>>
    /\ pc' = "scanning" /\ todo' = todo
    /\ UNCHANGED <<disk, kind, entries, sorted, totalSize, tick, since, quiet, UNTOUCHED>>

Scan ==
    /\ pc = "scan" /\ todo # <<>>
    /\ IF InUse(Head(todo))
       THEN pc' = "scan" /\ todo' = Tail(todo)
       ELSE pc' = "scanning" /\ todo' = todo
    /\ UNCHANGED <<disk, kind, entries, sorted, totalSize, tick, since, quiet, UNTOUCHED>>

(* ... remove what is too old, and add up the rest.                         *)
BugAgeNotBefore(k) ==
    /\ pc = "scanning" /\ todo # <<>> /\ k = Head(todo)
    /\ \/ ~Present(k) /\ UNCHANGED <<disk, totalSize>>
       \/ Present(k) /\ totalSize' = totalSize + disk[k].size /\ UNCHANGED disk
    /\ pc' = "scan" /\ todo' = Tail(todo)
    /\ UNCHANGED <<kind, entries, sorted, tick, since, quiet, UNTOUCHED>>

ScanEntry(k) ==
    /\ pc = "scanning" /\ todo # <<>> /\ k = Head(todo)
    /\ \/ ~Present(k) /\ UNCHANGED <<disk, totalSize, quiet>>
       \/ Present(k) /\ Expired(k) /\ Unlink(k, UNCHANGED totalSize)
       \/ /\ Present(k) /\ ~Expired(k)
          /\ totalSize' = totalSize + disk[k].size /\ UNCHANGED <<disk, quiet>>
    /\ pc' = "scan" /\ todo' = Tail(todo)
    /\ UNCHANGED <<kind, entries, sorted, tick, since, UNTOUCHED>>

(* clearLfsCache sorts the entries of the first os.ReadDir by a fresh       *)
(* Info(); a file removed since then has none and compares as not less.     *)
(* That is no order: of sort.Slice's result, the entries in the order p, it *)
(* is only known that nothing is lost.                                      *)
LfsOrder(p) == [i \in DOMAIN entries |-> entries[p[i]]]
ByAge(s) == \A i, j \in DOMAIN s : i < j => disk[s[i]].mtime <= disk[s[j]].mtime

(* The end of the first loop: done, or a second pass over the directory.    *)
(* Repositories and assets are listed again, and that can fail too.         *)
ScanDone ==
    /\ pc = "scan" /\ todo = <<>>
    /\ \/ /\ totalSize <= MaxSize
          /\ pc' = "swept" /\ UNCHANGED <<entries, todo>>
       \/ /\ totalSize > MaxSize /\ kind = "lfs"
          /\ \E p \in Injection(DOMAIN entries, DOMAIN entries) :
               /\ (\A k \in ToSet(entries) : Present(k)) => ByAge(LfsOrder(p))
               /\ todo' = LfsOrder(p)
          /\ pc' = "evict" /\ UNCHANGED entries
       \/ /\ totalSize > MaxSize /\ kind # "lfs"
          /\ pc' = "list" /\ entries' = ReadDir(kind) /\ todo' = ReadDir(kind)
       \/ /\ totalSize > MaxSize /\ kind # "lfs" /\ "readdir" \in faults
          /\ pc' = "select" /\ UNCHANGED <<entries, todo>>
    /\ UNCHANGED <<disk, kind, sorted, totalSize, tick, since, quiet, UNTOUCHED>>

Snapshot(k) == [key |-> k, mtime |-> disk[k].mtime, size |-> disk[k].size]

(* The second pass over repositories and assets: snapshot what is not in    *)
(* use, sort, evict.  Being in use is not looked at again.                  *)
List(k) ==
    /\ pc = "list" /\ todo # <<>> /\ k = Head(todo)
    /\ sorted' = IF InUse(k) \/ ~Present(k) THEN sorted ELSE Append(sorted, Snapshot(k))
    /\ todo' = Tail(todo)
    /\ UNCHANGED <<disk, pc, kind, entries, totalSize, tick, since, quiet, UNTOUCHED>>

(* sort.Slice by modification time, the snapshots in the order p: entries   *)
(* of the same time may come in any order.                                  *)
Arranged(p) == [i \in DOMAIN sorted |-> sorted[p[i]]]
OldestFirst(s) == \A i, j \in DOMAIN s : i < j => s[i].mtime <= s[j].mtime

BugNewestFirst ==
    /\ pc = "list" /\ todo = <<>>
    /\ \E p \in Injection(DOMAIN sorted, DOMAIN sorted) :
         /\ \A i, j \in DOMAIN sorted : i < j => Arranged(p)[i].mtime >= Arranged(p)[j].mtime
         /\ sorted' = Arranged(p)
    /\ pc' = "evict"
    /\ UNCHANGED <<disk, kind, entries, todo, totalSize, tick, since, quiet, UNTOUCHED>>

ListDone ==
    /\ pc = "list" /\ todo = <<>>
    /\ \E p \in Injection(DOMAIN sorted, DOMAIN sorted) :
         OldestFirst(Arranged(p)) /\ sorted' = Arranged(p)
    /\ pc' = "evict"
    /\ UNCHANGED <<disk, kind, entries, todo, totalSize, tick, since, quiet, UNTOUCHED>>

(* os.RemoveAll of a repository that is gone succeeds, os.Remove of an      *)
(* asset that is gone fails.                                                *)
Evict(e) ==
    /\ pc = "evict" /\ kind # "lfs"
    /\ sorted # <<>> /\ totalSize > MaxSize /\ e = Head(sorted)
    /\ IF kind = "asset" /\ ~Present(e.key)
       THEN UNCHANGED <<disk, totalSize, quiet>>
       ELSE Unlink(e.key, totalSize' = totalSize - e.size)
    /\ sorted' = Tail(sorted)
    /\ UNCHANGED <<pc, kind, entries, todo, tick, since, UNTOUCHED>>

(* LFS objects are looked up once more before they go.                      *)
LfsCheck ==
    /\ pc = "evict" /\ kind = "lfs"
    /\ todo # <<>> /\ totalSize > MaxSize
    /\ IF InUse(Head(todo))
       THEN todo' = Tail(todo) /\ pc' = "evict"
       ELSE todo' = todo /\ pc' = "evicting"
    /\ UNCHANGED <<disk, kind, entries, sorted, totalSize, tick, since, quiet, UNTOUCHED>>

LfsEvict(k) ==
    /\ pc = "evicting" /\ k = Head(todo)
    /\ \/ ~Present(k) /\ UNCHANGED <<disk, totalSize, quiet>>
       \/ Present(k) /\ Unlink(k, totalSize' = totalSize - disk[k].size)
    /\ todo' = Tail(todo) /\ pc' = "evict"
    /\ UNCHANGED <<kind, entries, sorted, tick, since, UNTOUCHED>>

EvictDone ==
    /\ pc = "evict"
    /\ totalSize <= MaxSize \/ (sorted = <<>> /\ todo = <<>>)
    /\ pc' = "swept"
    /\ UNCHANGED <<disk, kind, entries, todo, sorted, totalSize, tick, since, quiet, UNTOUCHED>>

Sweeper ==
    \/ clearCache \/ NextDirectory
    \/ Scan \/ ScanDone \/ ListDone \/ LfsCheck \/ EvictDone
    \/ \E k \in Entries : ScanEntry(k) \/ List(k) \/ LfsEvict(k)
    \/ \E e \in ToSet(sorted) : Evict(e)

Others ==
    \/ \E u \in Users : User(u)
    \/ \E k \in Entries : ForgetMutex(k) \/ cleanupExpiredUploads(k)

Next == TickerFires \/ Stop \/ Return \/ Sweeper \/ Clock \/ Others

Spec == Init /\ [][Next]_vars

(* The goroutine runs whenever it can, its ticker keeps firing, and a       *)
(* request that started ends.                                               *)
Fairness ==
    /\ WF_vars(TickerFires)
    /\ WF_vars(Sweeper)
    /\ \A u \in Users : WF_vars((Cache(u) \/ Release(u)) /\ quiet' = "no")

FairSpec == Spec /\ Fairness

----------------------------------------------------------------------------
(* The state has the shape the code gives it.                               *)
TypeOK ==
    /\ \A k \in Entries : disk[k] = Absent \/ disk[k] \in [mtime : 0..now, size : Sizes]
    /\ \A u \in Users :
         IF state[u] = "idle" THEN lock[u] = NoLock
         ELSE lock[u] \in [key : Entries, mode : {"r", "w"}] /\ state[u] \in {"locked", "using"}
    /\ unseen \subseteq {u \in Users : state[u] # "idle"}
    /\ pc \in {"select", "scan", "scanning", "list", "evict", "evicting", "swept", "returned"}
    /\ kind \in Kinds
    /\ totalSize \in Int

(* The sweep never removes what a request was already using when the sweep  *)
(* of its directory began, and is still using: the in-use checks of both    *)
(* passes (cache_manager.go:153, 218, 368, 419, and 284, 333 for LFS)       *)
(* protect every lock that was taken before them, for as long as the table  *)
(* counts it.  A use whose mutex cache.go:212 deletes, or whose count       *)
(* another user's unlock takes, is not protected.                           *)
LongUseIsSafe ==
    [][\A u \in since \ unseen :
          LET k == lock[u].key
          IN k \in In(kind) /\ Present(k) /\ Sweeper => Present(k)']_vars

Unused(kd) == {k \in In(kd) : Present(k) /\ ~InUse(k)}

(* The bytes of the entries ks: as many as their sizes add up to.           *)
Bytes(ks) == UNION {{k} \X (1..disk[k].size) : k \in ks}

(* A sweep nobody interfered with, and whose removals succeed, does what it *)
(* is for: of the entries not in use none is too old and all together fit   *)
(* in the maximal size ("Remove oldest entries until we're under the size   *)
(* limit", cache_manager.go:246).                                           *)
QuietSweepCleans ==
    pc = "swept" /\ quiet = "yes" =>
        /\ \A k \in Unused(kind) : ~Expired(k)
        /\ Cardinality(Bytes(Unused(kind))) <= MaxSize

(* The sweep does not remove more than it must: what it evicts for size is  *)
(* no younger than any entry it leaves (repositories and assets).           *)
EvictsOldest ==
    [][\A e \in ToSet(sorted) :
          Evict(e) /\ quiet = "yes" =>
              \A k \in Unused(kind)' : disk[e.key].mtime <= disk'[k].mtime]_vars

(* An entry that is not used any more and stays older than the maximal age  *)
(* is removed: sweeping eventually reaches it whatever the other requests   *)
(* do, as long as the manager runs and the system calls succeed.            *)
ExpiredIsCleared ==
    \A k \in Entries :
        (faults = {} /\ <>[](~InUse(k)) /\ [](stopChan = "open")) => []<>(~Present(k) \/ ~Expired(k))
=============================================================================
