------------------------- MODULE CacheManagerProofs --------------------------
(***************************************************************************)
(* For any number of requests, entries and sizes: what a request has been  *)
(* using since before a sweep survives the sweep, whatever fails; and a    *)
(* sweep that nobody interferes with removes enough, the oldest first.     *)
(***************************************************************************)
EXTENDS CacheManager, FiniteSetTheorems, TLAPS

-----------------------------------------------------------------------------
(***************************************************************************)
(* The inductive invariant, in parts.                                      *)
(***************************************************************************)
LockTypes ==
    /\ state \in [Users -> {"idle", "locked", "using"}]
    /\ lock \in [Users -> [key : Entries \cup {None}, mode : {"r", "w", "none"}]]
    /\ \A u \in Users : state[u] = "idle" <=> lock[u].key = None
    /\ kindOf \in [Entries -> Kinds \cup {None}]
    /\ unseen \subseteq {u \in Users : state[u] # "idle"}

Files == [mtime : Nat, size : Nat]
Snapshots == [key : Entries, mtime : Nat, size : Nat]

DiskTypes ==
    /\ disk \in [Entries -> Files \cup {Absent}]
    /\ now \in Nat
    /\ sorted \in Seq(Snapshots)

(* Users that the sweep of this directory found at work are still at it.    *)
LongUsers == since \subseteq {u \in Users : state[u] = "using"}

(* No such user has a lock on entry k, of those the table counts.           *)
Spare(k) == \A u \in since \ unseen : lock[u].key # k

(* What the sweep is about to remove is nothing such a user has a lock on:  *)
(* the in-use check that let it through came after all of their locks.      *)
AboutToGo ==
    /\ pc \in {"scanning", "evicting"} => Spare(Head(todo))
    /\ \A i \in DOMAIN sorted : Spare(sorted[i].key)

Inv == LockTypes /\ DiskTypes /\ LongUsers /\ AboutToGo

-----------------------------------------------------------------------------
(* The locks.                                                               *)

LEMMA UnlockStep ==
    ASSUME LockTypes, NEW u \in Users, Unlock(u), kindOf' = kindOf
    PROVE  LockTypes'
<1>1. NoLock \in [key : Entries \cup {None}, mode : {"r", "w", "none"}] /\ NoLock.key = None
  BY DEF NoLock
<1>2. lock' = [lock EXCEPT ![u] = NoLock] /\ state' = [state EXCEPT ![u] = "idle"]
  BY DEF Unlock
<1>3. ASSUME NEW v \in unseen'
      PROVE  v \in Users /\ v # u /\ state[v] # "idle"
  <2>1. CASE v \in unseen \ {u}
    BY <2>1 DEF LockTypes
  <2>2. CASE v \notin unseen \ {u}
    <3>1. v \in Users \ unseen /\ lock[v].key = lock[u].key /\ u \in unseen
      BY <1>3, <2>2 DEF Unlock, Counted
    <3>2. lock[u].key # None
      BY <3>1 DEF LockTypes
    <3> QED BY <3>1, <3>2 DEF LockTypes
  <2> QED BY <2>1, <2>2
<1> QED BY <1>1, <1>2, <1>3 DEF LockTypes

LEMMA LockStep ==
    ASSUME LockTypes, [Next]_vars
    PROVE  LockTypes'
<1>1. ASSUME UNCHANGED users
      PROVE  LockTypes'
  BY <1>1 DEF LockTypes, users
<1>2. ASSUME NEW u \in Users, NEW k \in Entries, NEW m \in {"r", "w"}, Acquire(u, k, m)
      PROVE  LockTypes'
  <2>1. /\ lock' = [lock EXCEPT ![u] = [key |-> k, mode |-> m]]
        /\ state' = [state EXCEPT ![u] = "locked"]
        /\ kindOf' = kindOf /\ unseen' = unseen
    BY <1>2 DEF Acquire
  <2> QED BY <2>1, ConstantsAssumption DEF LockTypes
<1>3. ASSUME NEW u \in Users, Release(u) \/ Drop(u)
      PROVE  LockTypes'
  BY <1>3, UnlockStep DEF Release, Drop
<1>4. ASSUME NEW u \in Users, Cache(u)
      PROVE  LockTypes'
  <2>1. /\ state[u] = "locked" /\ state' = [state EXCEPT ![u] = "using"]
        /\ UNCHANGED <<lock, kindOf, unseen>>
    BY <1>4 DEF Cache
  <2> QED BY <2>1 DEF LockTypes
<1>5. ASSUME NEW u \in Users, User(u)
      PROVE  LockTypes'
  BY <1>1, <1>2, <1>3, <1>4, <1>5 DEF User, Write
<1>6. CASE TickerFires \/ Stop \/ Return \/ Clock \/ \E k \in Entries : cleanupExpiredUploads(k)
  BY <1>1, <1>6 DEF TickerFires, Stop, Return, Clock, cleanupExpiredUploads, UNTOUCHED
<1>7. CASE Sweeper
  BY <1>1, <1>7 DEF Sweeper, clearCache, NextDirectory, Scan, ScanDone, List, ListDone, LfsCheck,
                    EvictDone, ScanEntry, LfsEvict, Evict, UNTOUCHED
<1>8. CASE UNCHANGED vars
  BY <1>1, <1>8 DEF vars, users
<1>9. ASSUME NEW k \in Entries, ForgetMutex(k)
      PROVE  LockTypes'
  <2>1. /\ unseen' = unseen \cup {u \in Users \ unseen : lock[u].key = k}
        /\ UNCHANGED <<lock, state, kindOf>>
    BY <1>9 DEF ForgetMutex, Counted
  <2>2. k # None
    BY ConstantsAssumption
  <2> QED BY <2>1, <2>2 DEF LockTypes
<1> QED BY <1>5, <1>6, <1>7, <1>8, <1>9 DEF Next, Others

-----------------------------------------------------------------------------
(* What the parts say of a step that leaves the sweep alone.                *)

(* A file that is written is there.                                         *)
LEMMA WrittenIsThere ==
    ASSUME NEW t \in Nat, NEW s \in Sizes
    PROVE  [mtime |-> t, size |-> s] \in Files /\ [mtime |-> t, size |-> s] # Absent
<1>1. s \in Nat
  BY ConstantsAssumption
<1> QED BY <1>1 DEF Files, Absent

(* How the steps of the others change a file.                               *)
LEMMA FileStep ==
    ASSUME DiskTypes, UNCHANGED <<now, sorted>>, NEW k,
           \/ disk' = disk
           \/ \E s \in Sizes : disk' = [disk EXCEPT ![k] = [mtime |-> now, size |-> s]]
           \/ disk' = [disk EXCEPT ![k] = Absent]
    PROVE  DiskTypes'
<1>1. CASE disk' = disk \/ disk' = [disk EXCEPT ![k] = Absent]
  BY <1>1 DEF DiskTypes
<1>2. ASSUME NEW s \in Sizes, disk' = [disk EXCEPT ![k] = [mtime |-> now, size |-> s]]
      PROVE  DiskTypes'
  <2> DEFINE f == [mtime |-> now, size |-> s]
  <2>1. f \in Files
    BY WrittenIsThere DEF DiskTypes
  <2> HIDE DEF f
  <2>2. disk' = [disk EXCEPT ![k] = f]
    BY <1>2 DEF f
  <2> QED BY <2>1, <2>2 DEF DiskTypes
<1> QED BY <1>1, <1>2

(* Whoever has been using an entry since before the sweep, and is counted,  *)
(* was so before the step of a request.                                     *)
LEMMA UserStep ==
    ASSUME Inv, NEW u \in Users, User(u)
    PROVE  DiskTypes' /\ LongUsers' /\ AboutToGo'
<1> USE DEF Inv
<1>1. UNCHANGED <<pc, kind, todo, sorted, now, kindOf>>
  BY DEF User, Acquire, Cache, Write, Release, Drop, sweep, users
<1>2. \A v \in since' : v \in since /\ lock'[v] = lock[v] /\ state'[v] = "using" /\ (v \in unseen => v \in unseen')
  <2>1. ASSUME NEW k \in Entries, NEW m \in {"r", "w"}, Acquire(u, k, m)
        PROVE  /\ since' = since /\ unseen' = unseen /\ u \notin since
               /\ \A v \in since : lock'[v] = lock[v] /\ state'[v] = state[v]
    BY <2>1 DEF Acquire, LongUsers, LockTypes
  <2>2. ASSUME Cache(u)
        PROVE  /\ since' = since /\ unseen' = unseen /\ u \notin since
               /\ \A v \in since : lock'[v] = lock[v] /\ state'[v] = state[v]
    BY <2>2 DEF Cache, LongUsers, LockTypes
  <2>3. ASSUME Write(u)
        PROVE  /\ since' = since /\ unseen' = unseen
               /\ \A v \in since : lock'[v] = lock[v] /\ state'[v] = state[v]
    BY <2>3 DEF Write, users
  <2>4. ASSUME Release(u) \/ Drop(u)
        PROVE  /\ since' = since \ {u} /\ unseen \ {u} \subseteq unseen'
               /\ \A v \in since' : lock'[v] = lock[v] /\ state'[v] = state[v]
    <3>1. Unlock(u)
      BY <2>4 DEF Release, Drop
    <3>2. /\ since' = since \ {u} /\ unseen \ {u} \subseteq unseen'
          /\ lock' = [lock EXCEPT ![u] = NoLock] /\ state' = [state EXCEPT ![u] = "idle"]
      BY <3>1 DEF Unlock
    <3> QED BY <3>2 DEF LongUsers, LockTypes
  <2>5. \A v \in since : state[v] = "using"
    BY DEF LongUsers
  <2> QED BY <2>1, <2>2, <2>3, <2>4, <2>5 DEF User
<1>3. \/ disk' = disk
      \/ \E s \in Sizes : disk' = [disk EXCEPT ![lock[u].key] = [mtime |-> now, size |-> s]]
      \/ disk' = [disk EXCEPT ![lock[u].key] = Absent]
  BY DEF User, Acquire, Cache, Write, Release, Drop
<1>4. DiskTypes'
  BY <1>1, <1>3, FileStep
<1>5. LongUsers'
  BY <1>2 DEF LongUsers
<1>6. AboutToGo'
  BY <1>1, <1>2 DEF AboutToGo, Spare
<1> QED BY <1>4, <1>5, <1>6

-----------------------------------------------------------------------------
(* The sweep.                                                               *)

(* A removal of an entry that no long user has a lock on leaves theirs.     *)
Spared == \A u \in since \ unseen : Present(lock[u].key) => Present(lock[u].key)'

LEMMA RemovalIsSafe ==
    ASSUME Inv, NEW k, Spare(k), disk' = [disk EXCEPT ![k] = Absent] \/ disk' = disk,
           lock' = lock
    PROVE  Spared /\ disk' \in [Entries -> Files \cup {Absent}]
<1>1. disk' \in [Entries -> Files \cup {Absent}]
  BY DEF Inv, DiskTypes
<1>2. ASSUME NEW u \in since \ unseen
      PROVE  disk'[lock[u].key] = disk[lock[u].key]
  <2>1. lock[u].key # k /\ lock[u].key \in Entries
    BY DEF Inv, Spare, LongUsers, LockTypes
  <2> QED BY <2>1 DEF Inv, DiskTypes
<1> QED BY <1>1, <1>2 DEF Spared, Present

(* A sweep begins: the users it finds have what they use.                   *)
LEMMA EnterStep ==
    ASSUME Inv, NEW kd, Enter(kd), UNCHANGED <<disk, now, lock, state, unseen, kindOf>>
    PROVE  DiskTypes' /\ LongUsers' /\ AboutToGo'
<1>1. since' = {u \in Users : state[u] = "using" /\ Present(lock[u].key)} /\ sorted' = <<>>
      /\ pc' \in {"scan", "select"}
  BY DEF Enter
<1>2. DiskTypes'
  BY <1>1 DEF Inv, DiskTypes
<1>3. LongUsers'
  BY <1>1 DEF LongUsers
<1>4. AboutToGo'
  BY <1>1 DEF AboutToGo
<1> QED BY <1>2, <1>3, <1>4

(* A step that leaves the directory and the users alone.                    *)
LEMMA QuietStep ==
    ASSUME Inv, UNCHANGED <<disk, now, lock, state, unseen, kindOf, since, kind>>,
           sorted' \in Seq(Snapshots), AboutToGo'
    PROVE  DiskTypes' /\ LongUsers' /\ AboutToGo'
BY DEF Inv, DiskTypes, LongUsers

(* Nobody who is found not to be using an entry is a long user of it.       *)
LEMMA UnusedIsSpare ==
    ASSUME Inv, NEW k, ~InUse(k)
    PROVE  Spare(k)
BY DEF Inv, Spare, InUse, Counted, LongUsers

LEMMA SweeperStep ==
    ASSUME Inv, Sweeper
    PROVE  DiskTypes' /\ LongUsers' /\ AboutToGo'
<1> DEFINE Goal == DiskTypes' /\ LongUsers' /\ AboutToGo'
<1>1. UNCHANGED <<now, lock, state, unseen, kindOf>>
  BY DEF Sweeper, clearCache, NextDirectory, Scan, ScanDone, List, ListDone, LfsCheck,
         EvictDone, ScanEntry, LfsEvict, Evict, UNTOUCHED, users
<1>2. sorted \in Seq(Snapshots) /\ \A i \in DOMAIN sorted : Spare(sorted[i].key)
  BY DEF Inv, DiskTypes, AboutToGo
<1>3. ASSUME since' = since
      PROVE  \A k : Spare(k)' <=> Spare(k)
  BY <1>1, <1>3 DEF Spare
<1>4. CASE clearCache
  BY <1>1, <1>4, EnterStep DEF clearCache
<1>5. CASE NextDirectory
  <2>1. CASE Enter("asset") \/ Enter("lfs")
    BY <1>1, <1>5, <2>1, EnterStep DEF NextDirectory
  <2>2. CASE pc' = "select" /\ UNCHANGED <<kind, sorted, since>>
    <3>1. AboutToGo'
      BY <1>2, <1>3, <2>2 DEF AboutToGo
    <3> QED BY <1>1, <1>2, <1>5, <2>2, <3>1, QuietStep DEF NextDirectory
  <2> QED BY <1>5, <2>1, <2>2 DEF NextDirectory
<1>6. CASE Scan \/ LfsCheck
  <2>1. UNCHANGED <<disk, kind, sorted, since>>
    BY <1>6 DEF Scan, LfsCheck
  <2>2. pc' \in {"scanning", "evicting"} => todo' = todo /\ ~InUse(Head(todo))
    BY <1>6 DEF Scan, LfsCheck
  <2>3. AboutToGo'
    BY <1>2, <1>3, <2>1, <2>2, UnusedIsSpare DEF AboutToGo
  <2> QED BY <1>1, <1>2, <2>1, <2>3, QuietStep
<1>7. CASE ScanDone \/ EvictDone
  <2>1. UNCHANGED <<disk, kind, sorted, since>> /\ pc' \in {"swept", "evict", "list", "select"}
    BY <1>7 DEF ScanDone, EvictDone
  <2>2. AboutToGo'
    BY <1>2, <1>3, <2>1 DEF AboutToGo
  <2> QED BY <1>1, <1>2, <2>1, <2>2, QuietStep
<1>8. ASSUME NEW k \in Entries, List(k)
      PROVE  Goal
  <2>1. UNCHANGED <<disk, kind, since, pc>> /\ pc = "list"
        /\ sorted' = IF InUse(k) \/ ~Present(k) THEN sorted ELSE Append(sorted, Snapshot(k))
    BY <1>8 DEF List
  <2>2. CASE sorted' = sorted
    <3>1. AboutToGo'
      BY <1>2, <1>3, <2>1, <2>2 DEF AboutToGo
    <3> QED BY <1>1, <1>2, <2>1, <2>2, <3>1, QuietStep
  <2>3. CASE ~InUse(k) /\ Present(k) /\ sorted' = Append(sorted, Snapshot(k))
    <3> DEFINE e == Snapshot(k)
    <3>1. e \in Snapshots /\ e.key = k
      <4>1. disk[k] \in Files
        BY <2>3 DEF Inv, DiskTypes, Present
      <4> QED BY <4>1 DEF Snapshot, Snapshots, Files
    <3>2. Spare(e.key)
      BY <2>3, <3>1, UnusedIsSpare
    <3> HIDE DEF e
    <3>3. sorted' = Append(sorted, e)
      BY <2>3 DEF e
    <3>4. sorted' \in Seq(Snapshots)
      BY <1>2, <3>1, <3>3
    <3>5. \A i \in DOMAIN sorted' : sorted'[i] = e \/ (i \in DOMAIN sorted /\ sorted'[i] = sorted[i])
      BY <1>2, <3>1, <3>3
    <3>6. AboutToGo'
      BY <1>2, <1>3, <2>1, <3>2, <3>5 DEF AboutToGo
    <3> QED BY <1>1, <2>1, <3>4, <3>6, QuietStep
  <2> QED BY <2>1, <2>2, <2>3
<1>9. CASE ListDone
  <2>1. UNCHANGED <<disk, kind, since>> /\ pc' = "evict"
    BY <1>9 DEF ListDone
  <2>2. PICK p \in Injection(DOMAIN sorted, DOMAIN sorted) : sorted' = Arranged(p)
    BY <1>9 DEF ListDone
  <2>3. p \in [DOMAIN sorted -> DOMAIN sorted]
    BY DEF Injection
  <2>4. sorted' \in Seq(Snapshots) /\ \A i \in DOMAIN sorted' : \E j \in DOMAIN sorted : sorted'[i] = sorted[j]
    <3>1. DOMAIN sorted = 1..Len(sorted) /\ Len(sorted) \in Nat /\ \A j \in DOMAIN sorted : sorted[j] \in Snapshots
      BY <1>2
    <3>2. DOMAIN sorted' = DOMAIN sorted
          /\ \A i \in DOMAIN sorted : sorted'[i] = sorted[p[i]] /\ p[i] \in DOMAIN sorted
      BY <2>2, <2>3 DEF Arranged
    <3>3. sorted' \in [1..Len(sorted) -> Snapshots]
      BY <2>2, <2>3, <3>1 DEF Arranged
    <3>4. sorted' \in Seq(Snapshots)
      BY <3>1, <3>3
    <3> QED BY <3>2, <3>4
  <2>5. AboutToGo'
    BY <1>2, <1>3, <2>1, <2>4 DEF AboutToGo
  <2> QED BY <1>1, <2>1, <2>4, <2>5, QuietStep
<1>10. ASSUME NEW k, Spare(k), disk' = [disk EXCEPT ![k] = Absent] \/ disk' = disk,
              UNCHANGED <<since, kind>>, sorted' \in Seq(Snapshots), AboutToGo'
       PROVE  Goal
  <2>1. disk' \in [Entries -> Files \cup {Absent}]
    BY <1>1, <1>10, RemovalIsSafe
  <2>2. DiskTypes'
    BY <1>1, <1>10, <2>1 DEF Inv, DiskTypes
  <2>3. LongUsers'
    BY <1>1, <1>10 DEF Inv, LongUsers
  <2> QED BY <1>10, <2>1, <2>2, <2>3
<1>11. ASSUME NEW k \in Entries, ScanEntry(k) \/ LfsEvict(k)
       PROVE  Goal
  <2>1. pc \in {"scanning", "evicting"} /\ k = Head(todo)
        /\ pc' \in {"scan", "evict"} /\ UNCHANGED <<since, kind, sorted>>
    BY <1>11 DEF ScanEntry, LfsEvict
  <2>2. disk' = [disk EXCEPT ![k] = Absent] \/ disk' = disk
    BY <1>11 DEF ScanEntry, LfsEvict, Unlink
  <2>3. Spare(k)
    BY <2>1 DEF Inv, AboutToGo
  <2>4. AboutToGo'
    BY <1>2, <1>3, <2>1 DEF AboutToGo
  <2> QED BY <1>2, <1>10, <2>1, <2>2, <2>3, <2>4
<1>12. ASSUME NEW e, Evict(e)
       PROVE  Goal
  <2>1. sorted # <<>> /\ e = Head(sorted) /\ sorted' = Tail(sorted)
        /\ pc' = "evict" /\ UNCHANGED <<since, kind>>
    BY <1>12 DEF Evict
  <2>2. disk' = [disk EXCEPT ![e.key] = Absent] \/ disk' = disk
    BY <1>12 DEF Evict, Unlink
  <2>3. e = sorted[1] /\ 1 \in DOMAIN sorted /\ sorted' \in Seq(Snapshots)
        /\ \A i \in DOMAIN sorted' : i + 1 \in DOMAIN sorted /\ sorted'[i] = sorted[i + 1]
    BY <1>2, <2>1
  <2>4. Spare(e.key)
    BY <1>2, <2>3
  <2>5. AboutToGo'
    BY <1>2, <1>3, <2>1, <2>3 DEF AboutToGo
  <2> QED BY <1>10, <2>1, <2>2, <2>3, <2>4, <2>5
<1> QED BY <1>4, <1>5, <1>6, <1>7, <1>8, <1>9, <1>11, <1>12 DEF Sweeper

LEMMA InvStep == Inv /\ [Next]_vars => Inv'
<1> SUFFICES ASSUME Inv, [Next]_vars
             PROVE  Inv'
  OBVIOUS
<1>1. LockTypes'
  BY LockStep DEF Inv
<1>2. ASSUME UNCHANGED <<disk, lock, state, unseen, kindOf, since, kind, pc, todo, sorted>>, now' \in Nat
      PROVE  DiskTypes' /\ LongUsers' /\ AboutToGo'
  BY <1>2 DEF Inv, DiskTypes, LongUsers, AboutToGo, Spare
<1>3. now \in Nat /\ now + 1 \in Nat
  BY DEF Inv, DiskTypes
<1>4. CASE UNCHANGED vars
  BY <1>1, <1>2, <1>3, <1>4 DEF Inv, vars
<1>5. CASE TickerFires \/ Stop \/ Clock
  BY <1>1, <1>2, <1>3, <1>5 DEF Inv, TickerFires, Stop, Clock, UNTOUCHED, users, sweep
<1>6. CASE Return
  <2>1. pc' = "returned" /\ UNCHANGED <<disk, now, lock, state, unseen, kindOf, since, kind, sorted>>
    BY <1>6 DEF Return, UNTOUCHED, users
  <2>2. AboutToGo'
    BY <2>1 DEF Inv, AboutToGo, Spare
  <2>3. sorted' \in Seq(Snapshots)
    BY <2>1 DEF Inv, DiskTypes
  <2> QED BY <1>1, <2>1, <2>2, <2>3, QuietStep DEF Inv
<1>7. CASE Sweeper
  BY <1>1, <1>7, SweeperStep DEF Inv
<1>8. ASSUME NEW u \in Users, User(u)
      PROVE  Inv'
  BY <1>1, <1>8, UserStep DEF Inv
<1>9. ASSUME NEW k \in Entries, ForgetMutex(k)
      PROVE  Inv'
  <2>1. /\ UNCHANGED <<disk, now, lock, state, since, pc, todo, sorted>>
        /\ unseen \subseteq unseen'
    BY <1>9 DEF ForgetMutex, sweep
  <2> QED BY <1>1, <2>1 DEF Inv, DiskTypes, LongUsers, AboutToGo, Spare
<1>10. ASSUME NEW k \in Entries, cleanupExpiredUploads(k)
       PROVE  Inv'
  <2>1. /\ UNCHANGED <<now, lock, state, unseen, since, pc, todo, sorted>>
        /\ disk' = [disk EXCEPT ![k] = Absent]
    BY <1>10 DEF cleanupExpiredUploads, sweep, users
  <2>2. DiskTypes'
    BY <2>1, FileStep DEF Inv
  <2> QED BY <1>1, <2>1, <2>2 DEF Inv, LongUsers, AboutToGo, Spare
<1> QED BY <1>4, <1>5, <1>6, <1>7, <1>8, <1>9, <1>10 DEF Next, Others

LEMMA InvStart == Init => Inv
<1> SUFFICES ASSUME Init
             PROVE  Inv
  OBVIOUS
<1>1. LockTypes
  <2>1. NoLock \in [key : Entries \cup {None}, mode : {"r", "w", "none"}] /\ NoLock.key = None
    BY DEF NoLock
  <2> QED BY <2>1, ConstantsAssumption DEF Init, LockTypes
<1>2. DiskTypes
  <2>1. ASSUME NEW f \in [mtime : {0}, size : Sizes]
        PROVE  f \in Files
    <3>1. f.mtime = 0 /\ f.size \in Sizes
      OBVIOUS
    <3>2. f.size \in Nat
      BY <3>1, ConstantsAssumption
    <3>3. f = [mtime |-> f.mtime, size |-> f.size]
      OBVIOUS
    <3> QED BY <3>1, <3>2, <3>3 DEF Files
  <2> QED BY <2>1 DEF Init, DiskTypes
<1>3. LongUsers /\ AboutToGo
  BY DEF Init, LongUsers, AboutToGo
<1> QED BY <1>1, <1>2, <1>3 DEF Inv

(* Whatever a step of the sweep removes is spare.                           *)
LEMMA SweeperSpares ==
    ASSUME Inv, Sweeper
    PROVE  Spared
<1>1. ASSUME NEW k \in Entries, ScanEntry(k) \/ LfsEvict(k)
      PROVE  Spared
  <2>1. pc \in {"scanning", "evicting"} /\ k = Head(todo)
    BY <1>1 DEF ScanEntry, LfsEvict
  <2>2. disk' = [disk EXCEPT ![k] = Absent] \/ disk' = disk
    BY <1>1 DEF ScanEntry, LfsEvict, Unlink
  <2>3. Spare(k) /\ lock' = lock
    BY <1>1, <2>1 DEF Inv, AboutToGo, ScanEntry, LfsEvict, UNTOUCHED, users
  <2> QED BY <2>2, <2>3, RemovalIsSafe
<1>2. ASSUME NEW e, Evict(e)
      PROVE  Spared
  <2>1. sorted # <<>> /\ e = Head(sorted)
    BY <1>2 DEF Evict
  <2>2. disk' = [disk EXCEPT ![e.key] = Absent] \/ disk' = disk
    BY <1>2 DEF Evict, Unlink
  <2>3. e = sorted[1] /\ 1 \in DOMAIN sorted
    BY <2>1 DEF Inv, DiskTypes
  <2>4. Spare(e.key) /\ lock' = lock
    BY <1>2, <2>3 DEF Inv, AboutToGo, Evict, UNTOUCHED, users
  <2> QED BY <2>2, <2>4, RemovalIsSafe
<1>3. ASSUME UNCHANGED <<disk, lock>>
      PROVE  Spared
  BY <1>3 DEF Spared, Present
<1>4. ASSUME \/ clearCache \/ NextDirectory \/ Scan \/ ScanDone \/ ListDone \/ LfsCheck \/ EvictDone
             \/ \E k \in Entries : List(k)
      PROVE  Spared
  BY <1>3, <1>4 DEF clearCache, NextDirectory, Scan, ScanDone, List, ListDone, LfsCheck, EvictDone,
                    UNTOUCHED, users
<1> QED BY <1>1, <1>2, <1>4 DEF Sweeper

(* The in-use checks of both passes protect what a request has been using   *)
(* since before the sweep of its directory began, although the sweep takes  *)
(* no lock and looks at the counts once per entry: as long as the table     *)
(* counts the request, whatever mutex is deleted, file removed or count     *)
(* taken elsewhere.                                                         *)
THEOREM SweepSparesLongUse == Spec => LongUseIsSafe
<1> DEFINE Safe == \A u \in since \ unseen :
                      LET k == lock[u].key
                      IN k \in In(kind) /\ Present(k) /\ Sweeper => Present(k)'
<1>1. Inv /\ [Next]_vars => [Safe]_vars
  BY SweeperSpares DEF Spared
<1> HIDE DEF Safe
<1>2. Spec => [][Safe]_vars
  BY <1>1, InvStart, InvStep, PTL DEF Spec
<1> QED BY <1>2 DEF LongUseIsSafe, Safe

-----------------------------------------------------------------------------
(***************************************************************************)
(* A sweep that nobody interferes with: the invariant, in parts.           *)
(***************************************************************************)
SweepTypes ==
    /\ entries \in Seq(Entries) /\ todo \in Seq(Entries)
    /\ totalSize \in Int

(* Which loop is for which directory.                                       *)
Passes ==
    /\ pc \in {"scan", "scanning"} => sorted = <<>>
    /\ pc = "list" => kind # "lfs"
    /\ pc = "evicting" => kind = "lfs" /\ todo # <<>>

Occurs(k, s) == \E i \in DOMAIN s : s[i] = k
Snapped(k) == \E i \in DOMAIN sorted : sorted[i].key = k
Once(s) == \A i, j \in DOMAIN s : s[i] = s[j] => i = j

(* The size of the entries ks, for a content d of the disk.                 *)
BytesOf(d, ks) == UNION {{k} \X (1..d[k].size) : k \in ks}
Size(d, ks) == Cardinality(BytesOf(d, ks))

(* The first loop has removed what was too old among the entries behind it, *)
(* and counted the others.                                                  *)
FirstPass ==
    pc \in {"scan", "scanning"} =>
        /\ \A k \in Unused(kind) : Occurs(k, entries)
        /\ \A i \in DOMAIN entries : entries[i] \in In(kind)
        /\ \A k \in Unused(kind) : Occurs(k, todo) \/ ~Expired(k)
        /\ Size(disk, {k \in Unused(kind) : ~Occurs(k, todo)}) <= totalSize

(* After it the account is not below what is there.                         *)
SecondPass ==
    pc \in {"list", "evict", "evicting"} =>
        /\ \A k \in Unused(kind) : ~Expired(k)
        /\ Size(disk, Unused(kind)) <= totalSize

(* Each LFS object that is there is still to be visited.                    *)
LfsPass ==
    pc \in {"evict", "evicting"} /\ kind = "lfs" =>
        /\ \A k \in Unused(kind) : Occurs(k, todo)
        /\ \A i \in DOMAIN todo : todo[i] \in In(kind)
        /\ pc = "evicting" => ~InUse(Head(todo))

(* Each repository or asset has a snapshot, or will get one: one, and as    *)
(* the entry is.                                                            *)
SnapshotPass ==
    pc \in {"list", "evict"} /\ kind # "lfs" =>
        /\ \A k \in Unused(kind) : Snapped(k) \/ (pc = "list" /\ Occurs(k, todo))
        /\ \A i \in DOMAIN sorted :
             sorted[i].key \in Unused(kind) /\ sorted[i] = Snapshot(sorted[i].key)
        /\ \A i, j \in DOMAIN sorted : sorted[i].key = sorted[j].key => i = j
        /\ pc = "list" =>
             /\ Once(todo) /\ \A i \in DOMAIN todo : todo[i] \in In(kind)
             /\ \A i \in DOMAIN sorted : ~Occurs(sorted[i].key, todo)
        /\ pc = "evict" => OldestFirst(sorted)

QuietPasses == quiet = "yes" =>
    FirstPass /\ SecondPass /\ LfsPass /\ SnapshotPass /\ QuietSweepCleans

QuietInv == Inv /\ SweepTypes /\ Passes /\ QuietPasses


-----------------------------------------------------------------------------
(* Sizes.                                                                   *)

LEMMA BytesOfOne ==
    ASSUME NEW k, NEW n \in Nat
    PROVE  IsFiniteSet({k} \X (1..n)) /\ Cardinality({k} \X (1..n)) = n
<1> DEFINE f == [b \in 1..n |-> <<k, b>>]
<1>1. f \in Bijection(1..n, {k} \X (1..n))
  <2>1. f \in [1..n -> {k} \X (1..n)]
    OBVIOUS
  <2>2. \A a, b \in DOMAIN f : f[a] = f[b] => a = b
    OBVIOUS
  <2>3. ASSUME NEW t \in {k} \X (1..n)
        PROVE  \E s \in 1..n : f[s] = t
    <3>1. t = <<k, t[2]>> /\ t[2] \in 1..n
      OBVIOUS
    <3> QED BY <3>1
  <2> HIDE DEF f
  <2> QED BY <2>1, <2>2, <2>3 DEF Bijection, Injection, Surjection, IsInjective
<1>2. ExistsBijection(1..n, {k} \X (1..n))
  BY <1>1 DEF ExistsBijection
<1>3. IsFiniteSet(1..n) /\ Cardinality(1..n) = n
  BY FS_Interval
<1> QED BY <1>2, <1>3, FS_Bijection

LEMMA BytesFinite ==
    ASSUME NEW S, IsFiniteSet(S), NEW d, \A k \in S : d[k].size \in Nat
    PROVE  IsFiniteSet(BytesOf(d, S)) /\ Size(d, S) \in Nat
<1> DEFINE g == [k \in S |-> {k} \X (1..d[k].size)]
           T == {{k} \X (1..d[k].size) : k \in S}
<1>1. g \in Surjection(S, T)
  BY DEF Surjection
<1>2. IsFiniteSet(T)
  <2> HIDE DEF g, T
  <2> QED BY <1>1, FS_Surjection
<1>3. ASSUME NEW t \in T
      PROVE  IsFiniteSet(t)
  <2>1. PICK k \in S : t = {k} \X (1..d[k].size)
    OBVIOUS
  <2> QED BY <2>1, BytesOfOne
<1>4. IsFiniteSet(UNION T)
  <2> HIDE DEF T
  <2> QED BY <1>2, <1>3, FS_UNION
<1>5. IsFiniteSet(BytesOf(d, S))
  BY <1>4 DEF BytesOf
<1> QED BY <1>5, FS_CardinalityType DEF Size

LEMMA SizeGrows ==
    ASSUME NEW T, IsFiniteSet(T), NEW S \in SUBSET T, NEW d, \A k \in T : d[k].size \in Nat
    PROVE  Size(d, S) <= Size(d, T)
<1>1. BytesOf(d, S) \in SUBSET BytesOf(d, T)
  BY DEF BytesOf
<1>2. IsFiniteSet(BytesOf(d, T))
  BY BytesFinite
<1> QED BY <1>1, <1>2, FS_Subset DEF Size

LEMMA SizeWith ==
    ASSUME NEW S, IsFiniteSet(S), NEW k, NEW d, \A x \in S \cup {k} : d[x].size \in Nat
    PROVE  /\ Size(d, S \cup {k}) <= Size(d, S) + d[k].size
           /\ k \notin S => Size(d, S \cup {k}) = Size(d, S) + d[k].size
<1> DEFINE A == BytesOf(d, S)
           B == {k} \X (1..d[k].size)
<1>1. BytesOf(d, S \cup {k}) = A \cup B
  BY DEF BytesOf
<1>2. IsFiniteSet(A) /\ Cardinality(A) \in Nat
  BY BytesFinite DEF Size
<1>3. IsFiniteSet(B) /\ Cardinality(B) = d[k].size /\ d[k].size \in Nat
  BY BytesOfOne
<1>4. k \notin S => A \cap B = {}
  BY DEF BytesOf
<1> HIDE DEF A, B
<1>5. Cardinality(A \cup B) = Cardinality(A) + Cardinality(B) - Cardinality(A \cap B)
  BY <1>2, <1>3, FS_Union
<1>6. IsFiniteSet(A \cap B)
  BY <1>2, FS_Intersection
<1>7. Cardinality(A \cap B) \in Nat /\ (A \cap B = {} => Cardinality(A \cap B) = 0)
  BY <1>6, FS_CardinalityType, FS_EmptySet
<1>8. Size(d, S) = Cardinality(A) /\ Size(d, S \cup {k}) = Cardinality(A \cup B)
  BY <1>1 DEF A, Size
<1> QED BY <1>2, <1>3, <1>4, <1>5, <1>7, <1>8

LEMMA SizeWithout ==
    ASSUME NEW S, IsFiniteSet(S), NEW k \in S, NEW d, \A x \in S : d[x].size \in Nat
    PROVE  Size(d, S \ {k}) = Size(d, S) - d[k].size
<1> DEFINE R == S \ {k}
<1>1. IsFiniteSet(R) /\ k \notin R /\ S = R \cup {k}
  BY FS_RemoveElement
<1>2. \A x \in R \cup {k} : d[x].size \in Nat
  BY <1>1
<1> HIDE DEF R
<1>3. Size(d, R \cup {k}) = Size(d, R) + d[k].size
  BY <1>1, <1>2, SizeWith
<1>4. Size(d, R) \in Nat /\ d[k].size \in Nat
  BY <1>1, <1>2, BytesFinite
<1>5. Size(d, S) = Size(d, R) + d[k].size
  BY <1>1, <1>3
<1>6. Size(d, R) = Size(d, S) - d[k].size
  BY <1>4, <1>5
<1> QED BY <1>6 DEF R

LEMMA SameSize ==
    ASSUME NEW S, NEW d, NEW e, \A k \in S : d[k] = e[k]
    PROVE  Size(d, S) = Size(e, S)
<1>1. BytesOf(d, S) = BytesOf(e, S)
  BY DEF BytesOf
<1> QED BY <1>1 DEF Size

-----------------------------------------------------------------------------
(* Sequences.                                                               *)

(* os.ReadDir lists what is there, each name once.                          *)
LEMMA ReadDirLists ==
    ASSUME NEW kd
    PROVE  /\ ReadDir(kd) \in Seq(Entries)
           /\ \A k \in In(kd) : Present(k) => Occurs(k, ReadDir(kd))
           /\ \A i \in DOMAIN ReadDir(kd) : ReadDir(kd)[i] \in In(kd)
           /\ Once(ReadDir(kd))
<1> DEFINE S == {k \in In(kd) : Present(k)}
           n == Cardinality(S)
           Before(k) == {j \in S : j < k}
           rank == [k \in S |-> Cardinality(Before(k)) + 1]
<1>1. S \subseteq Entries /\ S \subseteq Nat /\ S \subseteq In(kd)
  BY ConstantsAssumption DEF In
<1>2. IsFiniteSet(S) /\ n \in Nat
  <2>1. IsFiniteSet(S)
    BY <1>1, ConstantsAssumption, FS_Subset
  <2> QED BY <2>1, FS_CardinalityType
<1>3. \A i \in 1..n : ReadDir(kd)[i] = CHOOSE k \in S : Cardinality(Before(k)) = i - 1
  BY DEF ReadDir
<1>4. ReadDir(kd) = [i \in 1..n |-> CHOOSE k \in S : Cardinality(Before(k)) = i - 1]
  BY DEF ReadDir
<1> HIDE DEF S
<1>5. ASSUME NEW k \in S
      PROVE  IsFiniteSet(Before(k)) /\ Cardinality(Before(k)) \in Nat /\ Cardinality(Before(k)) < n
  <2>1. Before(k) \in SUBSET S /\ Before(k) # S
    BY <1>1
  <2> HIDE DEF Before
  <2>2. IsFiniteSet(Before(k)) /\ Cardinality(Before(k)) <= n /\ Cardinality(Before(k)) # n
    BY <1>2, <2>1, FS_Subset
  <2>3. Cardinality(Before(k)) \in Nat
    BY <2>2, FS_CardinalityType
  <2> QED BY <1>2, <2>2, <2>3
<1>6. ASSUME NEW j \in S, NEW k \in S, j < k
      PROVE  Cardinality(Before(j)) < Cardinality(Before(k))
  <2>1. Before(j) \in SUBSET Before(k) /\ Before(j) # Before(k)
    <3>1. \A x \in S : x \in Nat /\ (x < j => x < k) /\ ~(j < j)
      BY <1>1, <1>6
    <3>2. j \in Before(k) /\ j \notin Before(j)
      BY <1>6, <3>1
    <3>3. Before(j) \in SUBSET Before(k)
      BY <3>1
    <3> HIDE DEF Before
    <3> QED BY <3>2, <3>3
  <2>2. IsFiniteSet(Before(k)) /\ Cardinality(Before(k)) \in Nat /\ Cardinality(Before(j)) \in Nat
    BY <1>5
  <2> HIDE DEF Before
  <2> QED BY <2>1, <2>2, FS_Subset
<1>7. ASSUME NEW j \in S, NEW k \in S, Cardinality(Before(j)) = Cardinality(Before(k))
      PROVE  j = k
  <2>1. j \in Nat /\ k \in Nat
    BY <1>1
  <2>2. Cardinality(Before(k)) \in Nat
    BY <1>5
  <2> HIDE DEF Before
  <2> QED BY <1>6, <1>7, <2>1, <2>2
<1> HIDE DEF Before
<1>8. ASSUME NEW i \in 1..n
      PROVE  \E k \in S : Cardinality(Before(k)) = i - 1
  <2>1. rank \in Injection(S, 1..n)
    <3>1. rank \in [S -> 1..n]
      BY <1>2, <1>5
    <3>2. \A a, b \in S : rank[a] = rank[b] => a = b
      BY <1>5, <1>7
    <3> HIDE DEF rank
    <3> QED BY <3>1, <3>2 DEF Injection, IsInjective
  <2>2. IsFiniteSet(1..n) /\ Cardinality(1..n) = n
    BY <1>2, FS_Interval
  <2>3. rank \in Surjection(S, 1..n)
    <3> HIDE DEF rank
    <3> QED BY <2>1, <2>2, FS_Injection
  <2>4. PICK k \in S : rank[k] = i
    <3> HIDE DEF rank
    <3> QED BY <2>3 DEF Surjection
  <2> QED BY <1>5, <2>4
<1>9. ASSUME NEW i \in 1..n
      PROVE  ReadDir(kd)[i] \in S /\ Cardinality(Before(ReadDir(kd)[i])) = i - 1
  BY <1>3, <1>8
<1>10. DOMAIN ReadDir(kd) = 1..n
  BY <1>4
<1>11. ASSUME NEW k \in S
       PROVE  Occurs(k, ReadDir(kd))
  <2> DEFINE i == Cardinality(Before(k)) + 1
  <2>1. i \in 1..n /\ i - 1 = Cardinality(Before(k))
    BY <1>2, <1>5
  <2>2. ReadDir(kd)[i] = k
    <3> HIDE DEF i
    <3> QED BY <1>7, <1>9, <2>1
  <2> QED BY <1>10, <2>1, <2>2 DEF Occurs
<1>12. Once(ReadDir(kd))
  BY <1>9, <1>10 DEF Once
<1>13. ReadDir(kd) \in [1..n -> S]
  BY <1>4, <1>8
<1>14. ReadDir(kd) \in Seq(Entries)
  <2>1. ReadDir(kd) \in [1..n -> Entries]
    BY <1>1, <1>13
  <2> HIDE DEF n
  <2> QED BY <1>2, <2>1
<1>15. \A k \in In(kd) : Present(k) => k \in S
  BY DEF S
<1> QED BY <1>1, <1>9, <1>10, <1>11, <1>12, <1>14, <1>15

(* What is rearranged stays.                                                *)
LEMMA Rearranged ==
    ASSUME NEW X, NEW s \in Seq(X), NEW p \in Injection(DOMAIN s, DOMAIN s)
    PROVE  /\ \A i \in DOMAIN s : p[i] \in DOMAIN s
           /\ \A i, j \in DOMAIN s : p[i] = p[j] => i = j
           /\ \A j \in DOMAIN s : \E i \in DOMAIN s : p[i] = j
           /\ [i \in DOMAIN s |-> s[p[i]]] \in Seq(X)
<1>1. DOMAIN s = 1..Len(s) /\ Len(s) \in Nat /\ \A i \in DOMAIN s : s[i] \in X
  OBVIOUS
<1>2. p \in [DOMAIN s -> DOMAIN s] /\ \A i, j \in DOMAIN s : p[i] = p[j] => i = j
  BY DEF Injection, IsInjective
<1>3. IsFiniteSet(DOMAIN s)
  BY <1>1, FS_Interval
<1>4. p \in Surjection(DOMAIN s, DOMAIN s)
  BY <1>3, FS_Injection
<1>5. \A j \in DOMAIN s : \E i \in DOMAIN s : p[i] = j
  BY <1>4 DEF Surjection
<1>6. [i \in DOMAIN s |-> s[p[i]]] \in [1..Len(s) -> X]
  BY <1>1, <1>2
<1> QED BY <1>1, <1>2, <1>5, <1>6

(* What is left of a sequence after its first element.                      *)
LEMMA AfterFirst ==
    ASSUME NEW X, NEW s \in Seq(X), s # <<>>
    PROVE  /\ Head(s) = s[1] /\ 1 \in DOMAIN s /\ Head(s) \in X /\ Tail(s) \in Seq(X)
           /\ \A i \in DOMAIN Tail(s) : i + 1 \in DOMAIN s /\ Tail(s)[i] = s[i + 1]
           /\ \A i \in DOMAIN s : i # 1 => i - 1 \in DOMAIN Tail(s) /\ Tail(s)[i - 1] = s[i]
OBVIOUS

LEMMA OccursAfter ==
    ASSUME NEW X, NEW s \in Seq(X), s # <<>>, NEW k
    PROVE  /\ Occurs(k, s) /\ k # Head(s) => Occurs(k, Tail(s))
           /\ Occurs(k, Tail(s)) => Occurs(k, s)
<1>1. /\ Head(s) = s[1]
      /\ \A i \in DOMAIN Tail(s) : i + 1 \in DOMAIN s /\ Tail(s)[i] = s[i + 1]
      /\ \A i \in DOMAIN s : i # 1 => i - 1 \in DOMAIN Tail(s) /\ Tail(s)[i - 1] = s[i]
  BY AfterFirst
<1> QED BY <1>1 DEF Occurs

-----------------------------------------------------------------------------
(* The entries that are not in use.                                         *)

LEMMA UnusedTypes ==
    ASSUME DiskTypes, NEW kd
    PROVE  /\ Unused(kd) \in SUBSET Entries /\ IsFiniteSet(Unused(kd))
           /\ \A k \in Unused(kd) : disk[k] \in Files /\ disk[k].size \in Nat /\ disk[k].mtime \in Nat
<1>1. Unused(kd) \in SUBSET Entries
  BY DEF Unused, In
<1>2. IsFiniteSet(Unused(kd))
  BY <1>1, ConstantsAssumption, FS_Subset
<1>3. \A k \in Unused(kd) : disk[k] \in Files
  BY <1>1 DEF Unused, Present, DiskTypes
<1> QED BY <1>1, <1>2, <1>3 DEF Files

(* While the disk, the locks and the clock stand still, so do they.         *)
LEMMA StandStill ==
    ASSUME UNCHANGED <<disk, now, lock, unseen, kindOf, kind>>
    PROVE  /\ Unused(kind)' = Unused(kind) /\ In(kind)' = In(kind)
           /\ \A k : /\ Expired(k)' <=> Expired(k)
                     /\ InUse(k)' <=> InUse(k)
                     /\ Present(k)' <=> Present(k)
                     /\ Snapshot(k)' = Snapshot(k)
<1>1. \A k : InUse(k)' <=> InUse(k)
  BY DEF InUse, Counted
<1>2. \A k : Present(k)' <=> Present(k)
  BY DEF Present
<1>3. In(kind)' = In(kind)
  BY DEF In
<1>4. Unused(kind)' = Unused(kind)
  BY <1>1, <1>2, <1>3 DEF Unused
<1>5. \A k : (Expired(k)' <=> Expired(k)) /\ Snapshot(k)' = Snapshot(k)
  BY DEF Expired, Snapshot
<1> QED BY <1>1, <1>2, <1>3, <1>4, <1>5

(* A removal takes its entry away from them, and nothing else.              *)
LEMMA TakenAway ==
    ASSUME DiskTypes, NEW r \in Entries, disk' = [disk EXCEPT ![r] = Absent],
           UNCHANGED <<now, lock, unseen, kindOf, kind>>
    PROVE  /\ Unused(kind)' = Unused(kind) \ {r} /\ In(kind)' = In(kind)
           /\ \A k \in Entries \ {r} : disk'[k] = disk[k] /\ (Expired(k)' <=> Expired(k))
                                          /\ Snapshot(k)' = Snapshot(k)
           /\ \A k : InUse(k)' <=> InUse(k)
<1>1. \A k : InUse(k)' <=> InUse(k)
  BY DEF InUse, Counted
<1>2. disk'[r] = Absent /\ \A k \in Entries \ {r} : disk'[k] = disk[k]
  BY DEF DiskTypes
<1>3. In(kind)' = In(kind) /\ In(kind) \subseteq Entries
  BY DEF In
<1>4. Unused(kind)' = Unused(kind) \ {r}
  BY <1>1, <1>2, <1>3 DEF Unused, Present
<1>5. \A k \in Entries \ {r} : (Expired(k)' <=> Expired(k)) /\ Snapshot(k)' = Snapshot(k)
  BY <1>2 DEF Expired, Snapshot
<1> QED BY <1>1, <1>2, <1>3, <1>4, <1>5

(* ... and its size.                                                        *)
LEMMA LessIsThere ==
    ASSUME DiskTypes, NEW r \in Entries, disk' = [disk EXCEPT ![r] = Absent],
           UNCHANGED <<now, lock, unseen, kindOf, kind>>
    PROVE  /\ Size(disk, Unused(kind)) \in Nat /\ Size(disk', Unused(kind)') \in Nat
           /\ Size(disk', Unused(kind)') <= Size(disk, Unused(kind))
           /\ r \in Unused(kind) =>
                Size(disk', Unused(kind)') = Size(disk, Unused(kind)) - disk[r].size
<1> DEFINE U == Unused(kind)
           R == U \ {r}
<1>1. U \in SUBSET Entries /\ IsFiniteSet(U) /\ \A k \in U : disk[k].size \in Nat
  BY UnusedTypes
<1>2. U' = R /\ \A k \in R : disk[k] = disk'[k]
  BY <1>1, TakenAway
<1>3. IsFiniteSet(R) /\ R \in SUBSET U /\ (r \notin U => R = U)
  BY <1>1, FS_RemoveElement
<1>4. Unused(kind)' = R
  BY <1>2
<1> HIDE DEF U
<1>5. Size(disk', R) = Size(disk, R)
  <2> HIDE DEF R
  <2> QED BY <1>2, SameSize
<1>6. Size(disk, R) <= Size(disk, U)
  BY <1>1, <1>3, SizeGrows
<1>7. Size(disk, U) \in Nat /\ Size(disk, R) \in Nat
  <2>1. \A k \in R : disk[k].size \in Nat
    BY <1>1
  <2> HIDE DEF R
  <2> QED BY <1>1, <1>3, <2>1, BytesFinite
<1>8. r \in U => Size(disk, R) = Size(disk, U) - disk[r].size
  BY <1>1, SizeWithout
<1> HIDE DEF R
<1>9. Size(disk', Unused(kind)') = Size(disk, R)
  BY <1>4, <1>5
<1> QED BY <1>6, <1>7, <1>8, <1>9 DEF U

-----------------------------------------------------------------------------
(* The types of the sweep and its passes.                                   *)

LEMMA PassesStep ==
    ASSUME Inv, SweepTypes, Passes, [Next]_vars
    PROVE  SweepTypes' /\ Passes'
<1> DEFINE Goal == SweepTypes' /\ Passes'
<1>1. CASE UNCHANGED vars \/ TickerFires \/ Stop \/ Clock \/ Others
  <2>1. UNCHANGED sweep
    BY <1>1 DEF vars, TickerFires, Stop, Clock, Others, User, Acquire, Cache, Write, Release, Drop,
                ForgetMutex, cleanupExpiredUploads, sweep
  <2> QED BY <2>1 DEF sweep, SweepTypes, Passes
<1>2. CASE Return
  BY <1>2 DEF Return, SweepTypes, Passes
<1>3. ASSUME NEW kd, Enter(kd)
      PROVE  Goal
  <2>1. ReadDir(kd) \in Seq(Entries)
    BY ReadDirLists
  <2>2. sorted' = <<>> /\ totalSize' = 0 /\ pc' \in {"scan", "select"}
    BY <1>3 DEF Enter
  <2>3. entries' \in Seq(Entries) /\ todo' \in Seq(Entries)
    <3>1. CASE entries' = ReadDir(kd) /\ todo' = ReadDir(kd)
      BY <2>1, <3>1
    <3>2. CASE entries' = <<>> /\ todo' = <<>>
      BY <3>2
    <3> QED BY <1>3, <3>1, <3>2 DEF Enter
  <2> QED BY <2>2, <2>3 DEF SweepTypes, Passes
<1>4. CASE clearCache \/ NextDirectory
  BY <1>3, <1>4 DEF clearCache, NextDirectory, SweepTypes, Passes
<1>5. todo # <<>> => Tail(todo) \in Seq(Entries) /\ Head(todo) \in Entries
  BY AfterFirst DEF SweepTypes
<1>6. CASE Scan
  BY <1>5, <1>6 DEF Scan, SweepTypes, Passes
<1>7. CASE LfsCheck
  BY <1>5, <1>7 DEF LfsCheck, SweepTypes, Passes
<1>8. ASSUME NEW k \in Entries, ScanEntry(k) \/ LfsEvict(k)
      PROVE  Goal
  <2>1. todo # <<>> /\ todo' = Tail(todo) /\ entries' = entries /\ sorted' = sorted /\ kind' = kind
    BY <1>8 DEF ScanEntry, LfsEvict, Passes
  <2>2. /\ (pc = "scanning" /\ pc' = "scan") \/ (pc = "evicting" /\ pc' = "evict")
        /\ totalSize' = totalSize \/ totalSize' = totalSize + disk[k].size
           \/ totalSize' = totalSize - disk[k].size
    BY <1>8 DEF ScanEntry, LfsEvict, Unlink
  <2>3. disk[k].size \in Int
    BY DEF Inv, DiskTypes, Files, Absent
  <2>4. totalSize' \in Int
    BY <2>2, <2>3 DEF SweepTypes
  <2> QED BY <1>5, <2>1, <2>2, <2>4 DEF SweepTypes, Passes
<1>9. CASE ScanDone
  <2>1. ReadDir(kind) \in Seq(Entries)
    BY ReadDirLists
  <2>2. ASSUME NEW p \in Injection(DOMAIN entries, DOMAIN entries)
        PROVE  LfsOrder(p) \in Seq(Entries)
    <3>1. entries \in Seq(Entries)
      BY DEF SweepTypes
    <3> QED BY <3>1, Rearranged DEF LfsOrder
  <2>3. entries' \in Seq(Entries) /\ todo' \in Seq(Entries)
    <3> QED BY <1>9, <2>1, <2>2 DEF ScanDone, SweepTypes
  <2>4. UNCHANGED <<kind, totalSize>> /\ pc' \in {"swept", "evict", "list", "select"}
        /\ (pc' = "list" => kind # "lfs")
    BY <1>9 DEF ScanDone
  <2> QED BY <2>3, <2>4 DEF SweepTypes, Passes
<1>10. ASSUME NEW k \in Entries, List(k)
       PROVE  Goal
  BY <1>5, <1>10 DEF List, SweepTypes, Passes
<1>11. CASE ListDone \/ EvictDone
  BY <1>11 DEF ListDone, EvictDone, SweepTypes, Passes
<1>12. ASSUME NEW e, Evict(e)
       PROVE  Goal
  <2>1. sorted # <<>> /\ e = Head(sorted) /\ UNCHANGED <<pc, kind, entries, todo>> /\ pc = "evict"
        /\ (totalSize' = totalSize \/ totalSize' = totalSize - e.size)
    BY <1>12 DEF Evict, Unlink
  <2>2. e \in Snapshots
    BY <2>1, AfterFirst DEF Inv, DiskTypes
  <2>3. e.size \in Int
    BY <2>2 DEF Snapshots
  <2> QED BY <2>1, <2>3 DEF SweepTypes, Passes
<1> QED BY <1>1, <1>2, <1>4, <1>6, <1>7, <1>8, <1>9, <1>10, <1>11, <1>12 DEF Next, Sweeper

(* How a step changes the disk and the locks.                               *)
LEMMA DiskChanges ==
    ASSUME Inv, Passes, SweepTypes, [Next]_vars
    PROVE  /\ now' \in Nat /\ now' >= now
           /\ \/ disk' = disk
              \/ \E k \in Entries : disk' = [disk EXCEPT ![k] = Absent]
              \/ \E k \in Entries, s \in Sizes : disk' = [disk EXCEPT ![k] = [mtime |-> now, size |-> s]]
<1>1. now' \in Nat /\ now' >= now
  BY DEF Next, TickerFires, Stop, Return, Sweeper, clearCache, NextDirectory, Scan, ScanEntry, ScanDone,
         List, ListDone, Evict, LfsCheck, LfsEvict, EvictDone, Clock, Others, User, Acquire, Cache, Write,
         Release, Drop, ForgetMutex, cleanupExpiredUploads, UNTOUCHED, users, vars, Inv, DiskTypes
<1>2. ASSUME NEW u \in Users, User(u)
      PROVE  \/ disk' = disk
             \/ \E k \in Entries : disk' = [disk EXCEPT ![k] = Absent]
             \/ \E k \in Entries, s \in Sizes : disk' = [disk EXCEPT ![k] = [mtime |-> now, size |-> s]]
  <2>1. state[u] # "idle" => lock[u].key \in Entries
    BY DEF Inv, LockTypes
  <2> QED BY <1>2, <2>1 DEF User, Acquire, Cache, Write, Release, Drop
<1>3. ASSUME NEW e \in ToSet(sorted), Evict(e)
      PROVE  disk' = disk \/ (disk' = [disk EXCEPT ![e.key] = Absent] /\ e.key \in Entries)
  <2>1. e \in Snapshots
    BY <1>3, AfterFirst DEF Evict, Inv, DiskTypes
  <2> QED BY <1>3, <2>1 DEF Evict, Unlink, Snapshots
<1>4. ASSUME NEW k \in Entries, ScanEntry(k) \/ LfsEvict(k) \/ List(k)
      PROVE  disk' = disk \/ disk' = [disk EXCEPT ![k] = Absent]
  BY <1>4 DEF ScanEntry, LfsEvict, List, Unlink
<1>5. CASE UNCHANGED vars \/ TickerFires \/ Stop \/ Return \/ Clock \/ clearCache \/ NextDirectory \/ Scan
           \/ ScanDone \/ ListDone \/ LfsCheck \/ EvictDone
  <2>1. disk' = disk
    BY <1>5 DEF vars, TickerFires, Stop, Return, Clock, clearCache, NextDirectory, Scan, ScanDone,
                ListDone, LfsCheck, EvictDone
  <2> QED BY <1>1, <2>1
<1>6. ASSUME NEW k \in Entries, ForgetMutex(k) \/ cleanupExpiredUploads(k)
      PROVE  disk' = disk \/ disk' = [disk EXCEPT ![k] = Absent]
  BY <1>6 DEF ForgetMutex, cleanupExpiredUploads
<1> QED BY <1>1, <1>2, <1>3, <1>4, <1>5, <1>6 DEF Next, Others, Sweeper

LEMMA UserShape ==
    ASSUME Inv, TypeOK, [Next]_vars, NEW u \in Users
    PROVE  IF state'[u] = "idle" THEN lock'[u] = NoLock
           ELSE lock'[u] \in [key : Entries, mode : {"r", "w"}] /\ state'[u] \in {"locked", "using"}
<1>1. CASE lock' = lock /\ state' = state
  BY <1>1 DEF TypeOK
<1>2. ASSUME NEW v \in Users, User(v)
      PROVE  IF state'[u] = "idle" THEN lock'[u] = NoLock
             ELSE lock'[u] \in [key : Entries, mode : {"r", "w"}] /\ state'[u] \in {"locked", "using"}
  <2> USE DEF Inv, LockTypes, TypeOK
  <2>1. ASSUME NEW k \in Entries, NEW m \in {"r", "w"}, Acquire(v, k, m)
        PROVE  IF state'[u] = "idle" THEN lock'[u] = NoLock
               ELSE lock'[u] \in [key : Entries, mode : {"r", "w"}] /\ state'[u] \in {"locked", "using"}
    <3>1. CASE u = v
      BY <2>1, <3>1 DEF Acquire
    <3>2. CASE u # v
      BY <2>1, <3>2 DEF Acquire
    <3> QED BY <3>1, <3>2
  <2>2. CASE Cache(v)
    BY <2>2 DEF Cache
  <2>3. CASE Write(v)
    BY <1>1, <2>3 DEF Write, users
  <2>4. CASE Release(v) \/ Drop(v)
    BY <2>4 DEF Release, Drop, Unlock
  <2> QED BY <1>2, <2>1, <2>2, <2>3, <2>4 DEF User
<1>3. CASE UNCHANGED vars \/ TickerFires \/ Stop \/ Return \/ Clock \/ Sweeper
  <2>1. UNCHANGED users
    BY <1>3 DEF vars, TickerFires, Stop, Return, Clock, Sweeper, clearCache, NextDirectory, Scan, ScanEntry,
                ScanDone, List, ListDone, Evict, LfsCheck, LfsEvict, EvictDone, UNTOUCHED, users
  <2> QED BY <1>1, <2>1 DEF users
<1>4. ASSUME NEW k \in Entries, ForgetMutex(k) \/ cleanupExpiredUploads(k)
      PROVE  lock' = lock /\ state' = state
  BY <1>4 DEF ForgetMutex, cleanupExpiredUploads, users
<1> QED BY <1>1, <1>2, <1>3, <1>4 DEF Next, Others

TypeInv == Inv /\ SweepTypes /\ Passes /\ TypeOK

LEMMA TypeStep == TypeInv /\ [Next]_vars => TypeInv'
<1> SUFFICES ASSUME TypeInv, [Next]_vars
             PROVE  TypeInv'
  OBVIOUS
<1>1. Inv' /\ SweepTypes' /\ Passes'
  BY InvStep, PassesStep DEF TypeInv
<1>2. ASSUME NEW k \in Entries
      PROVE  disk'[k] = Absent \/ disk'[k] \in [mtime : 0..now', size : Sizes]
  <2>1. now \in Nat /\ now' \in Nat /\ now' >= now
    BY DiskChanges DEF TypeInv, Inv, DiskTypes
  <2>2. disk[k] = Absent \/ disk[k] \in [mtime : 0..now, size : Sizes]
    BY DEF TypeInv, TypeOK
  <2>3. disk'[k] = disk[k] \/ disk'[k] = Absent
        \/ \E s \in Sizes : disk'[k] = [mtime |-> now, size |-> s]
    <3>1. disk \in [Entries -> Files \cup {Absent}]
      BY DEF TypeInv, Inv, DiskTypes
    <3> QED BY <3>1, DiskChanges DEF TypeInv
  <2>4. \A f \in [mtime : 0..now, size : Sizes] : f \in [mtime : 0..now', size : Sizes]
    BY <2>1
  <2>5. \A s \in Sizes : [mtime |-> now, size |-> s] \in [mtime : 0..now', size : Sizes]
    BY <2>1
  <2> QED BY <2>2, <2>3, <2>4, <2>5, Zenon
<1>3. /\ pc' \in {"select", "scan", "scanning", "list", "evict", "evicting", "swept", "returned"}
      /\ kind' \in Kinds
  <2>1. ASSUME NEW u \in Users, User(u)
        PROVE  pc' = pc /\ kind' = kind
    BY <2>1 DEF User, Acquire, Cache, Write, Release, Drop, sweep
  <2>2. CASE Sweeper
    BY <2>2 DEF TypeInv, TypeOK, Kinds, Sweeper, clearCache, NextDirectory, Enter, Scan, ScanEntry, ScanDone,
                List, ListDone, Evict, LfsCheck, LfsEvict, EvictDone
  <2> QED BY <2>1, <2>2 DEF Next, Others, ForgetMutex, cleanupExpiredUploads, TypeInv, TypeOK, vars,
                            TickerFires, Stop, Return, Clock, sweep
<1>4. \A u \in Users : IF state'[u] = "idle" THEN lock'[u] = NoLock
                       ELSE lock'[u] \in [key : Entries, mode : {"r", "w"}] /\ state'[u] \in {"locked", "using"}
  BY UserShape DEF TypeInv
<1>5. unseen' \subseteq {u \in Users : state'[u] # "idle"}
  BY <1>1 DEF Inv, LockTypes
<1> QED BY <1>1, <1>2, <1>3, <1>4, <1>5 DEF TypeInv, TypeOK, SweepTypes

(* The cache manager's state keeps the shape the code gives it: nothing on  *)
(* the disk is younger than the clock, whoever is at work has a lock, and   *)
(* the sweep's account is a number, though what it subtracts is the size of *)
(* a snapshot or of a file that may have changed.                           *)
THEOREM TypeCorrect == Spec => []TypeOK
<1>1. Init => TypeInv
  <2> SUFFICES ASSUME Init
               PROVE  TypeInv
    OBVIOUS
  <2>1. SweepTypes /\ Passes
    BY DEF Init, SweepTypes, Passes
  <2>2. \A k \in Entries : disk[k] = Absent \/ disk[k] \in [mtime : 0..now, size : Sizes]
    BY DEF Init
  <2> QED BY <2>1, <2>2, InvStart DEF TypeInv, TypeOK, Init, Kinds
<1>2. TypeInv => TypeOK
  BY DEF TypeInv
<1> QED BY <1>1, <1>2, TypeStep, PTL DEF Spec

-----------------------------------------------------------------------------
(* The steps of a sweep.                                                    *)

LEMMA EnterQuiet ==
    ASSUME NEW kd, Enter(kd), UNCHANGED <<disk, now, lock, unseen, kindOf>>
    PROVE  QuietPasses'
<1>1. CASE pc' = "select"
  BY <1>1 DEF QuietPasses, FirstPass, SecondPass, LfsPass, SnapshotPass, QuietSweepCleans
<1>2. CASE pc' = "scan" /\ entries' = ReadDir(kd) /\ todo' = ReadDir(kd)
  <2> DEFINE U == Unused(kind)'
  <2>1. kind' = kd /\ totalSize' = 0
    BY DEF Enter
  <2>2. U = {k \in In(kd) : Present(k) /\ ~InUse(k)} /\ In(kind)' = In(kd)
    BY <2>1 DEF Unused, In, Present, InUse, Counted
  <2>3. /\ \A k \in U : Occurs(k, ReadDir(kd))
        /\ \A i \in DOMAIN ReadDir(kd) : ReadDir(kd)[i] \in In(kd)
    BY <2>2, ReadDirLists
  <2> HIDE DEF U
  <2>4. {k \in U : ~Occurs(k, ReadDir(kd))} = {}
    BY <2>3
  <2>5. Size(disk', {}) = 0
    <3>1. BytesOf(disk', {}) = {}
      BY DEF BytesOf
    <3> QED BY <3>1, FS_EmptySet DEF Size
  <2>6. Size(disk', {k \in U : ~Occurs(k, ReadDir(kd))}) <= totalSize'
    BY <2>1, <2>4, <2>5
  <2>7. FirstPass'
    <3>1. /\ \A k \in Unused(kind)' : Occurs(k, entries')
          /\ \A k \in Unused(kind)' : Occurs(k, todo')
          /\ \A i \in DOMAIN entries' : entries'[i] \in In(kind)'
          /\ Size(disk', {k \in Unused(kind)' : ~Occurs(k, todo')}) <= totalSize'
      BY <1>2, <2>2, <2>3, <2>6 DEF U
    <3> QED BY <3>1 DEF FirstPass, Occurs, Size, BytesOf
  <2> QED BY <1>2, <2>7 DEF QuietPasses, SecondPass, LfsPass, SnapshotPass, QuietSweepCleans
<1> QED BY <1>1, <1>2 DEF Enter

(* What the first loop has behind it: the entry it leaves is not one of     *)
(* those that count, or is removed, or is added to the account.             *)
LEMMA ScanQuiet ==
    ASSUME QuietInv, quiet = "yes", Scan
    PROVE  QuietPasses'
<1> DEFINE U == Unused(kind)
<1>1. FirstPass /\ pc = "scan" /\ todo # <<>> /\ todo \in Seq(Entries)
  BY DEF QuietInv, QuietPasses, Scan, SweepTypes
<1>2. UNCHANGED <<disk, now, lock, unseen, kindOf, kind, entries, totalSize>> /\ pc' \in {"scan", "scanning"}
  BY DEF Scan, UNTOUCHED, users
<1>3. U' = U /\ In(kind)' = In(kind) /\ \A k : Expired(k)' <=> Expired(k)
  BY <1>2, StandStill
<1>4. \A k \in U : Occurs(k, todo') <=> Occurs(k, todo)
  <2>1. CASE todo' = todo
    BY <2>1
  <2>2. CASE InUse(Head(todo)) /\ todo' = Tail(todo)
    BY <1>1, <2>2, OccursAfter DEF Unused
  <2> QED BY <2>1, <2>2 DEF Scan
<1>5. {k \in U : ~Occurs(k, todo')} = {k \in U : ~Occurs(k, todo)}
  BY <1>4
<1>6. FirstPass'
  <2>1. /\ \A k \in U : Occurs(k, entries)
        /\ \A i \in DOMAIN entries : entries[i] \in In(kind)
        /\ \A k \in U : Occurs(k, todo) \/ ~Expired(k)
        /\ Size(disk, {k \in U : ~Occurs(k, todo)}) <= totalSize
    BY <1>1 DEF FirstPass
  <2>2. Size(disk', {k \in U' : ~Occurs(k, todo')}) <= totalSize'
    BY <1>2, <1>3, <1>5, <2>1
  <2>3. \A k \in U' : Occurs(k, todo') \/ ~Expired(k)'
    BY <1>3, <1>4, <2>1
  <2>4. (\A k \in U' : Occurs(k, entries')) /\ \A i \in DOMAIN entries' : entries'[i] \in In(kind)'
    BY <1>2, <1>3, <2>1
  <2> HIDE DEF U
  <2>5. U = Unused(kind) /\ U' = Unused(kind)'
    BY DEF U
  <2> QED BY <2>2, <2>3, <2>4, <2>5 DEF FirstPass, Occurs, Size, BytesOf
<1> QED BY <1>2, <1>6 DEF QuietPasses, SecondPass, LfsPass, SnapshotPass, QuietSweepCleans

LEMMA ScanEntryQuiet ==
    ASSUME QuietInv, quiet = "yes", quiet' = "yes", NEW r \in Entries, ScanEntry(r)
    PROVE  QuietPasses'
<1> DEFINE U == Unused(kind)
           Seen == {k \in U : ~Occurs(k, todo)}
           Seen2 == {k \in U' : ~Occurs(k, todo')}
<1>1. FirstPass /\ pc = "scanning" /\ todo # <<>> /\ todo \in Seq(Entries) /\ r = Head(todo)
      /\ DiskTypes /\ totalSize \in Int
  BY DEF QuietInv, Inv, QuietPasses, ScanEntry, SweepTypes
<1>2. /\ \A k \in U : Occurs(k, entries)
      /\ \A i \in DOMAIN entries : entries[i] \in In(kind)
      /\ \A k \in U : Occurs(k, todo) \/ ~Expired(k)
      /\ Size(disk, Seen) <= totalSize
  BY <1>1 DEF FirstPass
<1>3. UNCHANGED <<now, lock, unseen, kindOf, kind, entries>> /\ pc' = "scan" /\ todo' = Tail(todo)
  BY DEF ScanEntry, UNTOUCHED, users
<1>4. \A k : Occurs(k, todo) /\ k # r => Occurs(k, todo')
  BY <1>1, <1>3, OccursAfter
<1>5. U \in SUBSET Entries /\ IsFiniteSet(U) /\ \A k \in U : disk[k].size \in Nat
  BY <1>1, UnusedTypes
<1>6. IsFiniteSet(Seen) /\ Seen \in SUBSET U
  BY <1>5, FS_Subset
<1> DEFINE Done == /\ U' \subseteq U /\ In(kind)' = In(kind)
                   /\ \A k \in U' : Occurs(k, todo') \/ ~Expired(k)'
                   /\ Size(disk', Seen2) <= totalSize'
<1>7. ASSUME disk' = disk, r \notin U, totalSize' = totalSize
      PROVE  Done
  <2>1. U' = U /\ In(kind)' = In(kind) /\ \A k : Expired(k)' <=> Expired(k)
    BY <1>3, <1>7, StandStill
  <2>2. Seen2 \in SUBSET Seen
    BY <1>4, <1>7, <2>1
  <2>3. Size(disk, Seen2) <= Size(disk, Seen)
    <3>1. \A k \in Seen : disk[k].size \in Nat
      BY <1>5
    <3> HIDE DEF Seen, Seen2
    <3> QED BY <1>6, <2>2, <3>1, SizeGrows
  <2>4. Size(disk', Seen2) <= totalSize'
    <3>1. Size(disk, Seen) \in Nat /\ Size(disk, Seen2) \in Nat
      <4>1. \A k \in Seen : disk[k].size \in Nat
        BY <1>5
      <4>2. \A k \in Seen2 : disk[k].size \in Nat
        BY <2>2, <4>1
      <4> HIDE DEF Seen, Seen2
      <4>3. IsFiniteSet(Seen2)
        BY <1>6, <2>2, FS_Subset
      <4> QED BY <1>6, <4>1, <4>2, <4>3, BytesFinite
    <3> HIDE DEF Seen, Seen2
    <3> QED BY <1>1, <1>2, <1>7, <2>3, <3>1
  <2>5. \A k \in U' : Occurs(k, todo') \/ ~Expired(k)'
    BY <1>2, <1>4, <1>7, <2>1
  <2> HIDE DEF U, Seen2
  <2> QED BY <2>1, <2>4, <2>5
<1>8. ASSUME disk' = [disk EXCEPT ![r] = Absent], totalSize' = totalSize
      PROVE  Done
  <2>1. /\ U' = U \ {r} /\ In(kind)' = In(kind)
        /\ \A k \in Entries \ {r} : disk'[k] = disk[k] /\ (Expired(k)' <=> Expired(k))
    BY <1>1, <1>3, <1>8, TakenAway
  <2>2. Seen2 \in SUBSET Seen /\ \A k \in Seen2 : disk[k] = disk'[k]
    BY <1>4, <1>5, <2>1
  <2>3. \A k \in U' : Occurs(k, todo') \/ ~Expired(k)'
    BY <1>2, <1>4, <1>5, <2>1
  <2>4. \A k \in Seen : disk[k].size \in Nat
    BY <1>5
  <2>5. Size(disk', Seen2) <= totalSize'
    <3> HIDE DEF Seen, Seen2
    <3>1. Size(disk, Seen2) <= Size(disk, Seen)
      BY <1>6, <2>2, <2>4, SizeGrows
    <3>2. Size(disk', Seen2) = Size(disk, Seen2)
      BY <2>2, SameSize
    <3>3. IsFiniteSet(Seen2) /\ \A k \in Seen2 : disk[k].size \in Nat
      BY <1>6, <2>2, <2>4, FS_Subset
    <3>4. Size(disk, Seen2) \in Nat /\ Size(disk, Seen) \in Nat
      BY <1>6, <2>4, <3>3, BytesFinite
    <3> QED BY <1>1, <1>2, <1>8, <3>1, <3>2, <3>4
  <2> HIDE DEF U, Seen2
  <2> QED BY <2>1, <2>3, <2>5
<1>9. ASSUME disk' = disk, Present(r), ~Expired(r), totalSize' = totalSize + disk[r].size
      PROVE  Done
  <2>1. U' = U /\ In(kind)' = In(kind) /\ \A k : Expired(k)' <=> Expired(k)
    BY <1>3, <1>9, StandStill
  <2>2. Seen2 \in SUBSET (Seen \cup {r})
    BY <1>4, <2>1
  <2>3. disk[r].size \in Nat /\ \A k \in Seen \cup {r} : disk[k].size \in Nat
    <3>1. disk[r] \in Files
      BY <1>1, <1>9 DEF DiskTypes, Present
    <3> QED BY <1>5, <3>1 DEF Files
  <2>4. Size(disk', Seen2) <= totalSize'
    <3> HIDE DEF Seen, Seen2
    <3>1. IsFiniteSet(Seen \cup {r})
      BY <1>6, FS_AddElement
    <3>2. Size(disk, Seen2) <= Size(disk, Seen \cup {r})
      BY <2>2, <2>3, <3>1, SizeGrows
    <3>3. Size(disk, Seen \cup {r}) <= Size(disk, Seen) + disk[r].size
      BY <1>6, <2>3, SizeWith
    <3>4. IsFiniteSet(Seen2) /\ \A k \in Seen2 : disk[k].size \in Nat
      BY <2>2, <2>3, <3>1, FS_Subset
    <3>5. Size(disk, Seen2) \in Nat /\ Size(disk, Seen) \in Nat /\ Size(disk, Seen \cup {r}) \in Nat
      <4>1. \A k \in Seen : disk[k].size \in Nat
        BY <2>3
      <4> QED BY <1>6, <2>3, <3>1, <3>4, <4>1, BytesFinite
    <3> QED BY <1>1, <1>2, <1>9, <2>3, <3>2, <3>3, <3>5
  <2>5. \A k \in U' : Occurs(k, todo') \/ ~Expired(k)'
    BY <1>2, <1>4, <1>9, <2>1
  <2> HIDE DEF U, Seen2
  <2> QED BY <2>1, <2>4, <2>5
<1>10. Done
  <2> HIDE DEF Done
  <2>1. CASE ~Present(r) /\ UNCHANGED <<disk, totalSize>>
    BY <1>7, <2>1 DEF Unused
  <2>2. CASE Present(r) /\ Expired(r) /\ Unlink(r, UNCHANGED totalSize)
    BY <1>8, <2>2 DEF Unlink
  <2>3. CASE Present(r) /\ ~Expired(r) /\ totalSize' = totalSize + disk[r].size /\ UNCHANGED disk
    BY <1>9, <2>3
  <2> QED BY <2>1, <2>2, <2>3 DEF ScanEntry
<1>11. FirstPass'
  <2>1. U' = Unused(kind)' /\ Seen2 = {k \in Unused(kind)' : ~Occurs(k, todo')}
    OBVIOUS
  <2>2. (\A k \in U' : Occurs(k, entries')) /\ \A i \in DOMAIN entries' : entries'[i] \in In(kind)'
    BY <1>2, <1>3, <1>10
  <2> QED BY <1>10, <2>1, <2>2 DEF FirstPass, Occurs, Size, BytesOf
<1> QED BY <1>3, <1>11 DEF QuietPasses, SecondPass, LfsPass, SnapshotPass, QuietSweepCleans

(* The end of the first loop.                                               *)
LEMMA ScanDoneQuiet ==
    ASSUME QuietInv, quiet = "yes", ScanDone
    PROVE  QuietPasses'
<1> DEFINE U == Unused(kind)
<1>1. FirstPass /\ pc = "scan" /\ todo = <<>> /\ totalSize \in Int /\ entries \in Seq(Entries)
      /\ sorted = <<>> /\ DiskTypes
  BY DEF QuietInv, Inv, QuietPasses, ScanDone, SweepTypes, Passes
<1>2. UNCHANGED <<disk, now, lock, unseen, kindOf, kind, sorted, totalSize>>
      /\ pc' \in {"swept", "evict", "list", "select"}
  BY DEF ScanDone, UNTOUCHED, users
<1>3. /\ U' = U /\ In(kind)' = In(kind)
      /\ \A k : (Expired(k)' <=> Expired(k)) /\ (InUse(k)' <=> InUse(k))
  BY <1>2, StandStill
<1>4. (\A k \in U : ~Expired(k)) /\ Size(disk, U) <= totalSize
  <2>1. \A k : ~Occurs(k, todo)
    BY <1>1 DEF Occurs
  <2>2. {k \in U : ~Occurs(k, todo)} = U
    BY <2>1
  <2> QED BY <1>1, <2>1, <2>2 DEF FirstPass
<1>5. (\A k \in U : Occurs(k, entries)) /\ \A i \in DOMAIN entries : entries[i] \in In(kind)
  BY <1>1 DEF FirstPass
<1>6. FirstPass'
  BY <1>2 DEF FirstPass
<1>7. SecondPass'
  <2>1. (\A k \in U' : ~Expired(k)') /\ Size(disk', U') <= totalSize'
    BY <1>2, <1>3, <1>4
  <2>2. U' = Unused(kind)'
    OBVIOUS
  <2> HIDE DEF U
  <2> QED BY <2>1, <2>2 DEF SecondPass, Size, BytesOf
<1>8. QuietSweepCleans'
  <2>1. pc' = "swept" => (\A k \in U : ~Expired(k)) /\ Size(disk, U) <= MaxSize
    <3>1. ASSUME pc' = "swept"
          PROVE  Size(disk, U) <= MaxSize
      <4>1. totalSize <= MaxSize
        BY <3>1 DEF ScanDone
      <4>2. IsFiniteSet(U) /\ \A k \in U : disk[k].size \in Nat
        BY <1>1, UnusedTypes
      <4> HIDE DEF U
      <4>3. Size(disk, U) \in Nat
        BY <4>2, BytesFinite
      <4> QED BY <1>1, <1>4, <4>1, <4>3, ConstantsAssumption
    <3> QED BY <1>4, <3>1
  <2>2. Bytes(Unused(kind))' = BytesOf(disk, U)
    BY <1>2, <1>3 DEF Bytes, BytesOf
  <2> QED BY <1>3, <2>1, <2>2 DEF QuietSweepCleans, Size
<1>9. LfsPass'
  <2> SUFFICES ASSUME pc' = "evict", kind = "lfs"
               PROVE  /\ \A k \in U : Occurs(k, todo')
                      /\ \A i \in DOMAIN todo' : todo'[i] \in In(kind)
    <3>1. Unused(kind)' = U /\ In(kind)' = In(kind)
      BY <1>3
    <3> QED BY <1>2, <3>1 DEF LfsPass, Occurs
  <2>1. PICK p \in Injection(DOMAIN entries, DOMAIN entries) : todo' = LfsOrder(p)
    BY DEF ScanDone
  <2>2. /\ DOMAIN todo' = DOMAIN entries
        /\ \A i \in DOMAIN entries : p[i] \in DOMAIN entries /\ todo'[i] = entries[p[i]]
        /\ \A j \in DOMAIN entries : \E i \in DOMAIN entries : todo'[i] = entries[j]
    <3>1. entries \in Seq(Entries)
      BY <1>1
    <3>2. /\ \A i \in DOMAIN entries : p[i] \in DOMAIN entries
          /\ \A j \in DOMAIN entries : \E i \in DOMAIN entries : p[i] = j
      BY <3>1, Rearranged
    <3>3. todo' = [i \in DOMAIN entries |-> entries[p[i]]]
      BY <2>1 DEF LfsOrder
    <3> QED BY <3>2, <3>3
  <2> HIDE DEF U
  <2> QED BY <1>5, <2>2 DEF Occurs
<1>10. SnapshotPass'
  <2> SUFFICES ASSUME pc' = "list"
               PROVE  /\ \A k \in U : Occurs(k, todo')
                      /\ Once(todo') /\ \A i \in DOMAIN todo' : todo'[i] \in In(kind)
    <3>1. sorted' = <<>> /\ DOMAIN sorted' = {}
      BY <1>1, <1>2
    <3>2. Unused(kind)' = U /\ In(kind)' = In(kind)
      BY <1>3
    <3>3. pc' = "evict" => kind = "lfs"
      BY DEF ScanDone
    <3> HIDE DEF U
    <3> QED BY <1>2, <3>1, <3>2, <3>3 DEF SnapshotPass, Occurs, Once, OldestFirst, Snapped
  <2>1. todo' = ReadDir(kind)
    BY DEF ScanDone
  <2>2. \A k \in U : k \in In(kind) /\ Present(k)
    BY DEF Unused
  <2> HIDE DEF U
  <2> QED BY <2>1, <2>2, ReadDirLists
<1> QED BY <1>6, <1>7, <1>8, <1>9, <1>10 DEF QuietPasses

(* The second listing: a snapshot of each entry that is not in use.         *)
LEMMA ListQuiet ==
    ASSUME QuietInv, quiet = "yes", NEW r \in Entries, List(r)
    PROVE  QuietPasses'
<1> DEFINE U == Unused(kind)
<1>1. SecondPass /\ SnapshotPass /\ pc = "list" /\ kind # "lfs" /\ todo # <<>> /\ r = Head(todo)
      /\ todo \in Seq(Entries) /\ DiskTypes
  BY DEF QuietInv, Inv, QuietPasses, List, SweepTypes, Passes
<1>2. UNCHANGED <<disk, now, lock, unseen, kindOf, kind, pc, totalSize>> /\ todo' = Tail(todo)
  BY DEF List, UNTOUCHED, users
<1>3. /\ U' = U /\ In(kind)' = In(kind)
      /\ \A k : /\ Expired(k)' <=> Expired(k)
                /\ Snapshot(k)' = Snapshot(k)
  BY <1>2, StandStill
<1>4. /\ \A k \in U : Snapped(k) \/ Occurs(k, todo)
      /\ \A i \in DOMAIN sorted : sorted[i].key \in U /\ sorted[i] = Snapshot(sorted[i].key)
      /\ \A i, j \in DOMAIN sorted : sorted[i].key = sorted[j].key => i = j
      /\ Once(todo) /\ \A i \in DOMAIN todo : todo[i] \in In(kind)
      /\ \A i \in DOMAIN sorted : ~Occurs(sorted[i].key, todo)
  BY <1>1 DEF SnapshotPass
<1>5. /\ r = todo[1] /\ 1 \in DOMAIN todo
      /\ \A i \in DOMAIN todo' : i + 1 \in DOMAIN todo /\ todo'[i] = todo[i + 1] /\ i \in Nat
      /\ \A k : Occurs(k, todo) /\ k # r => Occurs(k, todo')
      /\ \A k : Occurs(k, todo') => Occurs(k, todo)
  <2>1. \A i \in DOMAIN Tail(todo) : i \in Nat
    BY <1>1
  <2> QED BY <1>1, <1>2, <2>1, AfterFirst, OccursAfter
<1>6. Once(todo') /\ (\A i \in DOMAIN todo' : todo'[i] \in In(kind)) /\ ~Occurs(r, todo')
  <2>1. Once(todo')
    <3> SUFFICES ASSUME NEW i \in DOMAIN todo', NEW j \in DOMAIN todo', todo'[i] = todo'[j]
                 PROVE  i = j
      BY DEF Once
    <3>1. i + 1 = j + 1 /\ i \in Nat /\ j \in Nat
      BY <1>4, <1>5 DEF Once
    <3> QED BY <3>1
  <2>2. ASSUME NEW i \in DOMAIN todo', todo'[i] = r
        PROVE  FALSE
    <3>1. i + 1 = 1 /\ i \in Nat /\ i \in DOMAIN Tail(todo)
      BY <1>2, <1>4, <1>5, <2>2 DEF Once
    <3>2. i # 0
      BY <1>1, <3>1
    <3> QED BY <3>1, <3>2
  <2> QED BY <1>4, <1>5, <2>1, <2>2 DEF Occurs
<1> DEFINE Shots == /\ \A k \in U : (\E i \in DOMAIN sorted' : sorted'[i].key = k) \/ Occurs(k, todo')
                    /\ \A i \in DOMAIN sorted' :
                         sorted'[i].key \in U /\ sorted'[i] = Snapshot(sorted'[i].key)
                    /\ \A i, j \in DOMAIN sorted' : sorted'[i].key = sorted'[j].key => i = j
                    /\ \A i \in DOMAIN sorted' : ~Occurs(sorted'[i].key, todo')
<1>7. Shots
  <2>1. CASE (InUse(r) \/ ~Present(r)) /\ sorted' = sorted
    <3>1. r \notin U
      BY <2>1 DEF Unused
    <3> HIDE DEF U
    <3> QED BY <1>4, <1>5, <2>1, <3>1 DEF Snapped
  <2>2. CASE ~InUse(r) /\ Present(r) /\ sorted' = Append(sorted, Snapshot(r))
    <3> DEFINE e == Snapshot(r)
    <3>1. r \in U
      BY <1>4, <1>5, <2>2 DEF Unused
    <3>2. e.key = r /\ e = Snapshot(e.key)
      BY DEF Snapshot
    <3>3. sorted \in Seq(Snapshots)
      BY <1>1 DEF DiskTypes
    <3> HIDE DEF e, U
    <3>4. sorted' = Append(sorted, e)
      BY <2>2 DEF e
    <3>5. /\ \A i \in DOMAIN sorted' : (i = Len(sorted) + 1 /\ sorted'[i] = e)
                                       \/ (i \in DOMAIN sorted /\ sorted'[i] = sorted[i])
          /\ \A i \in DOMAIN sorted : i \in DOMAIN sorted' /\ sorted'[i] = sorted[i]
          /\ Len(sorted) + 1 \in DOMAIN sorted' /\ sorted'[Len(sorted) + 1] = e
      BY <3>3, <3>4
    <3>6. \A i \in DOMAIN sorted : sorted[i].key # r
      BY <1>4, <1>5 DEF Occurs
    <3>7. \A k \in U : (\E i \in DOMAIN sorted' : sorted'[i].key = k) \/ Occurs(k, todo')
      BY <1>4, <1>5, <3>2, <3>5 DEF Snapped
    <3>8. \A i \in DOMAIN sorted' : sorted'[i].key \in U /\ sorted'[i] = Snapshot(sorted'[i].key)
      BY <1>4, <3>1, <3>2, <3>5
    <3>9. \A i, j \in DOMAIN sorted' : sorted'[i].key = sorted'[j].key => i = j
      BY <1>4, <3>2, <3>5, <3>6
    <3>10. \A i \in DOMAIN sorted' : ~Occurs(sorted'[i].key, todo')
      BY <1>4, <1>5, <1>6, <3>2, <3>5
    <3> QED BY <3>7, <3>8, <3>9, <3>10
  <2> QED BY <2>1, <2>2 DEF List
<1>8. SnapshotPass'
  <2>1. Unused(kind)' = U /\ In(kind)' = In(kind) /\ \A k : Snapshot(k)' = Snapshot(k)
    BY <1>3
  <2>2. pc' = "list" /\ kind' = kind
    BY <1>1, <1>2
  <2>3. \A i \in DOMAIN sorted' : sorted'[i] = Snapshot(sorted[i].key)'
    BY <1>7, <2>1 DEF Snapshot
  <2> HIDE DEF U
  <2> QED BY <1>6, <1>7, <2>1, <2>2, <2>3 DEF SnapshotPass, Snapped, Occurs, Once
<1>9. SecondPass'
  <2>1. (\A k \in U' : ~Expired(k)') /\ Size(disk', U') <= totalSize'
    BY <1>1, <1>2, <1>3 DEF SecondPass
  <2>2. U' = Unused(kind)'
    OBVIOUS
  <2> HIDE DEF U
  <2> QED BY <2>1, <2>2 DEF SecondPass, Size, BytesOf
<1> QED BY <1>1, <1>2, <1>8, <1>9 DEF QuietPasses, FirstPass, LfsPass, QuietSweepCleans

(* The sort: nothing is lost, nothing doubled.                              *)
LEMMA ListDoneQuiet ==
    ASSUME QuietInv, quiet = "yes", ListDone
    PROVE  QuietPasses'
<1> DEFINE U == Unused(kind)
<1>1. SecondPass /\ SnapshotPass /\ pc = "list" /\ kind # "lfs" /\ todo = <<>>
      /\ sorted \in Seq(Snapshots)
  BY DEF QuietInv, Inv, DiskTypes, QuietPasses, ListDone, Passes
<1>2. UNCHANGED <<disk, now, lock, unseen, kindOf, kind, totalSize>> /\ pc' = "evict"
  BY DEF ListDone, UNTOUCHED, users
<1>3. /\ U' = U /\ \A k : (Expired(k)' <=> Expired(k)) /\ Snapshot(k)' = Snapshot(k)
  BY <1>2, StandStill
<1>4. /\ \A k \in U : Snapped(k)
      /\ \A i \in DOMAIN sorted : sorted[i].key \in U /\ sorted[i] = Snapshot(sorted[i].key)
      /\ \A i, j \in DOMAIN sorted : sorted[i].key = sorted[j].key => i = j
  <2>1. \A k : ~Occurs(k, todo)
    BY <1>1 DEF Occurs
  <2> QED BY <1>1, <2>1 DEF SnapshotPass
<1>5. PICK p \in Injection(DOMAIN sorted, DOMAIN sorted) :
          OldestFirst(Arranged(p)) /\ sorted' = Arranged(p)
  BY DEF ListDone
<1>6. PICK q : q = sorted'
  OBVIOUS
<1>7. q = [i \in DOMAIN sorted |-> sorted[p[i]]] /\ OldestFirst(q)
  BY <1>5, <1>6 DEF Arranged
<1>8. sorted \in Seq(Snapshots)
  BY <1>1
<1>9. /\ DOMAIN q = DOMAIN sorted
      /\ \A i \in DOMAIN sorted : p[i] \in DOMAIN sorted /\ q[i] = sorted[p[i]]
      /\ \A i, j \in DOMAIN sorted : p[i] = p[j] => i = j
      /\ \A j \in DOMAIN sorted : \E i \in DOMAIN sorted : q[i] = sorted[j]
  <2>1. /\ \A i \in DOMAIN sorted : p[i] \in DOMAIN sorted
        /\ \A i, j \in DOMAIN sorted : p[i] = p[j] => i = j
        /\ \A j \in DOMAIN sorted : \E i \in DOMAIN sorted : p[i] = j
    BY <1>8, Rearranged
  <2> QED BY <1>7, <2>1
<1> HIDE DEF U
<1>10. /\ \A k \in U : \E i \in DOMAIN q : q[i].key = k
       /\ \A i \in DOMAIN q : q[i].key \in U /\ q[i] = Snapshot(q[i].key)
       /\ \A i, j \in DOMAIN q : q[i].key = q[j].key => i = j
  <2>1. ASSUME NEW k \in U
        PROVE  \E i \in DOMAIN q : q[i].key = k
    <3>1. PICK j \in DOMAIN sorted : sorted[j].key = k
      BY <1>4 DEF Snapped
    <3>2. PICK i \in DOMAIN sorted : q[i] = sorted[j]
      BY <1>9
    <3> QED BY <1>9, <3>1, <3>2
  <2>2. ASSUME NEW i \in DOMAIN q
        PROVE  q[i].key \in U /\ q[i] = Snapshot(q[i].key)
    <3>1. p[i] \in DOMAIN sorted /\ q[i] = sorted[p[i]]
      BY <1>9
    <3>2. sorted[p[i]].key \in U /\ sorted[p[i]] = Snapshot(sorted[p[i]].key)
      BY <1>4, <3>1
    <3> QED BY <3>1, <3>2
  <2>3. ASSUME NEW i \in DOMAIN q, NEW j \in DOMAIN q, q[i].key = q[j].key
        PROVE  i = j
    <3>1. p[i] \in DOMAIN sorted /\ p[j] \in DOMAIN sorted /\ q[i] = sorted[p[i]] /\ q[j] = sorted[p[j]]
      BY <1>9
    <3>2. sorted[p[i]].key = sorted[p[j]].key => p[i] = p[j]
      BY <1>4, <3>1
    <3>3. p[i] = p[j]
      BY <2>3, <3>1, <3>2
    <3> QED BY <1>9, <3>3
  <2> QED BY <2>1, <2>2, <2>3
<1>11. SnapshotPass'
  <2>1. Unused(kind)' = U
    BY <1>3 DEF U
  <2>2. \A i \in DOMAIN sorted' : sorted'[i] = Snapshot(sorted[i].key)'
    BY <1>2, <1>6, <1>10 DEF Snapshot
  <2> QED BY <1>2, <1>6, <1>7, <1>10, <2>1, <2>2 DEF SnapshotPass, Snapped, OldestFirst
<1>12. SecondPass'
  <2>1. (\A k \in U' : ~Expired(k)') /\ Size(disk', U') <= totalSize'
    BY <1>1, <1>2, <1>3 DEF SecondPass, U
  <2>2. U' = Unused(kind)'
    BY DEF U
  <2> QED BY <2>1, <2>2 DEF SecondPass, Size, BytesOf
<1> QED BY <1>1, <1>2, <1>11, <1>12 DEF QuietPasses, FirstPass, LfsPass, QuietSweepCleans

(* An eviction takes from the account what it takes from the directory.     *)
LEMMA EvictQuiet ==
    ASSUME QuietInv, quiet = "yes", quiet' = "yes", NEW e, Evict(e)
    PROVE  QuietPasses'
<1> DEFINE U == Unused(kind)
           r == e.key
<1>1. SecondPass /\ SnapshotPass /\ pc = "evict" /\ kind # "lfs" /\ sorted # <<>>
      /\ sorted \in Seq(Snapshots) /\ DiskTypes /\ totalSize \in Int
  BY DEF QuietInv, Inv, DiskTypes, QuietPasses, Evict, SweepTypes
<1>2. /\ \A k \in U : Snapped(k)
      /\ \A i \in DOMAIN sorted : sorted[i].key \in U /\ sorted[i] = Snapshot(sorted[i].key)
      /\ \A i, j \in DOMAIN sorted : sorted[i].key = sorted[j].key => i = j
      /\ OldestFirst(sorted)
  BY <1>1 DEF SnapshotPass
<1>3. (\A k \in U : ~Expired(k)) /\ Size(disk, U) <= totalSize
  BY <1>1 DEF SecondPass
<1>4. /\ e = sorted[1] /\ 1 \in DOMAIN sorted /\ sorted' = Tail(sorted)
      /\ \A i \in DOMAIN sorted' : i + 1 \in DOMAIN sorted /\ sorted'[i] = sorted[i + 1]
      /\ \A i \in DOMAIN sorted : i # 1 => i - 1 \in DOMAIN sorted' /\ sorted'[i - 1] = sorted[i]
      /\ \A i \in DOMAIN sorted' : i \in Nat \ {0}
  <2>1. e = Head(sorted) /\ sorted' = Tail(sorted)
    BY DEF Evict
  <2>2. \A i \in DOMAIN Tail(sorted) : i \in Nat \ {0}
    BY <1>1
  <2> QED BY <1>1, <2>1, <2>2, AfterFirst
<1>5. r \in U /\ r \in Entries /\ Present(r) /\ e.size = disk[r].size
  <2>1. r \in U /\ e = Snapshot(r)
    BY <1>2, <1>4
  <2> QED BY <2>1 DEF Unused, In, Snapshot
<1>6. UNCHANGED <<now, lock, unseen, kindOf, kind, pc>>
      /\ disk' = [disk EXCEPT ![r] = Absent] /\ totalSize' = totalSize - e.size
  BY <1>5 DEF Evict, Unlink, UNTOUCHED, users
<1>7. /\ U' = U \ {r}
      /\ \A k \in Entries \ {r} : (Expired(k)' <=> Expired(k)) /\ Snapshot(k)' = Snapshot(k)
  BY <1>1, <1>5, <1>6, TakenAway
<1>8. U \subseteq Entries
  BY DEF Unused, In
<1>9. SecondPass'
  <2>1. Size(disk, U) \in Nat /\ Size(disk', U') = Size(disk, U) - disk[r].size
    BY <1>1, <1>5, <1>6, LessIsThere
  <2>2. disk[r].size \in Nat
    BY <1>1, <1>5, UnusedTypes
  <2> HIDE DEF U, r
  <2>3. Size(disk', U') <= totalSize'
    BY <1>1, <1>3, <1>5, <1>6, <2>1, <2>2
  <2>4. \A k \in U' : ~Expired(k)'
    BY <1>3, <1>7, <1>8
  <2>5. U' = Unused(kind)'
    BY DEF U
  <2> QED BY <2>3, <2>4, <2>5 DEF SecondPass, Size, BytesOf
<1> HIDE DEF U, r
<1>10. ASSUME NEW i \in DOMAIN sorted'
       PROVE  /\ sorted'[i].key \in U' /\ sorted'[i].key \in Entries \ {r}
              /\ sorted'[i] = Snapshot(sorted'[i].key)
  <2>1. i + 1 \in DOMAIN sorted /\ i + 1 # 1 /\ sorted'[i] = sorted[i + 1]
    BY <1>4
  <2>2. sorted[i + 1].key # sorted[1].key
    BY <1>2, <1>4, <2>1
  <2> QED BY <1>2, <1>4, <1>7, <1>8, <2>1, <2>2 DEF r
<1>11. ASSUME NEW k \in U'
       PROVE  \E i \in DOMAIN sorted' : sorted'[i].key = k
  <2>1. k \in U /\ k # r
    BY <1>7
  <2>2. PICK j \in DOMAIN sorted : sorted[j].key = k
    BY <1>2, <2>1 DEF Snapped
  <2>3. j # 1
    BY <1>4, <2>1, <2>2 DEF r
  <2> QED BY <1>4, <2>2, <2>3
<1>12. ASSUME NEW i \in DOMAIN sorted', NEW j \in DOMAIN sorted'
       PROVE  /\ sorted'[i].key = sorted'[j].key => i = j
              /\ i < j => sorted'[i].mtime <= sorted'[j].mtime
  <2>1. /\ i + 1 \in DOMAIN sorted /\ sorted'[i] = sorted[i + 1] /\ i \in Nat
        /\ j + 1 \in DOMAIN sorted /\ sorted'[j] = sorted[j + 1] /\ j \in Nat
    BY <1>4
  <2>2. (i < j => i + 1 < j + 1) /\ (i + 1 = j + 1 => i = j)
    BY <2>1
  <2> QED BY <1>2, <2>1, <2>2 DEF OldestFirst
<1>13. SnapshotPass'
  <2>1. U' = Unused(kind)' /\ pc' = "evict"
    BY <1>1, <1>6 DEF U
  <2>2. \A i \in DOMAIN sorted' : sorted'[i] = Snapshot(sorted[i].key)'
    <3> SUFFICES ASSUME NEW i \in DOMAIN sorted'
                 PROVE  sorted'[i] = Snapshot(sorted[i].key)'
      OBVIOUS
    <3>1. PICK k : k = sorted'[i].key
      OBVIOUS
    <3>2. sorted'[i] = Snapshot(k)'
      BY <1>7, <1>10, <3>1
    <3> QED BY <3>1, <3>2 DEF Snapshot
  <2> QED BY <1>10, <1>11, <1>12, <2>1, <2>2 DEF SnapshotPass, Snapped, OldestFirst
<1> QED BY <1>1, <1>6, <1>9, <1>13 DEF QuietPasses, FirstPass, LfsPass, QuietSweepCleans

(* LFS objects: each that is there is visited again.                        *)
LEMMA LfsQuiet ==
    ASSUME QuietInv, quiet = "yes", quiet' = "yes", LfsCheck \/ \E k \in Entries : LfsEvict(k)
    PROVE  QuietPasses'
<1> DEFINE U == Unused(kind)
           r == Head(todo)
<1>1. pc \in {"evict", "evicting"} /\ kind = "lfs" /\ todo # <<>> /\ pc' \in {"evict", "evicting"}
  BY DEF QuietInv, Passes, LfsCheck, LfsEvict
<1>2. SecondPass /\ LfsPass /\ todo \in Seq(Entries) /\ DiskTypes /\ totalSize \in Int
  BY DEF QuietInv, Inv, QuietPasses, SweepTypes
<1>3. /\ \A k \in U : Occurs(k, todo) /\ ~Expired(k)
      /\ \A i \in DOMAIN todo : todo[i] \in In(kind)
      /\ pc = "evicting" => ~InUse(r)
      /\ Size(disk, U) <= totalSize
  BY <1>1, <1>2 DEF LfsPass, SecondPass
<1>4. /\ r \in In(kind) /\ r \in Entries
      /\ \A i \in DOMAIN Tail(todo) : Tail(todo)[i] \in In(kind)
      /\ \A k : Occurs(k, todo) /\ k # r => Occurs(k, Tail(todo))
  <2>1. /\ r = todo[1] /\ 1 \in DOMAIN todo /\ r \in Entries
        /\ \A i \in DOMAIN Tail(todo) : i + 1 \in DOMAIN todo /\ Tail(todo)[i] = todo[i + 1]
    BY <1>1, <1>2, AfterFirst
  <2> QED BY <1>1, <1>2, <1>3, <2>1, OccursAfter
<1>5. UNCHANGED <<now, lock, unseen, kindOf, kind>>
  BY DEF LfsCheck, LfsEvict, UNTOUCHED, users
<1> DEFINE Done == /\ In(kind)' = In(kind)
                   /\ \A k \in U' : Occurs(k, todo') /\ ~Expired(k)'
                   /\ \A i \in DOMAIN todo' : todo'[i] \in In(kind)
                   /\ pc' = "evicting" => ~InUse(Head(todo))'
                   /\ Size(disk', U') <= totalSize'
<1>6. ASSUME disk' = disk, totalSize' = totalSize,
             (todo' = todo /\ ~InUse(r)) \/ (todo' = Tail(todo) /\ r \notin U /\ pc' = "evict")
      PROVE  Done
  <2>1. U' = U /\ In(kind)' = In(kind)
        /\ \A k : (Expired(k)' <=> Expired(k)) /\ (InUse(k)' <=> InUse(k))
    BY <1>5, <1>6, StandStill
  <2>2. \A k \in U : Occurs(k, todo')
    BY <1>3, <1>4, <1>6
  <2>3. \A i \in DOMAIN todo' : todo'[i] \in In(kind)
    BY <1>3, <1>4, <1>6
  <2>4. pc' = "evicting" => ~InUse(Head(todo))'
    <3> SUFFICES ASSUME pc' = "evicting"
                 PROVE  ~InUse(Head(todo))'
      OBVIOUS
    <3>1. todo' = todo /\ ~InUse(r)
      BY <1>6
    <3> QED BY <1>5, <3>1 DEF InUse, Counted
  <2>5. Size(disk', U') <= totalSize'
    BY <1>3, <1>6, <2>1
  <2>6. \A k \in U' : ~Expired(k)'
    BY <1>3, <2>1
  <2> HIDE DEF U
  <2> QED BY <2>1, <2>2, <2>3, <2>4, <2>5, <2>6
<1>7. ASSUME disk' = [disk EXCEPT ![r] = Absent], totalSize' = totalSize - disk[r].size,
             r \in U, todo' = Tail(todo), pc' = "evict"
      PROVE  Done
  <2>1. /\ U' = U \ {r} /\ In(kind)' = In(kind)
        /\ \A k \in Entries \ {r} : Expired(k)' <=> Expired(k)
    BY <1>2, <1>4, <1>5, <1>7, TakenAway
  <2>2. Size(disk, U) \in Nat /\ Size(disk', U') = Size(disk, U) - disk[r].size
    BY <1>2, <1>4, <1>5, <1>7, LessIsThere
  <2>3. U \subseteq Entries /\ disk[r].size \in Nat
    BY <1>2, <1>7, UnusedTypes
  <2> HIDE DEF U, r
  <2>4. Size(disk', U') <= totalSize'
    BY <1>2, <1>3, <1>7, <2>2, <2>3
  <2>5. \A k \in U' : Occurs(k, todo') /\ ~Expired(k)'
    BY <1>3, <1>4, <1>7, <2>1, <2>3
  <2>6. \A i \in DOMAIN todo' : todo'[i] \in In(kind)
    BY <1>4, <1>7
  <2> QED BY <1>7, <2>1, <2>4, <2>5, <2>6
<1>8. Done
  <2> HIDE DEF Done
  <2>1. CASE LfsCheck
    <3>1. disk' = disk /\ totalSize' = totalSize
      BY <2>1 DEF LfsCheck
    <3>2. CASE InUse(r) /\ todo' = Tail(todo) /\ pc' = "evict"
      <4>1. r \notin U
        BY <3>2 DEF Unused
      <4> QED BY <1>6, <3>1, <3>2, <4>1
    <3>3. CASE ~InUse(r) /\ todo' = todo
      BY <1>6, <3>1, <3>3
    <3> QED BY <2>1, <3>2, <3>3 DEF LfsCheck
  <2>2. ASSUME NEW k \in Entries, LfsEvict(k)
        PROVE  Done
    <3>1. k = r /\ pc = "evicting" /\ todo' = Tail(todo) /\ pc' = "evict"
      BY <2>2 DEF LfsEvict
    <3>2. CASE ~Present(r) /\ disk' = disk /\ totalSize' = totalSize
      <4>1. r \notin U
        BY <3>2 DEF Unused
      <4> QED BY <1>6, <3>1, <3>2, <4>1
    <3>3. CASE Present(r) /\ disk' = [disk EXCEPT ![r] = Absent] /\ totalSize' = totalSize - disk[r].size
      <4>1. r \in U
        BY <1>3, <1>4, <3>1, <3>3 DEF Unused
      <4> QED BY <1>7, <3>1, <3>3, <4>1
    <3> QED BY <2>2, <3>1, <3>2, <3>3 DEF LfsEvict, Unlink
  <2> QED BY <2>1, <2>2
<1>9. SecondPass' /\ LfsPass'
  <2>1. U' = Unused(kind)'
    OBVIOUS
  <2> HIDE DEF U
  <2>2. SecondPass'
    BY <1>8, <2>1 DEF SecondPass, Size, BytesOf
  <2>3. LfsPass'
    BY <1>8, <2>1 DEF LfsPass, Occurs
  <2> QED BY <2>2, <2>3
<1> QED BY <1>1, <1>5, <1>9 DEF QuietPasses, FirstPass, SnapshotPass, QuietSweepCleans

(* The end of an eviction: the account fits, or nothing is left.            *)
LEMMA EvictDoneQuiet ==
    ASSUME QuietInv, quiet = "yes", EvictDone
    PROVE  QuietPasses'
<1> DEFINE U == Unused(kind)
<1>1. pc = "evict" /\ SecondPass /\ LfsPass /\ SnapshotPass /\ DiskTypes /\ totalSize \in Int
  BY DEF QuietInv, Inv, QuietPasses, SweepTypes, EvictDone
<1>2. UNCHANGED <<disk, now, lock, unseen, kindOf, kind>> /\ pc' = "swept"
  BY DEF EvictDone, UNTOUCHED, users
<1>3. (\A k \in U : ~Expired(k)) /\ Size(disk, U) <= totalSize
  BY <1>1 DEF SecondPass
<1>4. IsFiniteSet(U) /\ \A k \in U : disk[k].size \in Nat
  BY <1>1, UnusedTypes
<1>5. Size(disk, U) \in Nat /\ MaxSize \in Nat
  <2> HIDE DEF U
  <2> QED BY <1>4, BytesFinite, ConstantsAssumption
<1>6. Size(disk, U) <= MaxSize
  <2>1. CASE totalSize <= MaxSize
    <3> HIDE DEF U
    <3> QED BY <1>1, <1>3, <1>5, <2>1
  <2>2. CASE sorted = <<>> /\ todo = <<>>
    <3>1. \A k : ~Snapped(k) /\ ~Occurs(k, todo)
      BY <2>2 DEF Snapped, Occurs
    <3>2. U = {}
      BY <1>1, <3>1 DEF LfsPass, SnapshotPass
    <3>3. BytesOf(disk, {}) = {}
      BY DEF BytesOf
    <3>4. Size(disk, U) = 0
      BY <3>2, <3>3, FS_EmptySet DEF Size
    <3> QED BY <1>5, <3>4
  <2> QED BY <2>1, <2>2 DEF EvictDone
<1>7. QuietSweepCleans'
  <2>1. U' = U /\ \A k : Expired(k)' <=> Expired(k)
    BY <1>2, StandStill
  <2>2. Bytes(Unused(kind))' = BytesOf(disk, U)
    BY <1>2, <2>1 DEF Bytes, BytesOf
  <2> QED BY <1>3, <1>6, <2>1, <2>2 DEF QuietSweepCleans, Size
<1> QED BY <1>2, <1>7 DEF QuietPasses, FirstPass, SecondPass, LfsPass, SnapshotPass

LEMMA QuietStart == Init => QuietInv
<1> SUFFICES ASSUME Init
             PROVE  QuietInv
  OBVIOUS
<1>1. SweepTypes /\ Passes
  BY DEF Init, SweepTypes, Passes
<1>2. QuietPasses
  BY DEF Init, QuietPasses, FirstPass, SecondPass, LfsPass, SnapshotPass, QuietSweepCleans
<1> QED BY <1>1, <1>2, InvStart DEF QuietInv

LEMMA QuietInvStep == QuietInv /\ [Next]_vars => QuietInv'
<1> SUFFICES ASSUME QuietInv, [Next]_vars
             PROVE  QuietInv'
  OBVIOUS
<1>1. Inv' /\ SweepTypes' /\ Passes'
  BY InvStep, PassesStep DEF QuietInv
<1>2. QuietPasses'
  <2>1. CASE quiet' # "yes"
    BY <2>1 DEF QuietPasses
  <2>2. CASE UNCHANGED vars \/ TickerFires \/ Stop
    <3>1. UNCHANGED <<disk, now, lock, unseen, kindOf, kind, pc, entries, todo, sorted, totalSize, quiet>>
      BY <2>2 DEF vars, TickerFires, Stop, sweep, users, UNTOUCHED
    <3>2. Unused(kind)' = Unused(kind) /\ In(kind)' = In(kind)
          /\ \A k : (Expired(k)' <=> Expired(k)) /\ (InUse(k)' <=> InUse(k)) /\ Snapshot(k)' = Snapshot(k)
      BY <3>1, StandStill
    <3>3. QuietPasses
      BY DEF QuietInv
    <3> QED BY <3>1, <3>3 DEF QuietPasses, FirstPass, SecondPass, LfsPass, SnapshotPass, QuietSweepCleans,
              Unused, In, Present, InUse, Counted, Expired, Snapshot, Size, BytesOf, Bytes, Occurs, Once,
              Snapped, OldestFirst
  <2>3. CASE pc' \in {"select", "returned"}
    BY <2>3 DEF QuietPasses, FirstPass, SecondPass, LfsPass, SnapshotPass, QuietSweepCleans
  <2>4. ASSUME NEW kd, Enter(kd), UNCHANGED <<disk, UNTOUCHED>>
        PROVE  QuietPasses'
    BY <2>4, EnterQuiet DEF UNTOUCHED, users
  <2>5. CASE quiet = "yes" /\ quiet' = "yes" /\ Sweeper
    <3>1. CASE clearCache \/ NextDirectory
      BY <2>3, <2>4, <3>1 DEF clearCache, NextDirectory
    <3>2. CASE Scan
      BY <2>5, <3>2, ScanQuiet
    <3>3. ASSUME NEW k \in Entries, ScanEntry(k)
          PROVE  QuietPasses'
      BY <2>5, <3>3, ScanEntryQuiet
    <3>4. CASE ScanDone
      BY <2>5, <3>4, ScanDoneQuiet
    <3>5. ASSUME NEW k \in Entries, List(k)
          PROVE  QuietPasses'
      BY <2>5, <3>5, ListQuiet
    <3>6. CASE ListDone
      BY <2>5, <3>6, ListDoneQuiet
    <3>7. ASSUME NEW e, Evict(e)
          PROVE  QuietPasses'
      BY <2>5, <3>7, EvictQuiet
    <3>8. CASE LfsCheck \/ \E k \in Entries : LfsEvict(k)
      BY <2>5, <3>8, LfsQuiet
    <3>9. CASE EvictDone
      BY <2>5, <3>9, EvictDoneQuiet
    <3> QED BY <2>5, <3>1, <3>2, <3>3, <3>4, <3>5, <3>6, <3>7, <3>8, <3>9 DEF Sweeper
  <2>6. CASE Sweeper /\ quiet # "yes" /\ quiet' = "yes"
    <3>1. clearCache \/ NextDirectory
      BY <2>6 DEF Sweeper, Scan, ScanEntry, ScanDone, List, ListDone, Evict, LfsCheck, LfsEvict,
                  EvictDone, Unlink
    <3> QED BY <2>3, <2>4, <3>1 DEF clearCache, NextDirectory
  <2>7. CASE Return
    BY <2>3, <2>7 DEF Return
  <2>8. CASE Clock \/ Others
    BY <2>1, <2>8 DEF Clock, Others, User, ForgetMutex, cleanupExpiredUploads
  <2> QED BY <2>1, <2>2, <2>5, <2>6, <2>7, <2>8 DEF Next
<1> QED BY <1>1, <1>2 DEF QuietInv

(* clearRepositoryCache, clearReleaseAssetCache and clearLfsCache, for any  *)
(* entries, sizes and limits: a sweep that nobody interferes with and whose *)
(* removals succeed leaves no unused entry that is too old, and no more     *)
(* bytes of unused entries than the limit.                                  *)
THEOREM SweepLeavesEnoughRoom == Spec => []QuietSweepCleans
<1>1. QuietInv => QuietSweepCleans
  BY DEF QuietInv, QuietPasses, QuietSweepCleans
<1> QED BY <1>1, QuietStart, QuietInvStep, PTL DEF Spec

(* What such a sweep evicts for its size is no younger than anything unused *)
(* that it leaves (repositories and release assets).                        *)
THEOREM SweepEvictsOldest == Spec => EvictsOldest
<1> DEFINE Oldest == \A e \in ToSet(sorted) :
              Evict(e) /\ quiet = "yes" => \A k \in Unused(kind)' : disk[e.key].mtime <= disk'[k].mtime
<1>1. QuietInv /\ [Next]_vars => [Oldest]_vars
  <2> SUFFICES ASSUME QuietInv, NEW e \in ToSet(sorted), Evict(e), quiet = "yes", NEW k \in Unused(kind)'
               PROVE  disk[e.key].mtime <= disk'[k].mtime
    OBVIOUS
  <2>1. SnapshotPass /\ pc = "evict" /\ kind # "lfs" /\ sorted # <<>> /\ sorted \in Seq(Snapshots)
        /\ DiskTypes
    BY DEF QuietInv, Inv, DiskTypes, QuietPasses, Evict
  <2>2. /\ \A x \in Unused(kind) : Snapped(x)
        /\ \A i \in DOMAIN sorted : sorted[i] = Snapshot(sorted[i].key) /\ sorted[i].key \in Unused(kind)
        /\ OldestFirst(sorted)
    BY <2>1 DEF SnapshotPass
  <2>3. e = sorted[1] /\ 1 \in DOMAIN sorted
    BY <2>1, AfterFirst DEF Evict
  <2>4. UNCHANGED <<now, lock, unseen, kindOf, kind>> /\ (disk' = disk \/ disk' = [disk EXCEPT ![e.key] = Absent])
    BY DEF Evict, Unlink, UNTOUCHED, users
  <2>5. e.key \in Entries
    BY <2>2, <2>3 DEF Unused, In
  <2>6. k \in Unused(kind) /\ disk'[k] = disk[k]
    <3>1. CASE disk' = disk
      BY <2>4, <3>1, StandStill
    <3>2. CASE disk' = [disk EXCEPT ![e.key] = Absent]
      <4>1. Unused(kind)' = Unused(kind) \ {e.key}
            /\ \A x \in Entries \ {e.key} : disk'[x] = disk[x]
        BY <2>1, <2>4, <2>5, <3>2, TakenAway
      <4> QED BY <4>1 DEF Unused, In
    <3> QED BY <2>4, <3>1, <3>2
  <2>7. PICK i \in DOMAIN sorted : sorted[i].key = k
    BY <2>2, <2>6 DEF Snapped
  <2>8. sorted[1].mtime = disk[e.key].mtime /\ sorted[i].mtime = disk[k].mtime
    BY <2>2, <2>3, <2>7 DEF Snapshot
  <2>9. sorted[1].mtime <= sorted[i].mtime
    <3>1. i \in Nat \ {0} /\ sorted[1] \in Snapshots
      BY <2>1, <2>3
    <3>2. sorted[1].mtime \in Nat
      BY <3>1 DEF Snapshots
    <3> QED BY <2>2, <2>3, <3>1, <3>2 DEF OldestFirst
  <2> QED BY <2>6, <2>8, <2>9
<1> HIDE DEF Oldest
<1>2. Spec => [][Oldest]_vars
  BY <1>1, QuietStart, QuietInvStep, PTL DEF Spec
<1> QED BY <1>2 DEF EvictsOldest, Oldest
=============================================================================
