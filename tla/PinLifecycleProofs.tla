------------------------- MODULE PinLifecycleProofs --------------------------
(***************************************************************************)
(* Proofs about PinLifecycle, for any uploads, targets, users and content: *)
(* TypeOK, ReferencedStaysPinned, PushedMeansProposed and                  *)
(* PinsAccountedFor.                                                       *)
(***************************************************************************)
EXTENDS PinLifecycle, FiniteSetTheorems, TLAPS

Ended == {"late", "ok", "failed"}

(* TypeOK, with the other direction of the lock's clause: an upload that    *)
(* locks and is running holds the lock of its target.                       *)
Types ==
    /\ pc \in [Uploads -> Running \cup Ended \cup {"idle"}]
    /\ lock \in [Targets -> Uploads \cup {None}]
    /\ seen \in [Uploads -> SUBSET Cids]
    /\ got \in [Uploads -> SUBSET Cids]
    /\ msgs \subseteq Uploads
    /\ proposal \in [(Targets \cup {Repo}) \X Users -> Uploads \cup {None}]
    /\ current \in [Targets -> SUBSET Cids]
    /\ events \in Seq(EventType)
    /\ todo # {} => events # <<>>
    /\ pinned \subseteq Cids
    /\ todo \subseteq Cids
    /\ dropping \in todo \cup {None}

Holders ==
    /\ \A t \in Targets : lock[t] # None => t \in {Target[lock[t]], From[lock[t]]} /\ pc[lock[t]] \in Running
    /\ \A u \in Uploads : Locks(u) /\ pc[u] \in Running => lock[Target[u]] = u

TypeInv == Types /\ Holders

(* A referenced CID outside raced is pinned and is not about to be dropped. *)
SafePins == \A c \in Referenced \ raced : c \in pinned /\ c # dropping

PinInv == TypeInv /\ SafePins

LEMMA KeyType == \A u \in Uploads : Key(u) \in (Targets \cup {Repo}) \X Users
BY ConstantsAssumption DEF Key

LEMMA LocksTarget == \A u \in Uploads : Kind[u] # "delete" => Target[u] \in Targets
BY ConstantsAssumption

(* What an approval leaves referenced was referenced or is proposed by it.  *)
LEMMA AfterType ==
    ASSUME Types, NEW u \in Uploads
    PROVE  /\ After(u) \in [Targets -> SUBSET Cids]
           /\ \A t \in Targets : After(u)[t] \subseteq current[t] \cup got[u]
BY DEF After, Types

(* The steps of an upload that only change its place, and those that also   *)
(* end it, keep the account of who holds which lock.                        *)
LEMMA GotoHolders ==
    ASSUME TypeInv, NEW u \in Uploads, pc[u] \in Running, NEW l \in Running,
           Goto(u, l), UNCHANGED lock
    PROVE  Holders'
BY ConstantsAssumption DEF TypeInv, Types, Holders, Goto, Running, Locks

LEMMA EndsHolders ==
    ASSUME TypeInv, NEW u \in Uploads, NEW l \in Ended, Ends(u, l)
    PROVE  Holders' /\ lock' \in [Targets -> Uploads \cup {None}]
<1>1. lock' = [t \in Targets |-> IF lock[t] = u THEN None ELSE lock[t]]
  BY DEF Ends, Unlocked
<1>2. lock' \in [Targets -> Uploads \cup {None}]
  BY <1>1 DEF TypeInv, Types
<1>3. pc' = [pc EXCEPT ![u] = l] /\ pc \in [Uploads -> Running \cup Ended \cup {"idle"}]
  BY DEF Ends, Goto, TypeInv, Types
<1>4. ASSUME NEW t \in Targets, lock'[t] # None
      PROVE  t \in {Target[lock'[t]], From[lock'[t]]} /\ pc'[lock'[t]] \in Running
  <2>1. lock'[t] = lock[t] /\ lock[t] # u /\ lock[t] # None /\ lock[t] \in Uploads
    BY <1>1, <1>4 DEF TypeInv, Types
  <2> QED
    BY <2>1, <1>3 DEF TypeInv, Holders
<1>5. ASSUME NEW v \in Uploads, Locks(v), pc'[v] \in Running
      PROVE  lock'[Target[v]] = v
  <2>1. v # u /\ pc[v] \in Running
    BY <1>3, <1>5 DEF Running, Ended
  <2>2. lock[Target[v]] = v /\ Target[v] \in Targets
    BY <2>1, <1>5, LocksTarget DEF TypeInv, Holders, Locks
  <2> QED
    BY <1>1, <2>1, <2>2
<1> QED
  BY <1>2, <1>4, <1>5 DEF Holders, Locks

(* A longer queue of events is a queue of events that is not empty.         *)
LEMMA EmitType ==
    ASSUME Types, NEW ty \in {"delete", "timeout"}, NEW cids \in SUBSET Cids
    PROVE  Emit(ty, cids) \in Seq(EventType) /\ (events # <<>> => Emit(ty, cids) # <<>>)
<1>1. [type |-> ty, cids |-> cids] \in EventType
  BY DEF EventType
<1> QED
  BY <1>1 DEF Emit, Types


LEMMA InitTypes == Init => TypeInv
BY ConstantsAssumption DEF Init, TypeInv, Types, Holders, Running

(* The steps of uploads keep the types and the locks.                       *)
LEMMA UploadTypes ==
    ASSUME TypeInv, NEW u \in Uploads, Upload(u)
    PROVE  TypeInv'
<1>1. CASE Begin(u)
  <2>1. PICK l \in {"begun", "waiting"} : pc' = [pc EXCEPT ![u] = l] /\ pc[u] = "idle"
    BY <1>1 DEF Begin, Goto
  <2>2. CASE Locks(u)
    <3>1. /\ lock' = [lock EXCEPT ![Target[u]] = u]
          /\ lock[Target[u]] = None /\ Target[u] \in Targets
      BY <1>1, <2>2, LocksTarget DEF Begin, Locks
    <3>2. Types'
      BY <1>1, <2>1, <3>1 DEF Begin, TypeInv, Types, Running, Ended, chain, handler
    <3>3. \A t \in Targets : lock'[t] # None => t \in {Target[lock'[t]], From[lock'[t]]} /\ pc'[lock'[t]] \in Running
      BY <2>1, <3>1 DEF TypeInv, Types, Holders, Running
    <3>4. \A v \in Uploads : Locks(v) /\ pc'[v] \in Running => lock'[Target[v]] = v
      <4> SUFFICES ASSUME NEW v \in Uploads, Locks(v), pc'[v] \in Running
                   PROVE  lock'[Target[v]] = v
        OBVIOUS
      <4>1. CASE v = u
        BY <4>1, <3>1 DEF TypeInv, Types
      <4>2. CASE v # u
        <5>1. lock[Target[v]] = v /\ Target[v] \in Targets
          BY <4>2, <2>1, LocksTarget DEF TypeInv, Types, Holders, Locks
        <5> QED
          BY <5>1, <4>2, <3>1, ConstantsAssumption DEF TypeInv, Types
      <4> QED
        BY <4>1, <4>2
    <3> QED
      BY <3>2, <3>3, <3>4 DEF TypeInv, Holders, Locks
  <2>3. CASE ~Locks(u)
    <3>1. lock' = lock
      BY <1>1, <2>3 DEF Begin, Locks
    <3>2. Types'
      BY <1>1, <2>1, <3>1 DEF Begin, TypeInv, Types, Running, Ended, chain, handler
    <3>3. Holders'
      BY <2>1, <2>3, <3>1, ConstantsAssumption DEF TypeInv, Types, Holders, Running, Locks
    <3> QED
      BY <3>2, <3>3 DEF TypeInv
  <2> QED
    BY <2>2, <2>3
<1>2. CASE Check(u)
  <2>1. (IF Target[u] = Repo THEN {} ELSE current[Target[u]]) \in SUBSET Cids
    BY ConstantsAssumption DEF TypeInv, Types
  <2>2. CASE Goto(u, "checked") /\ UNCHANGED lock
    <3>1. Holders'
      BY <1>2, <2>2, GotoHolders DEF Check, Refused, Running
    <3>2. Types'
      BY <1>2, <2>1, <2>2 DEF Check, Refused, Goto, TypeInv, Types, Running, Ended, chain, handler
    <3> QED
      BY <3>1, <3>2 DEF TypeInv
  <2>3. CASE Ends(u, "failed")
    <3>1. Holders' /\ lock' \in [Targets -> Uploads \cup {None}]
      BY <2>3, EndsHolders DEF Ended
    <3>2. Types'
      BY <1>2, <2>1, <2>3, <3>1 DEF Check, Refused, Ends, Goto, TypeInv, Types, Running, Ended, chain, handler
    <3> QED
      BY <3>1, <3>2 DEF TypeInv
  <2> QED
    BY <1>2, <2>2, <2>3 DEF Check, Refused
<1>3. CASE Add(u) \/ Pin(u) \/ GiveUpPinning(u)
  <2>1. Content[u] \in SUBSET Cids /\ got[u] \in SUBSET Cids
    BY ConstantsAssumption DEF TypeInv, Types
  <2>2. UNCHANGED <<seen, msgs, proposal, current, events, todo, dropping>> /\ pc[u] \in Running
    BY <1>3 DEF Add, Pin, GiveUpPinning, chain, handler, Running
  <2>3. pinned' \subseteq Cids /\ got' \in [Uploads -> SUBSET Cids]
    BY <1>3, <2>1 DEF Add, Pin, GiveUpPinning, TypeInv, Types
  <2>4. ASSUME NEW l \in {"failed", "late"}, Ends(u, l)
        PROVE  TypeInv'
    <3>1. Holders' /\ lock' \in [Targets -> Uploads \cup {None}]
      BY <2>4, EndsHolders DEF Ended
    <3>2. Types'
      BY <2>2, <2>3, <2>4, <3>1 DEF Ends, Goto, TypeInv, Types, Ended
    <3> QED
      BY <3>1, <3>2 DEF TypeInv
  <2>5. ASSUME NEW l \in {"added", "pinned"}, Goto(u, l), UNCHANGED lock
        PROVE  TypeInv'
    <3>1. Holders'
      BY <2>2, <2>5, GotoHolders DEF Running
    <3>2. Types'
      BY <2>2, <2>3, <2>5 DEF Goto, TypeInv, Types, Running
    <3> QED
      BY <3>1, <3>2 DEF TypeInv
  <2> QED
    BY <1>3, <2>4, <2>5 DEF Add, Pin, GiveUpPinning
<1>4. CASE PinAttachments(u)
  <2>1. PICK S \in SUBSET (Content[u] \ seen[u]) : \E G \in SUBSET S :
          pinned' = pinned \cup S /\ got' = [got EXCEPT ![u] = G]
    BY <1>4 DEF PinAttachments
  <2>2. PICK G \in SUBSET S : pinned' = pinned \cup S /\ got' = [got EXCEPT ![u] = G]
    BY <2>1
  <2>3. S \in SUBSET Cids /\ G \in SUBSET Cids
    BY ConstantsAssumption
  <2>4. Holders'
    BY <1>4, GotoHolders DEF PinAttachments, Running
  <2>5. Types'
    BY <1>4, <2>2, <2>3 DEF PinAttachments, Goto, TypeInv, Types, Running, Ended, chain, handler
  <2> QED
    BY <2>4, <2>5 DEF TypeInv
<1>5. CASE Propose(u)
  <2>1. CASE Goto(u, "polling") /\ lock' = lock /\ msgs' = msgs \cup {u}
    <3>1. Holders'
      BY <1>5, <2>1, GotoHolders DEF Propose, Running
    <3>2. Types'
      BY <1>5, <2>1 DEF Propose, Goto, TypeInv, Types, Running, Ended, chain, handler
    <3> QED
      BY <3>1, <3>2 DEF TypeInv
  <2>2. ASSUME NEW l \in {"ok", "failed"}, Ends(u, l), UNCHANGED msgs
        PROVE  TypeInv'
    <3>1. Holders' /\ lock' \in [Targets -> Uploads \cup {None}]
      BY <2>2, EndsHolders DEF Ended
    <3>2. Types'
      BY <1>5, <2>2, <3>1 DEF Propose, Ends, Goto, TypeInv, Types, Running, Ended, chain, handler
    <3> QED
      BY <3>1, <3>2 DEF TypeInv
  <2> QED
    BY <1>5, <2>1, <2>2 DEF Propose
<1>6. CASE PollSucceeds(u) \/ PollGivesUp(u)
  <2>1. \E l \in {"ok", "failed"} : Ends(u, l)
    BY <1>6 DEF PollSucceeds, PollGivesUp
  <2>2. PICK l \in {"ok", "failed"} : Ends(u, l)
    BY <2>1
  <2>3. Holders' /\ lock' \in [Targets -> Uploads \cup {None}]
    BY <2>2, EndsHolders DEF Ended
  <2>4. pc' \in [Uploads -> Running \cup Ended \cup {"idle"}]
    BY <2>2 DEF Ends, Goto, TypeInv, Types, Ended
  <2>5. Types'
    BY <1>6, <2>3, <2>4 DEF PollSucceeds, PollGivesUp, TypeInv, Types, chain, handler
  <2> QED
    BY <2>3, <2>5 DEF TypeInv
<1>7. CASE LatePin(u)
  <2>1. Content[u] \in SUBSET Cids
    BY ConstantsAssumption
  <2>2. pc' = [pc EXCEPT ![u] = "failed"] /\ pc[u] = "late" /\ lock' = lock
    BY <1>7 DEF LatePin, Goto
  <2>3. Types'
    BY <1>7, <2>1, <2>2 DEF LatePin, TypeInv, Types, Running, Ended, chain, handler
  <2>4. Holders'
    BY <2>2 DEF TypeInv, Types, Holders, Running, Locks
  <2> QED
    BY <2>3, <2>4 DEF TypeInv
<1>8. CASE LockHead(u)
  <2>1. /\ pc' = [pc EXCEPT ![u] = "begun"] /\ pc[u] = "waiting"
        /\ lock' = [lock EXCEPT ![From[u]] = u] /\ lock[From[u]] = None
    BY <1>8 DEF LockHead, Goto
  <2>2. Types'
    BY <1>8, <2>1 DEF LockHead, TypeInv, Types, Running, chain, handler
  <2>3. \A t \in Targets : lock'[t] # None => t \in {Target[lock'[t]], From[lock'[t]]} /\ pc'[lock'[t]] \in Running
    BY <2>1 DEF TypeInv, Types, Holders, Running
  <2>4. ASSUME NEW v \in Uploads, Locks(v), pc'[v] \in Running
        PROVE  lock'[Target[v]] = v
    <3>1. pc[v] \in Running
      BY <2>1, <2>4 DEF TypeInv, Types, Running
    <3>2. lock[Target[v]] = v /\ Target[v] \in Targets /\ v # None
      BY <3>1, <2>4, LocksTarget, ConstantsAssumption DEF TypeInv, Holders, Locks
    <3> QED
      BY <2>1, <3>2 DEF TypeInv, Types
  <2> QED
    BY <2>2, <2>3, <2>4 DEF TypeInv, Holders
<1> QED
  BY <1>1, <1>2, <1>3, <1>4, <1>5, <1>6, <1>7, <1>8 DEF Upload

(* So do the steps of the chain and of the handlers, which touch no lock.   *)
LEMMA ChainTypes ==
    ASSUME TypeInv, Chain
    PROVE  TypeInv'
<1>1. ASSUME NEW u \in Uploads, Include(u) \/ Lose(u)
      PROVE  Types' /\ UNCHANGED upload
  <2>1. Key(u) \in (Targets \cup {Repo}) \X Users
    BY KeyType
  <2> QED
    BY <1>1, <2>1 DEF Include, Lose, TypeInv, Types, upload, handler, chain
<1>2. ASSUME NEW k \in DOMAIN proposal, Approve(k)
      PROVE  Types' /\ UNCHANGED upload
  <2>1. proposal[k] \in Uploads
    BY <1>2 DEF Approve, TypeInv, Types
  <2> DEFINE u == proposal[k]
             lost == UNION {current[t] \ After(u)[t] : t \in Targets}
  <2>2. After(u) \in [Targets -> SUBSET Cids] /\ lost \in SUBSET Cids
    BY <2>1, AfterType DEF TypeInv, Types
  <2>3. current' = After(u) /\ events' = Emit("delete", lost)
    BY <1>2 DEF Approve
  <2>4. events' \in Seq(EventType) /\ (events # <<>> => events' # <<>>)
    BY <2>2, <2>3, EmitType DEF TypeInv
  <2>5. proposal' \in [(Targets \cup {Repo}) \X Users -> Uploads \cup {None}]
    BY <1>2 DEF Approve, TypeInv, Types
  <2> QED
    BY <1>2, <2>2, <2>3, <2>4, <2>5 DEF Approve, TypeInv, Types, upload, handler
<1>3. ASSUME NEW k \in DOMAIN proposal, Expire(k)
      PROVE  Types' /\ UNCHANGED upload
  <2>1. got[proposal[k]] \in SUBSET Cids
    BY <1>3 DEF Expire, TypeInv, Types
  <2>2. events' \in Seq(EventType) /\ (events # <<>> => events' # <<>>)
    BY <1>3, <2>1, EmitType DEF Expire, TypeInv
  <2>3. proposal' \in [(Targets \cup {Repo}) \X Users -> Uploads \cup {None}]
    BY <1>3 DEF Expire, TypeInv, Types
  <2> QED
    BY <1>3, <2>2, <2>3 DEF Expire, TypeInv, Types, upload, handler
<1>4. Types' /\ UNCHANGED upload
  BY <1>1, <1>2, <1>3 DEF Chain
<1> QED
  BY <1>4 DEF TypeInv, Holders, upload

LEMMA HandlerTypes ==
    ASSUME TypeInv, Handler
    PROVE  TypeInv'
<1>1. CASE Take
  <2>1. Head(events) \in EventType
    BY <1>1 DEF Take, TypeInv, Types
  <2>2. Head(events).cids \in SUBSET Cids
    BY <2>1 DEF EventType
  <2>3. Types'
    BY <1>1, <2>2 DEF Take, TypeInv, Types, upload, chain
  <2> QED
    BY <1>1, <2>3 DEF Take, TypeInv, Holders, upload
<1>2. ASSUME NEW c \in Cids, Query(c) \/ UnpinFile(c)
      PROVE  TypeInv'
  <2>1. c \in todo /\ events # <<>> /\ events \in Seq(EventType)
    BY <1>2, ConstantsAssumption DEF Query, UnpinFile, TypeInv, Types
  <2>2. ASSUME NEW rest \in SUBSET Cids, todo' = rest, Finished(rest)
        PROVE  events' \in Seq(EventType) /\ (todo' # {} => events' # <<>>)
    BY <2>1, <2>2 DEF Finished
  <2>3. /\ events' \in Seq(EventType) /\ (todo' # {} => events' # <<>>)
        /\ todo' \subseteq Cids
    <3>1. (todo \ {c}) \in SUBSET Cids /\ {} \in SUBSET Cids
      BY DEF TypeInv, Types
    <3>2. CASE UNCHANGED <<todo, events>>
      BY <3>2 DEF TypeInv, Types
    <3>3. CASE todo' = todo \ {c} /\ Finished(todo \ {c})
      BY <3>1, <3>3, <2>2
    <3>4. CASE todo' = {} /\ Finished({})
      BY <3>1, <3>4, <2>2
    <3> QED
      BY <1>2, <3>2, <3>3, <3>4 DEF Query, UnpinFile
  <2>4. dropping' \in todo' \cup {None}
    BY <1>2, <2>1 DEF Query, UnpinFile
  <2>5. Types' /\ UNCHANGED upload
    BY <1>2, <2>3, <2>4 DEF Query, UnpinFile, TypeInv, Types, upload
  <2> QED
    BY <2>5 DEF TypeInv, Holders, upload
<1> QED
  BY <1>1, <1>2 DEF Handler

(* After a crash nobody is running and nothing is locked.                   *)
LEMMA CrashTypes ==
    ASSUME TypeInv, Crash
    PROVE  TypeInv'
<1>1. pc' = [u \in Uploads |-> IF pc[u] \in {"idle", "ok"} THEN pc[u] ELSE "failed"]
  BY DEF Crash
<1>2. lock' = [t \in Targets |-> None] /\ msgs' \subseteq msgs
  BY DEF Crash
<1>3. events' \in Seq(EventType) /\ todo' = {} /\ dropping' = None
  BY DEF Crash
<1>4. Types'
  BY <1>1, <1>2, <1>3 DEF Crash, TypeInv, Types, Ended
<1>5. Holders'
  BY <1>1, <1>2 DEF Holders, Running
<1> QED
  BY <1>4, <1>5 DEF TypeInv

LEMMA StepTypes == TypeInv /\ [Next]_vars => TypeInv'
<1> SUFFICES ASSUME TypeInv, [Next]_vars PROVE TypeInv'
  OBVIOUS
<1>1. CASE UNCHANGED vars
  BY <1>1 DEF TypeInv, Types, Holders, vars
<1> QED
  BY <1>1, UploadTypes, ChainTypes, HandlerTypes, CrashTypes DEF Next

(* TypeOK: the state has the shape the code gives it, and a lock is held by *)
(* an upload that has not ended (every error return of handleGitReceivePack,*)
(* of the merge handler and of ServeUploadHandler releases it).             *)
THEOREM TypeCorrect == Spec => []TypeOK
<1>1. TypeInv => TypeOK
  <2> SUFFICES ASSUME TypeInv PROVE TypeOK
    OBVIOUS
  <2>1. ASSUME NEW t \in Targets
        PROVE  lock[t] \in {None} \cup {u \in Uploads : t \in {Target[u], From[u]} /\ pc[u] \in Running}
    BY DEF TypeInv, Types, Holders, Running
  <2>2. Running \cup Ended \cup {"idle"}
          = Running \cup {"idle", "late", "ok", "failed"}
    BY DEF Ended
  <2> QED
    BY <2>1, <2>2 DEF TypeInv, Types, TypeOK
<1> QED
  BY InitTypes, StepTypes, <1>1, PTL DEF Spec

----------------------------------------------------------------------------
(* A count of zero means that no target references the CID.                 *)
LEMMA ZeroCount ==
    ASSUME NEW c, refCount(c) = 0
    PROVE  c \notin Referenced
<1> DEFINE T == {t \in Targets : c \in current[t]}
<1>1. IsFiniteSet(T)
  BY ConstantsAssumption, FS_Subset, T \subseteq Targets
<1>2. Cardinality(T) = 0
  BY DEF refCount
<1>3. T = {}
  BY <1>1, <1>2, FS_EmptySet
<1> QED
  BY <1>3 DEF Referenced

LEMMA StepPins == TypeInv /\ SafePins /\ [Next]_vars => SafePins'
<1> SUFFICES ASSUME TypeInv, SafePins, [Next]_vars PROVE SafePins'
  OBVIOUS
<1>1. ASSUME UNCHANGED <<current, raced, dropping>>, pinned \subseteq pinned'
      PROVE  SafePins'
  BY <1>1 DEF SafePins, Referenced
<1>2. CASE UNCHANGED vars
  BY <1>1, <1>2 DEF vars
<1>3. ASSUME NEW u \in Uploads, Upload(u)
      PROVE  SafePins'
  <2>1. UNCHANGED <<current, raced, dropping>>
    BY <1>3 DEF Upload, Begin, Check, Refused, LockHead, Add, Pin, GiveUpPinning, LatePin, PinAttachments, Propose, PollSucceeds,
                PollGivesUp, chain, handler
  <2>2. pinned \subseteq pinned'
    BY <1>3 DEF Upload, Begin, Check, Refused, LockHead, Add, Pin, GiveUpPinning, LatePin, PinAttachments, Propose, PollSucceeds,
                PollGivesUp
  <2> QED
    BY <1>1, <2>1, <2>2
<1>4. ASSUME NEW u \in Uploads, Include(u) \/ Lose(u)
      PROVE  SafePins'
  BY <1>1, <1>4 DEF Include, Lose, handler, chain
<1>5. ASSUME NEW k \in DOMAIN proposal, Approve(k)
      PROVE  SafePins'
  <2>1. proposal[k] \in Uploads
    BY <1>5 DEF Approve, TypeInv, Types
  <2> DEFINE u == proposal[k]
             new == UNION {After(u)[t] : t \in Targets}
  <2>2. /\ current' = After(u)
        /\ raced' = (raced \cup {c \in got[u] : c \notin pinned \/ c = dropping}) \cap new
        /\ UNCHANGED <<pinned, dropping>>
    BY <1>5 DEF Approve, handler
  <2>3. Referenced' = new
    BY <2>2 DEF Referenced
  <2>4. ASSUME NEW c \in new PROVE c \in Referenced \/ c \in got[u]
    BY <2>1, <2>4, AfterType DEF Referenced, TypeInv
  <2> HIDE DEF u, new
  <2>5. ASSUME NEW c \in Referenced', c \notin raced'
        PROVE  c \in pinned /\ c # dropping
    BY <2>2, <2>3, <2>4, <2>5 DEF SafePins
  <2> QED
    BY <2>2, <2>5 DEF SafePins
<1>6. ASSUME NEW k \in DOMAIN proposal, Expire(k)
      PROVE  SafePins'
  BY <1>1, <1>6 DEF Expire, handler
<1>7. CASE Take
  BY <1>1, <1>7 DEF Take, chain
<1>8. ASSUME NEW c \in Cids, Query(c)
      PROVE  SafePins'
  <2>1. UNCHANGED <<current, raced, pinned>>
    BY <1>8 DEF Query
  <2>2. CASE UNCHANGED dropping
    BY <1>1, <2>1, <2>2
  <2>3. CASE refCount(c) = 0 /\ dropping' = c
    BY <2>1, <2>3, ZeroCount DEF SafePins, Referenced
  <2> QED
    BY <1>8, <2>2, <2>3 DEF Query
<1>9. ASSUME NEW c \in Cids, UnpinFile(c)
      PROVE  SafePins'
  <2>1. UNCHANGED <<current, raced>> /\ dropping = c /\ dropping' = None /\ pinned \ {c} \subseteq pinned'
    BY <1>9 DEF UnpinFile
  <2>2. Referenced \subseteq Cids /\ Referenced' = Referenced
    BY <2>1 DEF Referenced, TypeInv, Types
  <2> QED
    BY <2>1, <2>2, ConstantsAssumption DEF SafePins
<1>10. CASE Crash
  <2>1. UNCHANGED <<current, raced, pinned>> /\ dropping' = None
    BY <1>10 DEF Crash
  <2>2. Referenced \subseteq Cids /\ Referenced' = Referenced
    BY <2>1 DEF Referenced, TypeInv, Types
  <2> QED
    BY <2>1, <2>2, ConstantsAssumption DEF SafePins
<1> QED
  BY <1>2, <1>3, <1>4, <1>5, <1>6, <1>7, <1>8, <1>9, <1>10 DEF Next, Chain, Handler

(* ReferencedStaysPinned: no interleaving of uploads, approvals, expiries,  *)
(* crashes and the two unpinning handlers unpins what the chain references, *)
(* as long as it was safely pinned when it was approved.  The invariant     *)
(* adds that such content is not about to be dropped either.                *)
THEOREM PinsHold == Spec => []ReferencedStaysPinned
<1>1. Init => SafePins
  BY DEF Init, SafePins, Referenced
<1>2. SafePins => ReferencedStaysPinned
  BY DEF SafePins, ReferencedStaysPinned
<1> QED
  BY InitTypes, StepTypes, <1>1, StepPins, <1>2, PTL DEF Spec

----------------------------------------------------------------------------
(* Why a push's poll answers for its own proposal.  A message is queued     *)
(* once and included once; a pending proposal is of an included upload; and *)
(* while a push is past its check, a pending proposal that is not its own   *)
(* has an excuse: a merge, or a push that gave up, was included.            *)

Excuse(u) ==
    \E w \in Uploads \ {u} :
        Key(w) = Key(u) /\ w \in accepted /\ (Kind[w] = "merge" \/ pc[w] = "failed")

SentOnce ==
    /\ accepted \subseteq Uploads
    /\ msgs \cap accepted = {}
    /\ \A u \in msgs \cup accepted : pc[u] \in {"polling", "ok", "failed"}

ProposalsIncluded ==
    \A k \in DOMAIN proposal : proposal[k] # None => proposal[k] \in accepted /\ Key(proposal[k]) = k

PastCheck(u) == Kind[u] = "push" /\ pc[u] \in {"checked", "added", "pinned", "polling"}

OwnProposal ==
    \A u \in Uploads : PastCheck(u) /\ Pending(u) => proposal[Key(u)] = u \/ Excuse(u)

Answered ==
    \A u \in Uploads : Kind[u] = "push" /\ pc[u] = "ok" => u \in accepted \/ Excuse(u)

PushInv == SentOnce /\ ProposalsIncluded /\ OwnProposal /\ Answered

(* An upload moves only while it is running or about to start, to another   *)
(* place, and includes nothing.                                             *)
LEMMA UploadMoves ==
    ASSUME TypeInv, NEW u \in Uploads, Upload(u)
    PROVE  /\ pc[u] \in Running \cup {"idle", "late"}
           /\ \E l \in Running \cup Ended : pc' = [pc EXCEPT ![u] = l]
           /\ UNCHANGED <<proposal, accepted>>
<1>1. pc[u] \in Running \cup {"idle", "late"} /\ UNCHANGED <<proposal, accepted>>
  BY DEF Upload, Begin, Check, Refused, LockHead, Add, Pin, GiveUpPinning, LatePin, PinAttachments, Propose, PollSucceeds, PollGivesUp,
         chain, Running
<1>2. \E l \in Running \cup Ended : pc' = [pc EXCEPT ![u] = l]
  BY DEF Upload, Begin, Check, Refused, LockHead, Add, Pin, GiveUpPinning, LatePin, PinAttachments, Propose, PollSucceeds, PollGivesUp,
         Ends, Goto, Running, Ended
<1> QED
  BY <1>1, <1>2

(* Once there is an excuse it stays: included uploads stay included, and    *)
(* one that failed does not move any more.                                  *)
LEMMA ExcuseStays ==
    ASSUME TypeInv, [Next]_vars, NEW u \in Uploads, Excuse(u)
    PROVE  Excuse(u)'
<1>1. PICK w \in Uploads \ {u} :
        Key(w) = Key(u) /\ w \in accepted /\ (Kind[w] = "merge" \/ pc[w] = "failed")
  BY DEF Excuse
<1>2. w \in accepted' /\ (pc[w] = "failed" => pc'[w] = "failed")
  <2>1. CASE UNCHANGED vars
    BY <1>1, <2>1 DEF vars
  <2>2. ASSUME NEW v \in Uploads, Upload(v)
        PROVE  w \in accepted' /\ (pc[w] = "failed" => pc'[w] = "failed")
    <3>1. /\ pc[v] \in Running \cup {"idle", "late"} /\ UNCHANGED accepted
          /\ \E l \in Running \cup Ended : pc' = [pc EXCEPT ![v] = l]
      BY <2>2, UploadMoves
    <3>2. pc[w] = "failed" => w # v
      BY <3>1 DEF Running
    <3> QED
      BY <1>1, <3>1, <3>2 DEF TypeInv, Types
  <2>3. ASSUME Chain \/ Handler
        PROVE  w \in accepted' /\ UNCHANGED pc
    BY <1>1, <2>3 DEF Chain, Handler, Include, Lose, Approve, Expire, Take, Query, UnpinFile, upload
  <2>4. CASE Crash
    BY <1>1, <2>4 DEF Crash
  <2> QED
    BY <2>1, <2>2, <2>3, <2>4 DEF Next
<1> QED
  BY <1>1, <1>2 DEF Excuse, Key

LEMMA UploadPush ==
    ASSUME TypeInv, PushInv, NEW u \in Uploads, Upload(u)
    PROVE  PushInv'
<1>1. PICK l \in Running \cup Ended : pc' = [pc EXCEPT ![u] = l]
  BY UploadMoves
<1>2. pc[u] \in Running \cup {"idle", "late"} /\ UNCHANGED <<proposal, accepted>>
  BY UploadMoves
<1>3. pc \in [Uploads -> Running \cup Ended \cup {"idle"}] /\ msgs \subseteq Uploads
  BY DEF TypeInv, Types
<1>4. [Next]_vars
  BY DEF Next
<1>5. SentOnce'
  <2>1. CASE Propose(u) /\ msgs' = msgs \cup {u} /\ l = "polling"
    <3>1. u \notin msgs \cup accepted
      BY <2>1 DEF Propose, PushInv, SentOnce
    <3> QED
      BY <1>1, <1>2, <1>3, <2>1, <3>1 DEF PushInv, SentOnce
  <2>2. CASE msgs' = msgs /\ l \in {"ok", "failed"}
    BY <1>1, <1>2, <1>3, <2>2 DEF PushInv, SentOnce
  <2>3. CASE msgs' = msgs /\ pc[u] \notin {"polling", "ok", "failed"}
    <3>1. u \notin msgs \cup accepted
      BY <2>3 DEF PushInv, SentOnce
    <3> QED
      BY <1>1, <1>2, <1>3, <2>3, <3>1 DEF PushInv, SentOnce
  <2>4. pc'[u] = l
    BY <1>1, <1>3
  <2>5. (msgs' = msgs) \/ (Propose(u) /\ msgs' = msgs \cup {u} /\ pc'[u] = "polling")
    BY <1>3 DEF Upload, Begin, Check, Refused, LockHead, Add, Pin, GiveUpPinning, LatePin, PinAttachments, Propose, PollSucceeds,
                PollGivesUp, Goto
  <2>6. pc[u] = "polling" => pc'[u] \in {"ok", "failed"}
    BY <1>3 DEF Upload, Begin, Check, Refused, LockHead, Add, Pin, GiveUpPinning, LatePin, PinAttachments, Propose, PollSucceeds,
                PollGivesUp, Ends, Goto
  <2> QED
    BY <1>2, <2>1, <2>2, <2>3, <2>4, <2>5, <2>6 DEF Running
<1>6. ProposalsIncluded'
  BY <1>2 DEF PushInv, ProposalsIncluded, Key
<1>7. OwnProposal'
  <2> SUFFICES ASSUME NEW v \in Uploads, PastCheck(v)', Pending(v)'
               PROVE  (proposal[Key(v)] = v \/ Excuse(v))'
    BY DEF OwnProposal
  <2>1. Pending(v) /\ proposal'[Key(v)] = proposal[Key(v)]
    BY <1>2 DEF Pending, Key
  <2>2. CASE PastCheck(v)
    BY <2>1, <2>2, <1>4, ExcuseStays DEF PushInv, OwnProposal, Key
  <2>3. CASE ~PastCheck(v)
    <3>1. v = u
      BY <1>1, <1>3, <2>3 DEF PastCheck
    <3>2. FALSE
      BY <3>1, <2>1, <2>3, <1>3 DEF PastCheck, Upload, Begin, Check, Refused, LockHead, Add, Pin, GiveUpPinning, LatePin, PinAttachments,
          Propose, PollSucceeds, PollGivesUp, Ends, Goto
    <3> QED
      BY <3>2
  <2> QED
    BY <2>2, <2>3
<1>8. Answered'
  <2> SUFFICES ASSUME NEW v \in Uploads, Kind[v] = "push", pc'[v] = "ok"
               PROVE  v \in accepted' \/ Excuse(v)'
    BY DEF Answered
  <2>1. CASE pc[v] = "ok"
    BY <2>1, <1>2, <1>4, ExcuseStays DEF PushInv, Answered
  <2>2. CASE pc[v] # "ok"
    <3>1. v = u
      BY <1>1, <1>3, <2>2
    <3>2. PollSucceeds(u)
      BY <3>1, <2>2, <1>3 DEF Upload, Begin, Check, Refused, LockHead, Add, Pin, GiveUpPinning, LatePin, PinAttachments, Propose,
          PollGivesUp, Ends, Goto, NothingToDo
    <3>3. PastCheck(u) /\ Pending(u)
      BY <3>1, <3>2 DEF PollSucceeds, PastCheck
    <3>4. proposal[Key(u)] = u \/ Excuse(u)
      BY <3>3 DEF PushInv, OwnProposal
    <3>5. proposal[Key(u)] = u => u \in accepted
      BY <3>3, KeyType DEF PushInv, ProposalsIncluded, Pending, TypeInv, Types
    <3> QED
      BY <3>1, <3>4, <3>5, <1>2, <1>4, ExcuseStays
  <2> QED
    BY <2>1, <2>2
<1> QED
  BY <1>5, <1>6, <1>7, <1>8 DEF PushInv

LEMMA IncludePush ==
    ASSUME TypeInv, PushInv, NEW v \in Uploads, Include(v)
    PROVE  PushInv'
<1>1. /\ v \in msgs /\ msgs' = msgs \ {v} /\ UNCHANGED pc
      /\ accepted \subseteq accepted' /\ accepted' \subseteq accepted \cup {v}
  BY DEF Include, upload
<1>2. [Next]_vars
  BY DEF Next, Chain
<1>3. v \notin accepted /\ pc[v] \in {"polling", "ok", "failed"}
  BY <1>1 DEF PushInv, SentOnce
<1>4. SentOnce'
  BY <1>1, <1>3 DEF PushInv, SentOnce
<1>5. Answered'
  <2> SUFFICES ASSUME NEW u \in Uploads, Kind[u] = "push", pc'[u] = "ok"
               PROVE  u \in accepted' \/ Excuse(u)'
    BY DEF Answered
  <2>1. u \in accepted \/ Excuse(u)
    BY <1>1 DEF PushInv, Answered
  <2> QED
    BY <2>1, <1>1, <1>2, ExcuseStays
<1>6. CASE UNCHANGED proposal
  <2>1. ProposalsIncluded'
    BY <1>1, <1>6 DEF PushInv, ProposalsIncluded, Key
  <2>2. OwnProposal'
    <3> SUFFICES ASSUME NEW u \in Uploads, PastCheck(u)', Pending(u)'
                 PROVE  (proposal[Key(u)] = u \/ Excuse(u))'
      BY DEF OwnProposal
    <3>1. proposal[Key(u)] = u \/ Excuse(u)
      BY <1>1, <1>6 DEF PushInv, OwnProposal, PastCheck, Pending, Key
    <3> QED
      BY <3>1, <1>2, <1>6, ExcuseStays DEF Key
  <2> QED
    BY <1>4, <1>5, <2>1, <2>2 DEF PushInv
<1>7. CASE proposal' = [proposal EXCEPT ![Key(v)] = v] /\ accepted' = accepted \cup {v}
  <2>0. proposal \in [(Targets \cup {Repo}) \X Users -> Uploads \cup {None}] /\ Key(v) \in DOMAIN proposal
    BY KeyType DEF TypeInv, Types
  <2>1. ProposalsIncluded'
    <3> SUFFICES ASSUME NEW k \in DOMAIN proposal', proposal'[k] # None
                 PROVE  proposal'[k] \in accepted' /\ Key(proposal'[k]) = k
      BY DEF ProposalsIncluded, Key
    <3>1. CASE k = Key(v)
      BY <3>1, <2>0, <1>7
    <3>2. CASE k # Key(v)
      BY <3>2, <2>0, <1>7 DEF PushInv, ProposalsIncluded
    <3> QED
      BY <3>1, <3>2
  <2>2. OwnProposal'
    <3> SUFFICES ASSUME NEW u \in Uploads, PastCheck(u)', Pending(u)'
                 PROVE  (proposal[Key(u)] = u \/ Excuse(u))'
      BY DEF OwnProposal
    <3>0. PastCheck(u)
      BY <1>1 DEF PastCheck
    <3>1. CASE Key(u) # Key(v)
      <4>1. proposal'[Key(u)] = proposal[Key(u)] /\ Pending(u)
        BY <3>1, <2>0, <1>7, KeyType DEF Pending, Key
      <4>2. proposal[Key(u)] = u \/ Excuse(u)
        BY <3>0, <4>1 DEF PushInv, OwnProposal
      <4> QED
        BY <4>1, <4>2, <1>2, ExcuseStays DEF Key
    <3>2. CASE u = v
      BY <3>2, <2>0, <1>7 DEF Key
    <3>3. CASE Key(u) = Key(v) /\ u # v
      <4>1. Target[u] = Target[v] /\ Kind[v] \in {"push", "merge"}
        BY <3>0, <3>3, ConstantsAssumption DEF Key, PastCheck
      <4>2. pc[v] # "polling"
        <5>1. Locks(u) /\ Locks(v) /\ pc[u] \in Running
          BY <3>0, <4>1 DEF Locks, PastCheck, Running
        <5> QED
          BY <5>1, <4>1, <3>3 DEF TypeInv, Holders, Running
      <4>3. CASE Kind[v] = "merge" \/ pc[v] = "failed"
        BY <4>3, <3>3, <1>1, <1>7 DEF Excuse, Key
      <4>4. CASE Kind[v] = "push" /\ pc[v] = "ok"
        <5>1. Excuse(v)
          BY <4>4, <1>3 DEF PushInv, Answered
        <5>2. PICK w \in Uploads \ {v} :
                Key(w) = Key(v) /\ w \in accepted /\ (Kind[w] = "merge" \/ pc[w] = "failed")
          BY <5>1 DEF Excuse
        <5>3. w # u
          BY <5>2, <3>0 DEF PastCheck
        <5> QED
          BY <5>2, <5>3, <3>3, <1>1 DEF Excuse, Key
      <4> QED
        BY <4>1, <4>2, <4>3, <4>4, <1>3
    <3> QED
      BY <3>1, <3>2, <3>3
  <2> QED
    BY <1>4, <1>5, <2>1, <2>2 DEF PushInv
<1> QED
  BY <1>6, <1>7 DEF Include

LEMMA StepPush == TypeInv /\ PushInv /\ [Next]_vars => PushInv'
<1> SUFFICES ASSUME TypeInv, PushInv, [Next]_vars PROVE PushInv'
  OBVIOUS
<1>1. ASSUME UNCHANGED <<pc, accepted>>, msgs' \subseteq msgs,
             DOMAIN proposal' = DOMAIN proposal,
             \A k \in DOMAIN proposal : proposal'[k] \in {proposal[k], None}
      PROVE  PushInv'
  <2>1. SentOnce' /\ ProposalsIncluded' /\ Answered'
    BY <1>1 DEF PushInv, SentOnce, ProposalsIncluded, Answered, Excuse, Key
  <2>2. OwnProposal'
    <3> SUFFICES ASSUME NEW u \in Uploads, PastCheck(u)', Pending(u)'
                 PROVE  (proposal[Key(u)] = u \/ Excuse(u))'
      BY DEF OwnProposal
    <3>1. Key(u) \in DOMAIN proposal /\ proposal'[Key(u)] # None
      BY KeyType DEF Pending, Key, TypeInv, Types
    <3>2. proposal'[Key(u)] = proposal[Key(u)] /\ Pending(u) /\ PastCheck(u)
      BY <1>1, <3>1 DEF Pending, PastCheck
    <3>3. proposal[Key(u)] = u \/ Excuse(u)
      BY <3>2 DEF PushInv, OwnProposal
    <3> QED
      BY <3>2, <3>3, <1>1 DEF Excuse, Key
  <2> QED
    BY <2>1, <2>2 DEF PushInv
<1>2. CASE UNCHANGED vars
  BY <1>1, <1>2 DEF vars
<1>3. ASSUME NEW u \in Uploads, Lose(u) PROVE PushInv'
  BY <1>1, <1>3 DEF Lose, upload, chain
<1>4. ASSUME NEW k \in DOMAIN proposal, Approve(k) \/ Expire(k) PROVE PushInv'
  BY <1>1, <1>4 DEF Approve, Expire, upload
<1>5. CASE Handler
  BY <1>1, <1>5 DEF Handler, Take, Query, UnpinFile, upload, chain
<1>6. CASE Crash
  <2>1. /\ pc' = [u \in Uploads |-> IF pc[u] \in {"idle", "ok"} THEN pc[u] ELSE "failed"]
        /\ msgs' \subseteq msgs /\ UNCHANGED <<proposal, accepted>>
    BY <1>6 DEF Crash
  <2>2. SentOnce' /\ ProposalsIncluded'
    BY <2>1 DEF PushInv, SentOnce, ProposalsIncluded, Key, TypeInv, Types
  <2>3. OwnProposal'
    BY <2>1 DEF OwnProposal, PastCheck
  <2>4. Answered'
    <3> SUFFICES ASSUME NEW u \in Uploads, Kind[u] = "push", pc'[u] = "ok"
                 PROVE  u \in accepted' \/ Excuse(u)'
      BY DEF Answered
    <3>1. u \in accepted \/ Excuse(u)
      BY <2>1 DEF PushInv, Answered
    <3> QED
      BY <2>1, <3>1, ExcuseStays
  <2> QED
    BY <2>2, <2>3, <2>4 DEF PushInv
<1> QED
  BY <1>2, <1>3, <1>4, <1>5, <1>6, UploadPush, IncludePush DEF Next, Chain

(* PushedMeansProposed: a push that reports success has had its own         *)
(* proposal accepted by the chain, or a merge's or a failed push's of the   *)
(* same user was accepted and took its place (git_http.go:179-190 and       *)
(* 306-319).  The invariant follows the messages from the queue to the      *)
(* chain and uses that the repository's lock is held throughout.            *)
THEOREM PushAnswers == Spec => []PushedMeansProposed
<1>1. Init => PushInv
  BY DEF Init, PushInv, SentOnce, ProposalsIncluded, OwnProposal, Answered, PastCheck
<1>2. PushInv => PushedMeansProposed
  BY DEF PushInv, Answered, Excuse, PushedMeansProposed
<1> QED
  BY InitTypes, StepTypes, <1>1, StepPush, <1>2, PTL DEF Spec
----------------------------------------------------------------------------
(* Why nothing stays pinned for good.  Every pinned CID is referenced,      *)
(* known to be astray, or on its way: with an upload that will propose it,  *)
(* in a message, in a proposal, or in an event whose handler has not come   *)
(* to it yet.                                                               *)

(* The event that is being handled has only its todo left.                  *)
ToUnpin(c) ==
    \E i \in DOMAIN events : IF i = 1 /\ todo # {} THEN c \in todo ELSE c \in events[i].cids

Pinning == {"added", "pinned"}

OnItsWay(c) ==
    \/ \E u \in Uploads : c \in got[u] /\ (pc[u] \in Pinning \/ u \in msgs)
    \/ \E k \in DOMAIN proposal : proposal[k] # None /\ c \in got[proposal[k]]
    \/ ToUnpin(c)

(* What an upload proposes is its content, and what an LFS object           *)
(* references is the object.                                                *)
OwnContent ==
    /\ \A u \in Uploads : got[u] \subseteq Content[u]
    /\ \A u \in Uploads : Kind[u] = "lfs" => current[Target[u]] \subseteq Content[u]

TodoOfEvent == todo # {} => todo \subseteq events[1].cids

Accounted == \A c \in pinned : c \in Referenced \/ c \in astray \/ OnItsWay(c)

AccountInv == OwnContent /\ TodoOfEvent /\ Accounted

LEMMA NonzeroCount ==
    ASSUME NEW c, refCount(c) # 0
    PROVE  c \in Referenced
<1>1. {t \in Targets : c \in current[t]} # {}
  BY FS_EmptySet DEF refCount
<1> QED
  BY <1>1 DEF Referenced

(* An upload's step leaves the chain and the events alone: what was         *)
(* accounted for still is, unless the upload itself had it in its hands.    *)
LEMMA StillAccounted ==
    ASSUME NEW u \in Uploads, NEW c,
           c \in Referenced \/ c \in astray \/ OnItsWay(c),
           UNCHANGED <<proposal, current, events, todo>>,
           msgs \subseteq msgs', astray \subseteq astray',
           \A v \in Uploads : pc[v] \in Pinning /\ v # u => pc'[v] \in Pinning,
           \A v \in Uploads : c \in got[v] => c \in got'[v],
           pc[u] \in Pinning /\ c \in got[u] =>
               pc'[u] \in Pinning \/ u \in msgs' \/ c \in astray' \/ c \in Referenced,
           \A k \in DOMAIN proposal : proposal[k] # None => proposal[k] \in Uploads
    PROVE  c \in Referenced' \/ c \in astray' \/ OnItsWay(c)'
<1>1. Referenced' = Referenced
  BY DEF Referenced
<1>2. CASE c \in Referenced \/ c \in astray
  BY <1>1, <1>2
<1>3. ASSUME NEW v \in Uploads, c \in got[v], pc[v] \in Pinning \/ v \in msgs
      PROVE  c \in Referenced' \/ c \in astray' \/ OnItsWay(c)'
  <2>1. c \in got'[v] /\ (pc'[v] \in Pinning \/ v \in msgs' \/ c \in astray' \/ c \in Referenced)
    BY <1>3
  <2> QED
    BY <1>1, <2>1 DEF OnItsWay
<1>4. ASSUME NEW k \in DOMAIN proposal, proposal[k] # None, c \in got[proposal[k]]
      PROVE  OnItsWay(c)'
  <2>1. c \in got'[proposal[k]]
    BY <1>4
  <2> QED
    BY <1>4, <2>1 DEF OnItsWay
<1>5. ASSUME ToUnpin(c)
      PROVE  OnItsWay(c)'
  BY <1>5 DEF OnItsWay, ToUnpin
<1> QED
  BY <1>2, <1>3, <1>4, <1>5 DEF OnItsWay

(* Pinning: nothing of the upload was on its way yet.                       *)
LEMMA PinAccount ==
    ASSUME TypeInv, PushInv, AccountInv, NEW u \in Uploads,
           pc[u] = "checked", NEW l \in Pinning, pc' = [pc EXCEPT ![u] = l],
           NEW S \in SUBSET Content[u], NEW G \in SUBSET S,
           pinned' = pinned \cup S, got' = [got EXCEPT ![u] = G],
           astray' = astray \cup (S \ G),
           UNCHANGED <<msgs, proposal, current, events, todo>>
    PROVE  AccountInv'
<1>1. /\ pc \in [Uploads -> Running \cup Ended \cup {"idle"}]
      /\ got \in [Uploads -> SUBSET Cids]
      /\ msgs \subseteq Uploads
  BY DEF TypeInv, Types
<1>2. u \notin msgs /\ \A k \in DOMAIN proposal : proposal[k] # u
  BY ConstantsAssumption DEF PushInv, SentOnce, ProposalsIncluded
<1>3. OwnContent' /\ TodoOfEvent'
  BY <1>1 DEF AccountInv, OwnContent, TodoOfEvent
<1>4. Referenced' = Referenced
  BY DEF Referenced
<1>5. ASSUME NEW c \in pinned' PROVE c \in Referenced' \/ c \in astray' \/ OnItsWay(c)'
  <2>1. CASE c \in S
    <3>1. c \in got'[u] \/ c \in astray'
      BY <1>1, <2>1
    <3>2. pc'[u] \in Pinning
      BY <1>1
    <3> QED
      BY <3>1, <3>2 DEF OnItsWay
  <2>2. CASE c \in pinned
    <3>1. CASE c \in Referenced \/ c \in astray
      BY <3>1, <1>4
    <3>2. ASSUME NEW v \in Uploads, c \in got[v], pc[v] \in Pinning \/ v \in msgs
          PROVE  OnItsWay(c)'
      <4>1. v # u
        BY <3>2, <1>2 DEF Pinning
      <4> QED
        BY <4>1, <3>2, <1>1 DEF OnItsWay
    <3>3. ASSUME NEW k \in DOMAIN proposal, proposal[k] # None, c \in got[proposal[k]]
          PROVE  OnItsWay(c)'
      <4>1. proposal[k] \in Uploads /\ proposal[k] # u
        BY <3>3, <1>2 DEF TypeInv, Types
      <4>2. got'[proposal[k]] = got[proposal[k]]
        BY <4>1, <1>1
      <4> QED
        BY <4>2, <3>3 DEF OnItsWay
    <3>4. ASSUME ToUnpin(c)
          PROVE  OnItsWay(c)'
      BY <3>4 DEF OnItsWay, ToUnpin
    <3> QED
      BY <2>2, <3>1, <3>2, <3>3, <3>4 DEF AccountInv, Accounted, OnItsWay
  <2> QED
    BY <2>1, <2>2
<1> QED
  BY <1>3, <1>5 DEF AccountInv, Accounted

LEMMA UploadAccount ==
    ASSUME TypeInv, PushInv, AccountInv, NEW u \in Uploads, Upload(u)
    PROVE  AccountInv'
<1>0. /\ pc \in [Uploads -> Running \cup Ended \cup {"idle"}]
      /\ \A k \in DOMAIN proposal : proposal[k] # None => proposal[k] \in Uploads
  BY DEF TypeInv, Types
<1>1. ASSUME UNCHANGED <<proposal, current, events, todo, got>>,
             msgs \subseteq msgs', astray \subseteq astray',
             \A v \in Uploads : pc[v] \in Pinning /\ v # u => pc'[v] \in Pinning,
             pc[u] \in Pinning => \/ u \in msgs'
                                 \/ got[u] \subseteq astray' \cup Referenced,
             pinned' \subseteq pinned \cup (astray' \cap Cids)
      PROVE  AccountInv'
  <2>1. OwnContent' /\ TodoOfEvent'
    BY <1>1 DEF AccountInv, OwnContent, TodoOfEvent
  <2>2. ASSUME NEW c \in pinned' PROVE c \in Referenced' \/ c \in astray' \/ OnItsWay(c)'
    <3>1. CASE c \in astray'
      BY <3>1
    <3>2. CASE c \in pinned
      <4>1. c \in Referenced \/ c \in astray \/ OnItsWay(c)
        BY <3>2 DEF AccountInv, Accounted
      <4> QED
        BY <4>1, <1>0, <1>1, StillAccounted
    <3> QED
      BY <3>1, <3>2, <1>1
  <2> QED
    BY <2>1, <2>2 DEF AccountInv, Accounted
<1>2. CASE Begin(u) \/ LockHead(u) \/ Check(u) \/ PollSucceeds(u) \/ PollGivesUp(u)
  <2>1. UNCHANGED <<proposal, current, events, todo, got, msgs, astray, pinned>> /\ pc[u] \notin Pinning
    BY <1>2 DEF Begin, LockHead, Check, Refused, PollSucceeds, PollGivesUp, chain, handler, Pinning
  <2>2. \A v \in Uploads : v # u => pc'[v] = pc[v]
    BY <1>0, <1>2 DEF Begin, LockHead, Check, Refused, PollSucceeds, PollGivesUp, Ends, Goto
  <2> QED
    BY <1>1, <2>1, <2>2
<1>3. CASE LatePin(u)
  <2>1. /\ UNCHANGED <<proposal, current, events, todo, got, msgs>> /\ pc[u] \notin Pinning
        /\ astray \subseteq astray' /\ pinned' \subseteq pinned \cup (astray' \cap Cids)
    BY <1>3, ConstantsAssumption DEF LatePin, chain, handler, Pinning
  <2>2. \A v \in Uploads : v # u => pc'[v] = pc[v]
    BY <1>0, <1>3 DEF LatePin, Goto
  <2> QED
    BY <1>1, <2>1, <2>2
<1>4. CASE Propose(u)
  <2>1. UNCHANGED <<proposal, current, events, todo, got, pinned>> /\ msgs \subseteq msgs' /\ astray \subseteq astray'
    BY <1>4 DEF Propose, chain, handler
  <2>2. \A v \in Uploads : v # u => pc'[v] = pc[v]
    BY <1>0, <1>4 DEF Propose, Ends, Goto
  <2>3. u \in msgs' \/ got[u] \subseteq astray' \cup Referenced
    <3>1. CASE NothingToDo(u)
      <4>1. CASE Kind[u] = "lfs" /\ current[Target[u]] # {}
        <5>1. Target[u] \in Targets
          BY <4>1, LocksTarget
        <5>2. PICK c \in Cids : Content[u] = {c}
          BY <4>1, ConstantsAssumption
        <5>3. got[u] \subseteq {c} /\ current[Target[u]] = {c}
          BY <4>1, <5>2 DEF AccountInv, OwnContent
        <5> QED
          BY <5>1, <5>3 DEF Referenced
      <4>2. CASE got[u] = {}
        BY <4>2
      <4> QED
        BY <3>1, <4>1, <4>2 DEF NothingToDo
    <3>2. CASE ~NothingToDo(u)
      BY <1>4, <3>2 DEF Propose
    <3> QED
      BY <3>1, <3>2
  <2> QED
    BY <1>1, <2>1, <2>2, <2>3
<1>5. CASE Add(u)
  <2>1. CASE /\ pinned' = pinned \cup Content[u]
             /\ got' = [got EXCEPT ![u] = Content[u]]
             /\ Goto(u, "added")
    <3>1. /\ pc[u] = "checked" /\ astray' = astray
          /\ UNCHANGED <<msgs, proposal, current, events, todo>>
      BY <1>5 DEF Add, chain, handler
    <3>2. astray' = astray \cup (Content[u] \ Content[u]) /\ "added" \in Pinning
      BY <3>1 DEF Pinning
    <3> QED
      BY <2>1, <3>1, <3>2, PinAccount DEF Goto
  <2>2. CASE Ends(u, "failed") /\ UNCHANGED <<pinned, got>>
    <3>1. UNCHANGED <<proposal, current, events, todo, got, msgs, astray, pinned>> /\ pc[u] \notin Pinning
      BY <1>5, <2>2 DEF Add, chain, handler, Pinning
    <3>2. \A v \in Uploads : v # u => pc'[v] = pc[v]
      BY <1>0, <2>2 DEF Ends, Goto
    <3> QED
      BY <1>1, <3>1, <3>2
  <2> QED
    BY <1>5, <2>1, <2>2 DEF Add
<1>7. CASE Pin(u) \/ GiveUpPinning(u)
  <2>1. /\ UNCHANGED <<proposal, current, events, todo, got, msgs>>
        /\ astray \subseteq astray'
    BY <1>7 DEF Pin, GiveUpPinning, chain, handler
  <2>2. \A v \in Uploads : v # u => pc'[v] = pc[v]
    BY <1>0, <1>7 DEF Pin, GiveUpPinning, Ends, Goto
  <2>3. CASE got[u] \subseteq astray' /\ UNCHANGED pinned
    BY <1>1, <2>1, <2>2, <2>3
  <2>4. CASE /\ pc[u] = "added" /\ pc' = [pc EXCEPT ![u] = "pinned"]
             /\ pinned' = pinned \cup got[u]
    <3>1. OwnContent' /\ TodoOfEvent'
      BY <2>1 DEF AccountInv, OwnContent, TodoOfEvent
    <3>2. pc'[u] \in Pinning /\ pc[u] \in Pinning
      BY <2>4, <1>0 DEF Pinning
    <3>3. ASSUME NEW c \in pinned' PROVE c \in Referenced' \/ c \in astray' \/ OnItsWay(c)'
      <4>1. CASE c \in got[u]
        BY <4>1, <2>1, <3>2 DEF OnItsWay
      <4>2. CASE c \in pinned
        <5>1. c \in Referenced \/ c \in astray \/ OnItsWay(c)
          BY <4>2 DEF AccountInv, Accounted
        <5> QED
          BY <5>1, <1>0, <2>1, <2>2, <3>2, StillAccounted
      <4> QED
        BY <4>1, <4>2, <2>4
    <3> QED
      BY <3>1, <3>3 DEF AccountInv, Accounted
  <2>5. \/ got[u] \subseteq astray' /\ UNCHANGED pinned
        \/ /\ pc[u] = "added" /\ pc' = [pc EXCEPT ![u] = "pinned"]
           /\ pinned' = pinned \cup got[u]
    BY <1>7 DEF Pin, GiveUpPinning, Goto
  <2> QED
    BY <2>3, <2>4, <2>5
<1>6. CASE PinAttachments(u)
  <2>1. PICK S \in SUBSET (Content[u] \ seen[u]) : \E G \in SUBSET S :
          /\ pinned' = pinned \cup S /\ got' = [got EXCEPT ![u] = G]
          /\ astray' = astray \cup (S \ G)
    BY <1>6 DEF PinAttachments
  <2>2. PICK G \in SUBSET S :
          /\ pinned' = pinned \cup S /\ got' = [got EXCEPT ![u] = G]
          /\ astray' = astray \cup (S \ G)
    BY <2>1
  <2>3. /\ pc[u] = "checked" /\ Goto(u, "pinned")
        /\ UNCHANGED <<msgs, proposal, current, events, todo>>
    BY <1>6 DEF PinAttachments, chain, handler
  <2>4. S \in SUBSET Content[u] /\ "pinned" \in Pinning
    BY DEF Pinning
  <2> QED
    BY <2>2, <2>3, <2>4, PinAccount DEF Goto
<1> QED
  BY <1>2, <1>3, <1>4, <1>5, <1>6, <1>7 DEF Upload

(* Messages that reach the chain or do not: a proposal that is not made, or *)
(* that is replaced, goes astray.                                           *)
LEMMA MessageAccount ==
    ASSUME TypeInv, PushInv, AccountInv, NEW u \in Uploads, Include(u) \/ Lose(u)
    PROVE  AccountInv'
<1>0. /\ proposal \in [(Targets \cup {Repo}) \X Users -> Uploads \cup {None}]
      /\ Key(u) \in DOMAIN proposal /\ u # None
  BY KeyType, ConstantsAssumption DEF TypeInv, Types
<1>1. /\ UNCHANGED <<pc, got, current, events, todo, pinned>>
      /\ msgs' = msgs \ {u} /\ u \in msgs /\ astray \subseteq astray'
  BY DEF Include, Lose, upload, chain, handler
<1>2. got[u] \subseteq astray' \/ \E k \in DOMAIN proposal' : proposal'[k] = u
  <2>1. CASE proposal' = [proposal EXCEPT ![Key(u)] = u]
    BY <1>0, <2>1
  <2>2. CASE astray' = astray \cup got[u]
    BY <2>2
  <2> QED
    BY <2>1, <2>2 DEF Include, Lose
<1>3. DOMAIN proposal' = DOMAIN proposal /\ \A k \in DOMAIN proposal :
        proposal[k] # None => proposal'[k] = proposal[k] \/ got[proposal[k]] \subseteq astray'
  <2>1. CASE UNCHANGED proposal
    BY <2>1
  <2>2. CASE /\ proposal' = [proposal EXCEPT ![Key(u)] = u]
             /\ astray' = astray \cup (IF Pending(u) THEN got[proposal[Key(u)]] ELSE {})
    <3> SUFFICES ASSUME NEW k \in DOMAIN proposal, proposal[k] # None
                 PROVE  proposal'[k] = proposal[k] \/ got[proposal[k]] \subseteq astray'
      BY <2>2
    <3>1. CASE k = Key(u)
      BY <3>1, <2>2 DEF Pending
    <3>2. CASE k # Key(u)
      BY <3>2, <2>2, <1>0
    <3> QED
      BY <3>1, <3>2
  <2> QED
    BY <2>1, <2>2 DEF Include, Lose, chain
<1>4. OwnContent' /\ TodoOfEvent' /\ Referenced' = Referenced
  BY <1>1 DEF AccountInv, OwnContent, TodoOfEvent, Referenced
<1>5. ASSUME NEW c \in pinned' PROVE c \in Referenced' \/ c \in astray' \/ OnItsWay(c)'
  <2>1. CASE c \in Referenced \/ c \in astray
    BY <2>1, <1>1, <1>4
  <2>2. ASSUME NEW v \in Uploads, c \in got[v], pc[v] \in Pinning \/ v \in msgs
        PROVE  c \in astray' \/ OnItsWay(c)'
    <3>1. CASE v = u
      BY <3>1, <2>2, <1>0, <1>1, <1>2 DEF OnItsWay
    <3>2. CASE v # u
      BY <3>2, <2>2, <1>1 DEF OnItsWay
    <3> QED
      BY <3>1, <3>2
  <2>3. ASSUME NEW k \in DOMAIN proposal, proposal[k] # None, c \in got[proposal[k]]
        PROVE  c \in astray' \/ OnItsWay(c)'
    BY <2>3, <1>1, <1>3 DEF OnItsWay
  <2>4. ASSUME ToUnpin(c)
        PROVE  OnItsWay(c)'
    BY <2>4, <1>1 DEF OnItsWay, ToUnpin
  <2> QED
    BY <1>1, <2>1, <2>2, <2>3, <2>4 DEF AccountInv, Accounted, OnItsWay
<1> QED
  BY <1>4, <1>5 DEF AccountInv, Accounted

(* A new event goes to the end of the queue: what was to be unpinned still  *)
(* is, and what the event carries is.                                       *)
LEMMA EmitToUnpin ==
    ASSUME Types, NEW ty \in {"delete", "timeout"}, NEW cids \in SUBSET Cids,
           events' = Emit(ty, cids), UNCHANGED todo
    PROVE  /\ \A c : ToUnpin(c) => ToUnpin(c)'
           /\ \A c \in cids : ToUnpin(c)'
           /\ events # <<>> => events'[1] = events[1]
<1>1. CASE cids = {}
  BY <1>1 DEF Emit, ToUnpin
<1>2. CASE cids # {}
  <2> DEFINE e == [type |-> ty, cids |-> cids]
  <2>1. events' = Append(events, e) /\ events \in Seq(EventType) /\ e \in EventType
    BY <1>2 DEF Emit, Types, EventType
  <2>2. /\ Len(events') = Len(events) + 1 /\ Len(events) \in Nat
        /\ DOMAIN events = 1..Len(events) /\ DOMAIN events' = 1..(Len(events) + 1)
        /\ \A i \in 1..Len(events) : events'[i] = events[i]
        /\ events'[Len(events) + 1] = e
    BY <2>1
  <2>3. \A c : ToUnpin(c) => ToUnpin(c)'
    BY <2>2 DEF ToUnpin
  <2>4. ASSUME NEW c \in cids PROVE ToUnpin(c)'
    <3>1. Len(events) + 1 \in DOMAIN events' /\ c \in events'[Len(events) + 1].cids
      BY <2>2
    <3>2. Len(events) + 1 = 1 => todo = {}
      BY <2>1, <2>2 DEF Types
    <3> QED
      BY <3>1, <3>2 DEF ToUnpin
  <2>5. events # <<>> => events'[1] = events[1]
    BY <2>1, <2>2
  <2> QED
    BY <2>3, <2>4, <2>5
<1> QED
  BY <1>1, <1>2

(* A proposal that comes to its end: approved, its content is referenced    *)
(* and what it replaces is in an event; expired, its content is.            *)
LEMMA DecisionAccount ==
    ASSUME TypeInv, PushInv, AccountInv, NEW k \in DOMAIN proposal, Approve(k) \/ Expire(k)
    PROVE  AccountInv'
<1> DEFINE u == proposal[k]
           lost == UNION {current[t] \ After(u)[t] : t \in Targets}
<1>0. u \in Uploads /\ got[u] \in SUBSET Cids /\ u # None /\ Types
  BY DEF Approve, Expire, TypeInv, Types
<1>1. /\ UNCHANGED <<pc, got, msgs, todo, pinned, astray>>
      /\ proposal' = [proposal EXCEPT ![k] = None]
  BY DEF Approve, Expire, upload, handler
<1>2. /\ DOMAIN proposal' = DOMAIN proposal
      /\ \A j \in DOMAIN proposal : j # k => proposal'[j] = proposal[j]
  BY <1>1 DEF TypeInv, Types
<1>3. PICK ty \in {"delete", "timeout"}, cids \in SUBSET Cids :
        /\ events' = Emit(ty, cids)
        /\ \A c \in Referenced : c \in Referenced' \/ c \in cids
        /\ \A c \in got[u] : c \in Referenced' \/ c \in cids
  <2>1. CASE Approve(k)
    <3>1. current' = After(u) /\ events' = Emit("delete", lost)
      BY <2>1 DEF Approve
    <3>2. lost \in SUBSET Cids
      BY <1>0, AfterType DEF Types
    <3>3. \A c \in Referenced : c \in Referenced' \/ c \in lost
      BY <3>1 DEF Referenced
    <3>4. \A c \in got[u] : c \in Referenced'
      <4>1. CASE Kind[u] = "delete"
        BY <4>1, <1>0, ConstantsAssumption DEF AccountInv, OwnContent
      <4>2. CASE Kind[u] # "delete"
        <5>1. Target[u] \in Targets /\ got[u] \subseteq After(u)[Target[u]]
          BY <1>0, <4>2, LocksTarget DEF After
        <5> QED
          BY <3>1, <5>1 DEF Referenced
      <4> QED
        BY <4>1, <4>2
    <3> QED
      BY <3>1, <3>2, <3>3, <3>4
  <2>2. CASE Expire(k)
    <3>1. events' = Emit("timeout", got[u]) /\ current' = current
      BY <2>2 DEF Expire
    <3> QED
      BY <3>1, <1>0 DEF Referenced
  <2> QED
    BY <2>1, <2>2
<1>4. /\ \A c : ToUnpin(c) => ToUnpin(c)'
      /\ \A c \in cids : ToUnpin(c)'
      /\ events # <<>> => events'[1] = events[1]
  BY <1>0, <1>1, <1>3, EmitToUnpin
<1>5. TodoOfEvent'
  BY <1>0, <1>1, <1>4 DEF AccountInv, TodoOfEvent, Types
<1>6. OwnContent'
  <2>1. CASE Expire(k)
    BY <2>1, <1>1 DEF Expire, AccountInv, OwnContent
  <2>2. CASE Approve(k)
    <3> SUFFICES ASSUME NEW v \in Uploads, Kind[v] = "lfs"
                 PROVE  current'[Target[v]] \subseteq Content[v]
      BY <1>1 DEF AccountInv, OwnContent
    <3>1. current' = After(u) /\ Target[v] \in Targets
      BY <2>2, LocksTarget DEF Approve
    <3>2. current[Target[v]] \subseteq Content[v] /\ got[u] \subseteq Content[u]
      BY <1>0 DEF AccountInv, OwnContent
    <3>3. CASE Target[v] # Target[u] /\ Kind[u] # "delete"
      BY <3>1, <3>2, <3>3 DEF After
    <3>4. CASE Target[v] = Target[u]
      <4>1. Content[u] = Content[v]
        BY <3>4, <1>0, ConstantsAssumption
      <4> QED
        BY <4>1, <3>1, <3>2, <1>0, AfterType
    <3>5. CASE Kind[u] = "delete"
      <4>1. got[u] = {}
        BY <3>2, <3>5, <1>0, ConstantsAssumption
      <4> QED
        BY <4>1, <3>1, <3>2, <1>0, AfterType
    <3> QED
      BY <3>3, <3>4, <3>5
  <2> QED
    BY <2>1, <2>2
<1>7. ASSUME NEW c \in pinned' PROVE c \in Referenced' \/ c \in astray' \/ OnItsWay(c)'
  <2>1. CASE c \in Referenced \/ c \in astray
    BY <2>1, <1>1, <1>3, <1>4 DEF OnItsWay
  <2>2. ASSUME NEW v \in Uploads, c \in got[v], pc[v] \in Pinning \/ v \in msgs
        PROVE  OnItsWay(c)'
    BY <2>2, <1>1 DEF OnItsWay
  <2>3. ASSUME NEW j \in DOMAIN proposal, proposal[j] # None, c \in got[proposal[j]]
        PROVE  c \in Referenced' \/ OnItsWay(c)'
    <3>1. CASE j = k
      BY <3>1, <2>3, <1>3, <1>4 DEF OnItsWay
    <3>2. CASE j # k
      BY <3>2, <2>3, <1>1, <1>2 DEF OnItsWay
    <3> QED
      BY <3>1, <3>2
  <2>4. ASSUME ToUnpin(c)
        PROVE  OnItsWay(c)'
    BY <2>4, <1>4 DEF OnItsWay
  <2> QED
    BY <1>1, <2>1, <2>2, <2>3, <2>4 DEF AccountInv, Accounted, OnItsWay
<1> QED
  BY <1>5, <1>6, <1>7 DEF AccountInv, Accounted

(* The handlers: a CID leaves todo because it was unpinned, because it is   *)
(* referenced, or it goes astray.                                           *)
LEMMA HandlerAccount ==
    ASSUME TypeInv, AccountInv, Handler
    PROVE  AccountInv'
<1>0. events \in Seq(EventType) /\ DOMAIN events = 1..Len(events) /\ Len(events) \in Nat
  BY DEF TypeInv, Types
<1>1. ASSUME UNCHANGED <<pc, got, msgs, proposal, current>>, astray \subseteq astray', pinned' \subseteq pinned,
             \A c \in pinned' : ToUnpin(c) => ToUnpin(c)' \/ c \in astray' \/ c \in Referenced,
             TodoOfEvent'
      PROVE  AccountInv'
  <2>1. OwnContent' /\ Referenced' = Referenced
    BY <1>1 DEF AccountInv, OwnContent, Referenced
  <2>2. ASSUME NEW c \in pinned' PROVE c \in Referenced' \/ c \in astray' \/ OnItsWay(c)'
    BY <1>1, <2>1 DEF AccountInv, Accounted, OnItsWay
  <2> QED
    BY <1>1, <2>1, <2>2 DEF AccountInv, Accounted
<1>2. CASE Take
  <2>1. events # <<>> /\ todo = {} /\ todo' = events[1].cids /\ events' = events
    BY <1>2, <1>0 DEF Take, chain
  <2>2. \A c : ToUnpin(c) => ToUnpin(c)'
    BY <2>1 DEF ToUnpin
  <2>3. TodoOfEvent'
    BY <2>1 DEF TodoOfEvent
  <2> QED
    BY <1>1, <1>2, <2>2, <2>3 DEF Take, upload, chain
<1>3. ASSUME NEW c \in Cids, Query(c) \/ UnpinFile(c)
      PROVE  AccountInv'
  <2>1. c \in todo /\ events # <<>> /\ Len(events) > 0
    BY <1>0, <1>3, ConstantsAssumption DEF Query, UnpinFile, TypeInv, Types
  <2>2. UNCHANGED <<pc, got, msgs, proposal, current>> /\ astray \subseteq astray' /\ pinned' \subseteq pinned
    BY <1>3 DEF Query, UnpinFile, upload
  <2>3. ASSUME NEW rest \in SUBSET todo, todo' = rest, Finished(rest)
        PROVE  /\ TodoOfEvent'
               /\ \A d : ToUnpin(d) => ToUnpin(d)' \/ d \in todo \ rest
    <3>1. CASE rest = {}
      <4>1. events' = Tail(events) /\ todo' = {}
        BY <2>3, <3>1 DEF Finished
      <4>2. /\ DOMAIN events' = 1..(Len(events) - 1)
            /\ \A i \in 1..(Len(events) - 1) : events'[i] = events[i + 1]
        BY <4>1, <1>0, <2>1
      <4>3. ASSUME NEW d, ToUnpin(d), d \notin todo PROVE ToUnpin(d)'
        <5>1. PICK i \in DOMAIN events : i # 1 /\ d \in events[i].cids
          BY <4>3, <2>1 DEF ToUnpin
        <5>2. i - 1 \in DOMAIN events' /\ events'[i - 1] = events[i]
          BY <5>1, <4>2, <1>0
        <5> QED
          BY <5>1, <5>2, <4>1 DEF ToUnpin
      <4> QED
        BY <4>1, <4>3, <3>1 DEF TodoOfEvent
    <3>2. CASE rest # {}
      <4>1. events' = events
        BY <2>3, <3>2 DEF Finished
      <4> QED
        BY <4>1, <2>1, <2>3, <3>2 DEF AccountInv, TodoOfEvent, ToUnpin
    <3> QED
      BY <3>1, <3>2
  <2>4. (todo \ {c}) \in SUBSET todo /\ {} \in SUBSET todo
    OBVIOUS
  <2>5. CASE UNCHANGED <<todo, events>>
    BY <1>1, <2>2, <2>5 DEF AccountInv, TodoOfEvent, ToUnpin
  <2>6. CASE todo' = todo \ {c} /\ Finished(todo \ {c}) /\ (c \notin pinned' \/ c \in astray' \/ c \in Referenced)
    BY <1>1, <2>2, <2>3, <2>4, <2>6
  <2>7. CASE todo' = {} /\ Finished({}) /\ astray' = astray \cup todo
    BY <1>1, <2>2, <2>3, <2>4, <2>7
  <2>8. CASE Query(c)
    BY <2>5, <2>6, <2>7, <2>8, NonzeroCount DEF Query
  <2>9. CASE UnpinFile(c)
    BY <2>6, <2>7, <2>9 DEF UnpinFile
  <2> QED
    BY <1>3, <2>8, <2>9
<1> QED
  BY <1>2, <1>3 DEF Handler

(* A crash: what it takes from the uploads, the queue and the handlers goes *)
(* astray.                                                                  *)
LEMMA CrashAccount ==
    ASSUME TypeInv, AccountInv, Crash
    PROVE  AccountInv'
<1>1. /\ UNCHANGED <<got, proposal, current, pinned>>
      /\ todo' = {} /\ events' = <<>>
  BY DEF Crash
<1>2. PICK lost \in SUBSET msgs :
        /\ msgs' = msgs \ lost
        /\ astray' = astray \cup (UNION {got[u] : u \in lost \cup {v \in Uploads : pc[v] \in {"added", "pinned"}}})
                            \cup (UNION {events[i].cids : i \in DOMAIN events})
  BY DEF Crash
<1>3. OwnContent' /\ TodoOfEvent' /\ Referenced' = Referenced
  BY <1>1 DEF AccountInv, OwnContent, TodoOfEvent, Referenced
<1>4. ASSUME NEW c \in pinned' PROVE c \in Referenced' \/ c \in astray' \/ OnItsWay(c)'
  <2>1. CASE c \in Referenced \/ c \in astray
    BY <2>1, <1>2, <1>3
  <2>2. ASSUME NEW u \in Uploads, c \in got[u], pc[u] \in Pinning \/ u \in msgs
        PROVE  c \in astray' \/ OnItsWay(c)'
    BY <2>2, <1>1, <1>2 DEF OnItsWay, Pinning
  <2>3. ASSUME NEW k \in DOMAIN proposal, proposal[k] # None, c \in got[proposal[k]]
        PROVE  OnItsWay(c)'
    BY <2>3, <1>1 DEF OnItsWay
  <2>4. ASSUME ToUnpin(c)
        PROVE  c \in astray'
    <3>1. \E i \in DOMAIN events : c \in events[i].cids
      BY <2>4 DEF ToUnpin, AccountInv, TodoOfEvent
    <3> QED
      BY <3>1, <1>2
  <2> QED
    BY <1>1, <2>1, <2>2, <2>3, <2>4 DEF AccountInv, Accounted, OnItsWay
<1> QED
  BY <1>3, <1>4 DEF AccountInv, Accounted

LEMMA StepAccount == TypeInv /\ PushInv /\ AccountInv /\ [Next]_vars => AccountInv'
<1> SUFFICES ASSUME TypeInv, PushInv, AccountInv, [Next]_vars PROVE AccountInv'
  OBVIOUS
<1>1. CASE UNCHANGED vars
  BY <1>1 DEF vars, AccountInv, OwnContent, TodoOfEvent, Accounted, OnItsWay, ToUnpin, Referenced
<1> QED
  BY <1>1, UploadAccount, MessageAccount, DecisionAccount, HandlerAccount, CrashAccount DEF Next, Chain

(* PinsAccountedFor: once nothing is under way any more, whatever is pinned *)
(* is referenced by the chain or was hit by one of the faults that astray   *)
(* records: no order of uploads, decisions, expiries, unpinnings and        *)
(* crashes leaves a pin behind without a trace (deleteStorageObject.go:107, *)
(* proposalTimeout.go:107, mergePullRequest.go:464, start.go:287).          *)
THEOREM NothingForgotten == Spec => []PinsAccountedFor
<1>1. Init => PushInv
  BY DEF Init, PushInv, SentOnce, ProposalsIncluded, OwnProposal, Answered, PastCheck
<1>2. Init => AccountInv
  BY LocksTarget DEF Init, AccountInv, OwnContent, TodoOfEvent, Accounted
<1>3. AccountInv => PinsAccountedFor
  BY DEF AccountInv, Accounted, OnItsWay, ToUnpin, PinsAccountedFor, Quiet, Pinning
<1> QED
  BY InitTypes, StepTypes, <1>1, StepPush, <1>2, StepAccount, <1>3, PTL DEF Spec

=============================================================================
