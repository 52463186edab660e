----------------------------- MODULE ObjectFiles -----------------------------
(***************************************************************************)
(* The files of release attachments and LFS objects, and the table of      *)
(* uploads that no release has claimed yet (internal/app/handler/          *)
(* attachment.go, route/lfs, lfs/storage.go, and the second half of        *)
(* utils/cache.go).  A file is named after its content and has a lock,     *)
(* which the requests that upload or download it take.  The table has      *)
(* none, and neither the clean-up of expired uploads takes the file's nor  *)
(* the event handlers, which pin an attachment from its path, and download *)
(* it there for the external copy.                                         *)
(*                                                                         *)
(* Files are created at their final path and filled afterwards.  A request *)
(* works on one file for one user, and the goroutines keep theirs from one *)
(* request to the next: what they do to different files only meets in the  *)
(* table, which all of them clean.                                         *)
(***************************************************************************)
EXTENDS Naturals, FiniteSets

CONSTANTS Procs,     \* goroutines that serve requests and events
          Users,     \* addresses that upload
          Assets,    \* attachments, by their sha
          Objects,   \* LFS objects, by their oid
          None,
          Expiry,    \* PENDING_UPLOAD_EXPIRY
          MaxNow,    \* bound on the clock
          Faults     \* what may happen: "fetch", "copy", "evict", "crash"

Keys == Assets \cup Objects
Tokens == Users \X Assets   \* generateUploadToken(address, sha)

ASSUME ConstantsAssumption ==
    /\ Assets \cap Objects = {} /\ None \notin Procs \cup Tokens
    /\ Expiry \in Nat \ {0} /\ MaxNow \in Nat
    /\ Faults \subseteq {"fetch", "copy", "evict", "crash"}

VARIABLES
    file,      \* key -> "absent", "partial" or "whole"
    maker,     \* key -> who created, or truncated, the file last
    pinned,    \* key -> what IPFS and the chain have: "none", "partial" or "whole"
    released,  \* attachments of a release on the chain
    pending,   \* pendingUploads: token -> when it expires, 0 if there is none
    now,       \* the clock
    key, user, \* process -> the file it is about, the address it acts for
    pc, op,    \* process -> where it is, and in which handler
    todo, cur, \* process -> the tokens its clean-up has to visit, and is at
    spoilt,    \* history: files a fault hit since they were created
    promised,  \* history: token -> until when its uploader may rely on it
    offered    \* history: processes whose object has not changed since it was offered

files == <<file, maker, pinned, released>>
proc == <<key, user>>
local == <<pc, op, todo, cur>>
vars == <<files, pending, now, proc, local, spoilt, promised, offered>>

Writer(p) == op[p] \in {"put", "upload", "cache"}
Locked(p) == op[p] # "event" /\ pc[p] \in {"stat", "create", "copy", "store", "pin", "serve"}

(* IsAssetInUse, IsLFSObjectInUse: waiters count.                           *)
InUse(k) == \E p \in Procs : key[p] = k /\ (pc[p] = "lock" \/ Locked(p))
Writing(k) == \E p \in Procs : key[p] = k /\ pc[p] = "copy"

Init ==
    /\ file = [k \in Keys |-> "absent"]
    /\ maker = [k \in Keys |-> None]
    /\ pinned = [k \in Keys |-> "none"]
    /\ released = {}
    /\ pending = [t \in Tokens |-> 0]
    /\ now = 0
    /\ key \in [Procs -> Keys]
    /\ user \in [Procs -> Users]
    /\ pc = [p \in Procs |-> "idle"]
    /\ op = [p \in Procs |-> "none"]
    /\ todo = [p \in Procs |-> {}]
    /\ cur = [p \in Procs |-> None]
    /\ spoilt = {}
    /\ promised = [t \in Tokens |-> 0]
    /\ offered = {}

Goto(p, l) == pc' = [pc EXCEPT ![p] = l]

Ends(p) ==
    /\ pc' = [pc EXCEPT ![p] = "idle"]
    /\ op' = [op EXCEPT ![p] = "none"]
    /\ offered' = offered \ {p}

(* The file of k is changed under those it was offered to.                  *)
Changes(k) == offered' = {q \in offered : key[q] # k}

----------------------------------------------------------------------------
(* A request arrives: an upload of an attachment, whose first act is to     *)
(* visit the table, its download, an upload or a download of an LFS object, *)
(* or a push or fetch that caches the objects of its repository; or the     *)
(* event of a release, whose handler calls CacheReleaseAsset without the    *)
(* lock (releaseAssetsUpdated.go:188).  Requests that fail a check change   *)
(* nothing.                                                                 *)
Begin(p, o) ==
    /\ pc[p] = "idle"
    /\ \/ o = "put" /\ key[p] \in Assets /\ Goto(p, "clean")
       \/ o = "get" /\ key[p] \in released /\ pinned[key[p]] # "none" /\ Goto(p, "lock")
       \/ o = "event" /\ key[p] \in released /\ pinned[key[p]] # "none" /\ Goto(p, "stat")
       \/ o = "upload" /\ key[p] \in Objects /\ Goto(p, "lock")
       \/ o = "download" /\ key[p] \in Objects /\ Goto(p, "batch")
       \/ o = "cache" /\ key[p] \in Objects /\ pinned[key[p]] # "none" /\ Goto(p, "look")
    /\ op' = [op EXCEPT ![p] = o]
    /\ todo' = [todo EXCEPT ![p] = IF o = "put" THEN {t \in Tokens : pending[t] # 0} ELSE {}]
    /\ UNCHANGED <<files, pending, now, proc, cur, spoilt, promised, offered>>

(* cleanupExpiredUploads: an expired upload's file goes unless another      *)
(* upload needs it, and then its token.                                     *)
BugOwnUploadsOnly(t) ==
    \E u \in Tokens : u # t /\ u[1] = t[1] /\ u[2] = t[2] /\ now < pending[u]

isFileReferencedByOtherUploads(t) ==
    \E u \in Tokens : u # t /\ u[2] = t[2] /\ now < pending[u]

CleanCheck(p, t) ==
    /\ pc[p] = "clean" /\ t \in todo[p]
    /\ todo' = [todo EXCEPT ![p] = @ \ {t}]
    /\ IF pending[t] # 0 /\ now > pending[t]
       THEN /\ cur' = [cur EXCEPT ![p] = t]
            /\ Goto(p, IF isFileReferencedByOtherUploads(t) THEN "delete" ELSE "remove")
       ELSE UNCHANGED <<cur, pc>>
    /\ UNCHANGED <<files, pending, now, proc, op, spoilt, promised, offered>>

CleanRemove(p) ==
    /\ pc[p] = "remove"
    /\ LET k == cur[p][2]
       IN /\ file' = [file EXCEPT ![k] = "absent"]
          /\ spoilt' = IF \E q \in Procs : key[q] = k /\ pc[q] \in {"copy", "store"}
                       THEN spoilt \cup {k} ELSE spoilt
    /\ Goto(p, "delete")
    /\ UNCHANGED <<maker, pinned, released, pending, now, proc, op, todo, cur, promised, offered>>

CleanDelete(p) ==
    /\ pc[p] = "delete"
    /\ pending' = [pending EXCEPT ![cur[p]] = 0]
    /\ cur' = [cur EXCEPT ![p] = None]
    /\ Goto(p, "clean")
    /\ UNCHANGED <<files, now, proc, op, todo, spoilt, promised, offered>>

(* The chain is queried; an edit of a release takes the user's uploads that *)
(* the release already has out of the table.  The charge may be too high    *)
(* for the balance (StorageQuota).                                          *)
Confirm(p) ==
    /\ pc[p] = "clean" /\ todo[p] = {}
    /\ \E C \in {{}, {<<user[p], s>> : s \in released}} :
         /\ pending' = [t \in Tokens |-> IF t \in C THEN 0 ELSE pending[t]]
         /\ promised' = [t \in Tokens |-> IF t \in C THEN 0 ELSE promised[t]]
    /\ \/ Goto(p, "lock") /\ UNCHANGED <<op, offered>>
       \/ Ends(p)
    /\ UNCHANGED <<files, now, proc, todo, cur, spoilt>>

(* LockAsset, LockLFSObject and their read counterparts.                    *)
Acquire(p) ==
    /\ pc[p] = "lock"
    /\ \A q \in Procs : Locked(q) /\ key[q] = key[p] => ~Writer(p) /\ ~Writer(q)
    /\ Goto(p, CASE op[p] \in {"put", "upload"} -> "create"
                 [] op[p] \in {"get", "cache"} -> "stat"
                 [] op[p] = "download" -> "serve")
    /\ UNCHANGED <<files, pending, now, proc, op, todo, cur, spoilt, promised, offered>>

(* IsReleaseAssetCached and the second check of DownloadLFSObject; what is  *)
(* not there is asked of IPFS.                                              *)
Stat(p) ==
    /\ pc[p] = "stat"
    /\ \/ file[key[p]] # "absent" /\ op[p] = "get" /\ Goto(p, "serve") /\ UNCHANGED <<op, offered>>
       \/ file[key[p]] # "absent" /\ op[p] \in {"cache", "event"} /\ Ends(p)
       \/ file[key[p]] = "absent" /\ Goto(p, "create") /\ UNCHANGED <<op, offered>>
       \/ file[key[p]] = "absent" /\ "fetch" \in Faults /\ Ends(p)
    /\ UNCHANGED <<files, pending, now, proc, todo, cur, spoilt, promised>>

(* os.Create.  LocalStorage.Upload removes the file on every error.         *)
Create(p) ==
    /\ pc[p] = "create"
    /\ LET k == key[p]
       IN \/ /\ file' = [file EXCEPT ![k] = "partial"]
             /\ maker' = [maker EXCEPT ![k] = p]
             /\ spoilt' = spoilt \ {k}
             /\ Goto(p, "copy") /\ Changes(k) /\ UNCHANGED op
          \/ /\ "copy" \in Faults
             /\ file' = IF op[p] = "upload" THEN [file EXCEPT ![k] = "absent"] ELSE file
             /\ pc' = [pc EXCEPT ![p] = "idle"] /\ op' = [op EXCEPT ![p] = "none"] /\ Changes(k)
             /\ UNCHANGED <<maker, spoilt>>
    /\ UNCHANGED <<pinned, released, pending, now, proc, todo, cur, promised>>

(* io.Copy ends.  The file is whole once the request that truncated it last *)
(* has written everything, unless IPFS has only half of it.                 *)
CopyAll(p) ==
    /\ pc[p] = "copy"
    /\ LET k == key[p]
           half == op[p] \in {"get", "event", "cache"} /\ pinned[k] = "partial"
       IN /\ file' = IF maker[k] = p /\ file[k] = "partial" /\ ~half
                     THEN [file EXCEPT ![k] = "whole"] ELSE file
          /\ spoilt' = IF half THEN spoilt \cup {k} ELSE spoilt
    /\ \/ op[p] = "put" /\ Goto(p, "store") /\ UNCHANGED <<op, offered>>
       \/ op[p] = "get" /\ Goto(p, "serve") /\ UNCHANGED <<op, offered>>
       \/ op[p] = "upload" /\ Goto(p, "pin") /\ UNCHANGED <<op, offered>>
       \/ op[p] \in {"cache", "event"} /\ Ends(p)
    /\ UNCHANGED <<maker, pinned, released, pending, now, proc, todo, cur, promised>>

(* io.Copy breaks off.  The upload of an attachment reports the error and   *)
(* goes on, that of an object removes the file, the others leave it.        *)
BugUploadLeavesFile(p) ==
    /\ pc[p] = "copy" /\ "copy" \in Faults
    /\ spoilt' = IF op[p] # "upload" THEN spoilt \cup {key[p]} ELSE spoilt
    /\ \/ op[p] = "put" /\ Goto(p, "store") /\ UNCHANGED <<op, offered>>
       \/ op[p] # "put" /\ Ends(p)
    /\ UNCHANGED <<files, pending, now, proc, todo, cur, promised>>

CopyBreaks(p) ==
    /\ pc[p] = "copy" /\ "copy" \in Faults
    /\ IF op[p] = "upload"
       THEN file' = [file EXCEPT ![key[p]] = "absent"] /\ UNCHANGED spoilt
       ELSE spoilt' = spoilt \cup {key[p]} /\ UNCHANGED file
    /\ \/ op[p] = "put" /\ Goto(p, "store") /\ UNCHANGED <<op, offered>>
       \/ op[p] # "put" /\ Ends(p)
    /\ UNCHANGED <<maker, pinned, released, pending, now, proc, todo, cur, promised>>

(* storePendingUpload, and the answer.  A clean-up that has already decided *)
(* to remove the file, or to delete the token, is not stopped by it.        *)
Store(p) ==
    /\ pc[p] = "store"
    /\ LET t == <<user[p], key[p]>>
           raced == \E q \in Procs : pc[q] \in {"remove", "delete"} /\ cur[q][2] = key[p]
       IN /\ pending' = [pending EXCEPT ![t] = now + Expiry]
          /\ promised' = [promised EXCEPT ![t] = IF raced THEN 0 ELSE now + Expiry]
    /\ Ends(p)
    /\ UNCHANGED <<files, now, proc, todo, cur, spoilt>>

(* The rest of an upload of an object, under its lock (PinLifecycle); when  *)
(* it fails, the file stays.                                                *)
PinObject(p) ==
    /\ pc[p] = "pin"
    /\ \/ pinned' = [pinned EXCEPT ![key[p]] = file[key[p]]]
       \/ "fetch" \in Faults /\ UNCHANGED pinned
    /\ Ends(p)
    /\ UNCHANGED <<file, maker, released, pending, now, proc, todo, cur, spoilt, promised>>

(* ServeBatchHandler offers an object whose size, read without the lock, is *)
(* the one asked for.                                                       *)
BugOffersAny(p) ==
    /\ pc[p] = "batch"
    /\ \/ file[key[p]] # "absent" /\ Goto(p, "lock") /\ offered' = offered \cup {p} /\ UNCHANGED op
       \/ file[key[p]] = "absent" /\ Ends(p)
    /\ UNCHANGED <<files, pending, now, proc, todo, cur, spoilt, promised>>

Batch(p) ==
    /\ pc[p] = "batch"
    /\ \/ file[key[p]] = "whole" /\ Goto(p, "lock") /\ offered' = offered \cup {p} /\ UNCHANGED op
       \/ file[key[p]] # "whole" /\ Ends(p)
    /\ UNCHANGED <<files, pending, now, proc, todo, cur, spoilt, promised>>

(* IsLFSObjectCached, which unlocks again before DownloadLFSObject locks.   *)
Look(p) ==
    /\ pc[p] = "look"
    /\ \A q \in Procs : Locked(q) /\ key[q] = key[p] => ~Writer(q)
    /\ \/ file[key[p]] # "absent" /\ Ends(p)
       \/ file[key[p]] = "absent" /\ Goto(p, "lock") /\ UNCHANGED <<op, offered>>
    /\ UNCHANGED <<files, pending, now, proc, todo, cur, spoilt, promised>>

(* GetAttachmentHandler and ServeDownloadHandler send the file, and         *)
(* ServeVerifyHandler looks at its size; one that is not there is an error. *)
Serve(p) ==
    /\ pc[p] = "serve"
    /\ Ends(p)
    /\ UNCHANGED <<files, pending, now, proc, todo, cur, spoilt, promised>>

----------------------------------------------------------------------------
(* A release with an uploaded attachment is made on the chain; its handler  *)
(* pins the file, in whatever state it finds it.                            *)
CreateRelease(s) ==
    /\ s \notin released /\ \E u \in Users : pending[<<u, s>>] # 0
    /\ released' = released \cup {s}
    /\ UNCHANGED <<file, maker, pinned, pending, now, proc, local, spoilt, promised, offered>>

PinRelease(s) ==
    /\ s \in released /\ pinned[s] = "none" /\ file[s] # "absent"
    /\ pinned' = [pinned EXCEPT ![s] = file[s]]
    /\ UNCHANGED <<file, maker, released, pending, now, proc, local, spoilt, promised, offered>>

(* The cache manager, see CacheManager for the gap in it.                   *)
Evict(k) ==
    /\ "evict" \in Faults /\ file[k] # "absent" /\ ~InUse(k)
    /\ file' = [file EXCEPT ![k] = "absent"]
    /\ spoilt' = spoilt \cup {k}
    /\ Changes(k)
    /\ UNCHANGED <<maker, pinned, released, pending, now, proc, local, promised>>

(* The process ends and starts again, as it does when the runtime notices   *)
(* concurrent accesses to the table: the table is gone, the files stay.     *)
Restart ==
    /\ "crash" \in Faults
    /\ pending' = [t \in Tokens |-> 0] /\ promised' = [t \in Tokens |-> 0]
    /\ pc' = [p \in Procs |-> "idle"] /\ op' = [p \in Procs |-> "none"]
    /\ todo' = [p \in Procs |-> {}] /\ cur' = [p \in Procs |-> None]
    /\ offered' = {}
    /\ spoilt' = spoilt \cup {k \in Keys : file[k] = "partial"}
    /\ UNCHANGED <<files, now, proc>>

Tick ==
    /\ now < MaxNow /\ now' = now + 1
    /\ UNCHANGED <<files, pending, proc, local, spoilt, promised, offered>>

Request(p) ==
    \/ \E o \in {"put", "get", "event", "upload", "download", "cache"} : Begin(p, o)
    \/ \E t \in Tokens : CleanCheck(p, t)
    \/ CleanRemove(p) \/ CleanDelete(p) \/ Confirm(p) \/ Acquire(p) \/ Stat(p) \/ Create(p)
    \/ CopyAll(p) \/ CopyBreaks(p) \/ Store(p) \/ PinObject(p) \/ Batch(p) \/ Look(p) \/ Serve(p)

Next ==
    \/ \E p \in Procs : Request(p)
    \/ \E s \in Assets : CreateRelease(s) \/ PinRelease(s)
    \/ \E k \in Keys : Evict(k)
    \/ Restart \/ Tick

Spec == Init /\ [][Next]_vars

----------------------------------------------------------------------------
(* The state has the shape the code gives it, and a request that may write  *)
(* a file has it alone among the requests.                                  *)
TypeOK ==
    /\ file \in [Keys -> {"absent", "partial", "whole"}]
    /\ pinned \in [Keys -> {"none", "partial", "whole"}]
    /\ released \subseteq Assets /\ spoilt \subseteq Keys /\ offered \subseteq Procs
    /\ pending \in [Tokens -> 0..MaxNow + Expiry]
    /\ \A p \in Procs :
         /\ pc[p] = "idle" <=> op[p] = "none"
         /\ pc[p] \in {"remove", "delete"} <=> cur[p] # None
    /\ \A p, q \in Procs :
         Locked(p) /\ Locked(q) /\ key[p] = key[q] /\ Writer(p) => p = q

(* A file that is only partly there is being written, or a fault hit it: no *)
(* sequence of uploads, downloads, clean-ups and restarts leaves a half     *)
(* file otherwise (attachment.go:304, storage.go:62, cache.go:703, 784).    *)
HalfFileIsExcused ==
    \A k \in Keys : file[k] = "partial" => Writing(k) \/ k \in spoilt

(* ServeBatchHandler reads the size without the lock, ServeDownloadHandler  *)
(* serves later under it: an object that was offered, and that nobody       *)
(* evicted or uploaded again in between, is whole when it is served.        *)
OfferedIsServed ==
    \A p \in Procs : pc[p] = "serve" /\ p \in offered => file[key[p]] = "whole"

(* An upload that was answered is in the table with its file, whole, until  *)
(* it expires or is confirmed, whichever expired uploads, of its own        *)
(* content too, others clean up and whoever uploads the same again          *)
(* (attachment.go:447), unless a clean-up had it in its hands when it was   *)
(* stored or a fault hit the file.                                          *)
UploadIsKept ==
    \A t \in Tokens : now < promised[t] =>
        /\ pending[t] = promised[t]
        /\ file[t[2]] = "whole" \/ Writing(t[2]) \/ t[2] \in spoilt
=============================================================================
