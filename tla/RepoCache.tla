------------------------------ MODULE RepoCache ------------------------------
(***************************************************************************)
(* How a request brings a repository from the chain and IPFS to the local  *)
(* disk (CacheRepository and DownloadRepositoryPackfile in utils/cache.go, *)
(* Server.CacheRepository in internal/app/common.go).  A request locks its *)
(* repository, looks whether the packfile the chain names is on disk,      *)
(* downloads it if not, copies the chain's refs and serves.  A fork has    *)
(* its parent downloaded first, recursively, and borrows its objects       *)
(* through git alternates: the parent is never locked for that.            *)
(*                                                                         *)
(* Packfiles of a repository are numbered in the order they were made.  A  *)
(* packfile holds the repository's own objects up to its number, so commit *)
(* <<r, v>> can be read where packfile v of r, or a later one, is whole    *)
(* and indexed.  One ref stands for all branches and tags.                 *)
(***************************************************************************)
EXTENDS Naturals, Sequences, FiniteSets

CONSTANTS Procs,    \* goroutines that serve requests
          Repos,
          Parent,   \* repository -> the one it is a fork of, or None
          None,
          Modes,    \* sets of the locks requests take, of "r" and "w"
          Callers,  \* which CacheRepository they call: "server", "utils"
          MaxVer,   \* bound on a repository's packfiles
          Faults    \* sets of what may happen, of "query", "fetch", "copy", "evict"

ASSUME ConstantsAssumption ==
    /\ Parent \in [Repos -> Repos \cup {None}] /\ None \notin Repos
    /\ Modes \subseteq SUBSET {"r", "w"}
    /\ Callers \subseteq {"server", "utils"}
    /\ MaxVer \in Nat
    /\ Faults \subseteq SUBSET {"query", "fetch", "copy", "evict"}

VARIABLES
    packfile,  \* chain: repository -> its packfile, 0 if it has none
    tip,       \* chain: repository -> the commit of its ref, or NoRef
    made,      \* repository -> packfiles made so far, here or elsewhere
    dir,       \* repository's directory: "none", "bare", or "bits" (objects only)
    file,      \* repository -> packfile -> "absent", "partial" or "whole"
    idx,       \* repository -> packfiles that have an index
    writer,    \* repository -> packfile -> who created the file last
    alternates,\* repositories whose alternates file names their parent
    ref,       \* repository -> its ref on disk, or NoRef
    condemned, \* cache manager: repositories it found unused and may remove
    robbed,    \* history: repositories removed in use, and not removed unused since
    pc, repo, mode, caller,  \* request: where it is, and what it asks for
    stack,     \* request: the downloads it is in, innermost first
    ver,       \* request: the packfile it is downloading
    want,      \* request: the packfile of its repository it relies on, or 0
    saw,       \* request: the ref it read from the chain
    modes, faults  \* environment: the locks that are taken, and what may happen

chain == <<packfile, tip, made>>
disk == <<dir, file, idx, writer, alternates, ref>>
manager == <<condemned, robbed>>
request == <<repo, mode, caller>>
env == <<modes, faults>>
vars == <<chain, disk, manager, pc, request, stack, ver, want, saw, env>>

Vers == 1..MaxVer
NoRef == <<None, 0>>
Fork(r) == Parent[r] # None

(* A repository and those it is a fork of, directly or not.                 *)
Line[r \in Repos] == {r} \cup IF Fork(r) THEN Line[Parent[r]] ELSE {}

Usable(r, v) == file[r][v] = "whole" /\ v \in idx[r]

(* git finds commit c in repository r: in a packfile of r, or in one of the *)
(* repositories its alternates lead to.                                     *)
HasCommit(r, c) ==
    /\ c # NoRef /\ c[1] \in Line[r]
    /\ \A q \in Line[r] \ Line[c[1]] : q \in alternates
    /\ \E v \in Vers : v >= c[2] /\ Usable(c[1], v)

InUse(r) == \E p \in Procs : pc[p] \notin {"idle", "lock"} /\ repo[p] = r

Init ==
    /\ packfile = [r \in Repos |-> 0]
    /\ tip = [r \in Repos |-> NoRef]
    /\ made = [r \in Repos |-> 0]
    /\ dir = [r \in Repos |-> "none"]
    /\ file = [r \in Repos |-> [v \in Vers |-> "absent"]]
    /\ idx = [r \in Repos |-> {}]
    /\ writer = [r \in Repos |-> [v \in Vers |-> None]]
    /\ alternates = {}
    /\ ref = [r \in Repos |-> NoRef]
    /\ condemned = {} /\ robbed = {}
    /\ pc = [p \in Procs |-> "idle"]
    /\ repo \in [Procs -> Repos]
    /\ mode = [p \in Procs |-> "r"]
    /\ caller = [p \in Procs |-> "utils"]
    /\ stack = [p \in Procs |-> <<>>]
    /\ ver = [p \in Procs |-> 0]
    /\ want = [p \in Procs |-> 0]
    /\ saw = [p \in Procs |-> NoRef]
    /\ modes \in Modes /\ faults \in Faults

Goto(p, l) == pc' = [pc EXCEPT ![p] = l]

----------------------------------------------------------------------------
(* The chain, and storage providers elsewhere.                              *)

PushElsewhere(r) ==
    /\ made[r] < MaxVer
    /\ made' = [made EXCEPT ![r] = @ + 1]
    /\ UNCHANGED <<packfile, tip, disk, manager, pc, request, stack, ver, want, saw>>

(* A packfile proposal is approved.                                         *)
Approve(r) ==
    /\ \E v \in packfile[r] + 1 .. made[r] : packfile' = [packfile EXCEPT ![r] = v]
    /\ UNCHANGED <<tip, made, disk, manager, pc, request, stack, ver, want, saw>>

(* A branch is set or deleted.                                              *)
SetBranch(r) ==
    /\ \E c \in {NoRef} \cup {d \in Line[r] \X Vers : d[2] <= made[d[1]]} :
         c # tip[r] /\ tip' = [tip EXCEPT ![r] = c]
    /\ UNCHANGED <<packfile, made, disk, manager, pc, request, stack, ver, want, saw>>

Chain == \E r \in Repos : PushElsewhere(r) \/ Approve(r) \/ SetBranch(r)

----------------------------------------------------------------------------
(* A repository's directory is removed: by the cache manager, which looks   *)
(* at the lock of that repository only, and removes what it found unused at *)
(* any time later, or leaves it; or by cleanupRepoDir, under the lock.      *)

Removed(r) ==
    /\ dir' = [dir EXCEPT ![r] = "none"]
    /\ file' = [file EXCEPT ![r] = [v \in Vers |-> "absent"]]
    /\ idx' = [idx EXCEPT ![r] = {}]
    /\ alternates' = alternates \ {r}
    /\ ref' = [ref EXCEPT ![r] = NoRef]
    /\ UNCHANGED writer

Condemn(r) ==
    /\ "evict" \in faults /\ dir[r] # "none" /\ ~InUse(r)
    /\ condemned' = condemned \cup {r}
    /\ UNCHANGED <<chain, disk, robbed, pc, request, stack, ver, want, saw>>

Evict(r) ==
    /\ r \in condemned
    /\ condemned' = condemned \ {r}
    /\ Removed(r)
    /\ robbed' = IF InUse(r) THEN robbed \cup {r} ELSE robbed \ {r}
    /\ UNCHANGED <<chain, pc, request, stack, ver, want, saw>>

Spare(r) ==
    /\ r \in condemned
    /\ condemned' = condemned \ {r}
    /\ UNCHANGED <<chain, disk, robbed, pc, request, stack, ver, want, saw>>

CacheManager == \E r \in Repos : Condemn(r) \/ Evict(r) \/ Spare(r)

----------------------------------------------------------------------------
(* A request.                                                               *)

(* A smart-HTTP request makes the directory before it takes the lock        *)
(* (ServeHTTP, initRepo); the others do not.                                *)
Arrive(p, r, m, cl) ==
    /\ pc[p] = "idle"
    /\ repo' = [repo EXCEPT ![p] = r]
    /\ mode' = [mode EXCEPT ![p] = m]
    /\ caller' = [caller EXCEPT ![p] = cl]
    /\ dir' = IF m = "w" /\ cl = "server" /\ dir[r] = "none"
              THEN [dir EXCEPT ![r] = "bare"] ELSE dir
    /\ Goto(p, "lock")
    /\ UNCHANGED <<chain, file, idx, writer, alternates, ref, stack, ver, want, saw>>

(* LockRepository, RLockRepository: RefCountedRWMutex while nothing has     *)
(* been removed from its table.                                             *)
Acquire(p) ==
    /\ pc[p] = "lock"
    /\ \A q \in Procs :
         pc[q] \notin {"idle", "lock"} /\ repo[q] = repo[p] => mode[p] = "r" /\ mode[q] = "r"
    /\ Goto(p, "check")
    /\ UNCHANGED <<chain, disk, request, stack, ver, want, saw>>

(* The request ends, served or with an error, and unlocks.                  *)
Ends(p) ==
    /\ pc' = [pc EXCEPT ![p] = "idle"]
    /\ stack' = [stack EXCEPT ![p] = <<>>]
    /\ ver' = [ver EXCEPT ![p] = 0]
    /\ want' = [want EXCEPT ![p] = 0]
    /\ saw' = [saw EXCEPT ![p] = NoRef]

(* os.Stat of the packfile the chain names: any file of that name counts.   *)
BugDirectoryIsEnough(r) == packfile[r] # 0 /\ dir[r] # "none"

Cached(r) == packfile[r] # 0 /\ file[r][packfile[r]] # "absent"

(* Whether to download: utils.CacheRepository does whenever the packfile is *)
(* not there, Server.CacheRepository only if there is one or for a fork.    *)
BugForkForgotten(p) ==
    /\ ~Cached(repo[p])
    /\ caller[p] = "server" => packfile[repo[p]] # 0

MustDownload(p) ==
    /\ ~Cached(repo[p])
    /\ caller[p] = "server" => packfile[repo[p]] # 0 \/ Fork(repo[p])

Check(p) ==
    /\ pc[p] = "check"
    /\ \/ /\ "query" \in faults /\ Ends(p)
       \/ /\ want' = [want EXCEPT ![p] = packfile[repo[p]]]
          /\ IF MustDownload(p)
             THEN stack' = [stack EXCEPT ![p] = <<repo[p]>>] /\ Goto(p, "init")
             ELSE Goto(p, "refs") /\ UNCHANGED stack
          /\ UNCHANGED <<ver, saw>>
    /\ UNCHANGED <<chain, disk, request>>

(* DownloadRepositoryPackfile asks the chain for the repository, and does   *)
(* git init --bare unless there is an objects directory.                    *)
InitRepo(p) ==
    /\ pc[p] = "init"
    /\ LET r == Head(stack[p])
       IN \/ /\ dir' = IF dir[r] = "none" THEN [dir EXCEPT ![r] = "bare"] ELSE dir
             /\ Goto(p, IF Fork(r) THEN "parent" ELSE "fetch")
             /\ UNCHANGED <<stack, ver, want, saw>>
          \/ "query" \in faults /\ Ends(p) /\ UNCHANGED dir
    /\ UNCHANGED <<chain, file, idx, writer, alternates, ref, request>>

(* The parent first.                                                        *)
DownloadParent(p) ==
    /\ pc[p] = "parent"
    /\ LET q == Parent[Head(stack[p])]
       IN \/ Cached(q) /\ Goto(p, "link") /\ UNCHANGED <<stack, ver, want, saw>>
          \/ /\ ~Cached(q)
             /\ Goto(p, "init") /\ stack' = [stack EXCEPT ![p] = <<q>> \o @]
             /\ UNCHANGED <<ver, want, saw>>
          \/ "query" \in faults /\ Ends(p)
    /\ UNCHANGED <<chain, disk, request>>

(* The alternates file, which cannot be written where no git init was.      *)
Link(p) ==
    /\ pc[p] = "link"
    /\ LET r == Head(stack[p])
       IN \/ /\ r \in alternates \/ dir[r] = "bare"
             /\ alternates' = alternates \cup {r}
             /\ Goto(p, "fetch")
             /\ UNCHANGED <<stack, ver, want, saw>>
          \/ /\ r \notin alternates /\ dir[r] # "bare"
             /\ Ends(p)
             /\ UNCHANGED alternates
    /\ UNCHANGED <<chain, dir, file, idx, writer, ref, request>>

(* A download is over: back to the fork it was for, or to CacheRepository.  *)
Return(p) ==
    /\ stack' = [stack EXCEPT ![p] = Tail(@)]
    /\ Goto(p, IF Len(stack[p]) = 1 THEN "refs" ELSE "link")

(* The chain is asked for the packfile again; downloadPackfile gets it from *)
(* IPFS and creates, or truncates, the file at its final path.              *)
Fetch(p) ==
    /\ pc[p] = "fetch"
    /\ LET r == Head(stack[p])
           v == packfile[r]
       IN \/ /\ v = 0
             /\ Return(p)
             /\ UNCHANGED <<dir, file, writer, ver, want, saw>>
          \/ /\ v # 0
             /\ dir' = IF dir[r] = "none" THEN [dir EXCEPT ![r] = "bits"] ELSE dir
             /\ file' = [file EXCEPT ![r][v] = "partial"]
             /\ writer' = [writer EXCEPT ![r][v] = p]
             /\ ver' = [ver EXCEPT ![p] = v]
             /\ want' = IF r = repo[p] THEN [want EXCEPT ![p] = v] ELSE want
             /\ Goto(p, "copy")
             /\ UNCHANGED <<stack, saw>>
          \/ /\ faults \cap {"query", "fetch"} # {}
             /\ Ends(p)
             /\ UNCHANGED <<dir, file, writer>>
    /\ UNCHANGED <<chain, idx, alternates, ref, request>>

(* io.Copy: the file is whole once the request that truncated it last has   *)
(* written everything.  A copy that fails leaves the file as it is.         *)
Copy(p) ==
    /\ pc[p] = "copy"
    /\ LET r == Head(stack[p])
           v == ver[p]
       IN \/ /\ file' = IF writer[r][v] = p /\ file[r][v] = "partial"
                        THEN [file EXCEPT ![r][v] = "whole"] ELSE file
             /\ Goto(p, "index")
             /\ UNCHANGED <<stack, ver, want, saw>>
          \/ "copy" \in faults /\ Ends(p) /\ UNCHANGED file
    /\ UNCHANGED <<chain, dir, idx, writer, alternates, ref, request>>

(* git index-pack, which needs a whole file.                                *)
IndexPack(p) ==
    /\ pc[p] = "index"
    /\ LET r == Head(stack[p])
           v == ver[p]
       IN IF file[r][v] = "whole"
          THEN /\ idx' = [idx EXCEPT ![r] = @ \cup {v}]
               /\ Return(p)
               /\ UNCHANGED <<ver, want, saw>>
          ELSE Ends(p) /\ UNCHANGED idx
    /\ UNCHANGED <<chain, dir, file, writer, alternates, ref, request>>

(* SyncRepositoryRefs: read the branches and tags ...                       *)
QueryRefs(p) ==
    /\ pc[p] = "refs"
    /\ \/ saw' = [saw EXCEPT ![p] = tip[repo[p]]] /\ Goto(p, "sync") /\ UNCHANGED <<stack, ver, want>>
       \/ "query" \in faults /\ Ends(p)
    /\ UNCHANGED <<chain, disk, request>>

(* ... and update the refs whose commit is there, in one git update-ref or, *)
(* when that fails, one by one; the others are logged.  No ref is deleted.  *)
(* Server.CacheRepository then gets the LFS objects, or fails.              *)
BugSyncOnlyNew(p) ==
    /\ pc[p] = "sync"
    /\ ref' = IF dir[repo[p]] = "bare" /\ ref[repo[p]] = NoRef /\ HasCommit(repo[p], saw[p])
              THEN [ref EXCEPT ![repo[p]] = saw[p]] ELSE ref
    /\ Goto(p, "use")
    /\ UNCHANGED <<chain, dir, file, idx, writer, alternates, request, stack, ver, want, saw>>

SyncRefs(p) ==
    /\ pc[p] = "sync"
    /\ ref' = IF dir[repo[p]] = "bare" /\ HasCommit(repo[p], saw[p])
              THEN [ref EXCEPT ![repo[p]] = saw[p]] ELSE ref
    /\ \/ Goto(p, "use") /\ UNCHANGED <<stack, ver, want, saw>>
       \/ caller[p] = "server" /\ faults \cap {"query", "fetch"} # {} /\ Ends(p)
    /\ UNCHANGED <<chain, dir, file, idx, writer, alternates, request>>

(* git receive-pack, or a merge's push from its quarantine repository, and  *)
(* git gc: a new packfile takes the place of those git knows, and the ref   *)
(* moves.  A merge that fails after that leaves the directory as it is.     *)
Push(p) ==
    /\ pc[p] = "use" /\ mode[p] = "w"
    /\ LET r == repo[p]
           v == made[r] + 1
       IN /\ dir[r] = "bare" /\ v <= MaxVer
          /\ \A w \in idx[r] : file[r][w] = "whole"
          /\ made' = [made EXCEPT ![r] = v]
          /\ file' = [file EXCEPT ![r] = [w \in Vers |-> IF w = v THEN "whole"
                                                         ELSE IF w \in idx[r] THEN "absent"
                                                         ELSE @[w]]]
          /\ idx' = [idx EXCEPT ![r] = {v}]
          /\ ref' = [ref EXCEPT ![r] = <<r, v>>]
          /\ want' = [want EXCEPT ![p] = v]
          /\ saw' = [saw EXCEPT ![p] = <<r, v>>]
    /\ UNCHANGED <<packfile, tip, dir, writer, alternates, pc, request, stack, ver>>

(* handleGitReceivePack fails, or the owner cannot pay for a merge: the     *)
(* directory is removed, still under the lock.                              *)
Drop(p) ==
    /\ pc[p] = "use" /\ mode[p] = "w"
    /\ Removed(repo[p])
    /\ robbed' = robbed \ {repo[p]}
    /\ Ends(p)
    /\ UNCHANGED <<chain, condemned, request>>

Release(p) ==
    /\ pc[p] = "use"
    /\ Ends(p)
    /\ UNCHANGED <<chain, disk, request>>

CacheRepository(p) ==
    \/ Check(p) \/ InitRepo(p) \/ DownloadParent(p) \/ Link(p) \/ Fetch(p) \/ Copy(p)
    \/ IndexPack(p) \/ QueryRefs(p) \/ SyncRefs(p)

Request(p) ==
    \/ /\ \/ \E r \in Repos, m \in modes, cl \in Callers : Arrive(p, r, m, cl)
          \/ Acquire(p) \/ CacheRepository(p) \/ Push(p) \/ Release(p)
       /\ UNCHANGED manager
    \/ Drop(p)

Next ==
    /\ \/ Chain
       \/ CacheManager
       \/ \E p \in Procs : Request(p)
    /\ UNCHANGED env

Spec == Init /\ [][Next]_vars

----------------------------------------------------------------------------
PCs == {"idle", "lock", "check", "init", "parent", "link", "fetch", "copy", "index",
        "refs", "sync", "use"}

(* The state has the shape the code gives it, and a request is inside a     *)
(* download exactly between the check and the refs.                         *)
TypeOK ==
    /\ packfile \in [Repos -> 0..MaxVer] /\ made \in [Repos -> 0..MaxVer]
    /\ \A r \in Repos : packfile[r] <= made[r]
    /\ dir \in [Repos -> {"none", "bare", "bits"}]
    /\ file \in [Repos -> [Vers -> {"absent", "partial", "whole"}]]
    /\ idx \in [Repos -> SUBSET Vers]
    /\ alternates \subseteq Repos
    /\ condemned \subseteq Repos /\ robbed \subseteq Repos
    /\ pc \in [Procs -> PCs]
    /\ \A p \in Procs :
         /\ stack[p] # <<>> <=> pc[p] \in {"init", "parent", "link", "fetch", "copy", "index"}
         /\ pc[p] \in {"copy", "index"} => ver[p] \in Vers
         /\ stack[p] # <<>> => stack[p][Len(stack[p])] = repo[p]

Leaf(r) == \A q \in Repos : Parent[q] # r

(* Nothing is about to be, or was, removed in the gap between the cache     *)
(* manager's test and its removal.                                          *)
Undisturbed(r) == r \notin condemned \cup robbed

(* utils.CacheRepository and Server.CacheRepository: when every request     *)
(* takes the write lock and no copy breaks off, a repository that nothing   *)
(* is a fork of has its packfile whole and indexed for as long as a request *)
(* uses it, whatever is downloaded, pushed and approved around it and       *)
(* whatever was evicted before; except one that the cache manager found     *)
(* unused (cache_manager.go:153, 218) and has not done with, and one that   *)
(* it removed in use (:169, :252), until that is next removed unused.       *)
LeafIsComplete ==
    modes = {"w"} /\ "copy" \notin faults =>
        \A p \in Procs :
            pc[p] = "use" /\ want[p] # 0 /\ Leaf(repo[p]) /\ Undisturbed(repo[p])
            => Usable(repo[p], want[p])

(* DownloadRepositoryPackfile and the two CacheRepository: a fork that is   *)
(* used is linked to its parent, whichever function ran, however many       *)
(* requests asked for it at once and whatever was evicted or dropped before *)
(* (a fork that is itself forked can be downloaded without its lock, and    *)
(* lose the link to an eviction that comes in between); with the same       *)
(* exception, since a fork robbed of its directory during its download gets *)
(* its packfile without the link, and later requests find it cached.        *)
ForkIsLinked ==
    \A p \in Procs :
        pc[p] = "use" /\ Fork(repo[p]) /\ Leaf(repo[p]) /\ Undisturbed(repo[p])
        => repo[p] \in alternates

(* SyncRepositoryRefs: under the write lock a request serves the ref it     *)
(* read from the chain, or the commit it pushed itself, if that is a commit *)
(* of its own repository and git has it; readers that sync the same         *)
(* repository before and after do not get in between.                       *)
ServesChainRef ==
    \A p \in Procs :
        /\ pc[p] = "use" /\ mode[p] = "w" /\ dir[repo[p]] = "bare"
        /\ Leaf(repo[p]) /\ saw[p][1] = repo[p] /\ HasCommit(repo[p], saw[p])
        => ref[repo[p]] = saw[p]

(* Refuted: "CacheRepository caches a repository by downloading its         *)
(* packfile and syncing its refs" (cache.go:306).  A request that finds the *)
(* file another one is still writing goes on without it.                    *)
CachedIsComplete ==
    \A p \in Procs : pc[p] = "use" /\ want[p] # 0 => Usable(repo[p], want[p])
=============================================================================
