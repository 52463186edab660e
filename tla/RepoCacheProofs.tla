--------------------------- MODULE RepoCacheProofs ---------------------------
(***************************************************************************)
(* What a request may rely on while it uses a repository that nothing is a *)
(* fork of, for any number of requests, repositories, forks of forks and   *)
(* packfiles, and whatever fails or is evicted.                            *)
(***************************************************************************)
EXTENDS RepoCache, TLAPS

-----------------------------------------------------------------------------
(***************************************************************************)
(* The inductive invariant, in parts.                                      *)
(***************************************************************************)
Down == {"init", "parent", "link", "fetch", "copy", "index"}
Loaded == {"refs", "sync", "use"}
Holds(p) == pc[p] \notin {"idle", "lock"}
Own(p) == Len(stack[p]) = 1

Types ==
    /\ packfile \in [Repos -> 0..MaxVer] /\ made \in [Repos -> 0..MaxVer]
    /\ \A r \in Repos : packfile[r] <= made[r]
    /\ DOMAIN tip = Repos
    /\ dir \in [Repos -> {"none", "bare", "bits"}]
    /\ file \in [Repos -> [Vers -> {"absent", "partial", "whole"}]]
    /\ idx \in [Repos -> SUBSET Vers]
    /\ writer \in [Repos -> [Vers -> Procs \cup {None}]]
    /\ alternates \subseteq Repos
    /\ DOMAIN ref = Repos

ManagerTypes == condemned \subseteq Repos /\ robbed \subseteq Repos

RequestTypes ==
    /\ pc \in [Procs -> PCs]
    /\ repo \in [Procs -> Repos]
    /\ mode \in [Procs -> {"r", "w"}]
    /\ caller \in [Procs -> {"server", "utils"}]
    /\ stack \in [Procs -> Seq(Repos)]
    /\ ver \in [Procs -> 0..MaxVer]
    /\ want \in [Procs -> 0..MaxVer]
    /\ DOMAIN saw = Procs
    /\ modes \subseteq {"r", "w"}

(* The downloads of a request end at its own repository; each other one is  *)
(* of the parent of the next.                                               *)
Stacks ==
    \A p \in Procs :
        /\ stack[p] # <<>> <=> pc[p] \in Down
        /\ pc[p] \in {"copy", "index"} => ver[p] \in Vers
        /\ pc[p] \in Down =>
             /\ stack[p][Len(stack[p])] = repo[p]
             /\ \A i \in 1..Len(stack[p]) :
                  i < Len(stack[p]) => stack[p][i] = Parent[stack[p][i + 1]]
        /\ pc[p] = "parent" => Fork(Head(stack[p]))

(* A lock held for writing excludes all others.                             *)
Excluded ==
    \A p, q \in Procs :
        p # q /\ Holds(p) /\ Holds(q) /\ repo[p] = repo[q] => mode[p] = "r"

ModeTaken == \A p \in Procs : pc[p] # "idle" => mode[p] \in modes

(* Where there is no directory there are no files.                          *)
NoneIsEmpty ==
    \A r \in Repos : dir[r] = "none" => \A v \in Vers : file[r][v] = "absent"

(* A request that waits for a packfile knows one of the chain's.            *)
WantKnown ==
    \A p \in Procs : pc[p] \in Down /\ want[p] # 0 => packfile[repo[p]] # 0

(* A fork has no packfile before it is linked, and none that it keeps after *)
(* it has lost the link; unless it was removed in use.                      *)
Clean(r) == Leaf(r) /\ r \notin robbed

Linked(r) == Fork(r) /\ Clean(r) => r \in alternates

LinkedFiles ==
    \A r \in Repos : (\E v \in Vers : file[r][v] # "absent") => Linked(r)

LinkedUsers ==
    \A p \in Procs :
        pc[p] \in Loaded \/ (pc[p] \in {"fetch", "copy", "index"} /\ Own(p)) => Linked(repo[p])

(* With write locks only, and copies that end: what is on disk is whole, or *)
(* in the hands of the one request that has the lock.                       *)
Careful == modes = {"w"} /\ "copy" \notin faults

Loading(p, r, v) == repo[p] = r /\ pc[p] \in {"copy", "index"} /\ Own(p) /\ ver[p] = v

WholeFiles ==
    \A r \in Repos, v \in Vers :
        Clean(r) /\ file[r][v] # "absent" => Usable(r, v) \/ \E p \in Procs : Loading(p, r, v)

WholeUsers ==
    \A p \in Procs : Clean(repo[p]) =>
        /\ pc[p] = "copy" /\ Own(p) =>
             file[repo[p]][ver[p]] = "partial" /\ writer[repo[p]][ver[p]] = p /\ want[p] = ver[p]
        /\ pc[p] = "index" /\ Own(p) => file[repo[p]][ver[p]] = "whole" /\ want[p] = ver[p]
        /\ pc[p] \in Loaded /\ want[p] # 0 => Usable(repo[p], want[p])

Base == Types /\ ManagerTypes /\ RequestTypes /\ Stacks /\ Excluded /\ ModeTaken /\ NoneIsEmpty /\ WantKnown
LinkInv == LinkedFiles /\ LinkedUsers
WholeInv == Careful => WholeFiles /\ WholeUsers
Inv == Base /\ LinkInv /\ WholeInv /\ ServesChainRef

-----------------------------------------------------------------------------
(* The innermost download of a request.                                     *)
LEMMA Innermost ==
    ASSUME RequestTypes, Stacks, NEW p \in Procs, pc[p] \in Down
    PROVE  /\ Len(stack[p]) \in Nat /\ Len(stack[p]) >= 1 /\ Head(stack[p]) \in Repos
           /\ Own(p) => Head(stack[p]) = repo[p]
           /\ ~Own(p) => ~Leaf(Head(stack[p]))
           /\ Leaf(Head(stack[p])) => Own(p)
<1>1. stack[p] \in Seq(Repos) /\ stack[p] # <<>>
  BY DEF RequestTypes, Stacks
<1>2. Len(stack[p]) \in Nat /\ Len(stack[p]) >= 1 /\ Head(stack[p]) = stack[p][1]
      /\ Head(stack[p]) \in Repos
  BY <1>1
<1>3. stack[p][Len(stack[p])] = repo[p]
      /\ \A i \in 1..Len(stack[p]) : i < Len(stack[p]) => stack[p][i] = Parent[stack[p][i + 1]]
  BY DEF Stacks
<1>4. ~Own(p) => 1 \in 1..Len(stack[p]) /\ 1 < Len(stack[p]) /\ stack[p][2] \in Repos
  <2> SUFFICES ASSUME Len(stack[p]) # 1
               PROVE  1 < Len(stack[p]) /\ stack[p][2] \in Repos
    BY <1>2 DEF Own
  <2> DEFINE n == Len(stack[p])
  <2>1. n \in Nat /\ n >= 1 /\ n # 1
    BY <1>2
  <2> HIDE DEF n
  <2>2. 1 < n /\ 2 \in 1..n
    BY <2>1
  <2>3. stack[p][2] \in Repos
    BY <1>1, <2>2 DEF n
  <2> QED BY <2>2, <2>3 DEF n
<1>5. Own(p) => Head(stack[p]) = repo[p]
  BY <1>2, <1>3 DEF Own
<1>6. ~Own(p) => ~Leaf(Head(stack[p]))
  BY <1>2, <1>3, <1>4 DEF Leaf
<1> QED BY <1>2, <1>5, <1>6

(* What a request does to itself only.                                      *)
OthersStay(p) ==
    \A q \in Procs : q # p =>
        /\ pc'[q] = pc[q] /\ repo'[q] = repo[q] /\ mode'[q] = mode[q] /\ stack'[q] = stack[q]
        /\ ver'[q] = ver[q] /\ want'[q] = want[q] /\ saw'[q] = saw[q]

LEMMA EndsIdle ==
    ASSUME RequestTypes, NEW p \in Procs, Ends(p), UNCHANGED request, modes' = modes
    PROVE  RequestTypes' /\ OthersStay(p) /\ pc'[p] = "idle" /\ stack'[p] = <<>>
<1>1. pc' \in [Procs -> PCs]
  BY DEF RequestTypes, Ends, PCs
<1>2. stack' \in [Procs -> Seq(Repos)] /\ stack'[p] = <<>>
  BY DEF RequestTypes, Ends
<1>3. ver' \in [Procs -> 0..MaxVer] /\ want' \in [Procs -> 0..MaxVer]
  BY ConstantsAssumption DEF RequestTypes, Ends
<1>4. RequestTypes'
  BY <1>1, <1>2, <1>3 DEF RequestTypes, Ends, request
<1> QED BY <1>2, <1>4 DEF RequestTypes, Ends, request, OthersStay

(* The types of the requests, action by action.                             *)
LEMMA RequestTypesStep ==
    ASSUME Types, RequestTypes, Stacks, NEW p \in Procs, Request(p), modes' = modes
    PROVE  RequestTypes' /\ OthersStay(p)
<1> USE DEF RequestTypes, OthersStay, Goto, PCs
<1>1. ASSUME NEW r \in Repos, NEW m \in modes, NEW cl \in Callers, Arrive(p, r, m, cl)
      PROVE  RequestTypes' /\ OthersStay(p)
  BY <1>1, ConstantsAssumption DEF Arrive
<1>2. CASE Acquire(p)
  BY <1>2 DEF Acquire, request
<1>3. CASE Check(p)
  <2>1. CASE Ends(p)
    BY <1>3, <2>1, EndsIdle DEF Check
  <2>2. CASE /\ want' = [want EXCEPT ![p] = packfile[repo[p]]]
             /\ IF MustDownload(p)
                THEN stack' = [stack EXCEPT ![p] = <<repo[p]>>] /\ Goto(p, "init")
                ELSE Goto(p, "refs") /\ UNCHANGED stack
             /\ UNCHANGED <<ver, saw>>
    <3>1. packfile[repo[p]] \in 0..MaxVer /\ <<repo[p]>> \in Seq(Repos)
      BY DEF Types
    <3>2. CASE stack' = [stack EXCEPT ![p] = <<repo[p]>>] /\ Goto(p, "init")
      BY <1>3, <2>2, <3>1, <3>2 DEF Check, request
    <3>3. CASE Goto(p, "refs") /\ UNCHANGED stack
      BY <1>3, <2>2, <3>1, <3>3 DEF Check, request
    <3> QED BY <2>2, <3>2, <3>3
  <2> QED BY <1>3, <2>1, <2>2 DEF Check
<1>4. CASE InitRepo(p)
  <2>1. CASE Ends(p)
    BY <1>4, <2>1, EndsIdle DEF InitRepo
  <2>2. CASE /\ Goto(p, IF Fork(Head(stack[p])) THEN "parent" ELSE "fetch")
             /\ UNCHANGED <<stack, ver, want, saw>>
    BY <1>4, <2>2 DEF InitRepo, request
  <2> QED BY <1>4, <2>1, <2>2 DEF InitRepo
<1>5. CASE DownloadParent(p)
  <2>1. Head(stack[p]) \in Repos /\ stack[p] \in Seq(Repos)
    BY <1>5, Innermost DEF DownloadParent, Down
  <2> DEFINE q == Parent[Head(stack[p])]
  <2>2. q \in Repos
    BY <1>5, <2>1, ConstantsAssumption DEF DownloadParent, Stacks, Fork
  <2>3. <<q>> \o stack[p] \in Seq(Repos)
    BY <2>1, <2>2
  <2> DEFINE s == <<q>> \o stack[p]
  <2>4. /\ s \in Seq(Repos) /\ UNCHANGED <<repo, mode, caller>>
        /\ \/ Goto(p, "link") /\ UNCHANGED <<stack, ver, want, saw>>
           \/ Goto(p, "init") /\ stack' = [stack EXCEPT ![p] = s] /\ UNCHANGED <<ver, want, saw>>
           \/ Ends(p)
    BY <1>5, <2>3 DEF DownloadParent, request
  <2> HIDE DEF s
  <2>5. CASE Goto(p, "link") /\ UNCHANGED <<stack, ver, want, saw>>
    BY <2>4, <2>5
  <2>6. CASE Goto(p, "init") /\ stack' = [stack EXCEPT ![p] = s] /\ UNCHANGED <<ver, want, saw>>
    BY <2>4, <2>6
  <2>7. CASE Ends(p)
    BY <2>4, <2>7, EndsIdle DEF request
  <2> QED BY <2>4, <2>5, <2>6, <2>7
<1>6. CASE Link(p)
  <2>1. CASE Ends(p)
    BY <1>6, <2>1, EndsIdle DEF Link
  <2>2. CASE Goto(p, "fetch") /\ UNCHANGED <<stack, ver, want, saw>>
    BY <1>6, <2>2 DEF Link, request
  <2> QED BY <1>6, <2>1, <2>2 DEF Link
<1>7. ASSUME pc[p] \in Down, Return(p), UNCHANGED <<request, ver, want, saw>>
      PROVE  RequestTypes' /\ OthersStay(p)
  <2>1. stack[p] \in Seq(Repos) /\ stack[p] # <<>>
    BY <1>7 DEF Stacks
  <2>2. Tail(stack[p]) \in Seq(Repos)
    BY <2>1
  <2> QED BY <1>7, <2>2 DEF Return, request
<1>8. CASE Fetch(p)
  <2>1. pc[p] \in Down /\ UNCHANGED request
    BY <1>8 DEF Fetch, Down
  <2>2. CASE Ends(p)
    BY <2>1, <2>2, EndsIdle
  <2>3. CASE Return(p) /\ UNCHANGED <<ver, want, saw>>
    BY <1>7, <2>1, <2>3
  <2>4. ASSUME NEW r, r = Head(stack[p]),
               ver' = [ver EXCEPT ![p] = packfile[r]],
               want' = IF r = repo[p] THEN [want EXCEPT ![p] = packfile[r]] ELSE want,
               Goto(p, "copy"), UNCHANGED <<stack, saw>>
        PROVE  RequestTypes' /\ OthersStay(p)
    <3>1. r \in Repos
      BY <2>1, <2>4, Innermost
    <3>2. packfile[r] \in 0..MaxVer
      BY <3>1 DEF Types
    <3> QED BY <2>1, <2>4, <3>2 DEF request
  <2> QED BY <1>8, <2>2, <2>3, <2>4 DEF Fetch
<1>9. CASE Copy(p)
  <2>1. CASE Ends(p)
    BY <1>9, <2>1, EndsIdle DEF Copy
  <2>2. CASE Goto(p, "index") /\ UNCHANGED <<stack, ver, want, saw>>
    BY <1>9, <2>2 DEF Copy, request
  <2> QED BY <1>9, <2>1, <2>2 DEF Copy
<1>10. CASE IndexPack(p)
  <2>1. pc[p] \in Down /\ UNCHANGED request
    BY <1>10 DEF IndexPack, Down
  <2>2. CASE Ends(p)
    BY <2>1, <2>2, EndsIdle
  <2>3. CASE Return(p) /\ UNCHANGED <<ver, want, saw>>
    BY <1>7, <2>1, <2>3
  <2> QED BY <1>10, <2>2, <2>3 DEF IndexPack
<1>11. CASE QueryRefs(p)
  <2>1. CASE Ends(p)
    BY <1>11, <2>1, EndsIdle DEF QueryRefs
  <2>2. CASE saw' = [saw EXCEPT ![p] = tip[repo[p]]] /\ Goto(p, "sync") /\ UNCHANGED <<stack, ver, want>>
    BY <1>11, <2>2 DEF QueryRefs, request
  <2> QED BY <1>11, <2>1, <2>2 DEF QueryRefs
<1>12. CASE SyncRefs(p)
  <2>1. CASE Ends(p)
    BY <1>12, <2>1, EndsIdle DEF SyncRefs
  <2>2. CASE Goto(p, "use") /\ UNCHANGED <<stack, ver, want, saw>>
    BY <1>12, <2>2 DEF SyncRefs, request
  <2> QED BY <1>12, <2>1, <2>2 DEF SyncRefs
<1>13. CASE Push(p)
  <2>1. made[repo[p]] + 1 \in 0..MaxVer
    BY <1>13 DEF Push, Types
  <2> QED BY <1>13, <2>1 DEF Push, request
<1>14. CASE Drop(p) \/ Release(p)
  BY <1>14, EndsIdle DEF Drop, Release
<1> QED BY <1>1, <1>2, <1>3, <1>4, <1>5, <1>6, <1>8, <1>9, <1>10, <1>11, <1>12, <1>13, <1>14
        DEF Request, CacheRepository

(* The types of the chain and the disk, action by action.                   *)
LEMMA RemovedTypes ==
    ASSUME Types, NEW r \in Repos, Removed(r), UNCHANGED chain
    PROVE  /\ Types'
           /\ file'[r] = [v \in Vers |-> "absent"]
           /\ \A q \in Repos : q # r =>
                /\ dir'[q] = dir[q] /\ file'[q] = file[q] /\ idx'[q] = idx[q]
                /\ (q \in alternates' <=> q \in alternates) /\ ref'[q] = ref[q]
           /\ writer' = writer
BY DEF Types, Removed, chain

LEMMA TypesStep ==
    ASSUME Types, RequestTypes, Stacks, NEW p \in Procs, Request(p)
    PROVE  Types'
<1>1. ASSUME UNCHANGED <<chain, disk>>
      PROVE  Types'
  BY <1>1 DEF Types, chain, disk
<1>2. ASSUME NEW r \in Repos, NEW m, NEW cl, Arrive(p, r, m, cl)
      PROVE  Types'
  BY <1>2 DEF Types, Arrive, chain
<1>3. CASE Acquire(p) \/ Check(p) \/ DownloadParent(p) \/ QueryRefs(p) \/ Release(p)
  BY <1>1, <1>3 DEF Acquire, Check, DownloadParent, QueryRefs, Release
<1>4. ASSUME pc[p] \in Down
      PROVE  Head(stack[p]) \in Repos
  BY <1>4, Innermost
<1>5. CASE InitRepo(p)
  BY <1>4, <1>5 DEF Types, InitRepo, chain, Down
<1>6. CASE Link(p)
  BY <1>4, <1>6 DEF Types, Link, chain, Down
<1>7. CASE Fetch(p)
  <2> DEFINE r == Head(stack[p])
             v == packfile[r]
  <2>1. r \in Repos
    BY <1>4, <1>7 DEF Fetch, Down
  <2>2. CASE UNCHANGED <<dir, file, writer>>
    BY <1>7, <2>2 DEF Types, Fetch, chain
  <2>3. CASE /\ v # 0
             /\ dir' = IF dir[r] = "none" THEN [dir EXCEPT ![r] = "bits"] ELSE dir
             /\ file' = [file EXCEPT ![r][v] = "partial"]
             /\ writer' = [writer EXCEPT ![r][v] = p]
    <3>1. v \in Vers
      BY <2>1, <2>3, ConstantsAssumption DEF Types, Vers
    <3> HIDE DEF r, v
    <3>2. file' \in [Repos -> [Vers -> {"absent", "partial", "whole"}]]
      BY <2>1, <2>3, <3>1 DEF Types
    <3>3. writer' \in [Repos -> [Vers -> Procs \cup {None}]]
      BY <2>1, <2>3, <3>1 DEF Types
    <3>4. dir' \in [Repos -> {"none", "bare", "bits"}]
      BY <2>1, <2>3 DEF Types
    <3> QED BY <1>7, <3>2, <3>3, <3>4 DEF Types, Fetch, chain
  <2> QED BY <1>7, <2>2, <2>3 DEF Fetch
<1>8. CASE Copy(p)
  <2>1. Head(stack[p]) \in Repos /\ ver[p] \in Vers
    BY <1>4, <1>8 DEF Copy, Stacks, Down
  <2>2. file' = file \/ file' = [file EXCEPT ![Head(stack[p])][ver[p]] = "whole"]
    BY <1>8 DEF Copy
  <2>3. file' \in [Repos -> [Vers -> {"absent", "partial", "whole"}]]
    <3> DEFINE r == Head(stack[p])
               v == ver[p]
    <3>1. r \in Repos /\ v \in Vers /\ (file' = file \/ file' = [file EXCEPT ![r][v] = "whole"])
      BY <2>1, <2>2
    <3> HIDE DEF r, v
    <3>2. CASE file' = file
      BY <3>2 DEF Types
    <3>3. CASE file' = [file EXCEPT ![r][v] = "whole"]
      BY <3>1, <3>3 DEF Types
    <3> QED BY <3>1, <3>2, <3>3
  <2> QED BY <1>8, <2>3 DEF Types, Copy, chain
<1>9. CASE IndexPack(p)
  <2>1. Head(stack[p]) \in Repos /\ ver[p] \in Vers
    BY <1>4, <1>9 DEF IndexPack, Stacks, Down
  <2>2. idx' = idx \/ idx' = [idx EXCEPT ![Head(stack[p])] = @ \cup {ver[p]}]
    BY <1>9 DEF IndexPack
  <2>3. idx' \in [Repos -> SUBSET Vers]
    BY <2>1, <2>2 DEF Types
  <2> QED BY <1>9, <2>3 DEF Types, IndexPack, chain
<1>10. CASE SyncRefs(p)
  BY <1>10 DEF Types, SyncRefs, chain, RequestTypes
<1>11. CASE Push(p)
  <2> DEFINE r == repo[p]
             v == made[r] + 1
  <2>1. r \in Repos /\ v \in Vers
    BY <1>11, ConstantsAssumption DEF Push, Types, RequestTypes, Vers
  <2>2. /\ made' = [made EXCEPT ![r] = v]
        /\ file' = [file EXCEPT ![r] = [w \in Vers |-> IF w = v THEN "whole"
                                                       ELSE IF w \in idx[r] THEN "absent"
                                                       ELSE @[w]]]
        /\ idx' = [idx EXCEPT ![r] = {v}]
        /\ ref' = [ref EXCEPT ![r] = <<r, v>>]
        /\ UNCHANGED <<packfile, tip, dir, writer, alternates>>
    BY <1>11 DEF Push
  <2>3. packfile[r] <= v /\ v \in 0..MaxVer
    BY <2>1, ConstantsAssumption DEF Types, Vers
  <2> HIDE DEF r, v
  <2>4. file' \in [Repos -> [Vers -> {"absent", "partial", "whole"}]]
    BY <2>1, <2>2 DEF Types
  <2>5. made' \in [Repos -> 0..MaxVer] /\ \A q \in Repos : packfile'[q] <= made'[q]
    BY <2>1, <2>2, <2>3 DEF Types
  <2>6. idx' \in [Repos -> SUBSET Vers]
    BY <2>1, <2>2 DEF Types
  <2> QED BY <2>2, <2>4, <2>5, <2>6 DEF Types
<1>12. CASE Drop(p)
  BY <1>12, RemovedTypes DEF Drop, RequestTypes
<1> QED BY <1>2, <1>3, <1>5, <1>6, <1>7, <1>8, <1>9, <1>10, <1>11, <1>12
        DEF Request, CacheRepository

LEMMA ChainTypes ==
    ASSUME Types, Chain
    PROVE  /\ Types' /\ UNCHANGED <<disk, manager, pc, request, stack, ver, want, saw>>
           /\ \A r \in Repos : packfile[r] # 0 => packfile'[r] # 0
<1>1. ASSUME NEW r \in Repos, PushElsewhere(r)
      PROVE  Types' /\ packfile' = packfile
  BY <1>1, ConstantsAssumption DEF Types, PushElsewhere, disk
<1>2. ASSUME NEW r \in Repos, Approve(r)
      PROVE  Types' /\ \A q \in Repos : packfile[q] # 0 => packfile'[q] # 0
  <2>1. PICK v \in packfile[r] + 1 .. made[r] : packfile' = [packfile EXCEPT ![r] = v]
    BY <1>2 DEF Approve
  <2>2. v \in 0..MaxVer /\ v # 0 /\ v <= made[r]
    BY <2>1, ConstantsAssumption DEF Types
  <2> QED BY <1>2, <2>1, <2>2 DEF Types, Approve, disk
<1>3. ASSUME NEW r \in Repos, SetBranch(r)
      PROVE  Types' /\ packfile' = packfile
  BY <1>3 DEF Types, SetBranch, disk
<1>4. UNCHANGED <<disk, manager, pc, request, stack, ver, want, saw>>
  BY DEF Chain, PushElsewhere, Approve, SetBranch
<1> QED BY <1>1, <1>2, <1>3, <1>4 DEF Chain

(* The downloads of a request.                                              *)
LEMMA StacksStep ==
    ASSUME Types, RequestTypes, Stacks, NEW p \in Procs, Request(p), RequestTypes', OthersStay(p)
    PROVE  Stacks'
<1> DEFINE Good(q) ==
      /\ stack'[q] # <<>> <=> pc'[q] \in Down
      /\ pc'[q] \in {"copy", "index"} => ver'[q] \in Vers
      /\ pc'[q] \in Down =>
           /\ stack'[q][Len(stack'[q])] = repo'[q]
           /\ \A i \in 1..Len(stack'[q]) :
                i < Len(stack'[q]) => stack'[q][i] = Parent[stack'[q][i + 1]]
      /\ pc'[q] = "parent" => Fork(Head(stack'[q]))
<1>1. ASSUME NEW q \in Procs, q # p
      PROVE  Good(q)
  BY <1>1 DEF OthersStay, Stacks
<1>2. SUFFICES Good(p)
  BY <1>1 DEF Stacks
<1>3. ASSUME pc'[p] = "idle", stack'[p] = <<>>
      PROVE  Good(p)
  BY <1>3 DEF Down
<1>4. ASSUME Ends(p)
      PROVE  Good(p)
  BY <1>3, <1>4 DEF Ends, RequestTypes
<1>5. ASSUME NEW r \in Repos, NEW m, NEW cl, Arrive(p, r, m, cl)
      PROVE  Good(p)
  BY <1>5 DEF Arrive, Goto, Stacks, RequestTypes, Down
<1>6. CASE Acquire(p) \/ QueryRefs(p) \/ SyncRefs(p)
  <2>1. CASE Ends(p)
    BY <1>4, <2>1
  <2>2. CASE ~Ends(p)
    BY <1>6, <2>2 DEF Acquire, QueryRefs, SyncRefs, Goto, Stacks, RequestTypes, Down
  <2> QED BY <2>1, <2>2
<1>7. CASE Check(p)
  <2>1. CASE Ends(p)
    BY <1>4, <2>1
  <2>2. CASE Goto(p, "refs") /\ UNCHANGED stack
    BY <1>7, <2>2 DEF Check, Goto, Stacks, RequestTypes, Down
  <2>3. CASE stack' = [stack EXCEPT ![p] = <<repo[p]>>] /\ Goto(p, "init")
    <3>1. stack'[p] = <<repo[p]>> /\ pc'[p] = "init" /\ repo'[p] = repo[p]
      BY <1>7, <2>3 DEF Check, Goto, RequestTypes, request
    <3> QED BY <3>1 DEF Down
  <2> QED BY <1>7, <2>1, <2>2, <2>3 DEF Check
<1>8. ASSUME pc[p] \in Down, pc'[p] \in Down, stack'[p] = stack[p], repo'[p] = repo[p],
             pc'[p] \in {"copy", "index"} => ver'[p] \in Vers,
             pc'[p] = "parent" => Fork(Head(stack[p]))
      PROVE  Good(p)
  BY <1>8 DEF Stacks
<1>9. CASE InitRepo(p)
  <2>1. CASE Ends(p)
    BY <1>4, <2>1
  <2>2. CASE ~Ends(p)
    <3>1. /\ pc[p] = "init" /\ stack' = stack /\ repo' = repo
          /\ pc' = [pc EXCEPT ![p] = IF Fork(Head(stack[p])) THEN "parent" ELSE "fetch"]
      BY <1>9, <2>2 DEF InitRepo, Goto, request
    <3> QED BY <1>8, <3>1 DEF RequestTypes, Down
  <2> QED BY <2>1, <2>2
<1>10. CASE DownloadParent(p)
  <2> DEFINE s == stack[p]
             q == Parent[Head(s)]
  <2>1. pc[p] = "parent" /\ repo'[p] = repo[p]
    BY <1>10 DEF DownloadParent, request
  <2>2. CASE stack' = stack /\ Goto(p, "link")
    BY <1>8, <2>1, <2>2 DEF Goto, RequestTypes, Down
  <2>3. CASE Goto(p, "init") /\ stack' = [stack EXCEPT ![p] = <<q>> \o @]
    <3>1. stack'[p] = <<q>> \o s /\ pc'[p] = "init"
      BY <2>3 DEF Goto, RequestTypes
    <3>2. s \in Seq(Repos) /\ s # <<>> /\ q \in Repos
      BY <2>1, Innermost, ConstantsAssumption DEF RequestTypes, Stacks, Fork, Down
    <3>3. /\ s[Len(s)] = repo[p]
          /\ \A i \in 1..Len(s) : i < Len(s) => s[i] = Parent[s[i + 1]]
      BY <2>1 DEF Stacks, Down
    <3> DEFINE t == <<q>> \o s
    <3> HIDE DEF s
    <3>4. /\ t \in Seq(Repos) /\ Len(t) = Len(s) + 1 /\ t # <<>> /\ Len(s) >= 1 /\ Len(s) \in Nat
          /\ t[1] = q /\ \A i \in 1..Len(s) : t[i + 1] = s[i]
      BY <3>2
    <3>5. s[1] = Head(s)
      BY <3>2
    <3> HIDE DEF t
    <3>6. t[Len(t)] = repo[p]
      BY <3>3, <3>4
    <3>7. ASSUME NEW i \in 1..Len(t), i < Len(t)
          PROVE  t[i] = Parent[t[i + 1]]
      <4>1. CASE i = 1
        <5>1. t[2] = s[1]
          BY <3>4
        <5> QED BY <3>4, <3>5, <4>1, <5>1
      <4>2. CASE i # 1
        <5>1. i - 1 \in 1..Len(s) /\ i - 1 < Len(s) /\ i \in 1..Len(s)
          BY <3>4, <3>7, <4>2
        <5>2. t[(i - 1) + 1] = s[i - 1] /\ t[i + 1] = s[i] /\ s[i - 1] = Parent[s[(i - 1) + 1]]
          BY <3>3, <3>4, <5>1
        <5>3. (i - 1) + 1 = i
          BY <3>7
        <5> QED BY <5>2, <5>3
      <4> QED BY <4>1, <4>2
    <3> QED BY <2>1, <3>1, <3>4, <3>6, <3>7 DEF t, Down
  <2>4. CASE Ends(p)
    BY <1>4, <2>4
  <2> QED BY <1>10, <2>2, <2>3, <2>4 DEF DownloadParent
<1>11. CASE Link(p)
  <2>1. CASE Ends(p)
    BY <1>4, <2>1
  <2>2. CASE Goto(p, "fetch") /\ stack' = stack
    BY <1>8, <1>11, <2>2 DEF Link, Goto, request, RequestTypes, Down
  <2> QED BY <1>11, <2>1, <2>2 DEF Link
<1>12. ASSUME pc[p] \in Down, Return(p), repo'[p] = repo[p]
       PROVE  Good(p)
  <2> DEFINE s == stack[p]
  <2>1. stack'[p] = Tail(s) /\ pc'[p] = IF Len(s) = 1 THEN "refs" ELSE "link"
    BY <1>12 DEF Return, Goto, RequestTypes
  <2>2. s \in Seq(Repos) /\ s # <<>> /\ Len(s) \in Nat /\ Len(s) >= 1
    BY <1>12, Innermost DEF RequestTypes, Stacks
  <2>3. /\ s[Len(s)] = repo[p]
        /\ \A i \in 1..Len(s) : i < Len(s) => s[i] = Parent[s[i + 1]]
    BY <1>12 DEF Stacks
  <2> DEFINE t == Tail(s)
             n == Len(s)
  <2> HIDE DEF s
  <2>4. Len(t) = n - 1 /\ \A i \in 1..(n - 1) : t[i] = s[i + 1]
    BY <2>2
  <2>5. t \in Seq(Repos) /\ (n = 1 => t = <<>>) /\ (n # 1 => t # <<>>)
    <3>1. t \in Seq(Repos)
      BY <2>2
    <3>2. n = 1 => t = <<>>
      <4>1. n = 1 => Len(t) = 0
        BY <2>4
      <4> HIDE DEF t, n
      <4> QED BY <3>1, <4>1
    <3>3. n # 1 => t # <<>>
      <4>1. n # 1 => Len(t) # 0
        <5>1. n \in Nat /\ n >= 1 /\ Len(t) = n - 1
          BY <2>2, <2>4
        <5> HIDE DEF t, n
        <5> QED BY <5>1
      <4> HIDE DEF t, n
      <4> QED BY <4>1
    <3> QED BY <3>1, <3>2, <3>3
  <2>6. CASE n = 1
    BY <2>1, <2>5, <2>6 DEF Down
  <2>7. CASE n # 1
    <3> HIDE DEF t
    <3>0. n \in Nat /\ n >= 1
      BY <2>2
    <3>1. t[Len(t)] = repo[p]
      <4> HIDE DEF n
      <4>1. n - 1 \in 1..(n - 1) /\ (n - 1) + 1 = n
        BY <3>0, <2>7
      <4>2. t[n - 1] = s[n]
        BY <2>4, <4>1
      <4> QED BY <2>3, <2>4, <4>2 DEF n
    <3>2. ASSUME NEW i \in 1..Len(t), i < Len(t)
          PROVE  t[i] = Parent[t[i + 1]]
      <4> HIDE DEF n
      <4>1. i \in 1..(n - 1) /\ i + 1 \in 1..(n - 1) /\ i + 1 \in 1..n /\ i + 1 < n
        BY <3>0, <2>4, <3>2
      <4>2. t[i] = s[i + 1] /\ t[i + 1] = s[(i + 1) + 1]
        BY <2>4, <4>1
      <4>3. s[i + 1] = Parent[s[(i + 1) + 1]]
        BY <2>3, <4>1 DEF n
      <4> QED BY <4>2, <4>3
    <3> QED BY <1>12, <2>1, <2>5, <2>7, <3>1, <3>2 DEF Down, t, n
  <2> QED BY <2>6, <2>7
<1>13. CASE Fetch(p)
  <2>1. pc[p] \in Down /\ repo'[p] = repo[p]
    BY <1>13 DEF Fetch, request, Down
  <2>2. CASE Ends(p)
    BY <1>4, <2>2
  <2>3. CASE Return(p)
    BY <1>12, <2>1, <2>3
  <2>4. CASE packfile[Head(stack[p])] # 0 /\ Goto(p, "copy") /\ stack' = stack
             /\ ver' = [ver EXCEPT ![p] = packfile[Head(stack[p])]]
    <3>1. packfile[Head(stack[p])] \in Vers
      BY <2>1, <2>4, Innermost, ConstantsAssumption DEF Types, Vers
    <3> QED BY <1>8, <2>1, <2>4, <3>1 DEF Goto, RequestTypes, Down
  <2> QED BY <1>13, <2>2, <2>3, <2>4 DEF Fetch
<1>14. CASE Copy(p)
  <2>1. CASE Ends(p)
    BY <1>4, <2>1
  <2>2. CASE Goto(p, "index") /\ UNCHANGED <<stack, ver>>
    BY <1>8, <1>14, <2>2 DEF Copy, Goto, request, RequestTypes, Stacks, Down
  <2> QED BY <1>14, <2>1, <2>2 DEF Copy
<1>15. CASE IndexPack(p)
  <2>1. pc[p] \in Down /\ repo'[p] = repo[p]
    BY <1>15 DEF IndexPack, request, Down
  <2> QED BY <1>4, <1>12, <1>15, <2>1 DEF IndexPack
<1>16. CASE Push(p)
  BY <1>16 DEF Push, Stacks, Down
<1>17. CASE Drop(p) \/ Release(p)
  BY <1>4, <1>17 DEF Drop, Release
<1> QED BY <1>5, <1>6, <1>7, <1>9, <1>10, <1>11, <1>13, <1>14, <1>15, <1>16, <1>17
        DEF Request, CacheRepository

(* A request locks before it does anything else.                            *)
LEMMA LocksStep ==
    ASSUME RequestTypes, Excluded, ModeTaken, NEW p \in Procs, Request(p), OthersStay(p), RequestTypes',
           modes' = modes
    PROVE  Excluded' /\ ModeTaken'
<1>1. ASSUME NEW r \in Repos, NEW m \in modes, NEW cl \in Callers, Arrive(p, r, m, cl)
      PROVE  Excluded' /\ ModeTaken'
  <2>1. pc'[p] = "lock" /\ mode'[p] = m
    BY <1>1 DEF Arrive, Goto, RequestTypes
  <2> QED BY <2>1 DEF OthersStay, Excluded, ModeTaken, Holds
<1>2. CASE Acquire(p)
  <2>1. /\ pc[p] = "lock" /\ UNCHANGED request
        /\ \A q \in Procs : Holds(q) /\ repo[q] = repo[p] => mode[p] = "r" /\ mode[q] = "r"
    BY <1>2 DEF Acquire, Holds
  <2>2. Excluded'
    BY <2>1 DEF OthersStay, Excluded, Holds, request
  <2>3. ModeTaken'
    BY <2>1 DEF OthersStay, ModeTaken, request
  <2> QED BY <2>2, <2>3
<1>3. ASSUME Holds(p), UNCHANGED request
      PROVE  Excluded' /\ ModeTaken'
  BY <1>3 DEF OthersStay, Excluded, ModeTaken, Holds, request
<1>4. CASE CacheRepository(p) \/ Push(p) \/ Drop(p) \/ Release(p)
  BY <1>3, <1>4 DEF CacheRepository, Check, InitRepo, DownloadParent, Link, Fetch, Copy, IndexPack,
                    QueryRefs, SyncRefs, Push, Drop, Release, Holds
<1> QED BY <1>1, <1>2, <1>4 DEF Request

LEMMA WantStep ==
    ASSUME Types, RequestTypes, Stacks, WantKnown, NEW p \in Procs, Request(p), OthersStay(p), RequestTypes'
    PROVE  WantKnown'
<1>0. packfile' = packfile
  BY DEF Request, Arrive, Acquire, CacheRepository, Check, InitRepo, DownloadParent, Link, Fetch,
         Copy, IndexPack, QueryRefs, SyncRefs, Push, Drop, Release, chain
<1> DEFINE Good == pc'[p] \in Down /\ want'[p] # 0 => packfile'[repo'[p]] # 0
<1>1. SUFFICES Good
  BY <1>0 DEF WantKnown, OthersStay
<1>2. ASSUME Ends(p)
      PROVE  Good
  BY <1>2 DEF Ends, RequestTypes, Down
<1>3. ASSUME pc[p] \in Down, want' = want, UNCHANGED request
      PROVE  Good
  BY <1>0, <1>3 DEF WantKnown, request
<1>4. ASSUME pc'[p] \notin Down
      PROVE  Good
  BY <1>4
<1>5. ASSUME NEW r \in Repos, NEW m, NEW cl, Arrive(p, r, m, cl)
      PROVE  Good
  BY <1>4, <1>5 DEF Arrive, Goto, RequestTypes, Down
<1>6. CASE Acquire(p) \/ QueryRefs(p) \/ SyncRefs(p) \/ Push(p)
  BY <1>2, <1>4, <1>6 DEF Acquire, QueryRefs, SyncRefs, Push, Goto, RequestTypes, Down
<1>7. CASE Drop(p) \/ Release(p)
  BY <1>2, <1>7 DEF Drop, Release
<1>8. CASE Check(p)
  <2>1. CASE want' = [want EXCEPT ![p] = packfile[repo[p]]]
    BY <1>0, <1>8, <2>1 DEF Check, request, RequestTypes
  <2> QED BY <1>2, <1>8, <2>1 DEF Check
<1>9. CASE InitRepo(p) \/ DownloadParent(p) \/ Link(p) \/ Copy(p) \/ IndexPack(p)
  BY <1>2, <1>3, <1>9 DEF InitRepo, DownloadParent, Link, Copy, IndexPack, Down
<1>10. CASE Fetch(p)
  <2>1. pc[p] \in Down /\ UNCHANGED request
    BY <1>10 DEF Fetch, Down
  <2>2. CASE want' = want
    BY <1>3, <2>1, <2>2
  <2>3. CASE /\ packfile[Head(stack[p])] # 0 /\ Head(stack[p]) = repo[p]
             /\ want' = [want EXCEPT ![p] = packfile[Head(stack[p])]]
    BY <1>0, <2>1, <2>3 DEF request
  <2> QED BY <1>2, <1>10, <2>2, <2>3 DEF Fetch
<1> QED BY <1>5, <1>6, <1>7, <1>8, <1>9, <1>10 DEF Request, CacheRepository

-----------------------------------------------------------------------------
(* A repository that nothing is a fork of is left alone by every request    *)
(* that does not have its lock, but for its empty directory.                *)
Same(r) ==
    /\ file'[r] = file[r] /\ idx'[r] = idx[r] /\ writer'[r] = writer[r] /\ ref'[r] = ref[r]
    /\ r \in alternates' <=> r \in alternates
    /\ dir'[r] = dir[r] \/ dir[r] = "none"

LEMMA OthersKeepOut ==
    ASSUME Types, RequestTypes, Stacks, NEW p \in Procs, Request(p),
           NEW r \in Repos, Leaf(r), ~(Holds(p) /\ repo[p] = r)
    PROVE  Same(r)
<1>1. ASSUME UNCHANGED disk
      PROVE  Same(r)
  BY <1>1 DEF Same, disk
<1>2. ASSUME pc[p] \in Down
      PROVE  Head(stack[p]) \in Repos /\ Head(stack[p]) # r
  BY <1>2, Innermost DEF Holds, Down
<1>3. ASSUME NEW q \in Repos, NEW m, NEW cl, Arrive(p, q, m, cl)
      PROVE  Same(r)
  BY <1>3 DEF Arrive, Same, Types
<1>4. CASE Acquire(p) \/ Check(p) \/ DownloadParent(p) \/ QueryRefs(p) \/ Release(p)
  BY <1>1, <1>4 DEF Acquire, Check, DownloadParent, QueryRefs, Release
<1>5. CASE InitRepo(p)
  BY <1>2, <1>5 DEF InitRepo, Same, Types, Down
<1>6. CASE Link(p)
  BY <1>2, <1>6 DEF Link, Same, Types, Down
<1>7. CASE Fetch(p)
  BY <1>2, <1>7 DEF Fetch, Same, Types, Down
<1>8. CASE Copy(p)
  BY <1>2, <1>8 DEF Copy, Same, Types, Down
<1>9. CASE IndexPack(p)
  BY <1>2, <1>9 DEF IndexPack, Same, Types, Down
<1>10. CASE SyncRefs(p)
  BY <1>10 DEF SyncRefs, Same, Types, Holds
<1>11. CASE Push(p)
  BY <1>11 DEF Push, Same, Types, Holds
<1>12. CASE Drop(p)
  BY <1>12, RemovedTypes DEF Drop, Same, RequestTypes, Holds
<1> QED BY <1>3, <1>4, <1>5, <1>6, <1>7, <1>8, <1>9, <1>10, <1>11, <1>12
        DEF Request, CacheRepository

LEMMA NoneIsEmptyStep ==
    ASSUME Types, RequestTypes, Stacks, NoneIsEmpty, NEW p \in Procs, Request(p)
    PROVE  NoneIsEmpty'
<1>1. ASSUME UNCHANGED file, \A r \in Repos : dir'[r] = "none" => dir[r] = "none"
      PROVE  NoneIsEmpty'
  BY <1>1 DEF NoneIsEmpty
<1>2. ASSUME pc[p] \in Down
      PROVE  Head(stack[p]) \in Repos
  BY <1>2, Innermost
<1>3. ASSUME NEW q \in Repos, NEW m, NEW cl, Arrive(p, q, m, cl)
      PROVE  NoneIsEmpty'
  BY <1>1, <1>3 DEF Arrive, Types
<1>4. CASE Acquire(p) \/ Check(p) \/ DownloadParent(p) \/ QueryRefs(p) \/ Release(p) \/ Link(p)
           \/ IndexPack(p) \/ SyncRefs(p)
  BY <1>1, <1>4 DEF Acquire, Check, DownloadParent, QueryRefs, Release, Link, IndexPack, SyncRefs, disk
<1>5. CASE InitRepo(p)
  BY <1>1, <1>2, <1>5 DEF InitRepo, Types, Down
<1>6. CASE Fetch(p)
  <2> DEFINE r == Head(stack[p])
             v == packfile[r]
  <2>1. r \in Repos
    BY <1>2, <1>6 DEF Fetch, Down
  <2>2. CASE UNCHANGED <<dir, file>>
    BY <1>1, <2>2
  <2>3. CASE /\ dir' = IF dir[r] = "none" THEN [dir EXCEPT ![r] = "bits"] ELSE dir
             /\ file' = [file EXCEPT ![r][v] = "partial"]
    <3> HIDE DEF r, v
    <3>1. dir'[r] # "none" /\ \A q \in Repos : q # r => dir'[q] = dir[q] /\ file'[q] = file[q]
      BY <2>1, <2>3 DEF Types
    <3> QED BY <3>1 DEF NoneIsEmpty
  <2> QED BY <1>6, <2>2, <2>3 DEF Fetch
<1>7. CASE Copy(p)
  <2> DEFINE r == Head(stack[p])
             v == ver[p]
  <2>1. r \in Repos /\ v \in Vers /\ dir' = dir
    BY <1>2, <1>7 DEF Copy, Stacks, Down
  <2>2. file' = file \/ (file[r][v] = "partial" /\ file' = [file EXCEPT ![r][v] = "whole"])
    BY <1>7 DEF Copy
  <2> HIDE DEF r, v
  <2>3. CASE file[r][v] = "partial" /\ file' = [file EXCEPT ![r][v] = "whole"]
    <3>1. dir[r] # "none"
      BY <2>1, <2>3 DEF NoneIsEmpty
    <3>2. \A q \in Repos : q # r => file'[q] = file[q]
      BY <2>1, <2>3 DEF Types
    <3> QED BY <2>1, <3>1, <3>2 DEF NoneIsEmpty
  <2> QED BY <1>1, <2>1, <2>2, <2>3
<1>8. CASE Push(p)
  <2>1. dir' = dir /\ dir[repo[p]] = "bare" /\ \A q \in Repos : q # repo[p] => file'[q] = file[q]
    BY <1>8 DEF Push, Types
  <2> QED BY <2>1 DEF NoneIsEmpty
<1>9. CASE Drop(p)
  <2>1. repo[p] \in Repos /\ Removed(repo[p]) /\ UNCHANGED chain
    BY <1>9 DEF Drop, RequestTypes
  <2> QED BY <2>1, RemovedTypes DEF NoneIsEmpty
<1> QED BY <1>3, <1>4, <1>5, <1>6, <1>7, <1>8, <1>9 DEF Request, CacheRepository

LEMMA BaseStep == Base /\ [Next]_vars => Base'
<1> SUFFICES ASSUME Base, [Next]_vars
             PROVE  Base'
  OBVIOUS
<1> USE DEF Base
<1>1. CASE UNCHANGED vars
  BY <1>1 DEF Types, ManagerTypes, RequestTypes, Stacks, Excluded, ModeTaken, NoneIsEmpty, WantKnown,
              Holds, vars, chain, disk, manager, request, env
<1>2. ASSUME NEW p \in Procs, Request(p), UNCHANGED env
      PROVE  Base'
  <2>1. modes' = modes
    BY <1>2 DEF env
  <2>2. RequestTypes' /\ OthersStay(p)
    BY <1>2, <2>1, RequestTypesStep
  <2>3. Types' /\ Stacks'
    BY <1>2, <2>2, TypesStep, StacksStep
  <2>4. Excluded' /\ ModeTaken'
    BY <1>2, <2>1, <2>2, LocksStep
  <2>5. NoneIsEmpty' /\ WantKnown'
    BY <1>2, <2>2, NoneIsEmptyStep, WantStep
  <2>6. ManagerTypes'
    BY <1>2 DEF ManagerTypes, Request, Drop, manager
  <2> QED BY <2>2, <2>3, <2>4, <2>5, <2>6
<1>3. ASSUME UNCHANGED <<pc, request, stack, ver, want, saw>>, UNCHANGED env, Types', NoneIsEmpty',
             ManagerTypes',
             \A r \in Repos : packfile[r] # 0 => packfile'[r] # 0
      PROVE  Base'
  BY <1>3 DEF RequestTypes, Stacks, Excluded, ModeTaken, WantKnown, Holds, request, env
<1>4. CASE Chain /\ UNCHANGED env
  <2>1. Types' /\ UNCHANGED <<disk, manager, pc, request, stack, ver, want, saw>>
        /\ \A r \in Repos : packfile[r] # 0 => packfile'[r] # 0
    BY <1>4, ChainTypes
  <2>2. NoneIsEmpty' /\ ManagerTypes'
    BY <2>1 DEF NoneIsEmpty, ManagerTypes, disk, manager
  <2> QED BY <1>3, <1>4, <2>1, <2>2
<1>5. ASSUME NEW r \in Repos, Evict(r), UNCHANGED env
      PROVE  Base'
  <2>1. Removed(r) /\ UNCHANGED <<chain, pc, request, stack, ver, want, saw>>
    BY <1>5 DEF Evict
  <2>2. Types'
    BY <2>1, RemovedTypes
  <2>3. NoneIsEmpty' /\ ManagerTypes'
    BY <1>5, <2>1, RemovedTypes DEF NoneIsEmpty, ManagerTypes, Evict
  <2> QED BY <1>3, <1>5, <2>1, <2>2, <2>3 DEF chain
<1>6. ASSUME NEW r \in Repos, Condemn(r) \/ Spare(r), UNCHANGED env
      PROVE  Base'
  <2>1. UNCHANGED <<chain, disk, pc, request, stack, ver, want, saw>>
    BY <1>6 DEF Condemn, Spare
  <2>2. Types' /\ NoneIsEmpty' /\ ManagerTypes'
    BY <1>6, <2>1 DEF Types, NoneIsEmpty, ManagerTypes, Condemn, Spare, chain, disk
  <2> QED BY <1>3, <1>6, <2>1, <2>2 DEF chain
<1> QED BY <1>1, <1>2, <1>4, <1>5, <1>6 DEF Next, CacheManager

-----------------------------------------------------------------------------
(* The link of a fork to its parent.                                        *)

(* A step that removes no link and makes no file.                           *)
LEMMA LinkKept ==
    ASSUME LinkedFiles, alternates \subseteq alternates', file' = file, robbed' = robbed
    PROVE  LinkedFiles' /\ \A r \in Repos : Linked(r) => Linked(r)'
BY DEF LinkedFiles, Linked, Clean

(* A directory goes: the files with the link.                               *)
LEMMA LinkRemoved ==
    ASSUME Types, LinkedFiles, NEW r \in Repos, Removed(r), UNCHANGED chain,
           robbed \subseteq robbed' \cup {r}
    PROVE  LinkedFiles' /\ \A q \in Repos : q # r /\ Linked(q) => Linked(q)'
<1>1. /\ file'[r] = [v \in Vers |-> "absent"]
      /\ \A q \in Repos : q # r => file'[q] = file[q] /\ (q \in alternates' <=> q \in alternates)
  BY RemovedTypes
<1> QED BY <1>1 DEF LinkedFiles, Linked, Clean

LEMMA LinkStep == Base /\ LinkInv /\ [Next]_vars => LinkInv'
<1> SUFFICES ASSUME Base, LinkInv, [Next]_vars
             PROVE  LinkInv'
  OBVIOUS
<1> USE DEF Base, LinkInv
<1> DEFINE Due(q) == pc'[q] \in Loaded \/ (pc'[q] \in {"fetch", "copy", "index"} /\ Len(stack'[q]) = 1)
<1>1. ASSUME UNCHANGED <<disk, robbed, pc, request, stack>>
      PROVE  LinkInv'
  BY <1>1 DEF LinkedFiles, LinkedUsers, Linked, Clean, Own, disk, request
<1>2. CASE UNCHANGED vars \/ Chain
  BY <1>1, <1>2, ChainTypes DEF vars, manager
<1>5. ASSUME NEW r \in Repos, Condemn(r) \/ Spare(r)
      PROVE  LinkInv'
  BY <1>1, <1>5 DEF Condemn, Spare
<1>3. ASSUME NEW r \in Repos, Evict(r)
      PROVE  LinkInv'
  <2>1. /\ Removed(r) /\ UNCHANGED <<chain, pc, request, stack>>
        /\ robbed \subseteq robbed' \cup {r}
        /\ \A p \in Procs : Holds(p) /\ repo[p] = r => r \in robbed'
    BY <1>3 DEF Evict, InUse, Holds
  <2>2. LinkedFiles' /\ \A q \in Repos : q # r /\ Linked(q) => Linked(q)'
    BY <2>1, LinkRemoved
  <2>3. LinkedUsers'
    <3> SUFFICES ASSUME NEW p \in Procs, pc[p] \in Loaded \/ (pc[p] \in {"fetch", "copy", "index"} /\ Own(p))
                 PROVE  Linked(repo[p])'
      BY <2>1 DEF LinkedUsers, Own, request
    <3>1. Holds(p) /\ Linked(repo[p]) /\ repo[p] \in Repos
      BY DEF LinkedUsers, Holds, Loaded, RequestTypes
    <3>2. repo' = repo
      BY <2>1 DEF request
    <3>3. CASE repo[p] = r
      BY <2>1, <3>1, <3>2, <3>3 DEF Linked, Clean
    <3>4. CASE repo[p] # r
      BY <2>2, <3>1, <3>2, <3>4 DEF Linked, Clean
    <3> QED BY <3>3, <3>4
  <2> QED BY <2>2, <2>3
<1>4. ASSUME NEW p \in Procs, Request(p), UNCHANGED env
      PROVE  LinkInv'
  <2>1. RequestTypes' /\ OthersStay(p)
    BY <1>4, RequestTypesStep DEF env
  <2>0. ~Drop(p) => robbed' = robbed
    BY <1>4 DEF Request, manager
  <2>2. ASSUME \A r \in Repos : Linked(r) => Linked(r)', LinkedFiles',
               Due(p) => Linked(repo[p])'
        PROVE  LinkInv'
    <3> SUFFICES ASSUME NEW q \in Procs, Due(q)
                 PROVE  Linked(repo[q])'
      BY <2>2 DEF LinkedUsers, Own, Linked, Clean
    <3>1. CASE q = p
      BY <2>2, <3>1
    <3>2. CASE q # p
      <4>1. Linked(repo[q]) /\ repo'[q] = repo[q] /\ repo[q] \in Repos
        BY <2>1, <3>2 DEF OthersStay, LinkedUsers, Own, RequestTypes
      <4> QED BY <2>2, <4>1 DEF Linked, Clean
    <3> QED BY <3>1, <3>2
  <2>3. ASSUME Ends(p)
        PROVE  ~Due(p)
    BY <2>3 DEF Ends, RequestTypes, Loaded
  <2>4. ASSUME alternates \subseteq alternates', file' = file, robbed' = robbed, Due(p) => Linked(repo[p])'
        PROVE  LinkInv'
    BY <2>2, <2>4, LinkKept
  <2>5. ASSUME NEW r \in Repos, NEW m, NEW cl, Arrive(p, r, m, cl)
        PROVE  LinkInv'
    <3>1. ~Due(p) /\ alternates' = alternates /\ file' = file /\ robbed' = robbed
      BY <2>0, <2>5 DEF Arrive, Drop, Goto, RequestTypes, Loaded
    <3> QED BY <2>4, <3>1
  <2>6. CASE Acquire(p) \/ DownloadParent(p)
    <3>1. ~Due(p) /\ alternates' = alternates /\ file' = file /\ robbed' = robbed
      BY <2>0, <2>3, <2>6 DEF Acquire, DownloadParent, Drop, Goto, RequestTypes, Loaded, disk
    <3> QED BY <2>4, <3>1
  <2>7. CASE Check(p)
    <3>1. alternates' = alternates /\ file' = file /\ repo' = repo /\ robbed' = robbed
      BY <2>0, <2>7 DEF Check, Drop, disk, request
    <3>2. CASE Ends(p) \/ MustDownload(p)
      <4>1. ~Due(p)
        BY <2>3, <2>7, <3>2 DEF Check, Goto, RequestTypes, Loaded
      <4> QED BY <2>4, <3>1, <4>1
    <3>3. CASE ~MustDownload(p)
      <4>1. Cached(repo[p]) \/ ~Fork(repo[p])
        BY <3>3 DEF MustDownload
      <4>2. repo[p] \in Repos /\ packfile[repo[p]] \in 0..MaxVer
        BY DEF RequestTypes, Types
      <4>3. Cached(repo[p]) => packfile[repo[p]] \in Vers
        BY <4>2, ConstantsAssumption DEF Cached, Vers
      <4>4. Linked(repo[p])
        BY <4>1, <4>2, <4>3 DEF LinkedFiles, Cached, Linked, Clean
      <4> QED BY <2>4, <3>1, <4>4 DEF Linked, Clean
    <3> QED BY <3>2, <3>3
  <2>8. ASSUME pc[p] \in Down
        PROVE  /\ repo[p] \in Repos /\ Head(stack[p]) \in Repos
               /\ Own(p) => Head(stack[p]) = repo[p]
               /\ Clean(Head(stack[p])) => Own(p)
    BY <2>8, Innermost DEF RequestTypes, Clean
  <2>9. CASE InitRepo(p)
    <3>1. alternates' = alternates /\ file' = file /\ repo' = repo /\ robbed' = robbed
      BY <2>0, <2>9 DEF InitRepo, Drop, request
    <3>2. CASE Ends(p)
      BY <2>3, <2>4, <3>1, <3>2
    <3>3. CASE ~Ends(p)
      <4>1. /\ stack' = stack
            /\ pc[p] = "init" /\ pc'[p] = IF Fork(Head(stack[p])) THEN "parent" ELSE "fetch"
        BY <2>9, <3>3 DEF InitRepo, Goto, RequestTypes
      <4>2. Due(p) => Linked(repo[p])'
        BY <2>8, <3>1, <4>1 DEF Linked, Clean, Own, Down, Loaded
      <4> QED BY <2>4, <3>1, <4>2
    <3> QED BY <3>2, <3>3
  <2>10. CASE Link(p)
    <3>1. alternates \subseteq alternates' /\ file' = file /\ repo' = repo /\ robbed' = robbed
      BY <2>0, <2>10 DEF Link, Drop, request
    <3>2. CASE Ends(p)
      BY <2>3, <2>4, <3>1, <3>2
    <3>3. CASE alternates' = alternates \cup {Head(stack[p])} /\ Goto(p, "fetch") /\ stack' = stack
      <4>1. Due(p) => Linked(repo[p])'
        BY <2>8, <2>10, <3>1, <3>3 DEF Link, Linked, Clean, Own, Down, Loaded, Goto, RequestTypes
      <4> QED BY <2>4, <3>1, <4>1
    <3> QED BY <2>10, <3>2, <3>3 DEF Link
  <2>11. ASSUME pc[p] \in {"fetch", "copy", "index"}
         PROVE  /\ Own(p) => Linked(repo[p])
                /\ Linked(Head(stack[p]))
    <3>1. Own(p) => Linked(repo[p])
      BY <2>11 DEF LinkedUsers
    <3> QED BY <2>8, <2>11, <3>1 DEF Linked, Clean, Down
  <2>12. ASSUME pc[p] \in {"fetch", "copy", "index"}, alternates' = alternates, repo' = repo, robbed' = robbed,
                \/ Ends(p)
                \/ stack'[p] = stack[p] /\ pc'[p] \in {"fetch", "copy", "index"}
                \/ Return(p)
         PROVE  Due(p) => Linked(repo[p])'
    <3>1. CASE Ends(p)
      BY <2>3, <3>1
    <3>2. CASE stack'[p] = stack[p] /\ pc'[p] \in {"fetch", "copy", "index"}
      BY <2>11, <2>12, <3>2 DEF Own, Linked, Clean, Loaded
    <3>3. CASE Return(p)
      <4>1. pc'[p] = IF Len(stack[p]) = 1 THEN "refs" ELSE "link"
        BY <3>3 DEF Return, Goto, RequestTypes
      <4> QED BY <2>11, <2>12, <4>1 DEF Own, Linked, Clean, Loaded
    <3> QED BY <2>12, <3>1, <3>2, <3>3
  <2>13. ASSUME pc[p] \in {"fetch", "copy", "index"}, alternates' = alternates, robbed' = robbed,
                \A r \in Repos : r # Head(stack[p]) => file'[r] = file[r]
         PROVE  LinkedFiles' /\ \A r \in Repos : Linked(r) => Linked(r)'
    BY <2>11, <2>13 DEF LinkedFiles, Linked, Clean
  <2>14. CASE Fetch(p)
    <3>1. pc[p] = "fetch" /\ alternates' = alternates /\ repo' = repo /\ robbed' = robbed
      BY <2>0, <2>14 DEF Fetch, Drop, request
    <3>2. \A r \in Repos : r # Head(stack[p]) => file'[r] = file[r]
      BY <2>14 DEF Fetch, Types
    <3>3. Ends(p) \/ Return(p) \/ (stack'[p] = stack[p] /\ pc'[p] = "copy")
      BY <2>14 DEF Fetch, Goto, RequestTypes
    <3> QED BY <2>2, <2>12, <2>13, <3>1, <3>2, <3>3
  <2>15. CASE Copy(p)
    <3>1. pc[p] = "copy" /\ alternates' = alternates /\ repo' = repo /\ robbed' = robbed
      BY <2>0, <2>15 DEF Copy, Drop, request
    <3>2. \A r \in Repos : r # Head(stack[p]) => file'[r] = file[r]
      BY <2>15 DEF Copy, Types
    <3>3. Ends(p) \/ (stack'[p] = stack[p] /\ pc'[p] = "index")
      BY <2>15 DEF Copy, Goto, RequestTypes
    <3> QED BY <2>2, <2>12, <2>13, <3>1, <3>2, <3>3
  <2>16. CASE IndexPack(p)
    <3>1. pc[p] = "index" /\ alternates' = alternates /\ repo' = repo /\ file' = file /\ robbed' = robbed
      BY <2>0, <2>16 DEF IndexPack, Drop, request
    <3>2. Ends(p) \/ Return(p)
      BY <2>16 DEF IndexPack
    <3> QED BY <2>4, <2>12, <3>1, <3>2
  <2>19. CASE Drop(p)
    <3> DEFINE r == repo[p]
    <3>1. /\ Removed(r) /\ Ends(p) /\ UNCHANGED <<chain, request>> /\ r \in Repos
          /\ Holds(p) /\ mode[p] = "w" /\ robbed \subseteq robbed' \cup {r}
      BY <2>19 DEF Drop, RequestTypes, Holds
    <3>2. LinkedFiles' /\ \A q \in Repos : q # r /\ Linked(q) => Linked(q)'
      BY <3>1, LinkRemoved
    <3>3. ASSUME NEW q \in Procs, Due(q)
          PROVE  Linked(repo[q])'
      <4>1. q # p
        BY <2>3, <3>1, <3>3
      <4>2. Linked(repo[q]) /\ repo'[q] = repo[q] /\ repo[q] \in Repos /\ Holds(q)
        BY <2>1, <3>3, <4>1 DEF OthersStay, LinkedUsers, Own, RequestTypes, Holds, Loaded
      <4>3. repo[q] # r
        BY <3>1, <4>1, <4>2 DEF Excluded
      <4> QED BY <3>2, <4>2, <4>3 DEF Linked, Clean
    <3> QED BY <3>2, <3>3 DEF LinkedUsers, Own, Linked, Clean
  <2>17. CASE QueryRefs(p) \/ SyncRefs(p) \/ Release(p)
    <3>1. pc[p] \in Loaded /\ UNCHANGED <<alternates, file, repo>>
      BY <2>17 DEF QueryRefs, SyncRefs, Release, disk, request, Loaded
    <3>3. CASE Drop(p)
      BY <2>19, <3>3
    <3>4. CASE ~Drop(p)
      <4>1. robbed' = robbed
        BY <2>0, <3>4
      <4>2. Linked(repo[p])
        BY <3>1 DEF LinkedUsers
      <4> QED BY <2>4, <3>1, <4>1, <4>2 DEF Linked, Clean
    <3> QED BY <3>3, <3>4
  <2>18. CASE Push(p)
    <3>1. pc[p] = "use" /\ UNCHANGED <<alternates, repo>>
          /\ \A r \in Repos : r # repo[p] => file'[r] = file[r]
      BY <2>18 DEF Push, request, Types
    <3>4. robbed' = robbed
      BY <2>0, <2>18 DEF Push, Drop, Ends, RequestTypes
    <3>2. Linked(repo[p])
      BY <3>1 DEF LinkedUsers, Loaded
    <3>3. LinkedFiles'
      BY <3>1, <3>2, <3>4 DEF LinkedFiles, Linked, Clean
    <3> QED BY <2>2, <3>1, <3>2, <3>3, <3>4 DEF Linked, Clean
  <2> QED BY <1>4, <2>5, <2>6, <2>7, <2>9, <2>10, <2>14, <2>15, <2>16, <2>17, <2>18, <2>19
          DEF Request, CacheRepository
<1> QED BY <1>2, <1>3, <1>4, <1>5 DEF Next, CacheManager

-----------------------------------------------------------------------------
(* Whole packfiles, under write locks only.                                 *)
LEMMA WholeStep == Base /\ WholeInv /\ [Next]_vars => WholeInv'
<1> SUFFICES ASSUME Base, WholeInv, [Next]_vars, Careful'
             PROVE  WholeFiles' /\ WholeUsers'
  BY DEF WholeInv
<1> USE DEF Base
<1>1. UNCHANGED env /\ Careful /\ WholeFiles /\ WholeUsers
  <2>1. UNCHANGED env
    BY DEF Next, vars
  <2>2. Careful
    BY <2>1 DEF Careful, env
  <2> QED BY <2>1, <2>2 DEF WholeInv
<1>2. ASSUME NEW p \in Procs, NEW q \in Procs, Holds(p), Holds(q), repo[p] = repo[q]
      PROVE  p = q
  BY <1>1, <1>2 DEF Excluded, ModeTaken, Careful, Holds
<1>3. ASSUME UNCHANGED <<disk, robbed, pc, request, stack, ver, want>>
      PROVE  WholeFiles' /\ WholeUsers'
  BY <1>1, <1>3 DEF WholeFiles, WholeUsers, Loading, Usable, Own, Clean, disk, request
<1>4. CASE UNCHANGED vars \/ Chain
  BY <1>3, <1>4, ChainTypes DEF vars, manager
<1>7. ASSUME NEW r \in Repos, Condemn(r) \/ Spare(r)
      PROVE  WholeFiles' /\ WholeUsers'
  BY <1>3, <1>7 DEF Condemn, Spare
(* A directory goes, and no request that uses it expects anything of it.    *)
<1>5. ASSUME NEW r \in Repos, Removed(r), UNCHANGED chain,
             robbed \subseteq robbed' \cup {r},
             \A p \in Procs : pc'[p] = "idle" \/
                 /\ pc'[p] = pc[p] /\ repo'[p] = repo[p] /\ stack'[p] = stack[p]
                 /\ ver'[p] = ver[p] /\ want'[p] = want[p],
             \A p \in Procs : pc'[p] # "idle" /\ Holds(p) /\ repo[p] = r => r \in robbed',
             \A p \in Procs : pc'[p] = "idle" /\ Holds(p) => repo[p] = r
      PROVE  WholeFiles' /\ WholeUsers'
  <2>2. /\ \A v \in Vers : file'[r][v] = "absent"
        /\ \A q \in Repos : q # r => file'[q] = file[q] /\ idx'[q] = idx[q]
        /\ writer' = writer
    BY <1>5, RemovedTypes
  <2>3. WholeFiles'
    <3> SUFFICES ASSUME NEW q \in Repos, NEW v \in Vers, Clean(q)', file'[q][v] # "absent"
                 PROVE  Usable(q, v)' \/ \E p \in Procs : Loading(p, q, v)'
      BY DEF WholeFiles
    <3>1. q # r /\ Clean(q)
      BY <1>5, <2>2 DEF Clean, Leaf
    <3>2. CASE Usable(q, v)
      BY <2>2, <3>1, <3>2 DEF Usable
    <3>3. ASSUME NEW p \in Procs, Loading(p, q, v)
          PROVE  Loading(p, q, v)'
      BY <1>5, <3>1, <3>3 DEF Loading, Own, Holds
    <3> QED BY <1>1, <2>2, <3>1, <3>2, <3>3 DEF WholeFiles
  <2>4. WholeUsers'
    <3> SUFFICES ASSUME NEW p \in Procs, Clean(repo[p])', pc'[p] # "idle", Holds(p)
                 PROVE  Clean(repo[p]) /\ repo[p] \in Repos /\ repo[p] # r
      BY <1>1, <1>5, <2>2 DEF WholeUsers, Usable, Own, Holds, Loaded
    <3> QED BY <1>5 DEF RequestTypes, Clean, Leaf
  <2> QED BY <2>3, <2>4
<1>8. ASSUME NEW r \in Repos, Evict(r)
      PROVE  WholeFiles' /\ WholeUsers'
  <2>1. /\ Removed(r) /\ UNCHANGED <<chain, pc, repo, stack, ver, want>>
        /\ robbed \subseteq robbed' \cup {r}
        /\ \A p \in Procs : Holds(p) /\ repo[p] = r => r \in robbed'
    BY <1>8 DEF Evict, InUse, Holds, request
  <2> QED BY <1>5, <2>1 DEF Holds
<1>9. ASSUME NEW p \in Procs, Drop(p), Request(p)
      PROVE  WholeFiles' /\ WholeUsers'
  <2>1. RequestTypes' /\ OthersStay(p) /\ repo[p] \in Repos
    BY <1>1, <1>9, RequestTypesStep DEF env, RequestTypes
  <2>2. /\ Removed(repo[p]) /\ UNCHANGED chain /\ robbed \subseteq robbed' \cup {repo[p]}
        /\ pc'[p] = "idle" /\ Holds(p)
    BY <1>9 DEF Drop, Ends, RequestTypes, Holds
  <2>3. \A q \in Procs : q # p /\ Holds(q) => repo[q] # repo[p] /\ pc'[q] # "idle"
    BY <1>2, <2>1, <2>2 DEF OthersStay, Holds
  <2> QED BY <1>5, <2>1, <2>2, <2>3 DEF OthersStay
<1>6. ASSUME NEW p \in Procs, Request(p), ~Drop(p)
      PROVE  WholeFiles' /\ WholeUsers'
  <2> DEFINE r == repo[p]
             Files == \A v \in Vers : file'[r][v] # "absent" =>
                         \/ file'[r][v] = "whole" /\ v \in idx'[r]
                         \/ /\ pc'[p] \in {"copy", "index"} /\ Len(stack'[p]) = 1 /\ ver'[p] = v
                            /\ repo'[p] = r
             User == Clean(repo'[p]) =>
                       /\ pc'[p] = "copy" /\ Len(stack'[p]) = 1 =>
                            /\ file'[repo'[p]][ver'[p]] = "partial"
                            /\ writer'[repo'[p]][ver'[p]] = p /\ want'[p] = ver'[p]
                       /\ pc'[p] = "index" /\ Len(stack'[p]) = 1 =>
                            file'[repo'[p]][ver'[p]] = "whole" /\ want'[p] = ver'[p]
                       /\ pc'[p] \in Loaded /\ want'[p] # 0 =>
                            file'[repo'[p]][want'[p]] = "whole" /\ want'[p] \in idx'[repo'[p]]
  <2>0. robbed' = robbed
    BY <1>6 DEF Request, manager
  <2>1. RequestTypes' /\ OthersStay(p) /\ r \in Repos
    BY <1>1, <1>6, RequestTypesStep DEF env, RequestTypes
  <2>2. ASSUME NEW q \in Repos, Clean(q), ~(Holds(p) /\ r = q)
        PROVE  Same(q)
    BY <1>6, <2>2, OthersKeepOut DEF Clean
  <2>3. ASSUME Holds(p) /\ Clean(r) => Files, User
        PROVE  WholeFiles' /\ WholeUsers'
    <3>1. ASSUME NEW q \in Repos, NEW v \in Vers, Clean(q), file'[q][v] # "absent"
          PROVE  Usable(q, v)' \/ \E x \in Procs : Loading(x, q, v)'
      <4>1. CASE Holds(p) /\ r = q
        BY <2>3, <3>1, <4>1 DEF Usable, Loading, Own
      <4>2. CASE ~(Holds(p) /\ r = q)
        <5>1. Same(q)
          BY <2>2, <3>1, <4>2
        <5>2. CASE Usable(q, v)
          BY <5>1, <5>2 DEF Same, Usable
        <5>3. ASSUME NEW x \in Procs, Loading(x, q, v)
              PROVE  Loading(x, q, v)'
          <6>1. x # p
            BY <4>2, <5>3 DEF Loading, Holds
          <6> QED BY <2>1, <5>3, <6>1 DEF OthersStay, Loading, Own
        <5>4. Usable(q, v) \/ \E x \in Procs : Loading(x, q, v)
          BY <1>1, <3>1, <5>1 DEF WholeFiles, Same
        <5> QED BY <5>2, <5>3, <5>4
      <4> QED BY <4>1, <4>2
    <3>2. ASSUME NEW q \in Procs, q # p, Clean(repo[q]), Holds(q)
          PROVE  Same(repo[q])
      <4>1. ~(Holds(p) /\ r = repo[q]) /\ repo[q] \in Repos
        BY <1>2, <3>2 DEF RequestTypes
      <4> QED BY <2>2, <3>2, <4>1
    <3>3. ASSUME NEW q \in Procs, q # p, Clean(repo'[q])
          PROVE  /\ pc'[q] = "copy" /\ Own(q)' =>
                      /\ file'[repo'[q]][ver'[q]] = "partial"
                      /\ writer'[repo'[q]][ver'[q]] = q /\ want'[q] = ver'[q]
                 /\ pc'[q] = "index" /\ Own(q)' =>
                      file'[repo'[q]][ver'[q]] = "whole" /\ want'[q] = ver'[q]
                 /\ pc'[q] \in Loaded /\ want'[q] # 0 => Usable(repo[q], want[q])'
      <4>1. /\ pc'[q] = pc[q] /\ repo'[q] = repo[q] /\ stack'[q] = stack[q]
            /\ ver'[q] = ver[q] /\ want'[q] = want[q]
        BY <2>1, <3>3 DEF OthersStay
      <4>2. CASE ~Holds(q)
        BY <4>1, <4>2 DEF Holds, Loaded
      <4>3. CASE Holds(q)
        <5>1. Same(repo[q])
          BY <3>2, <3>3, <4>1, <4>3
        <5> QED BY <1>1, <3>3, <4>1, <5>1 DEF Same, WholeUsers, Usable, Own
      <4> QED BY <4>2, <4>3
    <3>4. WholeFiles'
      BY <2>0, <3>1 DEF WholeFiles, Clean, Leaf
    <3>5. WholeUsers'
      BY <2>0, <2>3, <3>3 DEF WholeUsers, Usable, Own, Clean, Leaf
    <3> QED BY <3>4, <3>5
  <2>4. ASSUME Holds(p), Clean(r), NEW v \in Vers, file[r][v] # "absent"
        PROVE  Usable(r, v) \/ (pc[p] \in {"copy", "index"} /\ Own(p) /\ ver[p] = v)
    <3>1. Usable(r, v) \/ \E q \in Procs : Loading(q, r, v)
      BY <1>1, <2>1, <2>4 DEF WholeFiles
    <3>2. ASSUME NEW q \in Procs, Loading(q, r, v)
          PROVE  q = p
      BY <1>2, <2>4, <3>2 DEF Loading, Holds
    <3> QED BY <3>1, <3>2 DEF Loading
  <2>5. ASSUME NEW q \in Repos, NEW m, NEW cl, Arrive(p, q, m, cl)
        PROVE  WholeFiles' /\ WholeUsers'
    <3>1. ~Holds(p) /\ pc'[p] = "lock"
      BY <2>5 DEF Arrive, Goto, RequestTypes, Holds
    <3> QED BY <2>3, <3>1 DEF Loaded
  <2>6. CASE Acquire(p)
    <3>1. ~Holds(p) /\ pc'[p] = "check"
      BY <2>6 DEF Acquire, Goto, RequestTypes, Holds
    <3> QED BY <2>3, <3>1 DEF Loaded
  (* Steps that leave the files alone. *)
  <2>7. ASSUME Holds(p), ~(pc[p] \in {"copy", "index"} /\ Own(p)), file'[r] = file[r], idx'[r] = idx[r]
        PROVE  Clean(r) => Files
    BY <2>4, <2>7 DEF Usable
  <2>8. ASSUME Ends(p)
        PROVE  User
    BY <2>8 DEF Ends, RequestTypes, Loaded
  <2>9. CASE Check(p)
    <3>1. pc[p] = "check" /\ UNCHANGED <<disk, request>>
      BY <2>9 DEF Check
    <3>2. Clean(r) => Files
      BY <2>7, <3>1 DEF Holds, disk
    <3>3. User
      <4>1. CASE Ends(p)
        BY <2>8, <4>1
      <4>2. CASE pc'[p] = "init"
        BY <4>2 DEF Loaded
      <4>3. CASE ~MustDownload(p) /\ pc'[p] = "refs" /\ want'[p] = packfile[r]
        <5>1. CASE packfile[r] = 0
          BY <4>3, <5>1
        <5>2. CASE packfile[r] # 0 /\ Clean(r)
          <6>1. file[r][packfile[r]] # "absent" /\ packfile[r] \in Vers
            BY <2>1, <4>3, <5>2, ConstantsAssumption DEF MustDownload, Cached, Types, Vers
          <6>2. Usable(r, packfile[r])
            BY <2>4, <3>1, <5>2, <6>1 DEF Holds
          <6> QED BY <3>1, <4>3, <6>2 DEF Usable, disk, request
        <5> QED BY <3>1, <5>1, <5>2 DEF request
      <4> QED BY <2>9, <4>1, <4>2, <4>3 DEF Check, Goto, RequestTypes
    <3> QED BY <2>3, <3>2, <3>3
  <2>10. CASE InitRepo(p) \/ DownloadParent(p) \/ Link(p)
    <3>1. pc[p] \in {"init", "parent", "link"} /\ file' = file /\ idx' = idx
      BY <2>10 DEF InitRepo, DownloadParent, Link, disk
    <3>2. Clean(r) => Files
      BY <2>7, <3>1 DEF Holds
    <3>3. User
      <4>1. Ends(p) \/ pc'[p] \in {"init", "parent", "link", "fetch"}
        BY <2>10 DEF InitRepo, DownloadParent, Link, Goto, RequestTypes
      <4> QED BY <2>8, <4>1 DEF Loaded
    <3> QED BY <2>3, <3>2, <3>3
  <2>11. ASSUME pc[p] \in Down
         PROVE  /\ Head(stack[p]) \in Repos /\ Holds(p)
                /\ Own(p) => Head(stack[p]) = r
                /\ ~Own(p) /\ Clean(r) => Head(stack[p]) # r
    BY <2>11, Innermost DEF Holds, Down, Clean
  <2>12. ASSUME pc[p] \in Down, Return(p)
         PROVE  pc'[p] = IF Own(p) THEN "refs" ELSE "link"
    BY <2>12 DEF Return, Goto, RequestTypes, Own
  <2>13. CASE Fetch(p)
    <3> DEFINE h == Head(stack[p])
               v == packfile[h]
    <3>1. pc[p] = "fetch" /\ idx' = idx /\ repo' = repo
      BY <2>13 DEF Fetch, request
    <3>2. CASE Ends(p) /\ file' = file
      <4>1. Clean(r) => Files
        BY <2>7, <3>1, <3>2 DEF Holds
      <4> QED BY <2>3, <2>8, <3>2, <4>1
    <3>3. CASE v = 0 /\ Return(p) /\ file' = file /\ want' = want
      <4>1. Clean(r) => Files
        BY <2>7, <3>1, <3>3 DEF Holds
      <4>2. pc'[p] = IF Own(p) THEN "refs" ELSE "link"
        BY <2>12, <3>1, <3>3 DEF Down
      <4>3. Own(p) => want[p] = 0
        BY <2>11, <3>1, <3>3 DEF WantKnown, Down
      <4>4. User
        BY <3>3, <4>2, <4>3 DEF Loaded
      <4> QED BY <2>3, <4>1, <4>4
    <3>4. CASE /\ v # 0
               /\ file' = [file EXCEPT ![h][v] = "partial"]
               /\ writer' = [writer EXCEPT ![h][v] = p]
               /\ ver' = [ver EXCEPT ![p] = v]
               /\ want' = IF h = r THEN [want EXCEPT ![p] = v] ELSE want
               /\ Goto(p, "copy")
               /\ UNCHANGED stack
      <4>1. h \in Repos /\ Holds(p) /\ (Own(p) => h = r) /\ (~Own(p) /\ Clean(r) => h # r)
        BY <2>11, <3>1 DEF Down
      <4>2. v \in Vers
        BY <3>4, <4>1, ConstantsAssumption DEF Types, Vers
      <4> HIDE DEF h, v
      <4>3. pc'[p] = "copy" /\ ver'[p] = v /\ stack'[p] = stack[p]
        BY <3>4 DEF Goto, RequestTypes
      <4>4. CASE Own(p)
        <5>1. /\ file'[r][v] = "partial" /\ writer'[r][v] = p /\ want'[p] = v
              /\ \A w \in Vers : w # v => file'[r][w] = file[r][w]
          BY <2>1, <3>4, <4>1, <4>2, <4>4 DEF Types, RequestTypes
        <5>2. Clean(r) => Files
          BY <2>4, <3>1, <4>1, <4>3, <4>4, <5>1 DEF Usable, Own
        <5>3. User
          BY <3>1, <4>3, <5>1 DEF Loaded
        <5> QED BY <2>3, <5>2, <5>3
      <4>5. CASE ~Own(p)
        <5>1. Clean(r) => file'[r] = file[r]
          BY <2>1, <3>4, <4>1, <4>5 DEF Types
        <5>2. Clean(r) => Files
          BY <2>7, <3>1, <4>1, <4>5, <5>1
        <5>3. User
          BY <4>3, <4>5 DEF Loaded, Own
        <5> QED BY <2>3, <5>2, <5>3
      <4> QED BY <4>4, <4>5
    <3> QED BY <2>13, <3>2, <3>3, <3>4 DEF Fetch
  <2>14. CASE Copy(p)
    <3> DEFINE h == Head(stack[p])
               v == ver[p]
    <3>1. /\ pc[p] = "copy" /\ UNCHANGED <<idx, repo, stack, ver, want, writer>>
          /\ pc'[p] = "index"
          /\ file' = IF writer[h][v] = p /\ file[h][v] = "partial"
                     THEN [file EXCEPT ![h][v] = "whole"] ELSE file
      BY <1>1, <2>14 DEF Copy, request, Careful, Goto, RequestTypes
    <3>2. h \in Repos /\ Holds(p) /\ (Own(p) => h = r) /\ (~Own(p) /\ Clean(r) => h # r) /\ v \in Vers
      BY <2>11, <3>1 DEF Down, Stacks
    <3> HIDE DEF h, v
    <3>3. CASE Own(p) /\ Clean(r)
      <4>1. file[r][v] = "partial" /\ writer[r][v] = p /\ want[p] = v
        BY <1>1, <3>1, <3>3 DEF WholeUsers, v
      <4>2. file'[r][v] = "whole" /\ \A w \in Vers : w # v => file'[r][w] = file[r][w]
        BY <2>1, <3>1, <3>2, <3>3, <4>1 DEF Types
      <4>3. Files
        BY <2>4, <3>1, <3>2, <3>3, <4>2 DEF Usable, Own, v
      <4>4. User
        BY <3>1, <4>1, <4>2 DEF Loaded, v
      <4> QED BY <2>3, <4>3, <4>4
    <3>4. CASE ~Own(p)
      <4>1. Clean(r) => file'[r] = file[r]
        BY <2>1, <3>1, <3>2, <3>4 DEF Types
      <4>2. Clean(r) => Files
        BY <2>7, <3>1, <3>2, <3>4, <4>1
      <4>3. User
        BY <3>1, <3>4 DEF Loaded, Own
      <4> QED BY <2>3, <4>2, <4>3
    <3>5. CASE ~Clean(r)
      BY <2>3, <3>1, <3>5
    <3> QED BY <3>3, <3>4, <3>5
  <2>15. CASE IndexPack(p)
    <3> DEFINE h == Head(stack[p])
               v == ver[p]
    <3>1. /\ pc[p] = "index" /\ UNCHANGED <<file, repo>>
          /\ \/ /\ file[h][v] = "whole" /\ idx' = [idx EXCEPT ![h] = @ \cup {v}]
                /\ Return(p) /\ want' = want
             \/ file[h][v] # "whole" /\ Ends(p) /\ idx' = idx
      BY <2>15 DEF IndexPack, request
    <3>2. h \in Repos /\ Holds(p) /\ (Own(p) => h = r) /\ (~Own(p) /\ Clean(r) => h # r) /\ v \in Vers
      BY <2>11, <3>1 DEF Down, Stacks
    <3>3. Return(p) => pc'[p] = IF Own(p) THEN "refs" ELSE "link"
      BY <2>12, <3>1 DEF Down
    <3> HIDE DEF h, v
    <3>4. CASE Own(p) /\ Clean(r)
      <4>1. file[r][v] = "whole" /\ want[p] = v
        BY <1>1, <3>1, <3>4 DEF WholeUsers, v
      <4>2. idx'[r] = idx[r] \cup {v} /\ pc'[p] = "refs" /\ want' = want
        BY <2>1, <3>1, <3>2, <3>3, <3>4, <4>1 DEF Types
      <4>3. Files
        BY <2>4, <3>1, <3>2, <3>4, <4>1, <4>2 DEF Usable, v
      <4>4. User
        BY <3>1, <4>1, <4>2
      <4> QED BY <2>3, <4>3, <4>4
    <3>5. CASE ~Own(p)
      <4>1. Clean(r) => idx'[r] = idx[r]
        BY <2>1, <3>1, <3>2, <3>5 DEF Types
      <4>2. Clean(r) => Files
        BY <2>7, <3>1, <3>2, <3>5, <4>1
      <4>3. User
        BY <2>8, <3>1, <3>3, <3>5 DEF Loaded
      <4> QED BY <2>3, <4>2, <4>3
    <3>6. CASE ~Clean(r)
      BY <2>3, <3>1, <3>6
    <3> QED BY <3>4, <3>5, <3>6
  <2>16. CASE QueryRefs(p) \/ SyncRefs(p) \/ Release(p)
    <3>1. pc[p] \in Loaded /\ UNCHANGED <<file, idx, repo>>
      BY <2>16 DEF QueryRefs, SyncRefs, Release, disk, request, Loaded
    <3>2. Clean(r) => Files
      BY <2>7, <3>1 DEF Holds, Loaded
    <3>3. Ends(p) \/ (want' = want /\ pc'[p] \in Loaded)
      BY <2>16 DEF QueryRefs, SyncRefs, Release, Goto, RequestTypes, Loaded
    <3>4. User
      BY <1>1, <2>8, <3>1, <3>3 DEF WholeUsers, Usable, Loaded
    <3> QED BY <2>3, <3>2, <3>4
  <2>17. CASE Push(p)
    <3> DEFINE v == made[r] + 1
    <3>1. /\ pc[p] = "use" /\ UNCHANGED <<pc, repo>> /\ v \in Vers
          /\ file' = [file EXCEPT ![r] = [w \in Vers |-> IF w = v THEN "whole"
                                                         ELSE IF w \in idx[r] THEN "absent"
                                                         ELSE @[w]]]
          /\ idx' = [idx EXCEPT ![r] = {v}]
          /\ want' = [want EXCEPT ![p] = v]
      BY <2>1, <2>17, ConstantsAssumption DEF Push, request, Types, Vers
    <3> HIDE DEF v
    <3>2. /\ file'[r][v] = "whole" /\ idx'[r] = {v} /\ want'[p] = v
          /\ \A w \in Vers : w # v => file'[r][w] = IF w \in idx[r] THEN "absent" ELSE file[r][w]
      BY <2>1, <3>1 DEF Types, RequestTypes
    <3>3. Clean(r) => \A w \in Vers : file[r][w] # "absent" => w \in idx[r]
      BY <2>4, <3>1 DEF Usable, Holds
    <3>4. Clean(r) => Files
      BY <3>2, <3>3
    <3>5. User
      BY <3>1, <3>2 DEF Loaded
    <3> QED BY <2>3, <3>4, <3>5
  <2> QED BY <1>6, <2>5, <2>6, <2>9, <2>10, <2>13, <2>14, <2>15, <2>16, <2>17
          DEF Request, CacheRepository
<1> QED BY <1>4, <1>6, <1>7, <1>8, <1>9 DEF Next, CacheManager

-----------------------------------------------------------------------------
(* The ref that is served.                                                  *)

LEMMA ServesStep == Base /\ ServesChainRef /\ [Next]_vars => ServesChainRef'
<1> SUFFICES ASSUME Base, ServesChainRef, [Next]_vars, NEW q \in Procs,
                    pc'[q] = "use", mode'[q] = "w", dir'[repo'[q]] = "bare",
                    Leaf(repo'[q]), saw'[q][1] = repo'[q], HasCommit(repo[q], saw[q])'
             PROVE  ref'[repo'[q]] = saw'[q]
  BY DEF ServesChainRef, Leaf
<1> USE DEF Base
<1> DEFINE r == repo[q]
<1>1. r \in Repos
  BY DEF RequestTypes
<1>2. ASSUME pc'[q] = pc[q], repo'[q] = repo[q], mode'[q] = mode[q], saw'[q] = saw[q], Same(r)
      PROVE  ref'[repo'[q]] = saw'[q]
  <2>1. PICK v \in Vers : v >= saw[q][2] /\ file'[r][v] = "whole" /\ v \in idx'[r]
    BY <1>2 DEF HasCommit, Usable
  <2>2. file[r][v] = "whole" /\ v \in idx[r]
    BY <1>2, <2>1 DEF Same
  <2>3. dir[r] = "bare"
    BY <1>1, <1>2, <2>2 DEF Same, NoneIsEmpty
  <2>4. HasCommit(r, saw[q])
    BY <1>2, <2>1, <2>2 DEF HasCommit, Usable, NoRef
  <2> QED BY <1>2, <2>3, <2>4 DEF ServesChainRef, Same
<1>3. CASE UNCHANGED vars \/ Chain
  <2>1. UNCHANGED <<disk, pc, request, saw>>
    BY <1>3, ChainTypes DEF vars
  <2>2. Same(r)
    BY <2>1 DEF Same, disk
  <2> QED BY <1>2, <2>1, <2>2 DEF request
<1>4. ASSUME NEW x \in Repos, Evict(x)
      PROVE  ref'[repo'[q]] = saw'[q]
  <2>1. Removed(x) /\ UNCHANGED <<chain, pc, request, stack, ver, want, saw>>
    BY <1>4 DEF Evict
  <2>2. PICK v \in Vers : file'[r][v] = "whole"
    BY <2>1 DEF HasCommit, Usable, request
  <2>3. r # x
    BY <2>1, <2>2, RemovedTypes
  <2>4. Same(r)
    BY <1>1, <2>1, <2>3, RemovedTypes DEF Same
  <2> QED BY <1>2, <2>1, <2>4 DEF request
<1>7. ASSUME NEW x \in Repos, Condemn(x) \/ Spare(x)
      PROVE  ref'[repo'[q]] = saw'[q]
  <2>1. UNCHANGED <<disk, pc, request, saw>>
    BY <1>7 DEF Condemn, Spare
  <2>2. Same(r)
    BY <2>1 DEF Same, disk
  <2> QED BY <1>2, <2>1, <2>2 DEF request
<1>5. ASSUME NEW p \in Procs, Request(p), UNCHANGED env, p # q
      PROVE  ref'[repo'[q]] = saw'[q]
  <2>1. OthersStay(p)
    BY <1>5, RequestTypesStep DEF env
  <2>2. pc'[q] = pc[q] /\ repo'[q] = repo[q] /\ mode'[q] = mode[q] /\ saw'[q] = saw[q]
    BY <1>5, <2>1 DEF OthersStay
  <2>3. ~(Holds(p) /\ repo[p] = r)
    BY <1>5, <2>2 DEF Excluded, Holds
  <2>4. Same(r)
    BY <1>1, <1>5, <2>2, <2>3, OthersKeepOut
  <2> QED BY <1>2, <2>2, <2>4
<1>6. ASSUME Request(q)
      PROVE  ref'[repo'[q]] = saw'[q]
  <2> USE DEF Goto, RequestTypes
  <2>1. ASSUME Ends(q)
        PROVE  FALSE
    BY <2>1 DEF Ends
  <2>2. CASE SyncRefs(q)
    <3>1. /\ UNCHANGED <<dir, file, idx, alternates, repo>> /\ saw'[q] = saw[q]
          /\ ref' = IF dir[r] = "bare" /\ HasCommit(r, saw[q])
                    THEN [ref EXCEPT ![r] = saw[q]] ELSE ref
      BY <2>1, <2>2 DEF SyncRefs, request
    <3>2. HasCommit(r, saw[q])
      BY <3>1 DEF HasCommit, Usable
    <3> QED BY <1>1, <3>1, <3>2 DEF Types
  <2>3. CASE Push(q)
    <3>1. /\ repo'[q] = r /\ ref' = [ref EXCEPT ![r] = <<r, made[r] + 1>>]
          /\ saw' = [saw EXCEPT ![q] = <<r, made[r] + 1>>]
      BY <2>3 DEF Push, request
    <3>2. ref'[r] = <<r, made[r] + 1>>
      BY <1>1, <3>1 DEF Types
    <3>3. saw'[q] = <<r, made[r] + 1>>
      BY <3>1
    <3> QED BY <3>1, <3>2, <3>3
  <2>4. CASE Drop(q) \/ Release(q)
    BY <2>1, <2>4 DEF Drop, Release
  <2>5. CASE Acquire(q) \/ \E x \in Repos, m \in modes, cl \in Callers : Arrive(q, x, m, cl)
    BY <2>5 DEF Acquire, Arrive
  <2>6. CASE Check(q) \/ QueryRefs(q)
    BY <2>1, <2>6 DEF Check, QueryRefs
  <2>7. CASE InitRepo(q) \/ DownloadParent(q)
    BY <2>1, <2>7 DEF InitRepo, DownloadParent
  <2>8. CASE Link(q) \/ Copy(q)
    BY <2>1, <2>8 DEF Link, Copy
  <2>9. Return(q) => pc'[q] # "use"
    BY DEF Return
  <2>10. CASE Fetch(q)
    BY <2>1, <2>9, <2>10 DEF Fetch
  <2>11. CASE IndexPack(q)
    BY <2>1, <2>9, <2>11 DEF IndexPack
  <2> QED BY <1>6, <2>2, <2>3, <2>4, <2>5, <2>6, <2>7, <2>8, <2>10, <2>11
          DEF Request, CacheRepository
<1> QED BY <1>3, <1>4, <1>5, <1>6, <1>7 DEF Next, CacheManager

-----------------------------------------------------------------------------
LEMMA InitInv == Init => Inv
<1> SUFFICES ASSUME Init
             PROVE  Inv
  OBVIOUS
<1> USE DEF Init
<1>1. \A p \in Procs : pc[p] = "idle" /\ stack[p] = <<>>
  OBVIOUS
<1>2. \A x \in Repos, v \in Vers : file[x][v] = "absent"
  OBVIOUS
<1>3. Types
  BY ConstantsAssumption DEF Types
<1>4. RequestTypes
  <2>1. stack \in [Procs -> Seq(Repos)]
    OBVIOUS
  <2>2. pc \in [Procs -> PCs] /\ caller \in [Procs -> {"server", "utils"}] /\ mode \in [Procs -> {"r", "w"}]
    BY DEF PCs
  <2>3. ver \in [Procs -> 0..MaxVer] /\ want \in [Procs -> 0..MaxVer]
    BY ConstantsAssumption
  <2>4. modes \subseteq {"r", "w"}
    BY ConstantsAssumption
  <2> QED BY <2>1, <2>2, <2>3, <2>4 DEF RequestTypes
<1>7. ManagerTypes
  BY DEF ManagerTypes
<1>5. Stacks /\ Excluded /\ ModeTaken /\ NoneIsEmpty /\ WantKnown
  BY <1>1, <1>2 DEF Stacks, Excluded, ModeTaken, NoneIsEmpty, WantKnown, Holds, Down
<1>6. LinkInv /\ WholeInv /\ ServesChainRef
  BY <1>1, <1>2 DEF LinkInv, WholeInv, ServesChainRef, LinkedFiles, LinkedUsers, WholeFiles,
                    WholeUsers, Loaded
<1> QED BY <1>3, <1>4, <1>5, <1>6, <1>7 DEF Inv, Base

LEMMA NextInv == Inv /\ [Next]_vars => Inv'
BY BaseStep, LinkStep, WholeStep, ServesStep DEF Inv

LEMMA AlwaysInv == Spec => []Inv
BY InitInv, NextInv, PTL DEF Spec

(* A request is inside a download exactly between the check and the refs,   *)
(* and its outermost download is of its own repository, however deep the    *)
(* forks of forks are (DownloadRepositoryPackfile, recursively).            *)
THEOREM DownloadsNest == Spec => []TypeOK
<1>1. Inv => TypeOK
  BY DEF Inv, Base, Types, ManagerTypes, RequestTypes, Stacks, TypeOK, Down
<1> QED BY <1>1, AlwaysInv, PTL

(* utils.CacheRepository and Server.CacheRepository: with write locks only  *)
(* and copies that end, the packfile of a repository without forks is whole *)
(* and indexed for as long as a request uses the repository.                *)
THEOREM LeavesAreComplete == Spec => []LeafIsComplete
<1>1. Inv => LeafIsComplete
  BY DEF Inv, WholeInv, WholeUsers, Careful, Clean, Loaded, Undisturbed, LeafIsComplete
<1> QED BY <1>1, AlwaysInv, PTL

(* DownloadRepositoryPackfile: a fork without forks of its own is linked to *)
(* its parent for as long as a request uses it, whatever locks are taken    *)
(* and whatever fails.                                                      *)
THEOREM ForksAreLinked == Spec => []ForkIsLinked
<1>1. Inv => ForkIsLinked
  BY DEF Inv, LinkInv, LinkedUsers, Linked, Clean, Loaded, Undisturbed, ForkIsLinked
<1> QED BY <1>1, AlwaysInv, PTL

(* SyncRepositoryRefs: under the write lock a request serves the ref it     *)
(* read, or the commit it pushed, if git has that commit.                   *)
THEOREM ChainRefIsServed == Spec => []ServesChainRef
<1>1. Inv => ServesChainRef
  BY DEF Inv
<1> QED BY <1>1, AlwaysInv, PTL
=============================================================================
