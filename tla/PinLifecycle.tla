---------------------------- MODULE PinLifecycle -----------------------------
(***************************************************************************)
(* The life of a piece of content: an upload (a push, a merge, an LFS      *)
(* object, a release) pins it in the IPFS cluster, proposes it to the      *)
(* chain and polls until a proposal shows up; the owner approves the       *)
(* proposal on the chain or lets it expire; and when content is replaced,  *)
(* deleted or expired, the chain emits an event on which the provider      *)
(* unpins what nothing references any more.                                *)
(*                                                                         *)
(* A target is an entry of the chain that proposals are made for: a        *)
(* repository's packfile, an LFS object, a release, or (Repo) the deletion *)
(* of the repository, which has all other targets.  A proposal is known by *)
(* its target and user.  AddToBatch promises no more than TxOutbox, so a   *)
(* message reaches the chain at any time or is lost.                       *)
(*                                                                         *)
(* The chain, and the cluster's set of pins, are not code of this          *)
(* repository: they do here what its code expects of them.                 *)
(***************************************************************************)
EXTENDS FiniteSets, Sequences, Naturals

CONSTANTS Uploads,    \* requests and events that bring or delete content
          Kind,       \* upload -> "push", "merge", "lfs", "release", "delete"
          Content,    \* upload -> the CIDs of what it brings
          Target,     \* upload -> the target it proposes for
          From,       \* merge -> the packfile of another repository it merges from
          User,       \* upload -> the user it proposes for
          Targets, Users, Cids,
          Repo,       \* the target of repository deletions
          None,       \* no upload, no CID
          Faults      \* what may fail: "check", "pin", "root", "tx", "query", "unpin", "crash"

Kinds == {"push", "merge", "lfs", "release", "delete"}

(* A target is of one sort, a packfile and an LFS object are one CID each,  *)
(* an LFS object's name fixes its content, and deleting brings no content.  *)
ASSUME ConstantsAssumption ==
    /\ Kind \in [Uploads -> Kinds]
    /\ Content \in [Uploads -> SUBSET Cids]
    /\ Target \in [Uploads -> Targets \cup {Repo}]
    /\ From \in [Uploads -> Targets \cup {None}]
    /\ User \in [Uploads -> Users]
    /\ IsFiniteSet(Targets)
    /\ Repo \notin Targets /\ None \notin Uploads /\ None \notin Cids /\ None \notin Targets
    /\ \A u \in Uploads : From[u] # None => Kind[u] = "merge" /\ From[u] # Target[u]
    /\ \A u \in Uploads : Kind[u] = "delete" <=> Target[u] = Repo
    /\ \A u \in Uploads : Kind[u] = "delete" => Content[u] = {}
    /\ \A u \in Uploads : Kind[u] \in {"push", "merge", "lfs"} => \E c \in Cids : Content[u] = {c}
    /\ \A u, v \in Uploads :
         Target[u] = Target[v] /\ Kind[u] \in {"push", "merge"} => Kind[v] \in {"push", "merge"}
    /\ \A u, v \in Uploads : Kind[u] = "lfs" /\ Target[u] = Target[v] => Content[u] = Content[v]

VARIABLES
    pc,        \* upload -> where it is
    lock,      \* target -> the upload that holds the lock of its repository or object
    seen,      \* upload -> what its target referenced when it looked
    got,       \* upload -> the CIDs it pinned and will propose
    msgs,      \* uploads whose message is on its way to the chain
    proposal,  \* chain: target, user -> the upload whose proposal is pending
    current,   \* chain: target -> the CIDs it references
    events,    \* chain: emitted and not handled yet
    pinned,    \* cluster: the pinned CIDs
    todo,      \* handler: the CIDs of its event it has still to look at
    dropping,  \* handler: the CID it found unreferenced and will unpin
    accepted,  \* history: uploads whose own proposal became pending
    astray,    \* history: CIDs pinned with no event to come that unpins them
    raced      \* history: referenced CIDs whose pin was gone or going at approval

upload == <<pc, lock, seen, got>>
chain == <<proposal, current, events>>
handler == <<todo, dropping>>
vars == <<pc, lock, seen, got, msgs, proposal, current, events, pinned, todo, dropping,
          accepted, astray, raced>>

(* CidReferenceCount of the chain.  Proposals do not count.                 *)
Referenced == UNION {current[t] : t \in Targets}
refCount(c) == Cardinality({t \in Targets : c \in current[t]})

Init ==
    /\ pc = [u \in Uploads |-> "idle"]
    /\ lock = [t \in Targets |-> None]
    /\ seen = [u \in Uploads |-> {}]
    /\ got = [u \in Uploads |-> {}]
    /\ msgs = {}
    /\ proposal = [k \in (Targets \cup {Repo}) \X Users |-> None]
    /\ current = [t \in Targets |-> {}]
    /\ events = <<>>
    /\ pinned = {}
    /\ todo = {}
    /\ dropping = None
    /\ accepted = {} /\ astray = {} /\ raced = {}

Key(u) == <<Target[u], User[u]>>
Pending(u) == proposal[Key(u)] # None
Goto(u, l) == pc' = [pc EXCEPT ![u] = l]

(* The deferred unlock of a request that ends.                              *)
Unlocked(u) == [t \in Targets |-> IF lock[t] = u THEN None ELSE lock[t]]
Ends(u, how) == Goto(u, how) /\ lock' = Unlocked(u)

Running == {"waiting", "begun", "checked", "added", "pinned", "polling"}
Locks(u) == Kind[u] \in {"push", "merge", "lfs"}

(* Merges are handled by the client that handles the events below, and one  *)
(* buffer after the other: the merges of one buffer side by side, and       *)
(* nothing else before they have all returned.                              *)
MergeRuns == \E u \in Uploads : Kind[u] = "merge" /\ pc[u] \in Running

----------------------------------------------------------------------------
(* The uploads.  A push and a merge hold the repository's lock throughout,  *)
(* an LFS upload the object's from after its checks, which change nothing;  *)
(* releases and deletions lock nothing.  A merge from another repository    *)
(* then waits for the lock of that one too.                                 *)

Begin(u) ==
    /\ pc[u] = "idle"
    /\ Kind[u] = "merge" => todo = {}
    /\ IF Locks(u)
       THEN lock[Target[u]] = None /\ lock' = [lock EXCEPT ![Target[u]] = u]
       ELSE UNCHANGED lock
    /\ Goto(u, IF From[u] = None THEN "begun" ELSE "waiting")
    /\ UNCHANGED <<seen, got, msgs, chain, pinned, handler, accepted, astray, raced>>

LockHead(u) ==
    /\ pc[u] = "waiting" /\ lock[From[u]] = None
    /\ lock' = [lock EXCEPT ![From[u]] = u]
    /\ Goto(u, "begun")
    /\ UNCHANGED <<seen, got, msgs, chain, pinned, handler, accepted, astray, raced>>

(* What is looked at before pinning: a push is refused while its user's     *)
(* last proposal is pending; all read what is there now, the owner's quota  *)
(* and balance, and may give up.                                            *)
BugNoPendingCheck(u) ==
    /\ pc[u] = "begun"
    /\ Goto(u, "checked") /\ UNCHANGED lock
    /\ seen' = [seen EXCEPT ![u] = IF Target[u] = Repo THEN {} ELSE current[Target[u]]]
    /\ UNCHANGED <<got, msgs, chain, pinned, handler, accepted, astray, raced>>

Refused(u) == Kind[u] = "push" /\ Pending(u)

Check(u) ==
    /\ pc[u] = "begun"
    /\ \/ /\ ~Refused(u)
          /\ Goto(u, "checked") /\ UNCHANGED lock
       \/ /\ Refused(u) \/ "check" \in Faults
          /\ Ends(u, "failed")
    /\ seen' = [seen EXCEPT ![u] = IF Target[u] = Repo THEN {} ELSE current[Target[u]]]
    /\ UNCHANGED <<got, msgs, chain, pinned, handler, accepted, astray, raced>>

(* utils.PinFile is two calls of the cluster.  Add pins what it adds; when  *)
(* it fails, so does the Pin of no CID that follows.                        *)
Add(u) ==
    /\ pc[u] = "checked" /\ Locks(u)
    /\ \/ /\ pinned' = pinned \cup Content[u]
          /\ got' = [got EXCEPT ![u] = Content[u]]
          /\ Goto(u, "added") /\ UNCHANGED lock
       \/ /\ "pin" \in Faults
          /\ Ends(u, "failed") /\ UNCHANGED <<pinned, got>>
    /\ UNCHANGED <<seen, msgs, chain, handler, accepted, astray, raced>>

(* Pin pins it once more; when it fails the upload ends, and what was added *)
(* stays pinned.                                                            *)
Pin(u) ==
    /\ pc[u] = "added"
    /\ \/ /\ pinned' = pinned \cup got[u]
          /\ Goto(u, "pinned") /\ UNCHANGED <<lock, astray>>
       \/ /\ "pin" \in Faults
          /\ Ends(u, "failed")
          /\ astray' = astray \cup got[u] /\ UNCHANGED pinned
    /\ UNCHANGED <<seen, got, msgs, chain, handler, accepted, raced>>

(* A merge asks the chain for the packfile at the same time and, when that  *)
(* fails first, gives up while its goroutine goes on adding and pinning.    *)
GiveUpPinning(u) ==
    /\ pc[u] \in {"checked", "added"} /\ Kind[u] = "merge"
    /\ "query" \in Faults
    /\ Ends(u, "late")
    /\ astray' = astray \cup got[u]
    /\ UNCHANGED <<seen, got, msgs, chain, pinned, handler, accepted, raced>>

LatePin(u) ==
    /\ pc[u] = "late"
    /\ Goto(u, "failed")
    /\ \/ pinned' = pinned \cup Content[u] /\ astray' = astray \cup Content[u]
       \/ "pin" \in Faults /\ UNCHANGED <<pinned, astray>>
    /\ UNCHANGED <<lock, seen, got, msgs, chain, handler, accepted, raced>>

(* A release pins the attachments that are not there yet, one by one: one   *)
(* that cannot be added is left out, and so is one that is added and cannot *)
(* be pinned or whose root hash cannot be computed, which then stays        *)
(* pinned.  What one that is left out was to replace is kept (and forgotten *)
(* from seen).  A deletion pins nothing.                                    *)
PinAttachments(u) ==
    /\ pc[u] = "checked" /\ ~Locks(u)
    /\ \E S \in SUBSET (Content[u] \ seen[u]) : \E G \in SUBSET S :
         /\ "pin" \in Faults \/ S = Content[u] \ seen[u]
         /\ {"pin", "root"} \cap Faults # {} \/ G = S
         /\ pinned' = pinned \cup S
         /\ got' = [got EXCEPT ![u] = G]
         /\ astray' = astray \cup (S \ G)
         /\ \E kept \in SUBSET (seen[u] \ Content[u]) :
              /\ Cardinality(kept) <= Cardinality((Content[u] \ seen[u]) \ G)
              /\ seen' = [seen EXCEPT ![u] = @ \ kept]
    /\ Goto(u, "pinned")
    /\ UNCHANGED <<lock, msgs, chain, handler, accepted, raced>>

(* What a release drops of what it saw.                                     *)
Dropped(u) == IF Kind[u] = "release" THEN seen[u] \ Content[u] ELSE {}

(* Nothing to propose: the LFS object is on the chain, or the release has   *)
(* neither additions nor deletions.                                         *)
NothingToDo(u) ==
    \/ Kind[u] = "lfs" /\ current[Target[u]] # {}
    \/ Kind[u] = "release" /\ got[u] = {} /\ Dropped(u) = {}

(* Fetching the pinned content and its Merkle root may fail; nobody unpins  *)
(* it then.  Otherwise the proposal is queued, also when the chain could    *)
(* not be asked whether it has the LFS object.                              *)
Propose(u) ==
    /\ pc[u] = "pinned"
    /\ \/ /\ ~NothingToDo(u) \/ (Kind[u] = "lfs" /\ "query" \in Faults)
          /\ msgs' = msgs \cup {u}
          /\ Goto(u, "polling") /\ UNCHANGED <<lock, astray>>
       \/ /\ NothingToDo(u)
          /\ Ends(u, "ok") /\ UNCHANGED <<msgs, astray>>
       \/ /\ "root" \in Faults /\ Locks(u)
          /\ Ends(u, "failed") /\ UNCHANGED msgs
          /\ astray' = astray \cup got[u]
    /\ UNCHANGED <<seen, got, chain, pinned, handler, accepted, raced>>

(* PollForUpdate: some proposal of the user for the target is pending ...   *)
PollSucceeds(u) ==
    /\ pc[u] = "polling"
    /\ Pending(u)
    /\ Ends(u, "ok")
    /\ UNCHANGED <<seen, got, msgs, chain, pinned, handler, accepted, astray, raced>>

(* ... or ten seconds have passed, or the query failed.                     *)
BugKeepsLock(u) ==
    /\ pc[u] = "polling"
    /\ ~Pending(u) \/ "query" \in Faults
    /\ Goto(u, "failed") /\ UNCHANGED lock
    /\ UNCHANGED <<seen, got, msgs, chain, pinned, handler, accepted, astray, raced>>

PollGivesUp(u) ==
    /\ pc[u] = "polling"
    /\ ~Pending(u) \/ "query" \in Faults
    /\ Ends(u, "failed")
    /\ UNCHANGED <<seen, got, msgs, chain, pinned, handler, accepted, astray, raced>>

Upload(u) ==
    \/ Begin(u) \/ LockHead(u) \/ Check(u) \/ Add(u) \/ Pin(u) \/ GiveUpPinning(u) \/ LatePin(u)
    \/ PinAttachments(u) \/ Propose(u) \/ PollSucceeds(u) \/ PollGivesUp(u)

----------------------------------------------------------------------------
(* The chain.  What it does with a second proposal of a user for a target,  *)
(* refuse it or replace the first, is left open.                            *)

Include(u) ==
    /\ u \in msgs
    /\ msgs' = msgs \ {u}
    /\ \/ /\ proposal' = [proposal EXCEPT ![Key(u)] = u]
          /\ accepted' = accepted \cup {u}
          /\ astray' = astray \cup (IF Pending(u) THEN got[proposal[Key(u)]] ELSE {})
       \/ /\ Pending(u)
          /\ astray' = astray \cup got[u]
          /\ UNCHANGED <<proposal, accepted>>
    /\ UNCHANGED <<upload, current, events, pinned, handler, raced>>

Lose(u) ==
    /\ u \in msgs /\ "tx" \in Faults
    /\ msgs' = msgs \ {u}
    /\ astray' = astray \cup got[u]
    /\ UNCHANGED <<upload, chain, pinned, handler, accepted, raced>>

(* What the targets reference once upload u is approved: a release is       *)
(* changed by what it adds and drops, everything else is replaced, and a    *)
(* deletion, which brings nothing, replaces all.                            *)
After(u) ==
    [t \in Targets |->
        IF t # Target[u] /\ Kind[u] # "delete" THEN current[t]
        ELSE IF Kind[u] = "release" THEN (current[t] \ Dropped(u)) \cup got[u]
        ELSE got[u]]

EventType == [type : {"delete", "timeout"}, cids : SUBSET Cids]

Emit(type, cids) ==
    IF cids = {} THEN events ELSE Append(events, [type |-> type, cids |-> cids])

Approve(k) ==
    /\ proposal[k] # None
    /\ LET u == proposal[k]
           new == UNION {After(u)[t] : t \in Targets}
           lost == UNION {current[t] \ After(u)[t] : t \in Targets}
       IN /\ current' = After(u)
          /\ events' = Emit("delete", lost)
          /\ raced' = (raced \cup {c \in got[u] : c \notin pinned \/ c = dropping}) \cap new
    /\ proposal' = [proposal EXCEPT ![k] = None]
    /\ UNCHANGED <<upload, msgs, pinned, handler, accepted, astray>>

Expire(k) ==
    /\ proposal[k] # None
    /\ events' = Emit("timeout", got[proposal[k]])
    /\ proposal' = [proposal EXCEPT ![k] = None]
    /\ UNCHANGED <<upload, msgs, current, pinned, handler, accepted, astray, raced>>

Chain ==
    \/ \E u \in Uploads : Include(u) \/ Lose(u)
    \/ \E k \in DOMAIN proposal : Approve(k) \/ Expire(k)

----------------------------------------------------------------------------
(* The handlers of DeleteStorageObject and ProposalTimeout events: one      *)
(* event at a time, after the merges the client was given before it, one    *)
(* CID at a time.                                                           *)

Take ==
    /\ events # <<>> /\ todo = {} /\ dropping = None
    /\ ~MergeRuns
    /\ todo' = Head(events).cids
    /\ UNCHANGED <<upload, msgs, chain, pinned, dropping, accepted, astray, raced>>

Finished(rest) == events' = IF rest = {} THEN Tail(events) ELSE events

(* The reference count is asked for; if that fails the event is given up.   *)
BugUnpinUnchecked(c) ==
    /\ c \in todo /\ dropping = None
    /\ dropping' = c /\ UNCHANGED <<todo, astray, events>>
    /\ UNCHANGED <<upload, msgs, proposal, current, pinned, accepted, raced>>

Query(c) ==
    /\ c \in todo /\ dropping = None
    /\ \/ /\ refCount(c) = 0
          /\ dropping' = c /\ UNCHANGED <<todo, astray, events>>
       \/ /\ refCount(c) # 0
          /\ todo' = todo \ {c} /\ Finished(todo \ {c}) /\ UNCHANGED <<dropping, astray>>
       \/ /\ "query" \in Faults
          /\ todo' = {} /\ Finished({})
          /\ astray' = astray \cup todo
          /\ UNCHANGED dropping
    /\ UNCHANGED <<upload, msgs, proposal, current, pinned, accepted, raced>>

(* utils.UnpinFile.  When it fails, the delete handler gives up its event   *)
(* and the timeout handler goes on to the next CID.                         *)
BugUnpinOnlyFirst(c) ==
    /\ dropping = c
    /\ pinned' = pinned \ {c}
    /\ todo' = {} /\ Finished({})
    /\ dropping' = None
    /\ UNCHANGED <<upload, msgs, proposal, current, accepted, astray, raced>>

BugUnpinRetried(c) ==
    /\ dropping = c
    /\ \/ /\ pinned' = pinned \ {c}
          /\ todo' = todo \ {c} /\ Finished(todo \ {c})
       \/ /\ "unpin" \in Faults
          /\ UNCHANGED <<pinned, todo, events>>
    /\ dropping' = None
    /\ UNCHANGED <<upload, msgs, proposal, current, accepted, astray, raced>>

UnpinFile(c) ==
    /\ dropping = c
    /\ \/ /\ pinned' = pinned \ {c}
          /\ todo' = todo \ {c} /\ Finished(todo \ {c}) /\ UNCHANGED astray
       \/ /\ "unpin" \in Faults /\ Head(events).type = "timeout"
          /\ todo' = todo \ {c} /\ Finished(todo \ {c})
          /\ astray' = astray \cup {c} /\ UNCHANGED pinned
       \/ /\ "unpin" \in Faults /\ Head(events).type = "delete"
          /\ todo' = {} /\ Finished({})
          /\ astray' = astray \cup todo /\ UNCHANGED pinned
    /\ dropping' = None
    /\ UNCHANGED <<upload, msgs, proposal, current, accepted, raced>>

Handler == Take \/ \E c \in Cids : Query(c) \/ UnpinFile(c)

(* The process stops and is started again.  Uploads under way are lost with *)
(* their locks, and so are the messages of the batch queue; the events the  *)
(* chain emitted and the handlers have not finished are not delivered       *)
(* again, since the subscription starts with the next block and the offset  *)
(* files are never written.                                                 *)
Crash ==
    /\ "crash" \in Faults
    /\ pc' = [u \in Uploads |-> IF pc[u] \in {"idle", "ok"} THEN pc[u] ELSE "failed"]
    /\ lock' = [t \in Targets |-> None]
    /\ \E lost \in SUBSET msgs :
         /\ msgs' = msgs \ lost
         /\ astray' = astray \cup (UNION {got[u] : u \in lost \cup {v \in Uploads : pc[v] \in {"added", "pinned"}}})
                             \cup (UNION {events[i].cids : i \in DOMAIN events})
    /\ events' = <<>> /\ todo' = {} /\ dropping' = None
    /\ UNCHANGED <<seen, got, proposal, current, pinned, accepted, raced>>

Next == (\E u \in Uploads : Upload(u)) \/ Chain \/ Handler \/ Crash

Spec == Init /\ [][Next]_vars

(* Every upload that was asked for, and the handler, go on when they can: a *)
(* lock that stays free is taken, calls of the chain and of the cluster     *)
(* return or fail, and a poll ends because its context does.  The chain     *)
(* need not decide on anything.                                             *)
Fairness ==
    /\ \A u \in Uploads : WF_vars(Upload(u))
    /\ WF_vars(Handler)

FairSpec == Spec /\ Fairness

----------------------------------------------------------------------------
(* The state has the shape the code gives it; a lock is held by an upload   *)
(* that is still running.                                                   *)
TypeOK ==
    /\ pc \in [Uploads -> Running \cup {"idle", "late", "ok", "failed"}]
    /\ \A t \in Targets :
         lock[t] \in {None} \cup {u \in Uploads : t \in {Target[u], From[u]} /\ pc[u] \in Running}
    /\ seen \in [Uploads -> SUBSET Cids]
    /\ got \in [Uploads -> SUBSET Cids]
    /\ msgs \subseteq Uploads
    /\ proposal \in [(Targets \cup {Repo}) \X Users -> Uploads \cup {None}]
    /\ current \in [Targets -> SUBSET Cids]
    /\ events \in Seq(EventType)
    /\ todo # {} => events # <<>>
    /\ pinned \subseteq Cids
    /\ todo \subseteq Cids
    /\ dropping \in todo \cup {None}

(* Content that was pinned when its proposal was approved, with no unpin of *)
(* it under way, stays pinned for as long as the chain references it,       *)
(* whatever expires or is deleted next to it and whenever the process stops *)
(* in between: the handlers ask for the reference count before each unpin   *)
(* (deleteStorageObject.go:107, proposalTimeout.go:110).                    *)
ReferencedStaysPinned == \A c \in Referenced \ raced : c \in pinned

Quiet ==
    /\ \A u \in Uploads : pc[u] \in {"idle", "ok", "failed"}
    /\ msgs = {} /\ events = <<>> /\ todo = {} /\ dropping = None
    /\ \A k \in DOMAIN proposal : proposal[k] = None

(* When nothing is under way any more, everything pinned is referenced,     *)
(* except content whose message was lost or refused, whose handling failed, *)
(* that was added and then could not be pinned (ipfs.go:40), that a merge   *)
(* pinned after it had given up (mergePullRequest.go:464), or that was      *)
(* between adding and proposal, or in an event, when the process stopped    *)
(* (start.go:287).                                                          *)
PinsAccountedFor == Quiet => pinned \subseteq Referenced \cup astray

(* A push that reports success has its own content proposed, unless a merge *)
(* or an earlier push of the same user that failed had a message under way: *)
(* the check for a pending proposal (git_http.go:179) makes the poll's      *)
(* answer its own.                                                          *)
PushedMeansProposed ==
    \A u \in Uploads :
        Kind[u] = "push" /\ pc[u] = "ok" =>
            \/ u \in accepted
            \/ \E v \in Uploads \ {u} :
                 Key(v) = Key(u) /\ v \in accepted /\ (Kind[v] = "merge" \/ pc[v] = "failed")

(* Merges that wait for each other: each for a head repository whose lock   *)
(* another of them holds.                                                   *)
OpposedMerges ==
    \E S \in SUBSET {u \in Uploads : pc[u] = "waiting"} :
        S # {} /\ \A u \in S : lock[From[u]] \in S

(* Every upload that was asked for comes to an end, the ones that wait for  *)
(* a lock too, unless opposed merges stop for good (mergePullRequest.go:177 *)
(* locks the head after the base): however an upload ends, its deferred     *)
(* unlocks run (git_http.go:111), and the next one gets the lock.           *)
EveryUploadEnds == <>(\A u \in Uploads : pc[u] \in {"ok", "failed"}) \/ <>[]OpposedMerges

(* Every event is handled, unless the client that has it waits for opposed  *)
(* merges for good (mergePullRequest.go:149): whatever fails, the handlers  *)
(* get to the end of their queue.                                           *)
EventsAreHandled == []<>(events = <<>>) \/ <>[]OpposedMerges
=============================================================================
