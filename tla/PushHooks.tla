------------------------------ MODULE PushHooks ------------------------------
(***************************************************************************)
(* The two git hooks of a repository (hooks/) around the ref updates of a  *)
(* push: pre-receive turns a push down that would rewrite a branch the     *)
(* chain protects, post-receive keeps what a push took away from a branch  *)
(* in refs/dangling, since git gc runs after every push.  Both read one    *)
(* line of their input, the first update of the push, and take the first   *)
(* part of the ref's name for the branch.                                  *)
(*                                                                         *)
(* git receive-pack itself is external: it runs pre-receive on all updates *)
(* of a push, applies those whose old value is current, and runs           *)
(* post-receive on the ones it applied.  The repository's lock lets one    *)
(* push in at a time.  The refs live in the cached directory: a push that  *)
(* is dropped and the cache manager remove it, and the next one has the    *)
(* branches and tags of the chain, and no refs/dangling.                   *)
(***************************************************************************)
EXTENDS Naturals, Sequences

CONSTANTS Commits,
          Parents,     \* commit -> its parents
          Refs,        \* refs a push updates
          HookBranch,  \* ref -> the branch its name is taken for, or itself
          HeadRef,     \* the ref HEAD names, which git does not delete
          Zero,        \* ZeroSHA: no commit
          HookFails    \* whether post-receive can fail or be killed

ASSUME HooksAssumption ==
    /\ Parents \in [Commits -> SUBSET Commits]
    /\ HookBranch \in [Refs -> Refs \cup {Zero}]
    /\ HeadRef \in Refs /\ Zero \notin Commits /\ HookFails \in BOOLEAN

VARIABLES
    tip,       \* ref -> its commit, or Zero
    dangling,  \* commits under refs/dangling
    record,    \* chain: ref -> "none", "protected" or "force"
    push,      \* the updates of the push under way
    at,        \* where it is: "idle", "pre", "apply" or "post"
    had,       \* history: commits that refs of this directory had
    lost       \* history: what is behind one that post-receive did not see go

hooksVars == <<tip, dangling, record, push, at, had, lost>>

Updates == [ref : Refs, old : Commits \cup {Zero}, new : Commits \cup {Zero}]

(* A commit and its ancestors: what every set that holds the commit, and    *)
(* with a commit its parents, has in it.                                    *)
WithParents(S) == \A c \in S : Parents[c] \subseteq S
Line == [c \in Commits |-> {a \in Commits : \A S \in SUBSET Commits :
                                              c \in S /\ WithParents(S) => a \in S}]

Reached(tips, d) == UNION {Line[c] : c \in (d \cup {tips[r] : r \in Refs}) \ {Zero}}

HooksInit ==
    /\ tip = [r \in Refs |-> Zero]
    /\ dangling = {}
    /\ record = [r \in Refs |-> "none"]
    /\ push = <<>>
    /\ at = "idle"
    /\ had = {}
    /\ lost = {}

----------------------------------------------------------------------------
(* A branch is set, protected, opened or deleted on the chain.              *)
SetRecord(r, x) ==
    /\ record[r] # x
    /\ record' = [record EXCEPT ![r] = x]
    /\ UNCHANGED <<tip, dangling, push, at, had, lost>>

(* A push of one or two updates; the client's idea of the first one's old   *)
(* value may be out of date.                                                *)
Receive(us) ==
    /\ at = "idle"
    /\ \A i \in DOMAIN us : us[i].new # us[i].old /\ (Len(us) = 2 => us[i].old = tip[us[i].ref])
    /\ Len(us) = 2 => us[1].ref # us[2].ref
    /\ push' = us
    /\ at' = "pre"
    /\ UNCHANGED <<tip, dangling, record, had, lost>>

(* git merge-base OldRev NewRev: it fails when the two have nothing in      *)
(* common, and it is the old commit only if that is behind the new one.     *)
Related(u) == Line[u.old] \cap Line[u.new] # {}
Creates(u) == u.old = Zero
Deletes(u) == u.new = Zero /\ u.old # Zero

IsForcePush(u) == ~Creates(u) /\ ~Deletes(u) /\ u.old \notin Line[u.new]
MergeBaseFails(u) == ~Creates(u) /\ ~Deletes(u) /\ ~Related(u)

(* pre-receive: a branch the chain does not know is free.                   *)
IsForcePushAllowedForBranch(b) == b \in Refs => record[b] \in {"none", "force"}

Accepts(u) ==
    \/ IsForcePushAllowedForBranch(HookBranch[u.ref])
    \/ ~IsForcePush(u) /\ ~MergeBaseFails(u)

PreReceive ==
    /\ at = "pre"
    /\ \/ Accepts(push[1]) /\ at' = "apply" /\ UNCHANGED push
       \/ ~Accepts(push[1]) /\ at' = "idle" /\ push' = <<>>
       \/ at' = "idle" /\ push' = <<>>      \* a query failed
    /\ UNCHANGED <<tip, dangling, record, had, lost>>

(* git receive-pack applies the updates it can, in their order.             *)
Applies(u) == tip[u.ref] = u.old /\ ~(Deletes(u) /\ u.ref = HeadRef)
IfApplies(u) == IF Applies(u) THEN <<u>> ELSE <<>>
Applied == IfApplies(push[1]) \o (IF Len(push) = 2 THEN IfApplies(push[2]) ELSE <<>>)

(* The refs after the updates us, of different refs.                        *)
Moved(us) ==
    [r \in Refs |-> IF \E i \in DOMAIN us : us[i].ref = r
                    THEN us[CHOOSE i \in DOMAIN us : us[i].ref = r].new ELSE tip[r]]

(* What is behind the tips that updates take away and post-receive passes   *)
(* over: it reads the first update only, and wants a merge base.            *)
Rewrites(u) == Deletes(u) \/ IsForcePush(u)
PassedOver(us) ==
    UNION {Line[us[i].old] : i \in {i \in DOMAIN us : Rewrites(us[i]) /\ (i # 1 \/ MergeBaseFails(us[i]))}}

Apply ==
    /\ at = "apply"
    /\ tip' = Moved(Applied)
    /\ push' = Applied
    /\ at' = IF Applied = <<>> THEN "idle" ELSE "post"
    /\ had' = had \cup ({Moved(Applied)[r] : r \in Refs} \ {Zero})
    /\ lost' = lost \cup PassedOver(Applied)
    /\ UNCHANGED <<dangling, record>>

(* post-receive; Parse, git merge-base and git update-ref can fail, and a   *)
(* client that goes away ends git and the hook.                             *)
Saved(u) == IF Rewrites(u) /\ ~MergeBaseFails(u) THEN {u.old} ELSE {}

BugDeleteForgotten ==
    /\ at = "post"
    /\ dangling' = dangling \cup (IF Deletes(push[1]) THEN {} ELSE Saved(push[1]))
    /\ at' = "idle" /\ push' = <<>>
    /\ UNCHANGED <<tip, record, had, lost>>

PostReceive ==
    /\ at = "post"
    /\ \/ dangling' = dangling \cup Saved(push[1]) /\ UNCHANGED lost
       \/ /\ HookFails
          /\ lost' = lost \cup UNION {Line[c] : c \in Saved(push[1])}
          /\ UNCHANGED dangling
    /\ at' = "idle" /\ push' = <<>>
    /\ UNCHANGED <<tip, record, had>>

(* The directory is removed, and cached again with the refs t of the chain. *)
CacheAgain(t) ==
    /\ at = "idle"
    /\ tip' = t
    /\ dangling' = {}
    /\ had' = {t[r] : r \in Refs} \ {Zero}
    /\ lost' = {}
    /\ UNCHANGED <<record, push, at>>

HooksNext ==
    \/ \E r \in Refs, x \in {"none", "protected", "force"} : SetRecord(r, x)
    \/ \E u \in Updates : Receive(<<u>>)
    \/ \E u, v \in Updates : u.old = tip[u.ref] /\ v.old = tip[v.ref] /\ Receive(<<u, v>>)
    \/ PreReceive \/ Apply \/ PostReceive
    \/ \E t \in [Refs -> Commits \cup {Zero}] : CacheAgain(t)

HooksSpec == HooksInit /\ [][HooksNext]_hooksVars

----------------------------------------------------------------------------
(* Post-receive: after any number of forced pushes and deletions, what a    *)
(* ref of the cached directory ever had is reached from some ref of it, so  *)
(* that git gc keeps it, unless it is behind a commit whose going           *)
(* post-receive did not see or could not record (post-receive/main.go:26):  *)
(* a later update of a push, an unrelated replacement, a hook that failed.  *)
OldTipsKept == at # "post" => had \subseteq Reached(tip, dangling) \cup lost

----------------------------------------------------------------------------
(* What the readme says of the hooks, and the code does not do.             *)

(* readme.md:684: the pre-receive hook rejects pushes that are no fast      *)
(* forward where force pushes are not allowed "to protect repository        *)
(* history".                                                                *)
RewritesRejected ==
    [][PreReceive /\ at' = "apply" =>
          \A i \in DOMAIN push :
              record[push[i].ref] = "protected" /\ Applies(push[i]) => ~IsForcePush(push[i])]_hooksVars
=============================================================================
