----------------------------- MODULE MergeLocks ------------------------------
(***************************************************************************)
(* Who waits for whom on the repositories' locks.  A merge locks its base  *)
(* repository for writing and then, while it holds that, its head          *)
(* repository (handler/mergePullRequest.go); the three handlers of pull    *)
(* requests (internal/app/handler/pr) do the same for reading; pushes and  *)
(* fetches lock one repository for writing, the browsing handlers one for  *)
(* reading, as a view of a pull request within a repository does.  All     *)
(* hold what they have until they end.                                     *)
(*                                                                         *)
(* Merges are events.  One websocket client hands a buffer of events to    *)
(* its handler, which works on up to MaxWorkers of them at a time and      *)
(* returns when the last has ended; only then does the client read its     *)
(* next buffer, be it of merges, challenges or deletions.                  *)
(*                                                                         *)
(* The locks are those of RefCountedRWMutex with an intact table, reduced  *)
(* to sync.RWMutex: writers queue, the first one announces itself and      *)
(* waits for the readers to leave, readers that come after it sleep until  *)
(* it is done.                                                             *)
(***************************************************************************)
EXTENDS Naturals, Sequences, FiniteSets

CONSTANTS Repos,
          Ops,        \* requests and events
          Kind,       \* op -> "merge", "view", "push" or "other"
          BaseRepo, HeadRepo, \* op -> the repositories of its pull request, or twice its own
          Buffer,     \* op -> the buffer its event comes in; 0 for requests
          MaxWorkers  \* maxWorkers of mergePullRequest.go

Buffers == {Buffer[o] : o \in Ops} \ {0}
EventsOf(b) == {o \in Ops : Buffer[o] = b}

ASSUME ConstantsAssumption ==
    /\ Kind \in [Ops -> {"merge", "view", "push", "other"}]
    /\ BaseRepo \in [Ops -> Repos] /\ HeadRepo \in [Ops -> Repos]
    /\ Buffer \in [Ops -> Nat]
    /\ \A o \in Ops : Buffer[o] > 0 <=> Kind[o] \in {"merge", "other"}
    /\ MaxWorkers \in Nat \ {0}

VARIABLES
    pc,     \* op -> "new", "queued", "running", "ending" or "done"
    held,   \* op -> how many locks of its plan it holds
    wait,   \* op -> "no", "queued", "announced" (writers) or "parked" (readers)
    buffer  \* the buffer whose events the client's handler is working on

vars == <<pc, held, wait, buffer>>

W(r) == [repo |-> r, mode |-> "w"]
R(r) == [repo |-> r, mode |-> "r"]

(* The locks an operation takes, in order.                                  *)
BugHeadFirst == [o \in Ops |->
    CASE Kind[o] = "merge" -> IF BaseRepo[o] = HeadRepo[o] THEN <<W(BaseRepo[o])>>
                              ELSE <<W(HeadRepo[o]), W(BaseRepo[o])>>
      [] Kind[o] = "view"  -> IF BaseRepo[o] = HeadRepo[o] THEN <<R(BaseRepo[o])>>
                              ELSE <<R(BaseRepo[o]), R(HeadRepo[o])>>
      [] Kind[o] = "push"  -> <<W(BaseRepo[o])>>
      [] Kind[o] = "other" -> <<>>]

Plan == [o \in Ops |->
    CASE Kind[o] = "merge" -> IF BaseRepo[o] = HeadRepo[o] THEN <<W(BaseRepo[o])>>
                              ELSE <<W(BaseRepo[o]), W(HeadRepo[o])>>
      [] Kind[o] = "view"  -> IF BaseRepo[o] = HeadRepo[o] THEN <<R(BaseRepo[o])>>
                              ELSE <<R(BaseRepo[o]), R(HeadRepo[o])>>
      [] Kind[o] = "push"  -> <<W(BaseRepo[o])>>
      [] Kind[o] = "other" -> <<>>]

Wanted(o) == Plan[o][held[o] + 1]
Holds(o, r, modes) == \E i \in 1..held[o] : Plan[o][i].repo = r /\ Plan[o][i].mode \in modes
Waits(o, r, how) == wait[o] = how /\ Wanted(o).repo = r

(* A writer has the mutex's inner lock: it has announced itself, or entered. *)
HasWriter(r) == \E o \in Ops : Holds(o, r, {"w"}) \/ Waits(o, r, "announced")

Init ==
    /\ pc = [o \in Ops |-> "new"]
    /\ held = [o \in Ops |-> 0]
    /\ wait = [o \in Ops |-> "no"]
    /\ buffer = 0

----------------------------------------------------------------------------
(* The client reads a buffer when its handler has returned from the last.   *)
TakeBuffer ==
    /\ \A o \in EventsOf(buffer) : buffer > 0 => pc[o] = "done"
    /\ \E b \in Buffers :
         /\ buffer < b /\ \A c \in Buffers : buffer < c => b <= c
         /\ buffer' = b
         /\ pc' = [o \in Ops |-> IF Buffer[o] = b THEN "queued" ELSE pc[o]]
    /\ UNCHANGED <<held, wait>>

(* A request starts at any time, an event's goroutine when it gets into the *)
(* semaphore.  A merge ends at once if it is for another provider or the    *)
(* pull request cannot be queried.                                          *)
Start(o) ==
    /\ \/ pc[o] = "new" /\ Buffer[o] = 0
       \/ /\ pc[o] = "queued"
          /\ Cardinality({e \in EventsOf(buffer) : pc[e] \in {"running", "ending"}}) < MaxWorkers
    /\ \/ pc' = [pc EXCEPT ![o] = "running"]
       \/ Kind[o] = "merge" /\ pc' = [pc EXCEPT ![o] = "done"]
    /\ UNCHANGED <<held, wait, buffer>>

(* LockRepository joins the queue of writers; RLockRepository enters, or    *)
(* sleeps if a writer has announced itself.                                 *)
Lock(o) ==
    /\ pc[o] = "running" /\ wait[o] = "no" /\ held[o] < Len(Plan[o])
    /\ IF Wanted(o).mode = "w"
       THEN wait' = [wait EXCEPT ![o] = "queued"] /\ UNCHANGED held
       ELSE IF HasWriter(Wanted(o).repo)
       THEN wait' = [wait EXCEPT ![o] = "parked"] /\ UNCHANGED held
       ELSE held' = [held EXCEPT ![o] = @ + 1] /\ UNCHANGED wait
    /\ UNCHANGED <<pc, buffer>>

Announce(o) ==
    /\ wait[o] = "queued" /\ ~HasWriter(Wanted(o).repo)
    /\ wait' = [wait EXCEPT ![o] = "announced"]
    /\ UNCHANGED <<pc, held, buffer>>

Enter(o) ==
    /\ wait[o] = "announced"
    /\ \A p \in Ops : ~Holds(p, Wanted(o).repo, {"r", "w"})
    /\ held' = [held EXCEPT ![o] = @ + 1]
    /\ wait' = [wait EXCEPT ![o] = "no"]
    /\ UNCHANGED <<pc, buffer>>

(* The work is done, or fails.  A handler of a pull request caches the base *)
(* before it locks the head, and may fail at that too.                      *)
Finish(o) ==
    /\ pc[o] = "running" /\ wait[o] = "no"
    /\ held[o] = Len(Plan[o]) \/ (Kind[o] = "view" /\ held[o] = 1)
    /\ pc' = [pc EXCEPT ![o] = IF held[o] = 0 THEN "done" ELSE "ending"]
    /\ UNCHANGED <<held, wait, buffer>>

(* The deferred unlocks, the last lock first.  A writer that leaves lets in *)
(* the readers that sleep behind it.                                        *)
BugForgetsBase(o) ==
    /\ pc[o] = "ending" /\ held[o] > 0
    /\ LET l == Plan[o][held[o]]
           in == {p \in Ops : l.mode = "w" /\ Waits(p, l.repo, "parked")}
       IN /\ held' = [p \in Ops |-> IF p = o THEN held[p] - 1
                                    ELSE IF p \in in THEN held[p] + 1 ELSE held[p]]
          /\ wait' = [p \in Ops |-> IF p \in in THEN "no" ELSE wait[p]]
    /\ pc' = [pc EXCEPT ![o] = "done"]
    /\ UNCHANGED buffer

Unlock(o) ==
    /\ pc[o] = "ending"
    /\ LET l == Plan[o][held[o]]
           in == {p \in Ops : l.mode = "w" /\ Waits(p, l.repo, "parked")}
       IN /\ held' = [p \in Ops |-> IF p = o THEN held[p] - 1
                                    ELSE IF p \in in THEN held[p] + 1 ELSE held[p]]
          /\ wait' = [p \in Ops |-> IF p \in in THEN "no" ELSE wait[p]]
    /\ pc' = [pc EXCEPT ![o] = IF held[o] = 1 THEN "done" ELSE "ending"]
    /\ UNCHANGED buffer

Step(o) == Lock(o) \/ Announce(o) \/ Enter(o) \/ Finish(o) \/ Unlock(o)

Next == TakeBuffer \/ \E o \in Ops : Start(o) \/ Step(o)

Spec == Init /\ [][Next]_vars

(* The client reads on, its goroutines get into the semaphore, and whatever *)
(* runs goes on when it can: git, IPFS and the polls have timeouts, and     *)
(* sync.Mutex serves its queue.  No request has to come.                    *)
Fairness ==
    /\ WF_vars(TakeBuffer)
    /\ \A o \in Ops : WF_vars(Step(o) \/ (Buffer[o] > 0 /\ Start(o)))

FairSpec == Spec /\ Fairness

----------------------------------------------------------------------------
(* The state has the shape the code gives it, and the mutexes exclude: who  *)
(* waits wants something, and a repository with a writer has no one else.   *)
TypeOK ==
    /\ pc \in [Ops -> {"new", "queued", "running", "ending", "done"}]
    /\ \A o \in Ops : held[o] \in 0..Len(Plan[o])
    /\ wait \in [Ops -> {"no", "queued", "announced", "parked"}]
    /\ \A o \in Ops : wait[o] # "no" => pc[o] = "running" /\ held[o] < Len(Plan[o])
    /\ buffer \in Buffers \cup {0}
    /\ \A r \in Repos, o, p \in Ops :
         Holds(o, r, {"w"}) /\ Holds(p, r, {"r", "w"}) => o = p

(* o cannot go on before p has done something.                              *)
WaitsFor(o, p) ==
    /\ wait[o] # "no"
    /\ LET r == Wanted(o).repo
       IN \/ wait[o] = "announced" /\ Holds(p, r, {"r", "w"})
          \/ wait[o] \in {"queued", "parked"} /\ (Holds(p, r, {"w"}) \/ Waits(p, r, "announced"))

(* Pull requests, of a set of operations, that go round in a circle: there  *)
(* are repositories from each of which one leads, from its base to its head, *)
(* to another of them.                                                      *)
Circular(S) ==
    \E Q \in SUBSET Repos :
        /\ Q # {}
        /\ \A r \in Q : \E o \in S : BaseRepo[o] = r /\ HeadRepo[o] \in Q \ {r} /\ Len(Plan[o]) = 2

(* Operations can wait for each other for ever (mergePullRequest.go:177,    *)
(* pr/diff.go:48), but only when their pull requests lead round in a        *)
(* circle, as two between the same repositories in opposite directions do:  *)
(* since all lock the base first, neither pushes nor a mix of reading and   *)
(* writing handlers, nor readers that sleep behind a waiting writer, can    *)
(* bring it about on their own.                                             *)
CircularWaitIsOpposed ==
    \A S \in SUBSET {o \in Ops : wait[o] # "no"} :
        S # {} /\ (\A o \in S : \E p \in S : WaitsFor(o, p)) => Circular({o \in S : held[o] = 1})

(* While no such pull requests are worked on at a time, every request that  *)
(* started and every event of every buffer comes to its end, those too that *)
(* are in the buffers behind a merge (mergePullRequest.go:149).             *)
ServedUnlessOpposed ==
    \/ <>Circular({o \in Ops : pc[o] = "running"})
    \/ <>[](\A o \in Ops : pc[o] = "done" \/ (pc[o] = "new" /\ Buffer[o] = 0))
=============================================================================
