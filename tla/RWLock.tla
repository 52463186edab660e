------------------------------- MODULE RWLock --------------------------------
(***************************************************************************)
(* What the lock table of utils/cache.go promises the callers of           *)
(* LockRepository, RLockRepository and their unlocks for one key, without  *)
(* its map, counters and mutexes: many readers or one writer; a writer     *)
(* whose turn it is shuts out later readers; whoever leaves needs nobody's *)
(* permission.  The promise ends for good when the entry is taken away     *)
(* from somebody who waits for the lock or holds it, and only then.        *)
(***************************************************************************)
CONSTANT Procs

VARIABLE state   \* goroutine -> what it is to the lock

Init == state = [p \in Procs |-> "idle"]

Become(p, s) == state' = [state EXCEPT ![p] = s]

NoWriter  == \A p \in Procs : state[p] \notin {"next", "writes"}
NoReaders == \A p \in Procs : state[p] # "reads"

Ask(p) ==
    /\ state[p] = "idle"
    /\ Become(p, "wantsRead") \/ Become(p, "wantsWrite")

(* Readers enter one by one, or all that a writer kept waiting at once.     *)
Admit(S) ==
    /\ NoWriter
    /\ \A p \in S : state[p] = "wantsRead"
    /\ state' = [p \in Procs |-> IF p \in S THEN "reads" ELSE state[p]]

Announce(p) == NoWriter /\ state[p] = "wantsWrite" /\ Become(p, "next")

Enter(p) == NoReaders /\ state[p] = "next" /\ Become(p, "writes")

Leave(p) == state[p] \in {"reads", "writes"} /\ Become(p, "idle")

Lose ==
    /\ \E p \in Procs : state[p] \notin {"idle", "lost"}
    /\ state' = [p \in Procs |-> "lost"]

Next ==
    \/ \E p \in Procs : Ask(p) \/ Announce(p) \/ Enter(p) \/ Leave(p)
    \/ \E S \in SUBSET Procs : Admit(S)
    \/ Lose

Spec == Init /\ [][Next]_state
=============================================================================
