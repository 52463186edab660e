------------------------------ MODULE TxOutbox -------------------------------
(***************************************************************************)
(* What the batch transaction manager promises its callers, without its    *)
(* queue, its worker and its batches: a message that was handed over is    *)
(* pending until the chain takes it or it is dropped, both for good, and   *)
(* the messages of one transaction share its fate in one step.             *)
(***************************************************************************)
CONSTANT Msgs

VARIABLE status

Statuses == {"new", "pending", "committed", "lost"}

Init == status = [m \in Msgs |-> "new"]

Submit(m) ==
    /\ status[m] = "new"
    /\ status' = [status EXCEPT ![m] = "pending"]

Resolve(S, outcome) ==
    /\ S # {} /\ \A m \in S : status[m] = "pending"
    /\ status' = [m \in Msgs |-> IF m \in S THEN outcome ELSE status[m]]

Next ==
    \/ \E m \in Msgs : Submit(m)
    \/ \E S \in SUBSET Msgs : Resolve(S, "committed") \/ Resolve(S, "lost")

Spec == Init /\ [][Next]_status
=============================================================================
