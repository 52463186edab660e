--------------------------- MODULE MCCacheManager ----------------------------
(***************************************************************************)
(* The instances of CacheManager for TLC, for each of the directories: two *)
(* entries of it, one request at a time and no failing system call, and    *)
(* one entry, two requests at a time and system calls that fail.           *)
(***************************************************************************)
EXTENDS CacheManager

CONSTANTS u1, u2

TwoEntries == {[k \in Entries |-> kd] : kd \in Kinds}
OneEntry == {[k \in Entries |-> IF k = 1 THEN kd ELSE None] : kd \in Kinds}
MCLayouts == TwoEntries \cup OneEntry

MCInit == Init /\ (faults = {} <=> kindOf \in TwoEntries)

MCNext == Next /\ (kindOf \in TwoEntries => lock'[u2] = NoLock)

MCSpec == MCInit /\ [][MCNext]_vars /\ Fairness
=============================================================================
