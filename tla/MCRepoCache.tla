----------------------------- MODULE MCRepoCache -----------------------------
(* Instances of RepoCache for TLC.                                          *)
EXTENDS RepoCache, TLC

CONSTANTS p1, p2, base, fork

(* One repository, or one and a fork of it.                                 *)
Alone == base :> None
BaseAndFork == base :> None @@ fork :> base

(* Two instances in one run: writers of both repositories, which have one   *)
(* packfile each, while the fork is evicted, and readers and writers of the *)
(* fork, which gets a second, of a base that has none.                      *)
Writers == modes = {"w"}

MCInit ==
    /\ Init
    /\ Writers => faults = {"query", "fetch", "evict"}
    /\ ~Writers => faults = {"query", "fetch", "copy"} /\ repo \in [Procs -> {fork}]

MCNext ==
    /\ Next
    /\ Writers => /\ made' \in [Repos -> 0..1]
                  /\ condemned' \subseteq {fork} /\ tip'[base] = NoRef /\ tip'[fork][1] # base
    /\ ~Writers => /\ repo' \in [Procs -> {fork}]
                  /\ made'[base] = 0 /\ tip'[base] = NoRef

MCSpec == MCInit /\ [][MCNext]_vars

(* Requests are interchangeable.                                            *)
Symmetry == Permutations(Procs)
=============================================================================
