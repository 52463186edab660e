----------------------------- MODULE MCRequests ------------------------------
(***************************************************************************)
(* Four small components that share no state, checked in one run: the      *)
(* hooks of a push, the storage charge, the answer to a challenge and the  *)
(* pages of a list.  A behaviour is one of a single component.             *)
(***************************************************************************)
EXTENDS PushHooks, StorageQuota, Challenge, Pagination, TLC

VARIABLE part   \* the component this behaviour is about

CONSTANTS c1, c2, c3, main, feature

(* c2 comes after c1, c3 has nothing to do with them; HEAD names main, and  *)
(* feature has a slash in its name.                                         *)
MCParents == c1 :> {} @@ c2 :> {c1} @@ c3 :> {}
MCHookBranch == main :> main @@ feature :> Zero

(* Chunks of two bytes: files of one to five chunks, with a short last      *)
(* chunk or not, equal chunks and files that begin alike.                   *)
MCFiles == {<<1>>, <<1, 2>>, <<1, 2, 1>>, <<1, 2, 1, 2>>, <<1, 2, 1, 2, 3>>, <<1, 2, 3, 4, 5>>,
            <<1, 2, 3, 4, 5, 6>>, <<1, 1, 1, 1, 1, 1>>, <<1, 2, 3, 4, 5, 6, 7>>,
            <<1, 2, 3, 4, 1, 2, 3, 4>>, <<1, 2, 3, 4, 5, 6, 7, 8, 9>>}

MCInit ==
    /\ part \in {"hooks", "quota", "challenge", "pages"}
    /\ HooksInit
    /\ QuotaInit /\ (part = "quota" \/ balance = 0)
    /\ ChallengeInit /\ (part = "challenge" \/ content = <<1>>)
    /\ PagesInit /\ (part = "pages" \/ (list = "commits" /\ total = 0 /\ offset = 0 /\ limit = 0))

MCNext ==
    /\ \/ part = "hooks" /\ HooksNext /\ UNCHANGED <<quotaVars, challengeVars, pageVars>>
       \/ part = "quota" /\ QuotaNext /\ UNCHANGED <<hooksVars, challengeVars, pageVars>>
       \/ part = "challenge" /\ ChallengeNext /\ UNCHANGED <<hooksVars, quotaVars, pageVars>>
       \/ part = "pages" /\ PagesNext /\ UNCHANGED <<hooksVars, quotaVars, challengeVars>>
    /\ UNCHANGED part

MCVars == <<part, hooksVars, quotaVars, challengeVars, pageVars>>
MCSpec == MCInit /\ [][MCNext]_MCVars
=============================================================================
