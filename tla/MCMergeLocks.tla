---------------------------- MODULE MCMergeLocks -----------------------------
(* The instance of MergeLocks for TLC.                                      *)
EXTENDS MergeLocks, TLC

CONSTANTS a, b, m1, m2, m3, v1, v2, p, x

(* Pull requests from b to a, from a to b and within b: merges of all in a  *)
(* buffer, views of the first two, and a push to a; a challenge comes in    *)
(* the buffer behind the merges.                                            *)
MCKind == m1 :> "merge" @@ m2 :> "merge" @@ m3 :> "merge" @@ v1 :> "view" @@ v2 :> "view"
          @@ p :> "push" @@ x :> "other"
MCBase == m1 :> a @@ m2 :> b @@ m3 :> b @@ v1 :> a @@ v2 :> b @@ p :> a @@ x :> a
MCHead == m1 :> b @@ m2 :> a @@ m3 :> b @@ v1 :> b @@ v2 :> a @@ p :> a @@ x :> a
MCBuffer == m1 :> 1 @@ m2 :> 1 @@ m3 :> 1 @@ v1 :> 0 @@ v2 :> 0 @@ p :> 0 @@ x :> 2
=============================================================================
