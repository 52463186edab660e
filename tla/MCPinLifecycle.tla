--------------------------- MODULE MCPinLifecycle ----------------------------
(***************************************************************************)
(* Instances of PinLifecycle for TLC.  There are two pushes of one user to *)
(* a repository (a, b), a merge into it from a fork (d) and one of the     *)
(* other direction (e); two uploads of one LFS object (f, g), two edits of *)
(* a release by different users (h, j), one of which has the same content  *)
(* and more, and a deletion of the repository (i).  A behaviour is about   *)
(* two or three of them: the others were turned down by their checks       *)
(* before anything else happened.                                          *)
(***************************************************************************)
EXTENDS PinLifecycle, TLC

CONSTANTS a, b, d, e, f, g, h, i, j, c1, c2, w1, w2, pack, fork, obj, rel

MCKind == a :> "push" @@ b :> "push" @@ d :> "merge" @@ e :> "merge" @@ f :> "lfs"
          @@ g :> "lfs" @@ h :> "release" @@ j :> "release" @@ i :> "delete"
MCContent == a :> {c1} @@ b :> {c2} @@ d :> {c2} @@ e :> {c1} @@ f :> {c1}
             @@ g :> {c1} @@ h :> {c1, c2} @@ j :> {c2} @@ i :> {}
MCTarget == a :> pack @@ b :> pack @@ d :> pack @@ e :> fork @@ f :> obj
            @@ g :> obj @@ h :> rel @@ j :> rel @@ i :> Repo
MCFrom == [u \in Uploads |-> IF u = d THEN fork ELSE IF u = e THEN pack ELSE None]
MCUser == [u \in Uploads |-> IF u = h THEN w2 ELSE w1]

Casts == {{a, b, d}, {a, d, e}, {f, g, h}, {f, g, i}, {f, h, i}, {h, j}}

MCInit ==
    /\ \E cast \in Casts : pc = [u \in Uploads |-> IF u \in cast THEN "idle" ELSE "failed"]
    /\ lock = [t \in Targets |-> None]
    /\ seen = [u \in Uploads |-> {}]
    /\ got = [u \in Uploads |-> {}]
    /\ msgs = {}
    /\ proposal = [k \in (Targets \cup {Repo}) \X Users |-> None]
    /\ current = [t \in Targets |-> {}]
    /\ events = <<>>
    /\ pinned = {}
    /\ todo = {}
    /\ dropping = None
    /\ accepted = {} /\ astray = {} /\ raced = {}

MCSpec == MCInit /\ [][Next]_vars /\ Fairness
=============================================================================
