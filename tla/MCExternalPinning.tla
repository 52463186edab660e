-------------------------- MODULE MCExternalPinning --------------------------
(* The instances of ExternalPinning for TLC.                                *)
EXTENDS ExternalPinning

CONSTANTS s1, s2, s3, s4

(* Two packfiles, whose events can be in one buffer, and one slot of each   *)
(* other kind, or some of these; a deletion of the repository is about all  *)
(* of them.                                                                 *)
OneRepository ==
    LET kinds == s1 :> "packfile" @@ s2 :> "packfile" @@ s3 :> "asset" @@ s4 :> "lfs"
    IN [s \in Slots |-> kinds[s]]
=============================================================================
