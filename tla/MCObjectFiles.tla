---------------------------- MODULE MCObjectFiles ----------------------------
(* The instance of ObjectFiles for TLC.                                     *)
EXTENDS ObjectFiles, TLC

Symmetry == Permutations(Procs) \cup Permutations(Users) \cup Permutations(Assets)
=============================================================================
