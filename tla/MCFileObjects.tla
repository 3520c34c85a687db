---------------------------- MODULE MCFileObjects ----------------------------
(***************************************************************************)
(* Instances of FileObjects for TLC.                                       *)
(***************************************************************************)
EXTENDS FileObjects, TLC

Symmetry == Permutations(Clients) \cup Permutations(Objects)
=============================================================================
