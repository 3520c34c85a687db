---------------------------- MODULE MCSecretStore ----------------------------
(***************************************************************************)
(* Instances of SecretStore for TLC.                                       *)
(***************************************************************************)
EXTENDS SecretStore, TLC

Symmetry == Permutations(Clients) \cup Permutations(Texts)
=============================================================================
