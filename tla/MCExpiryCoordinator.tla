------------------------- MODULE MCExpiryCoordinator -------------------------
(***************************************************************************)
(* Instances of ExpiryCoordinator for TLC.                                 *)
(***************************************************************************)
EXTENDS ExpiryCoordinator, TLC
=============================================================================
