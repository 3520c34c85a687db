---------------------------- MODULE MCQuotaLedger ----------------------------
(***************************************************************************)
(* Instances of QuotaLedger for TLC: two items compete for a quota.        *)
(***************************************************************************)
EXTENDS QuotaLedger, TLC
=============================================================================
