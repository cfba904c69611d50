----------------------------- MODULE MCClaimPage -----------------------------
(***************************************************************************)
(* ClaimPage on one job: jobs of different pages share nothing but the     *)
(* quota counters.                                                         *)
(***************************************************************************)
EXTENDS ClaimPage, TLC
=============================================================================
