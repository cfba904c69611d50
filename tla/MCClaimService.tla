--------------------------- MODULE MCClaimService ---------------------------
(***************************************************************************)
(* ClaimService on a small instance.  One job is enough: handlers, messages*)
(* and requests of different jobs share nothing but the quota counters,    *)
(* which JobStore's own runs check with several jobs.                      *)
(***************************************************************************)
EXTENDS ClaimService, TLC
=============================================================================
