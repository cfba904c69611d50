----------------------------- MODULE MCJobStore -----------------------------
(***************************************************************************)
(* JobStore on a small instance.  Job identities are interchangeable: the  *)
(* store never compares two of them, so their permutations are a symmetry. *)
(***************************************************************************)
EXTENDS JobStore, TLC

JobSymmetry == Permutations(JobIds)
=============================================================================
