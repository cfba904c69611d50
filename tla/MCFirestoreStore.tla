-------------------------- MODULE MCFirestoreStore --------------------------
(***************************************************************************)
(* FirestoreStore on a small instance; jobs and clients are interchangeable.*)
(***************************************************************************)
EXTENDS FirestoreStore, TLC

Symmetry == Permutations(JobIds) \cup Permutations(Clients)
=============================================================================
