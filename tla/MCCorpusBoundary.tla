-------------------------- MODULE MCCorpusBoundary --------------------------
(***************************************************************************)
(* CorpusBoundary on a small instance; builds are interchangeable.         *)
(***************************************************************************)
EXTENDS CorpusBoundary, TLC

\* The reference of a fixture manifest is free text that no check reads.
MCManifests == {m \in Manifest : IsFixture(m) => m.reference = "real"}

Symmetry == Permutations(Builds)
=============================================================================
