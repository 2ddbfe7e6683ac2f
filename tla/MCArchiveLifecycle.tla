------------------------- MODULE MCArchiveLifecycle -------------------------
(* Instances of ArchiveLifecycle for TLC. *)
EXTENDS ArchiveLifecycle, TLC

\* Names are told apart only by the age of their CRs, collectors not at all.
Symmetry == Permutations(Archives) \cup Permutations(Collectors)
=============================================================================
