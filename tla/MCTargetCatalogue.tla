------------------------- MODULE MCTargetCatalogue -------------------------
(* Small instances of TargetCatalogue: the configuration chooses the sets. *)
EXTENDS TargetCatalogue, TLC

\* Threads and unreserved targets are interchangeable.
Symmetry == Permutations(Workers) \union Permutations(Targets \ Reserved)
=============================================================================
