----------------------- MODULE MCDestinationEditor -----------------------
(* Small instances of DestinationEditor: two aliases, two contexts.  What is *)
(* tried for them is bounded unevenly in the run with liveness: both contexts *)
(* for one entry, one for a new destination, the other alias to rename to.   *)
EXTENDS DestinationEditor, TLC

CONSTANTS a, b, p, q

Uneven == [k \in Keys |-> CASE k = a -> {p, q} [] k = New -> {p} [] OTHER -> {}]
Even   == [k \in Keys |-> Contexts]

\* Aliases and contexts are interchangeable where all are tried; used without
\* liveness.
Symmetry == Permutations(Aliases) \union Permutations(Contexts)
=============================================================================
