-------------------------- MODULE MCControlDaemon --------------------------
(* Small instances of ControlDaemon: the configurations choose the sets. *)
EXTENDS ControlDaemon, TLC

\* Workers and targets are interchangeable; used by runs without liveness.
Symmetry == Permutations(Workers) \union Permutations(Targets)
=============================================================================
