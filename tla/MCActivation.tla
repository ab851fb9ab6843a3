---------------------------- MODULE MCActivation ----------------------------
(* Small instances of Activation: the configurations choose the sets. *)
EXTENDS Activation
=============================================================================
