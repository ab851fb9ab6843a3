--------------------------- MODULE MCControlPanel ---------------------------
(* Small instances of ControlPanel: the configurations choose the sets. *)
EXTENDS ControlPanel
=============================================================================
