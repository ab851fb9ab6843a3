-------------------------- MODULE MCControlServer --------------------------
(* Small instances of ControlServer: the configuration chooses the sets. *)
EXTENDS ControlServer
=============================================================================
