-------------------------- MODULE MCServerExample ---------------------------
(* Instances of ServerExample for TLC. *)
EXTENDS ServerExample
=============================================================================
