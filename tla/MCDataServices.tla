-------------------------- MODULE MCDataServices ----------------------------
(* An instance of DataServices for TLC. *)
EXTENDS DataServices
=============================================================================
