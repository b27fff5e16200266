----------------------------- MODULE MCSandbox -----------------------------
(* A sandbox with a few calls of its worker. *)
EXTENDS Sandbox, TLC
=============================================================================
