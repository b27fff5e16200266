-------------------------- MODULE MCWorkerService --------------------------
(* Instances of WorkerService for TLC. *)
EXTENDS WorkerService
=============================================================================
