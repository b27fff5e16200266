----------------------------- MODULE MCEventLog -----------------------------
(* Instances of EventLog for TLC. *)
EXTENDS EventLog

\* A small event and one that needs a page of its own.
MCEventBytes == <<1, 3>>
=============================================================================
