----------------------------- MODULE MCRunQueue -----------------------------
(***************************************************************************)
(* Finite instances of RunQueue.  The configurations choose how many runs  *)
(* share how many workspaces and how the hosts' clocks differ.             *)
(***************************************************************************)
EXTENDS RunQueue

CONSTANTS r1, r2, w1, w2, ws1, t1

OneWorkspace == [r \in Runs |-> ws1]
OneTenant == [r \in Runs |-> t1]

\* All clocks agree.
NoOffset == [h \in Hosts |-> 0]

\* One worker's clock is ahead of the database's, the scheduler's is behind.
SkewedClocks == [h \in Hosts |-> IF h = w1 THEN 1 ELSE IF h = Scheduler THEN -1 ELSE 0]
=============================================================================
