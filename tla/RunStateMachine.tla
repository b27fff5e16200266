--------------------------- MODULE RunStateMachine ---------------------------
(***************************************************************************)
(* The run aggregate and its lifecycle functions                           *)
(* (agent_core/domain/transitions.py, agent_core/domain/models.py).        *)
(*                                                                         *)
(* Instants are kept relative to the database clock: an expiry of 2 is two *)
(* ticks ahead of it, an expiry of 0 or less is past.  An operation passes *)
(* its host's clock as an offset `at', so "lease_expires_at <= occurred_at"*)
(* reads expiry <= at.  `age' is how long ago the lifecycle started        *)
(* (started_at, or created_at before the first start).                     *)
(***************************************************************************)
EXTENDS Integers

CONSTANTS
    Workers,     \* worker identities
    None         \* SQL NULL

ASSUME NoneIsNoWorker == None \notin Workers

Assigned  == {"leased", "running"}
Waiting   == {"queued", "waiting_approval", "retry_pending", "lost"}
Terminal  == {"completed", "failed", "cancelled"}
RunStatus == Assigned \cup Waiting \cup Terminal

\* What a worker may report as the result of one execution
\* (RunExecutionResult's validator).
ResultStatus == Terminal \cup {"waiting_approval", "retry_pending"}

\* RUN_STATUS_TRANSITIONS
TransitionAllowed(s, new) ==
    \/ s = "queued" /\ new \in {"leased", "cancelled"}
    \/ s = "leased" /\ new \in {"running", "queued", "cancelled", "lost"}
    \/ s = "running" /\ new \in {"waiting_approval", "retry_pending", "completed",
                                 "failed", "cancelled", "lost"}
    \/ s = "waiting_approval" /\ new \in {"queued", "failed", "cancelled"}
    \/ s = "retry_pending" /\ new \in {"queued", "failed", "cancelled"}
    \/ s = "lost" /\ new \in {"queued", "cancelled"}

Rewindable == Terminal \cup {"waiting_approval", "retry_pending", "lost"}

Instant == Int \cup {None}

\* A row of the table `runs': the aggregate, the lease generation and the
\* retry time that the repositories keep beside it; "absent" is no row.
RunRow == [status  : RunStatus \cup {"absent"},
           attempt : Int,
           epoch   : Int,             \* execution_epoch
           worker  : Workers \cup {None},
           expiry  : Instant,         \* lease_expires_at
           gen     : Int,             \* lease_generation
           cancel  : BOOLEAN,         \* cancellation_requested
           retryAt : Instant,         \* retry_ready_at
           started : BOOLEAN,         \* started_at is set
           age     : Int]

\* The table's CHECK constraint retry_ready_state; a transaction that breaks it fails.
RetryReadyState(row) == (row.status = "retry_pending") <=> (row.retryAt # None)

NewRun(at) ==
    [status |-> "queued", attempt |-> 1, epoch |-> 1, worker |-> None, expiry |-> None,
     gen |-> 0, cancel |-> FALSE, retryAt |-> None, started |-> FALSE, age |-> -at]

\* The two checks that make transition_run raise.
CanTransition(run, new, at) ==
    /\ TransitionAllowed(run.status, new)
    /\ run.age + at >= 0

\* Only a requeue after a retry or a loss opens a new attempt.
NextAttempt(run, new) ==
    IF new = "queued" /\ run.status \in {"retry_pending", "lost"}
    THEN run.attempt + 1 ELSE run.attempt

\* `worker' and `expiry' are only used by a transition to LEASED.
transition_run(run, new, at, worker, expiry) ==
    [status  |-> new,
     attempt |-> NextAttempt(run, new),
     epoch   |-> run.epoch,
     worker  |-> IF new = "leased" THEN worker ELSE IF new = "running" THEN run.worker ELSE None,
     expiry  |-> IF new = "leased" THEN expiry ELSE IF new = "running" THEN run.expiry ELSE None,
     gen     |-> run.gen,
     cancel  |-> run.cancel \/ new = "cancelled",
     retryAt |-> run.retryAt,
     started |-> run.started \/ new = "running",
     age     |-> IF new = "running" /\ ~run.started THEN -at ELSE run.age]

\* A transition that needs no lease.
Moved(run, new, at) == transition_run(run, new, at, None, None)

\* A fresh queued attempt on a new branch of the conversation.
rewind_run(run) ==
    [status |-> "queued", attempt |-> run.attempt + 1, epoch |-> run.epoch + 1,
     worker |-> None, expiry |-> None, gen |-> run.gen, cancel |-> FALSE,
     retryAt |-> run.retryAt, started |-> run.started, age |-> run.age]
=============================================================================
