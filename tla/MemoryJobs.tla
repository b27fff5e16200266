----------------------------- MODULE MemoryJobs -----------------------------
(***************************************************************************)
(* Long-term memory of a session: the extraction jobs that completed runs  *)
(* leave behind, the scheduler processes that lease and work them off, and *)
(* the memories they store.                                                *)
(*                                                                         *)
(* Each database transaction is one step, but for the one that stores the  *)
(* result of an extraction: it reads the opt-out without a lock on the     *)
(* session, so the user may switch memory off before it commits.  A lease  *)
(* is its generation: the token, the worker and the expiry change with it. *)
(* A process checks the expiry against a clock it read before the          *)
(* transaction, so an expired lease that nobody took over may pass or not. *)
(***************************************************************************)
EXTENDS Integers, FiniteSets

CONSTANTS
  Runs,        \* runs of one session
  Processes,   \* scheduler processes
  Facts,       \* what an extraction may return, by kind and content hash
  MaxAttempts, \* MAX_MEMORY_JOB_ATTEMPTS
  MaxEpoch, MaxJobs \* bounds: execution epochs of a run, runs and branches that complete

VARIABLES
  epoch,     \* runs.execution_epoch
  completed, \* the runs whose present branch is completed
  enabled,   \* memory_enabled of the session
  job,       \* memory_extraction_jobs by <<run, epoch>>
  memory,    \* memories
  proc       \* proc[p]: what process p is doing
vars == <<epoch, completed, enabled, job, memory, proc>>

Branches == Runs \X (1 .. MaxEpoch)
NoJob == [status |-> "none", attempt |-> 0, gen |-> 0, expired |-> FALSE]
Job == [status: {"none", "pending", "running", "completed", "failed"}, attempt: 0 .. MaxAttempts,
        gen: 0 .. MaxAttempts, expired: BOOLEAN]
\* by is history: the lease the memory was stored under.
Memory == [run: Runs, epoch: 1 .. MaxEpoch, fact: Facts, archived: BOOLEAN, by: 1 .. MaxAttempts]
\* overtaken is history: memory was switched off after the transaction under way had read that it is on.
Idle == [pc |-> "idle", job |-> <<>>, gen |-> 0, found |-> {}, overtaken |-> FALSE]

Init ==
  /\ epoch = [r \in Runs |-> 1] /\ completed = {} /\ enabled = TRUE
  /\ job = [b \in Branches |-> NoJob] /\ memory = {}
  /\ proc = [p \in Processes |-> Idle]

Current(b) == epoch[b[1]] = b[2]

\* No transaction under way has the row of the job locked.
Unlocked(b) == \A p \in Processes : proc[p].pc = "store" => proc[p].job # b

----------------------------------------------------------------------------
(* The run and its session *)

\* A run completes; the job is inserted with it if memory is on, once for a branch.
CompleteRun(r) ==
  LET b == <<r, epoch[r]>> IN
  /\ r \notin completed /\ Cardinality({c \in Branches : job[c] # NoJob}) < MaxJobs
  /\ completed' = completed \union {r}
  /\ job' = IF enabled /\ job[b] = NoJob
              THEN [job EXCEPT ![b] = [NoJob EXCEPT !.status = "pending", !.attempt = 1]] ELSE job
  /\ UNCHANGED <<epoch, enabled, memory, proc>>

Supersede(b) ==
  IF job[b].status \in {"pending", "running"}
  THEN [job EXCEPT ![b].status = "failed", ![b].expired = FALSE] ELSE job

\* A rewind gives the branch up with its unfinished job, whose row it waits for.
Rewind(r) ==
  /\ r \in completed /\ epoch[r] < MaxEpoch /\ Unlocked(<<r, epoch[r]>>)
  /\ job' = Supersede(<<r, epoch[r]>>)
  /\ epoch' = [epoch EXCEPT ![r] = @ + 1] /\ completed' = completed \ {r}
  /\ UNCHANGED <<enabled, memory, proc>>

SetSessionEnabled(value) ==
  /\ enabled' = value
  /\ proc' = [p \in Processes |->
                [proc[p] EXCEPT !.overtaken = IF proc[p].pc = "store" /\ ~value THEN TRUE ELSE @]]
  /\ UNCHANGED <<epoch, completed, job, memory>>

Archive(m) ==
  /\ ~m.archived /\ memory' = (memory \ {m}) \union {[m EXCEPT !.archived = TRUE]}
  /\ UNCHANGED <<epoch, completed, enabled, job, proc>>

----------------------------------------------------------------------------
(* The extraction jobs *)

MutClaimable(b) == Current(b) /\ job[b].status = "pending"
Claimable(b) == Current(b) /\ (job[b].status = "pending" \/ job[b].expired)

\* A job whose lease ran out MaxAttempts times is given up.
Exhausted(b) == job[b].status = "running" /\ job[b].attempt >= MaxAttempts

Leased(j) == [j EXCEPT !.status = "running", !.attempt = @ + (IF j.status = "running" THEN 1 ELSE 0),
                       !.gen = @ + 1, !.expired = FALSE]

Claim(p, b) ==
  /\ proc[p].pc = "idle" /\ Claimable(b) /\ Unlocked(b)
  /\ IF Exhausted(b) \/ ~enabled
       THEN /\ job' = [job EXCEPT ![b].status = IF Exhausted(b) THEN "failed" ELSE "completed",
                                  ![b].expired = FALSE]
            /\ UNCHANGED proc
       ELSE /\ job' = [job EXCEPT ![b] = Leased(@)]
            /\ proc' = [proc EXCEPT ![p] = [Idle EXCEPT !.pc = "source", !.job = b, !.gen = job[b].gen + 1]]
  /\ UNCHANGED <<epoch, completed, enabled, memory>>

\* The row is running under the lease the process has.
Holds(p) == job[proc[p].job].status = "running" /\ job[proc[p].job].gen = proc[p].gen
Lost(p) == ~Holds(p) \/ job[proc[p].job].expired

\* A lost lease is dropped without a word.
Drop(p) == Lost(p) /\ proc' = [proc EXCEPT ![p] = Idle] /\ UNCHANGED <<job, memory>>

SourceForJob(p) ==
  /\ proc[p].pc = "source"
  /\ \/ Holds(p) /\ proc' = [proc EXCEPT ![p].pc = "extract"] /\ UNCHANGED <<job, memory>>
     \/ Drop(p)
  /\ UNCHANGED <<epoch, completed, enabled>>

\* What the model may find in a transcript.
Answers == SUBSET Facts

\* Any error but a lost lease, and the time limit.
ToFail(p) == [proc[p] EXCEPT !.pc = "fail", !.found = {}, !.overtaken = FALSE]

\* The model answers with some facts, or the call fails or runs out of time.
Extract(p) ==
  /\ proc[p].pc = "extract"
  /\ \/ \E found \in Answers : proc' = [proc EXCEPT ![p].pc = "complete", ![p].found = found]
     \/ proc' = [proc EXCEPT ![p] = ToFail(p)]
  /\ UNCHANGED <<epoch, completed, enabled, job, memory>>

\* A fact the session has in this epoch number, of whatever run, is not stored again.
Inserted(p) ==
  LET b == proc[p].job IN
  memory \union
  {[run |-> b[1], epoch |-> b[2], fact |-> f, archived |-> FALSE, by |-> proc[p].gen] :
     f \in {f \in proc[p].found : \A m \in memory : m.epoch = b[2] => m.fact # f}}

MutStores(p) == TRUE
\* The opt-out is read again before the memories are stored.
Stores(p) == enabled

\* The final transaction begins: it locks the row, checks the lease and reads the opt-out.  A process that
\* fails here reports a failure.
Complete(p) ==
  /\ proc[p].pc = "complete" /\ Unlocked(proc[p].job)
  /\ \/ /\ Holds(p)
        /\ proc' = [proc EXCEPT ![p].pc = "store", ![p].found = IF Stores(p) THEN @ ELSE {}]
     \/ proc' = [proc EXCEPT ![p] = ToFail(p)]
     \/ Lost(p) /\ proc' = [proc EXCEPT ![p] = Idle]
  /\ UNCHANGED <<epoch, completed, enabled, job, memory>>

\* The transaction commits: the memories are stored and the job ends.  The time limit may strike before the
\* commit or after it, and the process then reports a failure.
Store(p) ==
  /\ proc[p].pc = "store"
  /\ \/ /\ memory' = Inserted(p)
        /\ job' = [job EXCEPT ![proc[p].job].status = "completed", ![proc[p].job].expired = FALSE]
        /\ \E next \in {Idle, ToFail(p)} : proc' = [proc EXCEPT ![p] = next]
     \/ proc' = [proc EXCEPT ![p] = ToFail(p)] /\ UNCHANGED <<job, memory>>
  /\ UNCHANGED <<epoch, completed, enabled>>

Failed(b) == IF job[b].status = "running" THEN [job EXCEPT ![b].status = "failed", ![b].expired = FALSE] ELSE job

Fail(p) ==
  /\ proc[p].pc = "fail" /\ Unlocked(proc[p].job)
  /\ \/ /\ job[proc[p].job].gen = proc[p].gen
        /\ job' = Failed(proc[p].job)
        /\ proc' = [proc EXCEPT ![p] = Idle] /\ UNCHANGED memory
     \/ Drop(p)
  /\ UNCHANGED <<epoch, completed, enabled>>

\* The process dies and starts again; its transaction is rolled back.
Crash(p) ==
  /\ proc[p].pc # "idle" /\ proc' = [proc EXCEPT ![p] = Idle]
  /\ UNCHANGED <<epoch, completed, enabled, job, memory>>

Expire(b) ==
  /\ job[b].status = "running" /\ ~job[b].expired
  /\ job' = [job EXCEPT ![b].expired = TRUE]
  /\ UNCHANGED <<epoch, completed, enabled, memory, proc>>

----------------------------------------------------------------------------
Progress ==
  \/ \E p \in Processes : \/ \E b \in Branches : Claim(p, b)
                          \/ SourceForJob(p) \/ Extract(p) \/ Complete(p) \/ Store(p) \/ Fail(p)
  \/ \E b \in Branches : Expire(b)

Next ==
  \/ Progress
  \/ \E r \in Runs : CompleteRun(r) \/ Rewind(r)
  \/ \E value \in BOOLEAN : SetSessionEnabled(value)
  \/ \E m \in memory : Archive(m)
  \/ \E p \in Processes : Crash(p)

\* The processes keep polling, and leases run out.
Spec == Init /\ [][Next]_vars /\ WF_vars(Progress)

----------------------------------------------------------------------------
(* Properties *)

\* Every row is well formed; a job is leased at most MaxAttempts times, however many of the processes that
\* lease it die (claim_pending).
MemoryTypeOK ==
  /\ epoch \in [Runs -> 1 .. MaxEpoch] /\ completed \subseteq Runs /\ enabled \in BOOLEAN
  /\ job \in [Branches -> Job] /\ memory \subseteq Memory
  /\ \A p \in Processes : proc[p].pc # "idle" => proc[p].job \in Branches /\ proc[p].gen \in 1 .. MaxAttempts

\* The memories of a job are those of one extraction, its last, although a process whose lease was taken over
\* still comes back with an answer of its own (complete).
OneExtractionPerJob ==
  \A m \in memory : LET j == job[<<m.run, m.epoch>>] IN j.status = "completed" /\ m.by = j.gen

\* A job that ended stays as it ended: a late answer, a time limit that strikes during the final transaction
\* and a takeover do not reopen or change it (complete, fail, claim_pending).
EndedJobsStayEnded ==
  \A b \in Branches : job[b].status \in {"completed", "failed"} => job'[b] = job[b]

\* Nothing is remembered from a branch that was given up, nor while memory is switched off, even if the
\* extraction began before: only a transaction that read the opt-out before the user's change still commits
\* after it (rewind, complete).
NoUnwantedMemory ==
  \A m \in memory' \ memory :
    \/ m.archived
    \/ /\ epoch[m.run] = m.epoch
       /\ enabled \/ \E p \in Processes : proc[p].overtaken /\ proc[p].job = <<m.run, m.epoch>>

\* A memory that the user deleted does not come back in its epoch number by the same fact being extracted
\* again, by this run or by another one of the session (archive, complete).  A run that is in a later epoch
\* number does bring it back: the key of a memory has the epoch in it.
DeletedMemoryStaysDeleted ==
  \A m, n \in memory : m.archived /\ n.epoch = m.epoch /\ n.fact = m.fact => n.archived

\* Every job ends, although processes die and answers come too late (claim_pending, process_once).
MemoryJobsEnd == []<>(\A b \in Branches : job[b].status \notin {"pending", "running"})

\* In every step: a job ends once, and memories are those of one extraction of a live branch and follow what
\* the user switched off or deleted.
MemoryFollowsTheUser ==
  /\ (MemoryTypeOK /\ OneExtractionPerJob /\ DeletedMemoryStaysDeleted)'
  /\ EndedJobsStayEnded /\ NoUnwantedMemory
=============================================================================
