------------------------------ MODULE RunQueue ------------------------------
(***************************************************************************)
(* The durable run queue: PostgresRunQueue, PostgresWorkspaceLeaseStore,   *)
(* the run and approval repositories and the fence of every durable write  *)
(* (platform_persistence/distributed.py, repositories.py, fencing.py).     *)
(*                                                                         *)
(* Every operation of the code is one transaction that locks the rows it   *)
(* reads, so it is one action here; SKIP LOCKED is a free choice among the *)
(* eligible rows.  The callers are processes that may pause, die or answer *)
(* late: `held' and `heldWs' are the lease objects ever handed to them, and *)
(* whoever holds one, live or long superseded, may call any operation at   *)
(* any time or never again (a crash).                                      *)
(***************************************************************************)
EXTENDS RunStateMachine, FiniteSets

CONSTANTS
    Runs, Workspaces, Tenants, Approvals,
    WorkspaceOf,      \* the workspace each run edits (runs of one session share it)
    TenantOf,
    Offset,           \* how far each host's clock runs ahead of the database's
    Scheduler, Api,   \* the hosts beside the workers that read a clock
    MaxSkew,          \* bound on the size of every offset
    LeaseTtl,         \* lease_duration of claims and heartbeats, in ticks
    RetryDelay,       \* retry_delay_seconds, in ticks
    MaxSlots,         \* largest total_slots a worker registers
    MaxActive,        \* TenantQuota.max_active_runs
    MaxQueued,        \* TenantQuota.max_queued_runs
    GlobalQueueLimit, \* QueueAdmissionPolicy.global_queue_limit
    RecoveryLimit,    \* batch size of one recovery transaction
    MaxGen, MaxEpoch, \* bounds of the exploration: claims and rewinds per run,
    MaxWsGen          \* and owners of a workspace

Hosts == Workers \cup {Scheduler, Api}

ASSUME WorkspaceOfType == WorkspaceOf \in [Runs -> Workspaces]
ASSUME FiniteTables == IsFiniteSet(Runs)
ASSUME TenantOfType == TenantOf \in [Runs -> Tenants]
ASSUME NoneIsNoValue == None \notin Runs \cup Int
ASSUME OffsetType == /\ MaxSkew \in Nat
                     /\ Offset \in [Hosts -> Int]
                     /\ \A h \in Hosts : -MaxSkew <= Offset[h] /\ Offset[h] <= MaxSkew
ASSUME DurationType == LeaseTtl \in Nat \ {0} /\ RetryDelay \in Nat
ASSUME LimitType == /\ MaxSlots \in Nat /\ MaxActive \in Nat /\ RecoveryLimit \in Nat
                    /\ MaxGen \in Nat /\ MaxEpoch \in Nat /\ MaxWsGen \in Nat
                    /\ MaxQueued \in Nat /\ GlobalQueueLimit \in Nat

VARIABLES
    run,        \* table runs
    lease,      \* table run_leases, keyed by run
    workspace,  \* table workspace_leases
    worker,     \* table workers
    approval,   \* table approvals: the requests of each run
    writer,     \* the fence of the last accepted fenced write of each run
    held,       \* RunLease objects handed to worker processes
    heldWs,     \* WorkspaceWriterLease objects handed to them
    tokens      \* lease tokens drawn so far: a token is a UUID, no two are alike

vars == <<run, lease, workspace, worker, approval, writer, held, heldWs, tokens>>

LeaseRow == [worker : Workers, token : Int, gen : Int, expiry : Int]

ASSUME NoneIsNoRow == None \notin LeaseRow

WorkspaceRow == [run      : Runs \cup {None},
                 worker   : Workers \cup {None},
                 runToken : Instant,
                 token    : Instant,
                 gen      : Int,
                 expiry   : Instant]

WorkerRow == [status : {"absent", "active", "draining"}, total : Int, avail : Int]

\* What claim and start return.  `asked' is the executor's deferred_status: this
\* execution has asked for an approval.
RunLease == [run : Runs, worker : Workers, token : Int, gen : Int, epoch : Int,
             asked : BOOLEAN]

WorkspaceLease == [ws : Workspaces, run : Runs, worker : Workers, runToken : Int,
                   token : Int, gen : Int]

ApprovalRow == [status : {"absent", "pending", "approved", "rejected"}, epoch : Int]

\* _clear_workspace_owner: the generation stays.
NoOwner(gen) == [run |-> None, worker |-> None, runToken |-> None, token |-> None,
                 gen |-> gen, expiry |-> None]

Init ==
    /\ run = [r \in Runs |-> [NewRun(0) EXCEPT !.status = "absent"]]
    /\ lease = [r \in Runs |-> None]
    /\ workspace = [w \in Workspaces |-> NoOwner(0)]
    /\ worker = [w \in Workers |-> [status |-> "absent", total |-> 0, avail |-> 0]]
    /\ approval = [r \in Runs |-> [a \in Approvals |-> [status |-> "absent", epoch |-> 0]]]
    /\ writer = [r \in Runs |-> [epoch |-> 0, gen |-> 0]]
    /\ held = {}
    /\ heldWs = {}
    /\ tokens = 0

-----------------------------------------------------------------------------
(***************************** Fences and counts ***************************)

\* _assert_matching_run_lease
MatchingRunLease(l) ==
    /\ lease[l.run] # None
    /\ lease[l.run].token = l.token
    /\ lease[l.run].worker = l.worker
    /\ lease[l.run].gen = l.gen

\* _locked_lease_state: the lease row, then the run's mirrored ownership.
LockedLeaseState(l) ==
    /\ MatchingRunLease(l)
    /\ run[l.run].gen = l.gen
    /\ run[l.run].worker = l.worker
    /\ run[l.run].epoch = l.epoch

\* _require_unexpired
Unexpired(row, at) == row.expiry > at

\* Variant for sensitivity checks: the fence knows the worker but not the lease.
ActiveWorker(l) ==
    /\ lease[l.run] # None
    /\ lease[l.run].worker = l.worker
    /\ Unexpired(lease[l.run], 0)
    /\ run[l.run].epoch = l.epoch
    /\ run[l.run].status \in Assigned

\* assert_active_run_lease: the fence of every durable write, on the database's clock.
ActiveRunLease(l) ==
    /\ LockedLeaseState(l)
    /\ Unexpired(lease[l.run], 0)
    /\ run[l.run].expiry # None
    /\ run[l.run].expiry > 0
    /\ run[l.run].status \in Assigned

\* Variant for sensitivity checks: any lease of the worker that owns the run will do.
SandboxAuthorizedByWorker(l, at) ==
    LET ws == workspace[WorkspaceOf[l.run]] IN
    /\ lease[l.run] # None
    /\ lease[l.run].worker = l.worker
    /\ run[l.run].status = "running"
    /\ ws.run = l.run
    /\ ws.token # None

\* authorize_sandbox_lease: what a sandbox node asks before it runs a command.
SandboxAuthorized(l, at) ==
    LET ws == workspace[WorkspaceOf[l.run]] IN
    /\ MatchingRunLease(l)
    /\ Unexpired(lease[l.run], at)
    /\ run[l.run].epoch = l.epoch
    /\ run[l.run].status = "running"
    /\ run[l.run].worker = l.worker
    /\ ~run[l.run].cancel
    /\ ws.run = l.run
    /\ ws.worker = l.worker
    /\ ws.runToken = l.token
    /\ ws.token # None
    /\ ws.expiry > at

LeasesOf(w) == {r \in Runs : lease[r] # None /\ lease[r].worker = w}

TenantLeases(t) == {r \in Runs : lease[r] # None /\ TenantOf[r] = t}

QueuedRuns == {r \in Runs : run[r].status \in Waiting}

Min2(a, b) == IF a <= b THEN a ELSE b

\* _return_worker_slot for every deleted lease of L.
WithSlotsReturned(L) ==
    [w \in Workers |->
        [worker[w] EXCEPT !.avail =
            Min2(worker[w].total, @ + Cardinality({r \in L : lease[r].worker = w}))]]

\* Variant for sensitivity checks: the workspace keeps its owner.
WithWorkspacesKept(L) == workspace

\* _release_workspace_for_run for every deleted lease of L.
WithWorkspacesReleased(L) ==
    [w \in Workspaces |->
        IF \E r \in L : workspace[w].runToken = lease[r].token
        THEN NoOwner(workspace[w].gen) ELSE workspace[w]]

WithoutLeases(L) == [r \in Runs |-> IF r \in L THEN None ELSE lease[r]]

-----------------------------------------------------------------------------
(******************************* API operations ****************************)

\* RunRepository._create: admission under the tenant and the global queue limits.
\* A second request with the same idempotency key returns the first run.
Create(r) ==
    /\ run[r].status = "absent"
    /\ Cardinality({q \in QueuedRuns : TenantOf[q] = TenantOf[r]}) < MaxQueued
    /\ Cardinality(QueuedRuns) < GlobalQueueLimit
    /\ run' = [run EXCEPT ![r] = NewRun(Offset[Api])]
    /\ UNCHANGED <<lease, workspace, worker, approval, writer, held, heldWs, tokens>>

\* Variant for sensitivity checks: a finished run is cancelled too.
RequestCancelAlways(r) ==
    /\ run[r].status \notin {"absent", "retry_pending"}
    /\ run' = [run EXCEPT ![r] = IF @.status \in Assigned THEN [@ EXCEPT !.cancel = TRUE]
                                ELSE Moved(@, "cancelled", Offset[Api])]
    /\ UNCHANGED <<lease, workspace, worker, approval, writer, held, heldWs, tokens>>

\* RunRepository.request_cancel: a waiting run is cancelled at once, an assigned one
\* is marked for its worker, a finished one is left alone.  The stored retry time is not
\* cleared, so the commit of a cancelled retry fails on the table's constraint.
RequestCancel(r) ==
    /\ \/ /\ run[r].status \in Waiting
          /\ CanTransition(run[r], "cancelled", Offset[Api])
          /\ RetryReadyState(Moved(run[r], "cancelled", Offset[Api]))
          /\ run' = [run EXCEPT ![r] = Moved(@, "cancelled", Offset[Api])]
       \/ /\ run[r].status \in Assigned
          /\ run' = [run EXCEPT ![r].cancel = TRUE]
    /\ UNCHANGED <<lease, workspace, worker, approval, writer, held, heldWs, tokens>>

\* RunRepository.rewind to one of the run's checkpoints.
Rewind(r) ==
    /\ run[r].status \in Rewindable
    /\ run[r].epoch < MaxEpoch
    /\ run' = [run EXCEPT ![r] = [rewind_run(@) EXCEPT !.retryAt = None]]
    /\ UNCHANGED <<lease, workspace, worker, approval, writer, held, heldWs, tokens>>

\* PostgresApprovalRepository.decide: record the first decision on an approval of the
\* current epoch; the last one resumes a suspended run.  A repeated decision returns
\* the stored one and a different one is refused, so neither is a step.
Decide(r, a, decision) ==
    LET decided == [approval EXCEPT ![r][a].status = decision]
        resumed == /\ run[r].status = "waiting_approval"
                   /\ \A b \in Approvals : decided[r][b].epoch = run[r].epoch
                                              => decided[r][b].status # "pending"
    IN
    /\ approval[r][a].status = "pending"
    /\ approval[r][a].epoch = run[r].epoch
    /\ resumed => CanTransition(run[r], "queued", Offset[Api])
    /\ approval' = decided
    /\ run' = IF resumed THEN [run EXCEPT ![r] = Moved(@, "queued", Offset[Api])] ELSE run
    /\ UNCHANGED <<lease, workspace, worker, writer, held, heldWs, tokens>>

-----------------------------------------------------------------------------
(****************************** Worker registry ****************************)

\* register_worker: a new row, or a restarted process under the same identity.
RegisterWorker(w, total, avail) ==
    /\ worker[w].status # "absent" => total >= Cardinality(LeasesOf(w))
    /\ worker' = [worker EXCEPT ![w] =
          [status |-> "active", total |-> total,
           avail |-> IF worker[w].status = "absent" THEN avail
                     ELSE Min2(avail, total - Cardinality(LeasesOf(w)))]]
    /\ UNCHANGED <<run, lease, workspace, approval, writer, held, heldWs, tokens>>

\* Variant for sensitivity checks: the reported slots are taken as they are.
HeartbeatWorkerUnchecked(w, avail) ==
    /\ worker[w].status # "absent"
    /\ avail <= worker[w].total
    /\ worker' = [worker EXCEPT ![w].avail = avail]
    /\ UNCHANGED <<run, lease, workspace, approval, writer, held, heldWs, tokens>>

\* heartbeat_worker: the slots the process reports free, never more than the leases leave.
HeartbeatWorker(w, avail) ==
    /\ worker[w].status # "absent"
    /\ avail <= worker[w].total
    /\ worker' = [worker EXCEPT ![w].avail =
                     Min2(avail, worker[w].total - Cardinality(LeasesOf(w)))]
    /\ UNCHANGED <<run, lease, workspace, approval, writer, held, heldWs, tokens>>

\* set_worker_draining
SetWorkerDraining(w, status) ==
    /\ worker[w].status # "absent"
    /\ worker' = [worker EXCEPT ![w].status = status]
    /\ UNCHANGED <<run, lease, workspace, approval, writer, held, heldWs, tokens>>

-----------------------------------------------------------------------------
(**************************** Run lease operations *************************)

\* PostgresRunQueue.claim: one run, its lease, its workspace and one slot together.
Claim(w, r) ==
    LET ws == WorkspaceOf[r]
        gen == run[r].gen + 1
        expiry == Offset[w] + LeaseTtl
    IN
    /\ worker[w].status = "active"
    /\ worker[w].avail > 0
    /\ run[r].status = "queued"
    /\ ~run[r].cancel
    /\ workspace[ws].token = None
    /\ Cardinality(TenantLeases(TenantOf[r])) < MaxActive
    /\ CanTransition(run[r], "leased", Offset[w])
    /\ gen <= MaxGen /\ workspace[ws].gen < MaxWsGen
    /\ lease' = [lease EXCEPT ![r] =
          [worker |-> w, token |-> tokens + 1, gen |-> gen, expiry |-> expiry]]
    /\ workspace' = [workspace EXCEPT ![ws] =
          [run |-> r, worker |-> w, runToken |-> tokens + 1, token |-> tokens + 2,
           gen |-> @.gen + 1, expiry |-> expiry]]
    /\ held' = held \cup {[run |-> r, worker |-> w, token |-> tokens + 1, gen |-> gen,
                           epoch |-> run[r].epoch, asked |-> FALSE]}
    /\ tokens' = tokens + 2
    /\ run' = [run EXCEPT ![r] =
                  [transition_run(@, "leased", Offset[w], w, expiry) EXCEPT !.gen = gen]]
    /\ worker' = [worker EXCEPT ![w].avail = @ - 1]
    /\ UNCHANGED <<approval, writer, heldWs>>

\* PostgresRunQueue.start
Start(l) ==
    LET at == Offset[l.worker] IN
    /\ LockedLeaseState(l)
    /\ Unexpired(lease[l.run], at)
    /\ run[l.run].status = "leased"
    /\ CanTransition(run[l.run], "running", at)
    /\ run' = [run EXCEPT ![l.run] = Moved(@, "running", at)]
    /\ UNCHANGED <<lease, workspace, worker, approval, writer, held, heldWs, tokens>>

\* Variant for sensitivity checks: the run row's copy of the expiry is forgotten.
HeartbeatLeaseOnly(l) ==
    /\ LockedLeaseState(l)
    /\ Unexpired(lease[l.run], Offset[l.worker])
    /\ lease' = [lease EXCEPT ![l.run].expiry = Offset[l.worker] + LeaseTtl]
    /\ UNCHANGED <<run, workspace, worker, approval, writer, held, heldWs, tokens>>

\* PostgresRunQueue.heartbeat: extends the lease row and its mirror in the run.
Heartbeat(l) ==
    LET expiry == Offset[l.worker] + LeaseTtl IN
    /\ LockedLeaseState(l)
    /\ Unexpired(lease[l.run], Offset[l.worker])
    /\ run[l.run].status \in Assigned
    /\ lease' = [lease EXCEPT ![l.run].expiry = expiry]
    /\ run' = [run EXCEPT ![l.run].expiry = expiry]
    /\ UNCHANGED <<workspace, worker, approval, writer, held, heldWs, tokens>>

\* retry_ready_at of a run that ends an execution with this status.
RetryTime(status, at) == IF status = "retry_pending" THEN at + RetryDelay ELSE None

\* PostgresRunQueue.finish: a pending cancellation overrides the reported result.
\* The executor reports WAITING_APPROVAL only after it has asked for an approval.
Finish(l, result) ==
    LET at == Offset[l.worker]
        desired == IF run[l.run].cancel THEN "cancelled" ELSE result
    IN
    /\ result = "waiting_approval" => l.asked
    /\ LockedLeaseState(l)
    /\ Unexpired(lease[l.run], at)
    /\ CanTransition(run[l.run], desired, at)
    /\ run' = [run EXCEPT ![l.run] =
                  [Moved(@, desired, at) EXCEPT !.retryAt = RetryTime(desired, at)]]
    /\ workspace' = WithWorkspacesReleased({l.run})
    /\ lease' = WithoutLeases({l.run})
    /\ worker' = WithSlotsReturned({l.run})
    /\ UNCHANGED <<approval, writer, held, heldWs, tokens>>

RetryReady == {r \in Runs : /\ run[r].status = "retry_pending"
                            /\ run[r].retryAt # None
                            /\ run[r].retryAt <= Offset[Scheduler]}

\* Variant for sensitivity checks: only started runs are looked for.
ExpiredRunning == {r \in Runs : /\ lease[r] # None /\ run[r].status = "running"
                                /\ ~Unexpired(lease[r], Offset[Scheduler])}

ExpiredLeases == {r \in Runs : lease[r] # None /\ ~Unexpired(lease[r], Offset[Scheduler])}

\* The run row still names the expired lease's owner.
OwnedByLease(r) == /\ run[r].gen = lease[r].gen
                   /\ run[r].worker = lease[r].worker
                   /\ run[r].status \in Assigned

\* Variant for sensitivity checks: recovery requeues without a look at cancellation.
RequeuedAnyway(r, at) == Moved(Moved(run[r], "lost", at), "queued", at)

\* LEASED or RUNNING -> LOST -> QUEUED, or CANCELLED when that was asked for.
Reclaimed(r, at) == IF run[r].cancel THEN Moved(run[r], "cancelled", at)
                    ELSE Moved(Moved(run[r], "lost", at), "queued", at)

\* PostgresRunQueue.recover_expired: one transaction requeues the due retries S and
\* reclaims the expired leases L; one run whose clock check fails aborts all of it.
RecoverExpired(S, L) ==
    LET at == Offset[Scheduler] IN
    /\ S \cup L # {}
    /\ Cardinality(S) + Cardinality(L) <= RecoveryLimit
    /\ \A r \in S \cup L : run[r].age + at >= 0
    /\ run' = [r \in Runs |->
                  IF r \in L /\ OwnedByLease(r) THEN Reclaimed(r, at)
                  ELSE IF r \in S THEN [Moved(run[r], "queued", at) EXCEPT !.retryAt = None]
                  ELSE run[r]]
    /\ workspace' = WithWorkspacesReleased(L)
    /\ lease' = WithoutLeases(L)
    /\ worker' = WithSlotsReturned(L)
    /\ UNCHANGED <<approval, writer, held, heldWs, tokens>>

-----------------------------------------------------------------------------
(************************* Workspace lease operations **********************)

\* Variant for sensitivity checks: two columns are swapped.
WorkspaceLeaseSwapped(ws, row) ==
    [ws |-> ws, run |-> row.worker, worker |-> row.run, runToken |-> row.runToken,
     token |-> row.token, gen |-> row.gen]

WorkspaceLeaseOf(ws, row) ==
    [ws |-> ws, run |-> row.run, worker |-> row.worker, runToken |-> row.runToken,
     token |-> row.token, gen |-> row.gen]

\* A writer lease ends with its run lease at the latest.
WriterExpiry(at, owner) == Min2(at + LeaseTtl, owner.expiry)

\* PostgresWorkspaceLeaseStore.acquire: take a free workspace, or renew one's own.
WorkspaceAcquire(l) ==
    LET ws == WorkspaceOf[l.run]
        at == Offset[l.worker]
        row == workspace[ws]
        expiry == WriterExpiry(at, lease[l.run])
    IN
    /\ MatchingRunLease(l)
    /\ Unexpired(lease[l.run], at)
    /\ \/ /\ row.token # None
          /\ row.runToken = l.token /\ row.run = l.run /\ row.worker = l.worker
          /\ workspace' = [workspace EXCEPT ![ws].expiry = expiry]
          /\ UNCHANGED tokens
       \/ /\ row.token = None
          /\ row.gen < MaxWsGen
          /\ tokens' = tokens + 1
          /\ workspace' = [workspace EXCEPT ![ws] =
                [run |-> l.run, worker |-> l.worker, runToken |-> l.token,
                 token |-> tokens + 1, gen |-> @.gen + 1, expiry |-> expiry]]
    /\ heldWs' = heldWs \cup {WorkspaceLeaseOf(ws, workspace'[ws])}
    /\ UNCHANGED <<run, lease, worker, approval, writer, held>>

\* The row still names this writer.
OwnsWorkspace(wl) ==
    workspace[wl.ws].token # None /\ WorkspaceLeaseOf(wl.ws, workspace[wl.ws]) = wl

\* PostgresWorkspaceLeaseStore.heartbeat
WorkspaceHeartbeat(wl) ==
    LET at == Offset[wl.worker]
        owner == lease[wl.run]
    IN
    /\ owner # None
    /\ owner.token = wl.runToken
    /\ owner.worker = wl.worker
    /\ Unexpired(owner, at)
    /\ OwnsWorkspace(wl)
    /\ workspace' = [workspace EXCEPT ![wl.ws].expiry = WriterExpiry(at, owner)]
    /\ UNCHANGED <<run, lease, worker, approval, writer, held, heldWs, tokens>>

\* PostgresWorkspaceLeaseStore.release: a stale writer is refused, and a released
\* lease is already clear.
WorkspaceRelease(wl) ==
    /\ OwnsWorkspace(wl)
    /\ workspace' = [workspace EXCEPT ![wl.ws] = NoOwner(@.gen)]
    /\ UNCHANGED <<run, lease, worker, approval, writer, held, heldWs, tokens>>

-----------------------------------------------------------------------------
(******************************* Fenced writes *****************************)

\* Any durable write of an execution: transcript, tool call, checkpoint, event.
FencedWrite(l) ==
    /\ ActiveRunLease(l)
    /\ writer' = [writer EXCEPT ![l.run] = [epoch |-> l.epoch, gen |-> l.gen]]
    /\ UNCHANGED <<run, lease, workspace, worker, approval, held, heldWs, tokens>>

\* AgentLoopRunExecutor._persist_approval: the request becomes visible to users
\* while the run is still running.
CreateApproval(l, a) ==
    /\ ActiveRunLease(l)
    /\ approval[l.run][a].status = "absent"
    /\ approval' = [approval EXCEPT ![l.run][a] = [status |-> "pending", epoch |-> l.epoch]]
    /\ writer' = [writer EXCEPT ![l.run] = [epoch |-> l.epoch, gen |-> l.gen]]
    /\ held' = (held \ {l}) \cup {[l EXCEPT !.asked = TRUE]}
    /\ UNCHANGED <<run, lease, workspace, worker, heldWs, tokens>>

-----------------------------------------------------------------------------
(***************************** The environment *****************************)

\* Once an instant is past on every host's clock, how far past makes no difference.
Sooner(i) == IF i = None THEN None ELSE IF i > -MaxSkew THEN i - 1 ELSE i

Tick ==
    /\ run' = [r \in Runs |-> [run[r] EXCEPT
                  !.expiry = Sooner(@), !.retryAt = Sooner(@),
                  !.age = IF @ < MaxSkew THEN @ + 1 ELSE @]]
    /\ lease' = [r \in Runs |-> IF lease[r] = None THEN None
                                ELSE [lease[r] EXCEPT !.expiry = Sooner(@)]]
    /\ workspace' = [w \in Workspaces |-> [workspace[w] EXCEPT !.expiry = Sooner(@)]]
    /\ UNCHANGED <<worker, approval, writer, held, heldWs, tokens>>

Next ==
    \/ \E r \in Runs : Create(r) \/ RequestCancel(r) \/ Rewind(r)
    \/ \E r \in Runs, a \in Approvals, d \in {"approved", "rejected"} : Decide(r, a, d)
    \/ \E w \in Workers, n \in 1..MaxSlots : \E k \in 0..n : RegisterWorker(w, n, k)
    \/ \E w \in Workers, k \in 0..MaxSlots : HeartbeatWorker(w, k)
    \/ \E w \in Workers, s \in {"active", "draining"} : SetWorkerDraining(w, s)
    \/ \E w \in Workers, r \in Runs : Claim(w, r)
    \/ \E l \in held : Start(l) \/ Heartbeat(l) \/ WorkspaceAcquire(l)
                          \/ FencedWrite(l)
    \/ \E l \in held, s \in ResultStatus : Finish(l, s)
    \/ \E l \in held, a \in Approvals : CreateApproval(l, a)
    \/ \E wl \in heldWs : WorkspaceHeartbeat(wl) \/ WorkspaceRelease(wl)
    \/ \E S \in SUBSET RetryReady, L \in SUBSET ExpiredLeases : RecoverExpired(S, L)
    \/ Tick

Spec == Init /\ [][Next]_vars

\* A recovery pass that takes run r with it.  The scheduler polls for ever and serves
\* the oldest deadlines first, so no due run is passed over for ever.
RecoverRun(r) ==
    \E S \in SUBSET RetryReady, L \in SUBSET ExpiredLeases :
        r \in S \cup L /\ RecoverExpired(S, L)

Fairness == /\ WF_vars(Tick)
            /\ \A r \in Runs : WF_vars(RecoverRun(r))

FairSpec == Spec /\ Fairness

-----------------------------------------------------------------------------
(******************************** Properties *******************************)

\* The type invariant: every table holds rows of its schema's types, and every
\* lease object in a process's memory is well formed (models.py, distributed.py).
TypeOK ==
    /\ run \in [Runs -> RunRow]
    /\ lease \in [Runs -> LeaseRow \cup {None}]
    /\ workspace \in [Workspaces -> WorkspaceRow]
    /\ worker \in [Workers -> WorkerRow]
    /\ approval \in [Runs -> [Approvals -> ApprovalRow]]
    /\ writer \in [Runs -> [epoch : Int, gen : Int]]
    /\ held \subseteq RunLease
    /\ heldWs \subseteq WorkspaceLease
    /\ tokens \in Int

\* A run is LEASED or RUNNING exactly while its lease row exists, and the owner,
\* generation and expiry the run row mirrors are the lease's: otherwise the scheduler
\* would never find the run, or the owner's fence would fail on its own lease.
LeaseMirrorsRun ==
    \A r \in Runs :
        /\ (lease[r] # None) <=> (run[r].status \in Assigned)
        /\ lease[r] # None => /\ run[r].worker = lease[r].worker
                              /\ run[r].gen = lease[r].gen
                              /\ run[r].expiry = lease[r].expiry
        /\ lease[r] = None => run[r].worker = None /\ run[r].expiry = None

\* A held workspace belongs to a run that edits it and whose lease is still in the
\* table: claim skips a workspace with any owner and looks at no expiry, so an owner
\* without a lease would block the workspace's runs for ever.
WorkspaceOwnerHasLease ==
    \A w \in Workspaces :
        workspace[w].token # None =>
            /\ workspace[w].run # None
            /\ WorkspaceOf[workspace[w].run] = w
            /\ lease[workspace[w].run] # None
            /\ lease[workspace[w].run].token = workspace[w].runToken
            /\ lease[workspace[w].run].worker = workspace[w].worker

\* The writer's lease never outlives the run lease it is bound to (acquire and
\* heartbeat take the smaller expiry), though both are renewed separately.
WorkspaceExpiresFirst ==
    \A w \in Workspaces :
        workspace[w].token # None => workspace[w].expiry <= lease[workspace[w].run].expiry

\* However many superseded leases processes still hold and whatever their clocks say,
\* the sandbox nodes admit commands of at most one of them to a workspace, and that one
\* is the latest lease its run ever had.
ExclusiveSandbox ==
    \A l, m \in held :
        /\ WorkspaceOf[l.run] = WorkspaceOf[m.run]
        /\ l.token # m.token
        /\ \E h \in Hosts : SandboxAuthorized(l, Offset[h])
        => /\ \A h \in Hosts : ~SandboxAuthorized(m, Offset[h])
           /\ l.run = m.run => m.gen < l.gen

\* A worker is never promised more slots than its registered capacity leaves beside
\* its leases, across restarts, late heartbeats and leases reclaimed behind its back.
SlotsNeverOversold ==
    \A w \in Workers :
        /\ 0 <= worker[w].avail
        /\ worker[w].avail + Cardinality(LeasesOf(w)) <= worker[w].total

\* A cancellation request is never lost: an expired or resumed run does not go back to
\* the queue with the request pending, it ends cancelled.
CancelIsNotForgotten ==
    \A r \in Runs : run[r].cancel => run[r].status \in Assigned \cup {"cancelled"}

\* A run that waits for a retry has a time at which the scheduler will find it, and no
\* other run keeps one: none of the operations that succeed leans on the constraint.
RetryTimeMatchesStatus == \A r \in Runs : RetryReadyState(run[r])

\* Each requeue used up a lease or a rewind: attempts beyond the rewinds never exceed
\* the leases that have ended ("requeue each run exactly once per lease").
OneAttemptPerLease ==
    \A r \in Runs :
        /\ run[r].epoch <= run[r].attempt
        /\ run[r].attempt - run[r].epoch
             + (IF run[r].status \in Assigned \cup {"waiting_approval", "retry_pending"}
                THEN 1 ELSE 0) <= run[r].gen

\* The four of them together: what a run's rows say of its expiry, its cancellation, its retry and its
\* attempts stays consistent through losses, late finishes, cancellations, recoveries and rewinds.
RowsAgree ==
    /\ WorkspaceExpiresFirst
    /\ CancelIsNotForgotten
    /\ RetryTimeMatchesStatus
    /\ OneAttemptPerLease

\* Fences order the owners of a run: a generation or an epoch never returns, a new owner of a run or of
\* a workspace has a greater generation than every earlier one, and once a later epoch or lease has
\* written, no durable write of an earlier one is accepted any more (assert_active_run_lease).
FencesHold ==
    [][/\ \A r \in Runs : /\ run'[r].gen >= run[r].gen
                          /\ run'[r].epoch >= run[r].epoch
                          /\ (lease[r] = None /\ lease'[r] # None)
                                => lease'[r].gen > run[r].gen
                          /\ writer'[r].epoch >= writer[r].epoch
                          /\ writer'[r].gen >= writer[r].gen
       /\ \A w \in Workspaces :
             /\ workspace'[w].gen >= workspace[w].gen
             /\ workspace'[w].token \notin {None, workspace[w].token}
                   => workspace'[w].gen > workspace[w].gen]_vars

\* A finished run changes only by a rewind, which opens a new epoch: no late finish,
\* recovery or cancellation overwrites a result.
ResultsAreFinal ==
    [][\A r \in Runs : run[r].status \in Terminal =>
          run'[r].status = run[r].status \/ run'[r].epoch = run[r].epoch + 1]_vars

\* A lease that has expired on every clock is reclaimed: whoever held it and at whatever point it
\* died, the row goes away and the run can be claimed again or has ended.
ExpiredLeaseIsReclaimed ==
    \A r \in Runs : (lease[r] # None /\ lease[r].expiry <= -MaxSkew) ~> (lease[r] = None)

\* What reliability.md says of retry delays: they "return through the durable queue".
RetryWaitReturns ==
    \A r \in Runs : (run[r].status = "retry_pending") ~> (run[r].status # "retry_pending")

\* No run stays with a dead owner or in a retry delay for ever: recover_expired takes it back.
RunsReturn == ExpiredLeaseIsReclaimed /\ RetryWaitReturns
=============================================================================
