--------------------------- MODULE WorkerService ---------------------------
(***************************************************************************)
(* One worker process (agent_worker/service.py): the task of each claimed  *)
(* lease goes through its phases next to a heartbeat task, waits for a     *)
(* sandbox slot, starts an execution task (executor.py, production.py)     *)
(* that creates a sandbox on the node (sandbox_node_agent/registry.py),    *)
(* and is ended by a result, an error, a cancellation, a lost lease or the *)
(* attempt's time limit; the service drains and closes.                    *)
(*                                                                         *)
(* The run queue is seen through what it answers: a lease is active until  *)
(* it is lost (expired and recovered) or finished.                         *)
(***************************************************************************)
EXTENDS Integers, FiniteSets

CONSTANTS
    Leases,       \* the leases that the queue grants to this worker
    TotalSlots,   \* WorkerConfig.total_slots
    SandboxSlots, \* WorkerConfig.sandbox_slots
    MaxSandboxes, \* capacity of the node
    MaxFaults,    \* bound of the exploration: failing calls and lost answers
    None

\* WorkerConfig.validate_timing
ASSUME SlotsAssumption == /\ TotalSlots \in Nat \ {0} /\ SandboxSlots \in 1..TotalSlots
                          /\ MaxSandboxes \in Nat \ {0} /\ MaxFaults \in Nat
ASSUME NoneIsNoValue == None \notin {"running", "ok", "error", "beating", "lost", "cancel", "broken",
                                     "result", "failed", "cancelled", "creating", "cleaning", "over"}

VARIABLES
    stage,    \* "serving", "draining", "drained", "closed" or "failed"
    pc,       \* pc[l]: the step of _process_owned
    op,       \* op[l]: the phase's task: None, "running", "ok" or "error"
    beat,     \* beat[l]: the heartbeat task: None, "beating", or how it ended: "lost", "cancel",
              \* "error" (another domain error) or "broken" (any other exception)
    lease,    \* lease[l] in the queue: "queued", "active", "gone" or "ended"; "stray" when the
              \* worker never learned that it was granted
    asked,    \* the leases whose run was asked to cancel
    outcome,  \* outcome[l]: what the task is about to store: None, "result", "failed", "cancelled"
    stored,   \* stored[l]: what finish has stored, or None
    free,     \* the value of _sandbox_slots
    slot,     \* the tasks that hold a slot (sandbox_slot)
    leaked,   \* the tasks that were granted a slot of which they keep no record
    crashed,  \* the tasks that end with an exception
    fatal,    \* _fatal_error
    exec,     \* exec[l]: the execution task: None, "creating", "running", "cleaning", "over"
    stopping, \* the executions that were asked to cancel (_cancel_requested)
    held,     \* RemoteAgentLoopFactory._active
    node,     \* NodeSandboxRegistry._entries, by lease
    orphan,   \* sandboxes on the node whose create answer did not arrive
    faults    \* failures so far

taskVars == <<pc, op, beat, outcome, stored, slot, leaked, crashed>>
execVars == <<exec, stopping, held, node, orphan>>
serviceVars == <<stage, free, fatal>>
vars == <<taskVars, execVars, serviceVars, lease, asked, faults>>

Phases == {"load", "slot", "restore", "execute"}

Init ==
    /\ stage = "serving" /\ free = SandboxSlots /\ fatal = FALSE
    /\ pc = [l \in Leases |-> "unclaimed"]
    /\ op = [l \in Leases |-> None] /\ beat = [l \in Leases |-> None]
    /\ lease = [l \in Leases |-> "queued"] /\ asked = {}
    /\ outcome = [l \in Leases |-> None] /\ stored = [l \in Leases |-> None]
    /\ slot = {} /\ leaked = {} /\ crashed = {}
    /\ exec = [l \in Leases |-> None]
    /\ stopping = {} /\ held = {} /\ node = {} /\ orphan = {}
    /\ faults = 0

Active == {l \in Leases : pc[l] \notin {"unclaimed", "ended"}}

Fault == faults < MaxFaults /\ faults' = faults + 1

\* executor.cancel: only an execution that is under way can be asked.
Cancelling(l) == IF exec[l] \in {"creating", "running", "cleaning"} THEN stopping \cup {l} ELSE stopping

-----------------------------------------------------------------------------
(******************************* The queue *********************************)

LoseLease(l) ==
    /\ lease[l] = "active"
    /\ lease' = [lease EXCEPT ![l] = "gone"]
    /\ UNCHANGED <<taskVars, execVars, serviceVars, asked, faults>>

AskCancel(l) ==
    /\ lease[l] = "active"
    /\ asked' = asked \cup {l}
    /\ UNCHANGED <<taskVars, execVars, serviceVars, lease, faults>>

-----------------------------------------------------------------------------
(**************************** The task of a lease **************************)

GoTo(l, step) == pc' = [pc EXCEPT ![l] = step]

\* run_once: claim when the worker serves, has a slot and saw no fatal error.  A claim
\* that is committed without an answer ends run_once with an error, and serve drains.
Claim(l) ==
    /\ stage = "serving" /\ ~fatal /\ Cardinality(Active) < TotalSlots
    /\ lease[l] = "queued"
    /\ \/ /\ lease' = [lease EXCEPT ![l] = "active"]
          /\ GoTo(l, "start")
          /\ UNCHANGED <<stage, faults>>
       \/ /\ Fault
          /\ lease' = [lease EXCEPT ![l] = "stray"]
          /\ stage' = "draining"
          /\ UNCHANGED pc
    /\ UNCHANGED <<op, beat, outcome, stored, slot, leaked, crashed, execVars, free, fatal, asked>>

\* The task stores a failure and, for an unexpected exception, ends with it.
Fail(l, unexpected) ==
    /\ outcome' = [outcome EXCEPT ![l] = "failed"]
    /\ crashed' = IF unexpected THEN crashed \cup {l} ELSE crashed
    /\ GoTo(l, "finish")

\* queue.start
Start(l) ==
    /\ pc[l] = "start"
    /\ \/ /\ lease[l] = "gone" /\ GoTo(l, "release") /\ UNCHANGED <<outcome, crashed, faults>>
       \/ /\ lease[l] = "active" /\ l \in asked
          /\ outcome' = [outcome EXCEPT ![l] = "cancelled"]
          /\ GoTo(l, "finish") /\ UNCHANGED <<crashed, faults>>
       \/ /\ lease[l] = "active" /\ l \notin asked
          /\ GoTo(l, "acquire") /\ UNCHANGED <<outcome, crashed, faults>>
       \/ Fault /\ Fail(l, TRUE)
    /\ UNCHANGED <<op, beat, stored, slot, leaked, execVars, serviceVars, lease, asked>>

\* workspace_leases.acquire, _require_workspace_lease; then the heartbeat starts.
Acquire(l) ==
    /\ pc[l] = "acquire"
    /\ \/ /\ lease[l] = "active"
          /\ GoTo(l, "load")
          /\ op' = [op EXCEPT ![l] = "running"] /\ beat' = [beat EXCEPT ![l] = "beating"]
          /\ UNCHANGED <<outcome, crashed, faults>>
       \/ /\ lease[l] = "gone" /\ GoTo(l, "release")
          /\ UNCHANGED <<op, beat, outcome, crashed, faults>>
       \/ Fault /\ (\E unexpected \in BOOLEAN : Fail(l, unexpected)) /\ UNCHANGED <<op, beat>>
    /\ UNCHANGED <<stored, slot, leaked, execVars, serviceVars, lease, asked>>

\* recovery.load and restorer.restore
PhaseEnds(l) ==
    /\ pc[l] \in {"load", "restore"} /\ op[l] = "running"
    /\ \/ op' = [op EXCEPT ![l] = "ok"] /\ UNCHANGED faults
       \/ Fault /\ op' = [op EXCEPT ![l] = "error"]
    /\ UNCHANGED <<pc, beat, outcome, stored, slot, leaked, crashed, execVars, serviceVars, lease, asked>>

\* _sandbox_slots.acquire
SlotAcquired(l) ==
    /\ pc[l] = "slot" /\ op[l] = "running" /\ free > 0
    /\ free' = free - 1
    /\ op' = [op EXCEPT ![l] = "ok"]
    /\ UNCHANGED <<pc, beat, outcome, stored, slot, leaked, crashed, execVars, stage, fatal, lease, asked, faults>>

\* _heartbeat_lease: the queue refuses the lease, or tells of a cancellation; or one of
\* the calls (the workspace lease is renewed after the run's) fails, with an error of the
\* domain or not.
Heartbeat(l) ==
    /\ beat[l] = "beating"
    /\ \/ /\ lease[l] # "active"
          /\ beat' = [beat EXCEPT ![l] = "lost"]
          /\ UNCHANGED <<stopping, faults>>
       \/ /\ lease[l] = "active" /\ l \in asked
          /\ beat' = [beat EXCEPT ![l] = "cancel"]
          /\ stopping' = Cancelling(l) /\ UNCHANGED faults
       \/ /\ Fault
          /\ beat' \in {[beat EXCEPT ![l] = "error"], [beat EXCEPT ![l] = "broken"]}
          /\ UNCHANGED stopping
    /\ UNCHANGED <<pc, op, outcome, stored, slot, leaked, crashed, exec, held, node, orphan,
                   serviceVars, lease, asked>>

\* The phase that follows: only a run with a checkpoint is restored.
Following(phase) == CASE phase = "load" -> {"slot"}
                      [] phase = "slot" -> {"restore", "execute"}
                      [] phase = "restore" -> {"execute"}
                      [] phase = "execute" -> {"finish"}

\* _wait_phase_or_heartbeat returns the operation's result: the heartbeat is
\* not among the tasks that are done.
PhaseResult(l) ==
    /\ pc[l] \in Phases /\ beat[l] = "beating"
    /\ \/ /\ op[l] = "ok"
          /\ \E next \in Following(pc[l]) :
                /\ GoTo(l, next)
                /\ op' = [op EXCEPT ![l] = IF next = "finish" THEN None ELSE "running"]
                /\ exec' = [exec EXCEPT ![l] = IF next = "execute" THEN "creating" ELSE @]
                /\ slot' = IF pc[l] = "slot" THEN slot \cup {l} ELSE slot
                /\ outcome' = IF next = "finish" THEN [outcome EXCEPT ![l] = "result"] ELSE outcome
          /\ UNCHANGED crashed
       \/ op[l] = "error" /\ (\E unexpected \in BOOLEAN : Fail(l, unexpected)) /\ UNCHANGED <<op, exec, slot>>
    /\ UNCHANGED <<beat, stored, leaked, stopping, held, node, orphan, serviceVars, lease, asked, faults>>

\* The heartbeat is done: the operation is cancelled and awaited.  A phase
\* that is under way ends, an execution stops when it has cleaned up.  A slot that
\* was granted in the same turn is neither recorded by the task nor given back.
HeartbeatEnded(l) ==
    /\ pc[l] \in Phases /\ beat[l] \notin {None, "beating"}
    /\ GoTo(l, "unwind")
    /\ IF pc[l] = "execute"
       THEN stopping' = Cancelling(l) /\ UNCHANGED op
       ELSE op' = [op EXCEPT ![l] = IF @ = "error" THEN @ ELSE "ok"] /\ UNCHANGED stopping
    /\ leaked' = IF pc[l] = "slot" /\ op[l] = "ok" THEN leaked \cup {l} ELSE leaked
    /\ UNCHANGED <<beat, outcome, stored, slot, crashed, exec, held, node, orphan,
                   serviceVars, lease, asked, faults>>

\* The operation has ended: an error of its own replaces the heartbeat's.
Unwound(l) ==
    /\ pc[l] = "unwind" /\ op[l] # "running"
    /\ \/ op[l] = "error" /\ (\E unexpected \in BOOLEAN : Fail(l, unexpected))
       \/ /\ op[l] = "ok" /\ beat[l] = "lost" /\ GoTo(l, "release")
          /\ UNCHANGED <<outcome, crashed>>
       \/ /\ op[l] = "ok" /\ beat[l] = "cancel" /\ GoTo(l, "finish")
          /\ outcome' = [outcome EXCEPT ![l] = "cancelled"]
          /\ UNCHANGED crashed
       \/ op[l] = "ok" /\ beat[l] \in {"error", "broken"} /\ Fail(l, beat[l] = "broken")
    /\ UNCHANGED <<op, beat, stored, slot, leaked, execVars, serviceVars, lease, asked, faults>>

TimeoutForgetsExecution(l) ==
    /\ pc[l] = "execute" /\ op[l] = "running" /\ beat[l] = "beating"
    /\ Fail(l, FALSE)
    /\ UNCHANGED <<op, beat, stored, slot, leaked, execVars, serviceVars, lease, asked, faults>>

\* asyncio.timeout: the wait ends, the execution is only asked to stop.
AttemptTimeout(l) ==
    /\ pc[l] = "execute" /\ op[l] = "running" /\ beat[l] = "beating"
    /\ stopping' = Cancelling(l)
    /\ Fail(l, FALSE)
    /\ UNCHANGED <<op, beat, stored, slot, leaked, exec, held, node, orphan, serviceVars, lease, asked, faults>>

\* The call is in the body of _process_owned: a result, or a cancellation that
\* was known before the heartbeat started.
InBody(l) == outcome[l] = "result" \/ (outcome[l] = "cancelled" /\ beat[l] = None)

\* queue.finish: refused when the lease is gone.  A call that fails leaves the
\* lease as it is: the body tries once more, to store the failure, and a handler
\* ends the task with the exception.
Finish(l) ==
    /\ pc[l] = "finish"
    /\ \/ /\ lease[l] = "active" /\ GoTo(l, "release")
          /\ lease' = [lease EXCEPT ![l] = "ended"]
          /\ stored' = [stored EXCEPT ![l] = outcome[l]]
          /\ UNCHANGED <<outcome, crashed, faults>>
       \/ /\ lease[l] # "active" /\ GoTo(l, "release")
          /\ UNCHANGED <<lease, stored, outcome, crashed, faults>>
       \/ /\ Fault /\ outcome' = [outcome EXCEPT ![l] = "failed"]
          /\ \/ InBody(l) /\ GoTo(l, "finish") /\ crashed' \in {crashed, crashed \cup {l}}
             \/ ~InBody(l) /\ GoTo(l, "release") /\ crashed' = crashed \cup {l}
          /\ UNCHANGED <<lease, stored>>
    /\ UNCHANGED <<op, beat, slot, leaked, execVars, serviceVars, asked>>

\* The finally clause; _observe_task sees the exception.  A heartbeat that broke raises
\* its exception again here, before the workspace lease is released: finish or the
\* recovery of the run gives that lease back (RunQueue).
Release(l) ==
    /\ pc[l] = "release"
    /\ GoTo(l, "ended")
    /\ slot' = slot \ {l}
    /\ free' = IF l \in slot THEN free + 1 ELSE free
    /\ beat' = [beat EXCEPT ![l] = None]
    /\ fatal' = (fatal \/ l \in crashed \/ beat[l] = "broken")
    /\ UNCHANGED <<op, outcome, stored, leaked, crashed, execVars, stage, lease, asked, faults>>

-----------------------------------------------------------------------------
(************************** The execution of a lease ***********************)

\* The execution task ends; the waiting task sees how, if it still waits.
ExecEnds(l, how) ==
    /\ exec' = [exec EXCEPT ![l] = "over"]
    /\ op' = IF pc[l] \in {"execute", "unwind"} THEN [op EXCEPT ![l] = how] ELSE op
    /\ stopping' = stopping \ {l}

\* NodeSandboxRegistry.create: authorized by the active lease, within capacity.
NodeAdmits(l) == lease[l] = "active" /\ Cardinality(node) < MaxSandboxes

\* RemoteAgentLoopFactory.create: the request to the node is answered, refused,
\* or given up (a cancellation, a lost answer), whatever the node does with it.
CreateSandbox(l) ==
    /\ exec[l] = "creating"
    /\ \/ /\ NodeAdmits(l) /\ l \notin stopping
          /\ node' = node \cup {l} /\ held' = held \cup {l}
          /\ exec' = [exec EXCEPT ![l] = "running"]
          /\ UNCHANGED <<op, stopping, orphan, faults>>
       \/ /\ ~NodeAdmits(l)
          /\ ExecEnds(l, "error") /\ UNCHANGED <<node, held, orphan, faults>>
       \/ /\ IF l \in stopping THEN UNCHANGED faults ELSE Fault
          /\ \/ NodeAdmits(l) /\ node' = node \cup {l} /\ orphan' = orphan \cup {l}
             \/ UNCHANGED <<node, orphan>>
          /\ ExecEnds(l, IF l \in stopping THEN "ok" ELSE "error")
          /\ UNCHANGED held
    /\ UNCHANGED <<pc, beat, outcome, stored, slot, leaked, crashed, serviceVars, lease, asked>>

\* _run_loop and finalize end, by themselves or because they are cancelled.
LoopEnds(l) ==
    /\ exec[l] = "running"
    /\ exec' = [exec EXCEPT ![l] = "cleaning"]
    /\ UNCHANGED <<taskVars, stopping, held, node, orphan, serviceVars, lease, asked, faults>>

CleanupIgnoresErrors(l) ==
    /\ exec[l] = "cleaning"
    /\ \/ node' = node \ {l} /\ held' = held \ {l} /\ UNCHANGED faults
       \/ Fault /\ UNCHANGED <<node, held>>
    /\ ExecEnds(l, "ok")
    /\ UNCHANGED <<pc, beat, outcome, stored, slot, leaked, crashed, orphan, serviceVars, lease, asked>>

\* cleanup: destroy on the node; then the attempt is forgotten.  After a failed
\* call or a lost answer the attempt stays registered; to destroy a sandbox that
\* the node no longer has is an error, unless the client knows it is destroyed.
Cleanup(l) ==
    /\ exec[l] = "cleaning"
    /\ \/ /\ l \in held /\ l \in node
          /\ node' = node \ {l} /\ held' = held \ {l}
          /\ (\E how \in {"ok", "error"} : ExecEnds(l, how)) /\ UNCHANGED faults
       \/ /\ l \in held /\ Fault
          /\ \/ node' = node \ {l}
             \/ UNCHANGED node
          /\ ExecEnds(l, "error") /\ UNCHANGED held
       \/ /\ l \in held \ node
          /\ \/ ExecEnds(l, "error") /\ UNCHANGED held
             \/ ExecEnds(l, "ok") /\ held' = held \ {l}
          /\ UNCHANGED <<node, faults>>
       \/ l \notin held /\ ExecEnds(l, "ok") /\ UNCHANGED <<node, held, faults>>
    /\ UNCHANGED <<pc, beat, outcome, stored, slot, leaked, crashed, orphan, serviceVars, lease, asked>>

-----------------------------------------------------------------------------
(******************************* The service *******************************)

\* serve: a signal stops it, or run_once raises the fatal error.
Stop ==
    /\ stage = "serving"
    /\ stage' = "draining"
    /\ UNCHANGED <<taskVars, execVars, free, fatal, lease, asked, faults>>

\* drain: gather of the active tasks.
Drain ==
    /\ stage = "draining" /\ Active = {}
    /\ stage' = "drained"
    /\ UNCHANGED <<taskVars, execVars, free, fatal, lease, asked, faults>>

\* aclose and RemoteAgentLoopFactory.aclose: every attempt that is still
\* registered is destroyed; if one cannot be, none is forgotten.
Close ==
    /\ stage = "drained"
    /\ \E done \in SUBSET (held \cap node) :
          /\ node' = node \ done
          /\ IF done = held
             THEN stage' = "closed" /\ held' = {} /\ UNCHANGED faults
             ELSE stage' = "failed" /\ UNCHANGED held
                  /\ IF done = held \cap node THEN UNCHANGED faults ELSE Fault
    /\ UNCHANGED <<taskVars, exec, stopping, orphan, free, fatal, lease, asked>>

-----------------------------------------------------------------------------
Task(l) == \/ Start(l) \/ Acquire(l) \/ PhaseEnds(l) \/ SlotAcquired(l) \/ Heartbeat(l)
           \/ PhaseResult(l) \/ HeartbeatEnded(l) \/ Unwound(l) \/ AttemptTimeout(l)
           \/ Finish(l) \/ Release(l)

Execution(l) == CreateSandbox(l) \/ LoopEnds(l) \/ Cleanup(l)

Next == \/ \E l \in Leases : LoseLease(l) \/ AskCancel(l) \/ Claim(l) \/ Task(l) \/ Execution(l)
        \/ Stop \/ Drain \/ Close

\* Every call returns, the heartbeat beats and the attempt's time limit is
\* reached.  A model call or a command may run for ever unless it is cancelled.
Fairness ==
    /\ \A l \in Leases :
          /\ WF_vars(Start(l)) /\ WF_vars(Acquire(l)) /\ WF_vars(PhaseEnds(l)) /\ WF_vars(SlotAcquired(l))
          /\ WF_vars(Heartbeat(l)) /\ WF_vars(PhaseResult(l)) /\ WF_vars(HeartbeatEnded(l))
          /\ WF_vars(Unwound(l)) /\ WF_vars(AttemptTimeout(l)) /\ WF_vars(Finish(l))
          /\ WF_vars(Release(l)) /\ WF_vars(CreateSandbox(l)) /\ WF_vars(Cleanup(l))
          /\ WF_vars(l \in stopping /\ LoopEnds(l))
    /\ WF_vars(Drain)

Spec == Init /\ [][Next]_vars /\ Fairness

-----------------------------------------------------------------------------
TypeOK ==
    /\ stage \in {"serving", "draining", "drained", "closed", "failed"}
    /\ pc \in [Leases -> Phases \cup {"unclaimed", "start", "acquire", "unwind", "finish", "release", "ended"}]
    /\ op \in [Leases -> {None, "running", "ok", "error"}]
    /\ beat \in [Leases -> {None, "beating", "lost", "cancel", "error", "broken"}]
    /\ lease \in [Leases -> {"queued", "active", "gone", "ended", "stray"}]
    /\ outcome \in [Leases -> {None, "result", "failed", "cancelled"}]
    /\ stored \in [Leases -> {None, "result", "failed", "cancelled"}]
    /\ exec \in [Leases -> {None, "creating", "running", "cleaning", "over"}]
    /\ free \in 0..SandboxSlots /\ faults \in 0..MaxFaults /\ fatal \in BOOLEAN
    /\ {asked, slot, leaked, crashed, stopping, held, node, orphan} \subseteq SUBSET Leases

\* The executions that their tasks wait for never exceed the sandbox slots.
SlotsBoundExecutions ==
    Cardinality({l \in Leases : pc[l] \in {"restore", "execute"}}) + free <= SandboxSlots

\* The slots that are out: recorded by a task, granted and about to be recorded, or leaked.
Taken == slot \cup leaked \cup {l \in Leases : pc[l] = "slot" /\ op[l] = "ok"}

\* No slot appears or disappears: one that is neither free nor held by a task was granted
\* in the turn in which the heartbeat of its task ended, which is the one way to lose one.
SlotsAddUp == free + Cardinality(Taken) = SandboxSlots

\* A worker that has drained without a fatal error leaves no lease of its tasks behind that
\* would have to expire before its run can go on.
DrainedOwnsNothing ==
    stage \in {"drained", "closed", "failed"} /\ ~fatal => \A l \in Leases : lease[l] # "active"

\* A run gets the result of its execution only after the execution has ended
\* and its sandbox is gone; when the cleanup fails the run is not completed.
ResultAfterCleanup == \A l \in Leases : stored[l] = "result" => exec[l] = "over" /\ l \notin node

\* A sandbox on the node is registered with the worker, which can destroy it
\* at the end of the attempt or when it closes, unless the answer to its
\* creation never arrived.
EverySandboxIsHeld == node \subseteq held \cup orphan

\* Something of lease l's attempt is under way: an execution, also one that its task no
\* longer waits for because the attempt's time was over or the lease was lost; a slot that
\* the task has recorded; or a wait for a slot while not every slot has leaked.
Underway(l) ==
    \/ exec[l] \in {"creating", "running", "cleaning"}
    \/ l \in slot
    \/ pc[l] = "slot" /\ Cardinality(leaked) < SandboxSlots

\* What the worker has on its node is known to it and bounded, is gone when a result is stored, every
\* slot is free, held or leaked in the one way there is, and the tasks of a drained worker leave no
\* lease behind (RemoteAgentLoopFactory, WorkerService.serve, _process_owned).
SandboxesAreAccountedFor ==
    TypeOK /\ SlotsBoundExecutions /\ SlotsAddUp /\ EverySandboxIsHeld /\ ResultAfterCleanup
    /\ DrainedOwnsNothing

\* Executions end, tasks give back the slots they have recorded, however the attempt ends, and the
\* waits for a slot end unless every slot has leaked to a task whose heartbeat ended in the turn of
\* the grant (_process_owned, _wait_phase_or_heartbeat).
AttemptsEnd == \A l \in Leases : Underway(l) ~> ~Underway(l)
=============================================================================
