----------------------------- MODULE ToolJournal -----------------------------
(***************************************************************************)
(* One run's tool turns and their durable journal, across crashes.         *)
(*                                                                         *)
(* An attempt is the loop of a worker (agent_core/loop.py, _tool_turn.py)  *)
(* whose events the executor (agent_worker/executor.py) makes durable; all *)
(* of it is in memory (`att') and is lost when the worker dies.  What      *)
(* survives are the fenced rows of the execution repository (tool calls,   *)
(* approvals, checkpoints, transcript) and the run.  A replacement worker  *)
(* rebuilds its state from them (PostgresRecoveryStore.load).              *)
(*                                                                         *)
(* Only the newest lease of a run can write (RunQueue), and every attempt  *)
(* has a sandbox of its own, so one attempt at a time is modelled.  A call *)
(* stands for an identifier with its tool name and arguments; the same     *)
(* identifier with other arguments, and calls the provider could not       *)
(* parse, are left out.  Instants are positions among the checkpoints: all *)
(* that is compared is whether a call ended after a checkpoint was made.   *)
(***************************************************************************)
EXTENDS Integers, Sequences, FiniteSets

CONSTANTS
    NCalls,              \* tool-call identifiers, in the order of their text
    Effect,              \* what each call does (ToolEffect), or that it is invalid
    ApprovalMode,        \* of the session
    ReuseIds,            \* the identifiers that the model may repeat
    MaxTurns, MaxToolCalls, MaxSemanticRetries,      \* AgentLoopConfig
    MaxCrashes, MaxEpoch \* bounds of the exploration

Calls == 1..NCalls
Effects == {"read_only", "mutation", "interaction", "invalid"}

ASSUME CallsAssumption == NCalls \in Nat /\ Effect \in [Calls -> Effects]
ASSUME ModeAssumption == /\ ApprovalMode \in {"auto_approve", "require_sensitive", "require_all"}
                         /\ ReuseIds \subseteq Calls
ASSUME BoundsAssumption ==
    /\ MaxTurns \in Nat /\ MaxToolCalls \in Nat /\ MaxSemanticRetries \in Nat
    /\ MaxCrashes \in Nat /\ MaxEpoch \in Nat \ {0}

VARIABLES
    run,         \* the run: status, epoch, last_checkpoint_id, error
    row,         \* table tool_calls, the rows of the current epoch
    approval,    \* table approvals, likewise
    checkpoint,  \* table checkpoints, in the order of created_at
    messages,    \* the transcript rows of the current epoch
    crashes,     \* attempts lost so far
    att          \* the memory of the attempt in progress

vars == <<run, row, approval, checkpoint, messages, crashes, att>>
journal == <<row, approval, checkpoint, messages>>

-----------------------------------------------------------------------------
(********************************* Values **********************************)

Finished == {"completed", "failed"}

\* The state of a call; `result' is the workspace the call saw or left.
State(s, result, error) == [status |-> s, result |-> result, error |-> error]
Completed(result) == State("completed", result, "none")
Failed(error)     == State("failed", <<>>, error)
Open(s)           == State(s, <<>>, "none")

Event(kind, c, state) == [kind |-> kind, call |-> c, state |-> state, at |-> Len(checkpoint)]
RunFailed(error) == Event("run_failed", 0, Failed(error))

Assistant(calls)      == [role |-> "assistant", calls |-> calls, status |-> "none"]
Feedback              == [role |-> "user", calls |-> <<>>, status |-> "none"]
ToolMessage(c, state) == [role |-> "tool", calls |-> <<c>>, status |-> state.status]

\* A change of the workspace, marked with the branch that made it.
Change(c) == [call |-> c, epoch |-> run.epoch]

Elements(s) == {s[i] : i \in DOMAIN s}

NoAttempt ==
    [pc       |-> "none",
     tree     |-> <<>>,                             \* the sandbox's workspace
     outcomes |-> [c \in Calls |-> Open("none")],   \* what the loop knows of past calls
     decision |-> [c \in Calls |-> "none"],
     turn     |-> 0,                                \* model requests made
     count    |-> 0,                                \* calls received
     retries  |-> 0,                                \* semantic_retry_count
     todo     |-> <<>>,                             \* calls of this turn still to do
     unsaved  |-> <<>>,                             \* messages not journaled yet
     emitted  |-> <<>>,                             \* events the executor has not handled
     last     |-> 0,                                \* the executor's last_checkpoint_id
     final    |-> Open("none")]                     \* the result of the attempt

Init ==
    /\ run = [status |-> "queued", epoch |-> 1, last |-> 0, error |-> "none"]
    /\ row = [c \in Calls |-> [state |-> Open("absent"), turn |-> 0, at |-> 0]]
    /\ approval = [c \in Calls |-> "absent"]
    /\ checkpoint = <<>>
    /\ messages = <<>>
    /\ crashes = 0
    /\ att = NoAttempt

-----------------------------------------------------------------------------
(****************************** The tool table *****************************)

\* _TOOL_CALL_TRANSITIONS
Successors(s) ==
    CASE s = "received"         -> {"waiting_approval", "running", "failed"}
      [] s = "waiting_approval" -> {"running", "failed"}
      [] s = "running"          -> {"completed", "failed"}
      [] OTHER                  -> {}

\* _TOOL_CALL_PREDECESSORS: a replay of an earlier state leaves the row as it is.
Predecessors(s) ==
    CASE s = "waiting_approval" -> {"received"}
      [] s = "running"          -> {"received", "waiting_approval"}
      [] s \in Finished         -> {"received", "waiting_approval", "running"}
      [] OTHER                  -> {}

\* Variant for sensitivity checks: a replayed state replaces the one in the table.
SavedStateReplayed(c, state) == state

\* _save_tool_call: what the row becomes when it does not refuse.
SavedState(c, state) ==
    IF state.status \in Predecessors(row[c].state.status) THEN row[c].state ELSE state

\* _save_tool_call: the error it raises, "none" if it raises none.
SaveError(c, turn, state) ==
    LET old == row[c].state IN
    IF old.status = "absent" \/ (row[c].turn = turn /\ old = state) THEN "none"
    ELSE IF row[c].turn # turn THEN "tool_call_id_conflict"
    ELSE IF state.status \in Predecessors(old.status) \cup Successors(old.status) THEN "none"
    ELSE "tool_call_state_conflict"

SaveToolCall(c, turn, state, at) ==
    row' = [row EXCEPT ![c] =
              [state |-> SavedState(c, state),
               turn  |-> turn,
               at    |-> IF SavedState(c, state) = row[c].state THEN row[c].at ELSE at]]

\* An exception leaves the executor: the worker finishes the run as failed, with no
\* checkpoint (_finish_failure_if_owned).
Abort(error) ==
    /\ run' = [run EXCEPT !.status = "failed", !.error = error]
    /\ att' = NoAttempt

-----------------------------------------------------------------------------
(********************************* Recovery ********************************)

\* _checkpoint: the run's selected one, else the newest (0 is none).
SelectedCheckpoint == IF run.last # 0 THEN run.last ELSE Len(checkpoint)

ActiveBranch(k) == k = 0 \/ checkpoint[k].epoch = run.epoch

\* Variant for sensitivity checks: recovery always restores the pre-tool snapshot.
RestoredTreeBefore(k) == IF k = 0 THEN <<>> ELSE checkpoint[k].pre

\* _checkpoint_domain: the post-tool snapshot if there is one, the pre-tool one for a
\* rewound branch; without a checkpoint the sandbox starts from the source.
RestoredTree(k) ==
    IF k = 0 THEN <<>>
    ELSE IF ActiveBranch(k) /\ checkpoint[k].done THEN checkpoint[k].post
    ELSE checkpoint[k].pre

\* load reads outcomes and pending calls unless the checkpoint is an unfinished one.
ReadsCalls(k) == ~ActiveBranch(k) \/ k = 0 \/ checkpoint[k].done

\* _tool_outcomes: the calls that ended after the checkpoint.
ToolOutcomes(k) ==
    [c \in Calls |-> IF ReadsCalls(k) /\ row[c].state.status \in Finished /\ row[c].at >= k
                     THEN row[c].state ELSE Open("none")]

\* The members of a finite set of numbers, the smallest first.
InOrder(S) == CHOOSE s \in [1..Cardinality(S) -> S] : \A i, j \in DOMAIN s : i < j => s[i] < s[j]

\* _pending_tool_calls, ordered by identifier.
PendingToolCalls(k) ==
    InOrder({c \in Calls : /\ ReadsCalls(k)
                           /\ row[c].state.status \in {"received", "waiting_approval"}})

\* The refusals of _pending_tool_calls and of RunRecoveryState.
RecoveryError(k) ==
    LET pending == Elements(PendingToolCalls(k)) IN
    IF \E c \in pending : /\ row[c].state.status = "waiting_approval"
                          /\ approval[c] \in {"absent", "pending"}
    THEN "recovery_approval_incomplete"
    ELSE IF \E c \in pending : row[c].state.status = "received" /\ approval[c] # "absent"
    THEN "recovery_approval_invalid"
    ELSE IF \E c, d \in pending : row[c].turn # row[d].turn
    THEN "worker_execution_failed"
    ELSE "none"

\* A worker claims the run, loads its state and creates a sandbox from the snapshot.
Recover ==
    LET k == SelectedCheckpoint
        pending == PendingToolCalls(k)
    IN
    /\ run.status = "queued"
    /\ RecoveryError(k) = "none"
    /\ run' = [run EXCEPT !.status = "running"]
    /\ att' = [NoAttempt EXCEPT
                 !.pc = IF pending = <<>> THEN "model" ELSE "resume",
                 !.tree = RestoredTree(k),
                 !.outcomes = ToolOutcomes(k),
                 !.decision = [c \in Calls |->
                                 IF c \in Elements(pending) /\ approval[c] # "absent"
                                 THEN approval[c] ELSE "none"],
                 !.todo = pending,
                 !.last = k]
    /\ UNCHANGED <<journal, crashes>>

\* Variant for sensitivity checks: the refusal, which is marked retryable, is retried.
RecoveryRetried ==
    /\ run.status = "queued"
    /\ RecoveryError(SelectedCheckpoint) # "none"
    /\ UNCHANGED vars

RecoveryFails ==
    /\ run.status = "queued"
    /\ RecoveryError(SelectedCheckpoint) # "none"
    /\ Abort(RecoveryError(SelectedCheckpoint))
    /\ UNCHANGED <<journal, crashes>>

\* Variant for sensitivity checks: the transcript is taken to end with the calls.
EndsWithAlways(calls) == TRUE

\* _ends_with_tool_calls
EndsWithToolCalls(calls) ==
    messages # <<>> /\ messages[Len(messages)] = Assistant(calls)

\* The loop restores the assistant message of the pending calls if it is missing.
JournalPending ==
    /\ att.pc = "resume"
    /\ messages' = IF EndsWithToolCalls(att.todo) THEN messages
                   ELSE Append(messages, Assistant(att.todo))
    /\ att' = [att EXCEPT !.pc = "receive",
                          !.emitted = [i \in DOMAIN att.todo |->
                                         Event("received", att.todo[i], Open("received"))]]
    /\ UNCHANGED <<run, row, approval, checkpoint, crashes>>

\* The executor stores every pending call again, as of turn max(1, 0).
ReceivePending ==
    /\ att.pc = "receive"
    /\ IF att.emitted = <<>>
       THEN /\ att' = [att EXCEPT !.pc = "turn", !.count = @ + Len(att.todo)]
            /\ UNCHANGED <<run, row>>
       ELSE LET e == Head(att.emitted)
                error == SaveError(e.call, 1, e.state)
            IN IF error # "none" THEN Abort(error) /\ UNCHANGED row
               ELSE /\ SaveToolCall(e.call, 1, e.state, e.at)
                    /\ att' = [att EXCEPT !.emitted = Tail(@)]
                    /\ UNCHANGED run
    /\ UNCHANGED <<approval, checkpoint, messages, crashes>>

-----------------------------------------------------------------------------
(******************************** Model turn *******************************)

Ends(state) == att' = [att EXCEPT !.pc = "finish", !.final = state]

StartModel ==
    /\ att.pc = "model"
    /\ att.turn < MaxTurns
    /\ att' = [att EXCEPT !.pc = "stream", !.turn = @ + 1, !.todo = <<>>]
    /\ UNCHANGED <<run, journal, crashes>>

TurnLimit ==
    /\ att.pc = "model"
    /\ att.turn = MaxTurns
    /\ Ends(Failed("turn_limit"))
    /\ UNCHANGED <<run, journal, crashes>>

\* The model names a call; the executor stores it before the stream goes on.
ReceiveCall(c) ==
    LET error == SaveError(c, att.turn, Open("received")) IN
    /\ att.pc = "stream"
    /\ c \in ReuseIds \/ row[c].state.status = "absent"
    /\ IF error # "none" THEN Abort(error) /\ UNCHANGED row
       ELSE /\ SaveToolCall(c, att.turn, Open("received"), 0)
            /\ att' = IF att.count < MaxToolCalls
                      THEN [att EXCEPT !.todo = Append(@, c), !.count = @ + 1]
                      ELSE [att EXCEPT !.pc = "finish", !.final = Failed("tool_call_limit")]
            /\ UNCHANGED run
    /\ UNCHANGED <<approval, checkpoint, messages, crashes>>

\* The stream times out, breaks off or is not well formed.
ModelFails ==
    /\ att.pc = "stream"
    /\ Ends(Failed("model_failure"))
    /\ UNCHANGED <<run, journal, crashes>>

\* The turn ends in tool calls: they are journaled before any of them is run.
EndStream ==
    /\ att.pc = "stream"
    /\ att.todo # <<>>
    /\ messages' = Append(messages, Assistant(att.todo))
    /\ att' = [att EXCEPT !.pc = "turn"]
    /\ UNCHANGED <<run, row, approval, checkpoint, crashes>>

FinalText ==
    /\ att.pc = "stream"
    /\ att.todo = <<>>
    /\ messages' = Append(messages, Assistant(<<>>))
    /\ Ends(Completed(<<>>))
    /\ UNCHANGED <<run, row, approval, checkpoint, crashes>>

\* Neither text nor tool calls.
EmptyResponse ==
    /\ att.pc = "stream"
    /\ att.todo = <<>>
    /\ IF att.retries + 1 > MaxSemanticRetries
       THEN Ends(Failed("semantic_retry_limit")) /\ UNCHANGED messages
       ELSE /\ messages' = Append(messages, Feedback)
            /\ att' = [att EXCEPT !.pc = "model", !.retries = @ + 1]
    /\ UNCHANGED <<run, row, approval, checkpoint, crashes>>

-----------------------------------------------------------------------------
(******************************** Tool turn ********************************)

Known(c) == att.outcomes[c].status \in Finished

\* _requires_approval
RequiresApproval(c) ==
    \/ Effect[c] = "interaction"
    \/ ApprovalMode = "require_all"
    \/ ApprovalMode = "require_sensitive" /\ Effect[c] = "mutation"

Invalid == \E c \in Elements(att.todo) : ~Known(c) /\ Effect[c] = "invalid"

Awaiting == {c \in Elements(att.todo) :
                ~Known(c) /\ RequiresApproval(c) /\ att.decision[c] = "none"}

\* _prepare_calls: only the first use of an identifier in a turn is looked at.
FirstUse(i) == \A j \in 1..(i - 1) : att.todo[j] # att.todo[i]

\* _reject_invalid_turn: one invalid call and none of the turn is run.
RejectInvalidTurn ==
    LET IsInvalid(c) == ~Known(c) /\ Effect[c] = "invalid"
        state(c, first) == Failed(IF IsInvalid(c) /\ first
                                  THEN "invalid_arguments" ELSE "tool_turn_rejected")
        error(i) == state(att.todo[i], FirstUse(i))
        events == [i \in DOMAIN att.todo |-> Event("completed", att.todo[i], error(i))]
    IN
    /\ att.pc = "turn"
    /\ Invalid
    /\ att' = [att EXCEPT
                 !.pc = "journal",
                 !.todo = <<>>,
                 !.outcomes = [c \in Calls |-> IF c \in Elements(att.todo) /\ ~Known(c)
                                               THEN state(c, TRUE) ELSE @[c]],
                 !.unsaved = [i \in DOMAIN att.todo |-> ToolMessage(att.todo[i], error(i))],
                 !.emitted = IF att.retries + 1 > MaxSemanticRetries
                             THEN Append(events, RunFailed("semantic_retry_limit"))
                             ELSE events,
                 !.retries = @ + 1]
    /\ UNCHANGED <<run, journal, crashes>>

\* Some calls need a decision: ask for each once, run none, and end the attempt.
AskApproval ==
    LET asked == InOrder({i \in DOMAIN att.todo : att.todo[i] \in Awaiting /\ FirstUse(i)}) IN
    /\ att.pc = "turn"
    /\ ~Invalid
    /\ Awaiting # {}
    /\ att' = [att EXCEPT !.pc = "journal", !.todo = <<>>,
                          !.emitted = [n \in DOMAIN asked |->
                              Event("approval", att.todo[asked[n]], Open("waiting_approval"))]]
    /\ UNCHANGED <<run, journal, crashes>>

BeginCalls ==
    /\ att.pc = "turn"
    /\ ~Invalid
    /\ Awaiting = {}
    /\ att' = [att EXCEPT !.pc = "call"]
    /\ UNCHANGED <<run, journal, crashes>>

\* The next call is done: its outcome, its message and its events.
Concluded(c, state, events) ==
    [att EXCEPT !.pc = "call",
                !.todo = Tail(@),
                !.outcomes[c] = state,
                !.unsaved = Append(@, ToolMessage(c, state)),
                !.emitted = @ \o events \o <<Event("completed", c, state)>>]

\* The turn cannot go on: the run fails with it.
Broken(c, error) ==
    [att EXCEPT !.pc = "journal",
                !.todo = <<>>,
                !.emitted = @ \o <<Event("completed", c, Failed(error)), RunFailed(error)>>]

NextCall(c) == att.pc = "call" /\ att.todo # <<>> /\ c = Head(att.todo)

\* The call has ended before, in this attempt or an earlier one.
ReuseOutcome(c) ==
    /\ NextCall(c)
    /\ Known(c)
    /\ att' = Concluded(c, att.outcomes[c], <<>>)
    /\ UNCHANGED <<run, journal, crashes>>

RefuseRejected(c) ==
    /\ NextCall(c)
    /\ ~Known(c)
    /\ att.decision[c] = "rejected"
    /\ att' = Concluded(c, Failed("approval_rejected"), <<>>)
    /\ UNCHANGED <<run, journal, crashes>>

\* Variant for sensitivity checks: a rejected call is run all the same.
MayRunRejected(c) == NextCall(c) /\ ~Known(c)

MayRun(c) == NextCall(c) /\ ~Known(c) /\ att.decision[c] # "rejected"

\* The answer came with the approval: the call completes without being started.
AnswerInteraction(c) ==
    /\ MayRun(c)
    /\ Effect[c] = "interaction"
    /\ att' = Concluded(c, Completed(<<>>), <<>>)
    /\ UNCHANGED <<run, journal, crashes>>

Started(c) == Event("started", c, Open("running"))

\* A tool that leaves the workspace alone; what it returns depends on it.
RunReadOnly(c) ==
    /\ MayRun(c)
    /\ Effect[c] = "read_only"
    /\ \E state \in {Completed(att.tree), Failed("tool_failed")} :
          att' = Concluded(c, state, <<Started(c)>>)
    /\ UNCHANGED <<run, journal, crashes>>

\* The table's unique constraint: one checkpoint of a call in an epoch.
CheckpointExists(c) ==
    \E k \in DOMAIN checkpoint : checkpoint[k].call = c /\ checkpoint[k].epoch = run.epoch

\* create_before_tool: a snapshot, and the conversation as the loop has it in memory.
CreateCheckpoint(c) ==
    /\ MayRun(c)
    /\ Effect[c] = "mutation"
    /\ ~CheckpointExists(c)
    /\ checkpoint' = Append(checkpoint,
                        [call |-> c, epoch |-> run.epoch, pre |-> att.tree,
                         done |-> FALSE, post |-> <<>>,
                         conversation |-> messages \o att.unsaved, saved |-> messages])
    /\ att' = [att EXCEPT !.pc = "tool",
                          !.emitted = @ \o <<[Event("checkpoint", c, Open("none"))
                                                EXCEPT !.at = Len(checkpoint) + 1],
                                             Started(c)>>]
    /\ UNCHANGED <<run, row, approval, messages, crashes>>

\* The snapshot or the insert fails; a second checkpoint of the call always does.  The
\* code reports both as checkpoint_create_failed; here the second has a name of its own.
CheckpointFails(c) ==
    /\ MayRun(c)
    /\ Effect[c] = "mutation"
    /\ att' = Broken(c, IF CheckpointExists(c) THEN "checkpoint_conflict"
                        ELSE "checkpoint_create_failed")
    /\ UNCHANGED <<run, journal, crashes>>

\* The sandbox runs the tool; a failing tool may have changed files as well.
RunTool ==
    /\ att.pc = "tool"
    /\ \E next \in {"complete", "rollback"} :
          att' = [att EXCEPT !.pc = next, !.tree = Append(@, Change(Head(att.todo)))]
    /\ UNCHANGED <<run, journal, crashes>>

\* complete_tool: a snapshot of the result, bound to the checkpoint.
CompleteTool ==
    /\ att.pc = "complete"
    /\ checkpoint' = [checkpoint EXCEPT ![Len(checkpoint)].done = TRUE,
                                        ![Len(checkpoint)].post = att.tree]
    /\ att' = Concluded(Head(att.todo), Completed(att.tree), <<>>)
    /\ UNCHANGED <<run, row, approval, messages, crashes>>

\* Variant for sensitivity checks: the changes of a failed tool stay.
RollbackTreeKept == att.tree

\* coordinator.rollback: back to the pre-tool snapshot.
RollbackTree == checkpoint[Len(checkpoint)].pre

\* The result cannot be stored, or was stored and then found invalid: the workspace
\* goes back, if it can, and the run fails.
CompleteFails ==
    /\ att.pc = "complete"
    /\ \/ UNCHANGED checkpoint
       \/ checkpoint' = [checkpoint EXCEPT ![Len(checkpoint)].done = TRUE,
                                           ![Len(checkpoint)].post = att.tree]
    /\ \/ att' = [Broken(Head(att.todo), "checkpoint_finalize_failed") EXCEPT !.tree = RollbackTree]
       \/ att' = Broken(Head(att.todo), "checkpoint_restore_failed")
    /\ UNCHANGED <<run, row, approval, messages, crashes>>

Rollback ==
    /\ att.pc = "rollback"
    /\ att' = [Concluded(Head(att.todo), Failed("tool_failed"), <<>>)
                 EXCEPT !.tree = RollbackTree]
    /\ UNCHANGED <<run, journal, crashes>>

RollbackFails ==
    /\ att.pc = "rollback"
    /\ att' = Broken(Head(att.todo), "checkpoint_restore_failed")
    /\ UNCHANGED <<run, journal, crashes>>

EndCalls ==
    /\ att.pc = "call"
    /\ att.todo = <<>>
    /\ att' = [att EXCEPT !.pc = "journal"]
    /\ UNCHANGED <<run, journal, crashes>>

\* The results are journaled; only then does the executor see the turn's events.
JournalResults ==
    /\ att.pc = "journal"
    /\ messages' = messages \o att.unsaved
    /\ att' = [att EXCEPT !.pc = "emit", !.unsaved = <<>>]
    /\ UNCHANGED <<run, row, approval, checkpoint, crashes>>

-----------------------------------------------------------------------------
(************************** The executor's events **************************)

Handled == [att EXCEPT !.emitted = Tail(@)]

\* _persist_started and _persist_completed.  The executor's copy of a call is the row
\* its last save returned, which nobody else has changed since.
PersistState(e) ==
    LET error == SaveError(e.call, row[e.call].turn, e.state) IN
    /\ IF e.kind = "started" /\ row[e.call].state.status \notin {"received", "waiting_approval"}
       THEN att' = Handled /\ UNCHANGED <<run, row>>
       ELSE IF error # "none" THEN Abort(error) /\ UNCHANGED row
       ELSE /\ SaveToolCall(e.call, row[e.call].turn, e.state, e.at)
            /\ att' = Handled
            /\ UNCHANGED run
    /\ UNCHANGED <<approval, checkpoint, messages, crashes>>

\* _persist_approval: the call waits, then the request appears, in two transactions.
\* A call that is past RECEIVED has been asked for before; the attempt still suspends.
PersistWaiting(e) ==
    /\ IF row[e.call].state.status = "received"
       THEN /\ SaveToolCall(e.call, row[e.call].turn, e.state, e.at)
            /\ att' = [att EXCEPT !.emitted[1].kind = "request"]
       ELSE /\ att' = [Handled EXCEPT !.final = e.state]
            /\ UNCHANGED row
    /\ UNCHANGED <<run, approval, checkpoint, messages, crashes>>

\* create_approval_fenced
PersistRequest(e) ==
    /\ approval' = [approval EXCEPT ![e.call] = "pending"]
    /\ att' = [Handled EXCEPT !.final = e.state]
    /\ UNCHANGED <<run, row, checkpoint, messages, crashes>>

Emit ==
    /\ att.pc = "emit"
    /\ att.emitted # <<>>
    /\ LET e == Head(att.emitted) IN
       \/ /\ e.kind \in {"started", "completed"}
          /\ PersistState(e)
       \/ /\ e.kind = "approval"
          /\ PersistWaiting(e)
       \/ /\ e.kind = "request"
          /\ PersistRequest(e)
       \/ /\ e.kind = "checkpoint"
          /\ att' = [Handled EXCEPT !.last = e.at]
          /\ UNCHANGED <<run, journal, crashes>>
       \/ /\ e.kind = "run_failed"
          /\ Ends(e.state)
          /\ UNCHANGED <<run, journal, crashes>>

EndTurn ==
    /\ att.pc = "emit"
    /\ att.emitted = <<>>
    /\ att' = [att EXCEPT !.pc = IF att.final.status = "none" THEN "model" ELSE "finish"]
    /\ UNCHANGED <<run, journal, crashes>>

\* PostgresRunQueue.finish: the status, and the checkpoint if there is one.
Finish ==
    /\ att.pc = "finish"
    /\ run' = [run EXCEPT !.status = att.final.status,
                          !.error = att.final.error,
                          !.last = IF att.last # 0 THEN att.last ELSE @]
    /\ att' = NoAttempt
    /\ UNCHANGED <<journal, crashes>>

-----------------------------------------------------------------------------
(******************************* The outside *******************************)

\* recover_expired: LOST, then QUEUED.
Requeued == "queued"

\* The worker dies or loses its lease, and the scheduler takes the run back.
Crash ==
    /\ att.pc # "none"
    /\ crashes < MaxCrashes
    /\ crashes' = crashes + 1
    /\ run' = [run EXCEPT !.status = Requeued]
    /\ att' = NoAttempt
    /\ UNCHANGED journal

\* PostgresApprovalRepository.decide
Decide(c, decision) ==
    LET decided == [approval EXCEPT ![c] = decision] IN
    /\ approval[c] = "pending"
    /\ approval' = decided
    /\ run' = IF run.status = "waiting_approval" /\ \A d \in Calls : decided[d] # "pending"
              THEN [run EXCEPT !.status = "queued"] ELSE run
    /\ UNCHANGED <<row, checkpoint, messages, crashes, att>>

\* RunRepository.rewind: a new epoch with the messages stored before the checkpoint.
\* Rows of the old epoch are never read again.
Rewind(k) ==
    /\ run.status \in {"completed", "failed", "waiting_approval"}
    /\ run.epoch < MaxEpoch
    /\ run' = [status |-> "queued", epoch |-> run.epoch + 1, last |-> k, error |-> "none"]
    /\ row' = [c \in Calls |-> [state |-> Open("absent"), turn |-> 0, at |-> 0]]
    /\ approval' = [c \in Calls |-> "absent"]
    /\ messages' = checkpoint[k].saved
    /\ UNCHANGED <<checkpoint, crashes, att>>

\* The run is over, or waits for a decision or a rewind that may never come.
Rest == run.status \notin {"queued", "running"} /\ UNCHANGED vars

WorkerStep ==
    \/ Recover \/ RecoveryFails \/ JournalPending \/ ReceivePending
    \/ StartModel \/ TurnLimit \/ ModelFails \/ EndStream \/ FinalText \/ EmptyResponse
    \/ \E c \in Calls : ReceiveCall(c)
    \/ RejectInvalidTurn \/ AskApproval \/ BeginCalls
    \/ \E c \in Calls : \/ ReuseOutcome(c) \/ RefuseRejected(c) \/ AnswerInteraction(c)
                        \/ RunReadOnly(c) \/ CreateCheckpoint(c) \/ CheckpointFails(c)
    \/ RunTool \/ CompleteTool \/ CompleteFails \/ Rollback \/ RollbackFails
    \/ EndCalls \/ JournalResults \/ Emit \/ EndTurn \/ Finish

Next ==
    \/ WorkerStep
    \/ Crash
    \/ \E c \in Calls, d \in {"approved", "rejected"} : Decide(c, d)
    \/ \E k \in DOMAIN checkpoint : Rewind(k)
    \/ Rest

Spec == Init /\ [][Next]_vars

\* A live worker goes on, and a queued run is claimed in the end.
FairSpec == Spec /\ WF_vars(WorkerStep)

-----------------------------------------------------------------------------
(******************************** Properties *******************************)

Errors == {"none", "tool_call_id_conflict", "tool_call_state_conflict", "recovery_approval_incomplete",
           "recovery_approval_invalid", "worker_execution_failed", "turn_limit", "tool_call_limit",
           "model_failure", "semantic_retry_limit", "invalid_arguments", "tool_turn_rejected",
           "approval_rejected", "tool_failed", "checkpoint_conflict", "checkpoint_create_failed",
           "checkpoint_finalize_failed", "checkpoint_restore_failed"}

States == [status : {"none", "absent", "received", "waiting_approval", "running"} \cup Finished,
           result : Seq([call : Calls, epoch : 1..MaxEpoch]), error : Errors]

\* The tables and the attempt keep their types (the rows of the execution repository and
\* the fields of the loop and the executor).
TypeOK ==
    /\ run.status \in {"queued", "running", "waiting_approval"} \cup Finished
    /\ run.epoch \in 1..MaxEpoch
    /\ run.last \in 0..Len(checkpoint)
    /\ run.error \in Errors
    /\ \A c \in Calls : /\ row[c].state \in States
                        /\ row[c].turn \in 0..MaxTurns
                        /\ row[c].at \in 0..Len(checkpoint)
    /\ approval \in [Calls -> {"absent", "pending", "approved", "rejected"}]
    /\ \A k \in DOMAIN checkpoint : checkpoint[k].call \in Calls
    /\ crashes \in 0..MaxCrashes
    /\ att.last \in 0..Len(checkpoint)
    /\ att.tree \in Seq([call : Calls, epoch : 1..MaxEpoch])
    /\ att.outcomes \in [Calls -> States]
    /\ att.retries \in 0..(MaxSemanticRetries + 1)
    /\ (att.pc = "none") <=> (run.status # "running")

\* No workspace contains the change of one call twice, however often workers die between
\* the tool, its checkpoint, the transcript and the tool row, and even if the model
\* repeats an identifier (_tool_turn.py execute, PostgresRecoveryStore.load).
NoRepeatedMutation ==
    \A i, j \in DOMAIN att.tree : att.tree[i] = att.tree[j] => i = j

\* The sandbox of an attempt has the change of every mutating call the tool table reports
\* as completed: a result that will be reused is never without its effect (load,
\* _checkpoint_domain).
CompletedIsRestored ==
    att.pc # "none" =>
        \A c \in Calls : (Effect[c] = "mutation" /\ row[c].state.status = "completed")
                            => Change(c) \in Elements(att.tree)

\* The change is the recorded result of the checkpoint that was made for it.
Finalized(x) ==
    \E k \in DOMAIN checkpoint : /\ checkpoint[k].call = x.call /\ checkpoint[k].epoch = x.epoch
                                 /\ checkpoint[k].done
                                 /\ x \in Elements(checkpoint[k].post)

\* The workspace in which the model goes on has only changes that were finalized, in this attempt or an
\* earlier one: nothing of a tool that failed, of a rollback that failed before the worker died, or of a worker
\* that died between the tool and its checkpoint (_tool_turn.py execute, the snapshot that load selects).
OnlyFinalizedChanges ==
    att.pc \in {"model", "stream"} => \A x \in Elements(att.tree) : Finalized(x)

\* No call recorded as failed by its tool has left a change there (the rollback of _tool_turn.py execute).  A call
\* that fails for its checkpoint is not meant: when complete_tool succeeds and the loop then refuses its result, or
\* an attempt resumed at the finalized checkpoint repeats the call, the row says failed and the next attempt is
\* restored with the change, where ADR 0019 has an unacknowledged mutation rolled back.
FailedToolLeavesNoTrace ==
    att.pc \in {"model", "stream"} =>
        \A c \in Calls : row[c].state = Failed("tool_failed")
                            => Change(c) \notin Elements(att.tree)

\* A change that needs a human decision is in a workspace only after an approval, whichever
\* crashes and restarts come between the request and the tool (_requires_approval,
\* _pending_tool_calls).
ApprovedBeforeChange ==
    \A i \in DOMAIN att.tree :
        (att.tree[i].epoch = run.epoch /\ RequiresApproval(att.tree[i].call))
            => approval[att.tree[i].call] = "approved"

\* Every tool result in the stored transcript answers a call of the assistant message that
\* opens its turn, also after a turn was resumed by another worker (loop.py run,
\* _ends_with_tool_calls, append_transcript_fenced).
ResultsAnswerCalls ==
    \A i \in DOMAIN messages : messages[i].role = "tool" =>
        \E j \in 1..(i - 1) : /\ messages[j].role = "assistant"
                              /\ messages[i].calls[1] \in Elements(messages[j].calls)
                              /\ \A m \in (j + 1)..(i - 1) : messages[m].role = "tool"

\* A call that has ended keeps its state and result for the rest of the epoch, whatever a
\* later attempt replays (_save_tool_call).
OutcomesAreFinal ==
    [][\A c \in Calls : (row[c].state.status \in Finished /\ run'.epoch = run.epoch)
                           => row'[c] = row[c]]_vars

\* A claimed or queued run ends or is suspended: no crash leaves it without an owner, and
\* no sequence of turns goes on for ever (loop.py run, WorkerService._process_owned).
RunSettles == run.status \in {"queued", "running"}
                 ~> run.status \notin {"queued", "running"}

\* The workspace in which the model goes on has each change once, only changes that were finalized, and none of a
\* call that its tool failed, through crashes between the transactions of a call and failed rollbacks.
WorkspaceMatchesJournal ==
    TypeOK /\ NoRepeatedMutation /\ OnlyFinalizedChanges /\ FailedToolLeavesNoTrace

\* A change that needs a decision is made after its approval, and made once.
ApprovedAndOnce == NoRepeatedMutation /\ ApprovedBeforeChange
=============================================================================
