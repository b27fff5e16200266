------------------------------ MODULE Sandbox ------------------------------
(***************************************************************************)
(* One sandbox of a node: the git worktree captured from a source checkout *)
(* (sandbox_runtime/git_workspace.py), the containers that run commands on *)
(* it (podman.py, _process.py), the edit tool that works on the same files *)
(* in a thread of its own (tools.py, workspace.py), snapshots, restore and *)
(* removal (sandbox_node_agent/production.py, app.py), and the worker that *)
(* calls it over HTTP (client.py): one call at a time, but a call may be   *)
(* given up while the node still works on it.                              *)
(*                                                                         *)
(* The workspace's content is one version number; a git revision is the    *)
(* content it commits, and the captured baseline is version 0.             *)
(***************************************************************************)
EXTENDS Integers, Sequences, FiniteSets, SequencesExt

CONSTANTS
    MaxCommands,    \* bound: commands, each with its container
    MaxEdits,       \* bound: calls of the edit_file tool
    MaxSnapshots,   \* PodmanSandboxConfig.max_snapshots
    MaxCalls,       \* bound: calls of the worker
    MaxWrites,      \* bound: changes of the workspace
    MaxFaults,      \* bound: failing removals and git operations
    MaxSourceEdits, \* bound: changes of the source checkout during capture
    Versions,       \* contents that each half of the checkout may have
    None

ASSUME SandboxAssumption ==
    /\ {MaxCommands, MaxEdits, MaxSnapshots, MaxCalls, MaxWrites, MaxFaults, MaxSourceEdits} \subseteq Nat
    /\ 0 \in Versions /\ None \notin Nat \cup Versions

\* Container names are numbered (_new_container_name), and so are the edits.
Commands == 1..MaxCommands
Edits == 1..MaxEdits

\* The calls that the worker may wait for.
Calls ==
    {<<"command", c>> : c \in Commands} \cup {<<"edit", e>> : e \in Edits}
      \cup {<<kind>> : kind \in {"write", "snapshot", "restore", "cancel", "destroy"}}
Waiters == {"cancel", "restore", "destroy"}

\* None is neither a call, nor who waits for a cancellation, nor a step of an operation or of a removal.
ASSUME NoneIsNoValue ==
    /\ None \notin Calls
    /\ None \notin Waiters \cup {"write", "snapshot", "cancelling", "resetting", "worktree", "source"}

VARIABLES
    build,       \* step of the creation; "ready" when the sandbox serves calls
    source,      \* the source checkout: [tracked |-> version, untracked |-> version]
    captured,    \* what create has read of it
    was,         \* ghost: every state the checkout has had
    undone,      \* ghost: the halves that were changed back to an earlier content
    sourceEdits,
    cmd,         \* cmd[c]: step of execute
    gen,         \* gen[c]: the generation that execute read
    up,          \* containers that run
    active,      \* _active
    pending,     \* _pending_container_cleanup
    generation,  \* _generation
    cancel,      \* _cancel_active works for this waiter (_cancelling), or None
    waiters,     \* who waits for _cancel_active: "cancel", "restore", "destroy"
    op,          \* the holder of _workspace_lock (_workspace_operation): its step, or None
    target,      \* the revision that a restore goes back to
    archiving,   \* create_snapshot of _OwnedSandbox after the local snapshot: its revision, or None
    destroy,     \* step of _destroy: None, "cancel", "worktree", "source"
    cleanup,     \* _cleanup_required
    destroyed,   \* _destroyed
    worktree,    \* the worktree exists
    allocation,  \* the source repository of the worktree exists (source_root)
    file, author,\* the workspace's content, and who wrote it
    snaps,       \* _snapshot_order
    durable,     \* _local_snapshots: records [rev, archived]
    edit,        \* edit[e]: step of edit_text_transaction
    base,        \* base[e]: the content whose hash the caller gave
    call,        \* the call that the worker waits for, or None
    calls, writes, faults,
    promised,    \* ghost: the revision of a restore that ended, until the worker's next call
    strays       \* ghost: the edits that ran when that restore ended

buildVars == <<build, source, captured, was, undone, sourceEdits>>
runVars == <<cmd, gen, up, active, pending>>
cancelVars == <<generation, cancel, waiters>>
opVars == <<op, target, archiving>>
lifeVars == <<destroy, cleanup, destroyed, worktree, allocation>>
fileVars == <<file, author, writes>>
gitVars == <<snaps, durable>>
editVars == <<edit, base>>
clientVars == <<call, calls, promised, strays>>
vars == <<buildVars, runVars, cancelVars, opVars, lifeVars, fileVars, gitVars,
          editVars, clientVars, faults>>

Nothing == [tracked |-> 0, untracked |-> 0]
Init ==
    /\ build = "materialize" /\ source = Nothing /\ was = {Nothing} /\ undone = {} /\ sourceEdits = 0
    /\ captured = [tracked |-> None, untracked |-> None, again |-> None]
    /\ cmd = [c \in Commands |-> "new"] /\ gen = [c \in Commands |-> 0]
    /\ up = {} /\ active = {} /\ pending = {}
    /\ generation = 0 /\ cancel = None /\ waiters = {}
    /\ op = None /\ target = None /\ archiving = None
    /\ destroy = None /\ cleanup = FALSE /\ destroyed = FALSE
    /\ worktree = FALSE /\ allocation = FALSE
    /\ file = 0 /\ author = "source" /\ writes = 0
    /\ snaps = <<>> /\ durable = {}
    /\ edit = [e \in Edits |-> "new"] /\ base = [e \in Edits |-> None]
    /\ call = None /\ calls = 0 /\ promised = None /\ strays = {}
    /\ faults = 0

Fault == faults < MaxFaults /\ faults' = faults + 1

\* _require_available, the flags that every operation looks at first.
Available == ~destroyed /\ destroy = None /\ ~cleanup

\* A new content of the workspace.
WriteAs(who) ==
    /\ writes < MaxWrites /\ worktree
    /\ writes' = writes + 1 /\ file' = writes + 1 /\ author' = who

-----------------------------------------------------------------------------
(************************ Capturing the source *****************************)

\* The user goes on working in the checkout.
EditSource(part) ==
    /\ build \notin {"materialize", "ready", "failed"} /\ sourceEdits < MaxSourceEdits
    /\ \E v \in Versions \ {source[part]} :
          /\ source' = [source EXCEPT ![part] = v]
          /\ was' = was \cup {source'}
          /\ undone' = IF \E w \in was : w[part] = v THEN undone \cup {part} ELSE undone
    /\ sourceEdits' = sourceEdits + 1
    /\ UNCHANGED <<build, captured, runVars, cancelVars, opVars, lifeVars, fileVars, gitVars,
                   editVars, clientVars, faults>>

\* The factory's create: the validated source is unpacked and made a repository
\* (_allocate_source, _initialize_repository). The command line starts from the
\* user's own repository instead, so the checkout may change from here on.
Materialize ==
    /\ build = "materialize" /\ build' = "fingerprint" /\ allocation' = TRUE
    /\ UNCHANGED <<source, captured, was, undone, sourceEdits, runVars, cancelVars, opVars, destroy, cleanup,
                   destroyed, worktree, fileVars, gitVars, editVars, clientVars, faults>>

\* A step of create that reads the checkout.
Reading(step, next, field, value) ==
    /\ build = step /\ build' = next
    /\ captured' = [captured EXCEPT ![field] = value]
    /\ UNCHANGED <<source, was, undone, sourceEdits, runVars, cancelVars, opVars, lifeVars, fileVars, gitVars,
                   editVars, clientVars, faults>>

TrackedFingerprint == Reading("fingerprint", "untracked", "tracked", source.tracked)

UntrackedFiles == source.untracked
CaptureUntracked == Reading("untracked", "add", "untracked", UntrackedFiles)

FingerprintAgain == Reading("again", "compare", "again", source.tracked)

\* worktree add, _copy_manifest and the baseline commit read the stash and the
\* staged copies, not the checkout.
AddWorktree ==
    /\ build = "add" /\ build' = "again" /\ worktree' = TRUE
    /\ UNCHANGED <<source, captured, was, undone, sourceEdits, runVars, cancelVars, opVars, destroy, cleanup,
                   destroyed, allocation, fileVars, gitVars, editVars, clientVars, faults>>

\* The second capture of the untracked files, and _require_consistent_source.
SameSource == captured.again = captured.tracked /\ UntrackedFiles = captured.untracked

RequireConsistentSource ==
    /\ build = "compare" /\ SameSource
    /\ build' = "replace"
    /\ UNCHANGED <<source, captured, was, undone, sourceEdits, runVars, cancelVars, opVars, lifeVars, fileVars,
                   gitVars, editVars, clientVars, faults>>

\* A later attempt of a run replaces the worktree's files by those of a durable snapshot.
ReplaceWorktree ==
    /\ build = "replace" /\ build' = "verify"
    /\ UNCHANGED <<source, captured, was, undone, sourceEdits, runVars, cancelVars, opVars, lifeVars, fileVars,
                   gitVars, editVars, clientVars, faults>>

\* PodmanSandbox.create and _verify_runtime; what was captured is now version 0.
VerifyRuntime ==
    /\ build = "verify" /\ build' = "ready"
    /\ source' = Nothing /\ was' = {} /\ undone' = {} /\ sourceEdits' = 0
    /\ captured' = [tracked |-> None, untracked |-> None, again |-> None]
    /\ UNCHANGED <<runVars, cancelVars, opVars, lifeVars, fileVars, gitVars, editVars, clientVars, faults>>

\* Any step of the factory's create fails: _cleanup_incomplete or workspace.destroy,
\* then the allocation is removed.  A worktree that git cannot remove stays; once the
\* manager has returned it, that failure is raised and the allocation stays too.
CreateFails ==
    /\ \/ build \in {"fingerprint", "untracked", "add", "again", "compare", "replace", "verify"} /\ Fault
       \/ build = "compare" /\ ~SameSource /\ UNCHANGED faults
    /\ build' = "failed"
    /\ \/ worktree' = FALSE /\ allocation' = FALSE
       \/ worktree' = worktree /\ allocation' = IF build \in {"replace", "verify"} THEN allocation ELSE FALSE
    /\ UNCHANGED <<source, captured, was, undone, sourceEdits, runVars, cancelVars, opVars, destroy, cleanup,
                   destroyed, fileVars, gitVars, editVars, clientVars>>

-----------------------------------------------------------------------------
(****************************** The worker *********************************)

\* RemoteSandbox: the worker makes a call, and what an earlier restore promised
\* holds until then.
Call ==
    /\ build = "ready" /\ call = None /\ calls < MaxCalls
    /\ calls' = calls + 1 /\ promised' = None /\ strays' = {}

\* The worker gives a call up: its own time limit, a cancellation, a lost connection.
GiveUp ==
    /\ call # None /\ call' = None
    /\ UNCHANGED <<buildVars, runVars, cancelVars, opVars, lifeVars, fileVars, gitVars, editVars,
                   calls, promised, strays, faults>>

\* The handler's answer, if the worker still waits for it.
Answer(what) == call' = (IF call = what THEN None ELSE call)
Answered(what) == Answer(what) /\ UNCHANGED <<calls, promised, strays>>

-----------------------------------------------------------------------------
(****************************** Commands ***********************************)

\* The first lines of execute: the state and the generation are read, then the slot is awaited.
Execute(c) ==
    /\ Call /\ cmd[c] = "new" /\ \A d \in 1..(c - 1) : cmd[d] # "new"
    /\ IF Available
       THEN /\ cmd' = [cmd EXCEPT ![c] = "waiting"] /\ gen' = [gen EXCEPT ![c] = generation]
            /\ call' = <<"command", c>>
       ELSE cmd' = [cmd EXCEPT ![c] = "done"] /\ call' = None /\ UNCHANGED gen
    /\ UNCHANGED <<buildVars, up, active, pending, cancelVars, opVars, lifeVars, fileVars, gitVars,
                   editVars, faults>>

\* _command_slot is free; a command that was interrupted in its cleanup never releases it.
SlotFree == \A c \in Commands : cmd[c] \notin {"running", "ended", "removing", "lost"}

\* What execute looks at again once it has the slot.
MayLaunchStale(c) == Available /\ cancel = None /\ op = None
MayLaunch(c) == Available /\ gen[c] = generation /\ cancel = None /\ op = None

Launch(c) ==
    /\ cmd[c] = "waiting" /\ SlotFree
    /\ IF MayLaunch(c)
       THEN /\ cmd' = [cmd EXCEPT ![c] = "running"]
            /\ active' = active \cup {c} /\ up' = up \cup {c}
            /\ UNCHANGED clientVars
       ELSE cmd' = [cmd EXCEPT ![c] = "done"] /\ Answered(<<"command", c>>) /\ UNCHANGED <<active, up>>
    /\ UNCHANGED <<buildVars, gen, pending, cancelVars, opVars, lifeVars, fileVars, gitVars, editVars, faults>>

\* The stream of a command that waits for the slot is closed.
Disconnect(c) ==
    /\ cmd[c] = "waiting" /\ call # <<"command", c>>
    /\ cmd' = [cmd EXCEPT ![c] = "done"]
    /\ UNCHANGED <<buildVars, gen, up, active, pending, cancelVars, opVars, lifeVars, fileVars, gitVars,
                   editVars, clientVars, faults>>

\* A container changes the workspace.
ContainerWrites(c) ==
    /\ c \in up /\ WriteAs("command")
    /\ UNCHANGED <<buildVars, runVars, cancelVars, opVars, lifeVars, gitVars, editVars, clientVars, faults>>

\* BoundedProcessRunner.run ends: the command is over and its container with it (--rm), or
\* the podman process was terminated (time limit, output limit, cancellation), which leaves
\* the container to itself.
LeftBehind(c) == {up, up \ {c}}
RunnerEnds(c) ==
    /\ cmd[c] = "running"
    /\ cmd' = [cmd EXCEPT ![c] = "ended"]
    /\ up' \in LeftBehind(c)
    /\ UNCHANGED <<buildVars, gen, active, pending, cancelVars, opVars, lifeVars, fileVars, gitVars,
                   editVars, clientVars, faults>>

ForgetsContainer(c) ==
    /\ cmd[c] = "ended" /\ active' = active \ {c}
    /\ cmd' = [cmd EXCEPT ![c] = "removing"]
    /\ UNCHANGED <<buildVars, gen, up, pending, cancelVars, opVars, lifeVars, fileVars, gitVars, editVars,
                   clientVars, faults>>
ClaimContainerCleanup(c) ==
    /\ cmd[c] = "ended"
    /\ IF c \in active
       THEN /\ active' = active \ {c} /\ pending' = pending \cup {c}
            /\ cmd' = [cmd EXCEPT ![c] = "removing"] /\ UNCHANGED clientVars
       ELSE cmd' = [cmd EXCEPT ![c] = "done"] /\ Answered(<<"command", c>>) /\ UNCHANGED <<active, pending>>
    /\ UNCHANGED <<buildVars, gen, up, cancelVars, opVars, lifeVars, fileVars, gitVars, editVars, faults>>

\* The task of a command that nobody waits for any more is cancelled while it claims or
\* removes its container: nothing shields the finally clause, and the slot is not released.
Interrupt(c) ==
    /\ cmd[c] \in {"ended", "removing"} /\ call # <<"command", c>>
    /\ cmd' = [cmd EXCEPT ![c] = "lost"]
    /\ up' \in IF cmd[c] = "removing" THEN {up, up \ {c}} ELSE {up}
    /\ pending' \in IF c \in up' THEN {pending} ELSE {pending, pending \ {c}}
    /\ UNCHANGED <<buildVars, gen, active, cancelVars, opVars, lifeVars, fileVars, gitVars, editVars,
                   clientVars, faults>>

\* _remove_container, and the end of execute.
RemoveContainer(c) ==
    /\ cmd[c] = "removing"
    /\ cmd' = [cmd EXCEPT ![c] = "done"] /\ Answered(<<"command", c>>)
    /\ \/ /\ up' = up \ {c} /\ pending' = pending \ {c} /\ UNCHANGED <<cleanup, faults>>
       \/ /\ Fault /\ cleanup' = (cleanup \/ ~destroyed) /\ UNCHANGED <<up, pending>>
    /\ UNCHANGED <<buildVars, gen, active, cancelVars, opVars, destroy, destroyed, worktree, allocation,
                   fileVars, gitVars, editVars>>

-----------------------------------------------------------------------------
(***************************** Cancellation ********************************)

CallCancel ==
    /\ Call /\ call' = <<"cancel">> /\ "cancel" \notin waiters
    /\ waiters' = waiters \cup {"cancel"}
    /\ UNCHANGED <<buildVars, runVars, generation, cancel, opVars, lifeVars, fileVars, gitVars, editVars, faults>>

\* _cancel_active takes its lock, invalidates waiting commands and cancels the runners.
BeginCancel(w) ==
    /\ w \in waiters /\ cancel = None
    /\ cancel' = w /\ generation' = generation + 1
    /\ UNCHANGED <<buildVars, runVars, waiters, opVars, lifeVars, fileVars, gitVars, editVars, clientVars, faults>>

\* The runners have ended and no command removes its own container any more.
SweptUnderWorkspaceLock == op = None /\ \A c \in Commands : cmd[c] \notin {"running", "removing"}
Swept == \A c \in Commands : cmd[c] \notin {"running", "removing"}

\* What a sweep removes: the containers it claims from _active, and those whose removal
\* failed before (_retry_pending_container_cleanup).
Sweepable == active \cup pending

\* _destroy goes on to the worktree only if the sweep succeeded.
NextOfDestroy(failed) == IF failed THEN "source" ELSE "worktree"

\* Every container of _active is claimed, every claimed or pending one removed; a removal
\* is tried twice, and what still failed stays pending.
SweepContainers(w) ==
    /\ cancel = w /\ Swept
    /\ \E left \in SUBSET Sweepable, failed \in BOOLEAN :
          /\ left # {} => failed
          /\ IF failed THEN Fault ELSE UNCHANGED faults
          /\ up' = up \ (Sweepable \ left)
          /\ pending' = left /\ active' = {}
          /\ cleanup' = (cleanup \/ failed)
          /\ CASE w = "cancel" -> UNCHANGED <<op, destroy>> /\ Answered(<<"cancel">>)
               [] w = "restore" -> /\ op' = IF failed THEN None ELSE "resetting"
                                   /\ IF failed THEN Answered(<<"restore">>) ELSE UNCHANGED clientVars
                                   /\ UNCHANGED destroy
               [] w = "destroy" -> /\ destroy' = NextOfDestroy(failed)
                                   /\ UNCHANGED <<op, clientVars>>
    /\ cancel' = None /\ waiters' = waiters \ {w}
    /\ UNCHANGED <<buildVars, cmd, gen, generation, target, archiving, destroyed, worktree, allocation,
                   fileVars, gitVars, editVars>>

-----------------------------------------------------------------------------
(********************** Operations on the workspace ************************)

\* _exclusive_workspace_operation
MayAccess == Available /\ active = {} /\ cancel = None

Begin(kind) ==
    /\ Call /\ op = None
    /\ IF MayAccess THEN op' = kind /\ call' = <<kind>> ELSE call' = None /\ UNCHANGED op
    /\ UNCHANGED <<buildVars, runVars, cancelVars, target, archiving, lifeVars, fileVars, gitVars, editVars, faults>>

CallWriteFile == Begin("write")
CallCreateSnapshot == archiving = None /\ Begin("snapshot")

NoMutationLock == TRUE
MutationLockFree == \A e \in Edits : edit[e] \notin {"checked", "rechecked"}

\* write_file_atomic under the exclusive operation, and its failures.
WriteFileAtomic ==
    /\ op = "write" /\ MutationLockFree
    /\ op' = None /\ Answered(<<"write">>)
    /\ \/ WriteAs("write") /\ UNCHANGED faults
       \/ Fault /\ UNCHANGED fileVars
       \/ (~worktree \/ writes = MaxWrites) /\ UNCHANGED <<fileVars, faults>>
    /\ UNCHANGED <<buildVars, runVars, cancelVars, target, archiving, lifeVars, gitVars, editVars>>

\* commit_state: the revision of what the worktree holds.
Revision == file

\* PodmanSandbox.create_snapshot: the commit, and the list of snapshots.
CreateSnapshot ==
    /\ op = "snapshot" /\ op' = None
    /\ \/ /\ worktree /\ (Revision \in Range(snaps) \/ Len(snaps) < MaxSnapshots)
          /\ snaps' = IF Revision \in Range(snaps) THEN snaps ELSE Append(snaps, Revision)
          /\ archiving' = Revision
          /\ UNCHANGED <<clientVars, faults>>
       \/ /\ ~worktree \/ (Revision \notin Range(snaps) /\ Len(snaps) >= MaxSnapshots)
          /\ Answered(<<"snapshot">>) /\ UNCHANGED <<snaps, archiving, faults>>
       \/ Fault /\ Answered(<<"snapshot">>) /\ UNCHANGED <<snaps, archiving>>
    /\ UNCHANGED <<buildVars, runVars, cancelVars, target, lifeVars, fileVars, durable, editVars>>

\* WorkspaceArchiver.create packs the files as they are now.
Archived == file

\* _OwnedSandbox.create_snapshot then archives the workspace and uploads the archive.
ArchiveSnapshot ==
    /\ archiving # None /\ archiving' = None /\ Answered(<<"snapshot">>)
    /\ \/ /\ worktree /\ allocation
          /\ durable' = durable \cup {[rev |-> archiving, archived |-> Archived]} /\ UNCHANGED faults
       \/ ~(worktree /\ allocation) /\ UNCHANGED <<durable, faults>>
       \/ Fault /\ UNCHANGED durable
    /\ UNCHANGED <<buildVars, runVars, cancelVars, op, target, lifeVars, fileVars, snaps, editVars>>

\* restore_snapshot up to cancel_active.
CallRestore(d) ==
    /\ Call /\ op = None /\ archiving = None
    /\ IF Available /\ d.rev \in Range(snaps)
       THEN /\ op' = "cancelling" /\ target' = d.rev /\ waiters' = waiters \cup {"restore"}
            /\ call' = <<"restore">>
       ELSE call' = None /\ UNCHANGED <<op, target, waiters>>
    /\ UNCHANGED <<buildVars, runVars, generation, cancel, archiving, lifeVars, fileVars, gitVars, editVars, faults>>

\* restore_revision (reset --hard, clean) and the end of restore_snapshot.
RestoreRevision ==
    /\ op = "resetting" /\ op' = None /\ target' = None /\ Answer(<<"restore">>) /\ UNCHANGED calls
    /\ \/ /\ worktree
          /\ file' = target /\ author' = "restore"
          /\ snaps' = SubSeq(snaps, 1, CHOOSE i \in DOMAIN snaps : snaps[i] = target)
          /\ promised' = IF call = <<"restore">> THEN target ELSE promised
          /\ strays' = IF call = <<"restore">> THEN {e \in Edits : edit[e] \notin {"new", "done"}} ELSE strays
          /\ UNCHANGED faults
       \/ /\ ~worktree /\ UNCHANGED <<file, author, snaps, promised, strays, faults>>
       \/ /\ Fault /\ UNCHANGED <<file, author, snaps, promised, strays>>
    /\ UNCHANGED <<buildVars, runVars, cancelVars, archiving, lifeVars, writes, durable, editVars>>

-----------------------------------------------------------------------------
(************************** The edit_file tool *****************************)

\* The worker's model read the file and asks for an edit of what it read.
ReadText == file
CallEdit(e) ==
    /\ Call /\ edit[e] = "new" /\ \A d \in 1..(e - 1) : edit[d] # "new" /\ worktree
    /\ edit' = [edit EXCEPT ![e] = "asked"] /\ base' = [base EXCEPT ![e] = ReadText]
    /\ call' = <<"edit", e>>
    /\ UNCHANGED <<buildVars, runVars, cancelVars, opVars, lifeVars, fileVars, gitVars, faults>>

EditEnds(e) == edit' = [edit EXCEPT ![e] = "done"] /\ base' = [base EXCEPT ![e] = None] /\ Answered(<<"edit", e>>)

\* edit_text_transaction compares the hash when it has the lock, and once more when the
\* new content is staged.
Unchanged(e) == worktree /\ file = base[e]
CompareHash(e, step, next) ==
    /\ edit[e] = step
    /\ IF Unchanged(e) THEN edit' = [edit EXCEPT ![e] = next] /\ UNCHANGED <<base, clientVars>> ELSE EditEnds(e)
    /\ UNCHANGED <<buildVars, runVars, cancelVars, opVars, lifeVars, fileVars, gitVars, faults>>

CheckEdit(e) == MutationLockFree /\ CompareHash(e, "asked", "checked")
StageEdit(e) == CompareHash(e, "checked", "rechecked")

\* _install_staged_file; a failure is rolled back.
InstallEdit(e) ==
    /\ edit[e] = "rechecked" /\ EditEnds(e)
    /\ \/ WriteAs("edit") /\ UNCHANGED faults
       \/ Fault /\ UNCHANGED fileVars
       \/ (~worktree \/ writes = MaxWrites) /\ UNCHANGED <<fileVars, faults>>
    /\ UNCHANGED <<buildVars, runVars, cancelVars, opVars, lifeVars, gitVars>>

-----------------------------------------------------------------------------
(******************************* Removal ***********************************)

\* NodeSandboxRegistry.destroy, _OwnedSandbox.destroy, PodmanSandbox._destroy.
CallDestroy ==
    /\ Call /\ destroy = None /\ ~destroyed
    /\ destroy' = "cancel" /\ waiters' = waiters \cup {"destroy"} /\ call' = <<"destroy">>
    /\ UNCHANGED <<buildVars, runVars, generation, cancel, opVars, cleanup, destroyed, worktree, allocation,
                   fileVars, gitVars, editVars, faults>>

\* _destroy's failure: the sandbox refuses everything but another destroy.
DestroyFails == cleanup' = TRUE /\ UNCHANGED <<worktree, destroyed, snaps>>

\* GitWorktreeWorkspace._destroy_sync: git, run in the source repository, removes the worktree.
RemoveWorktree ==
    /\ destroy = "worktree" /\ destroy' = "source"
    /\ \/ /\ allocation /\ worktree' = FALSE /\ destroyed' = TRUE /\ cleanup' = FALSE /\ snaps' = <<>>
          /\ UNCHANGED faults
       \/ ~allocation /\ DestroyFails /\ UNCHANGED faults
       \/ Fault /\ DestroyFails
    /\ UNCHANGED <<buildVars, runVars, cancelVars, opVars, allocation, fileVars, durable, editVars, clientVars>>

\* _OwnedSandbox.destroy removes the source root whether or not the sandbox is gone.
RemoveSource ==
    /\ destroy = "source" /\ destroy' = None /\ allocation' = FALSE /\ Answered(<<"destroy">>)
    /\ UNCHANGED <<buildVars, runVars, cancelVars, opVars, cleanup, destroyed, worktree, fileVars, gitVars,
                   editVars, faults>>

-----------------------------------------------------------------------------

Creation == Materialize \/ TrackedFingerprint \/ CaptureUntracked \/ AddWorktree \/ FingerprintAgain
            \/ RequireConsistentSource \/ ReplaceWorktree \/ VerifyRuntime \/ CreateFails
            \/ \E part \in {"tracked", "untracked"} : EditSource(part)

Worker == \/ \E c \in Commands : Execute(c)
          \/ \E e \in Edits : CallEdit(e)
          \/ \E d \in durable : CallRestore(d)
          \/ CallCancel \/ CallWriteFile \/ CallCreateSnapshot \/ CallDestroy \/ GiveUp

\* The steps of the node's own tasks and threads.
CommandSteps(c) == Launch(c) \/ Disconnect(c) \/ RunnerEnds(c) \/ ClaimContainerCleanup(c) \/ RemoveContainer(c)
CancelSteps(w) == BeginCancel(w) \/ SweepContainers(w)
EditSteps(e) == CheckEdit(e) \/ StageEdit(e) \/ InstallEdit(e)
WorkspaceSteps == WriteFileAtomic \/ CreateSnapshot \/ ArchiveSnapshot \/ RestoreRevision
RemovalSteps == RemoveWorktree \/ RemoveSource

Next == \/ Creation \/ Worker \/ WorkspaceSteps \/ RemovalSteps
        \/ \E c \in Commands : CommandSteps(c) \/ ContainerWrites(c) \/ Interrupt(c)
        \/ \E w \in Waiters : CancelSteps(w)
        \/ \E e \in Edits : EditSteps(e)

\* The node's event loop and threads run on; commands have a time limit. Nothing is
\* assumed of the worker, the user and the commands.
Fairness == /\ \A c \in Commands : WF_vars(CommandSteps(c))
            /\ \A w \in Waiters : WF_vars(CancelSteps(w))
            /\ \A e \in Edits : WF_vars(EditSteps(e))
            /\ WF_vars(WorkspaceSteps) /\ WF_vars(RemovalSteps)

Spec == Init /\ [][Next]_vars /\ Fairness

-----------------------------------------------------------------------------
(****************************** Properties *********************************)

Contents == 0..MaxWrites

\* Every variable has its type.
TypeOK ==
    /\ build \in {"materialize", "replace", "fingerprint", "untracked", "add", "again", "compare", "verify", "ready", "failed"}
    /\ cmd \in [Commands -> {"new", "waiting", "running", "ended", "removing", "done", "lost"}]
    /\ gen \in [Commands -> Nat] /\ generation \in Nat
    /\ up \subseteq Commands /\ active \subseteq Commands /\ pending \subseteq Commands
    /\ waiters \subseteq Waiters /\ cancel \in waiters \cup {None}
    /\ op \in {None, "write", "snapshot", "cancelling", "resetting"}
    /\ target \in Contents \cup {None} /\ archiving \in Contents \cup {None}
    /\ destroy \in {None, "cancel", "worktree", "source"}
    /\ {cleanup, destroyed, worktree, allocation} \subseteq BOOLEAN
    /\ file \in Contents /\ writes \in Contents /\ author \in {"source", "command", "write", "edit", "restore"}
    /\ Range(snaps) \subseteq Contents /\ durable \subseteq [rev : Contents, archived : Contents]
    /\ edit \in [Edits -> {"new", "asked", "checked", "rechecked", "done"}]
    /\ base \in [Edits -> Contents \cup {None}]
    /\ call \in Calls \cup {None}
    /\ promised \in Contents \cup {None} /\ strays \subseteq Edits
    /\ calls \in 0..MaxCalls /\ faults \in 0..MaxFaults

\* The baseline of a worktree is a state that the checkout had at one instant, although
\* tracked and untracked files are read one after the other while the user works
\* (GitWorktreeManager.create, _require_consistent_source), unless both halves were changed
\* and changed back meanwhile, which the comparison of readings cannot see.
BaselineWasReal ==
    RequireConsistentSource /\ undone # {"tracked", "untracked"} =>
      [tracked |-> captured.tracked, untracked |-> captured.untracked] \in was

\* While a restore resets the worktree no container runs, not even one whose own command
\* is about to remove it, and no command starts (restore_snapshot, _cancel_active, execute).
RestoreIsAlone == op = "resetting" => up = {} /\ \A c \in Commands : cmd[c] # "running"

\* A container that may still run is known to a command or kept for the next sweep, after
\* failing removals too (_claim_container_cleanup, _retry_pending_container_cleanup).
NoForgottenContainer == up \subseteq active \cup pending

\* Once the sandbox is destroyed no container runs, and none starts later.
DestroyedHasNoContainer == destroyed => up = {} /\ \A c \in Commands : cmd[c] \notin {"running", "removing"}

\* An edit never replaces another edit or write that its caller had not seen: what it
\* installs over is what it was given the hash of, unless a command or a restore changed
\* it after the second comparison (edit_text_transaction and _mutation_lock).
EditsKeepEdits ==
    \A e \in Edits : edit[e] = "rechecked" /\ edit'[e] = "done" /\ file' # file
       => file = base[e] \/ author \in {"command", "restore"}

\* After a restore was answered, and until the worker asks for something else, the
\* workspace holds that revision, if no edit was under way when the restore ended.
RestoreHolds == promised # None /\ strays = {} /\ worktree => file = promised

\* A command that waits for the slot, while no slot is lost with a command that was cancelled
\* during its cleanup.
SomeoneWaits == (\E c \in Commands : cmd[c] = "waiting") /\ ~(\E d \in Commands : cmd[d] = "lost")

\* A snapshot, write, restore or removal is under way, or a command waits.
Busy == op # None \/ archiving # None \/ destroy # None \/ SomeoneWaits

\* No container runs that the sandbox does not know of, beside a restore, or after the removal.
ContainersAreAccountedFor == TypeOK /\ NoForgottenContainer /\ RestoreIsAlone /\ DestroyedHasNoContainer

\* No edit is lost to an edit or write that did not see it, and the first state of a worktree is torn
\* only where both halves of the checkout were changed and changed back while it was captured.
NoTornOrLostContent == [][BaselineWasReal /\ EditsKeepEdits]_vars

\* The sandbox comes to rest between or after the worker's calls: operations and removals end with a result
\* or an error, whatever cancels or removes the sandbox meanwhile, and a command that waits for the slot gets
\* it or is refused, by the time limits, cleanups and sweeps of the others; unless the slot is lost with a
\* command that was cancelled during its cleanup (execute, _cancel_active, _destroy).
SandboxWorkEnds == Busy ~> ~Busy
=============================================================================
