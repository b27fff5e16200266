---------------------------- MODULE LocalSession ----------------------------
(***************************************************************************)
(* The local mode of the command line (agent_cli.main._run_local): one     *)
(* process works off a list of tasks on one worktree.  Every task is a run *)
(* of the agent loop with a transcript journal and a checkpoint            *)
(* coordinator of its own, all in memory.  A commit, a restore or the      *)
(* model may fail, and the user interrupts the process at any await.  An   *)
(* edit is made by a thread that nothing stops: it may outlive the call    *)
(* that ran out of time or was interrupted, and write after the restore.   *)
(* The content of the worktree is the set of the calls whose change it     *)
(* holds, and a revision is the content it was committed with.             *)
(***************************************************************************)
EXTENDS Integers, Sequences

CONSTANTS
  Turns,            \* the sequences of mutating calls a model turn may emit
  MaxTasks,         \* tasks on the command line
  MaxCheckpoints,   \* max_checkpoints of a coordinator
  MaxMessages       \* max_messages of the session

VARIABLES
  turn,       \* where the loop is, the calls left in the turn, their messages, and why a restore is made
  tasks,      \* tasks begun
  tree,       \* the worktree
  records,    \* the coordinator's checkpoints of this run, in order
  journal,    \* the run's transcript
  messages,   \* the session's transcript
  cancelled,  \* the user interrupted the process
  damaged,    \* a restore failed (history)
  late,       \* the calls whose edit still runs although the call ended
  strays,     \* the calls whose change is there, or missing, because of such an edit (history)
  patch       \* the final patches written: none or one

vars == <<turn, tasks, tree, records, journal, messages, cancelled, damaged, late, strays, patch>>

Resting(at) == [at |-> at, calls |-> <<>>, results |-> <<>>, why |-> ""]
Message(role, calls) == <<role, calls>>
Raised == turn' = Resting("raised")
Elements(seq) == {seq[i] : i \in DOMAIN seq}

Init ==
  /\ turn = Resting("idle")
  /\ tasks = 0
  /\ tree = {}
  /\ records = <<>>
  /\ journal = <<>>
  /\ messages = <<Message("system", {})>>
  /\ cancelled = FALSE
  /\ damaged = FALSE
  /\ late = {} /\ strays = {}
  /\ patch = {}

----------------------------------------------------------------------------
(* The run: InMemoryAgentSession.run and the loop *)

Fits(transcript) == Len(transcript) <= MaxMessages

\* The journal takes the new messages, or its error ends the run and the process.
AppendThen(new, next) ==
  IF Fits(journal \o new)
  THEN journal' = journal \o new /\ turn' = next
  ELSE journal' = journal /\ turn' = Resting("raised")

Run ==
  /\ turn.at = "idle" /\ tasks < MaxTasks
  /\ tasks' = tasks + 1
  /\ records' = <<>>
  /\ LET initial == Append(messages, Message("user", {})) IN
       /\ journal' = initial
       /\ turn' = Resting(IF Fits(initial) THEN "model" ELSE "raised")
  /\ UNCHANGED <<tree, messages, cancelled, damaged, patch, late, strays>>

Used == UNION {m[2] : m \in Elements(journal)}

ModelTurn(calls) ==
  /\ turn.at = "model" /\ Elements(calls) \intersect Used = {}
  /\ AppendThen(<<Message("assistant", Elements(calls))>>, [Resting("calls") EXCEPT !.calls = calls])
  /\ UNCHANGED <<tasks, tree, records, messages, cancelled, damaged, patch, late, strays>>

FinalText ==
  /\ turn.at = "model"
  /\ AppendThen(<<Message("assistant", {})>>, Resting("completed"))
  /\ UNCHANGED <<tasks, tree, records, messages, cancelled, damaged, patch, late, strays>>

ModelFails ==
  /\ turn.at = "model"
  /\ turn' = Resting("failed")
  /\ UNCHANGED <<tasks, tree, records, journal, messages, cancelled, damaged, patch, late, strays>>

MutJournalNew ==
  /\ turn.at = "journal" \/ (turn.at = "calls" /\ turn.calls = <<>>)
  /\ IF turn.at = "journal" THEN turn' = Resting("failed") /\ UNCHANGED journal
     ELSE AppendThen(turn.results, Resting("model"))
  /\ UNCHANGED <<tasks, tree, records, messages, cancelled, damaged, patch, late, strays>>

\* The results of the turn reach the journal, those of a turn that fails the run too.
JournalNew ==
  /\ turn.at = "journal" \/ (turn.at = "calls" /\ turn.calls = <<>>)
  /\ AppendThen(turn.results, Resting(IF turn.at = "journal" THEN "failed" ELSE "model"))
  /\ UNCHANGED <<tasks, tree, records, messages, cancelled, damaged, patch, late, strays>>

\* The session takes the transcript of a run whose events came to an end.
RunEnds ==
  /\ turn.at \in {"completed", "failed"}
  /\ messages' = journal
  /\ turn' = Resting(IF turn.at = "failed" THEN "stopped" ELSE "idle")
  /\ UNCHANGED <<tasks, tree, records, journal, cancelled, damaged, patch, late, strays>>

\* After the last task, or one that failed.  The patch may be too large, or its file exist already.
FinalPatch ==
  /\ turn.at = "stopped" \/ (turn.at = "idle" /\ tasks = MaxTasks)
  /\ \/ patch' = {tree} /\ turn' = Resting("done")
     \/ UNCHANGED patch /\ Raised
  /\ UNCHANGED <<tasks, tree, records, journal, messages, cancelled, damaged, late, strays>>

----------------------------------------------------------------------------
(* A tool call: ToolTurnExecutor.execute and InMemoryCheckpointCoordinator *)

Call == Head(turn.calls)
RunFails == turn' = [turn EXCEPT !.at = "journal", !.calls = <<>>, !.why = ""]
Goes(at, why) == turn' = [turn EXCEPT !.at = at, !.why = why]
Concluded(role) ==
  turn' = [turn EXCEPT !.at = "calls", !.calls = Tail(@), !.results = Append(@, Message(role, {Call})), !.why = ""]

\* The interruption comes now, or not.
Interrupt == cancelled' \in {cancelled, TRUE}
Interrupted == cancelled' /\ ~cancelled

Room == Len(records) < MaxCheckpoints

\* What the checkpoint keeps of the conversation: the results of the turn, not yet in the journal, too.
StateFits == Fits(journal \o turn.results)

\* The revision of a commit of all there is.
Snapshot == tree

\* A snapshot that was under way is finished before an interruption goes on; its checkpoint is not kept.
CreateBeforeTool ==
  /\ turn.at = "calls" /\ turn.calls # <<>>
  /\ StateFits /\ Room
  /\ Interrupt
  /\ IF Interrupted
     THEN Raised /\ UNCHANGED records
     ELSE /\ records' = Append(records, [call |-> Call, base |-> Snapshot, state |-> "open", revision |-> {}])
          /\ Goes("tool", "")
  /\ UNCHANGED <<tasks, tree, journal, messages, damaged, patch, late, strays>>

\* At a limit, or when the commit fails; its error takes the place of an interruption.
CreateFails ==
  /\ turn.at = "calls" /\ turn.calls # <<>>
  /\ IF StateFits /\ Room THEN Interrupt ELSE UNCHANGED cancelled
  /\ RunFails
  /\ UNCHANGED <<tasks, tree, records, journal, messages, damaged, patch, late, strays>>

\* A tool that succeeds made its change; one that fails or is interrupted may have, or its thread goes on.
RunTool ==
  /\ turn.at = "tool"
  /\ Interrupt
  /\ \/ ~Interrupted /\ tree' = tree \union {Call} /\ late' = late /\ Goes("complete", "")
     \/ /\ \/ tree' \in {tree, tree \union {Call}} /\ late' = late
           \/ tree' = tree /\ late' = late \union {Call}
        /\ Goes("restore", IF Interrupted THEN "interrupt" ELSE "tool")
  /\ UNCHANGED <<tasks, records, journal, messages, damaged, strays, patch>>

\* An edit whose call is over reaches the worktree.  It checks the file just before it replaces it; what
\* another call did to the file in between is lost.
LateEdit(c) ==
  /\ c \in late
  /\ late' = late \ {c}
  /\ \E lost \in {{}} \union {{d} : d \in tree} :
       /\ tree' = (tree \ lost) \union {c}
       /\ strays' = strays \union lost \union {c}
  /\ UNCHANGED <<turn, tasks, records, journal, messages, cancelled, damaged, patch>>

SetLast(state, revision) == records' = [records EXCEPT ![Len(records)].state = state, ![Len(records)].revision = revision]

\* An interruption waits for the commit and has the workspace restored.  The result with its
\* revision may be too large, and the commit may fail: both roll the call back and fail the run.
CompleteTool ==
  /\ turn.at = "complete"
  /\ Interrupt
  /\ \/ Interrupted /\ Goes("restore", "completion") /\ UNCHANGED records
     \/ ~Interrupted /\ SetLast("completed", tree) /\ (Concluded("tool") \/ Goes("restore", "finalize"))
     \/ ~Interrupted /\ Goes("restore", "finalize") /\ UNCHANGED records
  /\ UNCHANGED <<tasks, tree, journal, messages, damaged, patch, late, strays>>

\* The revision of the call's checkpoint.
Base == records[Len(records)].base

\* What the restore was made for goes on, or an interruption does.
Restore ==
  /\ turn.at = "restore"
  /\ Interrupt
  /\ tree' = Base
  /\ SetLast("rolled_back", {})
  /\ CASE Interrupted \/ turn.why \in {"interrupt", "completion"} -> Raised
       [] ~Interrupted /\ turn.why = "tool" -> Concluded("error")
       [] OTHER -> RunFails
  /\ UNCHANGED <<tasks, journal, messages, damaged, patch, late, strays>>

\* reset or clean fails.  An interrupted completion is rolled back once more by the loop; the error
\* of an interrupted tool leaves the loop, and every other one fails the run.
RestoreFails ==
  /\ turn.at = "restore"
  /\ Interrupt
  /\ tree' \in {tree, Base}
  /\ IF turn.why = "completion" THEN Goes("restore", "finalize") /\ UNCHANGED damaged
     ELSE damaged' = TRUE /\ IF turn.why = "interrupt" THEN Raised ELSE RunFails
  /\ UNCHANGED <<tasks, records, journal, messages, patch, late, strays>>

\* At the model, where nothing is open.
InterruptModel ==
  /\ turn.at = "model" /\ ~cancelled
  /\ cancelled' = TRUE
  /\ Raised
  /\ UNCHANGED <<tasks, tree, records, journal, messages, damaged, patch, late, strays>>

Next ==
  \/ Run \/ FinalText \/ ModelFails \/ JournalNew \/ RunEnds \/ FinalPatch
  \/ CreateBeforeTool \/ CreateFails \/ RunTool \/ CompleteTool \/ Restore \/ RestoreFails \/ InterruptModel
  \/ \E calls \in Turns : ModelTurn(calls)
  \/ \E c \in late : LateEdit(c)

----------------------------------------------------------------------------
(* Properties *)

Outcome(r) == IF r.state = "completed" THEN r.revision ELSE r.base

\* Checkpoints are within their limit, the transcripts within theirs, and at most one is open.
LocalTypeOK ==
  /\ Len(records) <= MaxCheckpoints /\ Fits(messages)
  /\ \A i \in DOMAIN records : records[i].state = "open" => i = Len(records)

\* The same content, up to what edits did that outlived their calls.
Agree(a, b) == a \ strays = b \ strays

\* Every tool of a run starts from what the tool before it left: its committed revision, or the
\* one it was rolled back to (create_before_tool, complete_tool, rollback), up to late edits.
CheckpointsChain ==
  \A i \in 1..(Len(records) - 1) : Agree(records[i + 1].base, Outcome(records[i]))

\* Outside a tool the worktree is what the last checkpoint stands for, also after an interruption
\* at any await and after a failed completion, unless git failed to restore it (_restore_record),
\* and up to late edits.
WorktreeIsAccountedFor ==
  records # <<>> /\ turn.at \notin {"tool", "complete", "restore"} /\ ~damaged
    => Agree(tree, Outcome(records[Len(records)]))

\* The final patch holds the changes of exactly the calls the session's transcript reports as
\* successful (final_patch, InMemoryAgentSession.run), unless git failed to restore the worktree,
\* and up to late edits: the change of an edit that ran out of time may be in the patch.
PatchMatchesTranscript ==
  ~damaged => \A p \in patch : Agree(p, UNION {m[2] : m \in {k \in Elements(messages) : k[1] = "tool"}})

\* The checkpoints, the worktree, the transcript and the final patch of a local session agree.
SessionAddsUp == LocalTypeOK /\ CheckpointsChain /\ WorktreeIsAccountedFor /\ PatchMatchesTranscript
=============================================================================
