---------------------------- MODULE SessionData -----------------------------
(***************************************************************************)
(* What belongs to a session beside its conversation: the memory jobs of   *)
(* its runs, the task plan of a run and the local session of the command   *)
(* line.  They share no state, so a behaviour is one of a single           *)
(* component, which the initial state picks, and the others rest.          *)
(***************************************************************************)
EXTENDS Integers, FiniteSets, Sequences

CONSTANTS
  Runs, Processes, Facts, MemoryAttempts, MemoryEpochs, MaxJobs,                    \* see MemoryJobs
  Clients, Attempts, Tasks, Candidates, PlanEpochs, MaxVersion, PlanCheckpoints,    \* see TaskPlans
  Turns, MaxTasks, LocalCheckpoints, MaxMessages                                    \* see LocalSession

\* A job has an attempt, attempts at a run are numbered from 1, and a session has room for its system message.
ASSUME SessionDataType ==
  /\ MemoryAttempts \in Nat \ {0} /\ MemoryEpochs \in Nat \ {0}
  /\ Attempts \subseteq Nat \ {0} /\ IsFiniteSet(Tasks) /\ PlanEpochs \in Nat \ {0} /\ MaxVersion \in Nat \ {0}
  /\ \A plan \in Candidates : plan \in [dependencies: [Tasks -> SUBSET Tasks], completed: SUBSET Tasks]
  /\ \A calls \in Turns : calls \in Seq({calls[i] : i \in DOMAIN calls})
  /\ LocalCheckpoints \in Nat /\ MaxMessages \in Nat \ {0}

VARIABLES
  component,
  epoch, completed, enabled, job, memory, proc,
  branch, plans, client, holder, loop, checkpoints, selected,
  turn, tasks, tree, records, journal, messages, cancelled, damaged, late, strays, patch

memoryVars == <<epoch, completed, enabled, job, memory, proc>>
planVars == <<branch, plans, client, holder, loop, checkpoints, selected>>
localVars == <<turn, tasks, tree, records, journal, messages, cancelled, damaged, late, strays, patch>>
sessionVars == <<component, memoryVars, planVars, localVars>>

Memory == INSTANCE MemoryJobs WITH MaxAttempts <- MemoryAttempts, MaxEpoch <- MemoryEpochs

Planning == INSTANCE TaskPlans WITH MaxEpoch <- PlanEpochs, MaxCheckpoints <- PlanCheckpoints

Local == INSTANCE LocalSession WITH MaxCheckpoints <- LocalCheckpoints

SessionInit == component \in {"memory", "planning", "local"} /\ Memory!Init /\ Planning!Init /\ Local!Init

InMemory(A) == component = "memory" /\ A /\ UNCHANGED <<component, planVars, localVars>>
InPlanning(A) == component = "planning" /\ A /\ UNCHANGED <<component, memoryVars, localVars>>
InLocal(A) == component = "local" /\ A /\ UNCHANGED <<component, memoryVars, planVars>>

SessionNext == InMemory(Memory!Next) \/ InPlanning(Planning!Next) \/ InLocal(Local!Next)

\* The memory jobs are as fair as their own specification says.
SessionSpec == SessionInit /\ [][SessionNext]_sessionVars /\ WF_sessionVars(InMemory(Memory!Progress))

----------------------------------------------------------------------------
(* The properties of the components *)

\* A memory job ends once, with the memories of one extraction; nothing is stored for a branch that was given up or
\* against the opt-out as the transaction read it, and a fact whose memory was deleted has no other memory of the
\* same epoch number (PostgresMemoryRepository).
MemoryFollowsTheUser == [][Memory!MemoryFollowsTheUser]_sessionVars

\* Every memory job ends (claim_pending, process_once).
MemoryJobsEnd == Memory!MemoryJobsEnd

\* No update of a task plan is lost within a branch, every stored plan can be worked off and the plan in a
\* checkpoint is one of its branch (PostgresTaskRepository.update, TaskPlanUpdate.validate_graph,
\* PostgresRecoveryStore.load, create_before_tool).
PlansAreKept == Planning!PlansAreKept

\* A local tool starts from what the tool before it left, the worktree is what its last checkpoint stands
\* for, and the final patch holds what the transcript reports as done, unless a restore failed and up to the edits
\* of threads that outlived their call (create_before_tool, complete_tool, _restore_record, edit_file, final_patch,
\* InMemoryAgentSession.run).
SessionAddsUp == Local!SessionAddsUp
=============================================================================
