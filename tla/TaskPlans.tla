----------------------------- MODULE TaskPlans ------------------------------
(***************************************************************************)
(* The task plan of a run: rows with a version for every branch of the     *)
(* run, replaced by clients of the API and by the agent's                  *)
(* update_task_plan tool with a compare-and-set on the version; the copy   *)
(* an attempt works with, which it puts into its checkpoints; and the      *)
(* rewind, which starts a branch with the plan of a checkpoint.            *)
(***************************************************************************)
EXTENDS Integers, FiniteSets

CONSTANTS
  Clients,    \* users of the task-plan endpoints
  Attempts,   \* attempts at the run, in lease order
  Tasks,      \* identifiers of tasks
  Candidates, \* plans that are submitted: [dependencies, completed]
  MaxEpoch, MaxVersion, MaxCheckpoints \* bounds

VARIABLES
  branch,      \* runs.execution_epoch
  plans,       \* task_plans
  client,      \* client[c]: the version of the plan the client saw last
  holder,      \* the attempt whose lease is the present one, 0 for none
  loop,        \* loop[a]: the plan an attempt works with
  checkpoints, \* checkpoints of the run
  selected     \* runs.last_checkpoint_id, 0 for none
vars == <<branch, plans, client, holder, loop, checkpoints, selected>>

Plan == [dependencies: [Tasks -> SUBSET Tasks], completed: SUBSET Tasks]
Nothing == [dependencies |-> [t \in Tasks |-> {}], completed |-> {}]
Nowhere == [epoch |-> 0, version |-> 0]
Unread == [epoch |-> 0, plan |-> Nothing, tool |-> FALSE]

\* seen is history: which version the author of a row had read, Nowhere if he guessed the number.
Row == [epoch: 1 .. MaxEpoch, version: 1 .. MaxVersion, plan: Plan,
        seen: [epoch: 0 .. MaxEpoch, version: 0 .. MaxVersion]]

\* A run starts with version 1 of the submitted tasks.
Init ==
  /\ branch = 1 /\ holder = 0 /\ checkpoints = {} /\ selected = 0
  /\ plans = {[epoch |-> 1, version |-> 1, plan |-> Nothing, seen |-> Nowhere]}
  /\ client = [c \in Clients |-> Nowhere] /\ loop = [a \in Attempts |-> Unread]

\* The row with the highest version of the present branch.
Latest == CHOOSE r \in plans : r.epoch = branch /\ \A q \in plans : q.epoch = branch => q.version <= r.version

\* Following the dependencies from any task comes back to no task on the way.
Acyclic(plan) == \A group \in (SUBSET Tasks) \ {{}} : \E t \in group : plan.dependencies[t] \intersect group = {}

Valid(plan) == Acyclic(plan) /\ \A t \in plan.completed : plan.dependencies[t] \subseteq plan.completed

MutExpected(version) == version <= Latest.version
Expected(version) == version = Latest.version

\* The branch the row goes to is the one the run is in by now; no lease is asked for.
Update(version, plan, seen) ==
  /\ Valid(plan) /\ Expected(version) /\ version < MaxVersion
  /\ plans' = plans \union {[epoch |-> branch, version |-> Latest.version + 1, plan |-> plan, seen |-> seen]}

----------------------------------------------------------------------------
Get(c) ==
  /\ client' = [client EXCEPT ![c] = [epoch |-> branch, version |-> Latest.version]]
  /\ UNCHANGED <<branch, plans, holder, loop, checkpoints, selected>>

UpdateTaskPlan(c, plan) ==
  /\ client[c] # Nowhere /\ Update(client[c].version, plan, client[c])
  /\ client' = [client EXCEPT ![c] = [epoch |-> branch, version |-> Latest.version + 1]]
  /\ UNCHANGED <<branch, holder, loop, checkpoints, selected>>

\* The plan of the selected checkpoint, else of the newest one of the branch, else the latest row.
Recovered ==
  LET own == {c \in checkpoints : IF selected # 0 THEN c.number = selected ELSE c.epoch = branch} IN
  IF own = {} THEN Latest.plan ELSE (CHOOSE c \in own : \A d \in own : d.number <= c.number).plan

\* The next attempt takes the run over, whether or not the one before still works.
Load(a) ==
  /\ \A b \in Attempts : loop[b] = Unread <=> b >= a
  /\ holder' = a
  /\ loop' = [loop EXCEPT ![a] = [epoch |-> branch, plan |-> Recovered, tool |-> FALSE]]
  /\ UNCHANGED <<branch, plans, client, checkpoints, selected>>

Fenced(a) == holder = a

\* The tool call is journalled under the lease; what it does is not.
StartTool(a) ==
  /\ Fenced(a) /\ ~loop[a].tool /\ loop' = [loop EXCEPT ![a].tool = TRUE]
  /\ UNCHANGED <<branch, plans, client, holder, checkpoints, selected>>

\* The model names the version, which its context does not show.  A conflict is the tool's result.
RunTool(a, version, plan) ==
  /\ loop[a].tool
  /\ \/ /\ Update(version, plan, Nowhere)
        /\ loop' = [loop EXCEPT ![a].tool = FALSE, ![a].plan = plan]
     \/ /\ ~(Valid(plan) /\ Expected(version)) /\ UNCHANGED plans
        /\ loop' = [loop EXCEPT ![a].tool = FALSE]
  /\ UNCHANGED <<branch, client, holder, checkpoints, selected>>

CreateCheckpoint(a) ==
  /\ Fenced(a) /\ Cardinality(checkpoints) < MaxCheckpoints
  /\ checkpoints' = checkpoints \union
       {[number |-> Cardinality(checkpoints) + 1, epoch |-> loop[a].epoch, plan |-> loop[a].plan, by |-> a]}
  /\ UNCHANGED <<branch, plans, client, holder, loop, selected>>

\* The result of an attempt, which may be a pause, selects its last checkpoint or the one it started from.
EndAttempt ==
  /\ holder # 0 /\ holder' = 0
  /\ LET known == {c.number : c \in {c \in checkpoints :
                      IF selected # 0 THEN c.by = holder \/ c.number = selected ELSE c.epoch = branch}} IN
     selected' = IF known = {} THEN 0 ELSE CHOOSE n \in known : \A m \in known : m <= n
  /\ UNCHANGED <<branch, plans, client, loop, checkpoints>>

\* The branch starts with the plan of the checkpoint as its version 1.
Rewind(c) ==
  /\ holder = 0 /\ branch < MaxEpoch /\ branch' = branch + 1 /\ selected' = c.number
  /\ plans' = plans \union {[epoch |-> branch + 1, version |-> 1, plan |-> c.plan, seen |-> Nowhere]}
  /\ UNCHANGED <<client, holder, loop, checkpoints>>

Next ==
  \/ \E c \in Clients : Get(c) \/ \E plan \in Candidates : UpdateTaskPlan(c, plan)
  \/ \E a \in Attempts : \/ Load(a) \/ StartTool(a) \/ CreateCheckpoint(a)
                         \/ \E version \in 1 .. MaxVersion, plan \in Candidates : RunTool(a, version, plan)
  \/ EndAttempt
  \/ \E c \in checkpoints : Rewind(c)

Spec == Init /\ [][Next]_vars

----------------------------------------------------------------------------
(* Properties *)

\* Rows are well formed, and versions of a branch are numbered without a gap.
PlanTypeOK ==
  /\ branch \in 1 .. MaxEpoch /\ plans \subseteq Row
  /\ \A r \in plans : \A v \in 1 .. r.version : \E q \in plans : q.epoch = r.epoch /\ q.version = v

\* A plan that a client wrote replaces the version it had read, or the same number of another branch: no
\* update of the branch in between, by a client or by the agent, is lost (update).
NoLostPlanUpdate ==
  \A r \in plans : r.seen.epoch = r.epoch =>
    /\ r.seen.version = r.version - 1
    /\ \A q \in plans : q.epoch = r.epoch /\ q.version = r.version => q = r

\* Every stored plan can be worked off: there is an order of its tasks in which each comes after those it
\* depends on, and the completed ones are a start of such an order (validate_graph).
PlansCanBeWorkedOff ==
  \A r \in plans : \E rank \in [Tasks -> 1 .. Cardinality(Tasks)] :
    /\ \A t \in Tasks : \A d \in r.plan.dependencies[t] : rank[d] < rank[t]
    /\ \A t \in r.plan.completed, u \in Tasks \ r.plan.completed : rank[t] <= rank[u]

\* What a checkpoint holds, and so what a rewind to it brings back, is a version of the plan of the branch the
\* checkpoint is in, although the copies of attempts that were overtaken by a rewind are of another branch
\* (load, create_before_tool).
CheckpointPlanIsOfItsBranch ==
  \A c \in checkpoints : \E r \in plans : r.epoch = c.epoch /\ r.plan = c.plan

\* Task plans keep every update of their branch, can be worked off and are restored into their branch.
PlansAreKept == PlanTypeOK /\ NoLostPlanUpdate /\ PlansCanBeWorkedOff /\ CheckpointPlanIsOfItsBranch
=============================================================================
