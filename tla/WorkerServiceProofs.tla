------------------------- MODULE WorkerServiceProofs -------------------------
(***************************************************************************)
(* Proof that a worker's sandboxes are accounted for, for any number of    *)
(* leases, slots, sandboxes and faults.                                    *)
(*                                                                         *)
(* The invariant has a part for each lease, which only the steps of that   *)
(* lease's tasks can disturb, and a part for what the tasks share: the     *)
(* slots, the node and the stage of the service.                           *)
(***************************************************************************)
EXTENDS WorkerService, FiniteSetTheorems, TLAPS

\* Where a task is once its execution has been started.
Late == {"execute", "unwind", "finish", "release", "ended"}

\* The task's own share.
TaskSound(l) ==
    /\ lease[l] \in {"queued", "stray"} <=> pc[l] = "unclaimed"
    /\ beat[l] # None => lease[l] \notin {"queued", "stray"}
    /\ beat[l] = "lost" => lease[l] # "active"
    /\ pc[l] = "release" /\ lease[l] = "active" => l \in crashed
    /\ pc[l] = "ended" /\ lease[l] = "active" => fatal
    /\ pc[l] \in {"restore", "execute"} => l \in slot
    /\ l \in slot => pc[l] \in {"restore", "execute", "unwind", "finish", "release"} /\ l \notin leaked
    /\ l \in leaked => pc[l] \in {"unwind", "finish", "release", "ended"}
    /\ pc[l] = "slot" => op[l] \in {"running", "ok"}

\* The execution's share: a result is one of an execution that is over and whose sandbox
\* is gone.  A task that still waits under a heartbeat has not asked it to stop.
ExecSound(l) ==
    /\ exec[l] # None => pc[l] \in Late
    /\ l \in stopping => exec[l] \in {"creating", "running", "cleaning"}
    /\ l \in orphan => exec[l] = "over"
    /\ pc[l] = "execute" /\ beat[l] = "beating" => l \notin stopping
    /\ pc[l] = "execute" /\ beat[l] = "beating" /\ op[l] = "ok" => exec[l] = "over" /\ l \notin node
    /\ outcome[l] = "result" => /\ pc[l] \in {"finish", "release", "ended"}
                                /\ exec[l] = "over" /\ l \notin node
    /\ stored[l] = "result" => /\ pc[l] \in {"release", "ended"}
                               /\ exec[l] = "over" /\ l \notin node

\* The slots that are out are finitely many, and SlotsAddUp.
SlotsSound == IsFiniteSet(Taken) /\ free + Cardinality(Taken) = SandboxSlots

StageSound == stage \in {"drained", "closed", "failed"}
                 => \A l \in Leases : pc[l] \in {"unclaimed", "ended"}

Inv == /\ TypeOK
       /\ \A l \in Leases : TaskSound(l) /\ ExecSound(l)
       /\ SlotsSound /\ EverySandboxIsHeld /\ StageSound

-----------------------------------------------------------------------------
(********************************** Frames *********************************)

\* Nothing that lease q's invariant speaks of changes.
Same(q) ==
    /\ pc'[q] = pc[q] /\ op'[q] = op[q] /\ beat'[q] = beat[q] /\ lease'[q] = lease[q]
    /\ outcome'[q] = outcome[q] /\ stored'[q] = stored[q] /\ exec'[q] = exec[q]
    /\ (q \in slot') <=> (q \in slot)
    /\ (q \in leaked') <=> (q \in leaked)
    /\ (q \in crashed') <=> (q \in crashed)
    /\ (q \in stopping') <=> (q \in stopping)
    /\ (q \in orphan') <=> (q \in orphan)
    /\ (q \in node') => (q \in node)
    /\ fatal => fatal'

LEMMA SameSound ==
    ASSUME NEW q \in Leases, TaskSound(q), ExecSound(q), Same(q)
    PROVE  TaskSound(q)' /\ ExecSound(q)'
  BY DEF TaskSound, ExecSound, Same

\* A step of lease l's tasks.
Step(l) == LoseLease(l) \/ AskCancel(l) \/ Claim(l) \/ Task(l) \/ Execution(l)

LEMMA OthersSame ==
    ASSUME TypeOK, NEW l \in Leases, Step(l), NEW q \in Leases, q # l
    PROVE  Same(q)
<1> USE DEF TypeOK, Same, GoTo, taskVars, execVars, serviceVars, Cancelling, Fail, ExecEnds
<1>1. CASE LoseLease(l) \/ AskCancel(l) \/ Claim(l)
  BY <1>1 DEF LoseLease, AskCancel, Claim
<1>2. CASE Start(l)
  BY <1>2 DEF Start
<1>3. CASE Acquire(l)
  BY <1>3 DEF Acquire
<1>4. CASE PhaseEnds(l) \/ SlotAcquired(l)
  BY <1>4 DEF PhaseEnds, SlotAcquired
<1>5. CASE Heartbeat(l)
  BY <1>5 DEF Heartbeat
<1>6. CASE PhaseResult(l)
  BY <1>6 DEF PhaseResult
<1>7. CASE HeartbeatEnded(l)
  BY <1>7 DEF HeartbeatEnded
<1>8. CASE Unwound(l)
  BY <1>8 DEF Unwound
<1>9. CASE AttemptTimeout(l)
  BY <1>9 DEF AttemptTimeout
<1>10. CASE Finish(l)
  BY <1>10 DEF Finish
<1>11. CASE Release(l)
  BY <1>11 DEF Release
<1>12. CASE CreateSandbox(l)
  BY <1>12 DEF CreateSandbox
<1>13. CASE LoopEnds(l)
  BY <1>13 DEF LoopEnds
<1>14. CASE Cleanup(l)
  BY <1>14 DEF Cleanup
<1> QED
  BY <1>1, <1>2, <1>3, <1>4, <1>5, <1>6, <1>7, <1>8, <1>9, <1>10, <1>11, <1>12, <1>13, <1>14
     DEF Step, Task, Execution

-----------------------------------------------------------------------------
(**************************** The lease's own steps ************************)

LEMMA OwnTask ==
    ASSUME Inv, NEW l \in Leases, Step(l)
    PROVE  TaskSound(l)'
<1>1. TypeOK /\ TaskSound(l) /\ l \in Leases
  BY DEF Inv
<1> USE <1>1, NoneIsNoValue DEF TypeOK, TaskSound, GoTo, taskVars, execVars, serviceVars, Fail, ExecEnds, Phases
<1>2. CASE LoseLease(l) \/ AskCancel(l) \/ Claim(l)
  BY <1>2 DEF LoseLease, AskCancel, Claim
<1>3. CASE Start(l)
  BY <1>3 DEF Start
<1>4. CASE Acquire(l)
  BY <1>4 DEF Acquire
<1>5. CASE PhaseEnds(l) \/ SlotAcquired(l)
  BY <1>5 DEF PhaseEnds, SlotAcquired
<1>6. CASE Heartbeat(l)
  BY <1>6 DEF Heartbeat
<1>7. CASE PhaseResult(l)
  BY <1>7 DEF PhaseResult, Following
<1>8. CASE HeartbeatEnded(l)
  BY <1>8 DEF HeartbeatEnded
<1>9. CASE Unwound(l)
  BY <1>9 DEF Unwound
<1>10. CASE AttemptTimeout(l)
  BY <1>10 DEF AttemptTimeout
<1>11. CASE Finish(l)
  BY <1>11 DEF Finish
<1>12. CASE Release(l)
  BY <1>12 DEF Release
<1>13. CASE CreateSandbox(l)
  BY <1>13 DEF CreateSandbox
<1>14. CASE LoopEnds(l)
  BY <1>14 DEF LoopEnds
<1>15. CASE Cleanup(l)
  BY <1>15 DEF Cleanup
<1> QED
  BY <1>2, <1>3, <1>4, <1>5, <1>6, <1>7, <1>8, <1>9, <1>10, <1>11, <1>12, <1>13, <1>14, <1>15
     DEF Step, Task, Execution

LEMMA OwnExec ==
    ASSUME Inv, NEW l \in Leases, Step(l)
    PROVE  ExecSound(l)'
<1>1. TypeOK /\ ExecSound(l) /\ EverySandboxIsHeld
  BY DEF Inv
<1> USE <1>1, NoneIsNoValue DEF TypeOK, ExecSound, GoTo, taskVars, execVars, serviceVars, Fail, ExecEnds,
                   Cancelling, Late, Phases
<1>2. CASE LoseLease(l) \/ AskCancel(l) \/ Claim(l)
  <2>1. TaskSound(l)
    BY DEF Inv
  <2> QED
    BY <1>2, <2>1 DEF LoseLease, AskCancel, Claim, TaskSound
<1>3. CASE Start(l)
  BY <1>3 DEF Start
<1>4. CASE Acquire(l)
  BY <1>4 DEF Acquire
<1>5. CASE PhaseEnds(l) \/ SlotAcquired(l)
  BY <1>5 DEF PhaseEnds, SlotAcquired
<1>6. CASE Heartbeat(l)
  BY <1>6 DEF Heartbeat
<1>7. CASE PhaseResult(l)
  BY <1>7 DEF PhaseResult, Following
<1>8. CASE HeartbeatEnded(l)
  BY <1>8 DEF HeartbeatEnded
<1>9. CASE Unwound(l)
  BY <1>9 DEF Unwound
<1>10. CASE AttemptTimeout(l)
  BY <1>10 DEF AttemptTimeout
<1>11. CASE Finish(l)
  BY <1>11 DEF Finish
<1>12. CASE Release(l)
  BY <1>12 DEF Release
<1>13. CASE CreateSandbox(l)
  BY <1>13 DEF CreateSandbox
<1>14. CASE LoopEnds(l)
  BY <1>14 DEF LoopEnds
<1>15. CASE Cleanup(l)
  BY <1>15 DEF Cleanup, EverySandboxIsHeld
<1> QED
  BY <1>2, <1>3, <1>4, <1>5, <1>6, <1>7, <1>8, <1>9, <1>10, <1>11, <1>12, <1>13, <1>14, <1>15
     DEF Step, Task, Execution

-----------------------------------------------------------------------------
(************************** What the tasks share ***************************)

\* The tasks with a slot change by at most the task that moves, and `free' follows.
SlotStep(l) ==
    \/ Taken' = Taken /\ free' = free
    \/ Taken' = Taken \cup {l} /\ l \notin Taken /\ free' = free - 1
    \/ Taken' = Taken \ {l} /\ l \in Taken /\ free' = free + 1

LEMMA EverySlotStep ==
    ASSUME Inv, NEW l \in Leases, Step(l)
    PROVE  SlotStep(l)
<1>1. TypeOK /\ TaskSound(l)
  BY DEF Inv
<1> USE <1>1 DEF TypeOK, SlotStep, Taken, GoTo, taskVars, execVars, serviceVars, Fail, ExecEnds
<1>2. CASE LoseLease(l) \/ AskCancel(l) \/ Claim(l)
  BY <1>2 DEF LoseLease, AskCancel, Claim, TaskSound
<1>3. CASE Start(l)
  BY <1>3 DEF Start
<1>4. CASE Acquire(l)
  BY <1>4 DEF Acquire
<1>5. CASE PhaseEnds(l)
  BY <1>5 DEF PhaseEnds
<1>6. CASE SlotAcquired(l)
  <2>1. Taken' = Taken \cup {l}
    BY <1>6 DEF SlotAcquired
  <2>2. l \notin Taken
    BY <1>6 DEF SlotAcquired, TaskSound
  <2>3. free' = free - 1
    BY <1>6 DEF SlotAcquired
  <2> QED
    BY <2>1, <2>2, <2>3
<1>7. CASE Heartbeat(l)
  BY <1>7 DEF Heartbeat
<1>8. CASE PhaseResult(l)
  <2>1. Taken' = Taken
    BY <1>8 DEF PhaseResult, Following, Phases, TaskSound
  <2> QED
    BY <1>8, <2>1 DEF PhaseResult
<1>9. CASE HeartbeatEnded(l)
  BY <1>9, NoneIsNoValue DEF HeartbeatEnded, Phases, TaskSound
<1>10. CASE Unwound(l) \/ AttemptTimeout(l)
  BY <1>10 DEF Unwound, AttemptTimeout
<1>11. CASE Finish(l)
  BY <1>11 DEF Finish
<1>12. CASE Release(l)
  <2>1. CASE l \in slot
    BY <1>12, <2>1 DEF Release, TaskSound
  <2>2. CASE l \notin slot
    BY <1>12, <2>2 DEF Release
  <2> QED
    BY <2>1, <2>2
<1>13. CASE CreateSandbox(l)
  BY <1>13 DEF CreateSandbox
<1>14. CASE LoopEnds(l)
  BY <1>14 DEF LoopEnds
<1>15. CASE Cleanup(l)
  BY <1>15 DEF Cleanup
<1> QED
  BY <1>2, <1>3, <1>4, <1>5, <1>6, <1>7, <1>8, <1>9, <1>10, <1>11, <1>12, <1>13, <1>14, <1>15
     DEF Step, Task, Execution

LEMMA SlotsKept ==
    ASSUME Inv, NEW l \in Leases, SlotStep(l), free > 0 \/ free' >= free
    PROVE  SlotsSound' /\ free' \in 0..SandboxSlots
<1>1. /\ IsFiniteSet(Taken) /\ Cardinality(Taken) \in Nat /\ free \in Int /\ 0 <= free
      /\ free + Cardinality(Taken) = SandboxSlots /\ SandboxSlots \in Int
  BY SlotsAssumption, FS_CardinalityType DEF Inv, SlotsSound, TypeOK
<1> HIDE DEF Taken
<1>2. CASE Taken' = Taken /\ free' = free
  BY <1>1, <1>2 DEF SlotsSound
<1>3. CASE Taken' = Taken \cup {l} /\ l \notin Taken /\ free' = free - 1
  <2>1. IsFiniteSet(Taken') /\ Cardinality(Taken') = Cardinality(Taken) + 1
    BY <1>1, <1>3, FS_AddElement
  <2> QED
    BY <1>1, <1>3, <2>1 DEF SlotsSound
<1>4. CASE Taken' = Taken \ {l} /\ l \in Taken /\ free' = free + 1
  <2>1. IsFiniteSet(Taken') /\ Cardinality(Taken') = Cardinality(Taken) - 1
    BY <1>1, <1>4, FS_RemoveElement
  <2>2. Cardinality(Taken') \in Nat
    BY <2>1, FS_CardinalityType
  <2> QED
    BY <1>1, <1>4, <2>1, <2>2 DEF SlotsSound
<1> QED
  BY <1>2, <1>3, <1>4 DEF SlotStep

LEMMA FreeIsTaken ==
    ASSUME Inv, NEW l \in Leases, Step(l)
    PROVE  free > 0 \/ free' >= free
<1>1. free \in Int
  BY DEF Inv, TypeOK
<1>2. CASE SlotAcquired(l)
  BY <1>2 DEF SlotAcquired
<1>3. CASE Release(l)
  BY <1>1, <1>3 DEF Release
<1>4. CASE free' = free
  BY <1>1, <1>4
<1> QED
  BY <1>2, <1>3, <1>4
     DEF Step, Task, Execution, LoseLease, AskCancel, Claim, Start, Acquire, PhaseEnds, Heartbeat,
         PhaseResult, HeartbeatEnded, Unwound, AttemptTimeout, Finish, CreateSandbox, LoopEnds, Cleanup,
         serviceVars

LEMMA SandboxesHeld ==
    ASSUME Inv, NEW l \in Leases, Step(l)
    PROVE  EverySandboxIsHeld'
<1>1. EverySandboxIsHeld
  BY DEF Inv
<1>2. CASE CreateSandbox(l) \/ Cleanup(l)
  BY <1>1, <1>2 DEF CreateSandbox, Cleanup, EverySandboxIsHeld
<1>3. CASE UNCHANGED <<held, node, orphan>>
  BY <1>1, <1>3 DEF EverySandboxIsHeld
<1> QED
  BY <1>2, <1>3 DEF Step, Task, Execution, LoseLease, AskCancel, Claim, Start, Acquire, PhaseEnds,
         SlotAcquired, Heartbeat, PhaseResult, HeartbeatEnded, Unwound, AttemptTimeout, Finish, Release,
         LoopEnds, execVars

\* A service past its drain claims nothing, and a task that has ended takes no step of its own.
LEMMA StageKept ==
    ASSUME Inv, NEW l \in Leases, Step(l)
    PROVE  StageSound'
<1> SUFFICES ASSUME stage' \in {"drained", "closed", "failed"}, NEW q \in Leases
             PROVE  pc'[q] \in {"unclaimed", "ended"}
  BY DEF StageSound
<1>1. stage' = stage
  BY DEF Step, Task, Execution, LoseLease, AskCancel, Claim, Start, Acquire, PhaseEnds,
         SlotAcquired, Heartbeat, PhaseResult, HeartbeatEnded, Unwound, AttemptTimeout, Finish, Release,
         CreateSandbox, LoopEnds, Cleanup, serviceVars
<1>2. pc[l] \in {"unclaimed", "ended"} /\ pc[q] \in {"unclaimed", "ended"}
  BY <1>1 DEF Inv, StageSound
<1>3. pc' = pc
  BY <1>1, <1>2 DEF Step, Task, Execution, LoseLease, AskCancel, Claim, Start, Acquire, PhaseEnds,
         SlotAcquired, Heartbeat, PhaseResult, HeartbeatEnded, Unwound, AttemptTimeout, Finish, Release,
         CreateSandbox, LoopEnds, Cleanup, taskVars, Phases
<1> QED
  BY <1>2, <1>3

\* Every variable but `free', which SlotsKept bounds, stays of its type.
LEMMA TypesKept ==
    ASSUME Inv, NEW l \in Leases, Step(l), free' \in 0..SandboxSlots
    PROVE  TypeOK'
<1>1. TypeOK
  BY DEF Inv
<1> USE <1>1 DEF TypeOK, GoTo, taskVars, execVars, serviceVars, Fail, ExecEnds, Cancelling, Phases, Fault
<1>2. CASE LoseLease(l) \/ AskCancel(l) \/ Claim(l)
  BY <1>2, SlotsAssumption DEF LoseLease, AskCancel, Claim
<1>3. CASE Start(l)
  BY <1>3, SlotsAssumption DEF Start
<1>4. CASE Acquire(l)
  BY <1>4, SlotsAssumption DEF Acquire
<1>5. CASE PhaseEnds(l)
  BY <1>5, SlotsAssumption DEF PhaseEnds
<1>6. CASE SlotAcquired(l)
  BY <1>6 DEF SlotAcquired
<1>7. CASE Heartbeat(l)
  BY <1>7, SlotsAssumption DEF Heartbeat
<1>8. CASE PhaseResult(l)
  BY <1>8 DEF PhaseResult, Following
<1>9. CASE HeartbeatEnded(l)
  BY <1>9 DEF HeartbeatEnded
<1>10. CASE Unwound(l)
  BY <1>10 DEF Unwound
<1>11. CASE AttemptTimeout(l)
  BY <1>11 DEF AttemptTimeout
<1>12. CASE Finish(l)
  BY <1>12, SlotsAssumption DEF Finish
<1>13. CASE Release(l)
  <2>1. fatal' \in BOOLEAN
    BY <1>13, Zenon DEF Release
  <2> QED
    BY <1>13, <2>1 DEF Release
<1>14. CASE CreateSandbox(l)
  BY <1>14, SlotsAssumption DEF CreateSandbox
<1>15. CASE LoopEnds(l)
  BY <1>15 DEF LoopEnds
<1>16. CASE Cleanup(l)
  BY <1>16, SlotsAssumption DEF Cleanup
<1> QED
  BY <1>2, <1>3, <1>4, <1>5, <1>6, <1>7, <1>8, <1>9, <1>10, <1>11, <1>12, <1>13, <1>14, <1>15, <1>16
     DEF Step, Task, Execution

LEMMA LeaseStep ==
    ASSUME Inv, NEW l \in Leases, Step(l)
    PROVE  Inv'
<1>1. SlotsSound' /\ free' \in 0..SandboxSlots
  BY EverySlotStep, FreeIsTaken, SlotsKept
<1>2. TypeOK'
  BY <1>1, TypesKept
<1>3. \A q \in Leases : TaskSound(q)' /\ ExecSound(q)'
  <2> TAKE q \in Leases
  <2>1. CASE q = l
    BY <2>1, OwnTask, OwnExec
  <2>2. CASE q # l
    <3>1. TypeOK /\ TaskSound(q) /\ ExecSound(q)
      BY DEF Inv
    <3>2. Same(q)
      BY <2>2, <3>1, OthersSame
    <3> QED
      BY <3>1, <3>2, SameSound
  <2> QED
    BY <2>1, <2>2
<1> QED
  BY <1>1, <1>2, <1>3, SandboxesHeld, StageKept DEF Inv

LEMMA ServiceStep ==
    ASSUME Inv, Stop \/ Drain \/ Close
    PROVE  Inv'
<1> USE DEF taskVars, execVars
<1>1. TypeOK /\ EverySandboxIsHeld
  BY DEF Inv
<1>2. TypeOK'
  <2>1. CASE Stop \/ Drain
    BY <1>1, <2>1 DEF TypeOK, Stop, Drain
  <2>2. CASE Close
    BY <1>1, <2>2, SlotsAssumption DEF TypeOK, Close, Fault
  <2> QED
    BY <2>1, <2>2
<1>3. \A q \in Leases : Same(q)
  BY DEF Stop, Drain, Close, Same
<1>4. \A q \in Leases : TaskSound(q)' /\ ExecSound(q)'
  BY <1>3, SameSound DEF Inv
<1>5. SlotsSound'
  BY DEF Inv, SlotsSound, Taken, Stop, Drain, Close
<1>6. EverySandboxIsHeld'
  BY <1>1 DEF Stop, Drain, Close, EverySandboxIsHeld
<1>7. StageSound'
  BY DEF Inv, StageSound, Stop, Drain, Close, Active
<1> QED
  BY <1>2, <1>4, <1>5, <1>6, <1>7 DEF Inv

LEMMA InvStep == Inv /\ [Next]_vars => Inv'
<1> SUFFICES ASSUME Inv, [Next]_vars PROVE Inv'
  OBVIOUS
<1>1. CASE \E l \in Leases : Step(l)
  BY <1>1, LeaseStep
<1>2. CASE Stop \/ Drain \/ Close
  BY <1>2, ServiceStep
<1>3. CASE UNCHANGED vars
  BY <1>3 DEF vars, taskVars, execVars, serviceVars, Inv, TypeOK, TaskSound, ExecSound, SlotsSound, Taken,
              EverySandboxIsHeld, StageSound
<1> QED
  BY <1>1, <1>2, <1>3 DEF Next, Step

LEMMA InvInit == Init => Inv
<1> SUFFICES ASSUME Init PROVE Inv
  OBVIOUS
<1>1. TypeOK
  <2>1. free \in 0..SandboxSlots /\ faults \in 0..MaxFaults
    BY SlotsAssumption DEF Init
  <2>2. fatal \in BOOLEAN
    BY Zenon DEF Init
  <2> QED
    BY <2>1, <2>2 DEF Init, TypeOK
<1>2. \A l \in Leases : TaskSound(l) /\ ExecSound(l)
  BY NoneIsNoValue DEF Init, TaskSound, ExecSound
<1>3. Taken = {}
  BY NoneIsNoValue DEF Init, Taken
<1>4. SlotsSound
  BY <1>3, FS_EmptySet, SlotsAssumption DEF Init, SlotsSound
<1> QED
  BY <1>1, <1>2, <1>4 DEF Init, Inv, EverySandboxIsHeld, StageSound

LEMMA InvImplies == Inv => SandboxesAreAccountedFor
<1> SUFFICES ASSUME Inv PROVE SandboxesAreAccountedFor
  OBVIOUS
<1>1. SlotsBoundExecutions
  <2> DEFINE E == {l \in Leases : pc[l] \in {"restore", "execute"}}
  <2>1. E \subseteq Taken
    BY DEF Inv, TaskSound, Taken
  <2>2. /\ IsFiniteSet(Taken) /\ Cardinality(Taken) \in Nat /\ free \in Int /\ SandboxSlots \in Int
        /\ free + Cardinality(Taken) = SandboxSlots
    BY SlotsAssumption, FS_CardinalityType DEF Inv, SlotsSound, TypeOK
  <2> HIDE DEF E
  <2>3. Cardinality(E) <= Cardinality(Taken) /\ Cardinality(E) \in Nat
    BY <2>1, <2>2, FS_Subset, FS_CardinalityType
  <2>4. Cardinality(E) + free <= SandboxSlots
    BY <2>2, <2>3
  <2> QED
    BY <2>4 DEF E, SlotsBoundExecutions
<1>2. ResultAfterCleanup
  BY DEF Inv, ExecSound, ResultAfterCleanup
<1>3. DrainedOwnsNothing
  BY DEF Inv, TaskSound, StageSound, DrainedOwnsNothing
<1> QED
  BY <1>1, <1>2, <1>3 DEF Inv, SlotsSound, SlotsAddUp, SandboxesAreAccountedFor

\* What a worker has on its node is registered with it and within its slots, every slot is
\* free, held or leaked by a heartbeat that ended in the turn of the grant, a stored
\* result is one of an execution that is over and cleaned up, and a worker that drained
\* without a fatal error owns no lease: for any number of leases, slots and failing calls.
THEOREM WorkerAccountsForSandboxes == Spec => []SandboxesAreAccountedFor
<1>1. Init => Inv
  BY InvInit
<1>2. Inv /\ [Next]_vars => Inv'
  BY InvStep
<1>3. Inv => SandboxesAreAccountedFor
  BY InvImplies
<1> QED
  BY <1>1, <1>2, <1>3, PTL DEF Spec
=============================================================================
