--------------------------- MODULE RunQueueProofs ---------------------------
(***************************************************************************)
(* Proofs about RunQueue for every number of runs, workers, workspaces and *)
(* tokens and for every clock offset.                                      *)
(***************************************************************************)
EXTENDS RunQueue, FiniteSetTheorems, TLAPS

LEMMA MovedType ==
    ASSUME NEW x \in RunRow, NEW new \in RunStatus, NEW at \in Int,
           NEW w \in Workers \cup {None}, NEW e \in Instant
    PROVE  transition_run(x, new, at, w, e) \in RunRow
<1> DEFINE y == transition_run(x, new, at, w, e)
<1>1. (x.cancel \/ new = "cancelled") \in BOOLEAN /\ (x.started \/ new = "running") \in BOOLEAN
  BY Zenon
<1>2. NextAttempt(x, new) \in Int
  BY DEF NextAttempt, RunRow
<1>3. (IF new = "leased" THEN w ELSE IF new = "running" THEN x.worker ELSE None)
         \in Workers \cup {None}
  BY DEF RunRow
<1>4. (IF new = "leased" THEN e ELSE IF new = "running" THEN x.expiry ELSE None) \in Instant
  BY DEF RunRow, Instant
<1>5. (IF new = "running" /\ ~x.started THEN -at ELSE x.age) \in Int
  BY DEF RunRow
<1> QED
  BY <1>1, <1>2, <1>3, <1>4, <1>5 DEF transition_run, RunRow

LEMMA OffsetsAreInts == \A h \in Hosts : Offset[h] \in Int
  BY OffsetType DEF Hosts

LEMMA RowTypes ==
    /\ \A at \in Int : NewRun(at) \in RunRow
    /\ \A x \in RunRow : rewind_run(x) \in RunRow
    /\ \A x \in RunRow, t \in Instant : [x EXCEPT !.retryAt = t] \in RunRow
    /\ \A x \in RunRow, t \in Instant : [x EXCEPT !.expiry = t] \in RunRow
    /\ \A x \in RunRow, g \in Int : [x EXCEPT !.gen = g] \in RunRow
    /\ \A x \in RunRow : [x EXCEPT !.cancel = TRUE] \in RunRow
    /\ \A x \in RunRow : [x EXCEPT !.status = "absent"] \in RunRow
<1>1. \A at \in Int : NewRun(at) \in RunRow
  BY DEF NewRun, RunRow, RunStatus, Waiting, Instant
<1>2. \A x \in RunRow : rewind_run(x) \in RunRow
  BY DEF rewind_run, RunRow, RunStatus, Waiting, Instant
<1>3. \A x \in RunRow, t \in Instant : [x EXCEPT !.retryAt = t] \in RunRow
  BY DEF RunRow
<1>4. \A x \in RunRow, t \in Instant : [x EXCEPT !.expiry = t] \in RunRow
  BY DEF RunRow
<1>5. \A x \in RunRow, g \in Int : [x EXCEPT !.gen = g] \in RunRow
  BY DEF RunRow
<1>6. \A x \in RunRow : [x EXCEPT !.cancel = TRUE] \in RunRow
  BY DEF RunRow
<1>7. \A x \in RunRow : [x EXCEPT !.status = "absent"] \in RunRow
  BY DEF RunRow
<1> QED
  BY <1>1, <1>2, <1>3, <1>4, <1>5, <1>6, <1>7

LEMMA MovedRow ==
    ASSUME NEW x \in RunRow, NEW new \in RunStatus, NEW at \in Int
    PROVE  Moved(x, new, at) \in RunRow
  BY MovedType DEF Moved, Instant

LEMMA NoOwnerType == \A g \in Int : NoOwner(g) \in WorkspaceRow
  BY DEF NoOwner, WorkspaceRow, Instant

LEMMA SoonerType == \A i \in Instant : Sooner(i) \in Instant
  BY OffsetType, NoneIsNoValue DEF Sooner, Instant

LEMMA SoonerInt == \A i \in Int : Sooner(i) \in Int
  BY OffsetType, NoneIsNoValue DEF Sooner

\* Releasing workspaces, deleting leases and returning slots keep the tables typed.
LEMMA ReleaseType ==
    ASSUME TypeOK, NEW L \in SUBSET {r \in Runs : lease[r] # None}
    PROVE  /\ WithWorkspacesReleased(L) \in [Workspaces -> WorkspaceRow]
           /\ WithoutLeases(L) \in [Runs -> LeaseRow \cup {None}]
           /\ WithSlotsReturned(L) \in [Workers -> WorkerRow]
<1>1. WithWorkspacesReleased(L) \in [Workspaces -> WorkspaceRow]
  BY NoOwnerType DEF WithWorkspacesReleased, TypeOK, WorkspaceRow
<1>2. WithoutLeases(L) \in [Runs -> LeaseRow \cup {None}]
  BY DEF WithoutLeases, TypeOK
<1>3. WithSlotsReturned(L) \in [Workers -> WorkerRow]
  <2>1. \A w \in Workers : Cardinality({r \in L : lease[r].worker = w}) \in Int
    <3> TAKE w \in Workers
    <3>1. IsFiniteSet({r \in L : lease[r].worker = w})
      BY FS_Subset, FiniteTables
    <3> QED
      BY <3>1, FS_CardinalityType
  <2>2. \A x \in WorkerRow, n \in Int : [x EXCEPT !.avail = Min2(x.total, @ + n)] \in WorkerRow
    BY DEF WorkerRow, Min2
  <2>3. \A w \in Workers : worker[w] \in WorkerRow
    BY DEF TypeOK
  <2> QED
    BY <2>1, <2>2, <2>3 DEF WithSlotsReturned
<1> QED
  BY <1>1, <1>2, <1>3

-----------------------------------------------------------------------------
(***************************** Type correctness ****************************)

LEMMA TypeInit == Init => TypeOK
<1> SUFFICES ASSUME Init PROVE TypeOK
  OBVIOUS
<1>1. [NewRun(0) EXCEPT !.status = "absent"] \in RunRow
  BY RowTypes
<1>2. NoOwner(0) \in WorkspaceRow
  BY NoOwnerType
<1> QED
  BY <1>1, <1>2 DEF Init, TypeOK, WorkerRow, ApprovalRow

LEMMA TypeApi ==
    ASSUME TypeOK, NEW r \in Runs, Create(r) \/ RequestCancel(r) \/ Rewind(r)
    PROVE  TypeOK'
<1> USE OffsetsAreInts DEF Hosts
<1>1. run[r] \in RunRow
  BY DEF TypeOK
<1>2. CASE Create(r)
  BY <1>2, RowTypes DEF Create, TypeOK
<1>3. CASE RequestCancel(r)
  <2>1. Moved(run[r], "cancelled", Offset[Api]) \in RunRow
    BY <1>1, MovedRow DEF RunStatus, Terminal
  <2>2. [run[r] EXCEPT !.cancel = TRUE] \in RunRow
    BY <1>1, RowTypes
  <2> QED
    BY <1>3, <2>1, <2>2 DEF RequestCancel, TypeOK
<1>4. CASE Rewind(r)
  <2>1. [rewind_run(run[r]) EXCEPT !.retryAt = None] \in RunRow
    BY <1>1, RowTypes DEF Instant
  <2> QED
    BY <1>4, <2>1 DEF Rewind, TypeOK
<1> QED
  BY <1>2, <1>3, <1>4

LEMMA TypeDecide ==
    ASSUME TypeOK, NEW r \in Runs, NEW a \in Approvals, NEW d \in {"approved", "rejected"},
           Decide(r, a, d)
    PROVE  TypeOK'
<1>1. Moved(run[r], "queued", Offset[Api]) \in RunRow
  BY MovedRow, OffsetsAreInts DEF TypeOK, RunStatus, Waiting, Hosts
<1>2. [approval EXCEPT ![r][a].status = d] \in [Runs -> [Approvals -> ApprovalRow]]
  BY SMTT(60) DEF TypeOK, ApprovalRow
<1>3. run' \in [Runs -> RunRow]
  BY <1>1 DEF Decide, TypeOK
<1> QED
  BY <1>2, <1>3 DEF Decide, TypeOK

LEMMA LeaseCount == \A w \in Workers : Cardinality(LeasesOf(w)) \in Int
<1> TAKE w \in Workers
<1>1. IsFiniteSet(LeasesOf(w))
  BY FS_Subset, FiniteTables DEF LeasesOf
<1> QED
  BY <1>1, FS_CardinalityType

LEMMA TypeWorker ==
    ASSUME TypeOK, NEW w \in Workers, NEW n \in Int, NEW k \in Int,
           NEW s \in {"active", "draining"},
           RegisterWorker(w, n, k) \/ HeartbeatWorker(w, k) \/ SetWorkerDraining(w, s)
    PROVE  TypeOK'
<1>1. Cardinality(LeasesOf(w)) \in Int
  BY LeaseCount
<1>2. worker[w] \in WorkerRow
  BY DEF TypeOK
<1>3. CASE RegisterWorker(w, n, k)
  BY <1>1, <1>2, <1>3 DEF RegisterWorker, TypeOK, WorkerRow, Min2
<1>4. CASE HeartbeatWorker(w, k)
  BY <1>1, <1>2, <1>4 DEF HeartbeatWorker, TypeOK, WorkerRow, Min2
<1>5. CASE SetWorkerDraining(w, s)
  BY <1>2, <1>5 DEF SetWorkerDraining, TypeOK, WorkerRow
<1> QED
  BY <1>3, <1>4, <1>5

LEMMA TypeClaim ==
    ASSUME TypeOK, NEW w \in Workers, NEW r \in Runs, Claim(w, r)
    PROVE  TypeOK'
<1> DEFINE e == Offset[w] + LeaseTtl
<1> DEFINE x == transition_run(run[r], "leased", Offset[w], w, e)
<1>1. e \in Int /\ Offset[w] \in Int
  BY OffsetsAreInts, DurationType DEF Hosts
<1>2. run[r] \in RunRow /\ run[r].gen + 1 \in Int /\ run[r].epoch \in Int
  BY DEF TypeOK, RunRow
<1>3. x \in RunRow
  BY <1>1, <1>2, MovedType DEF RunStatus, Assigned, Instant
<1>4. [x EXCEPT !.gen = run[r].gen + 1] \in RunRow
  BY <1>2, <1>3, RowTypes
<1>5. run' \in [Runs -> RunRow]
  BY <1>4 DEF Claim, TypeOK
<1>6. lease' \in [Runs -> LeaseRow \cup {None}]
  BY <1>1, <1>2 DEF Claim, TypeOK, LeaseRow
<1>7. workspace' \in [Workspaces -> WorkspaceRow]
  <2>1. WorkspaceOf[r] \in Workspaces
    BY WorkspaceOfType
  <2>2. [run |-> r, worker |-> w, runToken |-> tokens + 1, token |-> tokens + 2,
         gen |-> workspace[WorkspaceOf[r]].gen + 1, expiry |-> e] \in WorkspaceRow
    BY <1>1, <2>1 DEF TypeOK, WorkspaceRow, Instant
  <2> QED
    BY <2>1, <2>2 DEF Claim, TypeOK
<1>8. worker' \in [Workers -> WorkerRow]
  BY SMTT(60) DEF Claim, TypeOK, WorkerRow
<1>9. held' \subseteq RunLease /\ tokens' \in Int
  <2>1. [run |-> r, worker |-> w, token |-> tokens + 1, gen |-> run[r].gen + 1,
         epoch |-> run[r].epoch, asked |-> FALSE] \in RunLease
    BY <1>2 DEF TypeOK, RunLease
  <2>2. held' = held \cup {[run |-> r, worker |-> w, token |-> tokens + 1,
                            gen |-> run[r].gen + 1, epoch |-> run[r].epoch, asked |-> FALSE]}
    BY DEF Claim
  <2>3. tokens' \in Int
    BY DEF Claim, TypeOK
  <2> QED
    BY <2>1, <2>2, <2>3 DEF TypeOK
<1> QED
  BY <1>5, <1>6, <1>7, <1>8, <1>9 DEF Claim, TypeOK

LEMMA TypeHolder ==
    ASSUME TypeOK, NEW l \in held,
           Start(l) \/ Heartbeat(l) \/ WorkspaceAcquire(l) \/ FencedWrite(l)
    PROVE  TypeOK'
<1>1. l \in RunLease /\ l.run \in Runs /\ l.worker \in Workers
  BY DEF TypeOK, RunLease
<1>2. run[l.run] \in RunRow /\ lease[l.run] \in LeaseRow \cup {None}
  BY <1>1 DEF TypeOK
<1>3. Offset[l.worker] \in Int /\ Offset[l.worker] + LeaseTtl \in Int
  BY <1>1, OffsetsAreInts, DurationType DEF Hosts
<1>4. CASE Start(l)
  <2>1. Moved(run[l.run], "running", Offset[l.worker]) \in RunRow
    BY <1>2, <1>3, MovedRow DEF RunStatus, Assigned
  <2> QED
    BY <1>4, <2>1 DEF Start, TypeOK
<1>5. CASE Heartbeat(l)
  <2>1. lease' \in [Runs -> LeaseRow \cup {None}]
    BY <1>5, <1>2, <1>3 DEF Heartbeat, LockedLeaseState, MatchingRunLease, TypeOK, LeaseRow
  <2>2. [run[l.run] EXCEPT !.expiry = Offset[l.worker] + LeaseTtl] \in RunRow
    BY <1>2, <1>3, RowTypes DEF Instant
  <2> QED
    BY <1>5, <2>1, <2>2 DEF Heartbeat, TypeOK
<1>6. CASE WorkspaceAcquire(l)
  <2> DEFINE ws == WorkspaceOf[l.run]
  <2> DEFINE e == WriterExpiry(Offset[l.worker], lease[l.run])
  <2>1. ws \in Workspaces /\ workspace[ws] \in WorkspaceRow
    BY <1>1, WorkspaceOfType DEF TypeOK
  <2>2. e \in Int
    BY <1>6, <1>2, <1>3 DEF WorkspaceAcquire, MatchingRunLease, WriterExpiry, Min2, LeaseRow
  <2>3. tokens' \in Int
    BY <1>6 DEF WorkspaceAcquire, TypeOK
  <2>4. /\ workspace'[ws] \in WorkspaceRow
        /\ WorkspaceLeaseOf(ws, workspace'[ws]) \in WorkspaceLease
        /\ workspace' \in [Workspaces -> WorkspaceRow]
    <3>1. CASE workspace[ws].token # None
      <4>1. workspace' = [workspace EXCEPT ![ws].expiry = e]
        BY <1>6, <3>1 DEF WorkspaceAcquire
      <4>2. /\ workspace[ws].runToken = l.token /\ workspace[ws].run = l.run
            /\ workspace[ws].worker = l.worker
        BY <1>6, <3>1 DEF WorkspaceAcquire
      <4> QED
        BY <1>1, <2>1, <2>2, <3>1, <4>1, <4>2
           DEF TypeOK, WorkspaceRow, WorkspaceLeaseOf, WorkspaceLease, RunLease, Instant
    <3>2. CASE workspace[ws].token = None
      <4>1. workspace' = [workspace EXCEPT ![ws] =
                [run |-> l.run, worker |-> l.worker, runToken |-> l.token,
                 token |-> tokens + 1, gen |-> workspace[ws].gen + 1, expiry |-> e]]
        BY <1>6, <3>2 DEF WorkspaceAcquire
      <4> QED
        BY <1>1, <2>1, <2>2, <4>1
           DEF TypeOK, WorkspaceRow, WorkspaceLeaseOf, WorkspaceLease, RunLease, Instant
    <3> QED
      BY <3>1, <3>2
  <2>5. heldWs' \subseteq WorkspaceLease
    BY <1>6, <2>4 DEF WorkspaceAcquire, TypeOK
  <2> QED
    BY <1>6, <2>3, <2>4, <2>5 DEF WorkspaceAcquire, TypeOK
<1>7. CASE FencedWrite(l)
  BY <1>1, <1>7 DEF FencedWrite, TypeOK, RunLease
<1> QED
  BY <1>4, <1>5, <1>6, <1>7

LEMMA TypeFinish ==
    ASSUME TypeOK, NEW l \in held, NEW result \in ResultStatus, Finish(l, result)
    PROVE  TypeOK'
<1> DEFINE at == Offset[l.worker]
<1> DEFINE desired == IF run[l.run].cancel THEN "cancelled" ELSE result
<1>1. l.run \in Runs /\ l.worker \in Workers
  BY DEF TypeOK, RunLease
<1>2. at \in Int /\ at + RetryDelay \in Int
  BY <1>1, OffsetsAreInts, DurationType DEF Hosts
<1>3. desired \in RunStatus
  BY DEF ResultStatus, RunStatus, Terminal, Waiting
<1>4. Moved(run[l.run], desired, at) \in RunRow
  BY <1>1, <1>2, <1>3, MovedRow DEF TypeOK
<1>5. RetryTime(desired, at) \in Instant
  BY <1>2 DEF RetryTime, Instant
<1>6. [Moved(run[l.run], desired, at) EXCEPT !.retryAt = RetryTime(desired, at)] \in RunRow
  BY <1>4, <1>5, RowTypes
<1>7. {l.run} \in SUBSET {r \in Runs : lease[r] # None}
  BY <1>1 DEF Finish, LockedLeaseState, MatchingRunLease
<1> HIDE DEF desired, at
<1>8. run' = [run EXCEPT ![l.run] =
                 [Moved(run[l.run], desired, at) EXCEPT !.retryAt = RetryTime(desired, at)]]
  BY DEF Finish, desired, at
<1>9. run' \in [Runs -> RunRow]
  BY <1>6, <1>8 DEF TypeOK
<1> QED
  BY <1>7, <1>9, ReleaseType DEF Finish, TypeOK

LEMMA TypeApproval ==
    ASSUME TypeOK, NEW l \in held, NEW a \in Approvals, CreateApproval(l, a)
    PROVE  TypeOK'
<1>1. l \in RunLease /\ l.run \in Runs /\ l.epoch \in Int /\ l.gen \in Int
  BY DEF TypeOK, RunLease
<1>2. approval' \in [Runs -> [Approvals -> ApprovalRow]]
  BY <1>1 DEF CreateApproval, TypeOK, ApprovalRow
<1>3. writer' \in [Runs -> [epoch : Int, gen : Int]]
  BY <1>1 DEF CreateApproval, TypeOK
<1>4. [l EXCEPT !.asked = TRUE] \in RunLease
  BY <1>1 DEF RunLease
<1>5. held' \subseteq RunLease
  BY <1>4 DEF CreateApproval, TypeOK
<1> QED
  BY <1>2, <1>3, <1>5 DEF CreateApproval, TypeOK

LEMMA TypeWriter ==
    ASSUME TypeOK, NEW wl \in heldWs, WorkspaceHeartbeat(wl) \/ WorkspaceRelease(wl)
    PROVE  TypeOK'
<1>1. wl.ws \in Workspaces /\ wl.run \in Runs /\ wl.worker \in Workers
  BY DEF TypeOK, WorkspaceLease
<1>2. workspace[wl.ws] \in WorkspaceRow /\ workspace[wl.ws].gen \in Int
  BY <1>1 DEF TypeOK, WorkspaceRow
<1>3. CASE WorkspaceHeartbeat(wl)
  <2> DEFINE e == WriterExpiry(Offset[wl.worker], lease[wl.run])
  <2>1. lease[wl.run] \in LeaseRow
    BY <1>1, <1>3 DEF WorkspaceHeartbeat, TypeOK
  <2>2. e \in Int
    BY <1>1, <2>1, OffsetsAreInts, DurationType DEF Hosts, WriterExpiry, Min2, LeaseRow
  <2>3. [workspace[wl.ws] EXCEPT !.expiry = e] \in WorkspaceRow
    BY <1>2, <2>2 DEF WorkspaceRow, Instant
  <2> QED
    BY <1>3, <2>3 DEF WorkspaceHeartbeat, TypeOK
<1>4. CASE WorkspaceRelease(wl)
  BY <1>2, <1>4, NoOwnerType DEF WorkspaceRelease, TypeOK
<1> QED
  BY <1>3, <1>4

LEMMA TypeRecover ==
    ASSUME TypeOK, NEW S \in SUBSET RetryReady, NEW L \in SUBSET ExpiredLeases,
           RecoverExpired(S, L)
    PROVE  TypeOK'
<1> DEFINE at == Offset[Scheduler]
<1>1. at \in Int
  BY OffsetsAreInts DEF Hosts
<1>2. \A r \in Runs : run[r] \in RunRow
  BY DEF TypeOK
<1>3. \A r \in Runs : Reclaimed(r, at) \in RunRow
  BY <1>1, <1>2, MovedRow DEF Reclaimed, RunStatus, Terminal, Waiting
<1>4. \A r \in Runs : [Moved(run[r], "queued", at) EXCEPT !.retryAt = None] \in RunRow
  BY <1>1, <1>2, MovedRow, RowTypes DEF RunStatus, Waiting, Instant
<1>5. run' \in [Runs -> RunRow]
  BY <1>2, <1>3, <1>4 DEF RecoverExpired
<1>6. L \in SUBSET {r \in Runs : lease[r] # None}
  BY DEF ExpiredLeases
<1> QED
  BY <1>5, <1>6, ReleaseType DEF RecoverExpired, TypeOK

LEMMA TypeTick == ASSUME TypeOK, Tick PROVE TypeOK'
<1>1. \A x \in RunRow : [x EXCEPT !.expiry = Sooner(@), !.retryAt = Sooner(@),
                           !.age = IF @ < MaxSkew THEN @ + 1 ELSE @] \in RunRow
  <2> TAKE x \in RunRow
  <2>1. Sooner(x.expiry) \in Instant /\ Sooner(x.retryAt) \in Instant
    BY SoonerType DEF RunRow
  <2>2. (IF x.age < MaxSkew THEN x.age + 1 ELSE x.age) \in Int
    BY DEF RunRow
  <2> QED
    BY <2>1, <2>2 DEF RunRow
<1>2. run' \in [Runs -> RunRow]
  BY <1>1 DEF Tick, TypeOK
<1>3. \A x \in LeaseRow : [x EXCEPT !.expiry = Sooner(@)] \in LeaseRow
  BY SoonerInt DEF LeaseRow
<1>4. lease' \in [Runs -> LeaseRow \cup {None}]
  BY <1>3 DEF Tick, TypeOK
<1>5. \A x \in WorkspaceRow : [x EXCEPT !.expiry = Sooner(@)] \in WorkspaceRow
  BY SoonerType DEF WorkspaceRow
<1>6. workspace' \in [Workspaces -> WorkspaceRow]
  BY <1>5 DEF Tick, TypeOK
<1> QED
  BY <1>2, <1>4, <1>6 DEF Tick, TypeOK

LEMMA TypeStep == TypeOK /\ [Next]_vars => TypeOK'
<1> SUFFICES ASSUME TypeOK, [Next]_vars PROVE TypeOK'
  OBVIOUS
<1>1. CASE UNCHANGED vars
  BY <1>1 DEF vars, TypeOK
<1>2. CASE \E r \in Runs : Create(r) \/ RequestCancel(r) \/ Rewind(r)
  BY <1>2, TypeApi
<1>3. CASE \E r \in Runs, a \in Approvals, d \in {"approved", "rejected"} : Decide(r, a, d)
  BY <1>3, TypeDecide
<1>4. CASE \E w \in Workers, n \in 1..MaxSlots : \E k \in 0..n : RegisterWorker(w, n, k)
  BY <1>4, TypeWorker, LimitType
<1>5. CASE \E w \in Workers, k \in 0..MaxSlots : HeartbeatWorker(w, k)
  BY <1>5, TypeWorker, LimitType
<1>6. CASE \E w \in Workers, s \in {"active", "draining"} : SetWorkerDraining(w, s)
  BY <1>6, TypeWorker
<1>7. CASE \E w \in Workers, r \in Runs : Claim(w, r)
  BY <1>7, TypeClaim
<1>8. CASE \E l \in held : Start(l) \/ Heartbeat(l) \/ WorkspaceAcquire(l) \/ FencedWrite(l)
  BY <1>8, TypeHolder
<1>9. CASE \E l \in held, s \in ResultStatus : Finish(l, s)
  BY <1>9, TypeFinish
<1>10. CASE \E l \in held, a \in Approvals : CreateApproval(l, a)
  BY <1>10, TypeApproval
<1>11. CASE \E wl \in heldWs : WorkspaceHeartbeat(wl) \/ WorkspaceRelease(wl)
  BY <1>11, TypeWriter
<1>12. CASE \E S \in SUBSET RetryReady, L \in SUBSET ExpiredLeases : RecoverExpired(S, L)
  BY <1>12, TypeRecover
<1>13. CASE Tick
  BY <1>13, TypeTick
<1> QED
  BY <1>1, <1>2, <1>3, <1>4, <1>5, <1>6, <1>7, <1>8, <1>9, <1>10, <1>11, <1>12, <1>13 DEF Next

\* Every table and every lease object keeps its type, for any number of runs, workers
\* and workspaces (the schema of models.py and the operations on it).
THEOREM TypeCorrect == Spec => []TypeOK
<1>1. Init => TypeOK
  BY TypeInit
<1>2. TypeOK /\ [Next]_vars => TypeOK'
  BY TypeStep
<1> QED
  BY <1>1, <1>2, PTL DEF Spec

-----------------------------------------------------------------------------
(********************************* Ownership *******************************)

\* What one action does to the run and the lease of one run q, as far as ownership
\* goes: nothing, or one of five moves.
Kept(q) == /\ lease'[q] = lease[q]
           /\ run'[q].status = run[q].status
           /\ run'[q].worker = run[q].worker
           /\ run'[q].gen = run[q].gen
           /\ run'[q].expiry = run[q].expiry

\* An unassigned run moves to another unassigned status.
MovedUnassigned(q) == /\ lease'[q] = lease[q]
                      /\ run[q].status \notin Assigned
                      /\ run'[q].status \notin Assigned
                      /\ run'[q].worker = None
                      /\ run'[q].expiry = None

\* The run is claimed.
Granted(q) == /\ run[q].status = "queued"
              /\ lease'[q] # None
              /\ run'[q].status = "leased"
              /\ run'[q].worker = lease'[q].worker
              /\ run'[q].gen = lease'[q].gen
              /\ run'[q].expiry = lease'[q].expiry

\* The lease stays with its owner and may be renewed.
Renewed(q) == /\ lease[q] # None
              /\ lease'[q] # None
              /\ run[q].status \in Assigned
              /\ run'[q].status \in Assigned
              /\ lease'[q].worker = lease[q].worker
              /\ lease'[q].gen = lease[q].gen
              /\ run'[q].worker = run[q].worker
              /\ run'[q].gen = run[q].gen
              /\ \/ lease'[q].expiry = lease[q].expiry /\ run'[q].expiry = run[q].expiry
                 \/ lease'[q].expiry = run'[q].expiry

\* The lease is deleted and the run leaves its owner.
Ended(q) == /\ lease[q] # None
            /\ lease'[q] = None
            /\ run'[q].status \notin Assigned
            /\ run'[q].worker = None
            /\ run'[q].expiry = None

OwnershipMove(q) == Kept(q) \/ MovedUnassigned(q) \/ Granted(q) \/ Renewed(q) \/ Ended(q)

Mirror(q) == /\ (lease[q] # None) <=> (run[q].status \in Assigned)
             /\ lease[q] # None => /\ run[q].worker = lease[q].worker
                                   /\ run[q].gen = lease[q].gen
                                   /\ run[q].expiry = lease[q].expiry
             /\ lease[q] = None => run[q].worker = None /\ run[q].expiry = None

LEMMA MirrorKept ==
    ASSUME NEW q \in Runs, Mirror(q), OwnershipMove(q)
    PROVE  Mirror(q)'
  BY DEF Mirror, OwnershipMove, Kept, MovedUnassigned, Granted, Renewed, Ended, Assigned

LEMMA TickMirror ==
    ASSUME TypeOK, Tick, NEW q \in Runs, Mirror(q)
    PROVE  Mirror(q)'
<1>1. /\ run[q] \in RunRow
      /\ lease[q] \in LeaseRow \cup {None}
      /\ run'[q] = [run[q] EXCEPT !.expiry = Sooner(@), !.retryAt = Sooner(@),
                                  !.age = IF @ < MaxSkew THEN @ + 1 ELSE @]
      /\ lease'[q] = IF lease[q] = None THEN None
                     ELSE [lease[q] EXCEPT !.expiry = Sooner(@)]
  BY DEF Tick, TypeOK
<1>2. /\ run'[q].status = run[q].status
      /\ run'[q].worker = run[q].worker
      /\ run'[q].gen = run[q].gen
      /\ run'[q].expiry = Sooner(run[q].expiry)
  BY <1>1 DEF RunRow
<1>3. CASE lease[q] = None
  BY <1>1, <1>2, <1>3 DEF Mirror, Sooner
<1>4. CASE lease[q] # None
  <2>1. /\ lease'[q] # None
        /\ lease'[q].worker = lease[q].worker
        /\ lease'[q].gen = lease[q].gen
        /\ lease'[q].expiry = Sooner(lease[q].expiry)
    BY <1>1, <1>4, NoneIsNoRow, SoonerInt DEF LeaseRow
  <2> QED
    BY <1>2, <1>4, <2>1 DEF Mirror
<1> QED
  BY <1>3, <1>4

LEMMA ApiMove ==
    ASSUME TypeOK, NEW r \in Runs, Create(r) \/ RequestCancel(r) \/ Rewind(r), Mirror(r),
           NEW q \in Runs
    PROVE  OwnershipMove(q)
<1>1. CASE q # r
  BY <1>1 DEF Create, RequestCancel, Rewind, TypeOK, OwnershipMove, Kept
<1>2. CASE q = r /\ Create(r)
  BY <1>2 DEF Create, TypeOK, OwnershipMove, MovedUnassigned, NewRun, Assigned
<1>3. CASE q = r /\ RequestCancel(r) /\ run[r].status \in Waiting
  BY <1>3 DEF RequestCancel, TypeOK, OwnershipMove, MovedUnassigned, Moved, transition_run,
              Assigned, Waiting
<1>4. CASE q = r /\ RequestCancel(r) /\ run[r].status \in Assigned
  BY <1>4 DEF RequestCancel, TypeOK, OwnershipMove, Kept, RunRow, Assigned, Waiting
<1>5. CASE q = r /\ Rewind(r)
  BY <1>5 DEF Rewind, TypeOK, OwnershipMove, MovedUnassigned, rewind_run, Assigned,
              Rewindable, Terminal
<1> QED
  BY <1>1, <1>2, <1>3, <1>4, <1>5 DEF RequestCancel

LEMMA DecideMove ==
    ASSUME TypeOK, NEW r \in Runs, NEW a \in Approvals, NEW d \in {"approved", "rejected"},
           Decide(r, a, d), NEW q \in Runs
    PROVE  OwnershipMove(q)
<1>1. CASE run' = run
  BY <1>1 DEF Decide, OwnershipMove, Kept
<1>2. CASE /\ run[r].status = "waiting_approval"
           /\ run' = [run EXCEPT ![r] = Moved(@, "queued", Offset[Api])]
  <2>1. CASE q # r
    BY <1>2, <2>1 DEF Decide, TypeOK, OwnershipMove, Kept
  <2>2. CASE q = r
    BY <1>2, <2>2 DEF Decide, TypeOK, OwnershipMove, MovedUnassigned, Moved, transition_run,
                      Assigned
  <2> QED
    BY <2>1, <2>2
<1> QED
  BY <1>1, <1>2 DEF Decide

LEMMA ClaimMove ==
    ASSUME TypeOK, NEW w \in Workers, NEW r \in Runs, Claim(w, r), NEW q \in Runs
    PROVE  OwnershipMove(q)
<1>1. CASE q # r
  BY <1>1 DEF Claim, TypeOK, OwnershipMove, Kept
<1>2. CASE q = r
  <2> DEFINE e == Offset[w] + LeaseTtl
  <2>1. lease'[q] = [worker |-> w, token |-> tokens + 1, gen |-> run[r].gen + 1, expiry |-> e]
    BY <1>2 DEF Claim, TypeOK
  <2>2. lease'[q] \in LeaseRow
    BY <2>1, OffsetsAreInts, DurationType DEF TypeOK, LeaseRow, RunRow, Hosts
  <2>3. run'[q] = [transition_run(run[r], "leased", Offset[w], w, e)
                      EXCEPT !.gen = run[r].gen + 1]
    BY <1>2 DEF Claim, TypeOK
  <2>4. /\ run'[q].status = "leased" /\ run'[q].worker = w
        /\ run'[q].gen = run[r].gen + 1 /\ run'[q].expiry = e
    BY <2>3 DEF transition_run
  <2> QED
    BY <1>2, <2>1, <2>2, <2>4, NoneIsNoRow DEF Claim, OwnershipMove, Granted
<1> QED
  BY <1>1, <1>2

LEMMA HolderMove ==
    ASSUME TypeOK, NEW l \in held,
           Start(l) \/ Heartbeat(l) \/ WorkspaceAcquire(l) \/ FencedWrite(l),
           NEW q \in Runs
    PROVE  OwnershipMove(q)
<1>1. l.run \in Runs /\ l.worker \in Workers
  BY DEF TypeOK, RunLease
<1>2. CASE WorkspaceAcquire(l) \/ FencedWrite(l)
  BY <1>2 DEF WorkspaceAcquire, FencedWrite, OwnershipMove, Kept
<1>3. CASE q # l.run /\ (Start(l) \/ Heartbeat(l))
  BY <1>1, <1>3 DEF Start, Heartbeat, TypeOK, OwnershipMove, Kept
<1>4. CASE q = l.run /\ Start(l)
  BY <1>1, <1>4 DEF Start, TypeOK, OwnershipMove, Renewed, Moved, transition_run, Assigned,
                    LockedLeaseState, MatchingRunLease
<1>5. CASE q = l.run /\ Heartbeat(l)
  <2> DEFINE e == Offset[l.worker] + LeaseTtl
  <2>1. lease[q] \in LeaseRow /\ e \in Int
    BY <1>1, <1>5, OffsetsAreInts, DurationType
       DEF Heartbeat, LockedLeaseState, MatchingRunLease, TypeOK, Hosts
  <2>2. lease'[q] = [lease[q] EXCEPT !.expiry = e] /\ run'[q] = [run[q] EXCEPT !.expiry = e]
    BY <1>1, <1>5 DEF Heartbeat, TypeOK
  <2>3. /\ lease'[q] \in LeaseRow
        /\ lease'[q].worker = lease[q].worker /\ lease'[q].gen = lease[q].gen
        /\ lease'[q].expiry = e
    BY <2>1, <2>2 DEF LeaseRow
  <2>4. /\ run'[q].status = run[q].status /\ run'[q].worker = run[q].worker
        /\ run'[q].gen = run[q].gen /\ run'[q].expiry = e
    BY <2>2 DEF TypeOK, RunRow
  <2> QED
    BY <1>5, <2>1, <2>3, <2>4, NoneIsNoRow DEF Heartbeat, OwnershipMove, Renewed
<1> QED
  BY <1>2, <1>3, <1>4, <1>5

LEMMA FinishMove ==
    ASSUME TypeOK, NEW l \in held, NEW result \in ResultStatus, Finish(l, result),
           NEW q \in Runs
    PROVE  OwnershipMove(q)
<1>1. l.run \in Runs
  BY DEF TypeOK, RunLease
<1>2. CASE q # l.run
  BY <1>1, <1>2 DEF Finish, WithoutLeases, TypeOK, OwnershipMove, Kept
<1>3. CASE q = l.run
  <2> DEFINE desired == IF run[l.run].cancel THEN "cancelled" ELSE result
  <2> DEFINE at == Offset[l.worker]
  <2>1. run'[q] = [Moved(run[q], desired, at) EXCEPT !.retryAt = RetryTime(desired, at)]
    BY <1>1, <1>3 DEF Finish, TypeOK
  <2>2. desired \in ResultStatus
    BY DEF ResultStatus, Terminal
  <2> HIDE DEF desired
  <2>3. run'[q].status = desired /\ run'[q].worker = None /\ run'[q].expiry = None
    BY <2>1, <2>2 DEF Moved, transition_run, ResultStatus, Terminal
  <2>4. lease[q] # None /\ lease'[q] = None
    BY <1>1, <1>3 DEF Finish, WithoutLeases, LockedLeaseState, MatchingRunLease
  <2> QED
    BY <2>2, <2>3, <2>4 DEF OwnershipMove, Ended, ResultStatus, Terminal, Assigned
<1> QED
  BY <1>2, <1>3

LEMMA RecoverMove ==
    ASSUME TypeOK, NEW S \in SUBSET RetryReady, NEW L \in SUBSET ExpiredLeases,
           RecoverExpired(S, L), NEW q \in Runs, Mirror(q)
    PROVE  OwnershipMove(q)
<1>1. CASE q \in L
  <2>1. lease[q] # None /\ lease'[q] = None
    BY <1>1 DEF ExpiredLeases, RecoverExpired, WithoutLeases
  <2>2. OwnedByLease(q)
    BY <2>1 DEF Mirror, OwnedByLease
  <2>3. run'[q] = Reclaimed(q, Offset[Scheduler])
    BY <1>1, <2>2 DEF RecoverExpired
  <2> QED
    BY <2>1, <2>3 DEF OwnershipMove, Ended, Reclaimed, Moved, transition_run, Assigned
<1>2. CASE q \notin L /\ q \in S
  <2>1. lease'[q] = lease[q]
    BY <1>2 DEF RecoverExpired, WithoutLeases
  <2>2. run'[q] = [Moved(run[q], "queued", Offset[Scheduler]) EXCEPT !.retryAt = None]
    BY <1>2 DEF RecoverExpired
  <2>3. run'[q].status = "queued" /\ run'[q].worker = None /\ run'[q].expiry = None
    BY <2>2 DEF Moved, transition_run
  <2> QED
    BY <1>2, <2>1, <2>3 DEF RetryReady, OwnershipMove, MovedUnassigned, Assigned
<1>3. CASE q \notin L /\ q \notin S
  BY <1>3 DEF RecoverExpired, WithoutLeases, OwnershipMove, Kept
<1> QED
  BY <1>1, <1>2, <1>3

\* Every step other than the passage of time is, for each run, one of the five moves.
LEMMA EveryMove ==
    ASSUME TypeOK, LeaseMirrorsRun, [Next]_vars, ~Tick, NEW q \in Runs
    PROVE  OwnershipMove(q)
<1>0. \A r \in Runs : Mirror(r)
  BY DEF LeaseMirrorsRun, Mirror
<1>1. CASE UNCHANGED vars
  BY <1>1 DEF vars, OwnershipMove, Kept
<1>2. CASE \E r \in Runs : Create(r) \/ RequestCancel(r) \/ Rewind(r)
  BY <1>0, <1>2, ApiMove
<1>3. CASE \E r \in Runs, a \in Approvals, d \in {"approved", "rejected"} : Decide(r, a, d)
  BY <1>3, DecideMove
<1>4. CASE \/ \E w \in Workers, n \in 1..MaxSlots : \E k \in 0..n : RegisterWorker(w, n, k)
           \/ \E w \in Workers, k \in 0..MaxSlots : HeartbeatWorker(w, k)
           \/ \E w \in Workers, s \in {"active", "draining"} : SetWorkerDraining(w, s)
  BY <1>4 DEF RegisterWorker, HeartbeatWorker, SetWorkerDraining, OwnershipMove, Kept
<1>5. CASE \E w \in Workers, r \in Runs : Claim(w, r)
  BY <1>5, ClaimMove
<1>6. CASE \E l \in held : Start(l) \/ Heartbeat(l) \/ WorkspaceAcquire(l) \/ FencedWrite(l)
  BY <1>6, HolderMove
<1>7. CASE \E l \in held, s \in ResultStatus : Finish(l, s)
  BY <1>7, FinishMove
<1>8. CASE \E l \in held, a \in Approvals : CreateApproval(l, a)
  BY <1>8 DEF CreateApproval, OwnershipMove, Kept
<1>9. CASE \E wl \in heldWs : WorkspaceHeartbeat(wl) \/ WorkspaceRelease(wl)
  BY <1>9 DEF WorkspaceHeartbeat, WorkspaceRelease, OwnershipMove, Kept
<1>10. CASE \E S \in SUBSET RetryReady, L \in SUBSET ExpiredLeases : RecoverExpired(S, L)
  BY <1>0, <1>10, RecoverMove
<1> QED
  BY <1>1, <1>2, <1>3, <1>4, <1>5, <1>6, <1>7, <1>8, <1>9, <1>10 DEF Next

LEMMA MirrorStep == TypeOK /\ LeaseMirrorsRun /\ [Next]_vars => LeaseMirrorsRun'
<1> SUFFICES ASSUME TypeOK, LeaseMirrorsRun, [Next]_vars PROVE LeaseMirrorsRun'
  OBVIOUS
<1>0. \A r \in Runs : Mirror(r)
  BY DEF LeaseMirrorsRun, Mirror
<1>1. CASE Tick
  BY <1>0, <1>1, TickMirror DEF LeaseMirrorsRun, Mirror
<1>2. CASE ~Tick
  BY <1>0, <1>2, EveryMove, MirrorKept DEF LeaseMirrorsRun, Mirror
<1> QED
  BY <1>1, <1>2

LEMMA MirrorInit == Init => LeaseMirrorsRun
  BY DEF Init, LeaseMirrorsRun, NewRun, Assigned

\* A run is assigned exactly while its lease row exists and the two rows agree on the
\* owner, through every claim, renewal, finish, cancellation, rewind and recovery.
THEOREM LeaseAndRunAgree == Spec => []LeaseMirrorsRun
<1>1. Init => LeaseMirrorsRun
  BY MirrorInit
<1>2. TypeOK /\ LeaseMirrorsRun /\ [Next]_vars => LeaseMirrorsRun'
  BY MirrorStep
<1> QED
  BY <1>1, <1>2, TypeCorrect, PTL DEF Spec

-----------------------------------------------------------------------------
(*************************** Workspace ownership ***************************)

WsOwner(w) ==
    workspace[w].token # None =>
        /\ workspace[w].run # None
        /\ WorkspaceOf[workspace[w].run] = w
        /\ lease[workspace[w].run] # None
        /\ lease[workspace[w].run].token = workspace[w].runToken
        /\ lease[workspace[w].run].worker = workspace[w].worker

\* The rows that ownership of workspace w depends on are left alone.
WsKept(w) ==
    /\ workspace'[w].token = workspace[w].token
    /\ workspace'[w].run = workspace[w].run
    /\ workspace'[w].worker = workspace[w].worker
    /\ workspace'[w].runToken = workspace[w].runToken
    /\ workspace[w].token # None =>
          /\ lease'[workspace[w].run] # None
          /\ lease'[workspace[w].run].token = lease[workspace[w].run].token
          /\ lease'[workspace[w].run].worker = lease[workspace[w].run].worker

\* The workspace is free, or given to a run whose lease carries the same token.
WsTaken(w) ==
    \/ workspace'[w].token = None
    \/ /\ workspace'[w].run # None
       /\ WorkspaceOf[workspace'[w].run] = w
       /\ lease'[workspace'[w].run] # None
       /\ lease'[workspace'[w].run].token = workspace'[w].runToken
       /\ lease'[workspace'[w].run].worker = workspace'[w].worker

LEMMA WsOwnerKept ==
    ASSUME NEW w \in Workspaces, WsOwner(w), WsKept(w) \/ WsTaken(w)
    PROVE  WsOwner(w)'
  BY DEF WsOwner, WsKept, WsTaken

\* The owner of a held workspace is a run.
LEMMA OwnerIsRun ==
    ASSUME TypeOK, NEW w \in Workspaces, WsOwner(w), workspace[w].token # None
    PROVE  workspace[w].run \in Runs
  BY DEF TypeOK, WsOwner, WorkspaceRow

LEMMA SameTablesKept ==
    ASSUME NEW w \in Workspaces, WsOwner(w), workspace' = workspace, lease' = lease
    PROVE  WsKept(w)
  BY DEF WsKept, WsOwner

LEMMA ClaimWs ==
    ASSUME TypeOK, LeaseMirrorsRun, NEW v \in Workers, NEW r \in Runs, Claim(v, r),
           NEW w \in Workspaces, WsOwner(w)
    PROVE  WsKept(w) \/ WsTaken(w)
<1> DEFINE row == [worker |-> v, token |-> tokens + 1, gen |-> run[r].gen + 1,
                   expiry |-> Offset[v] + LeaseTtl]
<1>1. lease[r] = None
  BY DEF Claim, LeaseMirrorsRun, Assigned
<1>2. lease' = [lease EXCEPT ![r] = row]
  BY DEF Claim
<1>3. row \in LeaseRow
  BY OffsetsAreInts, DurationType DEF TypeOK, LeaseRow, RunRow, Hosts
<1>4. CASE w = WorkspaceOf[r]
  <2>1. /\ workspace'[w].run = r /\ workspace'[w].worker = v
        /\ workspace'[w].runToken = tokens + 1
    BY <1>4 DEF Claim, TypeOK
  <2>2. lease'[r] = row
    BY <1>2 DEF TypeOK
  <2> QED
    BY <1>3, <1>4, <2>1, <2>2, NoneIsNoRow, NoneIsNoValue DEF WsTaken
<1>5. CASE w # WorkspaceOf[r]
  <2>1. workspace'[w] = workspace[w]
    BY <1>5, WorkspaceOfType DEF Claim, TypeOK
  <2>2. CASE workspace[w].token = None
    BY <2>1, <2>2 DEF WsKept
  <2>3. CASE workspace[w].token # None
    <3>1. workspace[w].run \in Runs /\ workspace[w].run # r
      BY <1>1, <2>3, OwnerIsRun DEF WsOwner
    <3>2. lease'[workspace[w].run] = lease[workspace[w].run]
      BY <1>2, <3>1 DEF TypeOK
    <3> QED
      BY <2>1, <2>3, <3>2 DEF WsKept, WsOwner
  <2> QED
    BY <2>2, <2>3
<1> QED
  BY <1>4, <1>5

LEMMA HolderWs ==
    ASSUME TypeOK, NEW l \in held, Start(l) \/ Heartbeat(l) \/ WorkspaceAcquire(l)
                                            \/ FencedWrite(l),
           NEW w \in Workspaces, WsOwner(w)
    PROVE  WsKept(w) \/ WsTaken(w)
<1>1. l.run \in Runs /\ l.worker \in Workers
  BY DEF TypeOK, RunLease
<1>2. CASE Start(l) \/ FencedWrite(l)
  BY <1>2, SameTablesKept DEF Start, FencedWrite
<1>3. CASE Heartbeat(l)
  <2>1. lease[l.run] \in LeaseRow /\ Offset[l.worker] + LeaseTtl \in Int
    BY <1>1, <1>3, OffsetsAreInts, DurationType
       DEF Heartbeat, LockedLeaseState, MatchingRunLease, TypeOK, Hosts
  <2>2. lease' = [lease EXCEPT ![l.run].expiry = Offset[l.worker] + LeaseTtl]
    BY <1>3 DEF Heartbeat
  <2>3. \A q \in Runs : lease[q] # None =>
           /\ lease'[q] # None
           /\ lease'[q].token = lease[q].token /\ lease'[q].worker = lease[q].worker
    <3> TAKE q \in Runs
    <3>1. CASE q = l.run
      <4>1. lease'[q] = [lease[q] EXCEPT !.expiry = Offset[l.worker] + LeaseTtl]
        BY <1>1, <2>2, <3>1 DEF TypeOK
      <4>2. /\ lease'[q] \in LeaseRow
            /\ lease'[q].token = lease[q].token /\ lease'[q].worker = lease[q].worker
        BY <2>1, <3>1, <4>1 DEF LeaseRow
      <4> QED
        BY <4>2, NoneIsNoRow
    <3>2. CASE q # l.run
      BY <2>2, <3>2 DEF TypeOK
    <3> QED
      BY <3>1, <3>2
  <2>4. workspace' = workspace
    BY <1>3 DEF Heartbeat
  <2> QED
    BY <2>3, <2>4, OwnerIsRun DEF WsKept, WsOwner
<1>4. CASE WorkspaceAcquire(l)
  <2> DEFINE ws == WorkspaceOf[l.run]
  <2> DEFINE e == WriterExpiry(Offset[l.worker], lease[l.run])
  <2>0. lease' = lease /\ MatchingRunLease(l) /\ ws \in Workspaces
    BY <1>1, <1>4, WorkspaceOfType DEF WorkspaceAcquire
  <2>1. CASE w # ws
    <3>1. workspace'[w] = workspace[w]
      BY <1>4, <2>1 DEF WorkspaceAcquire, TypeOK
    <3> QED
      BY <2>0, <3>1 DEF WsKept, WsOwner
  <2>2. CASE w = ws /\ workspace[ws].token # None
    <3>1. workspace' = [workspace EXCEPT ![ws].expiry = e]
      BY <1>4, <2>2 DEF WorkspaceAcquire
    <3>2. /\ workspace'[w].token = workspace[w].token
          /\ workspace'[w].run = workspace[w].run
          /\ workspace'[w].worker = workspace[w].worker
          /\ workspace'[w].runToken = workspace[w].runToken
      BY <2>0, <2>2, <3>1 DEF TypeOK, WorkspaceRow
    <3> QED
      BY <2>0, <3>2 DEF WsKept, WsOwner
  <2>3. CASE w = ws /\ workspace[ws].token = None
    <3>1. workspace' = [workspace EXCEPT ![ws] =
                [run |-> l.run, worker |-> l.worker, runToken |-> l.token,
                 token |-> tokens + 1, gen |-> workspace[ws].gen + 1, expiry |-> e]]
      BY <1>4, <2>3 DEF WorkspaceAcquire
    <3>2. /\ workspace'[w].run = l.run /\ workspace'[w].worker = l.worker
          /\ workspace'[w].runToken = l.token
      BY <2>0, <2>3, <3>1 DEF TypeOK
    <3> QED
      BY <1>1, <2>0, <2>3, <3>2, NoneIsNoValue DEF WsTaken, MatchingRunLease
  <2> QED
    BY <2>1, <2>2, <2>3
<1> QED
  BY <1>2, <1>3, <1>4

\* Deleting the leases L and releasing their workspaces keeps ownership.
LEMMA ReleaseWs ==
    ASSUME TypeOK, NEW L \in SUBSET {r \in Runs : lease[r] # None},
           workspace' = WithWorkspacesReleased(L), lease' = WithoutLeases(L),
           NEW w \in Workspaces, WsOwner(w)
    PROVE  WsKept(w) \/ WsTaken(w)
<1>1. CASE \E r \in L : workspace[w].runToken = lease[r].token
  BY <1>1 DEF WithWorkspacesReleased, NoOwner, WsTaken
<1>2. CASE ~ \E r \in L : workspace[w].runToken = lease[r].token
  <2>1. workspace'[w] = workspace[w]
    BY <1>2 DEF WithWorkspacesReleased
  <2>2. CASE workspace[w].token = None
    BY <2>1, <2>2 DEF WsTaken
  <2>3. CASE workspace[w].token # None
    <3>1. workspace[w].run \in Runs /\ workspace[w].run \notin L
      BY <1>2, <2>3, OwnerIsRun DEF WsOwner
    <3>2. lease'[workspace[w].run] = lease[workspace[w].run]
      BY <3>1 DEF WithoutLeases
    <3> QED
      BY <2>1, <2>3, <3>2 DEF WsKept, WsOwner
  <2> QED
    BY <2>2, <2>3
<1> QED
  BY <1>1, <1>2

LEMMA WriterWs ==
    ASSUME TypeOK, NEW wl \in heldWs, WorkspaceHeartbeat(wl) \/ WorkspaceRelease(wl),
           NEW w \in Workspaces, WsOwner(w)
    PROVE  WsKept(w) \/ WsTaken(w)
<1>1. wl.ws \in Workspaces /\ lease' = lease
  BY DEF TypeOK, WorkspaceLease, WorkspaceHeartbeat, WorkspaceRelease
<1>2. CASE w # wl.ws
  <2>1. workspace'[w] = workspace[w]
    BY <1>2 DEF WorkspaceHeartbeat, WorkspaceRelease, TypeOK
  <2> QED
    BY <1>1, <2>1 DEF WsKept, WsOwner
<1>3. CASE w = wl.ws /\ WorkspaceHeartbeat(wl)
  <2>1. /\ workspace'[w].token = workspace[w].token
        /\ workspace'[w].run = workspace[w].run
        /\ workspace'[w].worker = workspace[w].worker
        /\ workspace'[w].runToken = workspace[w].runToken
    BY <1>1, <1>3 DEF WorkspaceHeartbeat, TypeOK, WorkspaceRow
  <2> QED
    BY <1>1, <2>1 DEF WsKept, WsOwner
<1>4. CASE w = wl.ws /\ WorkspaceRelease(wl)
  BY <1>1, <1>4 DEF WorkspaceRelease, TypeOK, NoOwner, WsTaken
<1> QED
  BY <1>2, <1>3, <1>4

LEMMA TickWs ==
    ASSUME TypeOK, Tick, NEW w \in Workspaces, WsOwner(w)
    PROVE  WsKept(w)
<1>1. workspace'[w] = [workspace[w] EXCEPT !.expiry = Sooner(@)]
  BY DEF Tick
<1>2. /\ workspace'[w].token = workspace[w].token
      /\ workspace'[w].run = workspace[w].run
      /\ workspace'[w].worker = workspace[w].worker
      /\ workspace'[w].runToken = workspace[w].runToken
  BY <1>1 DEF TypeOK, WorkspaceRow
<1>3. \A q \in Runs : lease[q] # None =>
         /\ lease'[q] # None
         /\ lease'[q].token = lease[q].token /\ lease'[q].worker = lease[q].worker
  <2> SUFFICES ASSUME NEW q \in Runs, lease[q] # None
               PROVE  /\ lease'[q] # None
                      /\ lease'[q].token = lease[q].token
                      /\ lease'[q].worker = lease[q].worker
    OBVIOUS
  <2>1. lease'[q] = [lease[q] EXCEPT !.expiry = Sooner(@)] /\ lease[q] \in LeaseRow
    BY DEF Tick, TypeOK
  <2>2. lease'[q] \in LeaseRow
    BY <2>1, SoonerInt DEF LeaseRow
  <2> QED
    BY <2>1, <2>2, NoneIsNoRow DEF LeaseRow
<1> QED
  BY <1>2, <1>3, OwnerIsRun DEF WsKept, WsOwner

LEMMA WsStep ==
    TypeOK /\ LeaseMirrorsRun /\ WorkspaceOwnerHasLease /\ [Next]_vars
        => WorkspaceOwnerHasLease'
<1> SUFFICES ASSUME TypeOK, LeaseMirrorsRun, WorkspaceOwnerHasLease, [Next]_vars,
                    NEW w \in Workspaces
             PROVE  WsOwner(w)'
  BY DEF WorkspaceOwnerHasLease, WsOwner
<1>0. WsOwner(w)
  BY DEF WorkspaceOwnerHasLease, WsOwner
<1> SUFFICES WsKept(w) \/ WsTaken(w)
  BY <1>0, WsOwnerKept
<1>1. CASE UNCHANGED vars
  BY <1>0, <1>1, SameTablesKept DEF vars
<1>2. CASE \E r \in Runs : Create(r) \/ RequestCancel(r) \/ Rewind(r)
  BY <1>0, <1>2, SameTablesKept DEF Create, RequestCancel, Rewind
<1>3. CASE \E r \in Runs, a \in Approvals, d \in {"approved", "rejected"} : Decide(r, a, d)
  BY <1>0, <1>3, SameTablesKept DEF Decide
<1>4. CASE \/ \E v \in Workers, n \in 1..MaxSlots : \E k \in 0..n : RegisterWorker(v, n, k)
           \/ \E v \in Workers, k \in 0..MaxSlots : HeartbeatWorker(v, k)
           \/ \E v \in Workers, s \in {"active", "draining"} : SetWorkerDraining(v, s)
  BY <1>0, <1>4, SameTablesKept DEF RegisterWorker, HeartbeatWorker, SetWorkerDraining
<1>5. CASE \E v \in Workers, r \in Runs : Claim(v, r)
  BY <1>0, <1>5, ClaimWs
<1>6. CASE \E l \in held : Start(l) \/ Heartbeat(l) \/ WorkspaceAcquire(l) \/ FencedWrite(l)
  BY <1>0, <1>6, HolderWs
<1>7. CASE \E l \in held, s \in ResultStatus : Finish(l, s)
  <2> PICK l \in held, s \in ResultStatus : Finish(l, s)
    BY <1>7
  <2>1. {l.run} \in SUBSET {r \in Runs : lease[r] # None}
    BY DEF TypeOK, RunLease, Finish, LockedLeaseState, MatchingRunLease
  <2> QED
    BY <1>0, <2>1, ReleaseWs DEF Finish
<1>8. CASE \E l \in held, a \in Approvals : CreateApproval(l, a)
  BY <1>0, <1>8, SameTablesKept DEF CreateApproval
<1>9. CASE \E wl \in heldWs : WorkspaceHeartbeat(wl) \/ WorkspaceRelease(wl)
  BY <1>0, <1>9, WriterWs
<1>10. CASE \E S \in SUBSET RetryReady, L \in SUBSET ExpiredLeases : RecoverExpired(S, L)
  <2> PICK S \in SUBSET RetryReady, L \in SUBSET ExpiredLeases : RecoverExpired(S, L)
    BY <1>10
  <2>1. L \in SUBSET {r \in Runs : lease[r] # None}
    BY DEF ExpiredLeases
  <2> QED
    BY <1>0, <2>1, ReleaseWs DEF RecoverExpired
<1>11. CASE Tick
  BY <1>0, <1>11, TickWs
<1> QED
  BY <1>1, <1>2, <1>3, <1>4, <1>5, <1>6, <1>7, <1>8, <1>9, <1>10, <1>11 DEF Next

\* No workspace stays owned once its run's lease is gone, so a claim that looks only at
\* the owner column is never blocked by a dead owner.
THEOREM NoOrphanedWorkspace == Spec => []WorkspaceOwnerHasLease
<1>1. Init => WorkspaceOwnerHasLease
  BY DEF Init, WorkspaceOwnerHasLease, NoOwner
<1>2. TypeOK /\ LeaseMirrorsRun /\ WorkspaceOwnerHasLease /\ [Next]_vars
         => WorkspaceOwnerHasLease'
  BY WsStep
<1> QED
  BY <1>1, <1>2, TypeCorrect, LeaseAndRunAgree, PTL DEF Spec

-----------------------------------------------------------------------------
(***************************************************************************)
(* The history of a run's row (results, attempts, cancellation, retries),  *)
(* the order of the fences, the slots of the workers and the commands a    *)
(* sandbox node admits.  Every step is first reduced to what it does to    *)
(* one run's row; the invariants then follow from a handful of row moves   *)
(* instead of from the actions.                                            *)
(***************************************************************************)

-----------------------------------------------------------------------------
(********************************* Row moves *******************************)

CountsKept(q) == /\ run'[q].attempt = run[q].attempt
                 /\ run'[q].epoch = run[q].epoch
                 /\ run'[q].gen = run[q].gen

RowKept(q) == /\ CountsKept(q)
              /\ run'[q].status = run[q].status
              /\ run'[q].cancel = run[q].cancel
              /\ (run'[q].retryAt = None) <=> (run[q].retryAt = None)

RowCreated(q) == run[q].status = "absent" /\ run'[q] = NewRun(Offset[Api])

\* A waiting run is cancelled at once.
RowCancelled(q) == /\ CountsKept(q)
                   /\ run[q].status \in Waiting
                   /\ run'[q].status = "cancelled"
                   /\ RetryReadyState(run'[q])

\* An assigned run is marked for its worker.
RowMarked(q) == /\ CountsKept(q)
                /\ run[q].status \in Assigned
                /\ run'[q].status = run[q].status
                /\ run'[q].retryAt = run[q].retryAt

RowRewound(q) == /\ run[q].status \in Rewindable
                 /\ run'[q].status = "queued"
                 /\ run'[q].attempt = run[q].attempt + 1
                 /\ run'[q].epoch = run[q].epoch + 1
                 /\ run'[q].gen = run[q].gen
                 /\ run'[q].cancel = FALSE
                 /\ run'[q].retryAt = None

RowResumed(q) == /\ CountsKept(q)
                 /\ run[q].status = "waiting_approval"
                 /\ run'[q].status = "queued"
                 /\ run'[q].cancel => run[q].cancel
                 /\ run'[q].retryAt = run[q].retryAt

RowClaimed(q) == /\ run[q].status = "queued"
                 /\ run'[q].status = "leased"
                 /\ run'[q].attempt = run[q].attempt
                 /\ run'[q].epoch = run[q].epoch
                 /\ run'[q].gen = run[q].gen + 1
                 /\ run'[q].retryAt = run[q].retryAt

RowStarted(q) == /\ CountsKept(q)
                 /\ run[q].status = "leased"
                 /\ run'[q].status = "running"
                 /\ run'[q].retryAt = run[q].retryAt

\* A finish: the pending cancellation wins, and a retry gets its time.
RowFinished(q) == /\ CountsKept(q)
                  /\ run[q].status \in Assigned
                  /\ run'[q].status \in ResultStatus
                  /\ run'[q].cancel => run'[q].status = "cancelled"
                  /\ (run'[q].retryAt # None) <=> (run'[q].status = "retry_pending")

\* Recovery takes the run from its dead owner: cancelled as asked, or queued again.
RowReclaimed(q) == /\ run[q].status \in Assigned
                   /\ run'[q].epoch = run[q].epoch
                   /\ run'[q].gen = run[q].gen
                   /\ run'[q].retryAt = run[q].retryAt
                   /\ \/ /\ run'[q].status = "cancelled"
                         /\ run'[q].attempt = run[q].attempt
                      \/ /\ run'[q].status = "queued"
                         /\ run'[q].attempt = run[q].attempt + 1
                         /\ ~run'[q].cancel

\* A retry whose delay is over.
RowDue(q) == /\ run[q].status = "retry_pending"
             /\ run'[q].status = "queued"
             /\ run'[q].attempt = run[q].attempt + 1
             /\ run'[q].epoch = run[q].epoch
             /\ run'[q].gen = run[q].gen
             /\ run'[q].cancel => run[q].cancel
             /\ run'[q].retryAt = None

RowMove(q) == \/ RowKept(q) \/ RowCreated(q) \/ RowCancelled(q) \/ RowMarked(q)
              \/ RowRewound(q) \/ RowResumed(q) \/ RowClaimed(q) \/ RowStarted(q)
              \/ RowFinished(q) \/ RowReclaimed(q) \/ RowDue(q)

LEMMA SameRow ==
    ASSUME NEW q \in Runs, run'[q] = run[q]
    PROVE  RowMove(q)
  BY DEF RowMove, RowKept, CountsKept

\* The fields of a row after a transition.
LEMMA MovedFields ==
    ASSUME NEW x, NEW new, NEW at
    PROVE  /\ Moved(x, new, at).status = new
           /\ Moved(x, new, at).attempt = NextAttempt(x, new)
           /\ Moved(x, new, at).epoch = x.epoch
           /\ Moved(x, new, at).gen = x.gen
           /\ Moved(x, new, at).cancel = (x.cancel \/ new = "cancelled")
           /\ Moved(x, new, at).retryAt = x.retryAt
  BY Zenon DEF Moved, transition_run

LEMMA CancelAdded ==
    ASSUME NEW x, NEW new, NEW at
    PROVE  Moved(x, new, at).cancel => x.cancel \/ new = "cancelled"
  BY Zenon, MovedFields

LEMMA ApiRow ==
    ASSUME TypeOK, NEW r \in Runs, Create(r) \/ RequestCancel(r) \/ Rewind(r), NEW q \in Runs
    PROVE  RowMove(q)
<1>1. CASE q # r
  <2>1. run'[q] = run[q]
    BY <1>1 DEF Create, RequestCancel, Rewind, TypeOK
  <2> QED
    BY <2>1, SameRow
<1>2. CASE q = r /\ Create(r)
  BY <1>2 DEF Create, TypeOK, RowMove, RowCreated
<1>3. CASE q = r /\ RequestCancel(r) /\ run[r].status \in Waiting
  <2>1. /\ run'[q] = Moved(run[q], "cancelled", Offset[Api])
        /\ RetryReadyState(run'[q])
    BY <1>3 DEF RequestCancel, TypeOK, Assigned, Waiting
  <2>2. run'[q].attempt = run[q].attempt
    BY <2>1, MovedFields DEF NextAttempt
  <2> QED
    BY <1>3, <2>1, <2>2, MovedFields DEF RowMove, RowCancelled, CountsKept
<1>4. CASE q = r /\ RequestCancel(r) /\ run[r].status \in Assigned
  <2>1. run'[q] = [run[q] EXCEPT !.cancel = TRUE] /\ run[q] \in RunRow
    BY <1>4 DEF RequestCancel, TypeOK, Assigned, Waiting
  <2> QED
    BY <1>4, <2>1 DEF RowMove, RowMarked, CountsKept, RunRow
<1>5. CASE q = r /\ Rewind(r)
  <2>1. run'[q] = [rewind_run(run[q]) EXCEPT !.retryAt = None]
    BY <1>5 DEF Rewind, TypeOK
  <2> QED
    BY <1>5, <2>1 DEF RowMove, RowRewound, rewind_run, Rewind
<1> QED
  BY <1>1, <1>2, <1>3, <1>4, <1>5 DEF RequestCancel

LEMMA DecideRow ==
    ASSUME TypeOK, NEW r \in Runs, NEW a \in Approvals, NEW d \in {"approved", "rejected"},
           Decide(r, a, d), NEW q \in Runs
    PROVE  RowMove(q)
<1>1. CASE run'[q] = run[q]
  BY <1>1, SameRow
<1>2. CASE /\ run[q].status = "waiting_approval"
           /\ run'[q] = Moved(run[q], "queued", Offset[Api])
  <2>1. run'[q].attempt = run[q].attempt
    BY <1>2, MovedFields DEF NextAttempt
  <2>2. run'[q].cancel => run[q].cancel
    BY <1>2, CancelAdded
  <2> QED
    BY <1>2, <2>1, <2>2, MovedFields DEF RowMove, RowResumed, CountsKept
<1> QED
  BY <1>1, <1>2 DEF Decide, TypeOK

LEMMA ClaimRow ==
    ASSUME TypeOK, NEW w \in Workers, NEW r \in Runs, Claim(w, r), NEW q \in Runs
    PROVE  RowMove(q)
<1>1. CASE q # r
  BY <1>1, SameRow DEF Claim, TypeOK
<1>2. CASE q = r
  <2> DEFINE y == transition_run(run[q], "leased", Offset[w], w, Offset[w] + LeaseTtl)
  <2>1. run'[q] = [y EXCEPT !.gen = run[q].gen + 1]
    BY <1>2 DEF Claim, TypeOK
  <2>2. /\ run'[q].status = "leased" /\ run'[q].epoch = run[q].epoch
        /\ run'[q].gen = run[q].gen + 1 /\ run'[q].retryAt = run[q].retryAt
        /\ run'[q].attempt = run[q].attempt
    BY <2>1 DEF transition_run, NextAttempt
  <2> QED
    BY <1>2, <2>2 DEF Claim, RowMove, RowClaimed
<1> QED
  BY <1>1, <1>2

LEMMA HolderRow ==
    ASSUME TypeOK, NEW l \in held,
           Start(l) \/ Heartbeat(l) \/ WorkspaceAcquire(l) \/ FencedWrite(l),
           NEW q \in Runs
    PROVE  RowMove(q)
<1>1. l.run \in Runs
  BY DEF TypeOK, RunLease
<1>2. CASE WorkspaceAcquire(l) \/ FencedWrite(l)
  BY <1>2, SameRow DEF WorkspaceAcquire, FencedWrite
<1>3. CASE q # l.run /\ (Start(l) \/ Heartbeat(l))
  BY <1>1, <1>3, SameRow DEF Start, Heartbeat, TypeOK
<1>4. CASE q = l.run /\ Start(l)
  <2>1. /\ run'[q] = Moved(run[q], "running", Offset[l.worker])
        /\ run[q].status = "leased"
    BY <1>1, <1>4 DEF Start, TypeOK
  <2>2. run'[q].attempt = run[q].attempt
    BY <2>1, MovedFields DEF NextAttempt
  <2> QED
    BY <2>1, <2>2, MovedFields DEF RowMove, RowStarted, CountsKept
<1>5. CASE q = l.run /\ Heartbeat(l)
  <2>1. run'[q] = [run[q] EXCEPT !.expiry = Offset[l.worker] + LeaseTtl] /\ run[q] \in RunRow
    BY <1>1, <1>5 DEF Heartbeat, TypeOK
  <2> QED
    BY <2>1 DEF RowMove, RowKept, CountsKept, RunRow
<1> QED
  BY <1>2, <1>3, <1>4, <1>5

LEMMA FinishRow ==
    ASSUME TypeOK, LeaseMirrorsRun, NEW l \in held, NEW result \in ResultStatus,
           Finish(l, result), NEW q \in Runs
    PROVE  RowMove(q)
<1>1. l.run \in Runs /\ l.worker \in Workers
  BY DEF TypeOK, RunLease
<1>2. CASE q # l.run
  BY <1>1, <1>2, SameRow DEF Finish, TypeOK
<1>3. CASE q = l.run
  <2> DEFINE desired == IF run[l.run].cancel THEN "cancelled" ELSE result
  <2> DEFINE at == Offset[l.worker]
  <2>1. run'[q] = [Moved(run[q], desired, at) EXCEPT !.retryAt = RetryTime(desired, at)]
    BY <1>1, <1>3 DEF Finish, TypeOK
  <2>2. desired \in ResultStatus /\ (run[q].cancel => desired = "cancelled")
    BY <1>3 DEF ResultStatus, Terminal
  <2>3. run[q].status \in Assigned
    BY <1>1, <1>3 DEF Finish, LockedLeaseState, MatchingRunLease, LeaseMirrorsRun
  <2>4. at \in Int /\ at + RetryDelay # None
    BY <1>1, OffsetsAreInts, DurationType, NoneIsNoValue DEF Hosts
  <2> HIDE DEF desired, at
  <2>5. /\ run'[q].status = desired
        /\ run'[q].epoch = run[q].epoch
        /\ run'[q].gen = run[q].gen
        /\ run'[q].retryAt = RetryTime(desired, at)
        /\ run'[q].attempt = NextAttempt(run[q], desired)
        /\ run'[q].cancel = Moved(run[q], desired, at).cancel
    BY <2>1 DEF Moved, transition_run
  <2>6. run'[q].attempt = run[q].attempt
    BY <2>3, <2>5 DEF NextAttempt, Assigned
  <2>7. run'[q].cancel => run[q].cancel \/ desired = "cancelled"
    BY <2>5, CancelAdded
  <2>8. (run'[q].retryAt # None) <=> (desired = "retry_pending")
    BY <2>4, <2>5 DEF RetryTime
  <2> QED
    BY <2>2, <2>3, <2>5, <2>6, <2>7, <2>8 DEF RowMove, RowFinished, CountsKept
<1> QED
  BY <1>2, <1>3

LEMMA RecoverRow ==
    ASSUME TypeOK, LeaseMirrorsRun, NEW S \in SUBSET RetryReady,
           NEW L \in SUBSET ExpiredLeases, RecoverExpired(S, L), NEW q \in Runs
    PROVE  RowMove(q)
<1> DEFINE at == Offset[Scheduler]
<1>1. CASE q \in L
  <2>1. lease[q] # None
    BY <1>1 DEF ExpiredLeases
  <2>2. OwnedByLease(q) /\ run[q].status \in Assigned
    BY <2>1 DEF LeaseMirrorsRun, OwnedByLease
  <2>3. run'[q] = Reclaimed(q, at)
    BY <1>1, <2>2 DEF RecoverExpired
  <2> HIDE DEF at
  <2>4. CASE run[q].cancel
    <3>1. run'[q] = Moved(run[q], "cancelled", at)
      BY <2>3, <2>4 DEF Reclaimed
    <3>2. run'[q].attempt = run[q].attempt
      BY <3>1, MovedFields DEF NextAttempt
    <3> QED
      BY <2>2, <3>1, <3>2, MovedFields DEF RowMove, RowReclaimed
  <2>5. CASE ~run[q].cancel
    <3> DEFINE lost == Moved(run[q], "lost", at)
    <3>1. run'[q] = Moved(lost, "queued", at)
      BY <2>3, <2>5 DEF Reclaimed
    <3>2. /\ lost.status = "lost" /\ lost.attempt = run[q].attempt
          /\ lost.epoch = run[q].epoch /\ lost.gen = run[q].gen
          /\ lost.retryAt = run[q].retryAt
      BY MovedFields DEF NextAttempt
    <3>3. ~lost.cancel
      BY <2>5, CancelAdded
    <3> HIDE DEF lost
    <3>4. run'[q].attempt = run[q].attempt + 1
      BY <3>1, <3>2, MovedFields DEF NextAttempt
    <3>5. ~run'[q].cancel
      BY <3>1, <3>3, CancelAdded
    <3> QED
      BY <2>2, <3>1, <3>2, <3>4, <3>5, MovedFields DEF RowMove, RowReclaimed
  <2> QED
    BY <2>4, <2>5
<1>2. CASE q \notin L /\ q \in S
  <2>1. run'[q] = [Moved(run[q], "queued", at) EXCEPT !.retryAt = None]
    BY <1>2 DEF RecoverExpired
  <2>2. run[q].status = "retry_pending"
    BY <1>2 DEF RetryReady
  <2> HIDE DEF at
  <2>3. /\ run'[q].status = "queued"
        /\ run'[q].epoch = run[q].epoch
        /\ run'[q].gen = run[q].gen
        /\ run'[q].retryAt = None
        /\ run'[q].attempt = NextAttempt(run[q], "queued")
        /\ run'[q].cancel = Moved(run[q], "queued", at).cancel
    BY <2>1 DEF Moved, transition_run
  <2>4. run'[q].cancel => run[q].cancel
    BY <2>3, CancelAdded
  <2> QED
    BY <2>2, <2>3, <2>4 DEF RowMove, RowDue, NextAttempt
<1>3. CASE q \notin L /\ q \notin S
  BY <1>3, SameRow DEF RecoverExpired
<1> QED
  BY <1>1, <1>2, <1>3

LEMMA TickRow ==
    ASSUME TypeOK, Tick, NEW q \in Runs
    PROVE  RowMove(q)
<1>1. /\ run'[q] = [run[q] EXCEPT !.expiry = Sooner(@), !.retryAt = Sooner(@),
                                  !.age = IF @ < MaxSkew THEN @ + 1 ELSE @]
      /\ run[q] \in RunRow
  BY DEF Tick, TypeOK
<1>2. (Sooner(run[q].retryAt) = None) <=> (run[q].retryAt = None)
  BY <1>1, SoonerInt, NoneIsNoValue DEF Sooner, RunRow, Instant
<1> QED
  BY <1>1, <1>2 DEF RowMove, RowKept, CountsKept, RunRow

\* Every step is a row move for each run.
LEMMA EveryRow ==
    ASSUME TypeOK, LeaseMirrorsRun, [Next]_vars, NEW q \in Runs
    PROVE  RowMove(q)
<1>1. CASE UNCHANGED vars
  BY <1>1, SameRow DEF vars
<1>2. CASE \E r \in Runs : Create(r) \/ RequestCancel(r) \/ Rewind(r)
  BY <1>2, ApiRow
<1>3. CASE \E r \in Runs, a \in Approvals, d \in {"approved", "rejected"} : Decide(r, a, d)
  BY <1>3, DecideRow
<1>4. CASE \/ \E w \in Workers, n \in 1..MaxSlots : \E k \in 0..n : RegisterWorker(w, n, k)
           \/ \E w \in Workers, k \in 0..MaxSlots : HeartbeatWorker(w, k)
           \/ \E w \in Workers, s \in {"active", "draining"} : SetWorkerDraining(w, s)
  BY <1>4, SameRow DEF RegisterWorker, HeartbeatWorker, SetWorkerDraining
<1>5. CASE \E w \in Workers, r \in Runs : Claim(w, r)
  BY <1>5, ClaimRow
<1>6. CASE \E l \in held : Start(l) \/ Heartbeat(l) \/ WorkspaceAcquire(l) \/ FencedWrite(l)
  BY <1>6, HolderRow
<1>7. CASE \E l \in held, s \in ResultStatus : Finish(l, s)
  BY <1>7, FinishRow
<1>8. CASE \E l \in held, a \in Approvals : CreateApproval(l, a)
  BY <1>8, SameRow DEF CreateApproval
<1>9. CASE \E wl \in heldWs : WorkspaceHeartbeat(wl) \/ WorkspaceRelease(wl)
  BY <1>9, SameRow DEF WorkspaceHeartbeat, WorkspaceRelease
<1>10. CASE \E S \in SUBSET RetryReady, L \in SUBSET ExpiredLeases : RecoverExpired(S, L)
  BY <1>10, RecoverRow
<1>11. CASE Tick
  BY <1>11, TickRow
<1> QED
  BY <1>1, <1>2, <1>3, <1>4, <1>5, <1>6, <1>7, <1>8, <1>9, <1>10, <1>11 DEF Next

-----------------------------------------------------------------------------
(**************************** Results and rows *****************************)

LEMMA ResultKept ==
    ASSUME TypeOK, NEW q \in Runs, RowMove(q), run[q].status \in Terminal
    PROVE  run'[q].status = run[q].status \/ run'[q].epoch = run[q].epoch + 1
  BY DEF RowMove, RowKept, RowCreated, RowCancelled, RowMarked, RowRewound, RowResumed,
         RowClaimed, RowStarted, RowFinished, RowReclaimed, RowDue, Terminal, Waiting, Assigned

\* A result never changes but by a rewind that opens a new epoch: a late finish, a
\* recovery that overtakes it and a cancellation all leave a finished run alone.
THEOREM ResultsStand == Spec => ResultsAreFinal
<1>1. TypeOK /\ LeaseMirrorsRun /\ [Next]_vars =>
         [\A r \in Runs : run[r].status \in Terminal =>
             run'[r].status = run[r].status \/ run'[r].epoch = run[r].epoch + 1]_vars
  BY EveryRow, ResultKept
<1> QED
  BY <1>1, TypeCorrect, LeaseAndRunAgree, PTL DEF Spec, ResultsAreFinal

\* One run's share of the invariants on rows.  The last part is the strengthening:
\* a row that does not exist yet has the counters of a new one.
RowSound(q) ==
    /\ run[q].cancel => run[q].status \in Assigned \cup {"cancelled"}
    /\ RetryReadyState(run[q])
    /\ run[q].epoch <= run[q].attempt
    /\ run[q].attempt - run[q].epoch
         + (IF run[q].status \in Assigned \cup {"waiting_approval", "retry_pending"}
            THEN 1 ELSE 0) <= run[q].gen
    /\ run[q].status = "absent" => run[q].gen = 0 /\ run[q].epoch = 1

LEMMA RowSoundStep ==
    ASSUME TypeOK, NEW q \in Runs, RowMove(q), RowSound(q)
    PROVE  RowSound(q)'
<1>0. run[q].attempt \in Int /\ run[q].epoch \in Int /\ run[q].gen \in Int
  BY DEF TypeOK, RunRow
<1> USE DEF RowSound, RetryReadyState, Assigned
<1>1. CASE RowKept(q)
  BY <1>0, <1>1 DEF RowKept, CountsKept
<1>2. CASE RowCreated(q)
  BY <1>0, <1>2 DEF RowCreated, NewRun
<1>3. CASE RowCancelled(q)
  BY <1>0, <1>3 DEF RowCancelled, CountsKept, Waiting
<1>4. CASE RowMarked(q)
  BY <1>0, <1>4 DEF RowMarked, CountsKept
<1>5. CASE RowRewound(q)
  BY <1>0, <1>5 DEF RowRewound
<1>6. CASE RowResumed(q)
  BY <1>0, <1>6 DEF RowResumed, CountsKept
<1>7. CASE RowClaimed(q)
  BY <1>0, <1>7 DEF RowClaimed
<1>8. CASE RowStarted(q)
  BY <1>0, <1>8 DEF RowStarted, CountsKept
<1>9. CASE RowFinished(q)
  BY <1>0, <1>9 DEF RowFinished, CountsKept, ResultStatus, Terminal
<1>10. CASE RowReclaimed(q)
  BY <1>0, <1>10 DEF RowReclaimed
<1>11. CASE RowDue(q)
  BY <1>0, <1>11 DEF RowDue
<1> QED
  BY <1>1, <1>2, <1>3, <1>4, <1>5, <1>6, <1>7, <1>8, <1>9, <1>10, <1>11 DEF RowMove

RowsSound == \A q \in Runs : RowSound(q)

LEMMA RowsSoundStep == TypeOK /\ LeaseMirrorsRun /\ RowsSound /\ [Next]_vars => RowsSound'
  BY EveryRow, RowSoundStep DEF RowsSound

LEMMA RowsSoundInit == Init => RowsSound
<1> SUFFICES ASSUME Init, NEW q \in Runs PROVE RowSound(q)
  BY DEF RowsSound
<1>1. run[q] = [NewRun(0) EXCEPT !.status = "absent"]
  BY DEF Init
<1>2. /\ run[q].status = "absent" /\ run[q].attempt = 1 /\ run[q].epoch = 1
      /\ run[q].gen = 0 /\ run[q].cancel = FALSE /\ run[q].retryAt = None
  BY <1>1 DEF NewRun
<1> QED
  BY <1>2 DEF RowSound, RetryReadyState, Assigned

LEMMA RowsAlwaysSound == Spec => []RowsSound
  BY RowsSoundInit, RowsSoundStep, TypeCorrect, LeaseAndRunAgree, PTL DEF Spec

-----------------------------------------------------------------------------
(*************************** Workspace expiries ****************************)

\* No lease reaches further than its worker's clock and the lease duration: the part
\* that makes a renewal never shorten a lease.
Horizon(r) == lease[r] # None => lease[r].expiry <= Offset[lease[r].worker] + LeaseTtl

\* The writer's expiry, a number while there is a writer, lies within its run's lease.
WriterEndsFirst(w) ==
    workspace[w].token # None => /\ workspace[w].expiry \in Int
                                 /\ workspace[w].expiry <= lease[workspace[w].run].expiry

ExpiriesNested == /\ \A r \in Runs : Horizon(r)
                  /\ \A w \in Workspaces : WriterEndsFirst(w)

LEMMA WorkerOffsets == \A w \in Workers : Offset[w] \in Int /\ Offset[w] + LeaseTtl \in Int
  BY OffsetsAreInts, DurationType DEF Hosts

LEMMA SoonerMonotone ==
    /\ \A i, j \in Int : i <= j => Sooner(i) <= Sooner(j)
    /\ \A i \in Int : Sooner(i) <= i
  BY OffsetType, NoneIsNoValue DEF Sooner

\* What a step does to the lease of run q: deleted or untouched, drawn anew or renewed at
\* its worker's clock, or a tick older.
LeaseStep(q) ==
    \/ lease'[q] = lease[q]
    \/ lease'[q] = None
    \/ /\ lease'[q] \in LeaseRow
       /\ lease'[q].expiry = Offset[lease'[q].worker] + LeaseTtl
    \/ /\ Tick
       /\ lease[q] \in LeaseRow
       /\ lease'[q] = [lease[q] EXCEPT !.expiry = Sooner(@)]

LEMMA HorizonStep ==
    ASSUME TypeOK, NEW q \in Runs, LeaseStep(q), Horizon(q)
    PROVE  Horizon(q)'
<1>1. CASE lease'[q] = lease[q] \/ lease'[q] = None
  BY <1>1 DEF Horizon
<1>2. CASE lease'[q] \in LeaseRow /\ lease'[q].expiry = Offset[lease'[q].worker] + LeaseTtl
  <2>1. lease'[q].worker \in Workers
    BY <1>2 DEF LeaseRow
  <2> QED
    BY <1>2, <2>1, WorkerOffsets DEF Horizon
<1>3. CASE lease[q] \in LeaseRow /\ lease'[q] = [lease[q] EXCEPT !.expiry = Sooner(@)]
  <2>1. /\ lease'[q].worker = lease[q].worker /\ lease[q].worker \in Workers
        /\ lease'[q].expiry = Sooner(lease[q].expiry) /\ lease[q].expiry \in Int
    BY <1>3 DEF LeaseRow
  <2>2. lease[q] # None
    BY <1>3, NoneIsNoRow
  <2> QED
    BY <2>1, <2>2, SoonerInt, SoonerMonotone, WorkerOffsets DEF Horizon
<1> QED
  BY <1>1, <1>2, <1>3 DEF LeaseStep

LEMMA EveryLeaseStep ==
    ASSUME TypeOK, [Next]_vars, NEW q \in Runs
    PROVE  LeaseStep(q)
<1>1. CASE UNCHANGED vars
  BY <1>1 DEF vars, LeaseStep
<1>2. CASE \E r \in Runs : Create(r) \/ RequestCancel(r) \/ Rewind(r)
  BY <1>2 DEF Create, RequestCancel, Rewind, LeaseStep
<1>3. CASE \E r \in Runs, a \in Approvals, d \in {"approved", "rejected"} : Decide(r, a, d)
  BY <1>3 DEF Decide, LeaseStep
<1>4. CASE \/ \E w \in Workers, n \in 1..MaxSlots : \E k \in 0..n : RegisterWorker(w, n, k)
           \/ \E w \in Workers, k \in 0..MaxSlots : HeartbeatWorker(w, k)
           \/ \E w \in Workers, s \in {"active", "draining"} : SetWorkerDraining(w, s)
  BY <1>4 DEF RegisterWorker, HeartbeatWorker, SetWorkerDraining, LeaseStep
<1>5. CASE \E w \in Workers, r \in Runs : Claim(w, r)
  <2> PICK w \in Workers, r \in Runs : Claim(w, r)
    BY <1>5
  <2> DEFINE row == [worker |-> w, token |-> tokens + 1, gen |-> run[r].gen + 1,
                     expiry |-> Offset[w] + LeaseTtl]
  <2>1. lease' = [lease EXCEPT ![r] = row]
    BY DEF Claim
  <2>2. row \in LeaseRow
    BY WorkerOffsets DEF TypeOK, LeaseRow, RunRow
  <2> QED
    BY <2>1, <2>2 DEF TypeOK, LeaseStep
<1>6. CASE \E l \in held : Start(l) \/ WorkspaceAcquire(l) \/ FencedWrite(l)
  BY <1>6 DEF Start, WorkspaceAcquire, FencedWrite, LeaseStep
<1>7. CASE \E l \in held : Heartbeat(l)
  <2> PICK l \in held : Heartbeat(l)
    BY <1>7
  <2>1. l.run \in Runs /\ l.worker \in Workers /\ lease[l.run] \in LeaseRow
    BY DEF TypeOK, RunLease, Heartbeat, LockedLeaseState, MatchingRunLease
  <2>2. lease' = [lease EXCEPT ![l.run].expiry = Offset[l.worker] + LeaseTtl]
    BY DEF Heartbeat
  <2>3. lease[l.run].worker = l.worker
    BY DEF Heartbeat, LockedLeaseState, MatchingRunLease
  <2>4. CASE q = l.run
    <3>1. lease'[q] = [lease[q] EXCEPT !.expiry = Offset[l.worker] + LeaseTtl]
      BY <2>1, <2>2, <2>4 DEF TypeOK
    <3> QED
      BY <2>1, <2>3, <2>4, <3>1, WorkerOffsets DEF LeaseRow, LeaseStep
  <2>5. CASE q # l.run
    BY <2>2, <2>5 DEF TypeOK, LeaseStep
  <2> QED
    BY <2>4, <2>5
<1>8. CASE \E l \in held, s \in ResultStatus : Finish(l, s)
  BY <1>8 DEF Finish, WithoutLeases, LeaseStep
<1>9. CASE \E l \in held, a \in Approvals : CreateApproval(l, a)
  BY <1>9 DEF CreateApproval, LeaseStep
<1>10. CASE \E wl \in heldWs : WorkspaceHeartbeat(wl) \/ WorkspaceRelease(wl)
  BY <1>10 DEF WorkspaceHeartbeat, WorkspaceRelease, LeaseStep
<1>11. CASE \E S \in SUBSET RetryReady, L \in SUBSET ExpiredLeases : RecoverExpired(S, L)
  BY <1>11 DEF RecoverExpired, WithoutLeases, LeaseStep
<1>12. CASE Tick
  BY <1>12 DEF Tick, TypeOK, LeaseStep
<1> QED
  BY <1>1, <1>2, <1>3, <1>4, <1>5, <1>6, <1>7, <1>8, <1>9, <1>10, <1>11, <1>12 DEF Next

\* While the workspace row is left alone, no step but a tick shortens its run's lease.
LEMMA WriterFrame ==
    ASSUME TypeOK, TypeOK', ~Tick, NEW w \in Workspaces, WsOwner(w), WsOwner(w)',
           \A q \in Runs : Horizon(q) /\ LeaseStep(q),
           WriterEndsFirst(w), workspace'[w] = workspace[w]
    PROVE  WriterEndsFirst(w)'
<1> DEFINE q == workspace[w].run
<1> SUFFICES ASSUME workspace[w].token # None
             PROVE  workspace[w].expiry <= lease'[q].expiry
  BY DEF WriterEndsFirst
<1>1. q \in Runs
  BY OwnerIsRun
<1>2. /\ lease[q] # None /\ lease'[q] # None
      /\ lease[q].worker = workspace[w].worker /\ lease'[q].worker = workspace[w].worker
  BY DEF WsOwner
<1>3. /\ lease[q] \in LeaseRow /\ lease'[q] \in LeaseRow
  BY <1>1, <1>2 DEF TypeOK
<1>4. /\ lease[q].expiry \in Int /\ lease[q].worker \in Workers
      /\ workspace[w].expiry \in Int /\ workspace[w].expiry <= lease[q].expiry
  BY <1>3 DEF LeaseRow, WriterEndsFirst
<1> HIDE DEF q
<1>5. CASE lease'[q] = lease[q]
  BY <1>4, <1>5
<1>6. CASE lease'[q].expiry = Offset[lease'[q].worker] + LeaseTtl
  <2>1. lease[q].expiry <= Offset[lease[q].worker] + LeaseTtl
    BY <1>1, <1>2 DEF Horizon
  <2>2. lease'[q].expiry = Offset[lease[q].worker] + LeaseTtl
    BY <1>2, <1>6
  <2> QED
    BY <1>4, <2>1, <2>2, WorkerOffsets
<1> QED
  BY <1>1, <1>2, <1>5, <1>6 DEF LeaseStep

LEMMA ClaimWriter ==
    ASSUME TypeOK, NEW v \in Workers, NEW r \in Runs, Claim(v, r), NEW w \in Workspaces,
           workspace'[w] # workspace[w]
    PROVE  WriterEndsFirst(w)'
<1> DEFINE e == Offset[v] + LeaseTtl
<1>1. w = WorkspaceOf[r]
  BY WorkspaceOfType DEF Claim, TypeOK
<1>2. workspace'[w].run = r /\ workspace'[w].expiry = e
  BY <1>1 DEF Claim, TypeOK
<1>3. lease'[r].expiry = e
  BY DEF Claim, TypeOK
<1>4. e \in Int
  BY WorkerOffsets
<1> QED
  BY <1>2, <1>3, <1>4 DEF WriterEndsFirst

LEMMA WriterExpiryBound ==
    ASSUME NEW v \in Workers, NEW row \in LeaseRow
    PROVE  WriterExpiry(Offset[v], row) \in Int /\ WriterExpiry(Offset[v], row) <= row.expiry
<1>1. Offset[v] + LeaseTtl \in Int /\ row.expiry \in Int
  BY WorkerOffsets DEF LeaseRow
<1> QED
  BY <1>1 DEF WriterExpiry, Min2

LEMMA AcquireWriter ==
    ASSUME TypeOK, NEW l \in held, WorkspaceAcquire(l), NEW w \in Workspaces,
           workspace'[w] # workspace[w]
    PROVE  WriterEndsFirst(w)'
<1> DEFINE ws == WorkspaceOf[l.run]
<1> DEFINE e == WriterExpiry(Offset[l.worker], lease[l.run])
<1>1. l.run \in Runs /\ l.worker \in Workers /\ ws \in Workspaces
  BY WorkspaceOfType DEF TypeOK, RunLease
<1>2. w = ws /\ lease' = lease
  BY <1>1 DEF WorkspaceAcquire, TypeOK
<1>3. lease[l.run] \in LeaseRow
  BY <1>1 DEF TypeOK, WorkspaceAcquire, MatchingRunLease
<1>4. e \in Int /\ e <= lease[l.run].expiry
  BY <1>1, <1>3, WriterExpiryBound
<1> HIDE DEF e
<1>5. workspace'[w].expiry = e /\ workspace'[w].run = l.run
  <2>1. CASE workspace[ws].token # None
    <3>1. workspace' = [workspace EXCEPT ![ws].expiry = e] /\ workspace[ws].run = l.run
      BY <2>1 DEF WorkspaceAcquire, e
    <3> QED
      BY <1>1, <1>2, <3>1 DEF TypeOK, WorkspaceRow
  <2>2. CASE workspace[ws].token = None
    <3>1. workspace' = [workspace EXCEPT ![ws] =
                [run |-> l.run, worker |-> l.worker, runToken |-> l.token,
                 token |-> tokens + 1, gen |-> workspace[ws].gen + 1, expiry |-> e]]
      BY <2>2 DEF WorkspaceAcquire, e
    <3> QED
      BY <1>1, <1>2, <3>1 DEF TypeOK
  <2> QED
    BY <2>1, <2>2
<1> QED
  BY <1>2, <1>4, <1>5 DEF WriterEndsFirst

LEMMA RenewWriter ==
    ASSUME TypeOK, NEW wl \in heldWs, WorkspaceHeartbeat(wl), NEW w \in Workspaces,
           workspace'[w] # workspace[w]
    PROVE  WriterEndsFirst(w)'
<1> DEFINE e == WriterExpiry(Offset[wl.worker], lease[wl.run])
<1>1. wl.ws \in Workspaces /\ wl.run \in Runs /\ wl.worker \in Workers
  BY DEF TypeOK, WorkspaceLease
<1>2. lease[wl.run] \in LeaseRow /\ lease' = lease
  BY <1>1 DEF TypeOK, WorkspaceHeartbeat
<1>3. e \in Int /\ e <= lease[wl.run].expiry
  BY <1>1, <1>2, WriterExpiryBound
<1>4. workspace' = [workspace EXCEPT ![wl.ws].expiry = e]
  BY DEF WorkspaceHeartbeat
<1> HIDE DEF e
<1>5. w = wl.ws
  BY <1>1, <1>4 DEF TypeOK
<1>6. workspace[w].run = wl.run
  BY <1>5 DEF WorkspaceHeartbeat, OwnsWorkspace, WorkspaceLeaseOf
<1>7. workspace'[w].expiry = e /\ workspace'[w].run = wl.run
  BY <1>1, <1>4, <1>5, <1>6 DEF TypeOK, WorkspaceRow
<1> QED
  BY <1>2, <1>3, <1>7 DEF WriterEndsFirst

LEMMA TickWriter ==
    ASSUME TypeOK, Tick, NEW w \in Workspaces, WsOwner(w), WriterEndsFirst(w)
    PROVE  WriterEndsFirst(w)'
<1> DEFINE q == workspace[w].run
<1>1. workspace'[w] = [workspace[w] EXCEPT !.expiry = Sooner(@)]
  BY DEF Tick
<1>2. /\ workspace'[w].token = workspace[w].token /\ workspace'[w].run = q
      /\ workspace'[w].expiry = Sooner(workspace[w].expiry)
  BY <1>1 DEF TypeOK, WorkspaceRow
<1> SUFFICES ASSUME workspace[w].token # None
             PROVE  /\ Sooner(workspace[w].expiry) \in Int
                    /\ Sooner(workspace[w].expiry) <= lease'[q].expiry
  BY <1>2 DEF WriterEndsFirst
<1>3. q \in Runs /\ lease[q] # None
  BY OwnerIsRun DEF WsOwner
<1>4. lease[q] \in LeaseRow /\ lease'[q] = [lease[q] EXCEPT !.expiry = Sooner(@)]
  BY <1>3 DEF Tick, TypeOK
<1>5. lease[q].expiry \in Int /\ lease'[q].expiry = Sooner(lease[q].expiry)
  BY <1>4 DEF LeaseRow
<1> QED
  BY <1>5, SoonerInt, SoonerMonotone DEF WriterEndsFirst

LEMMA ReleasedWriter ==
    ASSUME TypeOK, NEW L, workspace' = WithWorkspacesReleased(L), NEW w \in Workspaces,
           workspace'[w] # workspace[w]
    PROVE  workspace'[w].token = None
  BY DEF WithWorkspacesReleased, NoOwner

\* The inductive invariant behind RowsAgree.
RowsInv == TypeOK /\ LeaseMirrorsRun /\ WorkspaceOwnerHasLease

LEMMA NestedStep == RowsInv /\ ExpiriesNested /\ [Next]_vars => ExpiriesNested'
<1> SUFFICES ASSUME TypeOK, LeaseMirrorsRun, WorkspaceOwnerHasLease, ExpiriesNested, [Next]_vars
             PROVE  ExpiriesNested'
  BY DEF RowsInv
<1>1. \A q \in Runs : Horizon(q) /\ LeaseStep(q)
  BY EveryLeaseStep DEF ExpiriesNested
<1>2. \A q \in Runs : Horizon(q)'
  BY <1>1, HorizonStep
<1>3. TypeOK' /\ WorkspaceOwnerHasLease'
  BY TypeStep, WsStep
<1>4. ASSUME NEW w \in Workspaces PROVE WriterEndsFirst(w)'
  <2>1. WsOwner(w) /\ WsOwner(w)' /\ WriterEndsFirst(w)
    BY <1>3 DEF WorkspaceOwnerHasLease, WsOwner, ExpiriesNested
  <2>2. CASE Tick
    BY <2>1, <2>2, TickWriter
  <2>3. CASE ~Tick /\ workspace'[w] = workspace[w]
    BY <1>1, <1>3, <2>1, <2>3, WriterFrame
  <2>4. CASE ~Tick /\ workspace'[w] # workspace[w]
    <3>1. CASE \E v \in Workers, r \in Runs : Claim(v, r)
      BY <2>4, <3>1, ClaimWriter
    <3>2. CASE \E l \in held : WorkspaceAcquire(l)
      BY <2>4, <3>2, AcquireWriter
    <3>3. CASE \E wl \in heldWs : WorkspaceHeartbeat(wl)
      BY <2>4, <3>3, RenewWriter
    <3>4. CASE \E wl \in heldWs : WorkspaceRelease(wl)
      BY <2>4, <3>4 DEF WorkspaceRelease, TypeOK, NoOwner, WriterEndsFirst
    <3>5. CASE \/ \E l \in held, s \in ResultStatus : Finish(l, s)
               \/ \E S \in SUBSET RetryReady, L \in SUBSET ExpiredLeases : RecoverExpired(S, L)
      <4>1. workspace'[w].token = None
        BY <2>4, <3>5, ReleasedWriter DEF Finish, RecoverExpired
      <4> QED
        BY <4>1 DEF WriterEndsFirst
    <3>6. CASE workspace' = workspace
      BY <2>4, <3>6
    <3> QED
      BY ZenonT(60), <2>4, <3>1, <3>2, <3>3, <3>4, <3>5, <3>6
         DEF Next, vars, Create, RequestCancel, Rewind, Decide, RegisterWorker, HeartbeatWorker,
             SetWorkerDraining, Start, Heartbeat, FencedWrite, CreateApproval
  <2> QED
    BY <2>2, <2>3, <2>4
<1> QED
  BY <1>2, <1>4 DEF ExpiriesNested

\* The rows of a run agree on its expiry, its cancellation, its retry and its attempts,
\* for every interleaving of losses, late finishes, cancellations, recoveries and rewinds.
THEOREM RowsStayConsistent == Spec => []RowsAgree
<1>1. Init => ExpiriesNested
  BY DEF Init, ExpiriesNested, Horizon, WriterEndsFirst, NoOwner
<1>2. RowsInv /\ ExpiriesNested /\ [Next]_vars => ExpiriesNested'
  BY NestedStep
<1>3. Spec => []RowsInv
  BY TypeCorrect, LeaseAndRunAgree, NoOrphanedWorkspace, PTL DEF RowsInv
<1>4. Spec => []ExpiriesNested
  BY <1>1, <1>2, <1>3, PTL DEF Spec
<1>5. ExpiriesNested /\ RowsSound => RowsAgree
  BY DEF ExpiriesNested, WriterEndsFirst, RowsSound, RowSound, RowsAgree,
         WorkspaceExpiresFirst, CancelIsNotForgotten, RetryTimeMatchesStatus, OneAttemptPerLease
<1> QED
  BY <1>4, <1>5, RowsAlwaysSound, PTL

-----------------------------------------------------------------------------
(********************************** Fences *********************************)

\* The last accepted write of a run is no newer than the run's own counters.
WriterBehind(q) == writer[q].epoch <= run[q].epoch /\ writer[q].gen <= run[q].gen

WritersBehind == \A q \in Runs : WriterBehind(q)

LEMMA CountersGrow ==
    ASSUME TypeOK, NEW q \in Runs, RowMove(q), RowSound(q)
    PROVE  run'[q].gen >= run[q].gen /\ run'[q].epoch >= run[q].epoch
<1>0. run[q].epoch \in Int /\ run[q].gen \in Int
  BY DEF TypeOK, RunRow
<1>1. CASE RowCreated(q)
  BY <1>1 DEF RowCreated, RowSound, NewRun
<1>2. CASE ~RowCreated(q)
  BY <1>0, <1>2 DEF RowMove, CountsKept, RowKept, RowCancelled, RowMarked, RowRewound,
         RowResumed, RowClaimed, RowStarted, RowFinished, RowReclaimed, RowDue
<1> QED
  BY <1>1, <1>2

\* A write either leaves the fence of run q alone or sets it to the run's own counters.
WriteStep(q) == \/ writer'[q] = writer[q]
                \/ /\ writer'[q].epoch = run[q].epoch /\ writer'[q].gen = run[q].gen
                   /\ run' = run

LEMMA EveryWrite ==
    ASSUME TypeOK, [Next]_vars, NEW q \in Runs
    PROVE  WriteStep(q)
<1>1. CASE \/ \E l \in held : FencedWrite(l)
           \/ \E l \in held, a \in Approvals : CreateApproval(l, a)
  <2> PICK l \in held : /\ ActiveRunLease(l)
                        /\ writer' = [writer EXCEPT ![l.run] = [epoch |-> l.epoch, gen |-> l.gen]]
                        /\ run' = run
    BY <1>1 DEF FencedWrite, CreateApproval
  <2>1. run[l.run].epoch = l.epoch /\ run[l.run].gen = l.gen
    BY DEF ActiveRunLease, LockedLeaseState
  <2> QED
    BY <2>1 DEF TypeOK, WriteStep
<1>2. CASE writer' = writer
  BY <1>2 DEF WriteStep
<1> QED
  BY ZenonT(60), <1>1, <1>2
     DEF Next, vars, Create, RequestCancel, Rewind, Decide, RegisterWorker, HeartbeatWorker,
         SetWorkerDraining, Claim, Start, Heartbeat, WorkspaceAcquire, Finish,
         WorkspaceHeartbeat, WorkspaceRelease, RecoverExpired, Tick

LEMMA WriterStep ==
    ASSUME TypeOK, TypeOK', NEW q \in Runs, RowMove(q), RowSound(q), WriterBehind(q), WriteStep(q)
    PROVE  /\ WriterBehind(q)'
           /\ writer'[q].epoch >= writer[q].epoch /\ writer'[q].gen >= writer[q].gen
<1>1. /\ run[q].epoch \in Int /\ run[q].gen \in Int
      /\ run'[q].epoch \in Int /\ run'[q].gen \in Int
      /\ writer[q].epoch \in Int /\ writer[q].gen \in Int
  BY DEF TypeOK, RunRow
<1>2. run'[q].gen >= run[q].gen /\ run'[q].epoch >= run[q].epoch
  BY CountersGrow
<1>3. CASE writer'[q] = writer[q]
  BY <1>1, <1>2, <1>3 DEF WriterBehind
<1>4. CASE /\ writer'[q].epoch = run[q].epoch /\ writer'[q].gen = run[q].gen
           /\ run' = run
  BY <1>1, <1>4 DEF WriterBehind
<1> QED
  BY <1>3, <1>4 DEF WriteStep

\* A lease is only ever drawn by a claim, with the next generation.
LEMMA NewLeaseIsNewer ==
    ASSUME TypeOK, LeaseMirrorsRun, [Next]_vars, NEW q \in Runs,
           lease[q] = None, lease'[q] # None
    PROVE  lease'[q].gen > run[q].gen
<1>1. ~Tick
  BY DEF Tick
<1>2. Granted(q)
  BY <1>1, EveryMove DEF OwnershipMove, Kept, MovedUnassigned, Renewed, Ended
<1>3. RowClaimed(q)
  BY <1>2, EveryRow DEF Granted, RowMove, RowKept, RowCreated, RowCancelled, RowMarked, RowRewound,
         RowResumed, RowStarted, RowFinished, RowReclaimed, RowDue, Assigned, Rewindable,
         Terminal, NewRun
<1>4. run[q].gen \in Int /\ lease'[q].gen = run[q].gen + 1
  BY <1>2, <1>3 DEF Granted, RowClaimed, TypeOK, RunRow
<1> QED
  BY <1>4

\* A workspace changes hands only with the next generation.
WsOrdered(w) ==
    /\ workspace'[w].gen >= workspace[w].gen
    /\ workspace'[w].token \notin {None, workspace[w].token}
          => workspace'[w].gen > workspace[w].gen

LEMMA WsOrderedStep ==
    ASSUME TypeOK, [Next]_vars, NEW w \in Workspaces
    PROVE  WsOrdered(w)
<1>0. workspace[w] \in WorkspaceRow /\ workspace[w].gen \in Int
  BY DEF TypeOK, WorkspaceRow
<1>1. CASE \E v \in Workers, r \in Runs : Claim(v, r)
  <2> PICK v \in Workers, r \in Runs : Claim(v, r)
    BY <1>1
  <2>1. workspace'[w] = workspace[w] \/ workspace'[w].gen = workspace[w].gen + 1
    BY DEF Claim, TypeOK
  <2> QED
    BY <1>0, <2>1 DEF WsOrdered
<1>2. CASE \E l \in held : WorkspaceAcquire(l)
  <2> PICK l \in held : WorkspaceAcquire(l)
    BY <1>2
  <2> DEFINE e == WriterExpiry(Offset[l.worker], lease[l.run])
  <2> DEFINE ws == WorkspaceOf[l.run]
  <2>1. \/ workspace' = [workspace EXCEPT ![ws].expiry = e]
        \/ workspace' = [workspace EXCEPT ![ws] =
                [run |-> l.run, worker |-> l.worker, runToken |-> l.token,
                 token |-> tokens + 1, gen |-> workspace[ws].gen + 1, expiry |-> e]]
    BY DEF WorkspaceAcquire
  <2> HIDE DEF e, ws
  <2>2. \/ workspace'[w] = workspace[w]
        \/ workspace'[w] = [workspace[w] EXCEPT !.expiry = e]
        \/ workspace'[w].gen = workspace[w].gen + 1
    <3>1. CASE w # ws
      BY <2>1, <3>1 DEF TypeOK
    <3>2. CASE w = ws
      BY <2>1, <3>2 DEF TypeOK
    <3> QED
      BY <3>1, <3>2
  <2> QED
    BY <1>0, <2>2 DEF WsOrdered, WorkspaceRow
<1>3. CASE \E wl \in heldWs : WorkspaceHeartbeat(wl)
  <2> PICK wl \in heldWs : WorkspaceHeartbeat(wl)
    BY <1>3
  <2>1. \/ workspace'[w] = workspace[w]
        \/ workspace'[w] = [workspace[w] EXCEPT
              !.expiry = WriterExpiry(Offset[wl.worker], lease[wl.run])]
    BY DEF WorkspaceHeartbeat, TypeOK
  <2> QED
    BY <1>0, <2>1 DEF WsOrdered, WorkspaceRow
<1>4. CASE workspace'[w] = NoOwner(workspace[w].gen) \/ workspace'[w] = workspace[w]
  BY <1>0, <1>4 DEF WsOrdered, NoOwner
<1>5. CASE \E wl \in heldWs : WorkspaceRelease(wl)
  BY <1>4, <1>5 DEF WorkspaceRelease, TypeOK
<1>6. CASE \/ \E l \in held, s \in ResultStatus : Finish(l, s)
           \/ \E S \in SUBSET RetryReady, L \in SUBSET ExpiredLeases : RecoverExpired(S, L)
  BY <1>4, <1>6 DEF Finish, RecoverExpired, WithWorkspacesReleased
<1>7. CASE Tick
  <2>1. workspace'[w] = [workspace[w] EXCEPT !.expiry = Sooner(@)]
    BY <1>7 DEF Tick
  <2> QED
    BY <1>0, <2>1 DEF WsOrdered, WorkspaceRow
<1> QED
  BY ZenonT(60), <1>1, <1>2, <1>3, <1>4, <1>5, <1>6, <1>7
     DEF Next, vars, Create, RequestCancel, Rewind, Decide, RegisterWorker, HeartbeatWorker,
         SetWorkerDraining, Start, Heartbeat, FencedWrite, CreateApproval

\* What FencesHold says of one step.
FenceStep ==
    /\ \A r \in Runs : /\ run'[r].gen >= run[r].gen
                       /\ run'[r].epoch >= run[r].epoch
                       /\ (lease[r] = None /\ lease'[r] # None) => lease'[r].gen > run[r].gen
                       /\ writer'[r].epoch >= writer[r].epoch
                       /\ writer'[r].gen >= writer[r].gen
    /\ \A w \in Workspaces :
          /\ workspace'[w].gen >= workspace[w].gen
          /\ workspace'[w].token \notin {None, workspace[w].token}
                => workspace'[w].gen > workspace[w].gen

LEMMA FencesStep ==
    TypeOK /\ LeaseMirrorsRun /\ RowsSound /\ WritersBehind /\ [Next]_vars
        => WritersBehind' /\ FenceStep
<1> SUFFICES ASSUME TypeOK, LeaseMirrorsRun, RowsSound, WritersBehind, [Next]_vars
             PROVE  WritersBehind' /\ FenceStep
  OBVIOUS
<1>1. TypeOK'
  BY TypeStep
<1>2. \A q \in Runs : RowMove(q) /\ RowSound(q) /\ WriterBehind(q) /\ WriteStep(q)
  BY EveryRow, EveryWrite DEF RowsSound, WritersBehind
<1>3. \A q \in Runs : /\ WriterBehind(q)'
                      /\ writer'[q].epoch >= writer[q].epoch
                      /\ writer'[q].gen >= writer[q].gen
  BY <1>1, <1>2, WriterStep
<1>4. \A q \in Runs : run'[q].gen >= run[q].gen /\ run'[q].epoch >= run[q].epoch
  BY <1>2, CountersGrow
<1>5. \A w \in Workspaces : WsOrdered(w)
  BY WsOrderedStep
<1> QED
  BY <1>3, <1>4, <1>5, NewLeaseIsNewer DEF WritersBehind, FenceStep, WsOrdered

\* Fences order the owners of every run and workspace: no generation or epoch returns,
\* every new owner has a greater one, and no write of an earlier owner is accepted after
\* a write of a later one, whatever the clocks and however long a process slept.
THEOREM FencesOrderOwners == Spec => FencesHold
<1>1. Init => WritersBehind
  <2> SUFFICES ASSUME Init, NEW q \in Runs PROVE WriterBehind(q)
    BY DEF WritersBehind
  <2>1. run[q].epoch = 1 /\ run[q].gen = 0 /\ writer[q].epoch = 0 /\ writer[q].gen = 0
    BY DEF Init, NewRun
  <2> QED
    BY <2>1 DEF WriterBehind
<1>2. Spec => []WritersBehind
  BY <1>1, FencesStep, TypeCorrect, LeaseAndRunAgree, RowsAlwaysSound, PTL DEF Spec
<1>3. Spec => [][FenceStep]_vars
  BY <1>2, FencesStep, TypeCorrect, LeaseAndRunAgree, RowsAlwaysSound, PTL DEF Spec
<1> QED
  BY <1>3, PTL DEF FencesHold, FenceStep

-----------------------------------------------------------------------------
(****************************** Sandbox admission **************************)

\* Lease objects in memory, however old: none is ahead of its run, and one generation of
\* a run has one token.
HeldOrdered ==
    /\ \A l \in held : l.gen <= run[l.run].gen
    /\ \A l, m \in held : l.run = m.run /\ l.gen = m.gen => l.token = m.token

\* Steps that hand out no new lease: every lease object held afterwards agrees with one
\* held before.
LEMMA HeldKept ==
    ASSUME TypeOK, TypeOK', HeldOrdered,
           \A q \in Runs : run'[q].gen >= run[q].gen,
           \A l \in held' : \E k \in held : l.run = k.run /\ l.gen = k.gen /\ l.token = k.token
    PROVE  HeldOrdered'
<1>1. ASSUME NEW l \in held' PROVE l.gen <= run'[l.run].gen
  <2> PICK k \in held : l.run = k.run /\ l.gen = k.gen /\ l.token = k.token
    BY <1>1
  <2>1. k.run \in Runs /\ k.gen \in Int /\ run[k.run].gen \in Int /\ run'[k.run].gen \in Int
    BY DEF TypeOK, RunLease, RunRow
  <2>2. k.gen <= run[k.run].gen /\ run'[k.run].gen >= run[k.run].gen
    BY <2>1 DEF HeldOrdered
  <2> QED
    BY <2>1, <2>2
<1>2. ASSUME NEW l \in held', NEW m \in held', l.run = m.run, l.gen = m.gen
      PROVE  l.token = m.token
  BY <1>2 DEF HeldOrdered
<1> QED
  BY <1>1, <1>2 DEF HeldOrdered

LEMMA ClaimHeld ==
    ASSUME TypeOK, HeldOrdered, NEW w \in Workers, NEW r \in Runs, Claim(w, r)
    PROVE  HeldOrdered'
<1> DEFINE new == [run |-> r, worker |-> w, token |-> tokens + 1, gen |-> run[r].gen + 1,
                   epoch |-> run[r].epoch, asked |-> FALSE]
<1>1. held' = held \cup {new}
  BY DEF Claim
<1>2. new.run = r /\ new.gen = run[r].gen + 1
  OBVIOUS
<1> HIDE DEF new
<1>3. \A q \in Runs : run[q].gen \in Int
  BY DEF TypeOK, RunRow
<1>4. \A q \in Runs : run'[q].gen = IF q = r THEN run[r].gen + 1 ELSE run[q].gen
  BY DEF Claim, TypeOK
<1>5. \A l \in held : l.run \in Runs /\ l.gen \in Int /\ l.gen <= run[l.run].gen
  BY DEF TypeOK, RunLease, HeldOrdered
<1>6. \A l \in held' : l.gen <= run'[l.run].gen
  BY <1>1, <1>2, <1>3, <1>4, <1>5
<1>7. \A l \in held : l.run = r => l.gen # new.gen
  BY <1>2, <1>3, <1>5
<1>8. \A l, m \in held' : l.run = m.run /\ l.gen = m.gen => l.token = m.token
  BY <1>1, <1>2, <1>7 DEF HeldOrdered
<1> QED
  BY <1>6, <1>8 DEF HeldOrdered

LEMMA HeldStep ==
    TypeOK /\ LeaseMirrorsRun /\ RowsSound /\ HeldOrdered /\ [Next]_vars => HeldOrdered'
<1> SUFFICES ASSUME TypeOK, LeaseMirrorsRun, RowsSound, HeldOrdered, [Next]_vars
             PROVE  HeldOrdered'
  OBVIOUS
<1>1. TypeOK'
  BY TypeStep
<1>2. \A q \in Runs : run'[q].gen >= run[q].gen
  BY EveryRow, CountersGrow DEF RowsSound
<1>3. CASE \E w \in Workers, r \in Runs : Claim(w, r)
  BY <1>3, ClaimHeld
<1>4. CASE \E l \in held, a \in Approvals : CreateApproval(l, a)
  <2> PICK l \in held, a \in Approvals : CreateApproval(l, a)
    BY <1>4
  <2>1. held' = (held \ {l}) \cup {[l EXCEPT !.asked = TRUE]} /\ l \in RunLease
    BY DEF CreateApproval, TypeOK
  <2>2. [l EXCEPT !.asked = TRUE].run = l.run /\ [l EXCEPT !.asked = TRUE].gen = l.gen
        /\ [l EXCEPT !.asked = TRUE].token = l.token
    BY <2>1 DEF RunLease
  <2>3. \A m \in held' : \E k \in held : m.run = k.run /\ m.gen = k.gen /\ m.token = k.token
    BY <2>1, <2>2
  <2> QED
    BY <1>1, <1>2, <2>3, HeldKept
<1>5. CASE held' = held
  BY <1>1, <1>2, <1>5, HeldKept
<1> QED
  BY ZenonT(60), <1>3, <1>4, <1>5
     DEF Next, vars, Create, RequestCancel, Rewind, Decide, RegisterWorker, HeartbeatWorker,
         SetWorkerDraining, Start, Heartbeat, FencedWrite, WorkspaceAcquire, Finish,
         WorkspaceHeartbeat, WorkspaceRelease, RecoverExpired, Tick

LEMMA OneSandbox ==
    ASSUME TypeOK, LeaseMirrorsRun, HeldOrdered
    PROVE  ExclusiveSandbox
<1> SUFFICES ASSUME NEW l \in held, NEW m \in held, WorkspaceOf[l.run] = WorkspaceOf[m.run],
                    l.token # m.token, NEW h \in Hosts, SandboxAuthorized(l, Offset[h])
             PROVE  /\ \A g \in Hosts : ~SandboxAuthorized(m, Offset[g])
                    /\ l.run = m.run => m.gen < l.gen
  BY DEF ExclusiveSandbox
<1>1. \A g \in Hosts : ~SandboxAuthorized(m, Offset[g])
  BY DEF SandboxAuthorized
<1>2. ASSUME l.run = m.run PROVE m.gen < l.gen
  <2>1. l.run \in Runs /\ l.gen \in Int /\ m.gen \in Int
    BY DEF TypeOK, RunLease
  <2>2. run[l.run].gen = l.gen
    BY <2>1 DEF SandboxAuthorized, MatchingRunLease, LeaseMirrorsRun
  <2>3. m.gen <= run[m.run].gen /\ m.gen # l.gen
    BY <1>2 DEF HeldOrdered
  <2> QED
    BY <1>2, <2>1, <2>2, <2>3
<1> QED
  BY <1>1, <1>2

\* Sandbox nodes admit commands of one lease per workspace at a time, the latest of its
\* run, for any number of superseded leases in memory and any skew of the nodes' clocks.
THEOREM OneSandboxPerWorkspace == Spec => []ExclusiveSandbox
<1>1. Init => HeldOrdered
  BY DEF Init, HeldOrdered
<1>2. Spec => []HeldOrdered
  BY <1>1, HeldStep, TypeCorrect, LeaseAndRunAgree, RowsAlwaysSound, PTL DEF Spec
<1>3. TypeOK /\ LeaseMirrorsRun /\ HeldOrdered => ExclusiveSandbox
  BY OneSandbox
<1> QED
  BY <1>2, <1>3, TypeCorrect, LeaseAndRunAgree, PTL

-----------------------------------------------------------------------------
(*********************************** Slots *********************************)

\* One worker's share of SlotsNeverOversold.  The last part is the strengthening: a
\* worker that was never registered has no lease, so its first row starts from none.
SlotsSound(w) ==
    /\ 0 <= worker[w].avail
    /\ worker[w].avail + Cardinality(LeasesOf(w)) <= worker[w].total
    /\ worker[w].status = "absent" => LeasesOf(w) = {}

AllSlotsSound == \A w \in Workers : SlotsSound(w)

LEMMA LeasesFinite ==
    \A w \in Workers : IsFiniteSet(LeasesOf(w)) /\ Cardinality(LeasesOf(w)) \in Nat
<1> TAKE w \in Workers
<1>1. IsFiniteSet(LeasesOf(w))
  BY FS_Subset, FiniteTables DEF LeasesOf
<1> QED
  BY <1>1, FS_CardinalityType

LEMMA SlotsFrame ==
    ASSUME NEW w \in Workers, SlotsSound(w), worker'[w] = worker[w], LeasesOf(w)' = LeasesOf(w)
    PROVE  SlotsSound(w)'
  BY DEF SlotsSound

LEMMA RegistrySlots ==
    ASSUME TypeOK, AllSlotsSound, NEW v \in Workers, NEW n \in Nat, NEW k \in 0..n, NEW j \in Nat,
           NEW s \in {"active", "draining"},
           RegisterWorker(v, n, k) \/ HeartbeatWorker(v, j) \/ SetWorkerDraining(v, s)
    PROVE  AllSlotsSound'
<1> SUFFICES ASSUME NEW w \in Workers PROVE SlotsSound(w)'
  BY DEF AllSlotsSound
<1>1. LeasesOf(w)' = LeasesOf(w)
  BY DEF RegisterWorker, HeartbeatWorker, SetWorkerDraining, LeasesOf
<1>2. SlotsSound(w) /\ worker[w] \in WorkerRow /\ Cardinality(LeasesOf(w)) \in Nat
  BY LeasesFinite DEF AllSlotsSound, TypeOK
<1>3. CASE w # v
  <2>1. worker'[w] = worker[w]
    BY <1>3 DEF RegisterWorker, HeartbeatWorker, SetWorkerDraining, TypeOK
  <2> QED
    BY <1>1, <1>2, <2>1, SlotsFrame
<1>4. CASE w = v /\ RegisterWorker(v, n, k) /\ worker[v].status = "absent"
  <2>1. worker'[w] = [status |-> "active", total |-> n, avail |-> k]
    BY <1>4 DEF RegisterWorker, TypeOK
  <2>2. Cardinality(LeasesOf(w)) = 0
    BY <1>2, <1>4, FS_EmptySet DEF SlotsSound
  <2> QED
    BY <1>1, <2>1, <2>2 DEF SlotsSound
<1>5. CASE w = v /\ RegisterWorker(v, n, k) /\ worker[v].status # "absent"
  <2>1. /\ worker'[w] = [status |-> "active", total |-> n,
                         avail |-> Min2(k, n - Cardinality(LeasesOf(w)))]
        /\ n >= Cardinality(LeasesOf(w))
    BY <1>5 DEF RegisterWorker, TypeOK
  <2> QED
    BY <1>1, <1>2, <2>1 DEF SlotsSound, Min2
<1>6. CASE w = v /\ HeartbeatWorker(v, j)
  <2>1. /\ worker'[w] = [worker[w] EXCEPT
              !.avail = Min2(j, worker[w].total - Cardinality(LeasesOf(w)))]
        /\ worker[w].status # "absent"
    BY <1>6 DEF HeartbeatWorker, TypeOK
  <2>2. /\ worker'[w].avail = Min2(j, worker[w].total - Cardinality(LeasesOf(w)))
        /\ worker'[w].total = worker[w].total /\ worker'[w].status = worker[w].status
        /\ worker[w].total \in Int /\ worker[w].avail \in Int
    BY <1>2, <2>1 DEF WorkerRow
  <2> QED
    BY <1>1, <1>2, <2>1, <2>2 DEF SlotsSound, Min2
<1>7. CASE w = v /\ SetWorkerDraining(v, s)
  <2>1. worker'[w] = [worker[w] EXCEPT !.status = s]
    BY <1>7 DEF SetWorkerDraining, TypeOK
  <2>2. /\ worker'[w].avail = worker[w].avail /\ worker'[w].total = worker[w].total
        /\ worker'[w].status # "absent"
    BY <1>2, <2>1 DEF WorkerRow
  <2> QED
    BY <1>1, <1>2, <2>2 DEF SlotsSound
<1> QED
  BY <1>3, <1>4, <1>5, <1>6, <1>7

LEMMA ClaimSlots ==
    ASSUME TypeOK, LeaseMirrorsRun, AllSlotsSound, NEW v \in Workers, NEW r \in Runs, Claim(v, r)
    PROVE  AllSlotsSound'
<1> SUFFICES ASSUME NEW w \in Workers PROVE SlotsSound(w)'
  BY DEF AllSlotsSound
<1> DEFINE row == [worker |-> v, token |-> tokens + 1, gen |-> run[r].gen + 1,
                   expiry |-> Offset[v] + LeaseTtl]
<1>1. lease[r] = None
  BY DEF Claim, LeaseMirrorsRun, Assigned
<1>2. lease' = [lease EXCEPT ![r] = row]
  BY DEF Claim
<1>3. row # None /\ row.worker = v
  <2>1. row \in LeaseRow
    BY WorkerOffsets DEF TypeOK, LeaseRow, RunRow
  <2> QED
    BY <2>1, NoneIsNoRow
<1> HIDE DEF row
<1>4. \A q \in Runs : lease'[q] = IF q = r THEN row ELSE lease[q]
  BY <1>2 DEF TypeOK
<1>5. SlotsSound(w) /\ worker[w] \in WorkerRow
  BY DEF AllSlotsSound, TypeOK
<1>6. CASE w # v
  <2>1. worker'[w] = worker[w]
    BY <1>6 DEF Claim, TypeOK
  <2>2. LeasesOf(w)' = LeasesOf(w)
    BY <1>1, <1>3, <1>4, <1>6 DEF LeasesOf
  <2> QED
    BY <1>5, <2>1, <2>2, SlotsFrame
<1>7. CASE w = v
  <2>1. LeasesOf(w)' = LeasesOf(w) \cup {r} /\ r \notin LeasesOf(w)
    BY <1>1, <1>3, <1>4, <1>7 DEF LeasesOf
  <2>2. Cardinality(LeasesOf(w)') = Cardinality(LeasesOf(w)) + 1
    BY <2>1, LeasesFinite, FS_AddElement
  <2>3. /\ worker'[w] = [worker[w] EXCEPT !.avail = @ - 1]
        /\ worker[w].avail > 0 /\ worker[w].status = "active"
    BY <1>7 DEF Claim, TypeOK
  <2>4. /\ worker'[w].avail = worker[w].avail - 1 /\ worker'[w].total = worker[w].total
        /\ worker'[w].status = "active"
        /\ worker[w].avail \in Int /\ worker[w].total \in Int
    BY <1>5, <2>3 DEF WorkerRow
  <2>5. Cardinality(LeasesOf(w)) \in Nat
    BY LeasesFinite
  <2> QED
    BY <1>5, <2>2, <2>3, <2>4, <2>5 DEF SlotsSound
<1> QED
  BY <1>6, <1>7

LEMMA ReturnedSlots ==
    ASSUME TypeOK, AllSlotsSound, NEW L \in SUBSET {r \in Runs : lease[r] # None},
           lease' = WithoutLeases(L), worker' = WithSlotsReturned(L)
    PROVE  AllSlotsSound'
<1> SUFFICES ASSUME NEW w \in Workers PROVE SlotsSound(w)'
  BY DEF AllSlotsSound
<1> DEFINE D == {r \in L : lease[r].worker = w}
<1>1. SlotsSound(w) /\ worker[w] \in WorkerRow
  BY DEF AllSlotsSound, TypeOK
<1>2. LeasesOf(w)' = LeasesOf(w) \ D
  BY DEF LeasesOf, WithoutLeases
<1>3. D \subseteq LeasesOf(w)
  BY DEF LeasesOf
<1>4. worker'[w] = [worker[w] EXCEPT !.avail = Min2(worker[w].total, @ + Cardinality(D))]
  BY DEF WithSlotsReturned
<1> HIDE DEF D
<1>5. LeasesOf(w) \cap D = D
  BY <1>3
<1>6. Cardinality(LeasesOf(w)') = Cardinality(LeasesOf(w)) - Cardinality(D)
  BY <1>2, <1>5, LeasesFinite, FS_Difference
<1>7. /\ Cardinality(D) \in Nat /\ Cardinality(LeasesOf(w)) \in Nat
      /\ Cardinality(D) <= Cardinality(LeasesOf(w))
  BY <1>3, LeasesFinite, FS_Subset, FS_CardinalityType
<1>8. /\ worker'[w].avail = Min2(worker[w].total, worker[w].avail + Cardinality(D))
      /\ worker'[w].total = worker[w].total /\ worker'[w].status = worker[w].status
      /\ worker[w].avail \in Int /\ worker[w].total \in Int
  BY <1>1, <1>4 DEF WorkerRow
<1>9. worker[w].status = "absent" => LeasesOf(w)' = {}
  BY <1>1, <1>2 DEF SlotsSound
<1> QED
  BY <1>1, <1>6, <1>7, <1>8, <1>9 DEF SlotsSound, Min2

\* Renewals and ticks keep every lease with its worker.
LEMMA SameOwnersSlots ==
    ASSUME AllSlotsSound, worker' = worker,
           \A q \in Runs : /\ (lease'[q] = None) <=> (lease[q] = None)
                           /\ lease[q] # None => lease'[q].worker = lease[q].worker
    PROVE  AllSlotsSound'
<1> SUFFICES ASSUME NEW w \in Workers PROVE SlotsSound(w)'
  BY DEF AllSlotsSound
<1>1. LeasesOf(w)' = LeasesOf(w)
  BY DEF LeasesOf
<1> QED
  BY <1>1, SlotsFrame DEF AllSlotsSound

LEMMA SlotsStep ==
    TypeOK /\ LeaseMirrorsRun /\ AllSlotsSound /\ [Next]_vars => AllSlotsSound'
<1> SUFFICES ASSUME TypeOK, LeaseMirrorsRun, AllSlotsSound, [Next]_vars
             PROVE  AllSlotsSound'
  OBVIOUS
<1>1. CASE \/ \E w \in Workers, n \in 1..MaxSlots : \E k \in 0..n : RegisterWorker(w, n, k)
           \/ \E w \in Workers, k \in 0..MaxSlots : HeartbeatWorker(w, k)
           \/ \E w \in Workers, s \in {"active", "draining"} : SetWorkerDraining(w, s)
  <2>1. 0 \in Nat /\ 0 \in 0..0 /\ "active" \in {"active", "draining"}
    OBVIOUS
  <2>2. CASE \E w \in Workers, n \in 1..MaxSlots : \E k \in 0..n : RegisterWorker(w, n, k)
    <3> PICK w \in Workers, n \in 1..MaxSlots : \E k \in 0..n : RegisterWorker(w, n, k)
      BY <2>2
    <3> PICK k \in 0..n : RegisterWorker(w, n, k)
      OBVIOUS
    <3>1. n \in Nat
      BY LimitType
    <3> QED
      BY <2>1, <3>1, RegistrySlots
  <2>3. CASE \E w \in Workers, k \in 0..MaxSlots : HeartbeatWorker(w, k)
    <3> PICK w \in Workers, j \in 0..MaxSlots : HeartbeatWorker(w, j)
      BY <2>3
    <3>1. j \in Nat
      BY LimitType
    <3> QED
      BY <2>1, <3>1, RegistrySlots
  <2>4. CASE \E w \in Workers, s \in {"active", "draining"} : SetWorkerDraining(w, s)
    BY <2>1, <2>4, RegistrySlots
  <2> QED
    BY <1>1, <2>2, <2>3, <2>4
<1>2. CASE \E w \in Workers, r \in Runs : Claim(w, r)
  BY <1>2, ClaimSlots
<1>3. CASE \E l \in held, s \in ResultStatus : Finish(l, s)
  <2> PICK l \in held, s \in ResultStatus : Finish(l, s)
    BY <1>3
  <2>1. {l.run} \in SUBSET {r \in Runs : lease[r] # None}
    BY DEF TypeOK, RunLease, Finish, LockedLeaseState, MatchingRunLease
  <2> QED
    BY <2>1, ReturnedSlots DEF Finish
<1>4. CASE \E S \in SUBSET RetryReady, L \in SUBSET ExpiredLeases : RecoverExpired(S, L)
  <2> PICK S \in SUBSET RetryReady, L \in SUBSET ExpiredLeases : RecoverExpired(S, L)
    BY <1>4
  <2>1. L \in SUBSET {r \in Runs : lease[r] # None}
    BY DEF ExpiredLeases
  <2> QED
    BY <2>1, ReturnedSlots DEF RecoverExpired
<1>5. CASE \E l \in held : Heartbeat(l)
  <2> PICK l \in held : Heartbeat(l)
    BY <1>5
  <2>1. l.run \in Runs /\ lease[l.run] \in LeaseRow /\ l.worker \in Workers
    BY DEF TypeOK, RunLease, Heartbeat, LockedLeaseState, MatchingRunLease
  <2>2. lease' = [lease EXCEPT ![l.run].expiry = Offset[l.worker] + LeaseTtl]
    BY DEF Heartbeat
  <2>3. [lease[l.run] EXCEPT !.expiry = Offset[l.worker] + LeaseTtl] \in LeaseRow
    BY <2>1, WorkerOffsets DEF LeaseRow
  <2>4. \A q \in Runs : /\ (lease'[q] = None) <=> (lease[q] = None)
                        /\ lease[q] # None => lease'[q].worker = lease[q].worker
    BY <2>1, <2>2, <2>3, NoneIsNoRow DEF TypeOK, LeaseRow
  <2> QED
    BY <2>4, SameOwnersSlots DEF Heartbeat
<1>6. CASE Tick
  <2>1. \A q \in Runs : /\ (lease'[q] = None) <=> (lease[q] = None)
                        /\ lease[q] # None => lease'[q].worker = lease[q].worker
    <3> TAKE q \in Runs
    <3>1. CASE lease[q] # None
      <4>1. lease[q] \in LeaseRow /\ lease'[q] = [lease[q] EXCEPT !.expiry = Sooner(@)]
        BY <1>6, <3>1 DEF Tick, TypeOK
      <4>2. lease'[q] \in LeaseRow /\ lease'[q].worker = lease[q].worker
        BY <4>1, SoonerInt DEF LeaseRow
      <4> QED
        BY <3>1, <4>2, NoneIsNoRow
    <3>2. CASE lease[q] = None
      BY <1>6, <3>2 DEF Tick
    <3> QED
      BY <3>1, <3>2
  <2> QED
    BY <1>6, <2>1, SameOwnersSlots DEF Tick
<1>7. CASE worker' = worker /\ lease' = lease
  BY <1>7, SameOwnersSlots
<1> QED
  BY ZenonT(60), <1>1, <1>2, <1>3, <1>4, <1>5, <1>6, <1>7
     DEF Next, vars, Create, RequestCancel, Rewind, Decide, Start, FencedWrite, CreateApproval,
         WorkspaceAcquire, WorkspaceHeartbeat, WorkspaceRelease

\* Claims, finishes, restarts, late heartbeats and recoveries never promise more of a
\* worker than its registered slots, for any number of runs and workers.
THEOREM SlotsHold == Spec => []SlotsNeverOversold
<1>1. Init => AllSlotsSound
  <2> SUFFICES ASSUME Init, NEW w \in Workers PROVE SlotsSound(w)
    BY DEF AllSlotsSound
  <2>1. LeasesOf(w) = {} /\ worker[w] = [status |-> "absent", total |-> 0, avail |-> 0]
    BY DEF Init, LeasesOf
  <2> QED
    BY <2>1, FS_EmptySet DEF SlotsSound
<1>2. Spec => []AllSlotsSound
  BY <1>1, SlotsStep, TypeCorrect, LeaseAndRunAgree, PTL DEF Spec
<1>3. AllSlotsSound => SlotsNeverOversold
  BY DEF AllSlotsSound, SlotsSound, SlotsNeverOversold
<1> QED
  BY <1>2, <1>3, PTL
=============================================================================
