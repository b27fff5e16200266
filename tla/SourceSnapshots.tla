-------------------------- MODULE SourceSnapshots ---------------------------
(***************************************************************************)
(* The source of a workspace: snapshots that clients upload and finalize,  *)
(* the jobs that validate them under leases, and the head of the           *)
(* workspace, which only a validated snapshot becomes.                     *)
(*                                                                         *)
(* Each database transaction is one step.  A lease is its generation.  A   *)
(* validator compares the expiry with a clock it read before, so an        *)
(* expired lease that nobody took over may pass or not.                    *)
(***************************************************************************)
EXTENDS Integers, FiniteSets

CONSTANTS
  Snapshots,   \* source_snapshots of one workspace
  Contents,    \* archives of one size
  Sound,       \* those of them that _validate_archive accepts
  Validators,  \* scheduler processes
  MaxAttempts, \* MAX_SNAPSHOT_VALIDATION_ATTEMPTS
  MaxFaults    \* bound: attempts lost to dying or slow validators and to the storage

VARIABLES
  object,    \* the object store, by snapshot
  snapshot,  \* source_snapshots: status and expected_sha256
  validation,\* snapshot_validation_jobs
  workspace, \* current_snapshot_id and version
  artifacts, \* artifacts of kind source_snapshot: the snapshot of each row
  request,   \* the finalize calls under way
  validator, \* validator[v]: what process v is doing
  replaced,  \* history: the head that a snapshot replaced
  faults
vars == <<object, snapshot, validation, workspace, artifacts, request, validator, replaced, faults>>

None == "none"
NoSnapshot == [status |-> None, expected |-> None, seen |-> None]
NoValidation == [status |-> None, base |-> 0, attempt |-> 0, gen |-> 0, expired |-> FALSE]
Idle == [pc |-> "idle", snapshot |-> None, gen |-> 0]

Init ==
  /\ object = [s \in Snapshots |-> None] /\ snapshot = [s \in Snapshots |-> NoSnapshot]
  /\ validation = [s \in Snapshots |-> NoValidation]
  /\ workspace = [head |-> None, version |-> 0] /\ artifacts = [s \in Snapshots |-> 0]
  /\ request = {} /\ validator = [v \in Validators |-> Idle]
  /\ replaced = [s \in Snapshots |-> None] /\ faults = 0

----------------------------------------------------------------------------
(* The endpoints *)

CreateSourceSnapshot(s) ==
  /\ snapshot[s] = NoSnapshot /\ snapshot' = [snapshot EXCEPT ![s].status = "pending"]
  /\ UNCHANGED <<object, validation, workspace, artifacts, request, validator, replaced, faults>>

\* If-None-Match: a key is written once.
Put(s) == snapshot[s].status # None /\ object[s] = None

Upload(s, content) ==
  /\ Put(s) /\ object' = [object EXCEPT ![s] = content]
  /\ UNCHANGED <<snapshot, validation, workspace, artifacts, request, validator, replaced, faults>>

\* The status and the size of the object are looked at before the transaction; the checksum is the client's.
FinalizeRead(s, content) ==
  /\ snapshot[s].status = "pending" /\ object[s] # None
  /\ request' = request \union {[snapshot |-> s, expected |-> content]}
  /\ UNCHANGED <<object, snapshot, validation, workspace, artifacts, validator, replaced, faults>>

\* The version the completion will insist on.
Base == workspace.version

BeginValidation(q) ==
  /\ request' = request \ {q}
  /\ IF snapshot[q.snapshot].status = "pending"
       THEN /\ snapshot' = [snapshot EXCEPT ![q.snapshot] =
                              [status |-> "validating", expected |-> q.expected, seen |-> workspace.head]]
            /\ validation' = [validation EXCEPT ![q.snapshot] =
                                [NoValidation EXCEPT !.status = "pending", !.base = Base, !.attempt = 1]]
       ELSE UNCHANGED <<snapshot, validation>>
  /\ UNCHANGED <<object, workspace, artifacts, validator, replaced, faults>>

----------------------------------------------------------------------------
(* The validators *)

\* Pending, or running with a lease that ran out, and not at the last attempt already.
Claimable(s) ==
  /\ validation[s].status = "pending" \/ validation[s].expired
  /\ validation[s].gen = 0 \/ validation[s].attempt < MaxAttempts

ClaimValidationJob(v, s) ==
  /\ validator[v] = Idle /\ Claimable(s)
  /\ validation' = [validation EXCEPT ![s] =
       [validation[s] EXCEPT !.status = "running", !.attempt = IF validation[s].gen > 0 THEN @ + 1 ELSE @,
                             !.gen = @ + 1, !.expired = FALSE]]
  /\ validator' = [validator EXCEPT ![v] = [pc |-> "validate", snapshot |-> s, gen |-> validation[s].gen + 1]]
  /\ UNCHANGED <<object, snapshot, workspace, artifacts, request, replaced, faults>>

Of(v) == validator[v].snapshot

\* The downloaded bytes have the checksum of the finalization.
Intact(v) == object[Of(v)] = snapshot[Of(v)].expected

\* Paths, links, sizes and contents of the archive's entries are in order.
WellFormed(content) == content \in Sound

Accepted(v) == Intact(v) /\ WellFormed(object[Of(v)])

\* The storage or something unexpected fails: this is tried again, except at the last attempt.
\* (The attempt of a lease is its generation.)
Retries(v) == faults < MaxFaults /\ validator[v].gen < MaxAttempts

\* A timeout or a refused archive is a verdict.
Validate(v) ==
  /\ validator[v].pc = "validate"
  /\ \E next \in {"reject"} \union (IF Accepted(v) THEN {"complete"} ELSE {})
                            \union (IF Retries(v) THEN {"release"} ELSE {}) :
       /\ validator' = [validator EXCEPT ![v].pc = next]
       /\ faults' = IF next = "release" THEN faults + 1 ELSE faults
  /\ UNCHANGED <<object, snapshot, validation, workspace, artifacts, request, replaced>>

\* The exact lease, and a snapshot that is still being validated.
Leased(v) ==
  /\ snapshot[Of(v)].status = "validating"
  /\ validation[Of(v)].status = "running" /\ validation[Of(v)].gen = validator[v].gen

MutNotMoved(v) == TRUE
NotMoved(v) == validation[Of(v)].base = workspace.version

\* The new head of the workspace.
Promoted(v) == [head |-> Of(v), version |-> workspace.version + 1]

Refused(v) == ~Leased(v) \/ validation[Of(v)].expired

Finished(s, status) == [validation EXCEPT ![s].status = status, ![s].expired = FALSE]

\* The error of a refused transaction leaves the process' round; the lease, if it has one, must run out.
CompleteValidation(v) ==
  /\ validator[v].pc = "complete" /\ validator' = [validator EXCEPT ![v] = Idle]
  /\ \/ /\ NotMoved(v) /\ Leased(v)
        /\ snapshot' = [snapshot EXCEPT ![Of(v)].status = "ready"]
        /\ workspace' = Promoted(v)
        /\ artifacts' = [artifacts EXCEPT ![Of(v)] = @ + 1]
        /\ validation' = Finished(Of(v), "completed")
        /\ replaced' = [replaced EXCEPT ![Of(v)] = workspace.head]
     \/ /\ ~NotMoved(v) \/ Refused(v)
        /\ UNCHANGED <<snapshot, workspace, artifacts, validation, replaced>>
  /\ UNCHANGED <<object, request, faults>>

RejectValidation(v) ==
  /\ validator[v].pc = "reject" /\ validator' = [validator EXCEPT ![v] = Idle]
  /\ \/ /\ Leased(v)
        /\ snapshot' = [snapshot EXCEPT ![Of(v)].status = "rejected"]
        /\ validation' = Finished(Of(v), "failed")
     \/ Refused(v) /\ UNCHANGED <<snapshot, validation>>
  /\ UNCHANGED <<object, workspace, artifacts, request, replaced, faults>>

ReleaseValidation(v) ==
  /\ validator[v].pc = "release" /\ validator' = [validator EXCEPT ![v] = Idle]
  /\ \/ Leased(v) /\ validation' = Finished(Of(v), "pending")
     \/ Refused(v) /\ UNCHANGED validation
  /\ UNCHANGED <<object, snapshot, workspace, artifacts, request, replaced, faults>>

AtWork(s) == \E v \in Validators : Of(v) = s /\ validator[v].gen = validation[s].gen

\* A lease runs out; under a validator that is at work this is a fault.
Expire(s) ==
  /\ validation[s].status = "running" /\ ~validation[s].expired
  /\ AtWork(s) => faults < MaxFaults
  /\ faults' = IF AtWork(s) THEN faults + 1 ELSE faults
  /\ validation' = [validation EXCEPT ![s].expired = TRUE]
  /\ UNCHANGED <<object, snapshot, workspace, artifacts, request, validator, replaced>>

Crash(v) ==
  /\ validator[v] # Idle /\ faults < MaxFaults /\ faults' = faults + 1
  /\ validator' = [validator EXCEPT ![v] = Idle]
  /\ UNCHANGED <<object, snapshot, validation, workspace, artifacts, request, replaced>>

----------------------------------------------------------------------------
Progress ==
  \/ \E v \in Validators : \/ \E s \in Snapshots : ClaimValidationJob(v, s)
                           \/ Validate(v) \/ CompleteValidation(v) \/ RejectValidation(v) \/ ReleaseValidation(v)
  \/ \E s \in Snapshots : Expire(s)

Next ==
  \/ Progress
  \/ \E s \in Snapshots : \/ CreateSourceSnapshot(s)
                          \/ \E content \in Contents : Upload(s, content) \/ FinalizeRead(s, content)
  \/ \E q \in request : BeginValidation(q)
  \/ \E v \in Validators : Crash(v)

\* The scheduler keeps polling, and leases run out.
Spec == Init /\ [][Next]_vars /\ WF_vars(Progress)

----------------------------------------------------------------------------
(* Properties *)

\* Every row is well formed and no job is leased more often than MAX_SNAPSHOT_VALIDATION_ATTEMPTS allows
\* (claim_validation_job).
SnapshotTypeOK ==
  \A s \in Snapshots :
    /\ object[s] \in Contents \union {None}
    /\ snapshot[s].status \in {None, "pending", "validating", "ready", "rejected"}
    /\ validation[s].status \in {None, "pending", "running", "completed", "failed"}
    /\ validation[s].attempt \in 0 .. MaxAttempts /\ validation[s].gen \in 0 .. MaxAttempts

\* The head of the workspace, and every snapshot that ever was, is an archive that passed the validation and
\* still has the checksum the client finalized, although uploads and finalizations race (complete_validation).
HeadIsWhatWasValidated ==
  /\ \A s \in Snapshots : snapshot[s].status = "ready" => object[s] = snapshot[s].expected /\ object[s] \in Sound
  /\ workspace.head = None \/ snapshot[workspace.head].status = "ready"

\* A snapshot takes the place of the head that was there when it was finalized: of two that were finalized
\* side by side one does not silently replace the other (begin_validation, complete_validation).
NoLostHead == \A s \in Snapshots : snapshot[s].status = "ready" => replaced[s] = snapshot[s].seen

\* A ready snapshot has one artifact row and one version of the workspace, another has none, although an
\* overtaken validator still reports its verdict (complete_validation).
OneArtifactPerSnapshot ==
  /\ \A s \in Snapshots : artifacts[s] = IF snapshot[s].status = "ready" THEN 1 ELSE 0
  /\ workspace.version = Cardinality({s \in Snapshots : snapshot[s].status = "ready"})

\* A verdict is final: a ready or rejected snapshot stays so, and so does its job (reject_validation,
\* release_validation, begin_validation).
VerdictsAreFinal ==
  \A s \in Snapshots : snapshot[s].status \in {"ready", "rejected"} =>
    snapshot'[s] = snapshot[s] /\ validation'[s] = validation[s]

\* Each finalized snapshot gets its verdict, or the workspace has moved on since: fewer lost attempts than
\* there are do not stop it (claim_validation_job, run_once).
ValidationsEnd ==
  []<>(\A s \in Snapshots : snapshot[s].status = "validating" => validation[s].base # workspace.version)

\* The head of a workspace is what was validated, replaced what its client saw and is recorded once.
HeadsAreSound == SnapshotTypeOK /\ HeadIsWhatWasValidated /\ NoLostHead /\ OneArtifactPerSnapshot
=============================================================================
