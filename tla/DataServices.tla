--------------------------- MODULE DataServices -----------------------------
(***************************************************************************)
(* The services on a tenant's data: validation of source snapshots,        *)
(* deletion and audit exports.  They share no state, so a behaviour is one *)
(* of a single service, which the initial state picks, and the others      *)
(* rest.                                                                   *)
(***************************************************************************)
EXTENDS Integers, FiniteSets

CONSTANTS
  Snapshots, Contents, Sound, Validators, SnapshotAttempts, MaxFaults,  \* see SourceSnapshots
  Patches, Sources, Cleaners, LifecycleAttempts, MaxHolds,              \* see DataLifecycle
  Times, Exporters, MaxRecords                                          \* see AuditExports

\* "none" stands for no archive, a lease has at least one attempt, and times are positive.
ASSUME ServicesType ==
  /\ IsFiniteSet(Snapshots) /\ "none" \notin Contents /\ SnapshotAttempts \in Nat \ {0} /\ MaxFaults \in Nat
  /\ Patches \intersect Sources = {} /\ LifecycleAttempts \in Nat /\ MaxHolds \in Nat
  /\ Times \subseteq Nat \ {0} /\ MaxRecords \in Nat

VARIABLES
  part,
  object, snapshot, validation, workspace, artifacts, request, validator, replaced, faults,
  status, exported, runs, admitted, space, held, holds, rows, stored, loose, outbox, scan, cleaner,
  clock, log, export, file, exporter, before

validationVars == <<object, snapshot, validation, workspace, artifacts, request, validator, replaced, faults>>
lifecycleVars == <<status, exported, runs, admitted, space, held, holds, rows, stored, loose, outbox, scan, cleaner>>
auditVars == <<clock, log, export, file, exporter, before>>
vars == <<part, validationVars, lifecycleVars, auditVars>>

Validation == INSTANCE SourceSnapshots WITH MaxAttempts <- SnapshotAttempts

Lifecycle == INSTANCE DataLifecycle WITH MaxAttempts <- LifecycleAttempts

Audit == INSTANCE AuditExports

Init ==
  /\ part \in {"validation", "lifecycle", "audit"}
  /\ Validation!Init /\ Lifecycle!Init /\ Audit!Init

InValidation(A) == part = "validation" /\ A /\ UNCHANGED <<part, lifecycleVars, auditVars>>
InLifecycle(A) == part = "lifecycle" /\ A /\ UNCHANGED <<part, validationVars, auditVars>>
InAudit(A) == part = "audit" /\ A /\ UNCHANGED <<part, validationVars, lifecycleVars>>

Next == InValidation(Validation!Next) \/ InLifecycle(Lifecycle!Next) \/ InAudit(Audit!Next)

\* Each service is as fair as its own specification says.
Spec ==
  /\ Init /\ [][Next]_vars
  /\ WF_vars(InValidation(Validation!Progress)) /\ WF_vars(InLifecycle(Lifecycle!Progress))

----------------------------------------------------------------------------
(* The properties of the services *)

\* Only what passed the validation under the finalized checksum becomes the head of a workspace, in place of
\* the head its client saw, with one artifact and one version (begin_validation, complete_validation).
HeadsAreSound == Validation!HeadsAreSound

\* No lease to delete is current under a legal hold, a row goes after its object, and of a deleted tenant nothing
\* is left but what was uploaded late or never recorded, and an empty workspace or session that was created late
\* (claim_object_deletions, complete_object_deletion, finalize_tenant_deletion).
DeletionIsClean == Lifecycle!DeletionIsClean

\* A completed audit export records what the store holds and misses no entry that was committed when it began
\* (complete_audit_export).
ExportIsEvidence == Audit!ExportIsEvidence

\* Outcomes are final, whatever workers that were overtaken report late: of the validation of snapshots,
\* of deletions and of audit exports.
VerdictsStand ==
  [][/\ Validation!VerdictsAreFinal
     /\ Lifecycle!DeletionOutcomesAreFinal
     /\ Audit!ExportOutcomeIsFinal]_vars

\* The services get their work done although their workers die: snapshots get their verdict or the workspace
\* has moved on, and objects are deleted unless a hold stands against it.
ServicesFinish == Validation!ValidationsEnd /\ Lifecycle!DeletionsEnd
=============================================================================
