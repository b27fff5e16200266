--------------------------- MODULE DataLifecycle ----------------------------
(***************************************************************************)
(* Deletion of the data of one tenant: legal holds, the retention scan,    *)
(* the stages of tenant deletion, and the outbox of object deletions that  *)
(* workers claim in batches under leases.                                  *)
(*                                                                         *)
(* A transaction is one step, except where it reads before it has the      *)
(* tenant lock: the retention scan and the claim select rows first and     *)
(* look at holds and at the tenant again when they have the lock.          *)
(*                                                                         *)
(* An object and its row are written apart.  A sandbox uploads the final   *)
(* patch before its worker writes the row, and may go on uploading when    *)
(* the run is no longer its own.  A client uploads a snapshot after the    *)
(* row was written, with a URL that nothing revokes: the time it is good   *)
(* for is left out, as it may be longer than a deletion takes.             *)
(***************************************************************************)
EXTENDS Integers, FiniteSets

CONSTANTS
  Patches,     \* final patches, a retention-safe kind; one expires if an operator gave its row a time
  Sources,     \* source snapshots, which do not
  Cleaners,    \* object deletion workers
  MaxAttempts, \* MAX_LIFECYCLE_ATTEMPTS
  MaxHolds     \* bound: legal holds that are placed

VARIABLES
  status,   \* tenant_lifecycles.status, "active" also stands for no row
  exported, \* there is a completed audit export at the cutoff of the request
  runs,     \* by the patch that each may leave: "none" yet, "running" or "ended", that is terminal
  admitted, \* an API operation passed require_active and has not written yet
  space,    \* the tenant has a workspace, or a session of one
  held,     \* a legal hold is active
  holds,    \* how many have been placed
  rows,     \* artifacts and source_snapshots, by object
  stored,   \* the object store
  loose,    \* history: objects put there when they had no row, or when their deletion had been asked for
  outbox,   \* object_deletion_jobs, by object
  scan,     \* what the retention scan has selected
  cleaner   \* cleaner[c]: the batch of a worker
vars ==
  <<status, exported, runs, admitted, space, held, holds, rows, stored, loose, outbox, scan, cleaner>>

Objects == Patches \union Sources
NoEntry == [status |-> "none", reason |-> "none", attempt |-> 0, gen |-> 0, expired |-> FALSE]
Resting == [pc |-> "idle", batch |-> {}, object |-> <<>>]

Init ==
  /\ status = "active" /\ exported = FALSE /\ runs = [o \in Patches |-> "none"] /\ admitted = FALSE /\ space = FALSE
  /\ held = FALSE /\ holds = 0 /\ rows = {} /\ stored = {} /\ loose = {}
  /\ outbox = [o \in Objects |-> NoEntry] /\ scan = {} /\ cleaner = [c \in Cleaners |-> Resting]

Running == \E o \in Patches : runs[o] = "running"
Unqueued == {o \in rows : outbox[o] = NoEntry}
\* There is one job for an object, whoever asks for it.
Queued(some, reason) ==
  [o \in Objects |-> IF o \in some /\ outbox[o] = NoEntry
                       THEN [NoEntry EXCEPT !.status = "pending", !.reason = reason] ELSE outbox[o]]

----------------------------------------------------------------------------
(* The application *)

\* The API asks once, before the operation.
Admit ==
  /\ status = "active" /\ ~admitted /\ admitted' = TRUE
  /\ UNCHANGED <<status, exported, runs, space, held, holds, rows, stored, loose, outbox, scan,
                 cleaner>>

\* A workspace or a session, whose rows refer to no other.
CreateWorkspace == space' = TRUE /\ UNCHANGED <<runs, rows>>

SubmitRun ==
  /\ space /\ \E o \in Patches : runs[o] = "none" /\ runs' = [runs EXCEPT ![o] = "running"]
  /\ UNCHANGED <<space, rows>>

\* The row leads to an object that is to be uploaded.
CreateSourceSnapshot ==
  /\ space /\ \E o \in Sources \ rows : outbox[o] = NoEntry /\ rows' = rows \union {o}
  /\ UNCHANGED <<space, runs>>

\* The operation is done, or refused.
Perform ==
  /\ admitted /\ admitted' = FALSE
  /\ CreateWorkspace \/ SubmitRun \/ CreateSourceSnapshot \/ UNCHANGED <<space, runs, rows>>
  /\ UNCHANGED <<status, exported, held, holds, stored, loose, outbox, scan, cleaner>>

\* If-None-Match: the store takes an object under a key that is free, also one whose object was deleted.
Put(o) ==
  /\ o \notin stored /\ stored' = stored \union {o}
  /\ loose' = IF o \in Unqueued THEN loose ELSE loose \union {o}

\* The client uploads with the URL it got for its snapshot, again when the object is gone.
Upload(o) ==
  /\ o \in rows \/ outbox[o] # NoEntry
  /\ Put(o)
  /\ UNCHANGED <<status, exported, runs, admitted, space, held, holds, rows, outbox, scan, cleaner>>

\* A sandbox uploads the patch of a run; that of a later attempt finds it there.  A sandbox whose worker has lost
\* the run goes on with it, also when the run has ended.
UploadPatch(o) ==
  /\ runs[o] # "none"
  /\ Put(o)
  /\ UNCHANGED <<status, exported, runs, admitted, space, held, holds, rows, outbox, scan, cleaner>>

\* The attempt has uploaded the patch, which may have been deleted since.  It writes the row under the lease of
\* the run; one that is there already stays.
CreateArtifact(o) ==
  /\ runs[o] = "running" /\ (o \in stored \/ outbox[o] # NoEntry)
  /\ rows' = rows \union {o}
  /\ loose' = IF outbox[o] = NoEntry THEN loose \ {o} ELSE loose
  /\ UNCHANGED <<status, exported, runs, admitted, space, held, holds, stored, outbox, scan, cleaner>>

\* The run is terminal: completed when its patch has been recorded, and otherwise failed, cancelled or given up.
EndRun(o) ==
  /\ runs[o] = "running" /\ runs' = [runs EXCEPT ![o] = "ended"]
  /\ UNCHANGED <<status, exported, admitted, space, held, holds, rows, stored, loose, outbox, scan, cleaner>>

----------------------------------------------------------------------------
(* The administration *)

\* Under the tenant lock: no deletion is leased, and the tenant is not deleted.
MayHold == status # "deleted" /\ \A o \in Objects : outbox[o].status # "running"

PlaceLegalHold ==
  /\ ~held /\ holds < MaxHolds /\ MayHold /\ held' = TRUE /\ holds' = holds + 1
  /\ UNCHANGED <<status, exported, runs, admitted, space, rows, stored, loose, outbox, scan, cleaner>>

\* It is released, or its time is over.
ReleaseLegalHold ==
  /\ held /\ held' = FALSE
  /\ UNCHANGED <<status, exported, runs, admitted, space, holds, rows, stored, loose, outbox, scan, cleaner>>

ExportAudit ==
  /\ ~exported /\ exported' = TRUE
  /\ UNCHANGED <<status, runs, admitted, space, held, holds, rows, stored, loose, outbox, scan, cleaner>>

RequestTenantDeletion ==
  /\ status = "active" /\ exported /\ ~held /\ ~Running /\ status' = "requested"
  /\ UNCHANGED <<exported, runs, admitted, space, held, holds, rows, stored, loose, outbox, scan, cleaner>>

\* After the cooling-off time, and again when a batch was not enough.
BeginTenantDeletion ==
  /\ status = "requested" /\ ~held /\ ~Running /\ status' = "deleting"
  /\ UNCHANGED <<exported, runs, admitted, space, held, holds, rows, stored, loose, outbox, scan, cleaner>>

\* At most a batch, artifacts before snapshots.
EnqueueTenantObjects ==
  /\ status = "deleting" /\ ~held
  /\ \E some \in (SUBSET Unqueued) \ {{}} :
       /\ some \intersect Sources # {} => Unqueued \intersect Patches \subseteq some
       /\ outbox' = Queued(some, "tenant")
  /\ UNCHANGED <<status, exported, runs, admitted, space, held, holds, rows, stored, loose, scan, cleaner>>

MutObjectsDeleted == \A o \in Objects : outbox[o].status \in {"none", "completed"}
ObjectsDeleted == Unqueued = {} /\ \A o \in Objects : outbox[o].status \in {"none", "completed"}

\* All rows of the tenant go.
FinalizeTenantDeletion ==
  /\ status = "deleting" /\ ~held /\ ~Running /\ ObjectsDeleted
  /\ status' = "deleted" /\ rows' = {} /\ space' = FALSE
  /\ UNCHANGED <<exported, runs, admitted, held, holds, stored, loose, outbox, scan, cleaner>>

----------------------------------------------------------------------------
(* The retention scan *)

ScanExpired ==
  /\ scan = {} /\ status = "active" /\ ~held
  /\ \E some \in SUBSET (Unqueued \intersect Patches) \ {{}} : scan' = some
  /\ UNCHANGED <<status, exported, runs, admitted, space, held, holds, rows, stored, loose, outbox, cleaner>>

\* _tenant_cleanup_allowed, with the tenant lock.
CleanupAllowed == status = "active" /\ ~held

EnqueueExpired ==
  /\ scan # {} /\ scan' = {}
  /\ outbox' = IF CleanupAllowed THEN Queued(scan, "retention") ELSE outbox
  /\ UNCHANGED <<status, exported, runs, admitted, space, held, holds, rows, stored, loose, cleaner>>

----------------------------------------------------------------------------
(* The workers *)

Claiming(o) == \E c \in Cleaners : cleaner[c].pc = "claim" /\ o \in {lease[1] : lease \in cleaner[c].batch}
Retryable(o) == outbox[o].attempt < MaxAttempts

MutRecovered(o) == outbox[o]
\* A lease that ran out is pending again, or failed after the last attempt.
Recovered(o) == [outbox[o] EXCEPT !.status = IF Retryable(o) THEN "pending" ELSE "failed", !.expired = FALSE]

\* Rows are locked, those of an expired lease among them; locked rows are skipped.
SelectDeletions(c) ==
  /\ cleaner[c] = Resting /\ ~held
  /\ \E some \in SUBSET {o \in Objects : /\ outbox[o].status = "pending" \/ outbox[o].expired
                                         /\ Retryable(o) /\ ~Claiming(o)} \ {{}} :
       cleaner' = [cleaner EXCEPT ![c] = [pc |-> "claim", batch |-> {<<o, outbox[o].gen + 1>> : o \in some},
                                          object |-> <<>>]]
  /\ UNCHANGED <<status, exported, runs, admitted, space, held, holds, rows, stored, loose, outbox, scan>>

\* Every round recovers leases that ran out, those at the last attempt and those under a hold too.
RecoverExpired(c) ==
  /\ cleaner[c] = Resting
  /\ \E o \in Objects : outbox[o].expired /\ ~Claiming(o) /\ outbox' = [outbox EXCEPT ![o] = Recovered(o)]
  /\ UNCHANGED <<status, exported, runs, admitted, space, held, holds, rows, stored, loose, scan, cleaner>>

\* The hold is looked for again, with the tenant lock.
MayLease == ~held

Leased(o) == [outbox[o] EXCEPT !.status = "running", !.attempt = @ + 1, !.gen = @ + 1, !.expired = FALSE]

ClaimDeletions(c) ==
  /\ cleaner[c].pc = "claim"
  /\ LET batch == {lease[1] : lease \in cleaner[c].batch} IN
     IF MayLease
       THEN /\ outbox' = [o \in Objects |-> IF o \in batch THEN Leased(o) ELSE outbox[o]]
            /\ cleaner' = [cleaner EXCEPT ![c].pc = "delete"]
       ELSE /\ outbox' = [o \in Objects |-> IF o \in batch /\ outbox[o].expired THEN Recovered(o) ELSE outbox[o]]
            /\ cleaner' = [cleaner EXCEPT ![c] = Resting]
  /\ UNCHANGED <<status, exported, runs, admitted, space, held, holds, rows, stored, loose, scan>>

\* The next object of the batch: the store deletes it, also if it is gone already, or the call fails.  The
\* lease is not looked at before.
DeleteObject(c, lease) ==
  /\ cleaner[c].pc = "delete" /\ lease \in cleaner[c].batch
  /\ \/ /\ stored' = stored \ {lease[1]} /\ loose' = loose \ {lease[1]}
        /\ cleaner' = [cleaner EXCEPT ![c].pc = "complete", ![c].object = lease]
     \/ UNCHANGED <<stored, loose>> /\ cleaner' = [cleaner EXCEPT ![c].pc = "fail", ![c].object = lease]
  /\ UNCHANGED <<status, exported, runs, admitted, space, held, holds, rows, outbox, scan>>

MutOwns(c) == TRUE
\* The exact lease, not run out.
Owns(c) ==
  LET o == cleaner[c].object[1] IN
  outbox[o].status = "running" /\ outbox[o].gen = cleaner[c].object[2] /\ ~outbox[o].expired /\ ~Claiming(o)

\* On to the rest of the batch.
Advance(c) ==
  LET rest == cleaner[c].batch \ {cleaner[c].object} IN
  cleaner' = [cleaner EXCEPT ![c] = IF rest = {} THEN Resting ELSE [pc |-> "delete", batch |-> rest, object |-> <<>>]]

\* A refused report ends the round; the other leases of the batch must run out.
GiveUp(c) == ~Owns(c) /\ cleaner' = [cleaner EXCEPT ![c] = Resting]

\* A retention job takes the artifact row with it; that of another waits for the end of the tenant.
CompleteDeletion(c) ==
  /\ cleaner[c].pc = "complete"
  /\ \/ /\ Owns(c) /\ Advance(c)
        /\ outbox' = [outbox EXCEPT ![cleaner[c].object[1]].status = "completed"]
        /\ rows' = IF outbox[cleaner[c].object[1]].reason = "retention" THEN rows \ {cleaner[c].object[1]} ELSE rows
     \/ GiveUp(c) /\ UNCHANGED <<outbox, rows>>
  /\ UNCHANGED <<status, exported, runs, admitted, space, held, holds, stored, loose, scan>>

\* Tried again if the error allows it and attempts are left.
FailDeletion(c) ==
  /\ cleaner[c].pc = "fail"
  /\ \/ /\ Owns(c) /\ Advance(c)
        /\ \E entry \in {Recovered(cleaner[c].object[1]), [outbox[cleaner[c].object[1]] EXCEPT !.status = "failed"]} :
             outbox' = [outbox EXCEPT ![cleaner[c].object[1]] = entry]
     \/ GiveUp(c) /\ UNCHANGED outbox
  /\ UNCHANGED <<status, exported, runs, admitted, space, held, holds, rows, stored, loose, scan>>

\* (A claim that dies is rolled back, as if it had not begun.)
Crash(c) ==
  /\ cleaner[c].pc \notin {"idle", "claim"} /\ cleaner' = [cleaner EXCEPT ![c] = Resting]
  /\ UNCHANGED <<status, exported, runs, admitted, space, held, holds, rows, stored, loose, outbox, scan>>

Expire(o) ==
  /\ outbox[o].status = "running" /\ ~outbox[o].expired
  /\ outbox' = [outbox EXCEPT ![o].expired = TRUE]
  /\ UNCHANGED <<status, exported, runs, admitted, space, held, holds, rows, stored, loose, scan, cleaner>>

----------------------------------------------------------------------------
Progress ==
  \/ \E c \in Cleaners : \/ SelectDeletions(c) \/ RecoverExpired(c) \/ ClaimDeletions(c)
                         \/ \E lease \in cleaner[c].batch : DeleteObject(c, lease)
                         \/ CompleteDeletion(c) \/ FailDeletion(c)
  \/ \E o \in Objects : Expire(o)

Next ==
  \/ Progress
  \/ Admit \/ Perform
  \/ \E o \in Sources : Upload(o)
  \/ \E o \in Patches : UploadPatch(o) \/ CreateArtifact(o) \/ EndRun(o)
  \/ PlaceLegalHold \/ ReleaseLegalHold \/ ExportAudit
  \/ RequestTenantDeletion \/ BeginTenantDeletion \/ EnqueueTenantObjects \/ FinalizeTenantDeletion
  \/ ScanExpired \/ EnqueueExpired
  \/ \E c \in Cleaners : Crash(c)

\* The operators run the cleanup again and again, and leases run out.
Spec == Init /\ [][Next]_vars /\ WF_vars(Progress)

----------------------------------------------------------------------------
(* Properties *)

\* Every row is well formed, and an object is tried at most MAX_LIFECYCLE_ATTEMPTS times, however its leases
\* end (claim_object_deletions, _recover_expired_jobs).
LifecycleTypeOK ==
  /\ status \in {"active", "requested", "deleting", "deleted"} /\ rows \union stored \subseteq Objects
  /\ \A o \in Objects : /\ outbox[o].status \in {"none", "pending", "running", "completed", "failed"}
                         /\ outbox[o].attempt \in 0 .. MaxAttempts

\* Nobody has a current lease to delete an object while a legal hold is active, although the claim selects its
\* rows before it has the tenant lock: what a worker may still delete under a hold is what it was given before
\* and has lost since (claim_object_deletions, place_legal_hold, _require_no_running_deletions).
OnlyLostLeasesUnderHold ==
  held => /\ \A o \in Objects : outbox[o].status # "running"
          /\ \A c \in Cleaners : cleaner[c].pc = "delete" =>
               \A lease \in cleaner[c].batch : outbox[lease[1]].status = "running" => outbox[lease[1]].gen # lease[2]

\* The metadata goes after the object: an object in the store that had its row before its deletion was asked for
\* has a row, and its deletion is not recorded as done, also when workers are overtaken, and objects are
\* uploaded again (complete_object_deletion, finalize_tenant_deletion).  The others are those the deletion
\* cannot see: a patch that was never recorded, and what was uploaded late.
MetadataGoesLast ==
  \A o \in stored \ loose : o \in rows /\ outbox[o].status # "completed"

\* When a tenant is deleted it has no run, no snapshot, no artifact and no deletion that is still to be done, and
\* the store has nothing of it but what was uploaded late or never recorded; no operation that was admitted
\* before, and no retention scan, changes that (finalize_tenant_deletion, enqueue_expired_artifacts).  An empty
\* workspace or session that such an operation creates does stay.
DeletedTenantIsClean ==
  status = "deleted" =>
    /\ ~Running /\ rows = {} /\ stored \subseteq loose
    /\ \A o \in Objects : outbox[o].status \in {"none", "completed"}

\* The outcome of a deletion is final: a worker that was overtaken changes nothing with its late report
\* (complete_object_deletion, fail_object_deletion).
DeletionOutcomesAreFinal ==
  \A o \in Objects : outbox[o].status \in {"completed", "failed"} => outbox'[o] = outbox[o]

\* Every deletion ends unless a hold stands against it, although workers die in the middle of a batch
\* (_recover_expired_jobs, run_batch).
DeletionsEnd == []<>(held \/ \A o \in Objects : outbox[o].status \notin {"pending", "running"})

\* No lease is current under a legal hold, no object loses its row first, and nothing that the deletion can see
\* is left of a deleted tenant.
DeletionIsClean == LifecycleTypeOK /\ OnlyLostLeasesUnderHold /\ MetadataGoesLast /\ DeletedTenantIsClean
=============================================================================
