---------------------------- MODULE AuditExports ----------------------------
(***************************************************************************)
(* The audit export a tenant deletion needs: calls of export for one       *)
(* export id, made again after a failure or side by side, page through the *)
(* audit log up to a cutoff, upload the file to an immutable key and       *)
(* record what they uploaded.  Operations append to the log meanwhile, and *)
(* an entry may be committed later than the time it carries.               *)
(***************************************************************************)
EXTENDS Integers, FiniteSets

CONSTANTS
  Times,      \* 1 .. n: the times of the entries of the audit log
  Exporters,  \* calls of AuditExportService.export
  MaxRecords  \* audit_max_records

VARIABLES
  clock,     \* the time
  log,       \* audit_logs: the times of the committed entries
  export,    \* the row of audit_exports
  file,      \* the object under the key of the export, {} for none
  exporter,  \* exporter[x]: what the call is doing
  before     \* history: the log when the row was created
vars == <<clock, log, export, file, exporter, before>>

NoExport == [status |-> "none", cutoff |-> 0, evidence |-> {}]
Idle == [pc |-> "idle", cutoff |-> 0, cursor |-> 0, written |-> {}]
\* The header and the trailer, which make no file empty.
Envelope == 0

Init ==
  /\ clock = 1 /\ log = {} /\ export = NoExport /\ file = {}
  /\ exporter = [x \in Exporters |-> Idle] /\ before = {}

----------------------------------------------------------------------------
Tick ==
  /\ clock + 1 \in Times /\ clock' = clock + 1
  /\ UNCHANGED <<log, export, file, exporter, before>>

Append(t) ==
  /\ t \in Times \ log /\ t <= clock /\ log' = log \union {t}
  /\ UNCHANGED <<clock, export, file, exporter, before>>

Goes(x, to) == exporter' = [exporter EXCEPT ![x] = to]

\* A retry takes the cutoff of the row; an export that ended is not made again.
GetAuditExport(x) ==
  /\ exporter[x].pc = "idle" /\ export.status \in {"none", "pending"}
  /\ Goes(x, [Idle EXCEPT !.pc = "create", !.cutoff = IF export = NoExport THEN clock ELSE export.cutoff])
  /\ UNCHANGED <<clock, log, export, file, before>>

\* The row may have been created by another call since, with a cutoff of its own, or have ended.
CreateAuditExport(x) ==
  /\ exporter[x].pc = "create"
  /\ IF export = NoExport
       THEN /\ export' = [NoExport EXCEPT !.status = "pending", !.cutoff = exporter[x].cutoff] /\ before' = log
            /\ Goes(x, [exporter[x] EXCEPT !.pc = "page", !.written = {Envelope}])
       ELSE /\ Goes(x, IF export.status = "pending" /\ export.cutoff = exporter[x].cutoff
                         THEN [exporter[x] EXCEPT !.pc = "page", !.written = {Envelope}] ELSE Idle)
            /\ UNCHANGED <<export, before>>
  /\ UNCHANGED <<clock, log, file>>

MutPage(x) == {t \in log : t <= exporter[x].cutoff /\ t >= exporter[x].cursor + 2}
\* The entries behind the cursor, up to the cutoff.
Page(x) == {t \in log : t <= exporter[x].cutoff /\ t > exporter[x].cursor}

\* Pages of one entry, each read in a transaction of its own.
IterAuditEntries(x) ==
  /\ exporter[x].pc = "page"
  /\ IF Page(x) = {}
       THEN Goes(x, [exporter[x] EXCEPT !.pc = "upload"])
       ELSE LET t == CHOOSE t \in Page(x) : \A u \in Page(x) : t <= u IN
            Goes(x, IF Cardinality(exporter[x].written) > MaxRecords
                      THEN [exporter[x] EXCEPT !.pc = "fail"]
                      ELSE [exporter[x] EXCEPT !.cursor = t, !.written = @ \union {t}])
  /\ UNCHANGED <<clock, log, export, file, before>>

\* The key holds this very content already.
Same(x) == file = exporter[x].written

\* If-None-Match; another content under the key is an error, as is a failure of the storage, which may be retried.
UploadFromPath(x) ==
  /\ exporter[x].pc = "upload"
  /\ \/ file = {} /\ file' = exporter[x].written /\ Goes(x, [exporter[x] EXCEPT !.pc = "complete"])
     \/ /\ file # {} /\ UNCHANGED file
        /\ Goes(x, [exporter[x] EXCEPT !.pc = IF Same(x) THEN "complete" ELSE "fail"])
     \/ Goes(x, Idle) /\ UNCHANGED file
  /\ UNCHANGED <<clock, log, export, before>>

Pending == export.status = "pending"

\* A row that ended, with another completion time, is a conflict.
CompleteAuditExport(x) ==
  /\ exporter[x].pc = "complete"
  /\ IF Pending
       THEN /\ export' = [export EXCEPT !.status = "completed", !.evidence = exporter[x].written]
            /\ Goes(x, Idle)
       ELSE Goes(x, [exporter[x] EXCEPT !.pc = "fail"]) /\ UNCHANGED export
  /\ UNCHANGED <<clock, log, file, before>>

MayFail == export.status # "completed"

FailAuditExport(x) ==
  /\ exporter[x].pc = "fail" /\ Goes(x, Idle)
  /\ export' = IF MayFail THEN [export EXCEPT !.status = "failed", !.evidence = {}] ELSE export
  /\ UNCHANGED <<clock, log, file, before>>

Crash(x) ==
  /\ exporter[x] # Idle /\ Goes(x, Idle)
  /\ UNCHANGED <<clock, log, export, file, before>>

Next ==
  \/ Tick \/ \E t \in Times : Append(t)
  \/ \E x \in Exporters : \/ GetAuditExport(x) \/ CreateAuditExport(x) \/ IterAuditEntries(x) \/ UploadFromPath(x)
                          \/ CompleteAuditExport(x) \/ FailAuditExport(x) \/ Crash(x)

Spec == Init /\ [][Next]_vars

----------------------------------------------------------------------------
(* Properties *)

\* What a completed export records of its file is what the key holds, whichever of the calls uploaded it and
\* whichever completed it, so that verify accepts it (_upload_sync, complete_audit_export, verify).
EvidenceMatchesObject == export.status = "completed" => file = export.evidence

\* A completed export has every entry up to its cutoff that was committed when the export began, and nothing
\* later than the cutoff, although the log grows between its pages (iter_audit_entries).
ExportMissesNothing ==
  export.status = "completed" =>
    /\ {t \in before : t <= export.cutoff} \subseteq export.evidence
    /\ \A t \in export.evidence : t <= export.cutoff /\ (t = Envelope \/ t \in log)

\* The outcome of an export is final: the tenant deletion that relies on it does not lose it to a call that is
\* late (complete_audit_export, fail_audit_export).
ExportOutcomeIsFinal ==
  export.status \in {"completed", "failed"} => export' = export

\* A completed export is evidence: what it records is what is stored, and nothing is missing from it.
ExportIsEvidence == EvidenceMatchesObject /\ ExportMissesNothing
=============================================================================
