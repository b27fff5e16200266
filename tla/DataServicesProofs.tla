------------------------- MODULE DataServicesProofs -------------------------
(***************************************************************************)
(* What is proved of the services on a tenant's data (module               *)
(* DataServices), for any number of snapshots, objects, workers and audit  *)
(* entries: an inductive invariant for each service, its properties, and   *)
(* that the outcomes of all three are final.  And what is proved of a      *)
(* session's memory jobs, task plans and local runs (module SessionData),  *)
(* with an inductive invariant for each of them.                           *)
(***************************************************************************)
EXTENDS DataServices, SessionData, FiniteSetTheorems, WellFoundedInduction, TLAPS

----------------------------------------------------------------------------
(* Audit exports *)

ExporterType ==
  [pc : {"idle", "create", "page", "upload", "complete", "fail"}, cutoff : Nat, cursor : Nat, written : SUBSET Nat]

AuditType ==
  /\ clock \in Nat /\ log \subseteq Times /\ before \subseteq log /\ file \subseteq Nat
  /\ export \in [status : {"none", "pending", "completed", "failed"}, cutoff : Nat, evidence : SUBSET Nat]
  /\ exporter \in [Exporters -> ExporterType]

\* The entries a complete file must have.
Required == {t \in before : t <= export.cutoff}

\* A call that pages, uploads or completes works for the row that is there.  It has written what is required up
\* to its cursor, all of it when it is through, and nothing but entries up to the cutoff.  What it completes
\* with is what the key holds.
ExporterSound(x) ==
  /\ exporter[x].pc = "create" => exporter[x].cursor = 0
  /\ exporter[x].pc \in {"page", "upload", "complete"} =>
       /\ export.status # "none" /\ export.cutoff = exporter[x].cutoff
       /\ Audit!Envelope \in exporter[x].written
       /\ \A t \in exporter[x].written : t <= export.cutoff /\ (t = Audit!Envelope \/ t \in log)
       /\ \A t \in Required : exporter[x].pc # "page" \/ t <= exporter[x].cursor => t \in exporter[x].written
       /\ exporter[x].pc = "complete" => file = exporter[x].written

AuditInv ==
  /\ AuditType /\ Audit!ExportIsEvidence
  /\ export.status = "failed" => export.evidence = {}
  /\ export.status = "completed" => Audit!Envelope \in export.evidence
  /\ \A x \in Exporters : ExporterSound(x)

\* The first of a set of numbers: set inclusion is well founded, also on the intervals that end with them.
LEMMA LeastExists ==
  ASSUME NEW K \in SUBSET Nat, K # {}
  PROVE  \E n \in K : \A k \in K : n <= k
<1> DEFINE Heads == {0..n : n \in K}
<1>1. \A n \in K : IsFiniteSet(0..n) /\ 0..n \in SUBSET Nat
  <2> SUFFICES ASSUME NEW n \in K PROVE IsFiniteSet(0..n) /\ 0..n \in SUBSET Nat
    OBVIOUS
  <2>1. 0 \in Int /\ n \in Int
    OBVIOUS
  <2> QED
    BY <2>1, FS_Interval
<1>2. Heads \subseteq FiniteSubsetsOf(Nat) /\ Heads # {}
  BY <1>1 DEF FiniteSubsetsOf
<1>3. IsWellFoundedOn(StrictSubsetOrdering(Nat), FiniteSubsetsOf(Nat))
  BY FS_StrictSubsetOrderingWellFounded
<1> HIDE DEF Heads
<1>4. PICK h \in Heads : \A i \in Heads : ~ (<<i, h>> \in StrictSubsetOrdering(Nat))
  BY <1>2, <1>3, WFMin
<1>5. PICK n \in K : h = 0..n
  BY DEF Heads
<1>6. ASSUME NEW k \in K, k < n PROVE FALSE
  <2>1. 0..k \in Heads
    BY DEF Heads
  <2>2. 0..k \subseteq 0..n /\ n \in 0..n /\ n \notin 0..k
    BY <1>6
  <2>3. <<0..k, h>> \in StrictSubsetOrdering(Nat)
    BY <1>1, <1>5, <2>2 DEF StrictSubsetOrdering
  <2> QED
    BY <1>4, <2>1, <2>3
<1> QED
  BY <1>6

\* And every one that is bounded has a largest.
LEMMA LargestExists ==
  ASSUME NEW m \in Nat, NEW K \in SUBSET (0 .. m), K # {}
  PROVE  \E n \in K : \A k \in K : k <= n
<1> DEFINE L == {m - k : k \in K}
<1>1. \A k \in K : k \in Nat /\ k <= m /\ m - k \in Nat /\ m - k \in L
  OBVIOUS
<1>2. L \in SUBSET Nat /\ L # {}
  BY <1>1
<1>3. \A l \in L : \E k \in K : l = m - k
  OBVIOUS
<1> HIDE DEF L
<1>4. PICK l \in L : \A i \in L : l <= i
  BY <1>2, LeastExists
<1>5. PICK n \in K : l = m - n
  BY <1>3
<1>6. ASSUME NEW k \in K PROVE k <= n
  <2>1. m - n <= m - k
    BY <1>1, <1>4, <1>5
  <2> QED
    BY <1>1, <2>1
<1> QED
  BY <1>6

LEMMA AuditInit == Audit!Init => AuditInv
  BY ServicesType DEF Audit!Init, Audit!NoExport, Audit!Idle, AuditInv, AuditType, ExporterType, ExporterSound,
     Required, Audit!ExportIsEvidence, Audit!EvidenceMatchesObject, Audit!ExportMissesNothing

\* A call whose state stays is not disturbed by a row, a log and a file that go on.
LEMMA ExporterRests ==
  ASSUME AuditInv, NEW y \in Exporters, exporter'[y] = exporter[y], log \subseteq log',
         \/ UNCHANGED before /\ export'.cutoff = export.cutoff /\ (export.status # "none" => export'.status # "none")
         \/ export.status = "none",
         file' = file \/ file = {}
  PROVE  ExporterSound(y)'
<1>1. ExporterSound(y)
  BY DEF AuditInv
<1>2. SUFFICES ASSUME exporter[y].pc \in {"page", "upload", "complete"} PROVE ExporterSound(y)'
  BY <1>1 DEF ExporterSound
<1>3. UNCHANGED before /\ export'.cutoff = export.cutoff /\ export'.status # "none"
  BY <1>1, <1>2 DEF ExporterSound
<1>4. exporter[y].pc = "complete" => file' = file
  BY <1>1 DEF ExporterSound
<1> QED
  BY <1>1, <1>2, <1>3, <1>4 DEF ExporterSound, Required, Audit!Envelope

\* The log grows and the time passes.
LEMMA AuditLogStep ==
  ASSUME AuditInv, Audit!Tick \/ (\E t \in Times : Audit!Append(t)) \/ UNCHANGED Audit!vars
  PROVE  AuditInv' /\ UNCHANGED export
<1>1. UNCHANGED <<export, file, exporter, before>> /\ log \subseteq log' /\ log' \subseteq Times /\ clock' \in Nat
  BY ServicesType DEF Audit!Tick, Audit!Append, Audit!vars, AuditInv, AuditType
<1>2. \A y \in Exporters : ExporterSound(y)'
  BY <1>1, ExporterRests
<1>3. Audit!ExportIsEvidence'
  BY <1>1 DEF AuditInv, Audit!ExportIsEvidence, Audit!EvidenceMatchesObject, Audit!ExportMissesNothing
<1> QED
  BY <1>1, <1>2, <1>3 DEF AuditInv, AuditType

\* The steps of a call x.
ExporterStep(x) ==
  \/ Audit!GetAuditExport(x) \/ Audit!CreateAuditExport(x) \/ Audit!IterAuditEntries(x) \/ Audit!UploadFromPath(x)
  \/ Audit!CompleteAuditExport(x) \/ Audit!FailAuditExport(x) \/ Audit!Crash(x)

\* The call x alone moves, to a state that is sound, and the row and the file stay.
LEMMA ExporterMoves ==
  ASSUME AuditInv, NEW x \in Exporters, NEW to \in ExporterType, UNCHANGED <<clock, log, export, before>>,
         file' = file \/ (file = {} /\ file' \subseteq Nat /\ export.status # "completed"),
         exporter' = [exporter EXCEPT ![x] = to], ExporterSound(x)'
  PROVE  AuditInv' /\ Audit!ExportOutcomeIsFinal
<1>1. \A y \in Exporters : y # x => exporter'[y] = exporter[y]
  BY DEF AuditInv, AuditType
<1>2. \A y \in Exporters : ExporterSound(y)'
  BY <1>1, ExporterRests
<1>3. AuditType'
  BY DEF AuditInv, AuditType
<1>4. Audit!ExportIsEvidence'
  BY DEF AuditInv, Audit!ExportIsEvidence, Audit!EvidenceMatchesObject, Audit!ExportMissesNothing
<1> QED
  BY <1>2, <1>3, <1>4 DEF AuditInv, Audit!ExportOutcomeIsFinal

LEMMA AuditCallStep ==
  ASSUME AuditInv, NEW x \in Exporters, ExporterStep(x)
  PROVE  AuditInv' /\ Audit!ExportOutcomeIsFinal
<1> USE DEF Audit!Goes
<1>1. exporter \in [Exporters -> ExporterType] /\ exporter[x] \in ExporterType /\ ExporterSound(x) /\ AuditType
  BY DEF AuditInv, AuditType
<1>2. Audit!Idle \in ExporterType /\ Audit!Idle.pc = "idle"
  BY DEF ExporterType, Audit!Idle
<1>3. CASE Audit!GetAuditExport(x)
  <2> DEFINE to == [Audit!Idle EXCEPT !.pc = "create",
                                      !.cutoff = IF export = Audit!NoExport THEN clock ELSE export.cutoff]
  <2>1. exporter' = [exporter EXCEPT ![x] = to] /\ UNCHANGED <<clock, log, export, file, before>>
    BY <1>3 DEF Audit!GetAuditExport
  <2>2. to \in ExporterType /\ to.pc = "create" /\ to.cursor = 0
    BY <1>1 DEF ExporterType, Audit!Idle, AuditType
  <2> HIDE DEF to
  <2>3. ExporterSound(x)'
    BY <1>1, <2>1, <2>2 DEF ExporterSound
  <2> QED
    BY <2>1, <2>2, <2>3, ExporterMoves
<1>4. CASE Audit!CreateAuditExport(x)
  <2> DEFINE to == [exporter[x] EXCEPT !.pc = "page", !.written = {Audit!Envelope}]
  <2>1. /\ to \in ExporterType /\ to.pc = "page" /\ to.written = {Audit!Envelope} /\ to.cutoff = exporter[x].cutoff
        /\ to.cursor = 0
    <3>1. {Audit!Envelope} \in SUBSET Nat
      BY DEF Audit!Envelope
    <3>2. \A e \in ExporterType, w \in SUBSET Nat : [e EXCEPT !.pc = "page", !.written = w] \in ExporterType
      BY DEF ExporterType
    <3> QED
      BY <1>1, <1>4, <3>1, <3>2 DEF ExporterType, ExporterSound, Audit!CreateAuditExport
  <2> HIDE DEF to
  <2>2. CASE export = Audit!NoExport
    <3>1. /\ export' = [Audit!NoExport EXCEPT !.status = "pending", !.cutoff = exporter[x].cutoff] /\ before' = log
          /\ exporter' = [exporter EXCEPT ![x] = to] /\ UNCHANGED <<clock, log, file>>
      BY <1>4, <2>2 DEF Audit!CreateAuditExport, to
    <3>2. export.status = "none" /\ export'.status = "pending" /\ export'.cutoff = exporter[x].cutoff
          /\ export' \in [status : {"none", "pending", "completed", "failed"}, cutoff : Nat, evidence : SUBSET Nat]
      BY <1>1, <2>2, <3>1 DEF Audit!NoExport, ExporterType
    <3>3. \A y \in Exporters : y # x => exporter'[y] = exporter[y]
      BY <1>1, <3>1
    <3>4. ExporterSound(x)'
      <4>1. exporter'[x] = to /\ export'.status # "none" /\ export'.cutoff = to.cutoff
        BY <1>1, <2>1, <3>1, <3>2
      <4>2. Required' \subseteq Nat \ {0} /\ to.cutoff \in Nat
        BY <1>1, <2>1, <3>1, ServicesType DEF Required, AuditType, ExporterType
      <4>3. \A t \in Required' : ~ (t <= 0)
        BY <4>2
      <4>4. \A t \in to.written : t <= export'.cutoff /\ (t = Audit!Envelope \/ t \in log')
        BY <2>1, <4>1, <4>2 DEF Audit!Envelope
      <4> HIDE DEF Audit!Goes
      <4> QED
        BY <2>1, <4>1, <4>3, <4>4 DEF ExporterSound
    <3>5. \A y \in Exporters : ExporterSound(y)'
      BY <3>1, <3>2, <3>3, <3>4, ExporterRests
    <3> QED
      BY <1>1, <2>1, <3>1, <3>2, <3>5 DEF AuditInv, AuditType, Audit!ExportOutcomeIsFinal,
         Audit!ExportIsEvidence, Audit!EvidenceMatchesObject, Audit!ExportMissesNothing
  <2>3. CASE export # Audit!NoExport
    <3>1. /\ UNCHANGED <<clock, log, export, file, before>>
          /\ \/ export.status = "pending" /\ export.cutoff = exporter[x].cutoff
                /\ exporter' = [exporter EXCEPT ![x] = to]
             \/ exporter' = [exporter EXCEPT ![x] = Audit!Idle]
      BY <1>4, <2>3 DEF Audit!CreateAuditExport, to
    <3>2. CASE exporter' = [exporter EXCEPT ![x] = Audit!Idle]
      <4>1. ExporterSound(x)'
        BY <1>1, <1>2, <3>2 DEF ExporterSound
      <4> QED
        BY <1>2, <3>1, <3>2, <4>1, ExporterMoves
    <3>3. CASE /\ export.status = "pending" /\ export.cutoff = exporter[x].cutoff
               /\ exporter' = [exporter EXCEPT ![x] = to]
      <4>1. exporter'[x] = to /\ export'.status # "none" /\ export'.cutoff = to.cutoff
        BY <1>1, <2>1, <3>1, <3>3
      <4>2. Required' \subseteq Nat \ {0} /\ to.cutoff \in Nat
        BY <1>1, <2>1, <3>1, ServicesType DEF Required, AuditType, ExporterType
      <4>3. \A t \in Required' : ~ (t <= 0)
        BY <4>2
      <4>4. \A t \in to.written : t <= export'.cutoff /\ (t = Audit!Envelope \/ t \in log')
        BY <2>1, <4>1, <4>2 DEF Audit!Envelope
      <4>5. ExporterSound(x)'
        <5> HIDE DEF Audit!Goes
        <5> QED
          BY <2>1, <4>1, <4>3, <4>4 DEF ExporterSound
      <4> QED
        BY <2>1, <3>1, <3>3, <4>5, ExporterMoves
    <3> QED
      BY <3>1, <3>2, <3>3
  <2> QED
    BY <2>2, <2>3
<1>5. CASE Audit!IterAuditEntries(x)
  <2> DEFINE e == exporter[x]
  <2>1. e.pc = "page" /\ UNCHANGED <<clock, log, export, file, before>> /\ e \in ExporterType
    BY <1>1, <1>5 DEF Audit!IterAuditEntries
  <2>2. CASE Audit!Page(x) = {}
    <3> DEFINE to == [e EXCEPT !.pc = "upload"]
    <3>1. exporter' = [exporter EXCEPT ![x] = to]
      BY <1>5, <2>2 DEF Audit!IterAuditEntries
    <3>2. /\ to \in ExporterType /\ to.pc = "upload" /\ to.written = e.written /\ to.cutoff = e.cutoff
      BY <2>1 DEF ExporterType
    <3>3. \A t \in Required : t \in e.written
      BY <1>1, <2>1, <2>2, ServicesType DEF ExporterSound, Required, Audit!Page, AuditType, ExporterType
    <3> HIDE DEF to
    <3>4. ExporterSound(x)'
      BY <1>1, <2>1, <3>1, <3>2, <3>3 DEF ExporterSound, Required
    <3> QED
      BY <2>1, <3>1, <3>2, <3>4, ExporterMoves
  <2>3. CASE Audit!Page(x) # {}
    <3> DEFINE t == CHOOSE t \in Audit!Page(x) : \A u \in Audit!Page(x) : t <= u
               to == [e EXCEPT !.cursor = t, !.written = @ \union {t}]
               no == [e EXCEPT !.pc = "fail"]
    <3>1. t \in Audit!Page(x) /\ \A u \in Audit!Page(x) : t <= u
      <4>1. Audit!Page(x) \in SUBSET Nat
        BY <1>1, ServicesType DEF Audit!Page, AuditType
      <4> QED
        BY <2>3, <4>1, LeastExists
    <3> HIDE DEF t
    <3>2. exporter' = [exporter EXCEPT ![x] = no] \/ exporter' = [exporter EXCEPT ![x] = to]
      BY <1>5, <2>3 DEF Audit!IterAuditEntries, t
    <3>3. CASE exporter' = [exporter EXCEPT ![x] = no]
      <4>1. no \in ExporterType /\ no.pc = "fail"
        BY <2>1 DEF ExporterType
      <4> HIDE DEF no
      <4>2. ExporterSound(x)'
        BY <1>1, <3>3, <4>1 DEF ExporterSound
      <4> QED
        BY <2>1, <3>3, <4>1, <4>2, ExporterMoves
    <3>4. CASE exporter' = [exporter EXCEPT ![x] = to]
      <4>1. t \in Nat /\ t \in log /\ t <= e.cutoff
        BY <1>1, <3>1, ServicesType DEF Audit!Page, AuditType
      <4>2. /\ to \in ExporterType /\ to.pc = "page" /\ to.cursor = t /\ to.written = e.written \union {t}
            /\ to.cutoff = e.cutoff
        BY <2>1, <4>1 DEF ExporterType
      <4> HIDE DEF to
      <4>3. ASSUME NEW u \in Required, u <= t PROVE u \in to.written
        <5>1. u \in log /\ u \in Nat /\ u <= e.cutoff /\ e.cursor \in Nat
          BY <1>1, <2>1, ServicesType DEF Required, AuditType, ExporterSound, ExporterType
        <5>2. CASE u <= e.cursor
          BY <1>1, <2>1, <4>2, <5>2 DEF ExporterSound
        <5>3. CASE u > e.cursor
          BY <3>1, <4>1, <4>2, <4>3, <5>1, <5>3 DEF Audit!Page
        <5> QED
          BY <5>1, <5>2, <5>3
      <4>4. exporter'[x] = to
        BY <1>1, <3>4
      <4>5. ExporterSound(x)'
        BY <1>1, <2>1, <4>1, <4>2, <4>3, <4>4 DEF ExporterSound, Required
      <4> QED
        BY <2>1, <3>4, <4>2, <4>5, ExporterMoves
    <3> QED
      BY <3>2, <3>3, <3>4
  <2> QED
    BY <2>2, <2>3
<1>6. CASE Audit!UploadFromPath(x)
  <2> DEFINE e == exporter[x]
             done == [e EXCEPT !.pc = "complete"]
             no == [e EXCEPT !.pc = "fail"]
  <2>1. e.pc = "upload" /\ UNCHANGED <<clock, log, export, before>> /\ e \in ExporterType
    BY <1>1, <1>6 DEF Audit!UploadFromPath
  <2>2. /\ done \in ExporterType /\ done.pc = "complete" /\ done.written = e.written /\ done.cutoff = e.cutoff
        /\ no \in ExporterType /\ no.pc = "fail"
    BY <2>1 DEF ExporterType
  <2>3. \/ exporter' = [exporter EXCEPT ![x] = done] /\ file' = e.written /\ (file' = file \/ file = {})
        \/ exporter' = [exporter EXCEPT ![x] = no] /\ file' = file
        \/ exporter' = [exporter EXCEPT ![x] = Audit!Idle] /\ file' = file
    BY <1>6 DEF Audit!UploadFromPath, Audit!Same
  <2> HIDE DEF done, no
  <2>4. CASE exporter' = [exporter EXCEPT ![x] = no] /\ file' = file
    <3>1. ExporterSound(x)'
      BY <1>1, <2>2, <2>4 DEF ExporterSound
    <3> QED
      BY <2>1, <2>2, <2>4, <3>1, ExporterMoves
  <2>5. CASE exporter' = [exporter EXCEPT ![x] = Audit!Idle] /\ file' = file
    <3>1. ExporterSound(x)'
      BY <1>1, <1>2, <2>5 DEF ExporterSound
    <3> QED
      BY <1>2, <2>1, <2>5, <3>1, ExporterMoves
  <2>6. CASE exporter' = [exporter EXCEPT ![x] = done] /\ file' = e.written /\ (file' = file \/ file = {})
    <3>1. exporter'[x] = done
      BY <1>1, <2>6
    <3>2. ExporterSound(x)'
      BY <1>1, <2>1, <2>2, <2>6, <3>1 DEF ExporterSound, Required
    <3>3. file' \subseteq Nat
      BY <2>1, <2>6 DEF ExporterType
    <3>4. export.status = "completed" => file # {}
      BY DEF AuditInv, Audit!ExportIsEvidence, Audit!EvidenceMatchesObject, Audit!ExportMissesNothing
    <3> QED
      BY <2>1, <2>2, <2>6, <3>2, <3>3, <3>4, ExporterMoves
  <2> QED
    BY <2>3, <2>4, <2>5, <2>6
<1>7. CASE Audit!CompleteAuditExport(x)
  <2>1. exporter[x].pc = "complete" /\ UNCHANGED <<clock, log, file, before>>
    BY <1>7 DEF Audit!CompleteAuditExport
  <2>2. CASE export.status = "pending"
    <3>1. /\ export' = [export EXCEPT !.status = "completed", !.evidence = exporter[x].written]
          /\ exporter' = [exporter EXCEPT ![x] = Audit!Idle]
      BY <1>7, <2>2 DEF Audit!CompleteAuditExport, Audit!Pending
    <3>2. /\ export'.status = "completed" /\ export'.cutoff = export.cutoff /\ export'.evidence = exporter[x].written
          /\ export' \in [status : {"none", "pending", "completed", "failed"}, cutoff : Nat, evidence : SUBSET Nat]
      BY <1>1, <3>1 DEF AuditType, ExporterType
    <3>3. \A y \in Exporters : y # x => exporter'[y] = exporter[y]
      BY <1>1, <3>1
    <3>4. ExporterSound(x)'
      BY <1>1, <1>2, <3>1 DEF ExporterSound
    <3>5. \A y \in Exporters : ExporterSound(y)'
      BY <2>1, <3>2, <3>3, <3>4, ExporterRests
    <3>6. Audit!ExportIsEvidence' /\ Audit!Envelope \in export'.evidence
      BY <1>1, <2>1, <3>2 DEF ExporterSound, Required,
         Audit!ExportIsEvidence, Audit!EvidenceMatchesObject, Audit!ExportMissesNothing
    <3>7. AuditType'
      BY <1>1, <1>2, <2>1, <3>1, <3>2 DEF AuditType
    <3> QED
      BY <2>2, <3>2, <3>5, <3>6, <3>7 DEF AuditInv, Audit!ExportOutcomeIsFinal
  <2>3. CASE export.status # "pending"
    <3> DEFINE no == [exporter[x] EXCEPT !.pc = "fail"]
    <3>1. exporter' = [exporter EXCEPT ![x] = no] /\ UNCHANGED export
      BY <1>7, <2>3 DEF Audit!CompleteAuditExport, Audit!Pending
    <3>2. no \in ExporterType /\ no.pc = "fail"
      BY <1>1 DEF ExporterType
    <3> HIDE DEF no
    <3>3. ExporterSound(x)'
      BY <1>1, <3>1, <3>2 DEF ExporterSound
    <3> QED
      BY <2>1, <3>1, <3>2, <3>3, ExporterMoves
  <2> QED
    BY <2>2, <2>3
<1>8. CASE Audit!FailAuditExport(x)
  <2>1. /\ UNCHANGED <<clock, log, file, before>> /\ exporter' = [exporter EXCEPT ![x] = Audit!Idle]
        /\ exporter[x].pc = "fail"
    BY <1>8 DEF Audit!FailAuditExport
  <2>2. ExporterSound(x)'
    BY <1>1, <1>2, <2>1 DEF ExporterSound
  <2>3. CASE export' = export
    BY <1>2, <2>1, <2>2, <2>3, ExporterMoves
  <2>4. CASE export' # export
    <3>1. export.status # "completed" /\ export' = [export EXCEPT !.status = "failed", !.evidence = {}]
      BY <1>8, <2>4 DEF Audit!FailAuditExport, Audit!MayFail
    <3>2. /\ export'.status = "failed" /\ export'.cutoff = export.cutoff /\ export'.evidence = {}
          /\ export' \in [status : {"none", "pending", "completed", "failed"}, cutoff : Nat, evidence : SUBSET Nat]
      BY <1>1, <3>1 DEF AuditType
    <3>3. \A y \in Exporters : y # x => exporter'[y] = exporter[y]
      BY <1>1, <2>1
    <3>4. \A y \in Exporters : ExporterSound(y)'
      BY <2>1, <2>2, <3>2, <3>3, ExporterRests
    <3>5. AuditType'
      BY <1>1, <1>2, <2>1, <3>2 DEF AuditType
    <3>6. export.status # "failed"
      BY <1>1, <2>4, <3>1 DEF AuditInv, AuditType
    <3> QED
      BY <3>1, <3>2, <3>4, <3>5, <3>6 DEF AuditInv, Audit!ExportOutcomeIsFinal,
         Audit!ExportIsEvidence, Audit!EvidenceMatchesObject, Audit!ExportMissesNothing
  <2> QED
    BY <2>3, <2>4
<1>9. CASE Audit!Crash(x)
  <2>1. UNCHANGED <<clock, log, export, file, before>> /\ exporter' = [exporter EXCEPT ![x] = Audit!Idle]
    BY <1>9 DEF Audit!Crash
  <2>2. ExporterSound(x)'
    BY <1>1, <1>2, <2>1 DEF ExporterSound
  <2> QED
    BY <1>2, <2>1, <2>2, ExporterMoves
<1> QED
  BY <1>3, <1>4, <1>5, <1>6, <1>7, <1>8, <1>9 DEF ExporterStep

LEMMA AuditStep ==
  ASSUME AuditInv, [Audit!Next]_Audit!vars
  PROVE  AuditInv' /\ Audit!ExportOutcomeIsFinal
<1>1. CASE Audit!Tick \/ (\E t \in Times : Audit!Append(t)) \/ UNCHANGED Audit!vars
  BY <1>1, AuditLogStep DEF Audit!ExportOutcomeIsFinal
<1>2. CASE \E x \in Exporters : ExporterStep(x)
  BY <1>2, AuditCallStep
<1> QED
  BY <1>1, <1>2 DEF Audit!Next, ExporterStep

----------------------------------------------------------------------------
(* Validation of source snapshots *)

SnapshotRow ==
  [status : {"none", "pending", "validating", "ready", "rejected"}, expected : Contents \union {"none"},
   seen : Snapshots \union {"none"}]
ValidationRow ==
  [status : {"none", "pending", "running", "completed", "failed"}, base : Nat, attempt : Nat, gen : Nat,
   expired : BOOLEAN]
ValidatorType ==
  [pc : {"idle", "validate", "complete", "reject", "release"}, snapshot : Snapshots \union {"none"}, gen : Nat]

ValidationType ==
  /\ object \in [Snapshots -> Contents \union {"none"}]
  /\ snapshot \in [Snapshots -> SnapshotRow]
  /\ validation \in [Snapshots -> ValidationRow]
  /\ workspace \in [head : Snapshots \union {"none"}, version : Nat]
  /\ artifacts \in [Snapshots -> Nat]
  /\ request \subseteq [snapshot : Snapshots, expected : Contents]
  /\ validator \in [Validators -> ValidatorType]
  /\ replaced \in [Snapshots -> Snapshots \union {"none"}]

\* A snapshot is being validated exactly as long as it has a job that is not done.  The job knows the version
\* of the workspace the client saw, and as long as this is the version its head is the one the client saw.
\* The attempt of a lease is its generation.
SnapshotSound(s) ==
  /\ snapshot[s].status = "validating" <=> validation[s].status \in {"pending", "running"}
  /\ validation[s].expired => validation[s].status = "running"
  /\ validation[s].gen <= SnapshotAttempts /\ validation[s].attempt <= SnapshotAttempts
  /\ validation[s].gen > 0 => validation[s].attempt = validation[s].gen
  /\ validation[s].gen = 0 => validation[s].attempt <= 1
  /\ snapshot[s].status \in {"validating", "ready", "rejected"} => snapshot[s].expected \in Contents
  /\ snapshot[s].status = "validating" =>
       /\ validation[s].gen = 0 => validation[s].attempt = 1
       /\ validation[s].base <= workspace.version
       /\ validation[s].base = workspace.version => snapshot[s].seen = workspace.head
  /\ snapshot[s].status = "ready" =>
       object[s] = snapshot[s].expected /\ object[s] \in Sound /\ replaced[s] = snapshot[s].seen
  /\ artifacts[s] = IF snapshot[s].status = "ready" THEN 1 ELSE 0

\* A process works on a snapshot that was finalized, and completes one whose archive it accepted.
ValidatorSound(v) ==
  validator[v].pc # "idle" =>
    /\ validator[v].snapshot \in Snapshots
    /\ snapshot[validator[v].snapshot].status \in {"validating", "ready", "rejected"}
    /\ validator[v].pc = "complete" =>
         /\ object[validator[v].snapshot] = snapshot[validator[v].snapshot].expected
         /\ object[validator[v].snapshot] \in Sound

Ready == {s \in Snapshots : snapshot[s].status = "ready"}

HeadSound ==
  /\ workspace.head = "none" \/ snapshot[workspace.head].status = "ready"
  /\ workspace.version = Cardinality(Ready)

ValidationInv ==
  /\ ValidationType /\ HeadSound
  /\ \A s \in Snapshots : SnapshotSound(s)
  /\ \A v \in Validators : ValidatorSound(v)

LEMMA ValidationInit == Validation!Init => ValidationInv
<1> SUFFICES ASSUME Validation!Init PROVE ValidationInv
  OBVIOUS
<1> USE DEF Validation!Init, Validation!None, Validation!NoSnapshot, Validation!NoValidation, Validation!Idle
<1>1. ValidationType
  BY DEF ValidationType, SnapshotRow, ValidationRow, ValidatorType
<1>2. Ready = {} /\ Cardinality({}) = 0
  BY FS_EmptySet DEF Ready
<1>3. HeadSound
  BY <1>2 DEF HeadSound
<1>4. ASSUME NEW s \in Snapshots PROVE SnapshotSound(s)
  BY ServicesType DEF SnapshotSound
<1>5. \A v \in Validators : ValidatorSound(v)
  BY DEF ValidatorSound
<1> QED
  BY <1>1, <1>3, <1>4, <1>5 DEF ValidationInv

\* The invariant says what the properties say.
LEMMA ValidationInvImplies == ValidationInv => Validation!HeadsAreSound
<1> SUFFICES ASSUME ValidationInv PROVE Validation!HeadsAreSound
  OBVIOUS
<1> USE DEF Validation!None
<1>1. Validation!SnapshotTypeOK
  <2> SUFFICES ASSUME NEW s \in Snapshots
               PROVE  /\ object[s] \in Contents \union {"none"}
                      /\ snapshot[s].status \in {"none", "pending", "validating", "ready", "rejected"}
                      /\ validation[s].status \in {"none", "pending", "running", "completed", "failed"}
                      /\ validation[s].attempt \in 0 .. SnapshotAttempts /\ validation[s].gen \in 0 .. SnapshotAttempts
    BY DEF Validation!SnapshotTypeOK
  <2>1. snapshot[s] \in SnapshotRow /\ validation[s] \in ValidationRow /\ SnapshotSound(s)
    BY DEF ValidationInv, ValidationType
  <2> QED
    BY <2>1, ServicesType DEF ValidationInv, ValidationType, SnapshotRow, ValidationRow, SnapshotSound
<1>2. Validation!HeadIsWhatWasValidated
  BY DEF ValidationInv, HeadSound, SnapshotSound, Validation!HeadIsWhatWasValidated
<1>3. Validation!NoLostHead
  BY DEF ValidationInv, SnapshotSound, Validation!NoLostHead
<1>4. Validation!OneArtifactPerSnapshot
  <2>1. \A s \in Snapshots : artifacts[s] = IF snapshot[s].status = "ready" THEN 1 ELSE 0
    BY DEF ValidationInv, SnapshotSound
  <2>2. workspace.version = Cardinality({s \in Snapshots : snapshot[s].status = "ready"})
    BY DEF ValidationInv, HeadSound, Ready
  <2> QED
    BY <2>1, <2>2, Zenon DEF Validation!OneArtifactPerSnapshot, Validation!Cardinality, Cardinality
<1> QED
  BY <1>1, <1>2, <1>3, <1>4 DEF Validation!HeadsAreSound

\* A snapshot whose rows stay is not disturbed by a head that goes on, nor by another upload.
LEMMA SnapshotRests ==
  ASSUME ValidationInv, NEW s \in Snapshots, snapshot'[s] = snapshot[s], validation'[s] = validation[s],
         artifacts'[s] = artifacts[s], replaced'[s] = replaced[s],
         object'[s] = object[s] \/ object[s] = "none",
         workspace' = workspace \/ workspace'.version = workspace.version + 1
  PROVE  SnapshotSound(s)'
<1>1. /\ SnapshotSound(s) /\ workspace.version \in Nat /\ validation[s].base \in Nat
  BY DEF ValidationInv, ValidationType, ValidationRow
<1>2. snapshot[s].status = "ready" => object'[s] = object[s]
  BY <1>1, ServicesType DEF SnapshotSound
<1>3. snapshot[s].status = "validating" =>
        /\ validation[s].base <= workspace'.version
        /\ validation[s].base = workspace'.version => snapshot[s].seen = workspace'.head
  BY <1>1 DEF SnapshotSound
<1> QED
  BY <1>1, <1>2, <1>3 DEF SnapshotSound

\* A process whose state stays, or that is not at work, is sound as long as no finalized snapshot loses what
\* it was finalized with.
LEMMA ValidatorRests ==
  ASSUME ValidationInv, NEW v \in Validators,
         validator'[v] = validator[v] \/ validator'[v].pc = "idle",
         \A s \in Snapshots :
            /\ snapshot[s].status \in {"validating", "ready", "rejected"} =>
                 snapshot'[s].status \in {"validating", "ready", "rejected"} /\ snapshot'[s].expected = snapshot[s].expected
            /\ object'[s] = object[s] \/ object[s] = "none"
  PROVE  ValidatorSound(v)'
<1>1. CASE validator'[v].pc = "idle"
  BY <1>1 DEF ValidatorSound
<1>2. CASE validator'[v].pc # "idle"
  <2> DEFINE s == validator[v].snapshot
  <2>1. validator'[v] = validator[v] /\ s \in Snapshots /\ snapshot[s].status \in {"validating", "ready", "rejected"}
    BY <1>2 DEF ValidationInv, ValidatorSound
  <2>2. /\ snapshot'[s].status \in {"validating", "ready", "rejected"}
        /\ snapshot'[s].expected = snapshot[s].expected /\ snapshot[s].expected \in Contents
    BY <2>1 DEF ValidationInv, SnapshotSound
  <2>3. validator[v].pc = "complete" =>
          object[s] = snapshot[s].expected /\ object[s] \in Sound /\ object'[s] = object[s]
    BY <1>2, <2>1, <2>2, ServicesType DEF ValidationInv, ValidatorSound
  <2> QED
    BY <2>1, <2>2, <2>3 DEF ValidatorSound
<1> QED
  BY <1>1, <1>2

\* The rows that an upload, the creation of a snapshot and a request leave alone.
LEMMA EndpointStep ==
  ASSUME ValidationInv, NEW s \in Snapshots,
         \/ Validation!CreateSourceSnapshot(s)
         \/ \E content \in Contents : Validation!Upload(s, content) \/ Validation!FinalizeRead(s, content)
  PROVE  ValidationInv' /\ Validation!VerdictsAreFinal
<1>1. UNCHANGED <<validation, workspace, artifacts, validator, replaced>>
  BY DEF Validation!CreateSourceSnapshot, Validation!Upload, Validation!FinalizeRead
<1>2. ValidationType /\ SnapshotSound(s) /\ snapshot[s] \in SnapshotRow
  BY DEF ValidationInv, ValidationType
<1>3. \A r \in Snapshots : object'[r] = object[r] \/ object[r] = "none"
  BY <1>2 DEF Validation!CreateSourceSnapshot, Validation!Upload, Validation!FinalizeRead, Validation!Put,
     Validation!None, ValidationType
<1>4. /\ \A r \in Snapshots : r # s => snapshot'[r] = snapshot[r]
      /\ \/ snapshot'[s] = snapshot[s]
         \/ snapshot[s].status = "none" /\ snapshot'[s] = [snapshot[s] EXCEPT !.status = "pending"]
  BY <1>2 DEF Validation!CreateSourceSnapshot, Validation!Upload, Validation!FinalizeRead, Validation!NoSnapshot,
     Validation!None, ValidationType
<1>5. snapshot'[s] # snapshot[s] => snapshot'[s].status = "pending"
  BY <1>2, <1>4 DEF SnapshotRow
<1>6. ValidationType'
  <2>1. object' \in [Snapshots -> Contents \union {"none"}] /\ request' \subseteq [snapshot : Snapshots, expected : Contents]
    BY <1>2 DEF Validation!CreateSourceSnapshot, Validation!Upload, Validation!FinalizeRead, ValidationType
  <2>2. [snapshot[s] EXCEPT !.status = "pending"] \in SnapshotRow
    BY <1>2 DEF SnapshotRow
  <2>3. snapshot' \in [Snapshots -> SnapshotRow]
    BY <1>2, <2>2 DEF Validation!CreateSourceSnapshot, Validation!Upload, Validation!FinalizeRead, ValidationType
  <2> QED
    BY <1>1, <1>2, <2>1, <2>3 DEF ValidationType
<1>7. ASSUME NEW r \in Snapshots PROVE SnapshotSound(r)'
  <2>1. CASE snapshot'[r] = snapshot[r]
    BY <1>1, <1>3, <2>1, SnapshotRests
  <2>2. CASE snapshot'[r] # snapshot[r]
    BY <1>1, <1>2, <1>4, <1>5, <2>2 DEF SnapshotSound
  <2> QED
    BY <2>1, <2>2
<1>8. Ready' = Ready
  BY <1>4, <1>5 DEF Ready
<1>9. HeadSound'
  <2>1. workspace.head \in Snapshots \union {"none"} /\ HeadSound
    BY <1>2 DEF ValidationInv, ValidationType
  <2>2. workspace.head \in Snapshots => (snapshot[workspace.head].status = "ready" =>
                                           snapshot'[workspace.head].status = "ready")
    BY <1>4
  <2> QED
    BY <1>1, <1>8, <2>1, <2>2 DEF HeadSound
<1>10. \A v \in Validators : ValidatorSound(v)'
  BY <1>1, <1>3, <1>4, ValidatorRests
<1>11. Validation!VerdictsAreFinal
  BY <1>1, <1>4 DEF Validation!VerdictsAreFinal
<1> QED
  BY <1>6, <1>7, <1>9, <1>10, <1>11 DEF ValidationInv

\* The second half of a finalization.
LEMMA BeginValidationStep ==
  ASSUME ValidationInv, NEW q \in request, Validation!BeginValidation(q)
  PROVE  ValidationInv' /\ Validation!VerdictsAreFinal
<1> DEFINE s == q.snapshot
           row == [status |-> "validating", expected |-> q.expected, seen |-> workspace.head]
           duty == [Validation!NoValidation EXCEPT !.status = "pending", !.base = workspace.version, !.attempt = 1]
<1>1. UNCHANGED <<object, workspace, artifacts, validator, replaced>> /\ request' \subseteq request
  BY DEF Validation!BeginValidation
<1>2. ValidationType /\ s \in Snapshots /\ q.expected \in Contents /\ SnapshotSound(s)
  BY DEF ValidationInv, ValidationType
<1>3. row \in SnapshotRow
  BY <1>2 DEF SnapshotRow, ValidationType
<1>4. /\ duty.status = "pending" /\ duty.base = workspace.version /\ duty.attempt = 1 /\ duty.gen = 0
      /\ duty.expired = FALSE
  BY DEF Validation!NoValidation, Validation!None
<1>5. duty \in ValidationRow
  <2>1. Validation!NoValidation \in ValidationRow
    BY DEF Validation!NoValidation, Validation!None, ValidationRow
  <2>2. \A e \in ValidationRow, n \in Nat :
          [e EXCEPT !.status = "pending", !.base = n, !.attempt = 1] \in ValidationRow
    BY DEF ValidationRow
  <2> QED
    BY <1>2, <2>1, <2>2 DEF ValidationType
<1>6. \/ UNCHANGED <<snapshot, validation>>
      \/ /\ snapshot[s].status = "pending"
         /\ snapshot' = [snapshot EXCEPT ![s] = row] /\ validation' = [validation EXCEPT ![s] = duty]
  BY DEF Validation!BeginValidation, Validation!Base
<1> HIDE DEF row, duty
<1>7. ValidationType'
  BY <1>1, <1>2, <1>3, <1>5, <1>6 DEF ValidationType
<1>8. CASE UNCHANGED <<snapshot, validation>>
  <2>1. \A r \in Snapshots : SnapshotSound(r)'
    BY <1>1, <1>8, SnapshotRests
  <2>2. \A v \in Validators : ValidatorSound(v)'
    BY <1>1, <1>8, ValidatorRests
  <2> QED
    BY <1>1, <1>7, <1>8, <2>1, <2>2 DEF ValidationInv, HeadSound, Ready, Validation!VerdictsAreFinal
<1>9. CASE /\ snapshot[s].status = "pending"
           /\ snapshot' = [snapshot EXCEPT ![s] = row] /\ validation' = [validation EXCEPT ![s] = duty]
  <2>1. \A r \in Snapshots : r # s => snapshot'[r] = snapshot[r] /\ validation'[r] = validation[r]
    BY <1>2, <1>9 DEF ValidationType
  <2>2. snapshot'[s] = row /\ validation'[s] = duty
    BY <1>2, <1>9 DEF ValidationType
  <2>3. SnapshotSound(s)'
    BY <1>1, <1>2, <1>4, <1>9, <2>2, ServicesType DEF SnapshotSound, row, ValidationType
  <2>4. \A r \in Snapshots : SnapshotSound(r)'
    BY <1>1, <2>1, <2>3, SnapshotRests
  <2>5. \A v \in Validators : ValidatorSound(v)'
    BY <1>1, <1>9, <2>1, ValidatorRests
  <2>6. HeadSound'
    <3>1. Ready' = Ready
      BY <1>9, <2>1, <2>2 DEF Ready, row
    <3>2. workspace.head \in Snapshots \union {"none"} /\ HeadSound
      BY <1>2 DEF ValidationInv, ValidationType
    <3>3. workspace.head \in Snapshots => (snapshot[workspace.head].status = "ready" =>
                                             snapshot'[workspace.head].status = "ready")
      BY <1>9, <2>1
    <3> QED
      BY <1>1, <3>1, <3>2, <3>3 DEF HeadSound
  <2>7. Validation!VerdictsAreFinal
    BY <1>9, <2>1 DEF Validation!VerdictsAreFinal
  <2> QED
    BY <1>7, <2>4, <2>5, <2>6, <2>7 DEF ValidationInv
<1> QED
  BY <1>6, <1>8, <1>9

\* The job of the snapshot s changes and the process v moves, and the snapshot keeps its status.
LEMMA JobMoves ==
  ASSUME ValidationInv, ValidationType', UNCHANGED <<object, snapshot, workspace, artifacts, replaced>>,
         NEW s \in Snapshots, \A r \in Snapshots : r # s => validation'[r] = validation[r],
         validation'[s] = validation[s] \/ (snapshot[s].status = "validating" /\ SnapshotSound(s)'),
         NEW v, \A u \in Validators : u # v => validator'[u] = validator[u],
         v \in Validators => validator'[v].pc = "idle" \/ ValidatorSound(v)'
  PROVE  ValidationInv' /\ Validation!VerdictsAreFinal
<1>1. \A r \in Snapshots : SnapshotSound(r)'
  BY SnapshotRests
<1>2. \A u \in Validators : ValidatorSound(u)'
  BY ValidatorRests DEF ValidationInv, ValidationType, SnapshotRow
<1>3. HeadSound'
  BY DEF ValidationInv, HeadSound, Ready
<1>4. Validation!VerdictsAreFinal
  BY DEF Validation!VerdictsAreFinal
<1> QED
  BY <1>1, <1>2, <1>3, <1>4 DEF ValidationInv

LEMMA ClaimStep ==
  ASSUME ValidationInv, NEW v \in Validators, NEW s \in Snapshots, Validation!ClaimValidationJob(v, s)
  PROVE  ValidationInv' /\ Validation!VerdictsAreFinal
<1> DEFINE duty == [validation[s] EXCEPT !.status = "running",
                     !.attempt = IF validation[s].gen > 0 THEN validation[s].attempt + 1 ELSE validation[s].attempt,
                     !.gen = validation[s].gen + 1, !.expired = FALSE]
           to == [pc |-> "validate", snapshot |-> s, gen |-> validation[s].gen + 1]
<1>1. /\ UNCHANGED <<object, snapshot, workspace, artifacts, request, replaced>>
      /\ validation' = [validation EXCEPT ![s] = duty] /\ validator' = [validator EXCEPT ![v] = to]
  BY DEF Validation!ClaimValidationJob
<1>2. ValidationType /\ SnapshotSound(s) /\ validation[s] \in ValidationRow
  BY DEF ValidationInv, ValidationType
<1>3. validation[s].gen \in Nat /\ validation[s].attempt \in Nat /\ validation[s].base \in Nat
  BY <1>2 DEF ValidationRow
<1>4. snapshot[s].status = "validating" /\ (validation[s].gen = 0 \/ validation[s].attempt < SnapshotAttempts)
  BY <1>2 DEF SnapshotSound, Validation!ClaimValidationJob, Validation!Claimable
<1>5. /\ duty.status = "running" /\ duty.base = validation[s].base /\ duty.gen = validation[s].gen + 1
      /\ duty.attempt = IF validation[s].gen > 0 THEN validation[s].attempt + 1 ELSE validation[s].attempt
      /\ duty.expired = FALSE
  BY <1>2 DEF ValidationRow
<1>6. duty \in ValidationRow
  <2>1. \A e \in ValidationRow, n \in Nat, m \in Nat :
          [e EXCEPT !.status = "running", !.attempt = n, !.gen = m, !.expired = FALSE] \in ValidationRow
    BY DEF ValidationRow
  <2>2. (IF validation[s].gen > 0 THEN validation[s].attempt + 1 ELSE validation[s].attempt) \in Nat
        /\ validation[s].gen + 1 \in Nat
    BY <1>3
  <2> QED
    BY <1>2, <2>1, <2>2
<1>7. to \in ValidatorType
  BY <1>3 DEF ValidatorType
<1> HIDE DEF duty, to
<1>8. ValidationType'
  BY <1>1, <1>2, <1>6, <1>7 DEF ValidationType
<1>9. validation'[s] = duty /\ validator'[v] = to
  BY <1>1, <1>2 DEF ValidationType
<1>10. SnapshotSound(s)'
  <2>1. ~ validation'[s].expired
    BY <1>5, <1>9, Zenon
  <2>2. duty.gen <= SnapshotAttempts /\ duty.attempt <= SnapshotAttempts /\ duty.gen > 0 /\ duty.attempt = duty.gen
    BY <1>2, <1>3, <1>4, <1>5, ServicesType DEF SnapshotSound
  <2> QED
    BY <1>1, <1>2, <1>4, <1>5, <1>9, <2>1, <2>2 DEF SnapshotSound
<1>11. ValidatorSound(v)'
  BY <1>1, <1>4, <1>9 DEF ValidatorSound, to
<1> QED
  BY <1>1, <1>2, <1>4, <1>8, <1>10, <1>11, JobMoves DEF ValidationType

LEMMA ValidateStep ==
  ASSUME ValidationInv, NEW v \in Validators, Validation!Validate(v)
  PROVE  ValidationInv' /\ Validation!VerdictsAreFinal
<1>1. PICK next \in {"reject", "complete", "release"} :
        /\ next = "complete" => Validation!Accepted(v)
        /\ validator' = [validator EXCEPT ![v].pc = next]
  BY DEF Validation!Validate
<1>2. /\ UNCHANGED <<object, snapshot, validation, workspace, artifacts, request, replaced>>
      /\ validator[v].pc = "validate"
  BY DEF Validation!Validate
<1>3. ValidationType /\ ValidatorSound(v) /\ validator[v] \in ValidatorType
  BY DEF ValidationInv, ValidationType
<1>4. /\ validator'[v] \in ValidatorType /\ validator'[v].pc = next /\ validator'[v].snapshot = validator[v].snapshot
      /\ validator'[v].pc # "idle"
  BY <1>1, <1>3 DEF ValidatorType, ValidationType
<1>5. ValidationType'
  BY <1>1, <1>2, <1>3, <1>4 DEF ValidationType
<1>6. ValidatorSound(v)'
  BY <1>1, <1>2, <1>3, <1>4 DEF ValidatorSound, Validation!Accepted, Validation!Intact, Validation!WellFormed,
     Validation!Of
<1>7. validator[v].snapshot \in Snapshots
  BY <1>2, <1>3 DEF ValidatorSound
<1> QED
  BY <1>1, <1>2, <1>3, <1>5, <1>6, <1>7, JobMoves DEF ValidationType

LEMMA ReleaseExpireCrashStep ==
  ASSUME ValidationInv,
         \/ \E v \in Validators : Validation!ReleaseValidation(v) \/ Validation!Crash(v)
         \/ \E s \in Snapshots : Validation!Expire(s)
  PROVE  ValidationInv' /\ Validation!VerdictsAreFinal
<1>1. \A e \in ValidationRow : [e EXCEPT !.status = "pending", !.expired = FALSE] \in ValidationRow
                               /\ [e EXCEPT !.expired = TRUE] \in ValidationRow
  BY DEF ValidationRow
<1>2. Validation!Idle \in ValidatorType /\ Validation!Idle.pc = "idle"
  BY DEF ValidatorType, Validation!Idle, Validation!None
<1>3. ValidationType
  BY DEF ValidationInv
<1>4. ASSUME NEW v \in Validators, Validation!ReleaseValidation(v)
      PROVE  ValidationInv' /\ Validation!VerdictsAreFinal
  <2>1. PICK s \in Snapshots : s = validator[v].snapshot
    BY <1>4 DEF ValidationInv, ValidatorSound, Validation!ReleaseValidation
  <2> DEFINE duty == [validation[s] EXCEPT !.status = "pending", !.expired = FALSE]
  <2>2. /\ UNCHANGED <<object, snapshot, workspace, artifacts, request, replaced>>
        /\ validator' = [validator EXCEPT ![v] = Validation!Idle]
        /\ \/ snapshot[s].status = "validating" /\ validation' = [validation EXCEPT ![s] = duty]
           \/ UNCHANGED validation
        /\ validation[s] \in ValidationRow /\ SnapshotSound(s)
    BY <1>3, <1>4, <2>1 DEF Validation!ReleaseValidation, Validation!Leased, Validation!Finished, Validation!Of,
       ValidationInv, ValidationType
  <2>3. /\ duty \in ValidationRow /\ duty.status = "pending" /\ duty.expired = FALSE /\ duty.gen = validation[s].gen
        /\ duty.attempt = validation[s].attempt /\ duty.base = validation[s].base
    BY <1>1, <2>2 DEF ValidationRow
  <2> HIDE DEF duty
  <2>4. ValidationType'
    BY <1>2, <1>3, <2>2, <2>3 DEF ValidationType
  <2>5. validator'[v].pc = "idle" /\ \A u \in Validators : u # v => validator'[u] = validator[u]
    BY <1>2, <1>3, <2>2 DEF ValidationType
  <2>6. validation'[s] = validation[s] \/ (snapshot[s].status = "validating" /\ SnapshotSound(s)')
    <3>1. SUFFICES ASSUME snapshot[s].status = "validating", validation' = [validation EXCEPT ![s] = duty]
                   PROVE  SnapshotSound(s)'
      BY <2>2
    <3>2. validation'[s] = duty
      BY <1>3, <3>1 DEF ValidationType
    <3>3. ~ validation'[s].expired
      BY <2>3, <3>2, Zenon
    <3> QED
      BY <2>2, <2>3, <3>1, <3>2, <3>3 DEF SnapshotSound
  <2>7. \A r \in Snapshots : r # s => validation'[r] = validation[r]
    BY <1>3, <2>2 DEF ValidationType
  <2> QED
    BY <2>2, <2>4, <2>5, <2>6, <2>7, JobMoves
<1>5. ASSUME NEW s \in Snapshots, Validation!Expire(s)
      PROVE  ValidationInv' /\ Validation!VerdictsAreFinal
  <2> DEFINE duty == [validation[s] EXCEPT !.expired = TRUE]
  <2>1. /\ UNCHANGED <<object, snapshot, workspace, artifacts, request, validator, replaced>>
        /\ validation[s].status = "running" /\ validation' = [validation EXCEPT ![s] = duty]
    BY <1>5 DEF Validation!Expire
  <2>2. validation[s] \in ValidationRow /\ SnapshotSound(s)
    BY <1>3 DEF ValidationInv, ValidationType
  <2>3. /\ duty \in ValidationRow /\ duty.status = "running" /\ duty.gen = validation[s].gen
        /\ duty.attempt = validation[s].attempt /\ duty.base = validation[s].base
    BY <1>1, <2>1, <2>2 DEF ValidationRow
  <2> HIDE DEF duty
  <2>4. ValidationType'
    BY <1>3, <2>1, <2>3 DEF ValidationType
  <2>5. validation'[s] = duty
    BY <1>3, <2>1 DEF ValidationType
  <2>6. snapshot[s].status = "validating" /\ SnapshotSound(s)'
    BY <2>1, <2>2, <2>3, <2>5 DEF SnapshotSound
  <2>7. \A v \in Validators : ValidatorSound(v)'
    BY <2>1 DEF ValidationInv, ValidatorSound
  <2>8. \A r \in Snapshots : r # s => validation'[r] = validation[r]
    BY <1>3, <2>1 DEF ValidationType
  <2> QED
    BY <2>1, <2>4, <2>6, <2>7, <2>8, JobMoves
<1>6. ASSUME NEW v \in Validators, Validation!Crash(v)
      PROVE  ValidationInv' /\ Validation!VerdictsAreFinal
  <2>1. /\ UNCHANGED <<object, snapshot, validation, workspace, artifacts, request, replaced>>
        /\ validator' = [validator EXCEPT ![v] = Validation!Idle]
    BY <1>6 DEF Validation!Crash
  <2>2. ValidationType' /\ validator'[v].pc = "idle" /\ \A u \in Validators : u # v => validator'[u] = validator[u]
    BY <1>2, <1>3, <2>1 DEF ValidationType
  <2>3. \A r \in Snapshots : SnapshotSound(r)'
    BY <2>1, SnapshotRests
  <2>4. \A u \in Validators : ValidatorSound(u)'
    BY <2>1, <2>2, ValidatorRests
  <2> QED
    BY <2>1, <2>2, <2>3, <2>4 DEF ValidationInv, HeadSound, Ready, Validation!VerdictsAreFinal
<1> QED
  BY <1>4, <1>5, <1>6

\* A verdict, or a report that is refused.
LEMMA VerdictStep ==
  ASSUME ValidationInv, NEW v \in Validators, Validation!CompleteValidation(v) \/ Validation!RejectValidation(v)
  PROVE  ValidationInv' /\ Validation!VerdictsAreFinal
<1>1. ValidationType
  BY DEF ValidationInv
<1>2. PICK s \in Snapshots : s = validator[v].snapshot
  BY DEF ValidationInv, ValidatorSound, Validation!CompleteValidation, Validation!RejectValidation
<1>3. /\ UNCHANGED <<object, request>> /\ validator' = [validator EXCEPT ![v] = Validation!Idle]
      /\ SnapshotSound(s) /\ ValidatorSound(v)
  BY DEF ValidationInv, Validation!CompleteValidation, Validation!RejectValidation
<1>4. Validation!Idle \in ValidatorType /\ Validation!Idle.pc = "idle"
  BY DEF ValidatorType, Validation!Idle, Validation!None
<1>5. /\ validator' \in [Validators -> ValidatorType]
      /\ \A u \in Validators : validator'[u] = validator[u] \/ validator'[u].pc = "idle"
  BY <1>1, <1>3, <1>4 DEF ValidationType
<1>6. CASE UNCHANGED <<snapshot, workspace, artifacts, validation, replaced>>
  <2>1. \A r \in Snapshots : SnapshotSound(r)'
    BY <1>3, <1>6, SnapshotRests
  <2>2. \A u \in Validators : ValidatorSound(u)'
    BY <1>3, <1>5, <1>6, ValidatorRests
  <2>3. ValidationType'
    BY <1>1, <1>3, <1>5, <1>6 DEF ValidationType
  <2> QED
    BY <1>3, <1>6, <2>1, <2>2, <2>3 DEF ValidationInv, HeadSound, Ready, Validation!VerdictsAreFinal
<1>7. ASSUME NEW verdict \in {"ready", "rejected"}, NEW outcome \in {"completed", "failed"},
             snapshot[s].status = "validating", validation[s].status = "running",
             snapshot' = [snapshot EXCEPT ![s].status = verdict],
             validation' = [validation EXCEPT ![s].status = outcome, ![s].expired = FALSE],
             \/ verdict = "rejected" /\ UNCHANGED <<workspace, artifacts, replaced>>
             \/ /\ verdict = "ready" /\ workspace' = [head |-> s, version |-> workspace.version + 1]
                /\ artifacts' = [artifacts EXCEPT ![s] = @ + 1] /\ replaced' = [replaced EXCEPT ![s] = workspace.head]
                /\ validation[s].base = workspace.version
                /\ object[s] = snapshot[s].expected /\ object[s] \in Sound
      PROVE  ValidationInv' /\ Validation!VerdictsAreFinal
  <2>1. snapshot[s] \in SnapshotRow /\ validation[s] \in ValidationRow /\ workspace.version \in Nat
        /\ artifacts[s] = 0 /\ workspace.head \in Snapshots \union {"none"}
    BY <1>1, <1>3, <1>7 DEF ValidationType, SnapshotSound
  <2>2. /\ snapshot'[s] \in SnapshotRow /\ snapshot'[s].status = verdict
        /\ snapshot'[s].expected = snapshot[s].expected /\ snapshot'[s].seen = snapshot[s].seen
        /\ \A r \in Snapshots : r # s => snapshot'[r] = snapshot[r]
    BY <1>1, <1>7, <2>1 DEF ValidationType, SnapshotRow
  <2>3. /\ validation'[s] \in ValidationRow /\ validation'[s].status = outcome /\ validation'[s].expired = FALSE
        /\ validation'[s].gen = validation[s].gen /\ validation'[s].attempt = validation[s].attempt
        /\ validation'[s].base = validation[s].base
        /\ \A r \in Snapshots : r # s => validation'[r] = validation[r]
    BY <1>1, <1>7, <2>1 DEF ValidationType, ValidationRow
  <2>4. /\ \A r \in Snapshots : r # s => artifacts'[r] = artifacts[r] /\ replaced'[r] = replaced[r]
        /\ verdict = "ready" => artifacts'[s] = 1 /\ replaced'[s] = workspace.head
        /\ verdict = "rejected" => artifacts'[s] = 0
        /\ artifacts' \in [Snapshots -> Nat] /\ replaced' \in [Snapshots -> Snapshots \union {"none"}]
    BY <1>1, <1>7, <2>1 DEF ValidationType
  <2>5. /\ workspace' \in [head : Snapshots \union {"none"}, version : Nat]
        /\ workspace' = workspace \/ workspace'.version = workspace.version + 1
        /\ verdict = "ready" => workspace'.head = s /\ workspace'.version = workspace.version + 1
        /\ verdict = "rejected" => workspace' = workspace
    BY <1>1, <1>7, <2>1 DEF ValidationType
  <2>6. ValidationType'
    <3>1. snapshot' \in [Snapshots -> SnapshotRow]
      BY <1>1, <1>7, <2>2 DEF ValidationType
    <3>2. validation' \in [Snapshots -> ValidationRow]
      BY <1>1, <1>7, <2>3 DEF ValidationType
    <3> QED
      BY <1>1, <1>3, <1>5, <2>4, <2>5, <3>1, <3>2 DEF ValidationType
  <2>7. SnapshotSound(s)'
    <3>1. ~ validation'[s].expired
      BY <2>3, Zenon
    <3>2. verdict = "ready" => object'[s] = snapshot'[s].expected /\ object'[s] \in Sound /\ replaced'[s] = snapshot'[s].seen
      BY <1>3, <1>7, <2>2, <2>4 DEF SnapshotSound
    <3>3. snapshot[s].expected \in Contents
      BY <1>3, <1>7 DEF SnapshotSound
    <3> QED
      BY <1>3, <1>7, <2>2, <2>3, <2>4, <3>1, <3>2, <3>3 DEF SnapshotSound
  <2>8. \A r \in Snapshots : SnapshotSound(r)'
    BY <1>3, <2>2, <2>3, <2>4, <2>5, <2>7, SnapshotRests
  <2>9. \A u \in Validators : ValidatorSound(u)'
    BY <1>3, <1>5, <2>2, ValidatorRests
  <2>10. HeadSound'
    <3>1. IsFiniteSet(Ready) /\ s \notin Ready
      BY <1>7, ServicesType, FS_Subset DEF Ready
    <3>2. Ready' = IF verdict = "ready" THEN Ready \union {s} ELSE Ready
      BY <1>7, <2>2 DEF Ready
    <3>3. Cardinality(Ready \union {s}) = Cardinality(Ready) + 1
      BY <3>1, FS_AddElement
    <3>4. workspace'.version = Cardinality(Ready')
      BY <1>7, <2>5, <3>2, <3>3 DEF ValidationInv, HeadSound
    <3>5. workspace'.head = "none" \/ snapshot'[workspace'.head].status = "ready"
      <4>1. CASE verdict = "ready"
        BY <2>2, <2>5, <4>1
      <4>2. CASE verdict = "rejected"
        <5>1. workspace.head = "none" \/ workspace.head # s
          BY <1>7 DEF ValidationInv, HeadSound, SnapshotSound
        <5> QED
          BY <2>1, <2>2, <2>5, <4>2, <5>1 DEF ValidationInv, HeadSound
      <4> QED
        BY <1>7, <4>1, <4>2
    <3> QED
      BY <3>4, <3>5 DEF HeadSound
  <2>11. Validation!VerdictsAreFinal
    BY <1>7, <2>2, <2>3 DEF Validation!VerdictsAreFinal
  <2> QED
    BY <2>6, <2>8, <2>9, <2>10, <2>11 DEF ValidationInv
<1>8. CASE Validation!CompleteValidation(v)
  <2>1. SUFFICES ASSUME ~ UNCHANGED <<snapshot, workspace, artifacts, validation, replaced>>
                 PROVE  ValidationInv' /\ Validation!VerdictsAreFinal
    BY <1>6
  <2>2. /\ Validation!NotMoved(v) /\ Validation!Leased(v)
        /\ snapshot' = [snapshot EXCEPT ![s].status = "ready"]
        /\ workspace' = [head |-> s, version |-> workspace.version + 1]
        /\ artifacts' = [artifacts EXCEPT ![s] = @ + 1] /\ replaced' = [replaced EXCEPT ![s] = workspace.head]
        /\ validation' = [validation EXCEPT ![s].status = "completed", ![s].expired = FALSE]
    BY <1>2, <1>8, <2>1 DEF Validation!CompleteValidation, Validation!Of, Validation!Promoted, Validation!Finished
  <2>3. snapshot[s].status = "validating" /\ validation[s].status = "running" /\ validation[s].base = workspace.version
    BY <1>2, <2>2 DEF Validation!NotMoved, Validation!Leased, Validation!Of
  <2>4. object[s] = snapshot[s].expected /\ object[s] \in Sound
    BY <1>2, <1>3, <1>8 DEF ValidatorSound, Validation!CompleteValidation
  <2> QED
    BY <1>7, <2>2, <2>3, <2>4
<1>9. CASE Validation!RejectValidation(v)
  <2>1. SUFFICES ASSUME ~ UNCHANGED <<snapshot, workspace, artifacts, validation, replaced>>
                 PROVE  ValidationInv' /\ Validation!VerdictsAreFinal
    BY <1>6
  <2>2. /\ Validation!Leased(v) /\ UNCHANGED <<workspace, artifacts, replaced>>
        /\ snapshot' = [snapshot EXCEPT ![s].status = "rejected"]
        /\ validation' = [validation EXCEPT ![s].status = "failed", ![s].expired = FALSE]
    BY <1>2, <1>9, <2>1 DEF Validation!RejectValidation, Validation!Of, Validation!Finished
  <2>3. snapshot[s].status = "validating" /\ validation[s].status = "running"
    BY <1>2, <2>2 DEF Validation!Leased, Validation!Of
  <2> QED
    BY <1>7, <2>2, <2>3
<1> QED
  BY <1>8, <1>9

LEMMA ValidationStep ==
  ASSUME ValidationInv, [Validation!Next]_Validation!vars
  PROVE  ValidationInv' /\ Validation!VerdictsAreFinal
<1>1. CASE UNCHANGED Validation!vars
  <2>1. UNCHANGED <<object, snapshot, validation, workspace, artifacts, request, validator, replaced>>
    BY <1>1 DEF Validation!vars
  <2>2. ValidationType' /\ HeadSound'
    BY <2>1 DEF ValidationInv, ValidationType, HeadSound, Ready
  <2>3. \A s \in Snapshots : SnapshotSound(s)'
    BY <2>1, SnapshotRests
  <2>4. \A v \in Validators : ValidatorSound(v)'
    BY <2>1, ValidatorRests
  <2> QED
    BY <2>1, <2>2, <2>3, <2>4 DEF ValidationInv, Validation!VerdictsAreFinal
<1> QED
  BY <1>1, EndpointStep, BeginValidationStep, ClaimStep, ValidateStep, VerdictStep, ReleaseExpireCrashStep
  DEF Validation!Next, Validation!Progress

----------------------------------------------------------------------------
(* Deletion *)

\* The objects whose deletion can be seen to: they had their row before it was asked for.
Kept == stored \ loose
USE DEF Kept

Lease == Lifecycle!Objects \X Nat
Entry ==
  [status : {"none", "pending", "running", "completed", "failed"}, reason : {"none", "tenant", "retention"},
   attempt : Nat, gen : Nat, expired : BOOLEAN]
CleanerType ==
  [pc : {"idle", "claim", "delete", "complete", "fail"}, batch : SUBSET Lease, object : Lease \union {<<>>}]

LifecycleType ==
  /\ status \in {"active", "requested", "deleting", "deleted"}
  /\ rows \subseteq Lifecycle!Objects /\ stored \subseteq Lifecycle!Objects /\ scan \subseteq Lifecycle!Objects
  /\ runs \in [Patches -> {"none", "running", "ended"}]
  /\ outbox \in [Lifecycle!Objects -> Entry] /\ cleaner \in [Cleaners -> CleanerType]

\* An object and its job.  The job of a completed deletion has left no object, and a deleted tenant has none.
ObjectSound(o) ==
  /\ outbox[o].attempt <= LifecycleAttempts
  /\ outbox[o].status = "none" => outbox[o] = Lifecycle!NoEntry
  /\ outbox[o].expired => outbox[o].status = "running"
  /\ held => outbox[o].status # "running"
  /\ o \in Kept => o \in rows /\ outbox[o].status # "completed"
  /\ status = "deleted" => o \notin rows /\ outbox[o].status \in {"none", "completed"}

\* A worker's batch holds queued objects.  Those it is claiming wait for their lease, and one it reports as
\* deleted is gone.
CleanerSound(c) ==
  /\ \A lease \in cleaner[c].batch : outbox[lease[1]].status # "none"
  /\ cleaner[c].pc = "claim" =>
       \A lease \in cleaner[c].batch :
         /\ outbox[lease[1]].status = "pending" \/ outbox[lease[1]].expired
         /\ outbox[lease[1]].attempt < LifecycleAttempts
  /\ cleaner[c].pc \in {"complete", "fail"} => cleaner[c].object \in cleaner[c].batch
  /\ cleaner[c].pc = "complete" => cleaner[c].object[1] \notin Kept

\* Locked rows are skipped: no two workers claim one object.
ClaimsDisjoint ==
  \A c, d \in Cleaners : \A k \in cleaner[c].batch, l \in cleaner[d].batch :
    cleaner[c].pc = "claim" /\ cleaner[d].pc = "claim" /\ k[1] = l[1] => c = d

\* A deleted tenant has no run and gets none: what an operation finds there it has made itself.
Closed == status = "deleted" => ~Lifecycle!Running /\ ~(space /\ admitted)

LifecycleInv ==
  /\ LifecycleType /\ ClaimsDisjoint /\ Closed
  /\ \A o \in Lifecycle!Objects : ObjectSound(o)
  /\ \A c \in Cleaners : CleanerSound(c)

LEMMA LifecycleInit == Lifecycle!Init => LifecycleInv
<1> SUFFICES ASSUME Lifecycle!Init PROVE LifecycleInv
  OBVIOUS
<1> USE DEF Lifecycle!Init, Lifecycle!NoEntry, Lifecycle!Resting
<1>1. LifecycleType
  BY DEF LifecycleType, Entry, CleanerType, Lease
<1>2. ASSUME NEW o \in Lifecycle!Objects PROVE ObjectSound(o)
  BY ServicesType DEF ObjectSound
<1>3. Closed /\ ClaimsDisjoint /\ \A c \in Cleaners : CleanerSound(c)
  BY DEF Closed, ClaimsDisjoint, CleanerSound
<1> QED
  BY <1>1, <1>2, <1>3 DEF LifecycleInv

\* The invariant says what the properties say.
LEMMA LifecycleInvImplies == LifecycleInv => Lifecycle!DeletionIsClean
<1> SUFFICES ASSUME LifecycleInv PROVE Lifecycle!DeletionIsClean
  OBVIOUS
<1> USE DEF LifecycleInv
<1>1. ASSUME NEW o \in Lifecycle!Objects
      PROVE  /\ outbox[o].status \in {"none", "pending", "running", "completed", "failed"}
             /\ outbox[o].attempt \in 0 .. LifecycleAttempts
  BY ServicesType DEF LifecycleType, Entry, ObjectSound
<1>2. Lifecycle!LifecycleTypeOK
  BY <1>1 DEF Lifecycle!LifecycleTypeOK, LifecycleType
<1>3. Lifecycle!OnlyLostLeasesUnderHold
  BY DEF Lifecycle!OnlyLostLeasesUnderHold, ObjectSound, LifecycleType, CleanerType, Lease
<1>5. Lifecycle!MetadataGoesLast
  BY DEF Lifecycle!MetadataGoesLast, ObjectSound, LifecycleType
<1>4. Lifecycle!DeletedTenantIsClean
  BY DEF Lifecycle!DeletedTenantIsClean, ObjectSound, LifecycleType, Closed
<1> QED
  BY <1>2, <1>3, <1>4, <1>5 DEF Lifecycle!DeletionIsClean

\* The workers do not notice what happens around them, as long as jobs stay and no object comes back for one.
LEMMA CleanersRest ==
  ASSUME LifecycleInv, UNCHANGED cleaner,
         \A o \in Lifecycle!Objects : outbox[o].status # "none" =>
            outbox'[o] = outbox[o] /\ (o \in Kept' => o \in Kept)
  PROVE  ClaimsDisjoint' /\ \A c \in Cleaners : CleanerSound(c)'
<1>1. ClaimsDisjoint'
  BY DEF LifecycleInv, ClaimsDisjoint
<1>2. ASSUME NEW c \in Cleaners PROVE CleanerSound(c)'
  <2>1. CleanerSound(c) /\ cleaner[c].batch \subseteq Lease
    BY DEF LifecycleInv, LifecycleType, CleanerType
  <2>2. \A lease \in cleaner[c].batch : lease[1] \in Lifecycle!Objects /\ outbox'[lease[1]] = outbox[lease[1]]
    BY <2>1 DEF CleanerSound, Lease
  <2>3. cleaner[c].pc = "complete" => cleaner[c].object[1] \notin Kept'
    BY <2>1, <2>2 DEF CleanerSound
  <2> QED
    BY <2>1, <2>2, <2>3 DEF CleanerSound
<1> QED
  BY <1>1, <1>2

\* Steps that change neither jobs nor objects.
LEMMA AdministrationStep ==
  ASSUME LifecycleInv,
         \/ Lifecycle!Admit \/ Lifecycle!PlaceLegalHold \/ Lifecycle!ReleaseLegalHold \/ Lifecycle!ExportAudit
         \/ Lifecycle!RequestTenantDeletion \/ Lifecycle!BeginTenantDeletion \/ Lifecycle!ScanExpired
         \/ UNCHANGED Lifecycle!vars
  PROVE  LifecycleInv' /\ Lifecycle!DeletionOutcomesAreFinal
<1> USE DEF Lifecycle!Admit, Lifecycle!PlaceLegalHold, Lifecycle!ReleaseLegalHold, Lifecycle!ExportAudit,
     Lifecycle!RequestTenantDeletion, Lifecycle!BeginTenantDeletion, Lifecycle!ScanExpired, Lifecycle!vars
<1>1. UNCHANGED <<runs, space, rows, stored, loose, outbox, cleaner>>
  OBVIOUS
<1>2. /\ status' = status \/ status' \in {"requested", "deleting"}
      /\ admitted' # admitted => status = "active" /\ status' = status
  OBVIOUS
<1>3. scan' \subseteq Lifecycle!Objects
  BY DEF LifecycleInv, LifecycleType, Lifecycle!Unqueued
<1>4. ASSUME NEW o \in Lifecycle!Objects, held' PROVE outbox[o].status # "running"
  BY <1>4 DEF Lifecycle!MayHold, LifecycleInv, ObjectSound
<1> USE DEF LifecycleInv
<1>5. LifecycleType' /\ Closed'
  BY <1>1, <1>2, <1>3 DEF LifecycleType, Closed, Lifecycle!Running
<1>6. \A o \in Lifecycle!Objects : ObjectSound(o)'
  BY <1>1, <1>2, <1>4 DEF ObjectSound
<1>7. ClaimsDisjoint' /\ \A c \in Cleaners : CleanerSound(c)'
  BY <1>1, CleanersRest
<1> QED
  BY <1>1, <1>5, <1>6, <1>7 DEF Lifecycle!DeletionOutcomesAreFinal

\* Rows and objects come before their job, or they are loose.
LEMMA WritesStep ==
  ASSUME LifecycleInv,
         \/ Lifecycle!Perform \/ \E o \in Sources : Lifecycle!Upload(o)
         \/ \E o \in Patches : Lifecycle!UploadPatch(o) \/ Lifecycle!CreateArtifact(o) \/ Lifecycle!EndRun(o)
  PROVE  LifecycleInv' /\ Lifecycle!DeletionOutcomesAreFinal
<1>1. UNCHANGED <<status, held, outbox, scan, cleaner>>
  BY DEF Lifecycle!Perform, Lifecycle!CreateWorkspace, Lifecycle!SubmitRun, Lifecycle!CreateSourceSnapshot,
         Lifecycle!Upload, Lifecycle!UploadPatch, Lifecycle!CreateArtifact, Lifecycle!EndRun
<1>2. runs' \in [Patches -> {"none", "running", "ended"}] /\ Closed'
  <2>1. CASE Lifecycle!Perform
    BY <2>1 DEF Lifecycle!Perform, Lifecycle!CreateWorkspace, Lifecycle!SubmitRun, Lifecycle!CreateSourceSnapshot,
               LifecycleInv, LifecycleType, Closed, Lifecycle!Running
  <2>2. CASE \E o \in Patches : Lifecycle!EndRun(o)
    BY <2>2 DEF Lifecycle!EndRun, LifecycleInv, LifecycleType, Closed, Lifecycle!Running
  <2>3. CASE \/ \E o \in Sources : Lifecycle!Upload(o)
             \/ \E o \in Patches : Lifecycle!UploadPatch(o) \/ Lifecycle!CreateArtifact(o)
    <3>1. UNCHANGED <<status, runs, admitted, space>>
      BY <2>3 DEF Lifecycle!Upload, Lifecycle!UploadPatch, Lifecycle!CreateArtifact
    <3> QED
      BY <3>1 DEF LifecycleInv, LifecycleType, Closed, Lifecycle!Running
  <2> QED
    BY <2>1, <2>2, <2>3
\* What the step does to a row and to an object.
<1>3. \/ UNCHANGED <<rows, stored, loose>>
      \/ /\ status # "deleted" /\ stored' = stored
         /\ \E o \in Lifecycle!Objects :
              rows' = rows \union {o} /\ loose' = IF outbox[o] = Lifecycle!NoEntry THEN loose \ {o} ELSE loose
      \/ /\ status # "deleted" /\ UNCHANGED <<stored, loose>>
         /\ \E o \in Lifecycle!Objects : rows' = rows \union {o}
      \/ /\ rows' = rows
         /\ \E o \in Lifecycle!Objects : Lifecycle!Put(o)
  <2>1. CASE Lifecycle!Perform
    BY <2>1 DEF Lifecycle!Perform, Lifecycle!CreateWorkspace, Lifecycle!SubmitRun, Lifecycle!CreateSourceSnapshot,
               Lifecycle!Objects, LifecycleInv, Closed
  <2>2. ASSUME NEW o \in Patches, Lifecycle!EndRun(o) PROVE UNCHANGED <<rows, stored, loose>>
    BY <2>2 DEF Lifecycle!EndRun
  <2>3. CASE \/ \E o \in Sources : Lifecycle!Upload(o)
             \/ \E o \in Patches : Lifecycle!UploadPatch(o)
    BY <2>3 DEF Lifecycle!Upload, Lifecycle!UploadPatch, Lifecycle!Objects
  <2>4. ASSUME NEW o \in Patches, Lifecycle!CreateArtifact(o)
        PROVE  /\ status # "deleted" /\ stored' = stored /\ o \in Lifecycle!Objects /\ rows' = rows \union {o}
               /\ loose' = IF outbox[o] = Lifecycle!NoEntry THEN loose \ {o} ELSE loose
    BY <2>4 DEF Lifecycle!CreateArtifact, Lifecycle!Objects, LifecycleInv, Closed, Lifecycle!Running
  <2> QED
    BY <2>1, <2>2, <2>3, <2>4
<1>4. /\ rows \subseteq rows' /\ (rows' # rows => status # "deleted")
      /\ rows' \subseteq Lifecycle!Objects /\ stored' \subseteq Lifecycle!Objects
  BY <1>3 DEF Lifecycle!Put, LifecycleInv, LifecycleType
\* Only an object without a job becomes one that is kept, and it has its row.
<1>5. ASSUME NEW o \in Lifecycle!Objects, o \in Kept', o \notin Kept
      PROVE  outbox[o] = Lifecycle!NoEntry /\ o \in rows'
  BY <1>3, <1>5 DEF Lifecycle!Put, Lifecycle!Unqueued
<1> HIDE DEF Kept
<1>6. \A o \in Lifecycle!Objects : outbox[o].status # "none" => (o \in Kept' => o \in Kept)
  BY <1>5 DEF Lifecycle!NoEntry
<1>7. LifecycleType'
  BY <1>1, <1>2, <1>4 DEF LifecycleInv, LifecycleType
<1>8. \A o \in Lifecycle!Objects : ObjectSound(o)'
  BY <1>1, <1>4, <1>5 DEF LifecycleInv, ObjectSound, Lifecycle!NoEntry
<1>9. ClaimsDisjoint' /\ \A c \in Cleaners : CleanerSound(c)'
  BY <1>1, <1>6, CleanersRest
<1> QED
  BY <1>1, <1>2, <1>7, <1>8, <1>9 DEF LifecycleInv, Lifecycle!DeletionOutcomesAreFinal

\* Jobs are made only for objects that have none.
LEMMA EnqueueStep ==
  ASSUME LifecycleInv, Lifecycle!EnqueueTenantObjects \/ Lifecycle!EnqueueExpired
  PROVE  LifecycleInv' /\ Lifecycle!DeletionOutcomesAreFinal
<1> DEFINE New(reason) == [Lifecycle!NoEntry EXCEPT !.status = "pending", !.reason = reason]
<1>1. /\ UNCHANGED <<status, held, runs, admitted, space, rows, stored, loose, cleaner>>
      /\ scan' \in {scan, {}}
      /\ \/ UNCHANGED outbox
         \/ /\ status # "deleted"
            /\ \E reason \in {"tenant", "retention"}, some \in SUBSET Lifecycle!Objects :
                 outbox' = [o \in Lifecycle!Objects |->
                              IF o \in some /\ outbox[o] = Lifecycle!NoEntry THEN New(reason) ELSE outbox[o]]
  BY DEF LifecycleInv, LifecycleType, Lifecycle!EnqueueTenantObjects, Lifecycle!EnqueueExpired, Lifecycle!Queued,
         Lifecycle!CleanupAllowed, Lifecycle!Unqueued
<1>2. \A reason \in {"tenant", "retention"} :
        /\ New(reason) \in Entry /\ New(reason).status = "pending" /\ New(reason).attempt = 0
        /\ ~New(reason).expired
  BY DEF Entry, Lifecycle!NoEntry
<1> HIDE DEF New
<1>3. LifecycleType' /\ Closed'
  BY <1>1, <1>2 DEF LifecycleInv, LifecycleType, Closed, Lifecycle!Running
<1>4. ASSUME NEW o \in Lifecycle!Objects
      PROVE  \/ outbox'[o] = outbox[o]
             \/ /\ status # "deleted" /\ outbox[o] = Lifecycle!NoEntry
                /\ outbox'[o].status = "pending" /\ outbox'[o].attempt = 0 /\ ~outbox'[o].expired
  BY <1>1, <1>2
<1>5. \A o \in Lifecycle!Objects : ObjectSound(o)'
  BY <1>1, <1>4, ServicesType DEF LifecycleInv, ObjectSound
<1>6. \A o \in Lifecycle!Objects : outbox[o].status # "none" => outbox'[o] = outbox[o]
  BY <1>4 DEF Lifecycle!NoEntry
<1>7. ClaimsDisjoint' /\ \A c \in Cleaners : CleanerSound(c)'
  BY <1>1, <1>6, CleanersRest
<1> QED
  BY <1>3, <1>5, <1>6, <1>7 DEF LifecycleInv, Lifecycle!DeletionOutcomesAreFinal

\* When all jobs are completed no object is left.
LEMMA FinalizeStep ==
  ASSUME LifecycleInv, Lifecycle!FinalizeTenantDeletion
  PROVE  LifecycleInv' /\ Lifecycle!DeletionOutcomesAreFinal
<1> USE DEF Lifecycle!FinalizeTenantDeletion
<1>1. \A o \in Lifecycle!Objects : o \notin Kept /\ outbox[o].status \in {"none", "completed"}
  BY DEF LifecycleInv, ObjectSound, Lifecycle!ObjectsDeleted, Lifecycle!Unqueued
<1>2. LifecycleType' /\ Closed'
  BY DEF LifecycleInv, LifecycleType, Closed, Lifecycle!Running
<1>3. \A o \in Lifecycle!Objects : ObjectSound(o)'
  BY <1>1 DEF LifecycleInv, ObjectSound
<1>4. ClaimsDisjoint' /\ \A c \in Cleaners : CleanerSound(c)'
  BY CleanersRest
<1> QED
  BY <1>2, <1>3, <1>4 DEF LifecycleInv, Lifecycle!DeletionOutcomesAreFinal

----------------------------------------------------------------------------

\* Claims stay disjoint in every step that begins none.
LEMMA ClaimsStay ==
  ASSUME LifecycleInv, \A d \in Cleaners : cleaner'[d].pc = "claim" => cleaner'[d] = cleaner[d]
  PROVE  ClaimsDisjoint'
BY DEF LifecycleInv, ClaimsDisjoint

\* A worker does not notice what others do, unless to the jobs it is claiming.
LEMMA CleanerRests ==
  ASSUME LifecycleInv, NEW d \in Cleaners, cleaner'[d] = cleaner[d], Kept' \subseteq Kept,
         \A o \in Lifecycle!Objects : outbox[o].status # "none" => outbox'[o].status # "none",
         cleaner[d].pc = "claim" => \A lease \in cleaner[d].batch : outbox'[lease[1]] = outbox[lease[1]]
  PROVE  CleanerSound(d)'
<1>1. CleanerSound(d) /\ cleaner[d].batch \subseteq Lease
  BY DEF LifecycleInv, LifecycleType, CleanerType
<1>2. \A lease \in cleaner[d].batch : lease[1] \in Lifecycle!Objects
  BY <1>1 DEF Lease
<1> QED
  BY <1>1, <1>2 DEF CleanerSound

\* What a worker is claiming is locked.
LEMMA ClaimingMeans ==
  ASSUME NEW d \in Cleaners, cleaner[d].pc = "claim", NEW lease \in cleaner[d].batch
  PROVE  Lifecycle!Claiming(lease[1])
BY DEF Lifecycle!Claiming

LEMMA SelectStep ==
  ASSUME LifecycleInv, NEW c \in Cleaners, Lifecycle!SelectDeletions(c)
  PROVE  LifecycleInv' /\ Lifecycle!DeletionOutcomesAreFinal
<1>1. /\ cleaner[c] = Lifecycle!Resting
      /\ UNCHANGED <<status, runs, admitted, space, held, rows, stored, loose, outbox, scan>>
  BY DEF Lifecycle!SelectDeletions
<1>2. PICK some \in SUBSET Lifecycle!Objects :
        /\ \A o \in some : /\ outbox[o].status = "pending" \/ outbox[o].expired
                           /\ Lifecycle!Retryable(o) /\ ~Lifecycle!Claiming(o)
        /\ cleaner' = [cleaner EXCEPT ![c] = [pc |-> "claim", batch |-> {<<o, outbox[o].gen + 1>> : o \in some},
                                              object |-> <<>>]]
  BY DEF Lifecycle!SelectDeletions
<1>3. /\ cleaner'[c].pc = "claim" /\ cleaner'[c].batch = {<<o, outbox[o].gen + 1>> : o \in some}
      /\ cleaner'[c].object = <<>>
      /\ \A d \in Cleaners \ {c} : cleaner'[d] = cleaner[d]
  BY <1>2 DEF LifecycleInv, LifecycleType
<1>4. \A o \in some : <<o, outbox[o].gen + 1>> \in Lease
  BY DEF LifecycleInv, LifecycleType, Entry, Lease
<1>5. LifecycleType' /\ Closed'
  <2>1. [pc |-> "claim", batch |-> {<<o, outbox[o].gen + 1>> : o \in some}, object |-> <<>>] \in CleanerType
    BY <1>4 DEF CleanerType
  <2>2. cleaner' \in [Cleaners -> CleanerType]
    BY <1>2, <2>1 DEF LifecycleInv, LifecycleType
  <2> QED
    BY <1>1, <2>2 DEF LifecycleInv, LifecycleType, Closed, Lifecycle!Running
<1>6. \A o \in Lifecycle!Objects : ObjectSound(o)'
  BY <1>1 DEF LifecycleInv, ObjectSound
<1>7. \A lease \in cleaner'[c].batch : lease[1] \in some
  BY <1>3
<1>8. ClaimsDisjoint'
  <2> SUFFICES ASSUME NEW d \in Cleaners, NEW e \in Cleaners, NEW k \in cleaner'[d].batch, NEW l \in cleaner'[e].batch,
                      cleaner'[d].pc = "claim", cleaner'[e].pc = "claim", k[1] = l[1]
               PROVE  d = e
    BY DEF ClaimsDisjoint
  <2>1. CASE d = c /\ e = c
    BY <2>1
  <2>2. CASE d = c /\ e # c
    <3>1. Lifecycle!Claiming(l[1])
      BY <1>3, <2>2, ClaimingMeans
    <3> QED
      BY <1>2, <1>7, <2>2, <3>1
  <2>3. CASE d # c /\ e = c
    <3>1. Lifecycle!Claiming(k[1])
      BY <1>3, <2>3, ClaimingMeans
    <3> QED
      BY <1>2, <1>7, <2>3, <3>1
  <2>4. CASE d # c /\ e # c
    BY <1>3, <2>4 DEF LifecycleInv, ClaimsDisjoint
  <2> QED
    BY <2>1, <2>2, <2>3, <2>4
<1>9. ASSUME NEW d \in Cleaners PROVE CleanerSound(d)'
  <2>1. CASE d # c
    BY <1>1, <1>3, <2>1, CleanerRests
  <2>2. CASE d = c
    <3>1. \A o \in some : /\ outbox[o].status # "none" /\ outbox[o].attempt < LifecycleAttempts
                          /\ outbox[o].status = "pending" \/ outbox[o].expired
      BY <1>2 DEF Lifecycle!Retryable, LifecycleInv, ObjectSound
    <3> QED
      BY <1>1, <1>3, <1>7, <2>2, <3>1 DEF CleanerSound
  <2> QED
    BY <2>1, <2>2
<1> QED
  BY <1>1, <1>5, <1>6, <1>8, <1>9 DEF LifecycleInv, Lifecycle!DeletionOutcomesAreFinal

\* A lease that ran out is recovered: the job waits again, or has failed.
LEMMA RecoveredEntry ==
  ASSUME LifecycleInv, NEW o \in Lifecycle!Objects, outbox[o].status = "running"
  PROVE  /\ Lifecycle!Recovered(o) \in Entry /\ ~Lifecycle!Recovered(o).expired
         /\ Lifecycle!Recovered(o).status \in {"pending", "failed"}
         /\ Lifecycle!Recovered(o).attempt = outbox[o].attempt
<1>1. outbox[o] \in Entry
  BY DEF LifecycleInv, LifecycleType
<1>2. PICK s \in {"pending", "failed"} :
         Lifecycle!Recovered(o) = [outbox[o] EXCEPT !.status = s, !.expired = FALSE]
  BY DEF Lifecycle!Recovered
<1>3. LET f == Lifecycle!Recovered(o)
      IN  f \in Entry /\ f.expired = FALSE /\ f.status = s /\ f.attempt = outbox[o].attempt
  BY <1>1, <1>2 DEF Entry
<1>4. ~Lifecycle!Recovered(o).expired
  BY <1>3, Zenon
<1> QED
  BY <1>3, <1>4

\* A step that changes jobs which are leased, to ones that wait or are done, and takes no object back.
LEMMA JobsMove ==
  ASSUME LifecycleInv, UNCHANGED <<status, held, runs, admitted, space, rows, stored, loose, scan>>,
         outbox' \in [Lifecycle!Objects -> Entry], cleaner' \in [Cleaners -> CleanerType],
         \A o \in Lifecycle!Objects :
           \/ outbox'[o] = outbox[o]
           \/ /\ outbox[o].status = "running" /\ outbox'[o].status \in {"pending", "failed"}
              /\ ~outbox'[o].expired /\ outbox'[o].attempt = outbox[o].attempt
  PROVE  /\ LifecycleType' /\ Closed' /\ \A o \in Lifecycle!Objects : ObjectSound(o)'
         /\ Lifecycle!DeletionOutcomesAreFinal
         /\ \A o \in Lifecycle!Objects : outbox[o].status # "none" => outbox'[o].status # "none"
<1>1. LifecycleType' /\ Closed'
  BY DEF LifecycleInv, LifecycleType, Closed, Lifecycle!Running
<1>2. \A o \in Lifecycle!Objects : ObjectSound(o)'
  BY DEF LifecycleInv, ObjectSound
<1> QED
  BY <1>1, <1>2 DEF Lifecycle!DeletionOutcomesAreFinal

LEMMA RecoverStep ==
  ASSUME LifecycleInv, NEW c \in Cleaners, Lifecycle!RecoverExpired(c)
  PROVE  LifecycleInv' /\ Lifecycle!DeletionOutcomesAreFinal
<1>1. UNCHANGED <<status, runs, admitted, space, held, rows, stored, loose, scan, cleaner>>
  BY DEF Lifecycle!RecoverExpired
<1>2. PICK o \in Lifecycle!Objects : /\ outbox[o].expired /\ ~Lifecycle!Claiming(o)
                                     /\ outbox' = [outbox EXCEPT ![o] = Lifecycle!Recovered(o)]
  BY DEF Lifecycle!RecoverExpired
<1>3. outbox[o].status = "running"
  BY <1>2 DEF LifecycleInv, ObjectSound
<1>4. /\ Lifecycle!Recovered(o) \in Entry /\ ~Lifecycle!Recovered(o).expired
      /\ Lifecycle!Recovered(o).status \in {"pending", "failed"}
      /\ Lifecycle!Recovered(o).attempt = outbox[o].attempt
  BY <1>3, RecoveredEntry
<1>5. /\ outbox' \in [Lifecycle!Objects -> Entry] /\ outbox'[o] = Lifecycle!Recovered(o)
      /\ \A p \in Lifecycle!Objects \ {o} : outbox'[p] = outbox[p]
  BY <1>2, <1>4 DEF LifecycleInv, LifecycleType
<1>6. cleaner' \in [Cleaners -> CleanerType]
  BY <1>1 DEF LifecycleInv, LifecycleType
<1>7. /\ LifecycleType' /\ Closed' /\ \A p \in Lifecycle!Objects : ObjectSound(p)'
      /\ Lifecycle!DeletionOutcomesAreFinal
      /\ \A p \in Lifecycle!Objects : outbox[p].status # "none" => outbox'[p].status # "none"
  BY <1>1, <1>3, <1>4, <1>5, <1>6, JobsMove
<1>8. ASSUME NEW d \in Cleaners PROVE CleanerSound(d)'
  <2>1. ASSUME cleaner[d].pc = "claim", NEW lease \in cleaner[d].batch PROVE outbox'[lease[1]] = outbox[lease[1]]
    <3>1. lease[1] \in Lifecycle!Objects
      BY DEF LifecycleInv, LifecycleType, CleanerType, Lease
    <3>2. lease[1] # o
      BY <1>2, <2>1, ClaimingMeans
    <3> QED
      BY <1>5, <3>1, <3>2
  <2> QED
    BY <1>1, <1>7, <2>1, CleanerRests
<1>9. ClaimsDisjoint'
  BY <1>1, ClaimsStay
<1> QED
  BY <1>7, <1>8, <1>9 DEF LifecycleInv

\* With the tenant lock the batch is leased; under a hold only the leases that ran out are recovered.
LEMMA ClaimDeletionsStep ==
  ASSUME LifecycleInv, NEW c \in Cleaners, Lifecycle!ClaimDeletions(c)
  PROVE  LifecycleInv' /\ Lifecycle!DeletionOutcomesAreFinal
<1>1. cleaner[c].pc = "claim" /\ UNCHANGED <<status, runs, admitted, space, held, rows, stored, loose, scan>>
  BY DEF Lifecycle!ClaimDeletions
<1>2. PICK batch : batch = {lease[1] : lease \in cleaner[c].batch}
  OBVIOUS
<1>3. batch \subseteq Lifecycle!Objects
  BY <1>2 DEF LifecycleInv, LifecycleType, CleanerType, Lease
<1>4. \A o \in batch : /\ outbox[o].status = "pending" \/ outbox[o].expired
                       /\ outbox[o].attempt < LifecycleAttempts
  BY <1>1, <1>2 DEF LifecycleInv, CleanerSound
<1>5. \A o \in batch : outbox[o].status \in {"pending", "running"}
  BY <1>3, <1>4 DEF LifecycleInv, ObjectSound
\* No other worker is claiming one of them.
<1>6. ASSUME NEW d \in Cleaners \ {c}, cleaner[d].pc = "claim", NEW lease \in cleaner[d].batch
      PROVE  lease[1] \in Lifecycle!Objects \ batch
  BY <1>1, <1>2, <1>6 DEF LifecycleInv, ClaimsDisjoint, LifecycleType, CleanerType, Lease
<1>7. CASE ~held
  <2>1. /\ outbox' = [o \in Lifecycle!Objects |-> IF o \in batch THEN Lifecycle!Leased(o) ELSE outbox[o]]
        /\ cleaner' = [cleaner EXCEPT ![c].pc = "delete"]
    BY <1>2, <1>7 DEF Lifecycle!ClaimDeletions, Lifecycle!MayLease
  <2>2. ASSUME NEW o \in batch
        PROVE  LET f == Lifecycle!Leased(o)
               IN  f \in Entry /\ f.expired = FALSE /\ f.status = "running" /\ f.attempt = outbox[o].attempt + 1
    <3>1. outbox[o] \in Entry
      BY <1>3 DEF LifecycleInv, LifecycleType
    <3>2. PICK n \in Nat, g \in Nat : n = outbox[o].attempt + 1 /\ g = outbox[o].gen + 1
      <4>1. outbox[o].attempt \in Nat /\ outbox[o].gen \in Nat
        BY <3>1 DEF Entry
      <4>2. outbox[o].attempt + 1 \in Nat /\ outbox[o].gen + 1 \in Nat
        BY <4>1
      <4> QED
        BY <4>2
    <3> DEFINE e == [outbox[o] EXCEPT !.status = "running"]
               f == [e EXCEPT !.attempt = n]
               h == [f EXCEPT !.gen = g]
               k == [h EXCEPT !.expired = FALSE]
    <3>3. Lifecycle!Leased(o) = k
      BY <3>2, Zenon DEF Lifecycle!Leased
    <3> HIDE DEF k
    <3>4. h \in Entry => k \in Entry /\ k.attempt = h.attempt /\ k.status = h.status /\ k.expired = FALSE
      <4> HIDE DEF h
      <4> QED
        BY DEF Entry, k
    <3> HIDE DEF h
    <3>5. f \in Entry => h \in Entry /\ h.attempt = f.attempt /\ h.status = f.status
      <4> HIDE DEF f
      <4> QED
        BY DEF Entry, h
    <3> HIDE DEF f
    <3>6. e \in Entry => f \in Entry /\ f.attempt = n /\ f.status = e.status
      <4> HIDE DEF e
      <4> QED
        BY DEF Entry, f
    <3> HIDE DEF e
    <3>7. e \in Entry /\ e.status = "running"
      BY <3>1 DEF Entry, e
    <3> QED
      BY <3>2, <3>3, <3>4, <3>5, <3>6, <3>7
  <2>3. ASSUME NEW o \in batch PROVE ~Lifecycle!Leased(o).expired
    BY <2>2, Zenon
  <2>4. outbox' \in [Lifecycle!Objects -> Entry]
    BY <2>1, <2>2 DEF LifecycleInv, LifecycleType
  <2>5. cleaner' \in [Cleaners -> CleanerType]
    <3>1. [cleaner[c] EXCEPT !.pc = "delete"] \in CleanerType
      BY DEF LifecycleInv, LifecycleType, CleanerType
    <3> QED
      BY <2>1, <3>1 DEF LifecycleInv, LifecycleType, Closed, Lifecycle!Running
  <2>6. /\ cleaner'[c].pc = "delete" /\ cleaner'[c].batch = cleaner[c].batch
        /\ \A d \in Cleaners \ {c} : cleaner'[d] = cleaner[d]
    <3>1. cleaner[c] \in CleanerType
      BY DEF LifecycleInv, LifecycleType
    <3> QED
      BY <2>1, <3>1 DEF LifecycleInv, LifecycleType, CleanerType
  <2>7. ASSUME NEW o \in Lifecycle!Objects
        PROVE  /\ o \in batch => /\ outbox'[o].status = "running" /\ ~outbox'[o].expired
                                 /\ outbox'[o].attempt = outbox[o].attempt + 1
               /\ o \notin batch => outbox'[o] = outbox[o]
    BY <2>1, <2>2, <2>3
  <2>8. LifecycleType' /\ Closed'
    BY <1>1, <2>4, <2>5 DEF LifecycleInv, LifecycleType, Closed, Lifecycle!Running
  <2>9. ASSUME NEW o \in Lifecycle!Objects PROVE ObjectSound(o)'
    <3>1. outbox[o].attempt \in Nat
      BY DEF LifecycleInv, LifecycleType, Entry
    <3>2. o \in batch => outbox'[o].attempt <= LifecycleAttempts
      BY <1>4, <2>7, <3>1, ServicesType
    <3> QED
      BY <1>1, <1>5, <1>7, <2>7, <3>2 DEF LifecycleInv, ObjectSound
  <2>10. Lifecycle!DeletionOutcomesAreFinal
    BY <1>5, <2>7 DEF Lifecycle!DeletionOutcomesAreFinal
  <2>11. \A o \in Lifecycle!Objects : outbox[o].status # "none" => outbox'[o].status # "none"
    BY <2>7
  <2>12. ASSUME NEW d \in Cleaners PROVE CleanerSound(d)'
    <3>1. CASE d # c
      BY <1>1, <1>6, <2>6, <2>7, <2>11, <3>1, CleanerRests
    <3>2. CASE d = c
      <4>1. \A lease \in cleaner[c].batch : outbox'[lease[1]].status # "none"
        BY <1>2, <1>3, <2>7
      <4> QED
        BY <2>6, <3>2, <4>1 DEF CleanerSound
    <3> QED
      BY <3>1, <3>2
  <2>13. ClaimsDisjoint'
    BY <2>6, ClaimsStay
  <2> QED
    BY <2>8, <2>9, <2>10, <2>12, <2>13 DEF LifecycleInv
<1>8. CASE held
  <2>1. /\ outbox' = [o \in Lifecycle!Objects |->
                        IF o \in batch /\ outbox[o].expired THEN Lifecycle!Recovered(o) ELSE outbox[o]]
        /\ cleaner' = [cleaner EXCEPT ![c] = Lifecycle!Resting]
    BY <1>2, <1>8 DEF Lifecycle!ClaimDeletions, Lifecycle!MayLease
  <2>2. \A o \in Lifecycle!Objects : ~outbox[o].expired
    BY <1>8 DEF LifecycleInv, ObjectSound
  <2>3. outbox' = outbox
    BY <2>1, <2>2 DEF LifecycleInv, LifecycleType
  <2>4. /\ cleaner' \in [Cleaners -> CleanerType] /\ cleaner'[c] = Lifecycle!Resting
        /\ \A d \in Cleaners \ {c} : cleaner'[d] = cleaner[d]
    BY <2>1 DEF LifecycleInv, LifecycleType, CleanerType, Lifecycle!Resting
  <2>5. LifecycleType' /\ Closed'
    BY <1>1, <2>3, <2>4 DEF LifecycleInv, LifecycleType, Closed, Lifecycle!Running
  <2>6. \A o \in Lifecycle!Objects : ObjectSound(o)'
    BY <1>1, <2>3 DEF LifecycleInv, ObjectSound
  <2>7. ASSUME NEW d \in Cleaners \ {c} PROVE CleanerSound(d)'
    BY <1>1, <2>3, <2>4, CleanerRests
  <2>8. CleanerSound(c)' /\ ClaimsDisjoint'
    BY <2>4, ClaimsStay DEF CleanerSound, Lifecycle!Resting
  <2> QED
    BY <2>3, <2>5, <2>6, <2>7, <2>8 DEF LifecycleInv, Lifecycle!DeletionOutcomesAreFinal
<1> QED
  BY <1>7, <1>8

\* A worker is past its claim: of the other parts of its state only its own batch matters.
LEMMA WorkerMoves ==
  ASSUME LifecycleInv, NEW c \in Cleaners, NEW w \in CleanerType, cleaner' = [cleaner EXCEPT ![c] = w],
         w.pc # "claim", w.batch \subseteq cleaner[c].batch,
         w.pc \in {"complete", "fail"} => w.object \in w.batch,
         w.pc = "complete" => w.object[1] \notin Kept',
         Kept' \subseteq Kept,
         \A o \in Lifecycle!Objects : outbox[o].status # "none" => outbox'[o].status # "none",
         \A d \in Cleaners \ {c} : cleaner[d].pc = "claim" =>
            \A lease \in cleaner[d].batch : outbox'[lease[1]] = outbox[lease[1]]
  PROVE  /\ cleaner' \in [Cleaners -> CleanerType] /\ ClaimsDisjoint'
         /\ \A d \in Cleaners : CleanerSound(d)'
<1>1. /\ cleaner' \in [Cleaners -> CleanerType] /\ cleaner'[c] = w
      /\ \A d \in Cleaners \ {c} : cleaner'[d] = cleaner[d]
  BY DEF LifecycleInv, LifecycleType
<1>2. ASSUME NEW d \in Cleaners \ {c} PROVE CleanerSound(d)'
  BY <1>1, CleanerRests
<1>3. \A lease \in w.batch : outbox'[lease[1]].status # "none"
  BY DEF LifecycleInv, LifecycleType, CleanerType, Lease, CleanerSound
<1>4. CleanerSound(c)'
  BY <1>1, <1>3 DEF CleanerSound
<1>5. ClaimsDisjoint'
  BY <1>1, ClaimsStay
<1> QED
  BY <1>1, <1>2, <1>4, <1>5

\* An object is taken from the store, or the store refuses, or the worker dies.
LEMMA DeleteOrCrashStep ==
  ASSUME LifecycleInv, NEW c \in Cleaners,
         \/ \E lease \in cleaner[c].batch : Lifecycle!DeleteObject(c, lease)
         \/ Lifecycle!Crash(c)
  PROVE  LifecycleInv' /\ Lifecycle!DeletionOutcomesAreFinal
<1>1. UNCHANGED <<status, runs, admitted, space, held, rows, outbox, scan>> /\ stored' \subseteq stored /\ Kept' \subseteq Kept
  BY DEF Lifecycle!DeleteObject, Lifecycle!Crash
<1>2. cleaner[c] \in CleanerType /\ cleaner[c].batch \subseteq Lease
  BY DEF LifecycleInv, LifecycleType, CleanerType
<1>3. PICK w \in CleanerType :
        /\ cleaner' = [cleaner EXCEPT ![c] = w] /\ w.pc # "claim" /\ w.batch \subseteq cleaner[c].batch
        /\ w.pc \in {"complete", "fail"} => w.object \in w.batch
        /\ w.pc = "complete" => w.object[1] \notin Kept'
  <2>1. CASE Lifecycle!Crash(c)
    <3>1. /\ Lifecycle!Resting \in CleanerType /\ Lifecycle!Resting.pc = "idle"
          /\ Lifecycle!Resting.batch \subseteq cleaner[c].batch
      BY DEF CleanerType, Lifecycle!Resting
    <3> QED
      BY <2>1, <3>1 DEF Lifecycle!Crash
  <2>2. ASSUME NEW lease \in cleaner[c].batch, Lifecycle!DeleteObject(c, lease)
        PROVE  \E w \in CleanerType :
                 /\ cleaner' = [cleaner EXCEPT ![c] = w] /\ w.pc # "claim" /\ w.batch \subseteq cleaner[c].batch
                 /\ w.pc \in {"complete", "fail"} => w.object \in w.batch
                 /\ w.pc = "complete" => w.object[1] \notin Kept'
    <3>1. PICK pc \in {"complete", "fail"} :
            /\ cleaner' = [cleaner EXCEPT ![c].pc = pc, ![c].object = lease]
            /\ pc = "complete" => stored' = stored \ {lease[1]}
      BY <2>2 DEF Lifecycle!DeleteObject
    <3> DEFINE v == [cleaner[c] EXCEPT !.pc = pc]
               w == [v EXCEPT !.object = lease]
    <3>2. cleaner' = [cleaner EXCEPT ![c] = w]
      BY <3>1 DEF LifecycleInv, LifecycleType
    <3> HIDE DEF w
    <3>3. v \in CleanerType => w \in CleanerType /\ w.pc = v.pc /\ w.batch = v.batch /\ w.object = lease
      <4> HIDE DEF v
      <4>1. lease \in Lease
        BY <1>2
      <4> QED
        BY <4>1 DEF CleanerType, w
    <3> HIDE DEF v
    <3>4. v \in CleanerType /\ v.pc = pc /\ v.batch = cleaner[c].batch
      BY <1>2 DEF CleanerType, v
    <3> QED
      BY <3>1, <3>2, <3>3, <3>4
  <2> QED
    BY <2>1, <2>2
<1>4. /\ cleaner' \in [Cleaners -> CleanerType] /\ ClaimsDisjoint'
      /\ \A d \in Cleaners : CleanerSound(d)'
  BY <1>1, <1>3, WorkerMoves
<1>5. LifecycleType' /\ Closed'
  BY <1>1, <1>4 DEF LifecycleInv, LifecycleType, Closed, Lifecycle!Running
<1>6. \A o \in Lifecycle!Objects : ObjectSound(o)'
  BY <1>1 DEF LifecycleInv, ObjectSound
<1> QED
  BY <1>1, <1>4, <1>5, <1>6 DEF LifecycleInv, Lifecycle!DeletionOutcomesAreFinal

\* After a report the worker goes on with the rest of its batch, or it rests.
LEMMA ReportMoves ==
  ASSUME LifecycleInv, NEW c \in Cleaners,
         Lifecycle!Advance(c) \/ Lifecycle!GiveUp(c)
  PROVE  \E w \in CleanerType :
           /\ cleaner' = [cleaner EXCEPT ![c] = w]
           /\ w.pc \in {"idle", "delete"} /\ w.batch \subseteq cleaner[c].batch
<1>1. cleaner[c].batch \subseteq Lease
  BY DEF LifecycleInv, LifecycleType, CleanerType
<1>2. PICK rest \in SUBSET cleaner[c].batch :
         LET w == IF rest = {} THEN Lifecycle!Resting ELSE [pc |-> "delete", batch |-> rest, object |-> <<>>]
         IN  cleaner' = [cleaner EXCEPT ![c] = w]
  <2>1. CASE Lifecycle!Advance(c)
    BY <2>1 DEF Lifecycle!Advance
  <2>2. CASE Lifecycle!GiveUp(c)
    BY <2>2 DEF Lifecycle!GiveUp
  <2> QED
    BY <2>1, <2>2
<1> DEFINE w == IF rest = {} THEN Lifecycle!Resting ELSE [pc |-> "delete", batch |-> rest, object |-> <<>>]
<1>3. w \in CleanerType /\ w.pc \in {"idle", "delete"} /\ w.batch \subseteq cleaner[c].batch
  BY <1>1 DEF CleanerType, Lifecycle!Resting
<1> QED
  BY <1>2, <1>3

\* A lease that is owned is not being claimed by anyone, and its object is one of the tenant.
LEMMA OwnedLease ==
  ASSUME LifecycleInv, NEW c \in Cleaners, cleaner[c].pc \in {"complete", "fail"}, Lifecycle!Owns(c)
  PROVE  LET o == cleaner[c].object[1]
         IN  /\ o \in Lifecycle!Objects /\ outbox[o].status = "running"
             /\ \A d \in Cleaners : cleaner[d].pc = "claim" => \A lease \in cleaner[d].batch : lease[1] # o
<1>1. cleaner[c].object \in Lease
  BY DEF LifecycleInv, LifecycleType, CleanerType, CleanerSound
<1> QED
  BY <1>1, ClaimingMeans DEF Lifecycle!Owns, Lease

\* The report of a deletion: the object is gone, and with it the row if the job was one of retention.
LEMMA CompleteDeletionStep ==
  ASSUME LifecycleInv, NEW c \in Cleaners, Lifecycle!CompleteDeletion(c)
  PROVE  LifecycleInv' /\ Lifecycle!DeletionOutcomesAreFinal
<1>1. cleaner[c].pc = "complete" /\ UNCHANGED <<status, runs, admitted, space, held, stored, loose, scan>>
  BY DEF Lifecycle!CompleteDeletion
<1>2. PICK w \in CleanerType :
        /\ cleaner' = [cleaner EXCEPT ![c] = w]
        /\ w.pc \in {"idle", "delete"} /\ w.batch \subseteq cleaner[c].batch
  BY ReportMoves DEF Lifecycle!CompleteDeletion
<1>3. PICK o : o = cleaner[c].object[1]
  OBVIOUS
<1>4. \/ UNCHANGED <<outbox, rows>>
      \/ /\ Lifecycle!Owns(c) /\ rows' \in {rows, rows \ {o}}
         /\ outbox' = [outbox EXCEPT ![o].status = "completed"]
  BY <1>3 DEF Lifecycle!CompleteDeletion
<1>5. CASE UNCHANGED <<outbox, rows>>
  <2>1. /\ cleaner' \in [Cleaners -> CleanerType] /\ ClaimsDisjoint'
        /\ \A d \in Cleaners : CleanerSound(d)'
    BY <1>1, <1>2, <1>5, WorkerMoves
  <2>2. LifecycleType' /\ Closed'
    BY <1>1, <1>5, <2>1 DEF LifecycleInv, LifecycleType, Closed, Lifecycle!Running
  <2>3. \A p \in Lifecycle!Objects : ObjectSound(p)'
    BY <1>1, <1>5 DEF LifecycleInv, ObjectSound
  <2> QED
    BY <1>5, <2>1, <2>2, <2>3 DEF LifecycleInv, Lifecycle!DeletionOutcomesAreFinal
<1>6. CASE /\ Lifecycle!Owns(c) /\ rows' \in {rows, rows \ {o}}
           /\ outbox' = [outbox EXCEPT ![o].status = "completed"]
  <2>1. /\ o \in Lifecycle!Objects /\ outbox[o].status = "running" /\ ~outbox[o].expired /\ o \notin Kept
        /\ \A d \in Cleaners : cleaner[d].pc = "claim" => \A lease \in cleaner[d].batch : lease[1] # o
    BY <1>1, <1>3, <1>6, OwnedLease DEF LifecycleInv, CleanerSound, Lifecycle!Owns
  <2>2. PICK e : e = [outbox[o] EXCEPT !.status = "completed"]
    OBVIOUS
  <2>3. e \in Entry /\ e.status = "completed" /\ e.attempt = outbox[o].attempt /\ e.expired = outbox[o].expired
    <3>1. outbox[o] \in Entry
      BY <2>1 DEF LifecycleInv, LifecycleType
    <3> QED
      BY <2>2, <3>1 DEF Entry
  <2>4. ~e.expired
    BY <2>1, <2>3, Zenon
  <2>5. /\ outbox' \in [Lifecycle!Objects -> Entry] /\ outbox'[o] = e
        /\ \A p \in Lifecycle!Objects \ {o} : outbox'[p] = outbox[p]
    BY <1>6, <2>1, <2>2, <2>3 DEF LifecycleInv, LifecycleType
  <2>6. \A p \in Lifecycle!Objects : outbox[p].status # "none" => outbox'[p].status # "none"
    BY <2>3, <2>5
  <2>7. ASSUME NEW d \in Cleaners, cleaner[d].pc = "claim", NEW lease \in cleaner[d].batch
        PROVE  outbox'[lease[1]] = outbox[lease[1]]
    BY <2>1, <2>5, <2>7 DEF LifecycleInv, LifecycleType, CleanerType, Lease
  <2>8. /\ cleaner' \in [Cleaners -> CleanerType] /\ ClaimsDisjoint'
        /\ \A d \in Cleaners : CleanerSound(d)'
    BY <1>1, <1>2, <2>6, <2>7, WorkerMoves
  <2>9. LifecycleType' /\ Closed'
    BY <1>1, <1>6, <2>5, <2>8 DEF LifecycleInv, LifecycleType, Closed, Lifecycle!Running
  <2>10. ASSUME NEW p \in Lifecycle!Objects PROVE ObjectSound(p)'
    <3>1. CASE p = o
      BY <1>1, <1>6, <2>1, <2>3, <2>4, <2>5, <3>1 DEF LifecycleInv, ObjectSound
    <3>2. CASE p # o
      BY <1>1, <1>6, <2>5, <3>2 DEF LifecycleInv, ObjectSound
    <3> QED
      BY <3>1, <3>2
  <2>11. Lifecycle!DeletionOutcomesAreFinal
    BY <2>1, <2>5 DEF Lifecycle!DeletionOutcomesAreFinal
  <2> QED
    BY <2>8, <2>9, <2>10, <2>11 DEF LifecycleInv
<1> QED
  BY <1>4, <1>5, <1>6

\* The report of a failure: the job waits for the next attempt, or has failed.
LEMMA FailDeletionStep ==
  ASSUME LifecycleInv, NEW c \in Cleaners, Lifecycle!FailDeletion(c)
  PROVE  LifecycleInv' /\ Lifecycle!DeletionOutcomesAreFinal
<1>1. cleaner[c].pc = "fail" /\ UNCHANGED <<status, runs, admitted, space, held, rows, stored, loose, scan>>
  BY DEF Lifecycle!FailDeletion
<1>2. PICK w \in CleanerType :
        /\ cleaner' = [cleaner EXCEPT ![c] = w]
        /\ w.pc \in {"idle", "delete"} /\ w.batch \subseteq cleaner[c].batch
  BY ReportMoves DEF Lifecycle!FailDeletion
<1>3. PICK o : o = cleaner[c].object[1]
  OBVIOUS
<1>4. \/ UNCHANGED outbox
      \/ /\ Lifecycle!Owns(c)
         /\ \E e \in {Lifecycle!Recovered(o), [outbox[o] EXCEPT !.status = "failed"]} :
              outbox' = [outbox EXCEPT ![o] = e]
  BY <1>3 DEF Lifecycle!FailDeletion
<1>5. /\ outbox' \in [Lifecycle!Objects -> Entry]
      /\ \A p \in Lifecycle!Objects :
           \/ outbox'[p] = outbox[p]
           \/ /\ outbox[p].status = "running" /\ outbox'[p].status \in {"pending", "failed"}
              /\ ~outbox'[p].expired /\ outbox'[p].attempt = outbox[p].attempt
      /\ \A d \in Cleaners : cleaner[d].pc = "claim" =>
           \A lease \in cleaner[d].batch : outbox'[lease[1]] = outbox[lease[1]]
  <2>1. CASE UNCHANGED outbox
    BY <2>1 DEF LifecycleInv, LifecycleType
  <2>2. CASE /\ Lifecycle!Owns(c)
             /\ \E e \in {Lifecycle!Recovered(o), [outbox[o] EXCEPT !.status = "failed"]} :
                  outbox' = [outbox EXCEPT ![o] = e]
    <3>1. /\ o \in Lifecycle!Objects /\ outbox[o].status = "running" /\ ~outbox[o].expired
          /\ \A d \in Cleaners : cleaner[d].pc = "claim" => \A lease \in cleaner[d].batch : lease[1] # o
      BY <1>1, <1>3, <2>2, OwnedLease DEF Lifecycle!Owns
    <3>2. PICK f : f = [outbox[o] EXCEPT !.status = "failed"]
      OBVIOUS
    <3>3. f \in Entry /\ f.status = "failed" /\ f.attempt = outbox[o].attempt /\ f.expired = outbox[o].expired
      <4>1. outbox[o] \in Entry
        BY <3>1 DEF LifecycleInv, LifecycleType
      <4> QED
        BY <3>2, <4>1 DEF Entry
    <3>4. ~f.expired
      BY <3>1, <3>3, Zenon
    <3>5. /\ Lifecycle!Recovered(o) \in Entry /\ ~Lifecycle!Recovered(o).expired
          /\ Lifecycle!Recovered(o).status \in {"pending", "failed"}
          /\ Lifecycle!Recovered(o).attempt = outbox[o].attempt
      BY <3>1, RecoveredEntry
    <3>6. PICK e : e \in {Lifecycle!Recovered(o), f} /\ outbox' = [outbox EXCEPT ![o] = e]
      BY <2>2, <3>2
    <3>7. e \in Entry /\ e.status \in {"pending", "failed"} /\ e.attempt = outbox[o].attempt
      BY <3>3, <3>5, <3>6
    <3>8. ~e.expired
      BY <3>4, <3>5, <3>6, Zenon
    <3>9. /\ outbox' \in [Lifecycle!Objects -> Entry] /\ outbox'[o] = e
          /\ \A p \in Lifecycle!Objects \ {o} : outbox'[p] = outbox[p]
      BY <3>1, <3>6, <3>7 DEF LifecycleInv, LifecycleType
    <3>10. ASSUME NEW d \in Cleaners, cleaner[d].pc = "claim", NEW lease \in cleaner[d].batch
           PROVE  outbox'[lease[1]] = outbox[lease[1]]
      BY <3>1, <3>9, <3>10 DEF LifecycleInv, LifecycleType, CleanerType, Lease
    <3> QED
      BY <3>1, <3>7, <3>8, <3>9, <3>10
  <2> QED
    BY <1>4, <2>1, <2>2
<1>6. cleaner' \in [Cleaners -> CleanerType]
  BY <1>2 DEF LifecycleInv, LifecycleType
<1>7. /\ LifecycleType' /\ Closed' /\ \A p \in Lifecycle!Objects : ObjectSound(p)'
      /\ Lifecycle!DeletionOutcomesAreFinal
      /\ \A p \in Lifecycle!Objects : outbox[p].status # "none" => outbox'[p].status # "none"
  BY <1>1, <1>5, <1>6, JobsMove
<1>8. ClaimsDisjoint' /\ \A d \in Cleaners : CleanerSound(d)'
  BY <1>1, <1>2, <1>5, <1>7, WorkerMoves
<1> QED
  BY <1>7, <1>8 DEF LifecycleInv

\* A lease runs out.  A worker may be claiming the job of it only if it had run out before.
LEMMA ExpireStep ==
  ASSUME LifecycleInv, NEW o \in Lifecycle!Objects, Lifecycle!Expire(o)
  PROVE  LifecycleInv' /\ Lifecycle!DeletionOutcomesAreFinal
<1>1. /\ outbox[o].status = "running" /\ ~outbox[o].expired
      /\ outbox' = [outbox EXCEPT ![o].expired = TRUE]
      /\ UNCHANGED <<status, runs, admitted, space, held, rows, stored, loose, scan, cleaner>>
  BY DEF Lifecycle!Expire
<1>2. PICK e : e = [outbox[o] EXCEPT !.expired = TRUE]
  OBVIOUS
<1>3. e \in Entry /\ e.status = "running" /\ e.attempt = outbox[o].attempt
  <2>1. outbox[o] \in Entry
    BY DEF LifecycleInv, LifecycleType
  <2> QED
    BY <1>1, <1>2, <2>1 DEF Entry
<1>4. /\ outbox' \in [Lifecycle!Objects -> Entry] /\ outbox'[o] = e
      /\ \A p \in Lifecycle!Objects \ {o} : outbox'[p] = outbox[p]
  BY <1>1, <1>2, <1>3 DEF LifecycleInv, LifecycleType
<1>5. LifecycleType' /\ Closed'
  BY <1>1, <1>4 DEF LifecycleInv, LifecycleType, Closed, Lifecycle!Running
<1>6. ASSUME NEW p \in Lifecycle!Objects PROVE ObjectSound(p)'
  <2>1. CASE p = o
    BY <1>1, <1>3, <1>4, <2>1 DEF LifecycleInv, ObjectSound
  <2>2. CASE p # o
    BY <1>1, <1>4, <2>2 DEF LifecycleInv, ObjectSound
  <2> QED
    BY <2>1, <2>2
<1>7. \A p \in Lifecycle!Objects : outbox[p].status # "none" => outbox'[p].status # "none"
  BY <1>3, <1>4
<1>8. ASSUME NEW d \in Cleaners, cleaner[d].pc = "claim", NEW lease \in cleaner[d].batch
      PROVE  outbox'[lease[1]] = outbox[lease[1]]
  <2>1. lease[1] \in Lifecycle!Objects
    BY DEF LifecycleInv, LifecycleType, CleanerType, Lease
  <2>2. outbox[lease[1]].status = "pending" \/ outbox[lease[1]].expired
    BY <1>8 DEF LifecycleInv, CleanerSound
  <2>3. lease[1] # o
    BY <1>1, <2>2
  <2> QED
    BY <1>4, <2>1, <2>3
<1>9. \A d \in Cleaners : CleanerSound(d)'
  BY <1>1, <1>7, <1>8, CleanerRests
<1>10. ClaimsDisjoint'
  BY <1>1, ClaimsStay
<1> QED
  BY <1>1, <1>4, <1>5, <1>6, <1>9, <1>10 DEF LifecycleInv, Lifecycle!DeletionOutcomesAreFinal

LEMMA LifecycleStep ==
  ASSUME LifecycleInv, Lifecycle!Next \/ UNCHANGED Lifecycle!vars
  PROVE  LifecycleInv' /\ Lifecycle!DeletionOutcomesAreFinal
<1>1. CASE Lifecycle!Progress
  BY <1>1, SelectStep, RecoverStep, ClaimDeletionsStep, DeleteOrCrashStep, CompleteDeletionStep, FailDeletionStep,
     ExpireStep DEF Lifecycle!Progress
<1>2. CASE Lifecycle!Next /\ ~Lifecycle!Progress
  BY <1>2, AdministrationStep, WritesStep, EnqueueStep, FinalizeStep, DeleteOrCrashStep DEF Lifecycle!Next
<1> QED
  BY <1>1, <1>2, AdministrationStep

HIDE DEF Kept

----------------------------------------------------------------------------
(* The services together *)

\* Every step is one of a single service, and the others rest.
LEMMA ServicesStep ==
  ASSUME [Next]_vars
  PROVE  /\ Validation!Next \/ UNCHANGED Validation!vars
         /\ Lifecycle!Next \/ UNCHANGED Lifecycle!vars
         /\ Audit!Next \/ UNCHANGED Audit!vars
BY DEF Next, InValidation, InLifecycle, InAudit, vars, validationVars, lifecycleVars, auditVars,
       Validation!vars, Lifecycle!vars, Audit!vars

Inv == ValidationInv /\ LifecycleInv /\ AuditInv

\* The invariants of the services hold together.
LEMMA ServicesInvariant == Spec => []Inv
<1>1. Init => Inv
  BY ValidationInit, LifecycleInit, AuditInit DEF Init, Inv
<1>2. Inv /\ [Next]_vars => Inv'
  BY ServicesStep, ValidationStep, LifecycleStep, AuditStep DEF Inv
<1> QED
  BY <1>1, <1>2, PTL DEF Spec

\* Whatever workers claim, lose and report late: only a validated archive under its finalized checksum becomes the
\* head of a workspace (begin_validation, complete_validation).
THEOREM ValidatedHeads == Spec => []HeadsAreSound
<1>1. Inv => HeadsAreSound
  BY ValidationInvImplies DEF Inv, HeadsAreSound
<1> QED
  BY <1>1, ServicesInvariant, PTL

\* Whatever workers, holds, late uploads, admitted operations and the retention scan do in between: under a legal
\* hold no lease to delete is current, so that only a worker that lost its lease before can still delete; a row
\* goes after its object; and of a deleted tenant no run, artifact, snapshot or deletion to be done is left, nor an
\* object, except one that was uploaded late or never recorded (claim_object_deletions, complete_object_deletion,
\* finalize_tenant_deletion).
THEOREM CleanDeletion == Spec => []DeletionIsClean
<1>1. Inv => DeletionIsClean
  BY LifecycleInvImplies DEF Inv, DeletionIsClean
<1> QED
  BY <1>1, ServicesInvariant, PTL

\* Whatever calls for one export do to each other's file: a completed audit export records what the store holds
\* and misses no entry from before its cutoff that was committed when it began (export, complete_audit_export).
THEOREM ExportsAreEvidence == Spec => []ExportIsEvidence
<1>1. Inv => ExportIsEvidence
  BY DEF Inv, AuditInv, ExportIsEvidence
<1> QED
  BY <1>1, ServicesInvariant, PTL

\* No late report of a worker that was overtaken changes an outcome: of the validation of a snapshot, of a
\* deletion or of an audit export (complete_validation, complete_object_deletion, complete_audit_export).
THEOREM OutcomesStand == Spec => VerdictsStand
<1>1. Inv /\ [Next]_vars =>
        [/\ Validation!VerdictsAreFinal /\ Lifecycle!DeletionOutcomesAreFinal /\ Audit!ExportOutcomeIsFinal]_vars
  BY ServicesStep, ValidationStep, LifecycleStep, AuditStep DEF Inv
<1> QED
  BY <1>1, ServicesInvariant, PTL DEF Spec, VerdictsStand

----------------------------------------------------------------------------
(* The memory jobs *)

\* What a process is doing, with the job it has leased.
MemoryProcess ==
  [pc: {"idle", "source", "extract", "complete", "store", "fail"}, job: Memory!Branches \union {<<>>},
   gen: 0 .. MemoryAttempts, found: SUBSET Facts, overtaken: BOOLEAN]

\* A job waits for its first attempt, or is leased with one attempt for every lease; only a leased one runs
\* out, and an unfinished one is of the branch its run is in.
JobRows ==
  \A b \in Memory!Branches :
    /\ job[b].status = "pending" => job[b].attempt = 1 /\ job[b].gen = 0
    /\ job[b].status = "running" => job[b].attempt = job[b].gen /\ job[b].gen > 0
    /\ job[b].expired => job[b].status = "running"
    /\ job[b].status \in {"pending", "running"} => Memory!Current(b)

\* A fact is stored once in an epoch number.
FactsOnce == \A m, n \in memory : m.epoch = n.epoch /\ m.fact = n.fact => m = n

MemoryInv ==
  /\ Memory!MemoryTypeOK /\ Memory!OneExtractionPerJob /\ proc \in [Processes -> MemoryProcess]
  /\ JobRows /\ FactsOnce

\* The final transaction of a process has its job locked under its lease, and found memory switched on if it
\* stores something, whatever the user did since.
Transactions ==
  \A p \in Processes : proc[p].pc = "store" =>
    /\ Memory!Holds(p) /\ (proc[p].found # {} => enabled \/ proc[p].overtaken)
    /\ \A q \in Processes : proc[q].pc = "store" /\ proc[q].job = proc[p].job => q = p

\* The row of a single job changes: it was not done, and what it becomes is well formed.
LEMMA JobChanges ==
  ASSUME MemoryInv, NEW b \in Memory!Branches, NEW row \in Memory!Job, job' = [job EXCEPT ![b] = row],
         job[b].status \notin {"completed", "failed"}, epoch' = epoch,
         row.status = "pending" => row.attempt = 1 /\ row.gen = 0,
         row.status = "running" => row.attempt = row.gen /\ row.gen > 0,
         row.expired => row.status = "running",
         row.status \in {"pending", "running"} => Memory!Current(b)
  PROVE  /\ job' \in [Memory!Branches -> Memory!Job] /\ JobRows' /\ Memory!EndedJobsStayEnded
         /\ job'[b] = row /\ \A c \in Memory!Branches \ {b} : job'[c] = job[c]
<1>1. job \in [Memory!Branches -> Memory!Job]
  BY DEF MemoryInv, Memory!MemoryTypeOK
<1>2. job' \in [Memory!Branches -> Memory!Job] /\ job'[b] = row /\ \A c \in Memory!Branches \ {b} : job'[c] = job[c]
  BY <1>1
<1>3. Memory!EndedJobsStayEnded
  BY <1>2 DEF Memory!EndedJobsStayEnded
<1>4. JobRows'
  BY <1>2 DEF MemoryInv, JobRows, Memory!Current
<1> QED
  BY <1>2, <1>3, <1>4

\* The memories stay what they are if their jobs do.
LEMMA MemoriesStay ==
  ASSUME MemoryInv, Memory!EndedJobsStayEnded, memory' = memory
  PROVE  /\ memory' \subseteq Memory!Memory /\ Memory!OneExtractionPerJob'
         /\ Memory!NoUnwantedMemory /\ Memory!DeletedMemoryStaysDeleted' /\ FactsOnce'
<1>1. memory \subseteq Memory!Memory /\ Memory!OneExtractionPerJob
  BY DEF MemoryInv, Memory!MemoryTypeOK
<1>2. \A m \in memory : <<m.run, m.epoch>> \in Memory!Branches
  BY <1>1 DEF Memory!Memory, Memory!Branches
<1>3. Memory!OneExtractionPerJob'
  BY <1>1, <1>2 DEF Memory!OneExtractionPerJob, Memory!EndedJobsStayEnded
<1> QED
  BY <1>1, <1>3 DEF MemoryInv, FactsOnce, Memory!NoUnwantedMemory, Memory!DeletedMemoryStaysDeleted

\* A process moves on.
LEMMA ProcessMoves ==
  ASSUME MemoryInv, NEW p \in Processes, NEW to \in MemoryProcess, proc' = [proc EXCEPT ![p] = to],
         to.pc # "idle" => to.job \in Memory!Branches /\ to.gen \in 1 .. MemoryAttempts
  PROVE  /\ proc' \in [Processes -> MemoryProcess]
         /\ \A q \in Processes : proc'[q].pc # "idle" =>
              proc'[q].job \in Memory!Branches /\ proc'[q].gen \in 1 .. MemoryAttempts
<1>1. proc \in [Processes -> MemoryProcess] /\ proc' = [proc EXCEPT ![p] = to]
  BY DEF MemoryInv
<1>2. \A q \in Processes : proc[q].pc # "idle" => proc[q].job \in Memory!Branches /\ proc[q].gen \in 1 .. MemoryAttempts
  BY DEF MemoryInv, Memory!MemoryTypeOK
<1>3. proc' \in [Processes -> MemoryProcess] /\ \A q \in Processes : proc'[q] = IF q = p THEN to ELSE proc[q]
  BY <1>1
<1> QED
  BY <1>2, <1>3

\* What a process has, if it is at work.
LEMMA AtWork ==
  ASSUME MemoryInv, NEW p \in Processes
  PROVE  /\ proc[p] \in MemoryProcess /\ Memory!Idle \in MemoryProcess /\ Memory!ToFail(p) \in MemoryProcess
         /\ Memory!Idle.pc = "idle" /\ Memory!ToFail(p).pc = "fail" /\ Memory!ToFail(p).job = proc[p].job
         /\ Memory!ToFail(p).gen = proc[p].gen
         /\ proc[p].pc # "idle" => proc[p].job \in Memory!Branches /\ proc[p].gen \in 1 .. MemoryAttempts
<1>1. proc[p] \in MemoryProcess
  BY DEF MemoryInv
<1>2. Memory!Idle \in MemoryProcess /\ Memory!Idle.pc = "idle"
  BY SessionDataType DEF Memory!Idle, MemoryProcess
<1>3. /\ Memory!ToFail(p) \in MemoryProcess /\ Memory!ToFail(p).pc = "fail" /\ Memory!ToFail(p).job = proc[p].job
      /\ Memory!ToFail(p).gen = proc[p].gen
  BY <1>1 DEF Memory!ToFail, MemoryProcess
<1>4. proc[p].pc # "idle" => proc[p].job \in Memory!Branches /\ proc[p].gen \in 1 .. MemoryAttempts
  BY DEF MemoryInv, Memory!MemoryTypeOK
<1> QED
  BY <1>1, <1>2, <1>3, <1>4

LEMMA CompleteRunRemembers ==
  ASSUME MemoryInv, NEW r \in Runs, Memory!CompleteRun(r)
  PROVE  MemoryInv' /\ Memory!MemoryFollowsTheUser
<1> DEFINE b == <<r, epoch[r]>>
           row == [Memory!NoJob EXCEPT !.status = "pending", !.attempt = 1]
<1>1. /\ completed' = completed \union {r} /\ UNCHANGED <<epoch, enabled, memory, proc>>
      /\ job' = IF enabled /\ job[b] = Memory!NoJob THEN [job EXCEPT ![b] = row] ELSE job
  BY DEF Memory!CompleteRun
<1>2. /\ Memory!MemoryTypeOK /\ JobRows /\ proc \in [Processes -> MemoryProcess]
  BY DEF MemoryInv
<1>3. b \in Memory!Branches /\ Memory!Current(b)
  BY <1>2 DEF Memory!Branches, Memory!MemoryTypeOK, Memory!Current
<1>4. /\ row \in Memory!Job /\ row.status = "pending" /\ row.attempt = 1 /\ row.gen = 0 /\ row.expired = FALSE
      /\ Memory!NoJob.status = "none"
  <2>1. /\ Memory!NoJob \in Memory!Job /\ Memory!NoJob.status = "none" /\ Memory!NoJob.gen = 0
        /\ Memory!NoJob.expired = FALSE
    BY SessionDataType DEF Memory!NoJob, Memory!Job
  <2>2. \A e \in Memory!Job, n \in 0 .. MemoryAttempts : [e EXCEPT !.status = "pending", !.attempt = n] \in Memory!Job
    BY DEF Memory!Job
  <2>3. row.status = "pending" /\ row.attempt = 1 /\ row.gen = 0 /\ row.expired = FALSE
    BY DEF Memory!NoJob
  <2>4. 1 \in 0 .. MemoryAttempts
    BY SessionDataType
  <2> QED
    BY <2>1, <2>2, <2>3, <2>4
<1> HIDE DEF b, row
<1>5. job' \in [Memory!Branches -> Memory!Job] /\ JobRows' /\ Memory!EndedJobsStayEnded
  <2>1. CASE job' = job
    BY <2>1, <1>1, <1>2 DEF JobRows, Memory!Current, Memory!EndedJobsStayEnded, Memory!MemoryTypeOK
  <2>2. CASE job[b] = Memory!NoJob /\ job' = [job EXCEPT ![b] = row]
    BY <2>2, <1>1, <1>3, <1>4, JobChanges
  <2> QED
    BY <1>1, <2>1, <2>2
<1>6. /\ memory' \subseteq Memory!Memory /\ Memory!OneExtractionPerJob'
      /\ Memory!NoUnwantedMemory /\ Memory!DeletedMemoryStaysDeleted' /\ FactsOnce'
  BY <1>1, <1>5, MemoriesStay
<1>7. Memory!MemoryTypeOK'
  BY <1>1, <1>2, <1>5, <1>6 DEF Memory!MemoryTypeOK
<1> QED
  BY <1>1, <1>2, <1>5, <1>6, <1>7 DEF MemoryInv, Memory!MemoryFollowsTheUser

LEMMA RewindForgets ==
  ASSUME MemoryInv, NEW r \in Runs, Memory!Rewind(r)
  PROVE  MemoryInv' /\ Memory!MemoryFollowsTheUser
<1> DEFINE b == <<r, epoch[r]>>
           row == [job[b] EXCEPT !.status = "failed", !.expired = FALSE]
<1>1. /\ epoch[r] < MemoryEpochs /\ epoch' = [epoch EXCEPT ![r] = @ + 1] /\ completed' = completed \ {r}
      /\ UNCHANGED <<enabled, memory, proc>>
      /\ job' = IF job[b].status \in {"pending", "running"}
                  THEN [job EXCEPT ![b].status = "failed", ![b].expired = FALSE] ELSE job
  BY DEF Memory!Rewind, Memory!Supersede
<1>2. /\ Memory!MemoryTypeOK /\ JobRows /\ proc \in [Processes -> MemoryProcess]
      /\ job \in [Memory!Branches -> Memory!Job] /\ epoch \in [Runs -> 1 .. MemoryEpochs]
  BY DEF MemoryInv, Memory!MemoryTypeOK
<1>3. b \in Memory!Branches
  BY <1>2 DEF Memory!Branches
<1>4. [job EXCEPT ![b].status = "failed", ![b].expired = FALSE] = [job EXCEPT ![b] = row]
  BY <1>2, <1>3 DEF Memory!Job
<1>5. row \in Memory!Job /\ row.status = "failed" /\ row.expired = FALSE
  BY <1>2, <1>3 DEF Memory!Job
<1>6. epoch' \in [Runs -> 1 .. MemoryEpochs] /\ \A c \in Memory!Branches : c # b /\ Memory!Current(c) => Memory!Current(c)'
  <2>1. epoch' \in [Runs -> 1 .. MemoryEpochs]
    BY <1>1, <1>2, SessionDataType
  <2>2. ASSUME NEW c \in Memory!Branches, c # b, Memory!Current(c) PROVE Memory!Current(c)'
    <3>1. c[1] \in Runs /\ c = <<c[1], c[2]>> /\ epoch[c[1]] = c[2]
      BY <2>2 DEF Memory!Branches, Memory!Current
    <3>2. c[1] # r
      BY <2>2, <3>1
    <3> QED
      BY <3>1, <3>2, <1>1, <1>2 DEF Memory!Current
  <2> QED
    BY <2>1, <2>2
<1>7. /\ job' \in [Memory!Branches -> Memory!Job]
      /\ \A c \in Memory!Branches : c # b => job'[c] = job[c]
      /\ job'[b] = IF job[b].status \in {"pending", "running"} THEN row ELSE job[b]
  BY <1>1, <1>2, <1>3, <1>4, <1>5
<1> HIDE DEF b, row
<1>8. Memory!EndedJobsStayEnded
  BY <1>3, <1>7 DEF Memory!EndedJobsStayEnded
<1>9. JobRows'
  <2> SUFFICES ASSUME NEW c \in Memory!Branches
               PROVE  /\ job'[c].status = "pending" => job'[c].attempt = 1 /\ job'[c].gen = 0
                      /\ job'[c].status = "running" => job'[c].attempt = job'[c].gen /\ job'[c].gen > 0
                      /\ job'[c].expired => job'[c].status = "running"
                      /\ job'[c].status \in {"pending", "running"} => Memory!Current(c)'
    BY DEF JobRows
  <2>1. CASE c = b
    BY <2>1, <1>2, <1>3, <1>5, <1>7 DEF JobRows
  <2>2. CASE c # b
    BY <2>2, <1>2, <1>6, <1>7 DEF JobRows
  <2> QED
    BY <2>1, <2>2
<1>10. /\ memory' \subseteq Memory!Memory /\ Memory!OneExtractionPerJob'
       /\ Memory!NoUnwantedMemory /\ Memory!DeletedMemoryStaysDeleted' /\ FactsOnce'
  BY <1>1, <1>8, MemoriesStay
<1>11. Memory!MemoryTypeOK'
  BY <1>1, <1>2, <1>6, <1>7, <1>10 DEF Memory!MemoryTypeOK
<1> QED
  BY <1>1, <1>2, <1>8, <1>9, <1>10, <1>11 DEF MemoryInv, Memory!MemoryFollowsTheUser

\* A step of a process that changes the row of its job only, and no memory.
LEMMA StepOfJob ==
  ASSUME MemoryInv, UNCHANGED <<epoch, completed, enabled, memory>>,
         job' \in [Memory!Branches -> Memory!Job], JobRows', Memory!EndedJobsStayEnded,
         proc' \in [Processes -> MemoryProcess],
         \A q \in Processes : proc'[q].pc # "idle" =>
              proc'[q].job \in Memory!Branches /\ proc'[q].gen \in 1 .. MemoryAttempts
  PROVE  MemoryInv' /\ Memory!MemoryFollowsTheUser
<1>1. /\ memory' \subseteq Memory!Memory /\ Memory!OneExtractionPerJob'
      /\ Memory!NoUnwantedMemory /\ Memory!DeletedMemoryStaysDeleted' /\ FactsOnce'
  BY MemoriesStay
<1>2. Memory!MemoryTypeOK'
  BY <1>1 DEF MemoryInv, Memory!MemoryTypeOK
<1> QED
  BY <1>1, <1>2 DEF MemoryInv, Memory!MemoryFollowsTheUser

\* The rows of jobs that no step touched.
LEMMA JobsRest ==
  ASSUME MemoryInv, job' = job, epoch' = epoch
  PROVE  job' \in [Memory!Branches -> Memory!Job] /\ JobRows' /\ Memory!EndedJobsStayEnded
BY DEF MemoryInv, JobRows, Memory!Current, Memory!EndedJobsStayEnded, Memory!MemoryTypeOK

LEMMA ClaimRemembers ==
  ASSUME MemoryInv, NEW p \in Processes, NEW b \in Memory!Branches, Memory!Claim(p, b)
  PROVE  MemoryInv' /\ Memory!MemoryFollowsTheUser
<1> DEFINE done == [job[b] EXCEPT !.status = IF Memory!Exhausted(b) THEN "failed" ELSE "completed", !.expired = FALSE]
           row == Memory!Leased(job[b])
           to == [Memory!Idle EXCEPT !.pc = "source", !.job = b, !.gen = job[b].gen + 1]
<1>1. /\ UNCHANGED <<epoch, completed, enabled, memory>>
      /\ Memory!Current(b) /\ (job[b].status = "pending" \/ job[b].expired)
  BY DEF Memory!Claim, Memory!Claimable
<1>2. /\ job[b] \in Memory!Job /\ JobRows /\ proc \in [Processes -> MemoryProcess]
      /\ job \in [Memory!Branches -> Memory!Job]
  BY DEF MemoryInv, Memory!MemoryTypeOK
<1>3. /\ job[b].status \in {"pending", "running"}
      /\ job[b].status = "pending" => job[b].attempt = 1 /\ job[b].gen = 0
      /\ job[b].status = "running" => job[b].attempt = job[b].gen /\ job[b].gen > 0
  BY <1>1, <1>2 DEF JobRows
<1>4. CASE /\ Memory!Exhausted(b) \/ ~enabled
           /\ job' = [job EXCEPT ![b].status = IF Memory!Exhausted(b) THEN "failed" ELSE "completed",
                                 ![b].expired = FALSE]
           /\ UNCHANGED proc
  <2>1. job' = [job EXCEPT ![b] = done]
    BY <1>4, <1>2 DEF Memory!Job
  <2>2. done \in Memory!Job /\ done.status \in {"failed", "completed"} /\ done.expired = FALSE
    BY <1>2 DEF Memory!Job
  <2> HIDE DEF done
  <2>3. job' \in [Memory!Branches -> Memory!Job] /\ JobRows' /\ Memory!EndedJobsStayEnded
    BY <2>1, <2>2, <1>1, <1>3, JobChanges
  <2>4. proc' = proc
    BY <1>4
  <2> QED
    BY <2>3, <2>4, <1>1, <1>2, StepOfJob DEF MemoryInv, Memory!MemoryTypeOK
<1>5. CASE /\ ~Memory!Exhausted(b) /\ job' = [job EXCEPT ![b] = Memory!Leased(@)]
           /\ proc' = [proc EXCEPT ![p] = to]
  <2>1. job' = [job EXCEPT ![b] = row]
    BY <1>5, <1>2
  <2>2. job[b].gen < MemoryAttempts /\ job[b].attempt + (IF job[b].status = "running" THEN 1 ELSE 0) = job[b].gen + 1
    BY <1>2, <1>3, <1>5, SessionDataType DEF Memory!Exhausted, Memory!Job
  <2>3. /\ row \in Memory!Job /\ row.status = "running" /\ row.attempt = row.gen /\ row.gen > 0
        /\ row.expired = FALSE
    <3> DEFINE n == job[b].gen + 1
    <3>1. row = [job[b] EXCEPT !.status = "running", !.attempt = n, !.gen = n, !.expired = FALSE]
      BY <2>2 DEF Memory!Leased
    <3>2. n \in 0 .. MemoryAttempts /\ n > 0
      BY <2>2, <1>2, SessionDataType DEF Memory!Job
    <3> HIDE DEF n, row
    <3>3. \A e \in Memory!Job, k \in 0 .. MemoryAttempts :
            [e EXCEPT !.status = "running", !.attempt = k, !.gen = k, !.expired = FALSE] \in Memory!Job
      BY DEF Memory!Job
    <3>4. row.status = "running" /\ row.attempt = n /\ row.gen = n /\ row.expired = FALSE
      BY <3>1, <1>2 DEF Memory!Job
    <3> QED
      BY <3>1, <3>2, <3>3, <3>4, <1>2
  <2>4. to \in MemoryProcess /\ to.job = b /\ to.gen \in 1 .. MemoryAttempts
    <3>1. Memory!Idle \in MemoryProcess /\ job[b].gen + 1 \in 1 .. MemoryAttempts /\ job[b].gen + 1 \in 0 .. MemoryAttempts
      BY <2>2, <1>2, AtWork, SessionDataType DEF Memory!Job
    <3>2. \A e \in MemoryProcess, n \in 0 .. MemoryAttempts :
            [e EXCEPT !.pc = "source", !.job = b, !.gen = n] \in MemoryProcess
      BY DEF MemoryProcess
    <3>3. to.job = b /\ to.gen = job[b].gen + 1
      BY DEF Memory!Idle
    <3> QED
      BY <3>1, <3>2, <3>3
  <2> HIDE DEF row, to
  <2>5. job' \in [Memory!Branches -> Memory!Job] /\ JobRows' /\ Memory!EndedJobsStayEnded
    BY <2>1, <2>3, <1>1, <1>3, JobChanges
  <2>6. /\ proc' \in [Processes -> MemoryProcess]
        /\ \A q \in Processes : proc'[q].pc # "idle" =>
             proc'[q].job \in Memory!Branches /\ proc'[q].gen \in 1 .. MemoryAttempts
    BY <1>5, <2>4, ProcessMoves
  <2> QED
    BY <2>5, <2>6, <1>1, StepOfJob
<1> QED
  BY <1>4, <1>5 DEF Memory!Claim

LEMMA DropRemembers ==
  ASSUME MemoryInv, NEW p \in Processes, Memory!Drop(p), UNCHANGED <<epoch, completed, enabled>>
  PROVE  MemoryInv' /\ Memory!MemoryFollowsTheUser
<1>1. proc' = [proc EXCEPT ![p] = Memory!Idle] /\ job' = job /\ memory' = memory
  BY DEF Memory!Drop
<1> QED
  BY <1>1, AtWork, ProcessMoves, JobsRest, StepOfJob

LEMMA SourceRemembers ==
  ASSUME MemoryInv, NEW p \in Processes, Memory!SourceForJob(p)
  PROVE  MemoryInv' /\ Memory!MemoryFollowsTheUser
<1> DEFINE to == [proc[p] EXCEPT !.pc = "extract"]
<1>1. proc[p].pc = "source" /\ UNCHANGED <<epoch, completed, enabled>>
  BY DEF Memory!SourceForJob
<1>2. CASE proc' = [proc EXCEPT ![p].pc = "extract"] /\ UNCHANGED <<job, memory>>
  <2>1. proc' = [proc EXCEPT ![p] = to]
    BY <1>2
  <2>2. to \in MemoryProcess /\ to.job = proc[p].job /\ to.gen = proc[p].gen
    BY AtWork DEF MemoryProcess
  <2> HIDE DEF to
  <2> QED
    BY <2>1, <2>2, <1>1, <1>2, AtWork, ProcessMoves, JobsRest, StepOfJob
<1> QED
  BY <1>1, <1>2, DropRemembers DEF Memory!SourceForJob

LEMMA ExtractRemembers ==
  ASSUME MemoryInv, NEW p \in Processes, Memory!Extract(p)
  PROVE  MemoryInv' /\ Memory!MemoryFollowsTheUser
<1>1. proc[p].pc = "extract" /\ UNCHANGED <<epoch, completed, enabled, job, memory>>
  BY DEF Memory!Extract
<1>2. CASE \E found \in Memory!Answers : proc' = [proc EXCEPT ![p].pc = "complete", ![p].found = found]
  <2> PICK found \in Memory!Answers : proc' = [proc EXCEPT ![p].pc = "complete", ![p].found = found]
    BY <1>2
  <2> DEFINE to == [proc[p] EXCEPT !.pc = "complete", !.found = found]
  <2>1. proc' = [proc EXCEPT ![p] = to]
    BY DEF MemoryInv, MemoryProcess
  <2>2. to \in MemoryProcess /\ to.job = proc[p].job /\ to.gen = proc[p].gen
    BY AtWork DEF MemoryProcess, Memory!Answers
  <2> HIDE DEF to
  <2> QED
    BY <2>1, <2>2, <1>1, AtWork, ProcessMoves, JobsRest, StepOfJob
<1>3. CASE proc' = [proc EXCEPT ![p] = Memory!ToFail(p)]
  BY <1>1, <1>3, AtWork, ProcessMoves, JobsRest, StepOfJob
<1> QED
  BY <1>2, <1>3 DEF Memory!Extract

\* What is inserted is of the job's branch and under its lease, and nothing is taken away.
LEMMA InsertedRows ==
  ASSUME MemoryInv, NEW p \in Processes, proc[p].pc = "store"
  PROVE  /\ memory \subseteq Memory!Inserted(p) /\ Memory!Inserted(p) \subseteq Memory!Memory
         /\ \A m \in Memory!Inserted(p) \ memory :
              <<m.run, m.epoch>> = proc[p].job /\ m.by = proc[p].gen /\ proc[p].found # {}
         /\ \A m, n \in Memory!Inserted(p) : m.epoch = n.epoch /\ m.fact = n.fact => m = n
<1>1. /\ proc[p] \in MemoryProcess /\ proc[p].job \in Memory!Branches /\ proc[p].gen \in 1 .. MemoryAttempts
      /\ memory \subseteq Memory!Memory
  BY AtWork DEF MemoryInv, Memory!MemoryTypeOK
<1> DEFINE row(f) == [run |-> proc[p].job[1], epoch |-> proc[p].job[2], fact |-> f, archived |-> FALSE, by |-> proc[p].gen]
<1>2. ASSUME NEW f \in proc[p].found
      PROVE  /\ row(f) \in Memory!Memory /\ <<row(f).run, row(f).epoch>> = proc[p].job /\ row(f).by = proc[p].gen
             /\ row(f).epoch = proc[p].job[2] /\ row(f).fact = f
  BY <1>1 DEF Memory!Memory, Memory!Branches, MemoryProcess
<1>3. \A m \in Memory!Inserted(p) :
        m \in memory \/ \E f \in proc[p].found : m = row(f) /\ \A n \in memory : n.epoch = proc[p].job[2] => n.fact # f
  BY DEF Memory!Inserted
<1>4. memory \subseteq Memory!Inserted(p)
  BY DEF Memory!Inserted
<1> HIDE DEF row
<1>5. ASSUME NEW m \in Memory!Inserted(p), NEW n \in Memory!Inserted(p), m.epoch = n.epoch, m.fact = n.fact
      PROVE  m = n
  <2>1. CASE m \in memory /\ n \in memory
    BY <2>1, <1>5 DEF MemoryInv, FactsOnce
  <2>2. CASE m \in memory /\ n \notin memory
    BY <2>2, <1>2, <1>3, <1>5
  <2>3. CASE m \notin memory /\ n \in memory
    BY <2>3, <1>2, <1>3, <1>5
  <2>4. CASE m \notin memory /\ n \notin memory
    BY <2>4, <1>2, <1>3, <1>5
  <2> QED
    BY <2>1, <2>2, <2>3, <2>4
<1> QED
  BY <1>1, <1>2, <1>3, <1>4, <1>5

LEMMA CompleteRemembers ==
  ASSUME MemoryInv, NEW p \in Processes, Memory!Complete(p)
  PROVE  MemoryInv' /\ Memory!MemoryFollowsTheUser
<1>1. proc[p].pc = "complete" /\ UNCHANGED <<epoch, completed, enabled, job, memory>>
  BY DEF Memory!Complete
<1>2. CASE proc' = [proc EXCEPT ![p].pc = "store", ![p].found = IF Memory!Stores(p) THEN @ ELSE {}]
  <2> DEFINE kept == IF Memory!Stores(p) THEN proc[p].found ELSE {}
             to == [proc[p] EXCEPT !.pc = "store", !.found = kept]
  <2>1. proc[p] \in MemoryProcess /\ kept \in SUBSET Facts
    BY AtWork DEF MemoryProcess
  <2>2. proc' = [proc EXCEPT ![p] = to]
    BY <1>2 DEF MemoryInv, MemoryProcess
  <2> HIDE DEF kept
  <2>3. to \in MemoryProcess /\ to.job = proc[p].job /\ to.gen = proc[p].gen
    BY <2>1 DEF MemoryProcess
  <2> HIDE DEF to
  <2> QED
    BY <2>2, <2>3, <1>1, AtWork, ProcessMoves, JobsRest, StepOfJob
<1>3. CASE proc' = [proc EXCEPT ![p] = Memory!ToFail(p)]
  BY <1>1, <1>3, AtWork, ProcessMoves, JobsRest, StepOfJob
<1>4. CASE proc' = [proc EXCEPT ![p] = Memory!Idle]
  BY <1>1, <1>4, AtWork, ProcessMoves, JobsRest, StepOfJob
<1> QED
  BY <1>2, <1>3, <1>4 DEF Memory!Complete

LEMMA StoreRemembers ==
  ASSUME MemoryInv, Transactions, NEW p \in Processes, Memory!Store(p)
  PROVE  MemoryInv' /\ Memory!MemoryFollowsTheUser
<1> DEFINE b == proc[p].job
           row == [job[b] EXCEPT !.status = "completed", !.expired = FALSE]
<1>1. proc[p].pc = "store" /\ UNCHANGED <<epoch, completed, enabled>> /\ Memory!Holds(p)
  BY DEF Memory!Store, Transactions
<1>2. /\ b \in Memory!Branches /\ proc[p].gen \in 1 .. MemoryAttempts
      /\ job \in [Memory!Branches -> Memory!Job] /\ job[b] \in Memory!Job /\ JobRows
      /\ memory \subseteq Memory!Memory /\ Memory!OneExtractionPerJob
  BY <1>1, AtWork DEF MemoryInv, Memory!MemoryTypeOK
<1>3. CASE /\ memory' = Memory!Inserted(p)
           /\ job' = [job EXCEPT ![proc[p].job].status = "completed", ![proc[p].job].expired = FALSE]
           /\ \E next \in {Memory!Idle, Memory!ToFail(p)} : proc' = [proc EXCEPT ![p] = next]
  <2>1. job' = [job EXCEPT ![b] = row]
    BY <1>2, <1>3 DEF Memory!Job
  <2>2. job[b].status = "running" /\ job[b].gen = proc[p].gen /\ Memory!Current(b)
    BY <1>1, <1>2 DEF Memory!Holds, JobRows
  <2>3. row \in Memory!Job /\ row.status = "completed" /\ row.gen = job[b].gen /\ row.expired = FALSE
    BY <1>2 DEF Memory!Job
  <2> HIDE DEF row
  <2>4. /\ job' \in [Memory!Branches -> Memory!Job] /\ JobRows' /\ Memory!EndedJobsStayEnded
        /\ job'[b] = row /\ \A c \in Memory!Branches \ {b} : job'[c] = job[c]
    BY <2>1, <2>2, <2>3, <1>1, <1>2, JobChanges
  <2>5. /\ proc' \in [Processes -> MemoryProcess]
        /\ \A q \in Processes : proc'[q].pc # "idle" =>
             proc'[q].job \in Memory!Branches /\ proc'[q].gen \in 1 .. MemoryAttempts
    <3>1. PICK next \in {Memory!Idle, Memory!ToFail(p)} : proc' = [proc EXCEPT ![p] = next]
      BY <1>3
    <3>2. next \in MemoryProcess /\ (next.pc # "idle" => next.job \in Memory!Branches /\ next.gen \in 1 .. MemoryAttempts)
      BY <1>1, AtWork
    <3> QED
      BY <3>1, <3>2, ProcessMoves
  <2>6. /\ memory \subseteq memory' /\ memory' \subseteq Memory!Memory
        /\ \A m \in memory' \ memory : <<m.run, m.epoch>> = b /\ m.by = proc[p].gen /\ proc[p].found # {}
        /\ FactsOnce'
    BY <1>1, <1>2, <1>3, InsertedRows DEF FactsOnce
  <2>7. Memory!OneExtractionPerJob'
    <3> SUFFICES ASSUME NEW m \in memory'
                 PROVE  job'[<<m.run, m.epoch>>].status = "completed" /\ m.by = job'[<<m.run, m.epoch>>].gen
      BY DEF Memory!OneExtractionPerJob
    <3>1. CASE m \in memory
      <4>1. <<m.run, m.epoch>> \in Memory!Branches
        BY <3>1, <1>2 DEF Memory!Memory, Memory!Branches
      <4>2. job[<<m.run, m.epoch>>].status = "completed" /\ m.by = job[<<m.run, m.epoch>>].gen
        BY <3>1, <1>2 DEF Memory!OneExtractionPerJob
      <4> QED
        BY <4>1, <4>2, <2>4 DEF Memory!EndedJobsStayEnded
    <3>2. CASE m \notin memory
      BY <3>2, <2>2, <2>3, <2>4, <2>6
    <3> QED
      BY <3>1, <3>2
  <2>8. Memory!NoUnwantedMemory /\ Memory!DeletedMemoryStaysDeleted'
    <3>1. \A m \in memory' \ memory : epoch[m.run] = m.epoch /\ (enabled \/ proc[p].overtaken) /\ proc[p].job = <<m.run, m.epoch>>
      BY <2>2, <2>6, <1>1 DEF Memory!Current, Transactions
    <3>2. Memory!DeletedMemoryStaysDeleted'
      BY <2>6 DEF FactsOnce, Memory!DeletedMemoryStaysDeleted
    <3> QED
      BY <3>1, <3>2 DEF Memory!NoUnwantedMemory
  <2>9. Memory!MemoryTypeOK'
    BY <2>4, <2>5, <2>6, <1>1 DEF MemoryInv, Memory!MemoryTypeOK
  <2> QED
    BY <2>4, <2>5, <2>6, <2>7, <2>8, <2>9 DEF MemoryInv, Memory!MemoryFollowsTheUser
<1>4. CASE proc' = [proc EXCEPT ![p] = Memory!ToFail(p)] /\ UNCHANGED <<job, memory>>
  BY <1>1, <1>4, AtWork, ProcessMoves, JobsRest, StepOfJob
<1> QED
  BY <1>3, <1>4 DEF Memory!Store

LEMMA FailRemembers ==
  ASSUME MemoryInv, NEW p \in Processes, Memory!Fail(p)
  PROVE  MemoryInv' /\ Memory!MemoryFollowsTheUser
<1> DEFINE b == proc[p].job
           row == [job[b] EXCEPT !.status = "failed", !.expired = FALSE]
<1>1. proc[p].pc = "fail" /\ UNCHANGED <<epoch, completed, enabled>>
  BY DEF Memory!Fail
<1>2. b \in Memory!Branches /\ job \in [Memory!Branches -> Memory!Job] /\ job[b] \in Memory!Job
  BY <1>1, AtWork DEF MemoryInv, Memory!MemoryTypeOK
<1>3. CASE job' = Memory!Failed(b) /\ proc' = [proc EXCEPT ![p] = Memory!Idle] /\ UNCHANGED memory
  <2>1. job' = job \/ (job[b].status = "running" /\ job' = [job EXCEPT ![b] = row])
    BY <1>2, <1>3 DEF Memory!Failed, Memory!Job
  <2>2. row \in Memory!Job /\ row.status = "failed" /\ row.expired = FALSE
    BY <1>2 DEF Memory!Job
  <2> HIDE DEF b, row
  <2>3. job' \in [Memory!Branches -> Memory!Job] /\ JobRows' /\ Memory!EndedJobsStayEnded
    BY <2>1, <2>2, <1>1, <1>2, JobChanges, JobsRest
  <2> QED
    BY <2>3, <1>1, <1>3, AtWork, ProcessMoves, StepOfJob
<1> QED
  BY <1>1, <1>3, DropRemembers DEF Memory!Fail

LEMMA ExpireRemembers ==
  ASSUME MemoryInv, NEW b \in Memory!Branches, Memory!Expire(b)
  PROVE  MemoryInv' /\ Memory!MemoryFollowsTheUser
<1> DEFINE row == [job[b] EXCEPT !.expired = TRUE]
<1>1. /\ job[b].status = "running" /\ job' = [job EXCEPT ![b] = row]
      /\ UNCHANGED <<epoch, completed, enabled, memory, proc>>
  BY DEF Memory!Expire
<1>2. job[b] \in Memory!Job /\ JobRows
  BY DEF MemoryInv, Memory!MemoryTypeOK
<1>3. /\ row \in Memory!Job /\ row.status = "running" /\ row.attempt = job[b].attempt /\ row.gen = job[b].gen
  BY <1>1, <1>2 DEF Memory!Job
<1>4. job[b].attempt = job[b].gen /\ job[b].gen > 0 /\ Memory!Current(b)
  BY <1>1, <1>2 DEF JobRows
<1> HIDE DEF row
<1>5. job' \in [Memory!Branches -> Memory!Job] /\ JobRows' /\ Memory!EndedJobsStayEnded
  BY <1>1, <1>3, <1>4, JobChanges
<1> QED
  BY <1>1, <1>5, StepOfJob DEF MemoryInv, Memory!MemoryTypeOK

\* The user switches memory on or off while processes are at work.
LEMMA UserOvertakes ==
  ASSUME MemoryInv, NEW value \in BOOLEAN, Memory!SetSessionEnabled(value)
  PROVE  /\ proc' \in [Processes -> MemoryProcess]
         /\ \A q \in Processes : proc'[q].pc # "idle" =>
              proc'[q].job \in Memory!Branches /\ proc'[q].gen \in 1 .. MemoryAttempts
         /\ \A q \in Processes :
              /\ proc'[q].pc = proc[q].pc /\ proc'[q].job = proc[q].job /\ proc'[q].gen = proc[q].gen
              /\ proc'[q].found = proc[q].found
              /\ proc'[q].overtaken = IF proc[q].pc = "store" /\ ~value THEN TRUE ELSE proc[q].overtaken
<1>1. \A q \in Processes : proc[q] \in MemoryProcess
  BY DEF MemoryInv
<1>2. proc' = [q \in Processes |->
                [proc[q] EXCEPT !.overtaken = IF proc[q].pc = "store" /\ ~value THEN TRUE ELSE proc[q].overtaken]]
  BY DEF Memory!SetSessionEnabled
<1>3. ASSUME NEW q \in Processes
      PROVE  /\ proc'[q] \in MemoryProcess
             /\ proc'[q].pc = proc[q].pc /\ proc'[q].job = proc[q].job /\ proc'[q].gen = proc[q].gen
             /\ proc'[q].found = proc[q].found
             /\ proc'[q].overtaken = IF proc[q].pc = "store" /\ ~value THEN TRUE ELSE proc[q].overtaken
  <2>1. PICK o \in BOOLEAN : o = IF proc[q].pc = "store" /\ ~value THEN TRUE ELSE proc[q].overtaken
    BY <1>1 DEF MemoryProcess
  <2>2. proc'[q] = [proc[q] EXCEPT !.overtaken = o]
    BY <1>2, <2>1
  <2>3. /\ [proc[q] EXCEPT !.overtaken = o] \in MemoryProcess
        /\ [proc[q] EXCEPT !.overtaken = o].pc = proc[q].pc /\ [proc[q] EXCEPT !.overtaken = o].job = proc[q].job
        /\ [proc[q] EXCEPT !.overtaken = o].gen = proc[q].gen /\ [proc[q] EXCEPT !.overtaken = o].found = proc[q].found
        /\ [proc[q] EXCEPT !.overtaken = o].overtaken = o
    BY <1>1 DEF MemoryProcess
  <2> QED
    BY <2>1, <2>2, <2>3
<1>4. proc' \in [Processes -> MemoryProcess]
  BY <1>2, <1>3
<1> QED
  BY <1>3, <1>4 DEF MemoryInv, Memory!MemoryTypeOK

\* What the user does: memory is switched on or off, and a memory deleted.
LEMMA UserActs ==
  ASSUME MemoryInv,
         (\E value \in BOOLEAN : Memory!SetSessionEnabled(value)) \/ (\E m \in memory : Memory!Archive(m))
  PROVE  MemoryInv' /\ Memory!MemoryFollowsTheUser
<1>1. UNCHANGED <<epoch, completed, job>>
  BY DEF Memory!SetSessionEnabled, Memory!Archive
<1>2. job' \in [Memory!Branches -> Memory!Job] /\ JobRows' /\ Memory!EndedJobsStayEnded
  BY <1>1, JobsRest
<1>3. ASSUME NEW value \in BOOLEAN, Memory!SetSessionEnabled(value) PROVE MemoryInv' /\ Memory!MemoryFollowsTheUser
  <2>1. memory' = memory /\ enabled' \in BOOLEAN
    BY <1>3 DEF Memory!SetSessionEnabled
  <2>2. /\ memory' \subseteq Memory!Memory /\ Memory!OneExtractionPerJob'
        /\ Memory!NoUnwantedMemory /\ Memory!DeletedMemoryStaysDeleted' /\ FactsOnce'
    BY <2>1, <1>2, MemoriesStay
  <2>3. /\ proc' \in [Processes -> MemoryProcess]
        /\ \A q \in Processes : proc'[q].pc # "idle" =>
             proc'[q].job \in Memory!Branches /\ proc'[q].gen \in 1 .. MemoryAttempts
    BY <1>3, UserOvertakes
  <2> QED
    BY <2>1, <2>2, <2>3, <1>1, <1>2 DEF MemoryInv, Memory!MemoryFollowsTheUser, Memory!MemoryTypeOK
<1>4. ASSUME NEW m \in memory, Memory!Archive(m) PROVE MemoryInv' /\ Memory!MemoryFollowsTheUser
  <2> DEFINE gone == [m EXCEPT !.archived = TRUE]
  <2>1. ~m.archived /\ memory' = (memory \ {m}) \union {gone} /\ enabled' = enabled /\ proc' = proc
    BY <1>4 DEF Memory!Archive
  <2>2. memory \subseteq Memory!Memory /\ Memory!OneExtractionPerJob /\ FactsOnce
    BY DEF MemoryInv, Memory!MemoryTypeOK
  <2>3. /\ gone \in Memory!Memory /\ gone.run = m.run /\ gone.epoch = m.epoch /\ gone.by = m.by /\ gone.archived
        /\ gone.fact = m.fact
    BY <2>2 DEF Memory!Memory
  <2> HIDE DEF gone
  <2>4. memory' \subseteq Memory!Memory /\ Memory!OneExtractionPerJob'
    BY <2>1, <2>2, <2>3, <1>1 DEF Memory!OneExtractionPerJob
  <2>5. FactsOnce'
    BY <2>1, <2>2, <2>3 DEF FactsOnce
  <2>6. Memory!NoUnwantedMemory /\ Memory!DeletedMemoryStaysDeleted'
    BY <2>1, <2>3, <2>5 DEF FactsOnce, Memory!NoUnwantedMemory, Memory!DeletedMemoryStaysDeleted
  <2> QED
    BY <2>1, <2>4, <2>5, <2>6, <1>1, <1>2 DEF MemoryInv, Memory!MemoryFollowsTheUser, Memory!MemoryTypeOK
<1> QED
  BY <1>3, <1>4

LEMMA CrashRemembers ==
  ASSUME MemoryInv, NEW p \in Processes, Memory!Crash(p)
  PROVE  MemoryInv' /\ Memory!MemoryFollowsTheUser
BY AtWork, ProcessMoves, JobsRest, StepOfJob DEF Memory!Crash

LEMMA MemoryRests ==
  ASSUME MemoryInv, UNCHANGED memoryVars
  PROVE  MemoryInv' /\ Memory!MemoryFollowsTheUser
BY JobsRest, StepOfJob DEF memoryVars, MemoryInv, Memory!MemoryTypeOK

LEMMA MemoryInitInv ==
  ASSUME Memory!Init
  PROVE  MemoryInv /\ Transactions
<1>1. /\ epoch = [r \in Runs |-> 1] /\ completed = {} /\ enabled = TRUE
      /\ job = [b \in Memory!Branches |-> Memory!NoJob] /\ memory = {}
      /\ proc = [p \in Processes |-> Memory!Idle]
  BY DEF Memory!Init
<1>2. /\ Memory!NoJob \in Memory!Job /\ Memory!NoJob.status = "none" /\ Memory!NoJob.expired = FALSE
      /\ Memory!Idle \in MemoryProcess /\ Memory!Idle.pc = "idle"
  BY SessionDataType DEF Memory!NoJob, Memory!Job, Memory!Idle, MemoryProcess
<1>3. JobRows
  BY <1>1, <1>2 DEF JobRows
<1>4. Memory!MemoryTypeOK /\ Memory!OneExtractionPerJob
  BY <1>1, <1>2, SessionDataType DEF Memory!MemoryTypeOK, Memory!OneExtractionPerJob
<1>5. FactsOnce
  BY <1>1 DEF FactsOnce
<1>6. Transactions
  BY <1>1, <1>2 DEF Transactions
<1> QED
  BY <1>1, <1>2, <1>3, <1>4, <1>5, <1>6 DEF MemoryInv

\* A step that touches neither a transaction under way nor the job it has locked.
LEMMA TransactionsRest ==
  ASSUME Transactions, enabled' = enabled,
         \A q \in Processes : proc'[q].pc = "store" =>
           /\ proc'[q] = proc[q] /\ job'[proc[q].job].status = job[proc[q].job].status
           /\ job'[proc[q].job].gen = job[proc[q].job].gen
  PROVE  Transactions'
<1> SUFFICES ASSUME NEW p \in Processes, proc'[p].pc = "store"
             PROVE  /\ Memory!Holds(p)' /\ (proc'[p].found # {} => enabled' \/ proc'[p].overtaken)
                    /\ \A q \in Processes : proc'[q].pc = "store" /\ proc'[q].job = proc'[p].job => q = p
  BY DEF Transactions
<1>1. Memory!Holds(p)' /\ (proc'[p].found # {} => enabled' \/ proc'[p].overtaken)
  BY DEF Transactions, Memory!Holds
<1>2. \A q \in Processes : proc'[q].pc = "store" /\ proc'[q].job = proc'[p].job => q = p
  BY DEF Transactions
<1> QED
  BY <1>1, <1>2

\* A process moves and the row of a job changes that no transaction has locked, or that of its own.
LEMMA TransactionsOf ==
  ASSUME MemoryInv, Transactions, enabled' = enabled, NEW p \in Processes, proc'[p].pc # "store",
         \A q \in Processes \ {p} : proc'[q] = proc[q], NEW b \in Memory!Branches,
         \A q \in Processes \ {p} : proc[q].pc = "store" => proc[q].job # b,
         \A c \in Memory!Branches \ {b} : job'[c] = job[c]
  PROVE  Transactions'
<1>2. \A q \in Processes : proc[q].pc = "store" => proc[q].job \in Memory!Branches
  BY DEF MemoryInv, Memory!MemoryTypeOK
<1>3. \A q \in Processes : proc'[q].pc = "store" => proc'[q] = proc[q] /\ job'[proc[q].job] = job[proc[q].job]
  BY <1>2
<1> QED
  BY <1>3, TransactionsRest

\* The final transaction begins under the lease and with what it read of the opt-out.
LEMMA CompleteTransacts ==
  ASSUME MemoryInv, Transactions, NEW p \in Processes, Memory!Complete(p)
  PROVE  Transactions'
<1>1. /\ UNCHANGED <<epoch, completed, enabled, job, memory>> /\ proc[p].pc = "complete"
      /\ \A q \in Processes : proc[q].pc = "store" => proc[q].job # proc[p].job
  BY DEF Memory!Complete, Memory!Unlocked
<1>2. proc \in [Processes -> MemoryProcess] /\ proc[p].job \in Memory!Branches
  BY <1>1, AtWork DEF MemoryInv
<1>3. CASE Memory!Holds(p) /\ proc' = [proc EXCEPT ![p].pc = "store", ![p].found = IF Memory!Stores(p) THEN @ ELSE {}]
  <2>1. /\ \A q \in Processes \ {p} : proc'[q] = proc[q]
        /\ proc'[p].job = proc[p].job /\ proc'[p].gen = proc[p].gen
        /\ proc'[p].found = IF Memory!Stores(p) THEN proc[p].found ELSE {}
    BY <1>2, <1>3 DEF MemoryProcess
  <2>2. ASSUME NEW q \in Processes, proc'[q].pc = "store"
        PROVE  /\ Memory!Holds(q)' /\ (proc'[q].found # {} => enabled' \/ proc'[q].overtaken)
               /\ \A o \in Processes : proc'[o].pc = "store" /\ proc'[o].job = proc'[q].job => o = q
    <3>1. CASE q = p
      BY <3>1, <2>1, <1>1, <1>3 DEF Memory!Holds, Memory!Stores
    <3>2. CASE q # p
      BY <3>2, <2>1, <2>2, <1>1 DEF Memory!Holds, Transactions
    <3> QED
      BY <3>1, <3>2
  <2> QED
    BY <2>2 DEF Transactions
<1>4. CASE proc' = [proc EXCEPT ![p] = Memory!ToFail(p)] \/ proc' = [proc EXCEPT ![p] = Memory!Idle]
  <2>1. proc'[p].pc # "store" /\ \A q \in Processes \ {p} : proc'[q] = proc[q]
    BY <1>2, <1>4, AtWork
  <2> QED
    BY <2>1, <1>1, <1>2, TransactionsOf
<1> QED
  BY <1>3, <1>4 DEF Memory!Complete

LEMMA StoreTransacts ==
  ASSUME MemoryInv, Transactions, NEW p \in Processes, Memory!Store(p)
  PROVE  Transactions'
<1>1. /\ enabled' = enabled /\ proc[p].pc = "store"
      /\ \E next \in {Memory!Idle, Memory!ToFail(p)} : proc' = [proc EXCEPT ![p] = next]
  BY DEF Memory!Store
<1>2. proc[p].job \in Memory!Branches /\ job \in [Memory!Branches -> Memory!Job]
  BY <1>1, AtWork DEF MemoryInv, Memory!MemoryTypeOK
<1>3. \A c \in Memory!Branches \ {proc[p].job} : job'[c] = job[c]
  BY <1>2 DEF Memory!Store
<1>4. \A q \in Processes \ {p} : proc[q].pc = "store" => proc[q].job # proc[p].job
  BY <1>1 DEF Transactions
<1>5. proc'[p].pc # "store" /\ \A q \in Processes \ {p} : proc'[q] = proc[q]
  BY <1>1, AtWork DEF MemoryInv
<1> QED
  BY <1>1, <1>2, <1>3, <1>4, <1>5, TransactionsOf

LEMMA FailTransacts ==
  ASSUME MemoryInv, Transactions, NEW p \in Processes, Memory!Fail(p)
  PROVE  Transactions'
<1>1. /\ enabled' = enabled /\ proc[p].pc = "fail" /\ proc' = [proc EXCEPT ![p] = Memory!Idle]
      /\ \A q \in Processes : proc[q].pc = "store" => proc[q].job # proc[p].job
  BY DEF Memory!Fail, Memory!Drop, Memory!Unlocked
<1>2. proc[p].job \in Memory!Branches /\ job \in [Memory!Branches -> Memory!Job]
  BY <1>1, AtWork DEF MemoryInv, Memory!MemoryTypeOK
<1>3. \A c \in Memory!Branches \ {proc[p].job} : job'[c] = job[c]
  BY <1>2 DEF Memory!Fail, Memory!Drop, Memory!Failed
<1>4. proc'[p].pc # "store" /\ \A q \in Processes \ {p} : proc'[q] = proc[q]
  BY <1>1, AtWork DEF MemoryInv
<1> QED
  BY <1>1, <1>2, <1>3, <1>4, TransactionsOf

LEMMA ClaimTransacts ==
  ASSUME MemoryInv, Transactions, NEW p \in Processes, NEW b \in Memory!Branches, Memory!Claim(p, b)
  PROVE  Transactions'
<1>1. /\ enabled' = enabled /\ \A q \in Processes : proc[q].pc = "store" => proc[q].job # b
  BY DEF Memory!Claim, Memory!Unlocked
<1>2. job \in [Memory!Branches -> Memory!Job]
  BY DEF MemoryInv, Memory!MemoryTypeOK
<1>3. \A c \in Memory!Branches \ {b} : job'[c] = job[c]
  BY <1>2 DEF Memory!Claim
<1>4. CASE proc' = proc
  <2>1. \A q \in Processes : proc[q].pc = "store" => proc[q].job \in Memory!Branches
    BY DEF MemoryInv, Memory!MemoryTypeOK
  <2> QED
    BY <2>1, <1>1, <1>3, <1>4, TransactionsRest
<1>5. CASE proc' = [proc EXCEPT ![p] = [Memory!Idle EXCEPT !.pc = "source", !.job = b, !.gen = job[b].gen + 1]]
  <2>1. proc'[p].pc = "source" /\ \A q \in Processes \ {p} : proc'[q] = proc[q]
    BY <1>5 DEF MemoryInv, Memory!Idle
  <2> QED
    BY <2>1, <1>1, <1>3, TransactionsOf
<1> QED
  BY <1>4, <1>5 DEF Memory!Claim

\* The steps of a process outside a transaction that leave the jobs alone, and its death.
LEMMA OutsideTransactions ==
  ASSUME MemoryInv, Transactions, NEW p \in Processes,
         Memory!SourceForJob(p) \/ Memory!Extract(p) \/ Memory!Crash(p)
  PROVE  Transactions'
<1>1. enabled' = enabled /\ job' = job
  BY DEF Memory!SourceForJob, Memory!Extract, Memory!Crash, Memory!Drop
<1>2. proc \in [Processes -> MemoryProcess]
  BY DEF MemoryInv
<1>3. proc'[p].pc # "store" /\ \A q \in Processes \ {p} : proc'[q] = proc[q]
  <2>1. CASE Memory!SourceForJob(p)
    BY <2>1, <1>2, AtWork DEF Memory!SourceForJob, Memory!Drop, MemoryProcess
  <2>2. CASE Memory!Extract(p)
    BY <2>2, <1>2, AtWork DEF Memory!Extract, MemoryProcess
  <2>3. CASE Memory!Crash(p)
    BY <2>3, <1>2, AtWork DEF Memory!Crash
  <2> QED
    BY <2>1, <2>2, <2>3
<1> QED
  BY <1>1, <1>3, TransactionsRest

\* What happens to the runs, the leases and the opt-out beside the processes.
LEMMA BesideTransactions ==
  ASSUME MemoryInv, Transactions,
         \/ \E r \in Runs : Memory!CompleteRun(r) \/ Memory!Rewind(r)
         \/ \E b \in Memory!Branches : Memory!Expire(b)
         \/ \E m \in memory : Memory!Archive(m)
         \/ \E value \in BOOLEAN : Memory!SetSessionEnabled(value)
  PROVE  Transactions'
<1>1. /\ job \in [Memory!Branches -> Memory!Job] /\ proc \in [Processes -> MemoryProcess]
      /\ epoch \in [Runs -> 1 .. MemoryEpochs]
      /\ \A q \in Processes : proc[q].pc = "store" =>
           proc[q].job \in Memory!Branches /\ job[proc[q].job].status = "running"
  BY DEF MemoryInv, Memory!MemoryTypeOK, Transactions, Memory!Holds
<1>2. ASSUME NEW r \in Runs, Memory!CompleteRun(r) PROVE Transactions'
  <2>1. /\ enabled' = enabled /\ proc' = proc
        /\ job' = job \/ (job[<<r, epoch[r]>>] = Memory!NoJob
                           /\ \A c \in Memory!Branches \ {<<r, epoch[r]>>} : job'[c] = job[c])
    BY <1>1, <1>2 DEF Memory!CompleteRun
  <2>2. Memory!NoJob.status = "none"
    BY DEF Memory!NoJob
  <2> QED
    BY <2>1, <2>2, <1>1, TransactionsRest
<1>3. ASSUME NEW r \in Runs, Memory!Rewind(r) PROVE Transactions'
  <2>1. /\ enabled' = enabled /\ proc' = proc
        /\ \A c \in Memory!Branches \ {<<r, epoch[r]>>} : job'[c] = job[c]
        /\ \A q \in Processes : proc[q].pc = "store" => proc[q].job # <<r, epoch[r]>>
    BY <1>1, <1>3 DEF Memory!Rewind, Memory!Supersede, Memory!Unlocked
  <2> QED
    BY <2>1, <1>1, TransactionsRest
<1>4. ASSUME NEW b \in Memory!Branches, Memory!Expire(b) PROVE Transactions'
  <2>1. /\ enabled' = enabled /\ proc' = proc
        /\ \A c \in Memory!Branches : job'[c].status = job[c].status /\ job'[c].gen = job[c].gen
    BY <1>1, <1>4 DEF Memory!Expire, Memory!Job
  <2> QED
    BY <2>1, <1>1, TransactionsRest
<1>5. ASSUME NEW m \in memory, Memory!Archive(m) PROVE Transactions'
  BY <1>5, TransactionsRest DEF Memory!Archive
<1>6. ASSUME NEW value \in BOOLEAN, Memory!SetSessionEnabled(value) PROVE Transactions'
  <2>1. /\ enabled' = value /\ job' = job
        /\ \A q \in Processes :
              /\ proc'[q].pc = proc[q].pc /\ proc'[q].job = proc[q].job /\ proc'[q].gen = proc[q].gen
              /\ proc'[q].found = proc[q].found
              /\ proc'[q].overtaken = IF proc[q].pc = "store" /\ ~value THEN TRUE ELSE proc[q].overtaken
    BY <1>6, UserOvertakes DEF Memory!SetSessionEnabled
  <2>2. ASSUME NEW q \in Processes, proc'[q].pc = "store"
        PROVE  /\ Memory!Holds(q)' /\ (proc'[q].found # {} => enabled' \/ proc'[q].overtaken)
               /\ \A o \in Processes : proc'[o].pc = "store" /\ proc'[o].job = proc'[q].job => o = q
    <3>1. Memory!Holds(q)'
      <4>1. proc[q].pc = "store" /\ job' = job /\ proc'[q].job = proc[q].job /\ proc'[q].gen = proc[q].gen
        BY <2>1, <2>2
      <4>2. job[proc[q].job].status = "running" /\ job[proc[q].job].gen = proc[q].gen
        BY <4>1 DEF Transactions, Memory!Holds
      <4> QED
        BY <4>1, <4>2 DEF Memory!Holds
    <3>2. \A o \in Processes : proc'[o].pc = "store" /\ proc'[o].job = proc'[q].job => o = q
      BY <2>1, <2>2 DEF Transactions
    <3>3. CASE value = TRUE
      BY <3>1, <3>2, <3>3, <2>1
    <3>4. CASE value = FALSE
      BY <3>1, <3>2, <3>4, <2>1, <2>2
    <3> QED
      BY <3>3, <3>4
  <2> QED
    BY <2>2 DEF Transactions
<1> QED
  BY <1>2, <1>3, <1>4, <1>5, <1>6

LEMMA MemoryStep ==
  ASSUME MemoryInv, Transactions, [SessionNext]_sessionVars
  PROVE  MemoryInv' /\ Transactions' /\ Memory!MemoryFollowsTheUser
<1>1. CASE UNCHANGED memoryVars
  BY <1>1, MemoryRests, TransactionsRest DEF memoryVars
<1>2. CASE Memory!Next
  <2>1. MemoryInv' /\ Memory!MemoryFollowsTheUser
    BY <1>2, CompleteRunRemembers, RewindForgets, ClaimRemembers, SourceRemembers, ExtractRemembers, CompleteRemembers,
       StoreRemembers, FailRemembers, ExpireRemembers, UserActs, CrashRemembers DEF Memory!Next, Memory!Progress
  <2>2. Transactions'
    BY <1>2, ClaimTransacts, CompleteTransacts, StoreTransacts, FailTransacts, OutsideTransactions, BesideTransactions
       DEF Memory!Next, Memory!Progress
  <2> QED
    BY <2>1, <2>2
<1> QED
  BY <1>1, <1>2 DEF SessionNext, InMemory, InPlanning, InLocal, sessionVars

\* In every step, whatever dies, comes late or is switched off: a memory job that ended stays as it ended, its
\* memories are those of its last extraction, none is stored for a branch that was given up, nor while memory
\* is off but by a transaction that read the opt-out before it changed, and a fact whose memory was deleted has
\* no other memory of the same epoch number (claim_pending, complete, fail, archive of
\* PostgresMemoryRepository).
THEOREM MemoriesAreWanted == SessionSpec => MemoryFollowsTheUser
<1>1. SessionInit => MemoryInv /\ Transactions
  BY MemoryInitInv DEF SessionInit
<1>2. MemoryInv /\ Transactions /\ [SessionNext]_sessionVars => MemoryInv' /\ Transactions'
  BY MemoryStep
<1>3. MemoryInv /\ Transactions /\ [SessionNext]_sessionVars => [Memory!MemoryFollowsTheUser]_sessionVars
  BY MemoryStep
<1> QED
  BY <1>1, <1>2, <1>3, PTL DEF SessionSpec, MemoryFollowsTheUser

----------------------------------------------------------------------------
(* Task plans *)

\* The cardinality the module of the plans speaks of is the one the library's theorems are about.
LEMMA PlanningCardinality ==
  \A S : Planning!Cardinality(S) = Cardinality(S)
BY DEF Planning!Cardinality, Cardinality

\* A start of an order of the tasks: what a task in it depends on is in it, before the task, and the completed
\* tasks come first.
Ordered(plan, S, rank) ==
  /\ rank \in [S -> 1 .. Cardinality(S)]
  /\ \A t \in S : \A d \in plan.dependencies[t] : d \in S /\ rank[d] < rank[t]
  /\ \A t \in S \intersect plan.completed, u \in S \ plan.completed : rank[t] <= rank[u]
  /\ S \subseteq plan.completed \/ plan.completed \subseteq S

\* A start that is not all of the tasks can be continued: with a completed task as long as one is left.
LEMMA OrderContinues ==
  ASSUME NEW plan \in Planning!Plan, Planning!Valid(plan), NEW S \in SUBSET Tasks, NEW rank,
         Ordered(plan, S, rank), S # Tasks
  PROVE  \E t \in Tasks \ S : (\E new : Ordered(plan, S \union {t}, new)) /\ Cardinality(S \union {t}) = Cardinality(S) + 1
<1>1. /\ plan.dependencies \in [Tasks -> SUBSET Tasks] /\ plan.completed \in SUBSET Tasks
      /\ IsFiniteSet(S)
  BY SessionDataType, FS_Subset DEF Planning!Plan
<1>2. PICK t \in Tasks \ S : /\ plan.dependencies[t] \subseteq S
                             /\ t \in plan.completed => S \subseteq plan.completed
                             /\ t \notin plan.completed => plan.completed \subseteq S
  <2>1. CASE plan.completed \ S # {}
    <3>1. PICK t \in plan.completed \ S : plan.dependencies[t] \intersect (plan.completed \ S) = {}
      BY <1>1, <2>1 DEF Planning!Valid, Planning!Acyclic
    <3>2. plan.dependencies[t] \subseteq plan.completed
      BY <3>1 DEF Planning!Valid
    <3> QED
      BY <1>1, <2>1, <3>1, <3>2 DEF Ordered
  <2>2. CASE plan.completed \subseteq S
    <3>1. PICK t \in Tasks \ S : plan.dependencies[t] \intersect (Tasks \ S) = {}
      BY <1>1 DEF Planning!Valid, Planning!Acyclic
    <3> QED
      BY <1>1, <2>2, <3>1
  <2> QED
    BY <2>1, <2>2
<1> DEFINE new == [u \in S \union {t} |-> IF u = t THEN Cardinality(S) + 1 ELSE rank[u]]
<1>3. Cardinality(S) \in Nat /\ Cardinality(S \union {t}) = Cardinality(S) + 1
  BY <1>1, FS_CardinalityType, FS_AddElement
<1>4. \A u \in S : new[u] = rank[u] /\ rank[u] \in 1 .. Cardinality(S)
  BY DEF Ordered
<1>5. new[t] = Cardinality(S) + 1
  OBVIOUS
<1>6. new \in [S \union {t} -> 1 .. Cardinality(S \union {t})]
  BY <1>3, <1>4
<1> HIDE DEF new
<1>7. \A u \in S \union {t} : \A d \in plan.dependencies[u] : d \in S \union {t} /\ new[d] < new[u]
  BY <1>2, <1>3, <1>4, <1>5 DEF Ordered
<1>8. \A u \in (S \union {t}) \intersect plan.completed, v \in (S \union {t}) \ plan.completed : new[u] <= new[v]
  BY <1>2, <1>3, <1>4, <1>5 DEF Ordered
<1>9. S \union {t} \subseteq plan.completed \/ plan.completed \subseteq S \union {t}
  BY <1>2
<1> QED
  BY <1>3, <1>6, <1>7, <1>8, <1>9 DEF Ordered

\* So a plan that validate_graph accepts has an order of all its tasks.
LEMMA ValidPlansHaveAnOrder ==
  ASSUME NEW plan \in Planning!Plan, Planning!Valid(plan)
  PROVE  \E rank : Ordered(plan, Tasks, rank)
<1> DEFINE N == Cardinality(Tasks)
           Sizes == {n \in 0 .. N : \E S \in SUBSET Tasks : (\E rank : Ordered(plan, S, rank)) /\ Cardinality(S) = n}
<1>1. N \in Nat /\ \A S \in SUBSET Tasks : IsFiniteSet(S) /\ Cardinality(S) \in 0 .. N
  <2> SUFFICES ASSUME NEW S \in SUBSET Tasks PROVE N \in Nat /\ IsFiniteSet(S) /\ Cardinality(S) \in 0 .. N
    OBVIOUS
  <2> QED
    BY SessionDataType, FS_CardinalityType, FS_Subset
<1>2. 0 \in Sizes
  <2>1. Cardinality({}) = 0
    BY FS_EmptySet
  <2>2. Ordered(plan, {}, [t \in {} |-> 1])
    BY <2>1 DEF Ordered
  <2> QED
    BY <2>1, <2>2, <1>1
<1>3. PICK n \in Sizes : \A k \in Sizes : k <= n
  <2> HIDE DEF N
  <2>1. Sizes \in SUBSET (0 .. N) /\ Sizes # {}
    BY <1>2
  <2> HIDE DEF Sizes
  <2> QED
    BY <1>1, <2>1, LargestExists
<1>4. PICK S \in SUBSET Tasks : (\E rank : Ordered(plan, S, rank)) /\ Cardinality(S) = n
  OBVIOUS
<1>5. S = Tasks
  <2> SUFFICES ASSUME S # Tasks PROVE FALSE
    OBVIOUS
  <2>1. PICK t \in Tasks \ S : (\E new : Ordered(plan, S \union {t}, new)) /\ Cardinality(S \union {t}) = Cardinality(S) + 1
    BY <1>4, OrderContinues
  <2>2. n + 1 \in Sizes
    BY <1>1, <1>4, <2>1
  <2> QED
    BY <1>1, <1>3, <2>2
<1> QED
  BY <1>4, <1>5

\* A version of the plan of a branch, as a client or an attempt remembers it.
Seen == [epoch: 0 .. PlanEpochs, version: 0 .. MaxVersion]
Copy == [epoch: 0 .. PlanEpochs, plan: Planning!Plan, tool: BOOLEAN]

\* The plan is a version of the plan of the branch e.
PlanOf(e, plan) == \E r \in plans : r.epoch = e /\ r.plan = plan

\* The present branch is the last one and has a plan; a version is one row, valid, and follows the one its
\* author had read.
PlanRows ==
  /\ Planning!PlanTypeOK
  /\ \E r \in plans : r.epoch = branch
  /\ \A r \in plans : /\ r.epoch <= branch /\ Planning!Valid(r.plan)
                      /\ r.seen # Planning!Nowhere => r.seen.version = r.version - 1
  /\ \A q, r \in plans : q.epoch = r.epoch /\ q.version = r.version => q = r

\* A checkpoint is of the branch its attempt was loaded in and holds a plan of it.  The present attempt works
\* in the present branch, and the selected checkpoint has a plan of it.
PlanCopies ==
  /\ client \in [Clients -> Seen] /\ loop \in [Attempts -> Copy] /\ holder \in Attempts \union {0}
  /\ IsFiniteSet(checkpoints) /\ selected \in 0 .. Cardinality(checkpoints)
  /\ \A c \in checkpoints : /\ c.number \in 1 .. Cardinality(checkpoints) /\ c.by \in Attempts
                            /\ c.epoch = loop[c.by].epoch /\ c.epoch \in 1 .. branch /\ PlanOf(c.epoch, c.plan)
  /\ \A c, d \in checkpoints : c.number = d.number => c = d
  /\ holder # 0 => loop[holder].epoch = branch /\ PlanOf(branch, loop[holder].plan)
  /\ \A c \in checkpoints : c.number = selected => PlanOf(branch, c.plan)

PlanningInv == PlanRows /\ PlanCopies

\* The latest row is there and has the highest version of the branch.
LEMMA LatestRow ==
  ASSUME PlanRows
  PROVE  /\ Planning!Latest \in plans /\ Planning!Latest \in Planning!Row /\ Planning!Latest.epoch = branch
         /\ \A q \in plans : q.epoch = branch => q.version <= Planning!Latest.version
<1> DEFINE Here == {r \in plans : r.epoch = branch}
           Versions == {r.version : r \in Here}
<1>1. plans \subseteq Planning!Row /\ Here # {} /\ MaxVersion \in Nat
  BY SessionDataType DEF PlanRows, Planning!PlanTypeOK
<1>2. Versions \in SUBSET (0 .. MaxVersion) /\ Versions # {}
  BY <1>1 DEF Planning!Row
<1>3. \A r \in Here : r.version \in Versions
  OBVIOUS
<1>4. PICK n \in Versions : \A k \in Versions : k <= n
  <2> HIDE DEF Versions
  <2> QED
    BY <1>1, <1>2, LargestExists
<1>5. PICK r \in Here : r.version = n
  BY <1>4
<1>6. \E s \in plans : s.epoch = branch /\ \A q \in plans : q.epoch = branch => q.version <= s.version
  BY <1>3, <1>4, <1>5
<1>7. /\ Planning!Latest \in plans /\ Planning!Latest.epoch = branch
      /\ \A q \in plans : q.epoch = branch => q.version <= Planning!Latest.version
  BY <1>6 DEF Planning!Latest
<1> QED
  BY <1>1, <1>7

\* A row is added: the rows stay well formed and every plan of a branch stays one.
LEMMA RowAdded ==
  ASSUME PlanRows, NEW new \in Planning!Row, plans' = plans \union {new}, new.epoch = branch',
         branch' \in 1 .. PlanEpochs, branch <= branch', Planning!Valid(new.plan),
         new.seen # Planning!Nowhere => new.seen.version = new.version - 1,
         \A q \in plans : q.epoch = new.epoch => q.version # new.version,
         \A v \in 1 .. new.version : v = new.version \/ \E q \in plans : q.epoch = new.epoch /\ q.version = v
  PROVE  PlanRows'
<1>1. /\ branch \in 1 .. PlanEpochs /\ plans \subseteq Planning!Row
      /\ \A r \in plans : r.epoch \in 1 .. PlanEpochs /\ r.version \in 1 .. MaxVersion
  BY DEF PlanRows, Planning!PlanTypeOK, Planning!Row
<1>2. Planning!PlanTypeOK'
  <2>1. ASSUME NEW r \in plans', NEW v \in 1 .. r.version
        PROVE  \E q \in plans' : q.epoch = r.epoch /\ q.version = v
    BY <2>1 DEF PlanRows, Planning!PlanTypeOK
  <2> QED
    BY <1>1, <2>1 DEF Planning!PlanTypeOK
<1>3. \E r \in plans' : r.epoch = branch'
  OBVIOUS
<1>4. \A r \in plans' : /\ r.epoch <= branch' /\ Planning!Valid(r.plan)
                        /\ r.seen # Planning!Nowhere => r.seen.version = r.version - 1
  BY <1>1, SessionDataType DEF PlanRows
<1>5. \A q, r \in plans' : q.epoch = r.epoch /\ q.version = r.version => q = r
  BY DEF PlanRows
<1> QED
  BY <1>2, <1>3, <1>4, <1>5 DEF PlanRows, Planning!Valid, Planning!Acyclic, Planning!Nowhere

\* What an update does to the rows, whoever makes it.
LEMMA UpdateAddsARow ==
  ASSUME PlanRows, NEW version, NEW plan \in Candidates, NEW seen \in Seen, Planning!Update(version, plan, seen),
         seen = Planning!Nowhere \/ seen.version = version, branch' = branch
  PROVE  /\ PlanRows' /\ plans \subseteq plans' /\ PlanOf(branch, plan)'
         /\ Planning!Latest.version + 1 \in 0 .. MaxVersion
<1> DEFINE new == [epoch |-> branch, version |-> Planning!Latest.version + 1, plan |-> plan, seen |-> seen]
<1>1. /\ Planning!Valid(plan) /\ version = Planning!Latest.version /\ version < MaxVersion
      /\ plans' = plans \union {new}
  BY DEF Planning!Update, Planning!Expected
<1>2. /\ Planning!Latest \in plans /\ Planning!Latest \in Planning!Row /\ Planning!Latest.epoch = branch
      /\ \A q \in plans : q.epoch = branch => q.version <= Planning!Latest.version
  BY LatestRow
<1>3. /\ Planning!Latest.version \in 1 .. MaxVersion /\ branch \in 1 .. PlanEpochs
      /\ \A q \in plans : q.version \in 1 .. MaxVersion
  BY <1>2 DEF Planning!Row, PlanRows, Planning!PlanTypeOK
<1>4. plan \in Planning!Plan
  BY SessionDataType DEF Planning!Plan
<1>5. /\ new \in Planning!Row /\ new.epoch = branch /\ new.version = Planning!Latest.version + 1 /\ new.plan = plan
      /\ new.seen = seen
  BY <1>1, <1>3, <1>4, SessionDataType DEF Planning!Row, Seen
<1> HIDE DEF new
<1>6. \A q \in plans : q.epoch = new.epoch => q.version # new.version
  BY <1>2, <1>3, <1>5, SessionDataType
<1>7. ASSUME NEW v \in 1 .. new.version, v # new.version
      PROVE  \E q \in plans : q.epoch = new.epoch /\ q.version = v
  <2>1. v \in 1 .. Planning!Latest.version
    BY <1>3, <1>5, <1>7, SessionDataType
  <2> QED
    BY <2>1, <1>2, <1>5 DEF PlanRows, Planning!PlanTypeOK
<1>8. new.seen # Planning!Nowhere => new.seen.version = new.version - 1
  BY <1>1, <1>3, <1>5, SessionDataType
<1>9. PlanRows'
  BY <1>1, <1>3, <1>5, <1>6, <1>7, <1>8, RowAdded
<1>10. PlanOf(branch, plan)'
  BY <1>1, <1>5 DEF PlanOf
<1> QED
  BY <1>1, <1>3, <1>9, <1>10, SessionDataType

\* The copies do not mind that rows are added within the branch.
LEMMA CopiesStay ==
  ASSUME PlanCopies, plans \subseteq plans', UNCHANGED <<branch, holder, loop, checkpoints, selected>>,
         client' \in [Clients -> Seen]
  PROVE  PlanCopies'
<1>1. \A e, plan : PlanOf(e, plan) => \E r \in plans' : r.epoch = e /\ r.plan = plan
  BY DEF PlanOf
<1>2. \A c \in checkpoints : /\ \E r \in plans' : r.epoch = c.epoch /\ r.plan = c.plan
                             /\ c.number = selected => \E r \in plans' : r.epoch = branch /\ r.plan = c.plan
  BY <1>1 DEF PlanCopies
<1>3. holder # 0 => \E r \in plans' : r.epoch = branch /\ r.plan = loop[holder].plan
  BY <1>1 DEF PlanCopies
<1> QED
  BY <1>2, <1>3 DEF PlanCopies, PlanOf

\* Rows that no step touched.
LEMMA RowsRest ==
  ASSUME PlanRows, plans' = plans, branch' = branch
  PROVE  PlanRows'
BY DEF PlanRows, Planning!PlanTypeOK

LEMMA GetKeepsPlans ==
  ASSUME PlanningInv, NEW c \in Clients, Planning!Get(c)
  PROVE  PlanningInv'
<1> DEFINE seen == [epoch |-> branch, version |-> Planning!Latest.version]
<1>1. UNCHANGED <<branch, plans, holder, loop, checkpoints, selected>> /\ client' = [client EXCEPT ![c] = seen]
  BY DEF Planning!Get
<1>2. PlanRows /\ PlanCopies
  BY DEF PlanningInv
<1>3. seen \in Seen
  BY <1>2, LatestRow, SessionDataType DEF Seen, PlanRows, Planning!PlanTypeOK, Planning!Row
<1> HIDE DEF seen
<1>4. client' \in [Clients -> Seen]
  BY <1>1, <1>2, <1>3 DEF PlanCopies
<1> QED
  BY <1>1, <1>2, <1>4, RowsRest, CopiesStay DEF PlanningInv

LEMMA UpdateTaskPlanKeepsPlans ==
  ASSUME PlanningInv, NEW c \in Clients, NEW plan \in Candidates, Planning!UpdateTaskPlan(c, plan)
  PROVE  PlanningInv'
<1> DEFINE seen == [epoch |-> branch, version |-> Planning!Latest.version + 1]
<1>1. /\ UNCHANGED <<branch, holder, loop, checkpoints, selected>> /\ client' = [client EXCEPT ![c] = seen]
      /\ Planning!Update(client[c].version, plan, client[c])
  BY DEF Planning!UpdateTaskPlan
<1>2. PlanRows /\ PlanCopies /\ client[c] \in Seen
  BY DEF PlanningInv, PlanCopies
<1>3. PlanRows' /\ plans \subseteq plans' /\ Planning!Latest.version + 1 \in 0 .. MaxVersion
  BY <1>1, <1>2, UpdateAddsARow
<1>4. seen \in Seen
  BY <1>2, <1>3, SessionDataType DEF Seen, PlanRows, Planning!PlanTypeOK
<1> HIDE DEF seen
<1>5. client' \in [Clients -> Seen]
  BY <1>1, <1>2, <1>4 DEF PlanCopies
<1> QED
  BY <1>1, <1>2, <1>3, <1>5, CopiesStay DEF PlanningInv

\* What an attempt starts with is a version of the plan of the present branch.
LEMMA RecoveredPlan ==
  ASSUME PlanningInv
  PROVE  PlanOf(branch, Planning!Recovered)
<1> DEFINE own == {c \in checkpoints : IF selected # 0 THEN c.number = selected ELSE c.epoch = branch}
           numbers == {c.number : c \in own}
           N == Cardinality(checkpoints)
<1>1. PlanRows /\ PlanCopies /\ N \in Nat
  BY FS_CardinalityType DEF PlanningInv, PlanCopies
<1>2. \A c \in own : PlanOf(branch, c.plan) /\ c.number \in 0 .. N
  BY <1>1 DEF PlanCopies
<1>3. CASE own = {}
  BY <1>1, <1>3, LatestRow DEF Planning!Recovered, PlanOf
<1>4. CASE own # {}
  <2>1. numbers \in SUBSET (0 .. N) /\ numbers # {}
    BY <1>2, <1>4
  <2>2. PICK n \in numbers : \A k \in numbers : k <= n
    <3> HIDE DEF numbers, N
    <3> QED
      BY <1>1, <2>1, LargestExists
  <2>3. \E c \in own : \A d \in own : d.number <= c.number
    BY <2>2
  <2>4. Planning!Recovered = (CHOOSE c \in own : \A d \in own : d.number <= c.number).plan
    BY <1>4 DEF Planning!Recovered
  <2> HIDE DEF own
  <2> QED
    BY <1>2, <2>3, <2>4
<1> QED
  BY <1>3, <1>4

LEMMA LoadKeepsPlans ==
  ASSUME PlanningInv, NEW a \in Attempts, Planning!Load(a)
  PROVE  PlanningInv'
<1> DEFINE copy == [epoch |-> branch, plan |-> Planning!Recovered, tool |-> FALSE]
<1>1. /\ UNCHANGED <<branch, plans, client, checkpoints, selected>> /\ holder' = a
      /\ loop' = [loop EXCEPT ![a] = copy] /\ loop[a] = Planning!Unread
  BY SessionDataType DEF Planning!Load
<1>2. PlanRows /\ PlanCopies /\ branch \in 1 .. PlanEpochs /\ PlanOf(branch, Planning!Recovered)
  BY RecoveredPlan DEF PlanningInv, PlanRows, Planning!PlanTypeOK
<1>3. copy \in Copy /\ copy.epoch = branch /\ PlanOf(branch, copy.plan)
  BY <1>2, SessionDataType DEF PlanOf, PlanRows, Planning!PlanTypeOK, Planning!Row, Copy
<1> HIDE DEF copy
<1>4. loop' \in [Attempts -> Copy] /\ loop'[a] = copy /\ \A b \in Attempts : b # a => loop'[b] = loop[b]
  BY <1>1, <1>2, <1>3 DEF PlanCopies
<1>5. \A c \in checkpoints : c.by # a
  BY <1>1, <1>2 DEF PlanCopies, Planning!Unread
<1>6. PlanCopies'
  BY <1>1, <1>2, <1>3, <1>4, <1>5 DEF PlanCopies, PlanOf
<1> QED
  BY <1>1, <1>2, <1>6, RowsRest DEF PlanningInv

\* The copy of an attempt changes, not the branch it is of.
LEMMA CopyChanges ==
  ASSUME PlanCopies, plans \subseteq plans', UNCHANGED <<branch, client, holder, checkpoints, selected>>,
         NEW a \in Attempts, NEW copy \in Copy, loop' = [loop EXCEPT ![a] = copy], copy.epoch = loop[a].epoch,
         copy.plan = loop[a].plan \/ PlanOf(branch, copy.plan)'
  PROVE  PlanCopies'
<1>1. \A e, plan : PlanOf(e, plan) => \E r \in plans' : r.epoch = e /\ r.plan = plan
  BY DEF PlanOf
<1>2. loop' \in [Attempts -> Copy] /\ loop'[a] = copy /\ \A b \in Attempts : b # a => loop'[b] = loop[b]
  BY DEF PlanCopies
<1>3. \A c \in checkpoints : /\ \E r \in plans' : r.epoch = c.epoch /\ r.plan = c.plan
                             /\ c.number = selected => \E r \in plans' : r.epoch = branch /\ r.plan = c.plan
                             /\ c.epoch = loop'[c.by].epoch
  BY <1>1, <1>2 DEF PlanCopies
<1>4. holder # 0 => loop'[holder].epoch = branch /\ \E r \in plans' : r.epoch = branch /\ r.plan = loop'[holder].plan
  BY <1>1, <1>2 DEF PlanCopies, PlanOf
<1> QED
  BY <1>2, <1>3, <1>4 DEF PlanCopies, PlanOf

LEMMA StartToolKeepsPlans ==
  ASSUME PlanningInv, NEW a \in Attempts, Planning!StartTool(a)
  PROVE  PlanningInv'
<1> DEFINE copy == [loop[a] EXCEPT !.tool = TRUE]
<1>1. UNCHANGED <<branch, plans, client, holder, checkpoints, selected>> /\ loop' = [loop EXCEPT ![a] = copy]
  BY DEF Planning!StartTool
<1>2. copy \in Copy /\ copy.epoch = loop[a].epoch /\ copy.plan = loop[a].plan
  BY DEF PlanningInv, PlanCopies, Copy
<1> HIDE DEF copy
<1> QED
  BY <1>1, <1>2, CopyChanges, RowsRest DEF PlanningInv

LEMMA RunToolKeepsPlans ==
  ASSUME PlanningInv, NEW a \in Attempts, NEW version, NEW plan \in Candidates, Planning!RunTool(a, version, plan)
  PROVE  PlanningInv'
<1>1. UNCHANGED <<branch, client, holder, checkpoints, selected>>
  BY DEF Planning!RunTool
<1>2. PlanRows /\ PlanCopies /\ loop[a] \in Copy
  BY DEF PlanningInv, PlanCopies
<1>3. CASE Planning!Update(version, plan, Planning!Nowhere) /\ loop' = [loop EXCEPT ![a].tool = FALSE, ![a].plan = plan]
  <2> DEFINE copy == [loop[a] EXCEPT !.tool = FALSE, !.plan = plan]
  <2>1. loop' = [loop EXCEPT ![a] = copy]
    BY <1>2, <1>3 DEF PlanCopies, Copy
  <2>2. plan \in Planning!Plan
    BY SessionDataType DEF Planning!Plan
  <2>3. copy \in Copy /\ copy.epoch = loop[a].epoch /\ copy.plan = plan
    BY <1>2, <2>2 DEF Copy
  <2>4. Planning!Nowhere \in Seen
    BY SessionDataType DEF Planning!Nowhere, Seen
  <2>5. PlanRows' /\ plans \subseteq plans' /\ PlanOf(branch, plan)'
    BY <1>1, <1>2, <1>3, <2>4, UpdateAddsARow
  <2> HIDE DEF copy
  <2> QED
    BY <1>1, <1>2, <2>1, <2>3, <2>5, CopyChanges DEF PlanningInv, PlanOf
<1>4. CASE plans' = plans /\ loop' = [loop EXCEPT ![a].tool = FALSE]
  <2> DEFINE copy == [loop[a] EXCEPT !.tool = FALSE]
  <2>1. loop' = [loop EXCEPT ![a] = copy]
    BY <1>4
  <2>2. copy \in Copy /\ copy.epoch = loop[a].epoch /\ copy.plan = loop[a].plan
    BY <1>2 DEF Copy
  <2> HIDE DEF copy
  <2> QED
    BY <1>1, <1>2, <1>4, <2>1, <2>2, CopyChanges, RowsRest DEF PlanningInv
<1> QED
  BY <1>3, <1>4 DEF Planning!RunTool

LEMMA CreateCheckpointKeepsPlans ==
  ASSUME PlanningInv, NEW a \in Attempts, Planning!CreateCheckpoint(a)
  PROVE  PlanningInv'
<1> DEFINE N == Cardinality(checkpoints)
           new == [number |-> N + 1, epoch |-> loop[a].epoch, plan |-> loop[a].plan, by |-> a]
<1>1. /\ UNCHANGED <<branch, plans, client, holder, loop, selected>> /\ holder = a
      /\ checkpoints' = checkpoints \union {new}
  BY PlanningCardinality DEF Planning!CreateCheckpoint, Planning!Fenced
<1>2. PlanRows /\ PlanCopies /\ N \in Nat /\ IsFiniteSet(checkpoints) /\ branch \in 1 .. PlanEpochs
  BY FS_CardinalityType DEF PlanningInv, PlanCopies, PlanRows, Planning!PlanTypeOK
<1>3. /\ new.number = N + 1 /\ new.epoch = branch /\ new.by = a /\ PlanOf(branch, new.plan)
      /\ new.epoch = loop[a].epoch
  BY <1>1, <1>2, SessionDataType DEF PlanCopies
<1>4. new \notin checkpoints
  BY <1>2, <1>3 DEF PlanCopies
<1> HIDE DEF new
<1>5. IsFiniteSet(checkpoints') /\ Cardinality(checkpoints') = N + 1
  BY <1>1, <1>2, <1>4, FS_AddElement
<1> HIDE DEF N
<1>6. \A c \in checkpoints' : c \in checkpoints \/ c = new
  BY <1>1
<1>7. \A c \in checkpoints : c.number \in 1 .. N
  BY <1>2 DEF PlanCopies, N
<1>8. selected \in 0 .. N
  BY <1>2 DEF PlanCopies, N
<1>9. \A c \in checkpoints' : /\ c.number \in 1 .. Cardinality(checkpoints)' /\ c.by \in Attempts
                              /\ c.epoch = loop[c.by].epoch /\ c.epoch \in 1 .. branch /\ PlanOf(c.epoch, c.plan)
                              /\ c.number = selected => PlanOf(branch, c.plan)
  BY <1>2, <1>3, <1>5, <1>6, <1>7, <1>8 DEF PlanCopies
<1>10. \A c, d \in checkpoints' : c.number = d.number => c = d
  BY <1>2, <1>3, <1>6, <1>7 DEF PlanCopies
<1>11. selected' \in 0 .. Cardinality(checkpoints)'
  BY <1>1, <1>2, <1>5, <1>8
<1>12. PlanCopies'
  BY <1>1, <1>2, <1>5, <1>9, <1>10, <1>11 DEF PlanCopies, PlanOf
<1> QED
  BY <1>1, <1>2, <1>12, RowsRest DEF PlanningInv

LEMMA EndAttemptKeepsPlans ==
  ASSUME PlanningInv, Planning!EndAttempt
  PROVE  PlanningInv'
<1> DEFINE N == Cardinality(checkpoints)
           own == {c \in checkpoints : IF selected # 0 THEN c.by = holder \/ c.number = selected ELSE c.epoch = branch}
           known == {c.number : c \in own}
<1>1. /\ UNCHANGED <<branch, plans, client, loop, checkpoints>> /\ holder # 0 /\ holder' = 0
      /\ selected' = IF known = {} THEN 0 ELSE CHOOSE n \in known : \A m \in known : m <= n
  BY DEF Planning!EndAttempt
<1>2. PlanRows /\ PlanCopies /\ N \in Nat
  BY FS_CardinalityType DEF PlanningInv, PlanCopies
<1>3. \A c \in own : c \in checkpoints /\ c.number \in 1 .. N /\ PlanOf(branch, c.plan)
  BY <1>1, <1>2 DEF PlanCopies
<1>4. CASE known = {}
  <2>1. selected' = 0
    BY <1>1, <1>4
  <2> QED
    <3>1. \A c \in checkpoints : c.number # 0
      BY <1>2 DEF PlanCopies
    <3>2. PlanCopies'
      <4> HIDE DEF known
      <4>1. UNCHANGED <<branch, plans, client, loop, checkpoints>> /\ holder' = 0
        BY <1>1
      <4>2. selected' \in 0 .. Cardinality(checkpoints)
        BY <1>2, <2>1
      <4> QED
        BY <1>2, <2>1, <3>1, <4>1, <4>2 DEF PlanCopies, PlanOf
    <3> QED
      BY <1>1, <1>2, <3>2, RowsRest DEF PlanningInv
<1>5. CASE known # {}
  <2>1. known \in SUBSET (0 .. N)
    BY <1>3
  <2>2. \E n \in known : \A m \in known : m <= n
    <3> HIDE DEF known, N
    <3> QED
      BY <1>2, <1>5, <2>1, LargestExists
  <2>3. selected' \in known
    <3> HIDE DEF known
    <3> QED
      BY <1>1, <1>5, <2>2
  <2>4. PICK c \in own : selected' = c.number
    BY <2>3
  <2>5. \A d \in checkpoints : d.number = selected' => d = c
    BY <1>2, <1>3, <2>4 DEF PlanCopies
  <2> HIDE DEF own
  <2>6. selected' \in 0 .. N /\ PlanOf(branch, c.plan)
    BY <1>2, <1>3, <2>4
  <2>7. PlanCopies'
    BY <1>1, <1>2, <2>5, <2>6 DEF PlanCopies, PlanOf
  <2> QED
    BY <1>1, <1>2, <2>7, RowsRest DEF PlanningInv
<1> QED
  BY <1>4, <1>5

LEMMA RewindKeepsPlans ==
  ASSUME PlanningInv, NEW c \in checkpoints, Planning!Rewind(c)
  PROVE  PlanningInv'
<1> DEFINE new == [epoch |-> branch + 1, version |-> 1, plan |-> c.plan, seen |-> Planning!Nowhere]
<1>1. /\ UNCHANGED <<client, holder, loop, checkpoints>> /\ holder = 0 /\ branch < PlanEpochs /\ branch' = branch + 1
      /\ selected' = c.number /\ plans' = plans \union {new}
  BY DEF Planning!Rewind
<1>2. PlanRows /\ PlanCopies /\ branch \in 1 .. PlanEpochs /\ plans \subseteq Planning!Row
  BY DEF PlanningInv, PlanRows, Planning!PlanTypeOK
<1>3. c.plan \in Planning!Plan /\ Planning!Valid(c.plan)
  BY <1>2 DEF PlanCopies, PlanOf, PlanRows, Planning!Row
<1>4. Planning!Nowhere \in [epoch: 0 .. PlanEpochs, version: 0 .. MaxVersion]
  BY SessionDataType DEF Planning!Nowhere
<1>5. /\ new \in Planning!Row /\ new.epoch = branch' /\ new.version = 1 /\ new.plan = c.plan
      /\ new.seen = Planning!Nowhere
  BY <1>1, <1>2, <1>3, <1>4, SessionDataType DEF Planning!Row
<1> HIDE DEF new
<1>6. \A q \in plans : q.epoch # new.epoch
  BY <1>1, <1>2, <1>5, SessionDataType DEF PlanRows, Planning!Row
<1>7. branch' \in 1 .. PlanEpochs /\ branch <= branch' /\ \A v \in 1 .. new.version : v = new.version
  BY <1>1, <1>2, <1>5, SessionDataType
<1>8. PlanRows'
  BY <1>1, <1>2, <1>3, <1>5, <1>6, <1>7, RowAdded
<1>9. \A e, plan : PlanOf(e, plan) => \E r \in plans' : r.epoch = e /\ r.plan = plan
  BY <1>1 DEF PlanOf
<1>10. \A d \in checkpoints : d.number = selected' => d = c
  BY <1>1, <1>2 DEF PlanCopies
<1>11. \E r \in plans' : r.epoch = branch' /\ r.plan = c.plan
  BY <1>1, <1>5
<1>12. \A d \in checkpoints : /\ d.epoch \in 1 .. branch' /\ \E r \in plans' : r.epoch = d.epoch /\ r.plan = d.plan
                              /\ d.number = selected' => \E r \in plans' : r.epoch = branch' /\ r.plan = d.plan
  BY <1>1, <1>2, <1>9, <1>10, <1>11, SessionDataType DEF PlanCopies
<1>13. selected' \in 0 .. Cardinality(checkpoints)
  BY <1>1, <1>2, FS_CardinalityType DEF PlanCopies
<1>14. PlanCopies'
  BY <1>1, <1>2, <1>12, <1>13 DEF PlanCopies, PlanOf
<1> QED
  BY <1>8, <1>14 DEF PlanningInv

LEMMA PlanningInitInv ==
  ASSUME Planning!Init
  PROVE  PlanningInv
<1> DEFINE first == [epoch |-> 1, version |-> 1, plan |-> Planning!Nothing, seen |-> Planning!Nowhere]
<1>1. /\ branch = 1 /\ holder = 0 /\ checkpoints = {} /\ selected = 0 /\ plans = {first}
      /\ client = [c \in Clients |-> Planning!Nowhere] /\ loop = [a \in Attempts |-> Planning!Unread]
  BY DEF Planning!Init
<1>2. Planning!Nothing \in Planning!Plan /\ Planning!Valid(Planning!Nothing)
  <2>1. /\ Planning!Nothing.dependencies = [t \in Tasks |-> {}] /\ Planning!Nothing.completed = {}
        /\ Planning!Nothing \in Planning!Plan
    BY DEF Planning!Nothing, Planning!Plan
  <2> QED
    BY <2>1 DEF Planning!Valid, Planning!Acyclic
<1>3. Planning!Nowhere \in Seen /\ Planning!Unread \in Copy
  BY <1>2, SessionDataType DEF Planning!Nowhere, Seen, Planning!Unread, Copy
<1>4. first \in Planning!Row
  BY <1>2, <1>3, SessionDataType DEF Planning!Row, Seen
<1>5. first.epoch = 1 /\ first.version = 1 /\ first.plan = Planning!Nothing /\ first.seen = Planning!Nowhere
  OBVIOUS
<1> HIDE DEF first
<1>6. Planning!PlanTypeOK
  <2>1. \A v \in 1 .. first.version : v = 1
    BY <1>5
  <2> QED
    BY <1>1, <1>4, <1>5, <2>1, SessionDataType DEF Planning!PlanTypeOK
<1>7. PlanRows
  BY <1>1, <1>2, <1>5, <1>6 DEF PlanRows
<1>8. PlanCopies
  BY <1>1, <1>3, FS_EmptySet DEF PlanCopies
<1> QED
  BY <1>7, <1>8 DEF PlanningInv

LEMMA PlanningStep ==
  ASSUME PlanningInv, [SessionNext]_sessionVars
  PROVE  PlanningInv'
<1>1. CASE UNCHANGED planVars
  <2>1. PlanRows' /\ PlanCopies'
    BY <1>1, RowsRest DEF planVars, PlanningInv, PlanCopies, PlanOf
  <2> QED
    BY <2>1 DEF PlanningInv
<1>2. CASE Planning!Next
  BY <1>2, GetKeepsPlans, UpdateTaskPlanKeepsPlans, LoadKeepsPlans, StartToolKeepsPlans, RunToolKeepsPlans,
     CreateCheckpointKeepsPlans, EndAttemptKeepsPlans, RewindKeepsPlans DEF Planning!Next
<1> QED
  BY <1>1, <1>2 DEF SessionNext, InMemory, InPlanning, InLocal, sessionVars

\* What the inductive invariant says of the rows and the checkpoints.
LEMMA PlansFollow ==
  ASSUME PlanningInv
  PROVE  PlansAreKept
<1>1. PlanRows /\ PlanCopies /\ plans \subseteq Planning!Row
  BY DEF PlanningInv, PlanRows, Planning!PlanTypeOK
<1>2. Planning!NoLostPlanUpdate
  <2>1. \A r \in plans : r.seen.epoch = r.epoch => r.seen # Planning!Nowhere
    BY <1>1 DEF Planning!Nowhere, Planning!Row
  <2> QED
    BY <1>1, <2>1 DEF PlanRows, Planning!NoLostPlanUpdate
<1>3. Planning!PlansCanBeWorkedOff
  <2> SUFFICES ASSUME NEW r \in plans
               PROVE  \E rank \in [Tasks -> 1 .. Cardinality(Tasks)] :
                        /\ \A t \in Tasks : \A d \in r.plan.dependencies[t] : rank[d] < rank[t]
                        /\ \A t \in r.plan.completed, u \in Tasks \ r.plan.completed : rank[t] <= rank[u]
    BY PlanningCardinality DEF Planning!PlansCanBeWorkedOff
  <2>1. r.plan \in Planning!Plan /\ Planning!Valid(r.plan) /\ r.plan.completed \subseteq Tasks
    BY <1>1 DEF PlanRows, Planning!Row, Planning!Plan
  <2>2. PICK rank : Ordered(r.plan, Tasks, rank)
    BY <2>1, ValidPlansHaveAnOrder
  <2> QED
    BY <2>1, <2>2 DEF Ordered
<1>4. Planning!CheckpointPlanIsOfItsBranch
  BY <1>1 DEF PlanCopies, PlanOf, Planning!CheckpointPlanIsOfItsBranch
<1> QED
  BY <1>1, <1>2, <1>3, <1>4 DEF PlansAreKept, Planning!PlansAreKept, PlanRows

\* In every state: a version of a task plan is one row that follows the one its author had read, its tasks have
\* an order in which they can be worked off, and a checkpoint holds a plan of its own branch
\* (PostgresTaskRepository.update, TaskPlanUpdate.validate_graph, PostgresRecoveryStore.load).
THEOREM PlanUpdatesAreKept == SessionSpec => []PlansAreKept
<1>1. SessionInit => PlanningInv
  BY PlanningInitInv DEF SessionInit
<1>2. PlanningInv /\ [SessionNext]_sessionVars => PlanningInv'
  BY PlanningStep
<1>3. PlanningInv => PlansAreKept
  BY PlansFollow
<1> QED
  BY <1>1, <1>2, <1>3, PTL DEF SessionSpec

----------------------------------------------------------------------------
(* Local sessions *)

AllCalls == UNION {Local!Elements(calls) : calls \in Turns}
LocalMessage == {"system", "user", "assistant", "tool", "error"} \X SUBSET AllCalls
LocalRecord ==
  [call: AllCalls, base: SUBSET AllCalls, state: {"open", "completed", "rolled_back"}, revision: SUBSET AllCalls]

\* Where the loop is in a tool call, and elsewhere in a run.
InTool == {"tool", "complete", "restore"}
InRun == {"model", "calls", "journal", "completed", "failed"}
LocalTurn ==
  [at: InTool \union InRun \union {"idle", "stopped", "done", "raised"}, calls: Seq(AllCalls),
   results: Seq(LocalMessage), why: {"", "interrupt", "tool", "completion", "finalize"}]

LocalType ==
  /\ turn \in LocalTurn /\ tree \subseteq AllCalls /\ records \in Seq(LocalRecord)
  /\ journal \in Seq(LocalMessage) /\ messages \in Seq(LocalMessage)
  /\ cancelled \in BOOLEAN /\ damaged \in BOOLEAN /\ patch \subseteq SUBSET AllCalls
  /\ late \subseteq AllCalls /\ strays \subseteq AllCalls

\* The calls a transcript reports as successful.
Reported(transcript) == UNION {m[2] : m \in {k \in Local!Elements(transcript) : k[1] = "tool"}}

\* The journal of a run fits, and so does what the session takes from it.
TranscriptsFit ==
  /\ Local!Fits(messages)
  /\ turn.at \in InTool \union InRun => Local!Fits(journal)
  /\ turn.at \in {"model", "completed", "failed"} => turn.results = <<>>

\* Only the last checkpoint may be open, and it is not where the next is made; a restore that failed is
\* where the run ends.
CheckpointsSound ==
  /\ Len(records) <= LocalCheckpoints
  /\ \A i \in DOMAIN records : records[i].state = "open" => i = Len(records)
  /\ turn.at \in {"model", "calls"} /\ records # <<>> => records[Len(records)].state # "open"
  /\ turn.at \in InTool => turn.calls # <<>> /\ records # <<>>
  /\ damaged => turn.at \in {"journal", "failed", "stopped", "done", "raised"}
  /\ Local!CheckpointsChain /\ Local!WorktreeIsAccountedFor

\* Unless a restore failed, and up to late edits: the worktree holds what the session's transcript, or the run's and the results not
\* yet in it, report; during a tool call the base of the call's checkpoint does.
TreeSound ==
  /\ patch # {} => turn.at = "done"
  /\ ~damaged =>
       /\ \A p \in patch : Local!Agree(p, Reported(messages))
       /\ turn.at \in {"idle", "stopped"} => Local!Agree(tree, Reported(messages))
       /\ turn.at \in InRun => Local!Agree(tree, Reported(journal) \union Reported(turn.results))
       /\ turn.at \in InTool => Local!Agree(Local!Base, Reported(journal) \union Reported(turn.results))
       /\ turn.at = "tool" => Local!Agree(tree, Local!Base)
       /\ turn.at = "complete" => Local!Agree(tree, Local!Base \union {Local!Call})

LocalInv == LocalType /\ TranscriptsFit /\ CheckpointsSound /\ TreeSound

----------------------------------------------------------------------------
(* What transcripts report *)

LEMMA ElementsOfConcat ==
  ASSUME NEW S, NEW s \in Seq(S), NEW t \in Seq(S)
  PROVE  Local!Elements(s \o t) = Local!Elements(s) \union Local!Elements(t)
<1>1. /\ \A i \in DOMAIN (s \o t) : (s \o t)[i] \in Local!Elements(s) \union Local!Elements(t)
  <2> SUFFICES ASSUME NEW i \in DOMAIN (s \o t)
               PROVE  (s \o t)[i] \in Local!Elements(s) \union Local!Elements(t)
    OBVIOUS
  <2>1. i \in 1 .. Len(s) + Len(t)
    OBVIOUS
  <2>2. CASE i <= Len(s)
    BY <2>1, <2>2 DEF Local!Elements
  <2>3. CASE i > Len(s)
    <3>1. (s \o t)[i] = t[i - Len(s)] /\ i - Len(s) \in DOMAIN t
      BY <2>1, <2>3
    <3> QED
      BY <3>1 DEF Local!Elements
  <2> QED
    BY <2>1, <2>2, <2>3
<1>2. \A i \in DOMAIN s : i \in DOMAIN (s \o t) /\ (s \o t)[i] = s[i]
  OBVIOUS
<1>3. \A i \in DOMAIN t : Len(s) + i \in DOMAIN (s \o t) /\ (s \o t)[Len(s) + i] = t[i]
  OBVIOUS
<1>4. Local!Elements(s \o t) \subseteq Local!Elements(s) \union Local!Elements(t)
  <2> DEFINE u == s \o t
  <2>1. \A i \in DOMAIN u : u[i] \in Local!Elements(s) \union Local!Elements(t)
    BY <1>1
  <2> HIDE DEF u
  <2>2. Local!Elements(u) \subseteq Local!Elements(s) \union Local!Elements(t)
    BY <2>1 DEF Local!Elements
  <2> QED
    BY <2>2 DEF u
<1>5. Local!Elements(s) \subseteq Local!Elements(s \o t) /\ Local!Elements(t) \subseteq Local!Elements(s \o t)
  <2> DEFINE u == s \o t
  <2>1. (\A i \in DOMAIN s : \E j \in DOMAIN u : u[j] = s[i]) /\ (\A i \in DOMAIN t : \E j \in DOMAIN u : u[j] = t[i])
    BY <1>2, <1>3
  <2> HIDE DEF u
  <2>2. Local!Elements(s) \subseteq Local!Elements(u) /\ Local!Elements(t) \subseteq Local!Elements(u)
    BY <2>1 DEF Local!Elements
  <2> QED
    BY <2>2 DEF u
<1> QED
  BY <1>4, <1>5

LEMMA ReportedConcat ==
  ASSUME NEW s \in Seq(LocalMessage), NEW t \in Seq(LocalMessage)
  PROVE  Reported(s \o t) = Reported(s) \union Reported(t)
BY ElementsOfConcat DEF Reported

LEMMA ReportedNone ==
  Reported(<<>>) = {}
BY DEF Reported, Local!Elements

LEMMA ReportedOne ==
  ASSUME NEW role, NEW calls
  PROVE  Reported(<<Local!Message(role, calls)>>) = IF role = "tool" THEN calls ELSE {}
<1>1. Local!Elements(<<Local!Message(role, calls)>>) = {Local!Message(role, calls)}
  BY DEF Local!Elements
<1>2. Local!Message(role, calls)[1] = role /\ Local!Message(role, calls)[2] = calls
  BY DEF Local!Message
<1> QED
  BY <1>1, <1>2 DEF Reported

\* A message is added.
LEMMA ReportedAppend ==
  ASSUME NEW s \in Seq(LocalMessage), NEW role, NEW calls, Local!Message(role, calls) \in LocalMessage
  PROVE  /\ Append(s, Local!Message(role, calls)) \in Seq(LocalMessage)
         /\ Reported(Append(s, Local!Message(role, calls))) = Reported(s) \union IF role = "tool" THEN calls ELSE {}
<1> DEFINE m == Local!Message(role, calls)
<1>1. <<m>> \in Seq(LocalMessage) /\ Append(s, m) \in Seq(LocalMessage) /\ Append(s, m) = s \o <<m>>
  <2> HIDE DEF m
  <2>1. m \in LocalMessage
    BY DEF m
  <2> QED
    BY <2>1
<1> HIDE DEF m
<1>2. Reported(s \o <<m>>) = Reported(s) \union Reported(<<m>>)
  BY <1>1, ReportedConcat
<1>3. Reported(<<m>>) = IF role = "tool" THEN calls ELSE {}
  BY ReportedOne DEF m
<1> QED
  BY <1>1, <1>2, <1>3 DEF m

\* What the code says of its messages is well formed.
LEMMA MessagesAreWellFormed ==
  /\ \A role \in {"system", "user", "assistant", "tool", "error"} : \A calls \in SUBSET AllCalls :
       Local!Message(role, calls) \in LocalMessage
  /\ \A calls \in Turns : calls \in Seq(AllCalls) /\ Local!Elements(calls) \subseteq AllCalls
<1>1. ASSUME NEW calls \in Turns PROVE calls \in Seq(AllCalls) /\ Local!Elements(calls) \subseteq AllCalls
  <2>1. Local!Elements(calls) \subseteq AllCalls
    BY DEF AllCalls
  <2>2. calls \in Seq(Local!Elements(calls))
    BY SessionDataType DEF Local!Elements
  <2> QED
    BY <2>1, <2>2
<1> QED
  BY <1>1 DEF LocalMessage, Local!Message

\* A turn that rests.
LEMMA RestingTurn ==
  ASSUME NEW at \in InTool \union InRun \union {"idle", "stopped", "done", "raised"}
  PROVE  /\ Local!Resting(at) \in LocalTurn /\ Local!Resting(at).at = at /\ Local!Resting(at).calls = <<>>
         /\ Local!Resting(at).results = <<>>
BY DEF Local!Resting, LocalTurn

\* The ways a turn changes when it goes on.
LEMMA RunFailsTurn ==
  ASSUME turn \in LocalTurn, Local!RunFails
  PROVE  turn' \in LocalTurn /\ turn'.at = "journal" /\ turn'.results = turn.results
<1>1. turn' = [turn EXCEPT !.at = "journal", !.calls = <<>>, !.why = ""]
  BY DEF Local!RunFails
<1>2. turn'.at = "journal" /\ turn'.results = turn.results
  BY <1>1 DEF LocalTurn
<1>3. "journal" \in InTool \union InRun \union {"idle", "stopped", "done", "raised"}
  BY DEF InRun
<1>4. \A e \in LocalTurn : \A a \in InTool \union InRun \union {"idle", "stopped", "done", "raised"} :
        \A c \in Seq(AllCalls) : [e EXCEPT !.at = a, !.calls = c, !.why = ""] \in LocalTurn
  BY DEF LocalTurn
<1>5. <<>> \in Seq(AllCalls)
  OBVIOUS
<1> QED
  BY <1>1, <1>2, <1>3, <1>4, <1>5

LEMMA GoesTurn ==
  ASSUME turn \in LocalTurn, NEW at \in InTool, NEW why \in {"", "interrupt", "tool", "completion", "finalize"},
         Local!Goes(at, why)
  PROVE  turn' \in LocalTurn /\ turn'.at = at /\ turn'.calls = turn.calls /\ turn'.results = turn.results
<1>1. turn' = [turn EXCEPT !.at = at, !.why = why]
  BY DEF Local!Goes
<1> QED
  BY <1>1 DEF LocalTurn

LEMMA ConcludedTurn ==
  ASSUME turn \in LocalTurn, NEW role \in {"tool", "error"}, Local!Concluded(role), turn.calls # <<>>
  PROVE  /\ turn' \in LocalTurn /\ turn'.at = "calls" /\ Local!Call \in AllCalls
         /\ Reported(turn'.results) = Reported(turn.results) \union IF role = "tool" THEN {Local!Call} ELSE {}
<1> DEFINE m == Local!Message(role, {Local!Call})
           results == Append(turn.results, m)
<1>1. turn.results \in Seq(LocalMessage) /\ turn.calls \in Seq(AllCalls)
  BY DEF LocalTurn
<1>2. Local!Call \in AllCalls /\ Tail(turn.calls) \in Seq(AllCalls)
  BY <1>1 DEF Local!Call
<1>3. m \in LocalMessage
  BY <1>2, MessagesAreWellFormed
<1>4. /\ results \in Seq(LocalMessage)
      /\ Reported(results) = Reported(turn.results) \union IF role = "tool" THEN {Local!Call} ELSE {}
  BY <1>1, <1>3, ReportedAppend
<1>5. turn' = [turn EXCEPT !.at = "calls", !.calls = Tail(turn.calls), !.results = results, !.why = ""]
  BY DEF Local!Concluded
<1> HIDE DEF results
<1>6. "calls" \in InTool \union InRun \union {"idle", "stopped", "done", "raised"}
  BY DEF InRun
<1>7. \A e \in LocalTurn : \A a \in InTool \union InRun \union {"idle", "stopped", "done", "raised"} :
        \A c \in Seq(AllCalls) : \A r \in Seq(LocalMessage) :
          [e EXCEPT !.at = a, !.calls = c, !.results = r, !.why = ""] \in LocalTurn
  <2>1. \A e \in LocalTurn : \A a \in InTool \union InRun \union {"idle", "stopped", "done", "raised"} :
          \A c \in Seq(AllCalls) : [e EXCEPT !.at = a, !.calls = c] \in LocalTurn
    BY DEF LocalTurn
  <2>2. \A e \in LocalTurn : \A r \in Seq(LocalMessage) : [e EXCEPT !.results = r, !.why = ""] \in LocalTurn
    BY DEF LocalTurn
  <2> QED
    BY <2>1, <2>2
<1>8. turn'.at = "calls" /\ turn'.results = results
  BY <1>5 DEF LocalTurn
<1> QED
  BY <1>2, <1>4, <1>5, <1>6, <1>7, <1>8

----------------------------------------------------------------------------
(* The loop outside a tool call *)

\* The checkpoints do not mind where the loop goes, if it is not into a tool.
LEMMA RecordsRest ==
  ASSUME CheckpointsSound, UNCHANGED <<tree, records, damaged, late, strays>>, turn.at \notin InTool, turn'.at \notin InTool,
         turn'.at \in {"model", "calls"} => turn.at \in {"model", "calls"},
         damaged => turn'.at \in {"journal", "failed", "stopped", "done", "raised"}
  PROVE  CheckpointsSound'
<1>1. Local!CheckpointsChain'
  BY DEF CheckpointsSound, Local!CheckpointsChain, Local!Outcome, Local!Agree
<1>2. Local!WorktreeIsAccountedFor'
  BY DEF CheckpointsSound, Local!WorktreeIsAccountedFor, Local!Outcome, InTool, Local!Agree
<1> QED
  BY <1>1, <1>2 DEF CheckpointsSound, InTool

\* A step of a run outside a tool that leaves the worktree and what the transcripts report of it.
LEMMA LoopMoves ==
  ASSUME LocalInv, UNCHANGED <<tree, records, messages, damaged, patch, late, strays>>, cancelled' \in BOOLEAN, turn' \in LocalTurn,
         journal' \in Seq(LocalMessage), turn.at \in InRun, turn'.at \in InRun \union {"raised"},
         turn'.at \in {"model", "calls"} => turn.at \in {"model", "calls"},
         damaged => turn'.at \in {"journal", "failed", "raised"},
         turn'.at \in {"model", "completed", "failed"} => turn'.results = <<>>,
         turn'.at \in InRun =>
           /\ Local!Fits(journal)'
           /\ Reported(journal)' \union Reported(turn.results)' = Reported(journal) \union Reported(turn.results)
  PROVE  LocalInv'
<1>1. LocalType /\ TranscriptsFit /\ CheckpointsSound /\ TreeSound
  BY DEF LocalInv
<1>2. LocalType'
  BY <1>1 DEF LocalType
<1>3. TranscriptsFit'
  BY <1>1 DEF TranscriptsFit, InTool, InRun, Local!Fits
<1>4. CheckpointsSound'
  BY <1>1, RecordsRest DEF InTool, InRun
<1>5. TreeSound'
  BY <1>1 DEF TreeSound, InTool, InRun, Reported, Local!Elements, Local!Agree
<1> QED
  BY <1>2, <1>3, <1>4, <1>5 DEF LocalInv

\* A step that journals what the turn has to report, or raises because it does not fit.
LEMMA AppendMoves ==
  ASSUME LocalInv, UNCHANGED <<tree, records, messages, cancelled, damaged, patch, late, strays>>, turn.at \in InRun,
         NEW new \in Seq(LocalMessage), NEW next \in LocalTurn, Local!AppendThen(new, next),
         next.at \in InRun, next.results = <<>>, Reported(new) = Reported(turn.results),
         next.at \in {"model", "calls"} => turn.at \in {"model", "calls"},
         damaged => next.at \in {"journal", "failed"}
  PROVE  LocalInv'
<1>1. LocalType
  BY DEF LocalInv
<1>2. CASE Local!Fits(journal \o new) /\ journal' = journal \o new /\ turn' = next
  <2>1. journal \o new \in Seq(LocalMessage)
    BY <1>1 DEF LocalType
  <2>2. Reported(journal') = Reported(journal) \union Reported(turn.results)
    BY <1>1, <1>2, ReportedConcat DEF LocalType
  <2>3. Reported(turn'.results) = {}
    BY <1>2, ReportedNone
  <2>4. /\ Local!Fits(journal)'
        /\ Reported(journal)' \union Reported(turn.results)' = Reported(journal) \union Reported(turn.results)
    <3>1. Reported(journal)' = Reported(journal') /\ Reported(turn.results)' = Reported(turn'.results)
      BY DEF Reported, Local!Elements
    <3> QED
      BY <1>2, <2>2, <2>3, <3>1 DEF Local!Fits
  <2> QED
    BY <1>1, <1>2, <2>1, <2>4, LoopMoves DEF LocalType
<1>3. CASE journal' = journal /\ turn' = Local!Resting("raised")
  <2>1. turn' \in LocalTurn /\ turn'.at = "raised"
    BY <1>3, RestingTurn
  <2> QED
    BY <1>1, <1>3, <2>1, LoopMoves DEF LocalType, InRun
<1> QED
  BY <1>2, <1>3 DEF Local!AppendThen

LEMMA ModelTurnAddsUp ==
  ASSUME LocalInv, NEW calls \in Turns, Local!ModelTurn(calls)
  PROVE  LocalInv'
<1> DEFINE new == <<Local!Message("assistant", Local!Elements(calls))>>
           next == [Local!Resting("calls") EXCEPT !.calls = calls]
<1>1. /\ turn.at = "model" /\ Local!AppendThen(new, next)
      /\ UNCHANGED <<tasks, tree, records, messages, cancelled, damaged, patch, late, strays>>
  BY DEF Local!ModelTurn
<1>2. Local!Message("assistant", Local!Elements(calls)) \in LocalMessage /\ calls \in Seq(AllCalls)
  BY MessagesAreWellFormed
<1>3. new \in Seq(LocalMessage) /\ Reported(new) = {}
  <2>1. Reported(new) = {}
    BY ReportedOne
  <2> DEFINE m == Local!Message("assistant", Local!Elements(calls))
  <2> HIDE DEF m
  <2>2. <<m>> \in Seq(LocalMessage)
    BY <1>2 DEF m
  <2> QED
    BY <2>1, <2>2 DEF m
<1>4. next \in LocalTurn /\ next.at = "calls" /\ next.results = <<>>
  <2>1. "calls" \in InTool \union InRun \union {"idle", "stopped", "done", "raised"}
    BY DEF InRun
  <2>2. Local!Resting("calls") \in LocalTurn /\ Local!Resting("calls").at = "calls" /\ Local!Resting("calls").results = <<>>
    BY <2>1, RestingTurn
  <2> QED
    BY <1>2, <2>2 DEF LocalTurn
<1> HIDE DEF new, next
<1>5. Reported(turn.results) = {} /\ ~damaged
  BY <1>1, ReportedNone DEF LocalInv, TranscriptsFit, CheckpointsSound
<1> QED
  BY <1>1, <1>3, <1>4, <1>5, AppendMoves DEF InRun

LEMMA FinalTextAddsUp ==
  ASSUME LocalInv, Local!FinalText
  PROVE  LocalInv'
<1> DEFINE new == <<Local!Message("assistant", {})>>
           next == Local!Resting("completed")
<1>1. /\ turn.at = "model" /\ Local!AppendThen(new, next)
      /\ UNCHANGED <<tasks, tree, records, messages, cancelled, damaged, patch, late, strays>>
  BY DEF Local!FinalText
<1>2. Local!Message("assistant", {}) \in LocalMessage
  BY MessagesAreWellFormed
<1>3. new \in Seq(LocalMessage) /\ Reported(new) = {}
  <2>1. Reported(new) = {}
    BY ReportedOne
  <2> DEFINE m == Local!Message("assistant", {})
  <2> HIDE DEF m
  <2>2. <<m>> \in Seq(LocalMessage)
    BY <1>2 DEF m
  <2> QED
    BY <2>1, <2>2 DEF m
<1>4. next \in LocalTurn /\ next.at = "completed" /\ next.results = <<>>
  BY RestingTurn DEF InRun
<1> HIDE DEF new, next
<1>5. Reported(turn.results) = {} /\ ~damaged
  BY <1>1, ReportedNone DEF LocalInv, TranscriptsFit, CheckpointsSound
<1> QED
  BY <1>1, <1>3, <1>4, <1>5, AppendMoves DEF InRun

LEMMA JournalNewAddsUp ==
  ASSUME LocalInv, Local!JournalNew
  PROVE  LocalInv'
<1> DEFINE next == Local!Resting(IF turn.at = "journal" THEN "failed" ELSE "model")
<1>1. /\ turn.at \in {"journal", "calls"} /\ Local!AppendThen(turn.results, next)
      /\ UNCHANGED <<tasks, tree, records, messages, cancelled, damaged, patch, late, strays>>
  BY DEF Local!JournalNew
<1>2. turn.results \in Seq(LocalMessage) /\ (damaged => turn.at # "calls")
  BY DEF LocalInv, LocalType, LocalTurn, CheckpointsSound
<1>3. next \in LocalTurn /\ next.at = (IF turn.at = "journal" THEN "failed" ELSE "model") /\ next.results = <<>>
  BY RestingTurn DEF InRun
<1> HIDE DEF next
<1> QED
  BY <1>1, <1>2, <1>3, AppendMoves DEF InRun

\* The model fails or is interrupted, or no checkpoint can be made.
LEMMA RunStopsAddsUp ==
  ASSUME LocalInv, Local!ModelFails \/ Local!InterruptModel \/ Local!CreateFails
  PROVE  LocalInv'
<1>1. LocalType /\ TranscriptsFit /\ UNCHANGED <<tree, records, journal, messages, damaged, patch, late, strays>>
  BY DEF LocalInv, Local!ModelFails, Local!InterruptModel, Local!CreateFails
<1>2. turn.at \in {"model", "calls"} /\ cancelled' \in BOOLEAN
  BY <1>1 DEF LocalType, Local!ModelFails, Local!InterruptModel, Local!CreateFails, Local!Interrupt
<1>3. /\ turn' \in LocalTurn /\ turn'.at \in {"failed", "raised", "journal"}
      /\ turn'.at = "failed" => turn'.results = <<>>
      /\ turn'.at \in InRun => turn'.results = turn.results
  <2>1. CASE Local!ModelFails \/ Local!InterruptModel
    <3>1. turn' \in {Local!Resting("failed"), Local!Resting("raised")} /\ turn.at = "model" /\ turn.results = <<>>
      BY <1>1, <2>1 DEF Local!ModelFails, Local!InterruptModel, Local!Raised, TranscriptsFit
    <3>2. "failed" \in InRun
      BY DEF InRun
    <3> QED
      BY <3>1, <3>2, RestingTurn
  <2>2. CASE Local!CreateFails
    <3>1. Local!RunFails /\ turn \in LocalTurn
      BY <1>1, <2>2 DEF Local!CreateFails, LocalType
    <3> QED
      BY <3>1, RunFailsTurn
  <2> QED
    BY <2>1, <2>2
<1>4. turn'.at \in InRun => /\ Local!Fits(journal)'
                            /\ Reported(journal)' \union Reported(turn.results)'
                                 = Reported(journal) \union Reported(turn.results)
  BY <1>1, <1>2, <1>3 DEF TranscriptsFit, InRun, Local!Fits, Reported, Local!Elements
<1> QED
  BY <1>1, <1>2, <1>3, <1>4, LoopMoves DEF LocalType, InRun

LEMMA RunAddsUp ==
  ASSUME LocalInv, Local!Run
  PROVE  LocalInv'
<1> DEFINE initial == Append(messages, Local!Message("user", {}))
<1>1. /\ turn.at = "idle" /\ records' = <<>> /\ journal' = initial
      /\ turn' = Local!Resting(IF Local!Fits(initial) THEN "model" ELSE "raised")
      /\ UNCHANGED <<tree, messages, cancelled, damaged, patch, late, strays>>
  BY DEF Local!Run
<1>2. LocalType /\ TranscriptsFit /\ CheckpointsSound /\ TreeSound
  BY DEF LocalInv
<1>3. Local!Message("user", {}) \in LocalMessage
  BY MessagesAreWellFormed
<1>4. initial \in Seq(LocalMessage) /\ Reported(initial) = Reported(messages)
  <2>1. messages \in Seq(LocalMessage)
    BY <1>2 DEF LocalType
  <2>2. initial \in Seq(LocalMessage) /\ Reported(initial) = Reported(messages) \union IF "user" = "tool" THEN {} ELSE {}
    BY <1>3, <2>1, ReportedAppend
  <2> QED
    BY <2>2
<1> HIDE DEF initial
<1>5. /\ turn' \in LocalTurn /\ turn'.at = (IF Local!Fits(initial) THEN "model" ELSE "raised") /\ turn'.results = <<>>
  BY <1>1, RestingTurn DEF InRun
<1>6. LocalType'
  BY <1>1, <1>2, <1>4, <1>5 DEF LocalType
<1>7. TranscriptsFit'
  BY <1>1, <1>2, <1>5 DEF TranscriptsFit, Local!Fits, InTool, InRun
<1>8. CheckpointsSound'
  <2>1. Len(records)' = 0 /\ DOMAIN records' = {} /\ 0 <= LocalCheckpoints
    BY <1>1, SessionDataType
  <2>2. Local!CheckpointsChain'
    BY <2>1 DEF Local!CheckpointsChain, Local!Agree
  <2>3. Local!WorktreeIsAccountedFor'
    BY <1>1 DEF Local!WorktreeIsAccountedFor, Local!Agree
  <2>4. ~damaged
    BY <1>1, <1>2 DEF CheckpointsSound
  <2> QED
    BY <1>1, <1>5, <2>1, <2>2, <2>3, <2>4 DEF CheckpointsSound, InTool
<1>9. TreeSound'
  <2>1. patch = {} /\ ~damaged /\ Local!Agree(tree, Reported(messages))
    BY <1>1, <1>2 DEF TreeSound, CheckpointsSound, Local!Agree
  <2>2. Reported(journal)' = Reported(messages) /\ Reported(turn.results)' = {}
    <3>1. Reported(journal)' = Reported(journal') /\ Reported(turn.results)' = Reported(turn'.results)
      BY DEF Reported, Local!Elements
    <3> QED
      BY <1>1, <1>4, <1>5, <3>1, ReportedNone
  <2> QED
    BY <1>1, <1>5, <2>1, <2>2 DEF TreeSound, InTool, InRun, Local!Agree
<1> QED
  BY <1>6, <1>7, <1>8, <1>9 DEF LocalInv

LEMMA RunEndsAddsUp ==
  ASSUME LocalInv, Local!RunEnds
  PROVE  LocalInv'
<1>1. /\ turn.at \in {"completed", "failed"} /\ messages' = journal
      /\ turn' = Local!Resting(IF turn.at = "failed" THEN "stopped" ELSE "idle")
      /\ UNCHANGED <<tree, records, journal, cancelled, damaged, patch, late, strays>>
  BY DEF Local!RunEnds
<1>2. LocalType /\ TranscriptsFit /\ CheckpointsSound /\ TreeSound
  BY DEF LocalInv
<1>3. turn' \in LocalTurn /\ turn'.at = (IF turn.at = "failed" THEN "stopped" ELSE "idle") /\ turn'.results = <<>>
  BY <1>1, RestingTurn
<1>4. LocalType'
  BY <1>1, <1>2, <1>3 DEF LocalType
<1>5. TranscriptsFit'
  BY <1>1, <1>2, <1>3 DEF TranscriptsFit, Local!Fits, InTool, InRun
<1>6. CheckpointsSound'
  <2>1. damaged => turn'.at = "stopped"
    BY <1>1, <1>2, <1>3 DEF CheckpointsSound
  <2> QED
    BY <1>1, <1>2, <1>3, <2>1, RecordsRest DEF InTool
<1>7. TreeSound'
  <2>1. ~damaged => Local!Agree(tree, Reported(journal))
    BY <1>1, <1>2, ReportedNone DEF TreeSound, TranscriptsFit, InRun, Local!Agree
  <2>2. Reported(messages)' = Reported(journal)
    BY <1>1 DEF Reported, Local!Elements
  <2>3. patch = {}
    BY <1>1, <1>2 DEF TreeSound, Local!Agree
  <2> QED
    BY <1>1, <1>3, <2>1, <2>2, <2>3 DEF TreeSound, InTool, InRun, Local!Agree
<1> QED
  BY <1>4, <1>5, <1>6, <1>7 DEF LocalInv

LEMMA FinalPatchAddsUp ==
  ASSUME LocalInv, Local!FinalPatch
  PROVE  LocalInv'
<1>1. /\ turn.at \in {"stopped", "idle"} /\ UNCHANGED <<tree, records, journal, messages, cancelled, damaged, late, strays>>
      /\ \/ patch' = {tree} /\ turn' = Local!Resting("done")
         \/ patch' = patch /\ turn' = Local!Resting("raised")
  BY DEF Local!FinalPatch, Local!Raised
<1>2. LocalType /\ TranscriptsFit /\ CheckpointsSound /\ TreeSound
  BY DEF LocalInv
<1>3. /\ turn' \in LocalTurn /\ turn'.at \in {"done", "raised"} /\ turn'.results = <<>>
      /\ patch' # {} => patch' = {tree} /\ turn'.at = "done"
  BY <1>1, <1>2, RestingTurn DEF TreeSound, Local!Agree
<1>4. LocalType'
  BY <1>1, <1>2, <1>3 DEF LocalType
<1>5. TranscriptsFit'
  BY <1>1, <1>2, <1>3 DEF TranscriptsFit, Local!Fits, InTool, InRun
<1>6. CheckpointsSound'
  BY <1>1, <1>2, <1>3, RecordsRest DEF InTool
<1>7. TreeSound'
  <2>1. ~damaged => Local!Agree(tree, Reported(messages))
    BY <1>1, <1>2 DEF TreeSound, Local!Agree
  <2>2. Reported(messages)' = Reported(messages)
    BY <1>1 DEF Reported, Local!Elements
  <2> QED
    BY <1>1, <1>3, <2>1, <2>2 DEF TreeSound, InTool, InRun, Local!Agree
<1> QED
  BY <1>4, <1>5, <1>6, <1>7 DEF LocalInv

----------------------------------------------------------------------------
(* The loop in a tool call *)

\* The transcripts fit as long as they stay what they are.
LEMMA TranscriptsRest ==
  ASSUME LocalInv, UNCHANGED <<journal, messages>>, turn.at \in InTool \union {"calls"},
         turn'.at \in InTool \union {"calls", "journal", "raised"}
  PROVE  TranscriptsFit'
BY DEF LocalInv, TranscriptsFit, Local!Fits, InTool, InRun

\* During a tool call there is a checkpoint and nothing is damaged; its call is one of the turn.
LEMMA InToolCall ==
  ASSUME LocalInv, turn.at \in InTool
  PROVE  /\ ~damaged /\ patch = {} /\ turn \in LocalTurn /\ turn.calls # <<>> /\ Local!Call \in AllCalls
         /\ records \in Seq(LocalRecord) /\ Len(records) \in Nat \ {0}
         /\ Local!Base \subseteq AllCalls /\ Local!Agree(Local!Base, Reported(journal) \union Reported(turn.results))
<1>1. LocalType /\ CheckpointsSound /\ TreeSound
  BY DEF LocalInv
<1>2. ~damaged /\ patch = {} /\ turn.calls # <<>> /\ records # <<>>
  BY <1>1 DEF CheckpointsSound, TreeSound, InTool, Local!Agree
<1>3. turn \in LocalTurn /\ turn.calls \in Seq(AllCalls) /\ records \in Seq(LocalRecord)
  BY <1>1 DEF LocalType, LocalTurn
<1>4. Local!Call \in AllCalls
  BY <1>2, <1>3 DEF Local!Call
<1>5. Len(records) \in Nat \ {0} /\ records[Len(records)] \in LocalRecord
  BY <1>2, <1>3
<1>6. Local!Base \subseteq AllCalls
  BY <1>5 DEF Local!Base, LocalRecord
<1> QED
  BY <1>1, <1>2, <1>3, <1>4, <1>5, <1>6 DEF TreeSound, Local!Agree

LEMMA CreateBeforeToolAddsUp ==
  ASSUME LocalInv, Local!CreateBeforeTool
  PROVE  LocalInv'
<1> DEFINE new == [call |-> Local!Call, base |-> Local!Snapshot, state |-> "open", revision |-> {}]
<1>1. /\ turn.at = "calls" /\ turn.calls # <<>> /\ Local!Room /\ Local!Interrupt
      /\ UNCHANGED <<tree, journal, messages, damaged, patch, late, strays>>
  BY DEF Local!CreateBeforeTool
<1>2. LocalType /\ TranscriptsFit /\ CheckpointsSound /\ TreeSound
  BY DEF LocalInv
<1>3. cancelled' \in BOOLEAN /\ turn.at \in InRun
  BY <1>1, <1>2 DEF Local!Interrupt, LocalType, InRun
<1>4. CASE turn' = Local!Resting("raised") /\ UNCHANGED records
  <2>1. turn' \in LocalTurn /\ turn'.at = "raised"
    BY <1>4, RestingTurn
  <2> QED
    BY <1>1, <1>2, <1>3, <1>4, <2>1, LoopMoves DEF InRun, LocalType
<1>5. CASE records' = Append(records, new) /\ Local!Goes("tool", "")
  <2>1. records \in Seq(LocalRecord) /\ turn \in LocalTurn /\ turn.calls \in Seq(AllCalls) /\ tree \subseteq AllCalls
    BY <1>2 DEF LocalType, LocalTurn
  <2>2. Local!Call \in AllCalls
    BY <1>1, <2>1 DEF Local!Call
  <2>3. new \in LocalRecord /\ new.base = tree /\ new.state = "open"
    BY <2>1, <2>2 DEF LocalRecord, Local!Snapshot
  <2>4. turn' \in LocalTurn /\ turn'.at = "tool" /\ turn'.calls = turn.calls /\ turn'.results = turn.results
    BY <1>5, <2>1, GoesTurn DEF InTool
  <2> HIDE DEF new
  <2>5. /\ records' \in Seq(LocalRecord) /\ Len(records) \in Nat /\ Len(records') = Len(records) + 1
        /\ DOMAIN records = 1 .. Len(records) /\ DOMAIN records' = 1 .. Len(records) + 1
        /\ records'[Len(records) + 1] = new /\ records' # <<>>
        /\ \A i \in 1 .. Len(records) : records'[i] = records[i]
    <3>1. records' = Append(records, new) /\ records \in Seq(LocalRecord) /\ new \in LocalRecord
      BY <1>5, <2>1, <2>3
    <3>2. records' \in Seq(LocalRecord) /\ Len(records) \in Nat /\ Len(records') = Len(records) + 1
      BY <3>1
    <3>3. DOMAIN records = 1 .. Len(records) /\ DOMAIN records' = 1 .. Len(records) + 1 /\ records' # <<>>
      BY <3>1, <3>2
    <3>4. records'[Len(records) + 1] = new
      BY <3>1
    <3>5. \A i \in 1 .. Len(records) : records'[i] = records[i]
      BY <3>1
    <3> QED
      BY <3>2, <3>3, <3>4, <3>5
  <2>6. LocalType'
    BY <1>1, <1>2, <1>3, <2>4, <2>5 DEF LocalType
  <2>7. TranscriptsFit'
    BY <1>1, <2>4, TranscriptsRest DEF InTool
  <2>8. ~damaged /\ patch = {} /\ Local!Agree(tree, Reported(journal) \union Reported(turn.results))
    BY <1>1, <1>2 DEF CheckpointsSound, TreeSound, InRun, Local!Agree
  <2>9. CheckpointsSound'
    <3>1. Len(records') <= LocalCheckpoints
      BY <1>1, <2>5, SessionDataType DEF Local!Room
    <3>2. \A i \in DOMAIN records' : records'[i].state = "open" => i = Len(records')
      <4>1. \A i \in 1 .. Len(records) : records[i].state # "open"
        BY <1>1, <1>2, <2>5 DEF CheckpointsSound
      <4> QED
        BY <2>5, <4>1
    <3>3. Local!CheckpointsChain'
      <4> SUFFICES ASSUME NEW i \in 1 .. (Len(records') - 1)
                   PROVE  Local!Agree(records'[i + 1].base, Local!Outcome(records'[i]))
        BY <1>1 DEF Local!CheckpointsChain, Local!Outcome, Local!Agree
      <4>1. CASE i = Len(records)
        <5>1. records # <<>>
          BY <2>1, <2>5, <4>1
        <5>2. Local!Agree(tree, Local!Outcome(records[Len(records)]))
          BY <1>1, <1>2, <2>8, <5>1 DEF CheckpointsSound, Local!WorktreeIsAccountedFor, Local!Outcome, Local!Agree
        <5> QED
          BY <2>3, <2>5, <4>1, <5>2
      <4>2. CASE i # Len(records)
        <5>1. i \in 1 .. (Len(records) - 1) /\ i \in 1 .. Len(records) /\ i + 1 \in 1 .. Len(records)
          <6>1. i \in Nat /\ Len(records) \in Nat /\ 1 <= i /\ i <= Len(records)
            BY <2>5
          <6> QED
            BY <4>2, <6>1
        <5>2. Local!Agree(records[i + 1].base, Local!Outcome(records[i]))
          BY <1>2, <5>1 DEF CheckpointsSound, Local!CheckpointsChain, Local!Outcome, Local!Agree
        <5> QED
          BY <2>5, <5>1, <5>2
      <4> QED
        BY <4>1, <4>2
    <3>4. Local!WorktreeIsAccountedFor'
      BY <2>4 DEF Local!WorktreeIsAccountedFor, Local!Agree
    <3> QED
      BY <1>1, <2>4, <2>5, <2>8, <3>1, <3>2, <3>3, <3>4 DEF CheckpointsSound, InTool
  <2>10. TreeSound'
    <3>1. Local!Base' = tree
      BY <2>3, <2>5 DEF Local!Base
    <3>2. Reported(journal)' = Reported(journal) /\ Reported(turn.results)' = Reported(turn.results)
      BY <1>1, <2>4 DEF Reported, Local!Elements
    <3> QED
      BY <1>1, <2>4, <2>8, <3>1, <3>2 DEF TreeSound, InTool, InRun, Local!Agree
  <2> QED
    BY <2>6, <2>7, <2>9, <2>10 DEF LocalInv
<1> QED
  BY <1>4, <1>5 DEF Local!CreateBeforeTool, Local!Raised

\* The checkpoints stay while the loop stays in the tool call.
LEMMA RecordsRestInTool ==
  ASSUME LocalInv, UNCHANGED <<records, damaged, strays>>, turn.at \in InTool, turn'.at \in InTool, turn'.calls = turn.calls
  PROVE  CheckpointsSound' /\ Local!Base' = Local!Base
<1>1. CheckpointsSound /\ ~damaged
  BY InToolCall DEF LocalInv
<1>2. Local!CheckpointsChain'
  BY <1>1 DEF CheckpointsSound, Local!CheckpointsChain, Local!Outcome, Local!Agree
<1>3. Local!WorktreeIsAccountedFor'
  BY DEF Local!WorktreeIsAccountedFor, InTool, Local!Agree
<1> QED
  BY <1>1, <1>2, <1>3 DEF CheckpointsSound, InTool, Local!Base

\* A step within a tool call that leaves the checkpoint.
LEMMA WithinTool ==
  ASSUME LocalInv, UNCHANGED <<records, journal, messages, damaged, patch, strays>>, turn.at \in InTool,
         cancelled' \in BOOLEAN, tree' \subseteq AllCalls, late' \subseteq AllCalls, turn' \in LocalTurn, turn'.at \in {"complete", "restore"},
         turn'.calls = turn.calls, turn'.results = turn.results,
         turn'.at = "complete" => Local!Agree(tree', Local!Base \union {Local!Call})
  PROVE  LocalInv'
<1>1. LocalType /\ ~damaged /\ patch = {} /\ Local!Agree(Local!Base, Reported(journal) \union Reported(turn.results))
  BY InToolCall DEF LocalInv
<1>2. turn'.at \in InTool
  BY DEF InTool
<1>3. LocalType'
  BY <1>1 DEF LocalType
<1>4. TranscriptsFit'
  BY <1>2, TranscriptsRest
<1>5. CheckpointsSound' /\ Local!Base' = Local!Base
  BY <1>2, RecordsRestInTool
<1>6. Reported(journal)' = Reported(journal) /\ Reported(turn.results)' = Reported(turn.results) /\ Local!Call' = Local!Call
  BY DEF Reported, Local!Elements, Local!Call
<1>7. TreeSound'
  BY <1>1, <1>5, <1>6 DEF TreeSound, InRun, InTool, Local!Agree
<1> QED
  BY <1>3, <1>4, <1>5, <1>7 DEF LocalInv

LEMMA RunToolAddsUp ==
  ASSUME LocalInv, Local!RunTool
  PROVE  LocalInv'
<1>1. /\ turn.at = "tool" /\ Local!Interrupt /\ UNCHANGED <<tasks, records, journal, messages, damaged, patch, strays>>
      /\ late' \in {late, late \union {Local!Call}}
      /\ \/ tree' = tree \union {Local!Call} /\ Local!Goes("complete", "")
         \/ tree' \in {tree, tree \union {Local!Call}} /\ \E why \in {"interrupt", "tool"} : Local!Goes("restore", why)
  BY DEF Local!RunTool
<1>2. /\ LocalType /\ cancelled' \in BOOLEAN /\ turn.at \in InTool /\ turn \in LocalTurn /\ Local!Agree(tree, Local!Base)
      /\ tree \subseteq AllCalls /\ late \subseteq AllCalls /\ Local!Call \in AllCalls
  BY <1>1, InToolCall DEF LocalInv, LocalType, TreeSound, InTool, Local!Interrupt, Local!Agree
<1>3. /\ turn' \in LocalTurn /\ turn'.calls = turn.calls /\ turn'.results = turn.results
      /\ turn'.at \in {"complete", "restore"} /\ (turn'.at = "complete" => tree' = tree \union {Local!Call})
  BY <1>1, <1>2, GoesTurn DEF InTool
<1>4. tree' \subseteq AllCalls /\ late' \subseteq AllCalls
  BY <1>1, <1>2
<1>5. turn'.at = "complete" => Local!Agree(tree', Local!Base \union {Local!Call})
  BY <1>2, <1>3 DEF Local!Agree
<1> QED
  BY <1>1, <1>2, <1>3, <1>4, <1>5, WithinTool

\* The last checkpoint is completed or rolled back: its base stays, and the checkpoints before it.
LEMMA SetLastRecord ==
  ASSUME LocalInv, turn.at \in InTool, NEW state \in {"completed", "rolled_back"}, NEW revision \in SUBSET AllCalls,
         Local!SetLast(state, revision), strays' = strays
  PROVE  /\ records' \in Seq(LocalRecord) /\ Len(records') = Len(records) /\ DOMAIN records' = DOMAIN records
         /\ records' # <<>> /\ Local!Base' = Local!Base /\ Local!CheckpointsChain'
         /\ \A i \in DOMAIN records' : records'[i].state # "open"
         /\ Local!Outcome(records'[Len(records')]) = IF state = "completed" THEN revision ELSE Local!Base
<1> DEFINE n == Len(records)
           last == [records[n] EXCEPT !.state = state, !.revision = revision]
<1>1. /\ records \in Seq(LocalRecord) /\ n \in Nat \ {0} /\ n \in DOMAIN records /\ DOMAIN records = 1 .. n
      /\ records[n] \in LocalRecord
  BY InToolCall
<1>2. records' = [records EXCEPT ![n] = last]
  BY <1>1 DEF Local!SetLast, LocalRecord
<1>3. last \in LocalRecord /\ last.base = records[n].base /\ last.state = state /\ last.revision = revision
  BY <1>1 DEF LocalRecord
<1> HIDE DEF last
<1>4. /\ records' \in Seq(LocalRecord) /\ Len(records') = n /\ DOMAIN records' = 1 .. n
      /\ records'[n] = last /\ \A i \in 1 .. n : i # n => records'[i] = records[i]
  <2>1. records \in [1 .. n -> LocalRecord] /\ n \in 1 .. n
    BY <1>1
  <2>2. /\ records' \in [1 .. n -> LocalRecord] /\ DOMAIN records' = 1 .. n
        /\ records'[n] = last /\ \A i \in 1 .. n : i # n => records'[i] = records[i]
    <3> HIDE DEF n
    <3> QED
      BY <1>2, <1>3, <2>1
  <2>3. records' \in Seq(LocalRecord) /\ Len(records') = n
    <3> HIDE DEF n
    <3> QED
      BY <1>1, <2>2
  <2> QED
    BY <2>2, <2>3
<1>5. records' # <<>>
  BY <1>1, <1>4
<1>6. Local!Base' = Local!Base
  BY <1>3, <1>4 DEF Local!Base
<1>7. Local!CheckpointsChain'
  <2> SUFFICES ASSUME NEW i \in 1 .. (Len(records') - 1) PROVE Local!Agree(records'[i + 1].base, Local!Outcome(records'[i]))
    BY DEF Local!CheckpointsChain, Local!Outcome, Local!Agree
  <2>1. i \in 1 .. (n - 1) /\ i \in 1 .. n /\ i # n /\ i + 1 \in 1 .. n
    <3>1. n \in Nat /\ i \in 1 .. (n - 1)
      BY <1>1, <1>4
    <3> HIDE DEF n
    <3> QED
      BY <3>1
  <2>2. Local!Agree(records[i + 1].base, Local!Outcome(records[i]))
    BY <2>1 DEF LocalInv, CheckpointsSound, Local!CheckpointsChain, Local!Outcome, Local!Agree
  <2>3. records'[i + 1].base = records[i + 1].base
    BY <2>1, <1>3, <1>4
  <2>4. records'[i] = records[i]
    BY <2>1, <1>4
  <2> QED
    BY <2>2, <2>3, <2>4
<1>8. \A i \in DOMAIN records' : records'[i].state # "open"
  <2>1. \A i \in 1 .. n : i # n => records[i].state # "open"
    BY <1>1 DEF LocalInv, CheckpointsSound
  <2> QED
    BY <2>1, <1>3, <1>4
<1>9. Local!Outcome(records'[Len(records')]) = IF state = "completed" THEN revision ELSE Local!Base
  BY <1>3, <1>4 DEF Local!Outcome, Local!Base
<1> QED
  BY <1>1, <1>4, <1>5, <1>6, <1>7, <1>8, <1>9

\* The tool call ends: the worktree is what its checkpoint stands for.
LEMMA ToolEnds ==
  ASSUME LocalInv, UNCHANGED <<journal, messages, damaged, patch, late, strays>>, turn.at \in InTool, cancelled' \in BOOLEAN,
         tree' \subseteq AllCalls, turn' \in LocalTurn, turn'.at \in {"calls", "journal", "raised"},
         NEW state \in {"completed", "rolled_back"}, NEW revision \in SUBSET AllCalls, Local!SetLast(state, revision),
         tree' = IF state = "completed" THEN revision ELSE Local!Base,
         turn'.at # "raised" => Local!Agree(tree', Reported(journal) \union Reported(turn'.results))
  PROVE  LocalInv'
<1>1. /\ records' \in Seq(LocalRecord) /\ Len(records') = Len(records) /\ DOMAIN records' = DOMAIN records
      /\ records' # <<>> /\ Local!CheckpointsChain' /\ \A i \in DOMAIN records' : records'[i].state # "open"
      /\ Local!Outcome(records'[Len(records')]) = tree'
  BY SetLastRecord
<1>2. LocalType /\ CheckpointsSound /\ ~damaged /\ patch = {} /\ Len(records) \in Nat \ {0}
  BY InToolCall DEF LocalInv
<1>3. LocalType'
  BY <1>1, <1>2 DEF LocalType
<1>4. TranscriptsFit'
  BY TranscriptsRest
<1>5. CheckpointsSound'
  <2>1. Local!WorktreeIsAccountedFor'
    BY <1>1 DEF Local!WorktreeIsAccountedFor, Local!Outcome, Local!Agree
  <2>2. Len(records') \in DOMAIN records'
    BY <1>1, <1>2
  <2> QED
    BY <1>1, <1>2, <2>1, <2>2 DEF CheckpointsSound, InTool
<1>6. TreeSound'
  <2>1. Reported(journal)' = Reported(journal) /\ Reported(turn.results)' = Reported(turn'.results)
    BY DEF Reported, Local!Elements
  <2> QED
    BY <1>2, <2>1 DEF TreeSound, InTool, InRun, Local!Agree
<1> QED
  BY <1>3, <1>4, <1>5, <1>6 DEF LocalInv

LEMMA CompleteToolAddsUp ==
  ASSUME LocalInv, Local!CompleteTool
  PROVE  LocalInv'
<1>1. /\ turn.at = "complete" /\ Local!Interrupt /\ UNCHANGED <<tree, journal, messages, damaged, patch, strays, late>>
      /\ \/ (\E why \in {"completion", "finalize"} : Local!Goes("restore", why)) /\ UNCHANGED records
         \/ Local!SetLast("completed", tree) /\ (Local!Concluded("tool") \/ Local!Goes("restore", "finalize"))
  BY DEF Local!CompleteTool
<1>2. /\ LocalType /\ ~damaged /\ patch = {} /\ turn \in LocalTurn /\ turn.calls # <<>> /\ tree \subseteq AllCalls
      /\ late' \subseteq AllCalls /\ strays' = strays
      /\ Local!Agree(Local!Base, Reported(journal) \union Reported(turn.results)) /\ turn.at \in InTool /\ cancelled' \in BOOLEAN
      /\ Local!Agree(tree, Local!Base \union {Local!Call})
  BY <1>1, InToolCall DEF LocalInv, LocalType, TreeSound, InTool, Local!Interrupt, Local!Agree
<1>3. \A why \in {"completion", "finalize"} : Local!Goes("restore", why) =>
        turn' \in LocalTurn /\ turn'.at = "restore" /\ turn'.calls = turn.calls /\ turn'.results = turn.results
  BY <1>2, GoesTurn DEF InTool
<1>4. CASE (\E why \in {"completion", "finalize"} : Local!Goes("restore", why)) /\ UNCHANGED records
  <2>1. /\ turn' \in LocalTurn /\ turn'.at = "restore" /\ turn'.calls = turn.calls /\ turn'.results = turn.results
        /\ UNCHANGED <<records, journal, messages, damaged, patch, strays>> /\ tree' \subseteq AllCalls
    BY <1>1, <1>2, <1>3, <1>4
  <2> QED
    BY <1>2, <2>1, WithinTool
<1>5. CASE Local!SetLast("completed", tree) /\ Local!Concluded("tool")
  <2>1. turn' \in LocalTurn /\ turn'.at = "calls" /\ Reported(turn'.results) = Reported(turn.results) \union {Local!Call}
    BY <1>2, <1>5, ConcludedTurn
  <2>2. Local!Agree(tree', Reported(journal) \union Reported(turn'.results))
    BY <1>1, <1>2, <2>1 DEF Local!Agree
  <2>3. "completed" \in {"completed", "rolled_back"} /\ tree' = (IF "completed" = "completed" THEN tree ELSE Local!Base)
    BY <1>1
  <2> QED
    BY <1>1, <1>2, <1>5, <2>1, <2>2, <2>3, ToolEnds
<1>6. CASE Local!SetLast("completed", tree) /\ Local!Goes("restore", "finalize")
  <2>1. /\ records' \in Seq(LocalRecord) /\ Len(records') = Len(records) /\ DOMAIN records' = DOMAIN records
        /\ records' # <<>> /\ Local!CheckpointsChain' /\ \A i \in DOMAIN records' : records'[i].state # "open"
        /\ Local!Base' = Local!Base
    BY <1>1, <1>2, <1>6, SetLastRecord
  <2>2. turn' \in LocalTurn /\ turn'.at = "restore" /\ turn'.calls = turn.calls /\ turn'.results = turn.results
    BY <1>3, <1>6
  <2>3. LocalType'
    BY <1>1, <1>2, <2>1, <2>2 DEF LocalType
  <2>4. TranscriptsFit'
    BY <1>1, <1>2, <2>2, TranscriptsRest DEF InTool
  <2>5. CheckpointsSound'
    <3>1. Local!WorktreeIsAccountedFor'
      BY <2>2 DEF Local!WorktreeIsAccountedFor, Local!Agree
    <3> QED
      BY <1>1, <1>2, <2>1, <2>2, <3>1 DEF LocalInv, CheckpointsSound, InTool
  <2>6. TreeSound'
    <3>1. Reported(journal)' = Reported(journal) /\ Reported(turn.results)' = Reported(turn.results)
      BY <1>1, <2>2 DEF Reported, Local!Elements
    <3> QED
      BY <1>1, <1>2, <2>1, <2>2, <3>1 DEF TreeSound, InTool, InRun, Local!Agree
  <2> QED
    BY <2>3, <2>4, <2>5, <2>6 DEF LocalInv
<1> QED
  BY <1>1, <1>4, <1>5, <1>6

LEMMA RestoreAddsUp ==
  ASSUME LocalInv, Local!Restore
  PROVE  LocalInv'
<1>1. /\ turn.at = "restore" /\ Local!Interrupt /\ tree' = Local!Base /\ Local!SetLast("rolled_back", {})
      /\ UNCHANGED <<tasks, journal, messages, damaged, patch, late, strays>>
      /\ \/ turn' = Local!Resting("raised")
         \/ Local!Concluded("error")
         \/ Local!RunFails
  BY DEF Local!Restore, Local!Raised
<1>2. /\ turn \in LocalTurn /\ turn.calls # <<>> /\ Local!Agree(Local!Base, Reported(journal) \union Reported(turn.results))
      /\ Local!Base \subseteq AllCalls /\ turn.at \in InTool /\ cancelled' \in BOOLEAN
  BY <1>1, InToolCall DEF LocalInv, LocalType, InTool, Local!Interrupt
<1>3. /\ turn' \in LocalTurn /\ turn'.at \in {"calls", "journal", "raised"}
      /\ turn'.at # "raised" => Reported(turn'.results) = Reported(turn.results)
  <2>1. CASE turn' = Local!Resting("raised")
    BY <2>1, RestingTurn
  <2>2. CASE Local!Concluded("error")
    BY <1>2, <2>2, ConcludedTurn
  <2>3. CASE Local!RunFails
    BY <1>2, <2>3, RunFailsTurn
  <2> QED
    BY <1>1, <2>1, <2>2, <2>3
<1>4. "rolled_back" \in {"completed", "rolled_back"} /\ {} \in SUBSET AllCalls
  OBVIOUS
<1>5. tree' = (IF "rolled_back" = "completed" THEN {} ELSE Local!Base)
  BY <1>1
<1>6. tree' \subseteq AllCalls /\ (turn'.at # "raised" => Local!Agree(tree', Reported(journal) \union Reported(turn'.results)))
  BY <1>1, <1>2, <1>3
<1> QED
  BY <1>1, <1>2, <1>3, <1>4, <1>5, <1>6, ToolEnds

LEMMA RestoreFailsAddsUp ==
  ASSUME LocalInv, Local!RestoreFails
  PROVE  LocalInv'
<1>1. /\ turn.at = "restore" /\ Local!Interrupt /\ tree' \in {tree, Local!Base}
      /\ UNCHANGED <<records, journal, messages, patch, late, strays>>
      /\ \/ Local!Goes("restore", "finalize") /\ UNCHANGED damaged
         \/ damaged' = TRUE /\ (turn' = Local!Resting("raised") \/ Local!RunFails)
  BY DEF Local!RestoreFails, Local!Raised
<1>2. /\ LocalType /\ turn \in LocalTurn /\ tree \subseteq AllCalls /\ Local!Base \subseteq AllCalls
      /\ turn.at \in InTool /\ cancelled' \in BOOLEAN /\ patch = {}
  BY <1>1, InToolCall DEF LocalInv, LocalType, InTool, Local!Interrupt
<1>3. tree' \subseteq AllCalls
  BY <1>1, <1>2
<1>4. CASE Local!Goes("restore", "finalize") /\ UNCHANGED damaged
  <2>1. turn' \in LocalTurn /\ turn'.at = "restore" /\ turn'.calls = turn.calls /\ turn'.results = turn.results
    BY <1>2, <1>4, GoesTurn DEF InTool
  <2>2. late' \subseteq AllCalls
    BY <1>1, <1>2 DEF LocalType
  <2> QED
    BY <1>1, <1>2, <1>3, <1>4, <2>1, <2>2, WithinTool
<1>5. CASE damaged' = TRUE /\ (turn' = Local!Resting("raised") \/ Local!RunFails)
  <2>1. turn' \in LocalTurn /\ turn'.at \in {"journal", "raised"}
    BY <1>2, <1>5, RestingTurn, RunFailsTurn
  <2>2. LocalType'
    BY <1>1, <1>2, <1>3, <1>5, <2>1 DEF LocalType
  <2>3. TranscriptsFit'
    BY <1>1, <1>2, <2>1, TranscriptsRest
  <2>4. CheckpointsSound'
    <3>1. Local!CheckpointsChain'
      BY <1>1 DEF LocalInv, CheckpointsSound, Local!CheckpointsChain, Local!Outcome, Local!Agree
    <3>2. Local!WorktreeIsAccountedFor'
      BY <1>5 DEF Local!WorktreeIsAccountedFor, Local!Agree
    <3> QED
      BY <1>1, <1>5, <2>1, <3>1, <3>2 DEF LocalInv, CheckpointsSound, InTool
  <2>5. TreeSound'
    BY <1>1, <1>2, <1>5 DEF TreeSound, Local!Agree
  <2> QED
    BY <2>2, <2>3, <2>4, <2>5 DEF LocalInv
<1> QED
  BY <1>1, <1>4, <1>5

\* An edit reaches the worktree after its call ended: what it adds and what it takes away are strays from then on.
LEMMA LateEditAddsUp ==
  ASSUME LocalInv, NEW c \in late, Local!LateEdit(c)
  PROVE  LocalInv'
<1>1. PICK lost \in {{}} \union {{d} : d \in tree} :
        /\ tree' = (tree \ lost) \union {c} /\ strays' = strays \union lost \union {c}
  BY DEF Local!LateEdit
<1>2. late' = late \ {c} /\ UNCHANGED <<turn, tasks, records, journal, messages, cancelled, damaged, patch>>
  BY DEF Local!LateEdit
<1>3. LocalType /\ TranscriptsFit /\ CheckpointsSound /\ TreeSound
  BY DEF LocalInv
<1>4. tree' \subseteq AllCalls /\ strays' \subseteq AllCalls /\ late' \subseteq AllCalls
  BY <1>1, <1>2, <1>3 DEF LocalType
<1>5. strays \subseteq strays' /\ tree' \ strays' = tree \ strays'
  BY <1>1
<1>6. \A a, b \in SUBSET AllCalls : a \ strays = b \ strays => a \ strays' = b \ strays'
  BY <1>5
<1>7. LocalType' /\ TranscriptsFit'
  BY <1>2, <1>3, <1>4 DEF LocalType, TranscriptsFit, Local!Fits
<1>8. CheckpointsSound'
  <2>1. \A i \in DOMAIN records : records[i] \in LocalRecord /\ records[i].base \in SUBSET AllCalls
                                  /\ Local!Outcome(records[i]) \in SUBSET AllCalls
    <3> SUFFICES ASSUME NEW i \in DOMAIN records
                 PROVE  /\ records[i] \in LocalRecord /\ records[i].base \in SUBSET AllCalls
                        /\ Local!Outcome(records[i]) \in SUBSET AllCalls
      OBVIOUS
    <3>1. records[i] \in LocalRecord
      BY <1>3 DEF LocalType
    <3>2. records[i].base \in SUBSET AllCalls /\ records[i].revision \in SUBSET AllCalls
      BY <3>1 DEF LocalRecord
    <3> QED
      BY <3>1, <3>2 DEF Local!Outcome
  <2>2. records # <<>> => Len(records) \in DOMAIN records
    BY <1>3 DEF LocalType
  <2>3. Local!CheckpointsChain'
    <3> SUFFICES ASSUME NEW i \in 1 .. (Len(records) - 1)
                 PROVE  records[i + 1].base \ strays' = Local!Outcome(records[i]) \ strays'
      BY <1>2 DEF Local!CheckpointsChain, Local!Agree, Local!Outcome
    <3>1. i \in DOMAIN records /\ i + 1 \in DOMAIN records
      BY <1>3 DEF LocalType
    <3>2. records[i + 1].base \ strays = Local!Outcome(records[i]) \ strays
      BY <1>3 DEF CheckpointsSound, Local!CheckpointsChain, Local!Agree
    <3> QED
      BY <3>1, <3>2, <2>1, <1>6
  <2>4. Local!WorktreeIsAccountedFor'
    <3> SUFFICES ASSUME records # <<>>, turn.at \notin {"tool", "complete", "restore"}, ~damaged
                 PROVE  tree' \ strays' = Local!Outcome(records[Len(records)]) \ strays'
      BY <1>2 DEF Local!WorktreeIsAccountedFor, Local!Agree, Local!Outcome
    <3>1. tree \ strays = Local!Outcome(records[Len(records)]) \ strays
      BY <1>3 DEF CheckpointsSound, Local!WorktreeIsAccountedFor, Local!Agree
    <3> QED
      BY <3>1, <2>1, <2>2, <1>3, <1>5, <1>6 DEF LocalType
  <2> QED
    BY <1>2, <1>3, <2>3, <2>4 DEF CheckpointsSound
<1>9. TreeSound'
  <2>1. /\ Reported(journal)' = Reported(journal) /\ Reported(turn.results)' = Reported(turn.results)
        /\ Reported(messages)' = Reported(messages) /\ Local!Base' = Local!Base /\ Local!Call' = Local!Call
    BY <1>2 DEF Reported, Local!Elements, Local!Base, Local!Call
  <2>2. \A a, b : a \ strays = b \ strays => a \ strays' = b \ strays'
    BY <1>5
  <2>3. \A b : tree \ strays = b \ strays => tree' \ strays' = b \ strays'
    BY <1>5
  <2> QED
    BY <1>2, <1>3, <2>1, <2>2, <2>3 DEF TreeSound, Local!Agree
<1> QED
  BY <1>7, <1>8, <1>9 DEF LocalInv

LEMMA LocalInitInv ==
  ASSUME Local!Init
  PROVE  LocalInv
<1>1. /\ turn = Local!Resting("idle") /\ tree = {} /\ records = <<>> /\ journal = <<>>
      /\ messages = <<Local!Message("system", {})>> /\ cancelled = FALSE /\ damaged = FALSE /\ patch = {}
      /\ late = {} /\ strays = {}
  BY DEF Local!Init
<1>2. turn \in LocalTurn /\ turn.at = "idle"
  BY <1>1, RestingTurn
<1>3. messages \in Seq(LocalMessage) /\ Len(messages) = 1
  <2> DEFINE m == Local!Message("system", {})
  <2>1. m \in LocalMessage
    BY MessagesAreWellFormed
  <2> HIDE DEF m
  <2>2. messages = <<m>>
    BY <1>1 DEF m
  <2> QED
    BY <2>1, <2>2
<1>4. LocalType
  <2>1. records \in Seq(LocalRecord) /\ journal \in Seq(LocalMessage)
    BY <1>1
  <2> QED
    BY <1>1, <1>2, <1>3, <2>1, Zenon DEF LocalType
<1>5. TranscriptsFit
  BY <1>2, <1>3, SessionDataType DEF TranscriptsFit, Local!Fits, InTool, InRun
<1>6. CheckpointsSound
  <2>1. Len(records) = 0 /\ DOMAIN records = {}
    BY <1>1
  <2>2. Local!CheckpointsChain /\ Local!WorktreeIsAccountedFor
    BY <1>1, <2>1 DEF Local!CheckpointsChain, Local!WorktreeIsAccountedFor, Local!Agree
  <2> QED
    BY <1>1, <1>2, <2>1, <2>2, SessionDataType DEF CheckpointsSound, InTool
<1>7. TreeSound
  <2>1. Reported(messages) = {}
    BY <1>1, ReportedOne
  <2> QED
    BY <1>1, <1>2, <2>1 DEF TreeSound, InTool, InRun, Local!Agree
<1> QED
  BY <1>4, <1>5, <1>6, <1>7 DEF LocalInv

LEMMA LocalStep ==
  ASSUME LocalInv, [SessionNext]_sessionVars
  PROVE  LocalInv'
<1>1. CASE UNCHANGED localVars
  <2>1. UNCHANGED <<turn, tree, records, journal, messages, cancelled, damaged, patch, late, strays>>
    BY <1>1 DEF localVars
  <2>2. LocalType' /\ TranscriptsFit'
    BY <2>1 DEF LocalInv, LocalType, TranscriptsFit, Local!Fits
  <2>3. CheckpointsSound'
    BY <2>1 DEF LocalInv, CheckpointsSound, Local!CheckpointsChain, Local!WorktreeIsAccountedFor, Local!Outcome, Local!Agree
  <2>4. TreeSound'
    BY <2>1 DEF LocalInv, TreeSound, Reported, Local!Elements, Local!Base, Local!Call, Local!Agree
  <2> QED
    BY <2>2, <2>3, <2>4 DEF LocalInv
<1>2. CASE Local!Next
  BY <1>2, RunAddsUp, FinalTextAddsUp, RunStopsAddsUp, JournalNewAddsUp, RunEndsAddsUp, FinalPatchAddsUp,
     CreateBeforeToolAddsUp, RunToolAddsUp, CompleteToolAddsUp, RestoreAddsUp, RestoreFailsAddsUp, ModelTurnAddsUp,
     LateEditAddsUp DEF Local!Next
<1> QED
  BY <1>1, <1>2 DEF SessionNext, InMemory, InPlanning, InLocal, sessionVars

LEMMA LocalFollows ==
  ASSUME LocalInv
  PROVE  SessionAddsUp
<1>1. Local!LocalTypeOK
  BY DEF LocalInv, TranscriptsFit, CheckpointsSound, Local!LocalTypeOK
<1>2. Local!PatchMatchesTranscript
  BY DEF LocalInv, TreeSound, Reported, Local!PatchMatchesTranscript, Local!Agree
<1> QED
  BY <1>1, <1>2 DEF LocalInv, CheckpointsSound, SessionAddsUp, Local!SessionAddsUp

\* In every state of a local session, at whatever await it was interrupted: its checkpoints chain, the worktree is
\* what the last one stands for, and the final patch holds what the transcript reports, unless a restore failed
\* and up to the edits whose thread outlived their call (create_before_tool, complete_tool, _restore_record,
\* edit_file, InMemoryAgentSession.run).
THEOREM LocalSessionAddsUp == SessionSpec => []SessionAddsUp
<1>1. SessionInit => LocalInv
  BY LocalInitInv DEF SessionInit
<1>2. LocalInv /\ [SessionNext]_sessionVars => LocalInv'
  BY LocalStep
<1>3. LocalInv => SessionAddsUp
  BY LocalFollows
<1> QED
  BY <1>1, <1>2, <1>3, PTL DEF SessionSpec
=============================================================================
