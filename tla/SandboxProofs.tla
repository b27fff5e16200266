--------------------------- MODULE SandboxProofs ----------------------------
(***************************************************************************)
(* What is proved of one sandbox of a node (module Sandbox), for any       *)
(* number of commands, edits, snapshots, calls and faults: no container is *)
(* forgotten, a restore is alone with the worktree and holds after its     *)
(* answer, an edit replaces only what its caller has seen, and a worktree  *)
(* begins as the checkout once was, unless both halves of that were        *)
(* changed and changed back meanwhile.                                     *)
(***************************************************************************)
EXTENDS Sandbox, TLAPS

\* Nothing runs and nothing can be claimed.
Quiet == up = {} /\ active = {} /\ \A c \in Commands : cmd[c] \notin {"running", "removing"}

\* A restore that resets and a removal that has come to the worktree found no container, and none starts.
RunInv ==
    /\ NoForgottenContainer
    /\ op = "resetting" \/ destroy = "worktree" \/ destroyed => Quiet

\* A command that waits has read a generation, and one that waits since before the sweep of a restore that the
\* worker still waits for has read an old one.
GenerationInv ==
    /\ \A c \in Commands : gen[c] <= generation
    /\ call = <<"restore">> /\ (cancel = "restore" \/ op = "resetting") =>
         \A c \in Commands : cmd[c] = "waiting" => gen[c] < generation

\* A restore waits for its sweep while it holds the workspace lock, its snapshot stays listed as long as there is
\* a worktree, and the worker waits for a restore only while there is one.
LockInv ==
    /\ "restore" \in waiters <=> op = "cancelling"
    /\ op \in {"cancelling", "resetting"} => target \in Contents /\ (worktree => target \in Range(snaps))
    /\ call = <<"restore">> => op \in {"cancelling", "resetting"}
    /\ build # "ready" => op = None /\ promised = None /\ call = None

\* After the answer of a restore nothing is under way but edits it noted, and waiting commands will be refused.
PromiseInv ==
    promised # None =>
      /\ op = None /\ up = {}
      /\ \A c \in Commands : cmd[c] = "waiting" => gen[c] < generation
      /\ \A e \in Edits : edit[e] \notin {"new", "done"} => e \in strays
      /\ RestoreHolds

\* One edit at a time holds the mutation lock, and what it compared is what is there, but for commands and restores.
EditInv ==
    /\ \A e, f \in Edits : edit[e] \in {"checked", "rechecked"} /\ edit[f] \in {"checked", "rechecked"} => e = f
    /\ \A e \in Edits : edit[e] = "rechecked" => file = base[e] \/ author \in {"command", "restore"}

Inv == TypeOK /\ snaps \in Seq(Contents) /\ RunInv /\ GenerationInv /\ LockInv /\ PromiseInv /\ EditInv

-----------------------------------------------------------------------------

\* The worker waits for one kind of call at a time.
LEMMA CallsDiffer ==
    /\ \A c \in Commands : <<"command", c>> # <<"restore">> /\ <<"command", c>> \in Calls
    /\ \A e \in Edits : <<"edit", e>> # <<"restore">> /\ <<"edit", e>> \in Calls
    /\ \A kind \in {"write", "snapshot", "cancel", "destroy"} : <<kind>> # <<"restore">> /\ <<kind>> \in Calls
    /\ <<"restore">> \in Calls /\ <<"restore">> # None
<1>1. ASSUME NEW c \in Commands PROVE <<"command", c>> # <<"restore">> /\ <<"command", c>> \in Calls
  <2>1. <<"command", c>>[1] # <<"restore">>[1]
    OBVIOUS
  <2> QED
    BY <2>1 DEF Calls
<1>2. ASSUME NEW e \in Edits PROVE <<"edit", e>> # <<"restore">> /\ <<"edit", e>> \in Calls
  <2>1. <<"edit", e>>[1] # <<"restore">>[1]
    OBVIOUS
  <2> QED
    BY <2>1 DEF Calls
<1>3. ASSUME NEW kind \in {"write", "snapshot", "cancel", "destroy"} PROVE <<kind>> # <<"restore">> /\ <<kind>> \in Calls
  <2>1. <<kind>>[1] # <<"restore">>[1]
    OBVIOUS
  <2> QED
    BY <2>1 DEF Calls
<1>4. <<"restore">> \in Calls /\ <<"restore">> # None
  BY NoneIsNoValue DEF Calls
<1> QED
  BY <1>1, <1>2, <1>3, <1>4

\* None is no step.
LEMMA NoneDiffers ==
    None \notin {"write", "snapshot", "cancelling", "resetting", "cancel", "restore", "destroy", "worktree", "source"}
BY NoneIsNoValue DEF Waiters

LEMMA SandboxInit == Init => Inv
<1> SUFFICES ASSUME Init PROVE Inv
  OBVIOUS
<1> USE SandboxAssumption, NoneDiffers, CallsDiffer DEF Init, Contents
<1>1. TypeOK /\ snaps \in Seq(Contents)
  <2>1. Range(snaps) \subseteq Contents
    BY DEF Range
  <2>2. {cleanup, destroyed, worktree, allocation} \subseteq BOOLEAN
    BY Zenon
  <2>3. 0 \in Contents /\ 0 \in 0..MaxCalls /\ 0 \in 0..MaxFaults
    OBVIOUS
  <2> QED
    BY <2>1, <2>2, <2>3 DEF TypeOK
<1>2. RunInv /\ GenerationInv /\ PromiseInv /\ EditInv
  BY DEF RunInv, NoForgottenContainer, GenerationInv, PromiseInv, EditInv
<1>3. LockInv
  BY DEF LockInv
<1> QED
  BY <1>1, <1>2, <1>3 DEF Inv

\* What steps of one part of the sandbox leave to the others.
LEMMA RunRests ==
    ASSUME Inv, UNCHANGED <<cmd, up, active, pending>>, op' = "resetting" => op = "resetting",
           destroy' = "worktree" => destroy = "worktree", destroyed' => destroyed \/ destroy = "worktree"
    PROVE  RunInv'
BY DEF Inv, RunInv, NoForgottenContainer, Quiet

LEMMA EditRests ==
    ASSUME Inv, UNCHANGED <<edit, base, file, author>>
    PROVE  EditInv'
BY DEF Inv, EditInv

LEMMA GenerationRests ==
    ASSUME Inv, UNCHANGED <<cmd, gen, generation, cancel>>,
           call' = <<"restore">> => call = <<"restore">>, op' = "resetting" => op = "resetting"
    PROVE  GenerationInv'
BY DEF Inv, GenerationInv

LEMMA PromiseRests ==
    ASSUME Inv, promised' # None => UNCHANGED <<promised, strays, op, up, cmd, gen, generation, edit, file>>,
           promised' # None /\ worktree' => worktree
    PROVE  PromiseInv'
BY DEF Inv, PromiseInv, RestoreHolds

LEMMA LockRests ==
    ASSUME Inv, UNCHANGED <<waiters, op, target>>, worktree' => UNCHANGED snaps /\ (worktree \/ op = None),
           call' = <<"restore">> => call = <<"restore">>,
           build' # "ready" => build # "ready" /\ call' \in {call, None} /\ promised' \in {promised, None}
    PROVE  LockInv'
<1> USE NoneDiffers
<1>1. op \in {"cancelling", "resetting"} /\ worktree' => target \in Range(snaps)'
  BY DEF Inv, LockInv
<1> QED
  BY <1>1 DEF Inv, LockInv

-----------------------------------------------------------------------------

\* The type invariant, by the groups of variables that an action leaves alone or changes.
BuildType == build \in {"materialize", "replace", "fingerprint", "untracked", "add", "again", "compare", "verify", "ready", "failed"}
RunType ==
    /\ cmd \in [Commands -> {"new", "waiting", "running", "ended", "removing", "done", "lost"}] /\ gen \in [Commands -> Nat]
    /\ up \subseteq Commands /\ active \subseteq Commands /\ pending \subseteq Commands
CancelType == generation \in Nat /\ waiters \subseteq Waiters /\ cancel \in waiters \cup {None}
OpType ==
    /\ op \in {None, "write", "snapshot", "cancelling", "resetting"}
    /\ target \in Contents \cup {None} /\ archiving \in Contents \cup {None}
LifeType ==
    /\ destroy \in {None, "cancel", "worktree", "source"}
    /\ {cleanup, destroyed, worktree, allocation} \subseteq BOOLEAN
FileType ==
    file \in Contents /\ writes \in Contents /\ author \in {"source", "command", "write", "edit", "restore"}
GitType ==
    Range(snaps) \subseteq Contents /\ durable \subseteq [rev : Contents, archived : Contents] /\ snaps \in Seq(Contents)
EditType ==
    /\ edit \in [Edits -> {"new", "asked", "checked", "rechecked", "done"}]
    /\ base \in [Edits -> Contents \cup {None}]
ClientType ==
    /\ call \in Calls \cup {None} /\ calls \in 0..MaxCalls
    /\ promised \in Contents \cup {None} /\ strays \subseteq Edits

LEMMA TypeParts ==
    TypeOK /\ snaps \in Seq(Contents) <=>
      /\ BuildType /\ RunType /\ CancelType /\ OpType /\ LifeType /\ FileType /\ GitType /\ EditType /\ ClientType
      /\ faults \in 0..MaxFaults
BY DEF TypeOK, BuildType, RunType, CancelType, OpType, LifeType, FileType, GitType, EditType, ClientType

\* A sequence of contents has contents.
LEMMA SeqRange ==
    ASSUME NEW s \in Seq(Contents)
    PROVE  Range(s) \subseteq Contents
<1>1. DOMAIN s = 1..Len(s) /\ \A i \in 1..Len(s) : s[i] \in Contents
  OBVIOUS
<1> QED
  BY <1>1 DEF Range

\* The parts hold together.
LEMMA InvParts ==
    ASSUME Inv
    PROVE  /\ BuildType /\ RunType /\ CancelType /\ OpType /\ LifeType /\ FileType /\ GitType /\ EditType
           /\ ClientType /\ faults \in 0..MaxFaults
BY TypeParts DEF Inv

LEMMA PartsInv ==
    ASSUME BuildType', RunType', CancelType', OpType', LifeType', FileType', GitType', EditType',
           ClientType', faults' \in 0..MaxFaults,
           RunInv', GenerationInv', LockInv', PromiseInv', EditInv'
    PROVE  Inv'
<1>1. TypeOK' /\ (snaps \in Seq(Contents))'
  BY DEF TypeOK, BuildType, RunType, CancelType, OpType, LifeType, FileType, GitType, EditType, ClientType
<1> QED
  BY <1>1 DEF Inv

\* Groups that an action leaves alone keep their types.
LEMMA TypesRest ==
    ASSUME Inv
    PROVE  /\ UNCHANGED build => BuildType'
           /\ UNCHANGED runVars => RunType'
           /\ UNCHANGED cancelVars => CancelType'
           /\ UNCHANGED opVars => OpType'
           /\ UNCHANGED lifeVars => LifeType'
           /\ UNCHANGED fileVars => FileType'
           /\ UNCHANGED gitVars => GitType'
           /\ UNCHANGED editVars => EditType'
           /\ UNCHANGED clientVars => ClientType'
<1> USE InvParts
<1>1. UNCHANGED build => BuildType'
  BY DEF BuildType
<1>2. UNCHANGED runVars => RunType'
  BY DEF RunType, runVars
<1>3. UNCHANGED cancelVars => CancelType'
  BY DEF CancelType, cancelVars
<1>4. UNCHANGED opVars => OpType'
  BY DEF OpType, opVars
<1>5. UNCHANGED lifeVars => LifeType'
  BY DEF LifeType, lifeVars
<1>6. UNCHANGED fileVars => FileType'
  BY DEF FileType, fileVars
<1>7. UNCHANGED gitVars => GitType'
  <2> SUFFICES ASSUME UNCHANGED gitVars PROVE GitType'
    OBVIOUS
  <2>1. snaps' = snaps /\ durable' = durable
    BY DEF gitVars
  <2>2. Range(snaps)' = Range(snaps)
    BY <2>1
  <2> QED
    BY <2>1, <2>2 DEF GitType
<1>8. UNCHANGED editVars => EditType'
  BY DEF EditType, editVars
<1>9. UNCHANGED clientVars => ClientType'
  BY DEF ClientType, clientVars
<1> QED
  BY <1>1, <1>2, <1>3, <1>4, <1>5, <1>6, <1>7, <1>8, <1>9

-----------------------------------------------------------------------------
(****************************** The creation *******************************)

\* Until the sandbox is ready the worker has not called, so nothing but the worktree changes.
LEMMA CreationStep ==
    ASSUME Inv, Creation
    PROVE  Inv'
<1> USE NoneDiffers
<1>1. /\ UNCHANGED <<runVars, cancelVars, opVars, destroy, cleanup, destroyed, fileVars, gitVars, editVars, clientVars>>
      /\ build # "ready"
  BY DEF Creation, Materialize, TrackedFingerprint, CaptureUntracked, AddWorktree, FingerprintAgain, Reading,
         RequireConsistentSource, ReplaceWorktree, VerifyRuntime, CreateFails, EditSource, lifeVars
<1>2. BuildType'
  BY InvParts DEF Creation, Materialize, TrackedFingerprint, CaptureUntracked, AddWorktree, FingerprintAgain, Reading,
         RequireConsistentSource, ReplaceWorktree, VerifyRuntime, CreateFails, EditSource, BuildType
<1>3. worktree' \in {worktree, TRUE, FALSE} /\ allocation' \in {allocation, TRUE, FALSE}
  <2>1. CASE CreateFails
    BY <2>1 DEF CreateFails
  <2> QED
    BY <2>1 DEF Creation, Materialize, TrackedFingerprint, CaptureUntracked, AddWorktree, FingerprintAgain, Reading,
         RequireConsistentSource, ReplaceWorktree, VerifyRuntime, EditSource, lifeVars
<1>4. faults' \in 0..MaxFaults
  <2>1. faults' = faults \/ (faults < MaxFaults /\ faults' = faults + 1)
    BY DEF Creation, Materialize, TrackedFingerprint, CaptureUntracked, AddWorktree,
     FingerprintAgain, Reading, RequireConsistentSource, ReplaceWorktree, VerifyRuntime, CreateFails, EditSource, Fault
  <2> QED
    BY <2>1, InvParts, SandboxAssumption
<1>5. LifeType'
  <2>1. {cleanup, destroyed, worktree, allocation} \subseteq BOOLEAN
    BY InvParts DEF LifeType
  <2>2. {cleanup', destroyed', worktree', allocation'} \subseteq BOOLEAN
    BY <1>1, <1>3, <2>1, Zenon
  <2> QED
    BY <1>1, <2>2, InvParts DEF LifeType
<1>6. op = None /\ promised = None
  BY <1>1 DEF Inv, LockInv
<1>7. RunInv' /\ EditInv' /\ GenerationInv'
  BY <1>1, RunRests, EditRests, GenerationRests DEF runVars, opVars, fileVars, editVars, clientVars, cancelVars
<1>8. LockInv' /\ PromiseInv'
  BY <1>1, <1>6, LockRests, PromiseRests DEF opVars, cancelVars, gitVars, clientVars
<1> QED
  BY <1>1, <1>2, <1>4, <1>5, <1>7, <1>8, TypesRest, PartsInv

-----------------------------------------------------------------------------
(******************************* The worker ********************************)

\* With a call the promise of an earlier restore is over.
LEMMA CallMeans ==
    ASSUME Inv, Call, call' \in Calls \cup {None}
    PROVE  /\ ClientType' /\ PromiseInv' /\ build = "ready" /\ call = None /\ promised' = None
<1>1. calls' \in 0..MaxCalls
  BY InvParts, SandboxAssumption DEF Call, ClientType
<1> QED
  BY <1>1 DEF Call, ClientType, PromiseInv

\* An answer ends at most the call it answers.
LEMMA AnsweredMeans ==
    ASSUME Inv, NEW what, Answered(what)
    PROVE  ClientType' /\ call' \in {call, None} /\ UNCHANGED <<promised, strays>>
BY InvParts DEF Answered, Answer, ClientType

LEMMA GiveUpStep ==
    ASSUME Inv, GiveUp
    PROVE  Inv'
<1> USE CallsDiffer
<1>1. ClientType' /\ faults' \in 0..MaxFaults
  BY InvParts DEF GiveUp, ClientType
<1>2. RunInv' /\ EditInv' /\ GenerationInv' /\ LockInv' /\ PromiseInv'
  BY RunRests, EditRests, GenerationRests, LockRests, PromiseRests
  DEF GiveUp, buildVars, runVars, cancelVars, opVars, lifeVars, fileVars, gitVars, editVars
<1> QED
  BY <1>1, <1>2, TypesRest, PartsInv DEF GiveUp, buildVars

-----------------------------------------------------------------------------
(******************************** Commands *********************************)

\* A command that comes in has the generation of the moment.
LEMMA ExecuteStep ==
    ASSUME Inv, NEW c \in Commands, Execute(c)
    PROVE  Inv'
<1> USE CallsDiffer
<1>1. /\ UNCHANGED <<buildVars, up, active, pending, cancelVars, opVars, lifeVars, fileVars, gitVars, editVars, faults>>
      /\ Call /\ call' \in {<<"command", c>>, None} /\ cmd[c] = "new"
      /\ cmd' \in {[cmd EXCEPT ![c] = "waiting"], [cmd EXCEPT ![c] = "done"]}
      /\ gen' \in {gen, [gen EXCEPT ![c] = generation]}
  BY DEF Execute
<1>2. ClientType' /\ PromiseInv' /\ build = "ready"
  BY <1>1, CallMeans
<1>3. RunType' /\ \A d \in Commands : cmd'[d] \in {"running", "removing"} => cmd[d] = cmd'[d]
  BY <1>1, InvParts DEF RunType, CancelType, cancelVars
<1>4. RunInv'
  BY <1>1, <1>3 DEF Inv, RunInv, NoForgottenContainer, Quiet, opVars, lifeVars
<1>5. GenerationInv'
  <2>1. call' # <<"restore">>
    BY <1>1
  <2>2. generation \in Nat /\ generation' = generation /\ gen \in [Commands -> Nat]
    BY <1>1, InvParts DEF RunType, CancelType, cancelVars
  <2>3. \A d \in Commands : gen'[d] \in {gen[d], generation}
    BY <1>1, <2>2
  <2>4. \A d \in Commands : gen'[d] <= generation'
    BY <2>2, <2>3 DEF Inv, GenerationInv
  <2> QED
    BY <2>1, <2>4 DEF GenerationInv
<1>6. LockInv' /\ EditInv'
  BY <1>1, <1>2, LockRests, EditRests DEF buildVars, cancelVars, opVars, lifeVars, fileVars, gitVars, editVars
<1> QED
  BY <1>1, <1>2, <1>3, <1>4, <1>5, <1>6, InvParts, TypesRest, PartsInv DEF buildVars

\* A command gets the slot if nothing happened since it came in.
LEMMA LaunchStep ==
    ASSUME Inv, NEW c \in Commands, Launch(c)
    PROVE  Inv'
<1> USE CallsDiffer, NoneDiffers
<1>1. UNCHANGED <<buildVars, gen, pending, cancelVars, opVars, lifeVars, fileVars, gitVars, editVars, faults>>
  BY DEF Launch
<1>2. ClientType' /\ call' \in {call, None} /\ UNCHANGED <<promised, strays>>
  BY AnsweredMeans, InvParts DEF Launch, clientVars, ClientType
<1>3. /\ cmd[c] = "waiting"
      /\ \/ /\ MayLaunch(c) /\ cmd' = [cmd EXCEPT ![c] = "running"]
            /\ active' = active \cup {c} /\ up' = up \cup {c}
         \/ cmd' = [cmd EXCEPT ![c] = "done"] /\ UNCHANGED <<active, up>>
  BY DEF Launch
<1>4. RunType'
  BY <1>1, <1>3, InvParts DEF RunType
<1>5. RunInv'
  <2>1. CASE MayLaunch(c)
    <3>1. op' # "resetting" /\ destroy' # "worktree" /\ ~destroyed'
      BY <1>1, <2>1 DEF MayLaunch, Available, opVars, lifeVars
    <3> QED
      BY <1>1, <1>3, <3>1 DEF Inv, RunInv, NoForgottenContainer
  <2>2. CASE cmd' = [cmd EXCEPT ![c] = "done"] /\ UNCHANGED <<active, up>>
    BY <1>1, <2>2, InvParts DEF Inv, RunInv, NoForgottenContainer, Quiet, opVars, lifeVars, RunType
  <2> QED
    BY <1>3, <2>1, <2>2
<1>6. GenerationInv'
  BY <1>1, <1>2, <1>3, InvParts DEF Inv, GenerationInv, cancelVars, opVars, RunType
<1>7. PromiseInv'
  <2>1. promised # None => cmd' = [cmd EXCEPT ![c] = "done"] /\ UNCHANGED <<active, up>>
    BY <1>3, InvParts DEF Inv, PromiseInv, MayLaunch, RunType, CancelType
  <2>2. ASSUME promised # None, NEW d \in Commands, cmd'[d] = "waiting" PROVE gen'[d] < generation'
    BY <1>1, <2>1, <2>2, InvParts DEF Inv, PromiseInv, RunType, cancelVars
  <2> QED
    BY <1>1, <1>2, <2>1, <2>2 DEF Inv, PromiseInv, RestoreHolds, opVars, lifeVars, fileVars, editVars
<1>8. LockInv' /\ EditInv'
  BY <1>1, <1>2, LockRests, EditRests DEF buildVars, cancelVars, opVars, lifeVars, fileVars, gitVars, editVars
<1> QED
  BY <1>1, <1>2, <1>4, <1>5, <1>6, <1>7, <1>8, InvParts, TypesRest, PartsInv DEF buildVars

\* A command that is on its way out: nothing starts to wait or to run, and containers are at most handed on from
\* _active to the pending removals.
LEMMA CommandLeaves ==
    ASSUME Inv, NEW c \in Commands,
           UNCHANGED <<buildVars, gen, cancelVars, opVars, destroy, destroyed, worktree, allocation, fileVars, gitVars,
                       editVars>>,
           cleanup' \in BOOLEAN, faults' \in 0..MaxFaults,
           ClientType', call' \in {call, None}, UNCHANGED <<promised, strays>>,
           NEW step \in {"ended", "removing", "done", "lost"}, cmd' = [cmd EXCEPT ![c] = step],
           step = "removing" => c \in active,
           up' \subseteq up, active' \subseteq active, pending' \subseteq Commands, up' \subseteq active' \cup pending'
    PROVE  Inv'
<1> USE CallsDiffer
<1>1. RunType' /\ \A d \in Commands : cmd'[d] = "waiting" => cmd[d] = "waiting"
  BY InvParts DEF RunType
<1>2. LifeType'
  <2>1. {destroyed, worktree, allocation} \subseteq BOOLEAN
    BY InvParts, Zenon DEF LifeType
  <2>2. {cleanup', destroyed', worktree', allocation'} \subseteq BOOLEAN
    BY <2>1, Zenon
  <2> QED
    BY <2>2, InvParts DEF LifeType
<1>3. RunInv'
  BY InvParts DEF Inv, RunInv, NoForgottenContainer, Quiet, opVars, RunType
<1>4. GenerationInv'
  BY <1>1 DEF Inv, GenerationInv, cancelVars, opVars
<1>5. PromiseInv'
  BY <1>1 DEF Inv, PromiseInv, RestoreHolds, opVars, fileVars, editVars, cancelVars
<1>6. LockInv' /\ EditInv'
  BY LockRests, EditRests DEF buildVars, cancelVars, opVars, lifeVars, fileVars, gitVars, editVars
<1> QED
  BY <1>1, <1>2, <1>3, <1>4, <1>5, <1>6, TypesRest, PartsInv DEF buildVars

LEMMA DisconnectStep ==
    ASSUME Inv, NEW c \in Commands, Disconnect(c)
    PROVE  Inv'
<1>1. ClientType' /\ cleanup \in BOOLEAN
  BY InvParts, TypesRest, Zenon DEF Disconnect, LifeType
<1> QED
  BY <1>1, CommandLeaves, InvParts DEF Disconnect, clientVars, lifeVars, RunType, Inv, RunInv, NoForgottenContainer

LEMMA RunnerEndsStep ==
    ASSUME Inv, NEW c \in Commands, RunnerEnds(c)
    PROVE  Inv'
<1>1. ClientType' /\ cleanup \in BOOLEAN
  BY InvParts, TypesRest, Zenon DEF RunnerEnds, LifeType
<1>2. up' \subseteq up
  BY DEF RunnerEnds, LeftBehind
<1> QED
  BY <1>1, <1>2, CommandLeaves, InvParts
  DEF RunnerEnds, clientVars, lifeVars, RunType, Inv, RunInv, NoForgottenContainer

LEMMA ClaimContainerCleanupStep ==
    ASSUME Inv, NEW c \in Commands, ClaimContainerCleanup(c)
    PROVE  Inv'
<1>1. /\ cleanup \in BOOLEAN /\ ClientType' /\ call' \in {call, None} /\ UNCHANGED <<promised, strays>>
  <2>1. cleanup \in BOOLEAN
    BY InvParts, Zenon DEF LifeType
  <2> QED
    BY <2>1, AnsweredMeans, TypesRest DEF ClaimContainerCleanup, clientVars
<1>2. /\ active' \subseteq active /\ pending' \subseteq Commands /\ up' = up /\ up' \subseteq active' \cup pending'
      /\ \E step \in {"removing", "done"} :
           cmd' = [cmd EXCEPT ![c] = step] /\ (step = "removing" => c \in active)
  BY InvParts DEF ClaimContainerCleanup, RunType, Inv, RunInv, NoForgottenContainer
<1>3. UNCHANGED <<buildVars, gen, cancelVars, opVars, lifeVars, fileVars, gitVars, editVars, faults>>
  BY DEF ClaimContainerCleanup
<1> QED
  BY <1>1, <1>2, <1>3, CommandLeaves, InvParts DEF lifeVars

LEMMA RemoveContainerStep ==
    ASSUME Inv, NEW c \in Commands, RemoveContainer(c)
    PROVE  Inv'
<1>1. /\ ClientType' /\ call' \in {call, None} /\ UNCHANGED <<promised, strays>>
  BY AnsweredMeans DEF RemoveContainer
<1>2. cleanup' \in BOOLEAN
  <2>1. cleanup \in BOOLEAN /\ destroyed \in BOOLEAN
    BY InvParts, Zenon DEF LifeType
  <2> QED
    BY <2>1, Zenon DEF RemoveContainer
<1>3. faults' \in 0..MaxFaults
  BY InvParts, SandboxAssumption DEF RemoveContainer, Fault
<1>4. /\ active' = active /\ pending' \subseteq Commands /\ up' \subseteq up /\ up' \subseteq active' \cup pending'
      /\ cmd' = [cmd EXCEPT ![c] = "done"]
      /\ UNCHANGED <<buildVars, gen, cancelVars, opVars, destroy, destroyed, worktree, allocation, fileVars, gitVars,
                     editVars>>
  BY InvParts DEF RemoveContainer, RunType, Inv, RunInv, NoForgottenContainer
<1> QED
  BY <1>1, <1>2, <1>3, <1>4, CommandLeaves

LEMMA InterruptStep ==
    ASSUME Inv, NEW c \in Commands, Interrupt(c)
    PROVE  Inv'
<1>1. ClientType' /\ cleanup \in BOOLEAN
  BY InvParts, TypesRest, Zenon DEF Interrupt, LifeType
<1>2. up' \subseteq up /\ active' = active /\ cmd' = [cmd EXCEPT ![c] = "lost"]
  BY DEF Interrupt
<1>3. pending' \subseteq Commands /\ up' \subseteq active' \cup pending'
  BY <1>2, InvParts DEF Interrupt, RunType, Inv, RunInv, NoForgottenContainer
<1>4. UNCHANGED <<buildVars, gen, cancelVars, opVars, lifeVars, fileVars, gitVars, editVars, clientVars, faults>>
  BY DEF Interrupt
<1> QED
  BY <1>1, <1>2, <1>3, <1>4, CommandLeaves, InvParts DEF clientVars, lifeVars

\* A write has a new number.
LEMMA WriteMeans ==
    ASSUME Inv, NEW who \in {"command", "write", "edit"}, WriteAs(who)
    PROVE  FileType' /\ author' = who /\ worktree
BY InvParts, SandboxAssumption DEF WriteAs, FileType, Contents

\* After a restore was answered there is no container to write.
LEMMA ContainerWritesStep ==
    ASSUME Inv, NEW c \in Commands, ContainerWrites(c)
    PROVE  Inv'
<1>1. /\ c \in up /\ FileType' /\ author' = "command"
      /\ UNCHANGED <<buildVars, runVars, cancelVars, opVars, lifeVars, gitVars, editVars, clientVars, faults>>
  BY WriteMeans DEF ContainerWrites
<1>2. promised = None
  BY <1>1 DEF Inv, PromiseInv
<1>3. RunInv' /\ GenerationInv' /\ LockInv' /\ PromiseInv'
  BY <1>1, <1>2, RunRests, GenerationRests, LockRests, PromiseRests
  DEF buildVars, runVars, cancelVars, opVars, lifeVars, gitVars, editVars, clientVars
<1>4. EditInv'
  BY <1>1 DEF Inv, EditInv, editVars
<1> QED
  BY <1>1, <1>3, <1>4, InvParts, TypesRest, PartsInv DEF buildVars

-----------------------------------------------------------------------------
(****************************** Cancellation *******************************)

LEMMA CallCancelStep ==
    ASSUME Inv, CallCancel
    PROVE  Inv'
<1> USE CallsDiffer
<1>1. /\ UNCHANGED <<buildVars, runVars, generation, cancel, opVars, lifeVars, fileVars, gitVars, editVars, faults>>
      /\ Call /\ call' = <<"cancel">> /\ waiters' = waiters \cup {"cancel"}
  BY DEF CallCancel
<1>2. ClientType' /\ PromiseInv' /\ build = "ready"
  BY <1>1, CallMeans
<1>3. CancelType'
  BY <1>1, InvParts DEF CancelType, Waiters
<1>4. RunInv' /\ GenerationInv' /\ EditInv'
  BY <1>1, RunRests, GenerationRests, EditRests DEF runVars, opVars, lifeVars, fileVars, editVars
<1>5. LockInv'
  <2>1. call' # <<"restore">> /\ build' = "ready" /\ ("restore" \in waiters' <=> "restore" \in waiters)
    BY <1>1, <1>2 DEF buildVars
  <2>2. Range(snaps)' = Range(snaps) /\ UNCHANGED <<op, target, worktree>>
    BY <1>1 DEF gitVars, opVars, lifeVars
  <2> QED
    BY <2>1, <2>2 DEF Inv, LockInv
<1> QED
  BY <1>1, <1>2, <1>3, <1>4, <1>5, InvParts, TypesRest, PartsInv DEF buildVars

\* The generation moves on, so whatever waits is refused.
LEMMA BeginCancelStep ==
    ASSUME Inv, NEW w \in Waiters, BeginCancel(w)
    PROVE  Inv'
<1> USE CallsDiffer
<1>1. /\ UNCHANGED <<buildVars, runVars, waiters, opVars, lifeVars, fileVars, gitVars, editVars, clientVars, faults>>
      /\ w \in waiters /\ cancel' = w /\ generation' = generation + 1
  BY DEF BeginCancel
<1>2. CancelType'
  BY <1>1, InvParts DEF CancelType
<1>3. ASSUME NEW c \in Commands PROVE gen'[c] < generation'
  BY <1>1, InvParts DEF Inv, GenerationInv, RunType, CancelType, runVars
<1>4. \A c \in Commands : gen'[c] <= generation'
  BY <1>1, <1>3, InvParts DEF RunType, CancelType, runVars
<1>5. GenerationInv'
  BY <1>3, <1>4 DEF GenerationInv
<1>6. PromiseInv'
  BY <1>1, <1>3 DEF Inv, PromiseInv, RestoreHolds, runVars, opVars, lifeVars, fileVars, editVars, clientVars
<1>7. RunInv' /\ LockInv' /\ EditInv'
  BY <1>1, RunRests, LockRests, EditRests
  DEF buildVars, runVars, opVars, lifeVars, fileVars, gitVars, editVars, clientVars
<1> QED
  BY <1>1, <1>2, <1>5, <1>6, <1>7, InvParts, TypesRest, PartsInv DEF buildVars

\* A sweep removes whatever is known; when nothing failed no container is left.
LEMMA SweepContainersStep ==
    ASSUME Inv, NEW w \in Waiters, SweepContainers(w)
    PROVE  Inv'
<1> USE CallsDiffer, NoneDiffers
<1>1. /\ cancel = w /\ Swept /\ cancel' = None /\ waiters' = waiters \ {w}
      /\ UNCHANGED <<buildVars, cmd, gen, generation, target, archiving, destroyed, worktree, allocation,
                     fileVars, gitVars, editVars>>
  BY DEF SweepContainers
<1>2. PICK left \in SUBSET Sweepable, failed \in BOOLEAN :
        /\ left # {} => failed
        /\ IF failed THEN Fault ELSE UNCHANGED faults
        /\ up' = up \ (Sweepable \ left)
        /\ pending' = left /\ active' = {}
        /\ cleanup' = (cleanup \/ failed)
        /\ CASE w = "cancel" -> UNCHANGED <<op, destroy>> /\ Answered(<<"cancel">>)
             [] w = "restore" -> /\ op' = IF failed THEN None ELSE "resetting"
                                 /\ IF failed THEN Answered(<<"restore">>) ELSE UNCHANGED clientVars
                                 /\ UNCHANGED destroy
             [] w = "destroy" -> /\ destroy' = NextOfDestroy(failed)
                                 /\ UNCHANGED <<op, clientVars>>
  BY DEF SweepContainers
<1>3. w \in waiters
  BY <1>1, InvParts DEF CancelType, Waiters
<1>4. /\ w # "restore" => op' = op
      /\ w = "restore" => op = "cancelling" /\ op' = IF failed THEN None ELSE "resetting"
      /\ w # "destroy" => destroy' = destroy
      /\ w = "destroy" => destroy' = IF failed THEN "source" ELSE "worktree"
  <2>1. w = "restore" => op = "cancelling"
    BY <1>3 DEF Inv, LockInv
  <2> QED
    BY <1>2, <2>1 DEF Waiters, NextOfDestroy
<1>5. ClientType' /\ call' \in {call, None} /\ UNCHANGED <<promised, strays>>
  <2>1. CASE w = "cancel"
    <3>1. Answered(<<"cancel">>)
      BY <1>2, <2>1
    <3> QED
      BY <3>1, AnsweredMeans
  <2>2. CASE w # "cancel"
    <3>1. Answered(<<"restore">>) \/ UNCHANGED clientVars
      BY <1>2, <2>2 DEF Waiters
    <3> QED
      BY <3>1, AnsweredMeans, TypesRest DEF clientVars
  <2> QED
    BY <2>1, <2>2
<1>6. w = "restore" /\ failed => call' # <<"restore">>
  <2>1. w = "restore" /\ failed => Answered(<<"restore">>)
    BY <1>2
  <2> QED
    BY <2>1 DEF Answered, Answer
<1>7. up' \subseteq up /\ (~failed => up' = {}) /\ up' \subseteq pending'
  BY <1>2 DEF Inv, RunInv, NoForgottenContainer, Sweepable
<1>8. RunType' /\ CancelType' /\ OpType' /\ faults' \in 0..MaxFaults
  <2>1. RunType' /\ CancelType' /\ OpType'
    BY <1>1, <1>2, <1>4, <1>7, InvParts DEF RunType, CancelType, OpType, Sweepable
  <2>2. faults' \in 0..MaxFaults
    BY <1>2, InvParts, SandboxAssumption DEF Fault
  <2> QED
    BY <2>1, <2>2
<1>9. LifeType'
  <2>1. {cleanup, destroyed, worktree, allocation} \subseteq BOOLEAN
    BY InvParts DEF LifeType
  <2>2. cleanup' \in BOOLEAN
    BY <1>2, <2>1, Zenon
  <2>3. {cleanup', destroyed', worktree', allocation'} \subseteq BOOLEAN
    BY <1>1, <2>1, <2>2, Zenon
  <2> QED
    BY <1>4, <2>3, InvParts DEF LifeType
<1>10. RunInv'
  <2>1. NoForgottenContainer'
    BY <1>7 DEF NoForgottenContainer
  <2>2. up' = {} => Quiet'
    BY <1>1, <1>2 DEF Quiet, Swept
  <2>3. op' = "resetting" \/ destroy' = "worktree" \/ destroyed' => up' = {}
    BY <1>1, <1>4, <1>7 DEF Inv, RunInv, Quiet
  <2> QED
    BY <2>1, <2>2, <2>3 DEF RunInv
<1>11. GenerationInv'
  <2>1. call' = <<"restore">> => call = <<"restore">>
    BY <1>5
  <2>2. op' = "resetting" => op = "resetting" \/ cancel = "restore"
    BY <1>1, <1>4
  <2> QED
    BY <1>1, <2>1, <2>2 DEF Inv, GenerationInv
<1>12. LockInv'
  <2>1. "restore" \in waiters' <=> op' = "cancelling"
    BY <1>1, <1>3, <1>4 DEF Inv, LockInv
  <2>2. op' \in {"cancelling", "resetting"} => op \in {"cancelling", "resetting"}
    BY <1>4
  <2>3. op' \in {"cancelling", "resetting"} => target' \in Contents /\ (worktree' => target' \in Range(snaps)')
    BY <1>1, <2>2 DEF Inv, LockInv, gitVars
  <2>4. call' = <<"restore">> => op' \in {"cancelling", "resetting"}
    BY <1>4, <1>5, <1>6 DEF Inv, LockInv
  <2>5. build' # "ready" => op' = None /\ promised' = None /\ call' = None
    BY <1>1, <1>4, <1>5 DEF Inv, LockInv, buildVars
  <2> QED
    BY <2>1, <2>3, <2>4, <2>5 DEF LockInv
<1>13. PromiseInv'
  BY <1>1, <1>4, <1>5, <1>7 DEF Inv, PromiseInv, RestoreHolds, fileVars, editVars
<1>14. EditInv'
  BY <1>1, EditRests DEF fileVars, editVars
<1> QED
  BY <1>1, <1>5, <1>8, <1>9, <1>10, <1>11, <1>12, <1>13, <1>14, TypesRest, PartsInv DEF buildVars

-----------------------------------------------------------------------------
(********************** Operations on the workspace ************************)

LEMMA BeginStep ==
    ASSUME Inv, NEW kind \in {"write", "snapshot"}, Begin(kind)
    PROVE  Inv'
<1> USE CallsDiffer, NoneDiffers
<1>1. /\ UNCHANGED <<buildVars, runVars, cancelVars, target, archiving, lifeVars, fileVars, gitVars, editVars, faults>>
      /\ Call /\ op = None /\ op' \in {None, kind} /\ call' \in {<<kind>>, None}
  BY DEF Begin
<1>2. ClientType' /\ PromiseInv' /\ build = "ready" /\ call' # <<"restore">>
  BY <1>1, CallMeans
<1>3. OpType'
  BY <1>1, InvParts DEF OpType
<1>4. RunInv' /\ GenerationInv' /\ EditInv'
  BY <1>1, <1>2, RunRests, GenerationRests, EditRests DEF runVars, cancelVars, lifeVars, fileVars, editVars
<1>5. LockInv'
  BY <1>1, <1>2 DEF Inv, LockInv, buildVars, cancelVars
<1> QED
  BY <1>1, <1>2, <1>3, <1>4, <1>5, InvParts, TypesRest, PartsInv DEF buildVars

\* No edit is between its comparison and its write.
LEMMA WriteFileAtomicStep ==
    ASSUME Inv, WriteFileAtomic
    PROVE  Inv'
<1> USE CallsDiffer, NoneDiffers
<1>1. /\ UNCHANGED <<buildVars, runVars, cancelVars, target, archiving, lifeVars, gitVars, editVars>>
      /\ op = "write" /\ MutationLockFree /\ op' = None
  BY DEF WriteFileAtomic
<1>2. ClientType' /\ call' \in {call, None} /\ UNCHANGED <<promised, strays>>
  BY AnsweredMeans DEF WriteFileAtomic
<1>3. FileType' /\ faults' \in 0..MaxFaults
  <2>1. WriteAs("write") \/ UNCHANGED fileVars
    BY DEF WriteFileAtomic
  <2>2. faults' \in 0..MaxFaults
    BY InvParts, SandboxAssumption DEF WriteFileAtomic, Fault
  <2> QED
    BY <2>1, <2>2, WriteMeans, TypesRest
<1>4. OpType'
  BY <1>1, InvParts DEF OpType
<1>5. promised = None /\ call # <<"restore">>
  BY <1>1 DEF Inv, PromiseInv, LockInv
<1>6. EditInv'
  BY <1>1 DEF Inv, EditInv, MutationLockFree, editVars
<1>7. RunInv' /\ GenerationInv' /\ PromiseInv'
  BY <1>1, <1>2, <1>5, RunRests, GenerationRests, PromiseRests DEF runVars, cancelVars, lifeVars
<1>8. LockInv'
  BY <1>1, <1>2, <1>5 DEF Inv, LockInv, buildVars, cancelVars
<1> QED
  BY <1>1, <1>2, <1>3, <1>4, <1>6, <1>7, <1>8, TypesRest, PartsInv DEF buildVars

LEMMA CreateSnapshotStep ==
    ASSUME Inv, CreateSnapshot
    PROVE  Inv'
<1> USE CallsDiffer, NoneDiffers
<1>1. /\ UNCHANGED <<buildVars, runVars, cancelVars, target, lifeVars, fileVars, durable, editVars>>
      /\ op = "snapshot" /\ op' = None
  BY DEF CreateSnapshot
<1>2. ClientType' /\ call' \in {call, None} /\ UNCHANGED <<promised, strays>>
  BY AnsweredMeans, TypesRest DEF CreateSnapshot, clientVars
<1>3. faults' \in 0..MaxFaults
  BY InvParts, SandboxAssumption DEF CreateSnapshot, Fault
<1>4. snaps' \in Seq(Contents) /\ archiving' \in Contents \cup {None}
  <2>1. snaps' \in {snaps, Append(snaps, file)} /\ archiving' \in {archiving, file}
    BY DEF CreateSnapshot, Revision
  <2>2. file \in Contents /\ snaps \in Seq(Contents) /\ archiving \in Contents \cup {None}
    BY InvParts DEF GitType, FileType, OpType
  <2> QED
    BY SMTT(60), <2>1, <2>2
<1>5. GitType'
  BY <1>1, <1>4, SeqRange, InvParts DEF GitType
<1>6. OpType'
  BY <1>1, <1>4, InvParts DEF OpType
<1>7. promised = None /\ call # <<"restore">>
  BY <1>1 DEF Inv, PromiseInv, LockInv
<1>8. RunInv' /\ GenerationInv' /\ PromiseInv' /\ EditInv'
  BY <1>1, <1>2, <1>7, RunRests, GenerationRests, PromiseRests, EditRests
  DEF runVars, cancelVars, lifeVars, editVars, fileVars
<1>9. LockInv'
  BY <1>1, <1>2, <1>7 DEF Inv, LockInv, buildVars, cancelVars
<1> QED
  BY <1>1, <1>2, <1>3, <1>5, <1>6, <1>8, <1>9, TypesRest, PartsInv DEF buildVars

LEMMA ArchiveSnapshotStep ==
    ASSUME Inv, ArchiveSnapshot
    PROVE  Inv'
<1> USE CallsDiffer, NoneDiffers
<1>1. /\ UNCHANGED <<buildVars, runVars, cancelVars, op, target, lifeVars, fileVars, snaps, editVars>>
      /\ archiving # None /\ archiving' = None
      /\ durable' \in {durable, durable \cup {[rev |-> archiving, archived |-> file]}}
  BY DEF ArchiveSnapshot, Archived
<1>2. ClientType' /\ call' \in {call, None} /\ UNCHANGED <<promised, strays>>
  BY AnsweredMeans DEF ArchiveSnapshot
<1>3. faults' \in 0..MaxFaults
  BY InvParts, SandboxAssumption DEF ArchiveSnapshot, Fault
<1>4. OpType'
  BY <1>1, InvParts DEF OpType
<1>5. GitType'
  <2>1. [rev |-> archiving, archived |-> file] \in [rev : Contents, archived : Contents]
    BY <1>1, InvParts DEF OpType, FileType
  <2>2. snaps' \in Seq(Contents) /\ durable' \subseteq [rev : Contents, archived : Contents]
    BY <1>1, <2>1, InvParts DEF GitType
  <2> QED
    BY <2>2, SeqRange DEF GitType
<1>6. RunInv' /\ GenerationInv' /\ LockInv' /\ PromiseInv' /\ EditInv'
  BY <1>1, <1>2, RunRests, GenerationRests, LockRests, PromiseRests, EditRests
  DEF buildVars, runVars, cancelVars, lifeVars, editVars, fileVars
<1> QED
  BY <1>1, <1>2, <1>3, <1>4, <1>5, <1>6, TypesRest, PartsInv DEF buildVars

LEMMA CallRestoreStep ==
    ASSUME Inv, NEW d \in durable, CallRestore(d)
    PROVE  Inv'
<1> USE CallsDiffer, NoneDiffers
<1>1. /\ UNCHANGED <<buildVars, runVars, generation, cancel, archiving, lifeVars, fileVars, gitVars, editVars, faults>>
      /\ Call /\ op = None
      /\ \/ /\ d.rev \in Range(snaps) /\ op' = "cancelling" /\ target' = d.rev
            /\ waiters' = waiters \cup {"restore"} /\ call' = <<"restore">>
         \/ call' = None /\ UNCHANGED <<op, target, waiters>>
  BY DEF CallRestore
<1>2. ClientType' /\ PromiseInv' /\ build = "ready"
  BY <1>1, CallMeans
<1>3. d.rev \in Contents
  BY InvParts DEF GitType
<1>4. CancelType' /\ OpType'
  BY <1>1, <1>3, InvParts DEF CancelType, OpType, Waiters
<1>5. "restore" \notin waiters /\ cancel # "restore"
  BY <1>1, InvParts DEF Inv, LockInv, CancelType
<1>6. RunInv' /\ EditInv'
  BY <1>1, RunRests, EditRests DEF runVars, lifeVars, fileVars, editVars
<1>7. GenerationInv'
  BY <1>1, <1>5 DEF Inv, GenerationInv, runVars
<1>8. LockInv'
  <2>1. Range(snaps)' = Range(snaps) /\ build' = "ready"
    BY <1>1, <1>2 DEF gitVars, buildVars
  <2> QED
    BY <1>1, <1>3, <1>5, <2>1 DEF LockInv
<1> QED
  BY <1>1, <1>2, <1>4, <1>6, <1>7, <1>8, InvParts, TypesRest, PartsInv DEF buildVars

\* The reset and the promise: nothing runs, and what waits is of an old generation.
LEMMA RestoreRevisionStep ==
    ASSUME Inv, RestoreRevision
    PROVE  Inv'
<1> USE CallsDiffer, NoneDiffers
<1>1. /\ UNCHANGED <<buildVars, runVars, cancelVars, archiving, lifeVars, writes, durable, editVars, calls>>
      /\ op = "resetting" /\ op' = None /\ target' = None /\ call' \in {call, None} /\ call' # <<"restore">>
  BY DEF RestoreRevision, Answer
<1>2. \/ /\ worktree /\ file' = target /\ author' = "restore"
         /\ snaps' = SubSeq(snaps, 1, CHOOSE i \in DOMAIN snaps : snaps[i] = target)
         /\ promised' = IF call = <<"restore">> THEN target ELSE promised
         /\ strays' = IF call = <<"restore">> THEN {e \in Edits : edit[e] \notin {"new", "done"}} ELSE strays
      \/ UNCHANGED <<file, author, snaps, promised, strays>>
  BY DEF RestoreRevision
<1>3. target \in Contents /\ (worktree => target \in Range(snaps))
  BY <1>1 DEF Inv, LockInv
<1>4. promised = None
  BY <1>1 DEF Inv, PromiseInv
<1>5. up = {} /\ \A c \in Commands : call = <<"restore">> /\ cmd[c] = "waiting" => gen[c] < generation
  BY <1>1 DEF Inv, RunInv, GenerationInv, Quiet
<1>6. faults' \in 0..MaxFaults
  BY InvParts, SandboxAssumption DEF RestoreRevision, Fault
<1>7. FileType' /\ OpType' /\ ClientType'
  BY <1>1, <1>2, <1>3, InvParts DEF FileType, OpType, ClientType
<1>8. GitType'
  <2>1. snaps \in Seq(Contents)
    BY InvParts DEF GitType
  <2>2. ASSUME worktree PROVE SubSeq(snaps, 1, CHOOSE i \in DOMAIN snaps : snaps[i] = target) \in Seq(Contents)
    <3>1. \E i \in DOMAIN snaps : snaps[i] = target
      BY <1>3, <2>2 DEF Range
    <3>2. PICK j \in DOMAIN snaps : j = CHOOSE i \in DOMAIN snaps : snaps[i] = target
      BY <3>1
    <3>3. j \in 1..Len(snaps)
      BY <2>1
    <3>4. SubSeq(snaps, 1, j) \in Seq(Contents)
      BY <2>1, <3>3
    <3> QED
      BY <3>2, <3>4
  <2>3. snaps' \in Seq(Contents)
    BY <1>2, <2>1, <2>2
  <2> QED
    BY <1>1, <2>3, SeqRange, InvParts DEF GitType
<1>9. RunInv' /\ GenerationInv'
  BY <1>1, RunRests, GenerationRests DEF runVars, cancelVars, lifeVars
<1>10. LockInv'
  <2>1. build = "ready"
    BY <1>1 DEF Inv, LockInv
  <2> QED
    BY <1>1, <2>1 DEF Inv, LockInv, buildVars, cancelVars
<1>11. PromiseInv'
  <2> SUFFICES ASSUME promised' # None PROVE PromiseInv'
    BY DEF PromiseInv
  <2>1. /\ call = <<"restore">> /\ promised' = target /\ file' = target
        /\ strays' = {e \in Edits : edit[e] \notin {"new", "done"}}
    BY <1>2, <1>4
  <2> QED
    BY <1>1, <1>5, <2>1 DEF PromiseInv, RestoreHolds, runVars, cancelVars, editVars
<1>12. EditInv'
  BY <1>1, <1>2 DEF Inv, EditInv, editVars
<1> QED
  BY <1>1, <1>6, <1>7, <1>8, <1>9, <1>10, <1>11, <1>12, TypesRest, PartsInv DEF buildVars

-----------------------------------------------------------------------------
(************************** The edit_file tool *****************************)

LEMMA CallEditStep ==
    ASSUME Inv, NEW e \in Edits, CallEdit(e)
    PROVE  Inv'
<1> USE CallsDiffer
<1>1. /\ UNCHANGED <<buildVars, runVars, cancelVars, opVars, lifeVars, fileVars, gitVars, faults>>
      /\ Call /\ call' = <<"edit", e>>
      /\ edit' = [edit EXCEPT ![e] = "asked"] /\ base' = [base EXCEPT ![e] = file]
  BY DEF CallEdit, ReadText
<1>2. ClientType' /\ PromiseInv' /\ build = "ready"
  BY <1>1, CallMeans
<1>3. EditType'
  BY <1>1, InvParts DEF EditType, FileType
<1>4. RunInv' /\ GenerationInv' /\ LockInv'
  BY <1>1, <1>2, RunRests, GenerationRests, LockRests
  DEF buildVars, runVars, cancelVars, opVars, lifeVars, gitVars
<1>5. EditInv'
  BY <1>1, InvParts DEF Inv, EditInv, EditType, fileVars
<1> QED
  BY <1>1, <1>2, <1>3, <1>4, <1>5, InvParts, TypesRest, PartsInv DEF buildVars

\* An edit goes on or ends: it takes the lock only when that is free, and is past its second comparison only when
\* the file is what it was given.
LEMMA EditMoves ==
    ASSUME Inv, NEW e \in Edits,
           UNCHANGED <<buildVars, runVars, cancelVars, opVars, lifeVars, fileVars, gitVars>>,
           faults' \in 0..MaxFaults, ClientType', call' \in {call, None}, UNCHANGED <<promised, strays>>,
           edit[e] # "new", edit[e] # "done",
           NEW step \in {"checked", "rechecked", "done"}, edit' = [edit EXCEPT ![e] = step],
           base' \in {base, [base EXCEPT ![e] = None]}, step # "done" => UNCHANGED base,
           step = "checked" => MutationLockFree,
           step = "rechecked" => edit[e] = "checked" /\ file = base[e]
    PROVE  Inv'
<1> USE CallsDiffer
<1>1. EditType'
  BY InvParts DEF EditType
<1>2. edit'[e] = step /\ \A f \in Edits \ {e} : edit'[f] = edit[f] /\ base'[f] = base[f]
  BY InvParts DEF EditType
<1>3. RunInv' /\ GenerationInv' /\ LockInv'
  BY RunRests, GenerationRests, LockRests DEF buildVars, runVars, cancelVars, opVars, lifeVars, gitVars
<1>4. PromiseInv'
  BY <1>2 DEF Inv, PromiseInv, RestoreHolds, runVars, cancelVars, opVars, lifeVars, fileVars
<1>5. EditInv'
  BY <1>2 DEF Inv, EditInv, MutationLockFree, fileVars
<1> QED
  BY <1>1, <1>3, <1>4, <1>5, TypesRest, PartsInv DEF buildVars

LEMMA CompareStep ==
    ASSUME Inv, NEW e \in Edits, CheckEdit(e) \/ StageEdit(e)
    PROVE  Inv'
<1>1. UNCHANGED <<buildVars, runVars, cancelVars, opVars, lifeVars, fileVars, gitVars, faults>>
  BY DEF CheckEdit, StageEdit, CompareHash
<1>2. ClientType' /\ call' \in {call, None} /\ UNCHANGED <<promised, strays>>
  BY AnsweredMeans, TypesRest DEF CheckEdit, StageEdit, CompareHash, EditEnds, clientVars
<1>3. \/ edit' = [edit EXCEPT ![e] = "done"] /\ base' = [base EXCEPT ![e] = None] /\ edit[e] \in {"asked", "checked"}
      \/ edit' = [edit EXCEPT ![e] = "checked"] /\ UNCHANGED base /\ edit[e] = "asked" /\ MutationLockFree
      \/ edit' = [edit EXCEPT ![e] = "rechecked"] /\ UNCHANGED base /\ edit[e] = "checked" /\ file = base[e]
  BY DEF CheckEdit, StageEdit, CompareHash, EditEnds, Unchanged
<1> QED
  BY <1>1, <1>2, <1>3, EditMoves, InvParts

\* A restore that ended before noted this edit.
LEMMA InstallEditStep ==
    ASSUME Inv, NEW e \in Edits, InstallEdit(e)
    PROVE  Inv'
<1> USE CallsDiffer
<1>1. /\ UNCHANGED <<buildVars, runVars, cancelVars, opVars, lifeVars, gitVars>>
      /\ edit[e] = "rechecked" /\ edit' = [edit EXCEPT ![e] = "done"] /\ base' = [base EXCEPT ![e] = None]
  BY DEF InstallEdit, EditEnds
<1>2. ClientType' /\ call' \in {call, None} /\ UNCHANGED <<promised, strays>>
  BY AnsweredMeans DEF InstallEdit, EditEnds
<1>3. FileType' /\ faults' \in 0..MaxFaults
  <2>1. WriteAs("edit") \/ UNCHANGED fileVars
    BY DEF InstallEdit
  <2>2. faults' \in 0..MaxFaults
    BY InvParts, SandboxAssumption DEF InstallEdit, Fault
  <2> QED
    BY <2>1, <2>2, WriteMeans, TypesRest
<1>4. EditType'
  BY <1>1, InvParts DEF EditType
<1>5. edit'[e] = "done" /\ \A f \in Edits \ {e} : edit'[f] = edit[f] /\ base'[f] = base[f]
  BY <1>1, InvParts DEF EditType
<1>6. RunInv' /\ GenerationInv' /\ LockInv'
  BY <1>1, <1>2, RunRests, GenerationRests, LockRests DEF buildVars, runVars, cancelVars, opVars, lifeVars, gitVars
<1>7. PromiseInv'
  <2>1. promised # None => e \in strays
    BY <1>1 DEF Inv, PromiseInv
  <2> QED
    BY <1>1, <1>2, <1>5, <2>1 DEF Inv, PromiseInv, RestoreHolds, runVars, cancelVars, opVars, lifeVars
<1>8. EditInv'
  BY <1>1, <1>5 DEF Inv, EditInv
<1> QED
  BY <1>1, <1>2, <1>3, <1>4, <1>6, <1>7, <1>8, TypesRest, PartsInv DEF buildVars

-----------------------------------------------------------------------------
(******************************** Removal **********************************)

LEMMA CallDestroyStep ==
    ASSUME Inv, CallDestroy
    PROVE  Inv'
<1> USE CallsDiffer, NoneDiffers
<1>1. /\ UNCHANGED <<buildVars, runVars, generation, cancel, opVars, cleanup, destroyed, worktree, allocation,
                     fileVars, gitVars, editVars, faults>>
      /\ Call /\ call' = <<"destroy">> /\ destroy' = "cancel" /\ waiters' = waiters \cup {"destroy"}
  BY DEF CallDestroy
<1>2. ClientType' /\ PromiseInv' /\ build = "ready"
  BY <1>1, CallMeans
<1>3. CancelType' /\ LifeType'
  BY <1>1, InvParts DEF CancelType, LifeType, Waiters
<1>4. RunInv' /\ GenerationInv' /\ EditInv'
  BY <1>1, RunRests, GenerationRests, EditRests DEF runVars, opVars, fileVars, editVars
<1>5. LockInv'
  <2>1. call' # <<"restore">> /\ build' = "ready" /\ ("restore" \in waiters' <=> "restore" \in waiters)
    BY <1>1, <1>2 DEF buildVars
  <2>2. Range(snaps)' = Range(snaps) /\ UNCHANGED <<op, target, worktree>>
    BY <1>1 DEF gitVars, opVars
  <2> QED
    BY <2>1, <2>2 DEF Inv, LockInv
<1> QED
  BY <1>1, <1>2, <1>3, <1>4, <1>5, InvParts, TypesRest, PartsInv DEF buildVars

LEMMA RemovalStep ==
    ASSUME Inv, RemovalSteps
    PROVE  Inv'
<1> USE CallsDiffer, NoneDiffers
<1>1. UNCHANGED <<buildVars, runVars, cancelVars, opVars, fileVars, durable, editVars>>
  BY DEF RemovalSteps, RemoveWorktree, RemoveSource, gitVars
<1>2. ClientType' /\ call' \in {call, None} /\ UNCHANGED <<promised, strays>>
  BY AnsweredMeans, TypesRest DEF RemovalSteps, RemoveWorktree, RemoveSource, clientVars
<1>3. faults' \in 0..MaxFaults
  BY InvParts, SandboxAssumption DEF RemovalSteps, RemoveWorktree, RemoveSource, Fault
<1>4. /\ destroy' \in {None, "source"} /\ (destroyed' => destroyed \/ destroy = "worktree")
      /\ (worktree' => worktree) /\ (worktree' => UNCHANGED snaps) /\ (snaps' = snaps \/ snaps' = <<>>)
  <2>1. CASE RemoveWorktree
    <3>1. destroy = "worktree" /\ destroy' = "source"
      BY <2>1 DEF RemoveWorktree
    <3>2. \/ worktree' = FALSE /\ snaps' = <<>>
          \/ worktree' = worktree /\ snaps' = snaps
      BY <2>1 DEF RemoveWorktree, DestroyFails
    <3>3. (worktree' => worktree) /\ (worktree' => UNCHANGED snaps) /\ (snaps' = snaps \/ snaps' = <<>>)
      <4>1. CASE worktree' = FALSE /\ snaps' = <<>>
        <5>1. ~worktree'
          BY <4>1, Zenon
        <5> QED
          BY <4>1, <5>1
      <4>2. CASE worktree' = worktree /\ snaps' = snaps
        BY <4>2
      <4> QED
        BY <3>2, <4>1, <4>2
    <3> QED
      BY <3>1, <3>3
  <2>2. CASE RemoveSource
    BY <2>2 DEF RemoveSource, gitVars
  <2> QED
    BY <2>1, <2>2 DEF RemovalSteps
<1>5. LifeType'
  <2>1. {cleanup, destroyed, worktree, allocation} \subseteq BOOLEAN
    BY InvParts DEF LifeType
  <2>2. /\ cleanup' \in {cleanup, TRUE, FALSE} /\ destroyed' \in {destroyed, TRUE}
        /\ worktree' \in {worktree, FALSE} /\ allocation' \in {allocation, FALSE}
    BY DEF RemovalSteps, RemoveWorktree, RemoveSource, DestroyFails
  <2>3. {cleanup', destroyed', worktree', allocation'} \subseteq BOOLEAN
    BY <2>1, <2>2, Zenon
  <2> QED
    BY <1>4, <2>3 DEF LifeType
<1>6. GitType'
  <2>1. snaps \in Seq(Contents) /\ <<>> \in Seq(Contents)
    BY InvParts DEF GitType
  <2>2. snaps' \in Seq(Contents)
    BY <1>4, <2>1
  <2> QED
    BY <1>1, <2>2, SeqRange, InvParts DEF GitType
<1>7. RunInv' /\ GenerationInv' /\ PromiseInv' /\ EditInv'
  BY <1>1, <1>2, <1>4, RunRests, GenerationRests, PromiseRests, EditRests
  DEF runVars, cancelVars, opVars, fileVars, editVars
<1>8. LockInv'
  BY <1>1, <1>2, <1>4, LockRests DEF buildVars, cancelVars, opVars
<1> QED
  BY <1>1, <1>2, <1>3, <1>5, <1>6, <1>7, <1>8, TypesRest, PartsInv DEF buildVars

-----------------------------------------------------------------------------

LEMMA SandboxStep == Inv /\ [Next]_vars => Inv'
<1> SUFFICES ASSUME Inv, [Next]_vars PROVE Inv'
  OBVIOUS
<1>1. CASE Creation \/ RemovalSteps
  BY <1>1, CreationStep, RemovalStep
<1>2. CASE Worker
  BY <1>2, ExecuteStep, CallEditStep, CallRestoreStep, CallCancelStep, BeginStep, CallDestroyStep, GiveUpStep
  DEF Worker, CallWriteFile, CallCreateSnapshot
<1>3. CASE WorkspaceSteps
  BY <1>3, WriteFileAtomicStep, CreateSnapshotStep, ArchiveSnapshotStep, RestoreRevisionStep DEF WorkspaceSteps
<1>4. ASSUME NEW c \in Commands, CommandSteps(c) \/ ContainerWrites(c) \/ Interrupt(c) PROVE Inv'
  BY <1>4, LaunchStep, DisconnectStep, RunnerEndsStep, ClaimContainerCleanupStep, RemoveContainerStep,
     ContainerWritesStep, InterruptStep DEF CommandSteps
<1>5. ASSUME NEW w \in Waiters, CancelSteps(w) PROVE Inv'
  BY <1>5, BeginCancelStep, SweepContainersStep DEF CancelSteps
<1>6. ASSUME NEW e \in Edits, EditSteps(e) PROVE Inv'
  BY <1>6, CompareStep, InstallEditStep DEF EditSteps
<1>7. CASE UNCHANGED vars
  <2>1. RunInv' /\ GenerationInv' /\ LockInv' /\ PromiseInv' /\ EditInv'
    BY <1>7, RunRests, GenerationRests, LockRests, PromiseRests, EditRests
    DEF vars, buildVars, runVars, cancelVars, opVars, lifeVars, fileVars, gitVars, editVars, clientVars
  <2> QED
    BY <1>7, <2>1, InvParts, TypesRest, PartsInv DEF vars, buildVars
<1> QED
  BY <1>1, <1>2, <1>3, <1>4, <1>5, <1>6, <1>7 DEF Next

LEMMA SandboxInvariant == Spec => []Inv
<1> QED
  BY SandboxInit, SandboxStep, PTL DEF Spec

\* However commands, cancellations, restores and the removal overlap, and whatever removals fail: a container that
\* may run is known, none runs beside the reset of a restore, and none after the removal (execute,
\* _cancel_active, restore_snapshot, _destroy).
THEOREM ContainersAreKnown == Spec => []ContainersAreAccountedFor
<1>1. Inv => ContainersAreAccountedFor
  BY DEF Inv, RunInv, Quiet, ContainersAreAccountedFor, RestoreIsAlone, DestroyedHasNoContainer
<1> QED
  BY <1>1, SandboxInvariant, PTL

\* After the answer of a restore the workspace holds the revision until the worker's next call, although commands
\* that were given up before may still wait for the slot (restore_snapshot, the generation check of execute).
THEOREM RestoredContentStays == Spec => []RestoreHolds
<1>1. Inv => RestoreHolds
  BY DEF Inv, PromiseInv, RestoreHolds
<1> QED
  BY <1>1, SandboxInvariant, PTL

\* An edit never replaces what another edit or write put there after its caller had read the file
\* (edit_text_transaction, _mutation_lock).
THEOREM EditsAreKept == Spec => [][EditsKeepEdits]_vars
<1>1. Inv /\ [Next]_vars => [EditsKeepEdits]_vars
  BY DEF Inv, EditInv, EditsKeepEdits
<1> QED
  BY <1>1, SandboxInvariant, PTL DEF Spec

-----------------------------------------------------------------------------
(* The baseline of the worktree. *)

Checkout(t, u) == [tracked |-> t, untracked |-> u]
Checkouts == [tracked : Versions, untracked : Versions]

\* What holds of the readings t (tracked files), u (untracked files) and a (tracked files again).  Each was there
\* once; as long as the tracked files have not been changed back, they are still t only if they were t when u was
\* read; and after the second reading, u is still there only if it was there at that reading, or was changed back.
TrackedRead(t) == build \in {"untracked", "add", "again", "compare"} => \E w \in was : w.tracked = t
UntrackedRead(t, u) ==
    build \in {"add", "again", "compare"} =>
      /\ \E w \in was : w.untracked = u
      /\ "tracked" \notin undone /\ source.tracked = t => Checkout(t, u) \in was
ReadAgain(t, u, a) ==
    build = "compare" /\ a = t =>
      /\ "tracked" \notin undone => Checkout(t, u) \in was
      /\ "untracked" \notin undone /\ source.untracked = u => Checkout(t, u) \in was

CaptureInv ==
    /\ source \in Checkouts
    /\ build \notin {"ready", "failed"} => source \in was
    /\ captured \in [tracked : Versions \cup {None}, untracked : Versions \cup {None}, again : Versions \cup {None}]
    /\ undone \subseteq {"tracked", "untracked"}
    /\ TrackedRead(captured.tracked) /\ UntrackedRead(captured.tracked, captured.untracked)
    /\ ReadAgain(captured.tracked, captured.untracked, captured.again)

\* A change of one half of the checkout leaves the other, and is noted when the content is an earlier one.
LEMMA EditSourceMeans ==
  ASSUME CaptureInv, NEW part \in {"tracked", "untracked"}, EditSource(part)
  PROVE  /\ UNCHANGED <<build, captured>> /\ build \notin {"ready", "failed"}
         /\ source' \in Checkouts /\ source' \in was' /\ was \subseteq was'
         /\ undone \subseteq undone' /\ undone' \subseteq {"tracked", "untracked"}
         /\ \A w \in was : w.tracked = source'.tracked => source.tracked = source'.tracked \/ "tracked" \in undone'
         /\ \A w \in was : w.untracked = source'.untracked =>
                source.untracked = source'.untracked \/ "untracked" \in undone'
<1>1. PICK v \in Versions : /\ source' = [source EXCEPT ![part] = v] /\ was' = was \cup {source'}
                            /\ undone' = IF \E w \in was : w[part] = v THEN undone \cup {part} ELSE undone
  BY DEF EditSource
<1>2. source \in Checkouts /\ undone \subseteq {"tracked", "untracked"}
  BY DEF CaptureInv
<1>3. CASE part = "tracked"
  <2>1. source' \in Checkouts /\ source'.tracked = v /\ source'.untracked = source.untracked
    BY <1>1, <1>2, <1>3 DEF Checkouts
  <2> QED
    BY <1>1, <1>2, <1>3, <2>1 DEF EditSource
<1>4. CASE part = "untracked"
  <2>1. source' \in Checkouts /\ source'.untracked = v /\ source'.tracked = source.tracked
    BY <1>1, <1>2, <1>4 DEF Checkouts
  <2> QED
    BY <1>1, <1>2, <1>4, <2>1 DEF EditSource
<1> QED
  BY <1>3, <1>4

LEMMA EditSourceCaptures ==
  ASSUME CaptureInv, NEW part \in {"tracked", "untracked"}, EditSource(part)
  PROVE  CaptureInv'
<1> DEFINE t == captured.tracked
           u == captured.untracked
           a == captured.again
<1>1. /\ UNCHANGED <<build, captured>> /\ build \notin {"ready", "failed"}
      /\ source' \in Checkouts /\ source' \in was' /\ was \subseteq was'
      /\ undone \subseteq undone' /\ undone' \subseteq {"tracked", "untracked"}
      /\ \A w \in was : w.tracked = source'.tracked => source.tracked = source'.tracked \/ "tracked" \in undone'
      /\ \A w \in was : w.untracked = source'.untracked =>
             source.untracked = source'.untracked \/ "untracked" \in undone'
  BY EditSourceMeans
<1>2. TrackedRead(t) /\ UntrackedRead(t, u) /\ ReadAgain(t, u, a)
  BY DEF CaptureInv
<1>3. t' = t /\ u' = u /\ a' = a
  BY <1>1
<1> HIDE DEF t, u, a
<1>4. TrackedRead(t)'
  BY <1>1, <1>2, <1>3 DEF TrackedRead
<1>5. UntrackedRead(t, u)'
  BY <1>1, <1>2, <1>3 DEF TrackedRead, UntrackedRead
<1>6. ReadAgain(t, u, a)'
  BY <1>1, <1>2, <1>3 DEF UntrackedRead, ReadAgain
<1> QED
  BY <1>1, <1>4, <1>5, <1>6 DEF CaptureInv, t, u, a

LEMMA ReadingCaptures ==
  ASSUME CaptureInv, TrackedFingerprint \/ CaptureUntracked \/ FingerprintAgain
  PROVE  CaptureInv'
<1>1. UNCHANGED <<source, was, undone>>
  BY DEF TrackedFingerprint, CaptureUntracked, FingerprintAgain, Reading
<1>2. /\ source \in Checkouts /\ undone \subseteq {"tracked", "untracked"}
      /\ captured \in [tracked : Versions \cup {None}, untracked : Versions \cup {None}, again : Versions \cup {None}]
  BY DEF CaptureInv
<1>3. source = Checkout(source.tracked, source.untracked) /\ source.tracked \in Versions /\ source.untracked \in Versions
  BY <1>2 DEF Checkout, Checkouts
<1>4. CASE TrackedFingerprint
  <2>1. build = "fingerprint" /\ build' = "untracked" /\ captured' = [captured EXCEPT !.tracked = source.tracked]
    BY <1>4 DEF TrackedFingerprint, Reading
  <2>2. /\ captured' \in [tracked : Versions \cup {None}, untracked : Versions \cup {None}, again : Versions \cup {None}]
        /\ captured'.tracked = source.tracked
    BY <1>2, <1>3, <2>1
  <2>3. source \in was
    BY <2>1 DEF CaptureInv
  <2> QED
    BY <1>1, <1>2, <2>1, <2>2, <2>3 DEF CaptureInv, TrackedRead, UntrackedRead, ReadAgain
<1>5. CASE CaptureUntracked
  <2>1. build = "untracked" /\ build' = "add" /\ captured' = [captured EXCEPT !.untracked = source.untracked]
    BY <1>5 DEF CaptureUntracked, UntrackedFiles, Reading
  <2>2. /\ captured' \in [tracked : Versions \cup {None}, untracked : Versions \cup {None}, again : Versions \cup {None}]
        /\ captured'.tracked = captured.tracked /\ captured'.untracked = source.untracked
    BY <1>2, <1>3, <2>1
  <2>3. source \in was /\ \E w \in was : w.tracked = captured.tracked
    BY <2>1 DEF CaptureInv, TrackedRead
  <2> QED
    BY <1>1, <1>2, <1>3, <2>1, <2>2, <2>3 DEF CaptureInv, TrackedRead, UntrackedRead, ReadAgain
<1>6. CASE FingerprintAgain
  <2>1. build = "again" /\ build' = "compare" /\ captured' = [captured EXCEPT !.again = source.tracked]
    BY <1>6 DEF FingerprintAgain, Reading
  <2>2. /\ captured' \in [tracked : Versions \cup {None}, untracked : Versions \cup {None}, again : Versions \cup {None}]
        /\ captured'.tracked = captured.tracked /\ captured'.untracked = captured.untracked
        /\ captured'.again = source.tracked
    BY <1>2, <1>3, <2>1
  <2>3. /\ source \in was /\ \E w \in was : w.tracked = captured.tracked
        /\ \E w \in was : w.untracked = captured.untracked
        /\ "tracked" \notin undone /\ source.tracked = captured.tracked =>
             Checkout(captured.tracked, captured.untracked) \in was
    BY <2>1 DEF CaptureInv, TrackedRead, UntrackedRead
  <2> QED
    BY <1>1, <1>2, <1>3, <2>1, <2>2, <2>3 DEF CaptureInv, TrackedRead, UntrackedRead, ReadAgain
<1> QED
  BY <1>4, <1>5, <1>6

LEMMA CreationCaptures ==
  ASSUME CaptureInv, Creation
  PROVE  CaptureInv'
<1>1. CASE Materialize \/ AddWorktree \/ RequireConsistentSource \/ ReplaceWorktree \/ CreateFails
  <2>1. UNCHANGED <<source, captured, was, undone>>
    BY <1>1 DEF Materialize, AddWorktree, RequireConsistentSource, ReplaceWorktree, CreateFails
  <2>2. /\ build' \in {"fingerprint", "again", "replace", "verify", "failed"}
        /\ build' = "again" => build = "add"
        /\ build' # "failed" => build \notin {"ready", "failed"}
    BY <1>1 DEF Materialize, AddWorktree, RequireConsistentSource, ReplaceWorktree, CreateFails
  <2> QED
    BY <2>1, <2>2 DEF CaptureInv, TrackedRead, UntrackedRead, ReadAgain
<1>2. CASE VerifyRuntime
  <2>1. /\ build' = "ready" /\ source' = Nothing /\ undone' = {}
        /\ captured' = [tracked |-> None, untracked |-> None, again |-> None]
    BY <1>2 DEF VerifyRuntime
  <2>2. Nothing \in Checkouts
    BY SandboxAssumption DEF Nothing, Checkouts
  <2> QED
    BY <2>1, <2>2 DEF CaptureInv, TrackedRead, UntrackedRead, ReadAgain
<1> QED
  BY <1>1, <1>2, EditSourceCaptures, ReadingCaptures DEF Creation

LEMMA CaptureInit ==
  ASSUME Init
  PROVE  CaptureInv
<1>1. /\ build = "materialize" /\ source = Nothing /\ was = {Nothing} /\ undone = {}
      /\ captured = [tracked |-> None, untracked |-> None, again |-> None]
  BY DEF Init
<1>2. Nothing \in Checkouts
  BY SandboxAssumption DEF Nothing, Checkouts
<1> QED
  BY <1>1, <1>2 DEF CaptureInv, TrackedRead, UntrackedRead, ReadAgain

\* No step but those of the creation touches what was captured.
LEMMA OthersCapture ==
  ASSUME [Next]_vars, ~Creation
  PROVE  UNCHANGED buildVars
<1>1. CASE Worker
  BY <1>1 DEF Worker, Execute, CallEdit, CallRestore, CallCancel, CallWriteFile, CallCreateSnapshot, CallDestroy, GiveUp,
     Begin
<1>2. CASE WorkspaceSteps \/ RemovalSteps
  BY <1>2 DEF WorkspaceSteps, RemovalSteps, WriteFileAtomic, CreateSnapshot, ArchiveSnapshot, RestoreRevision,
     RemoveWorktree, RemoveSource
<1>3. ASSUME NEW c \in Commands, CommandSteps(c) \/ ContainerWrites(c) \/ Interrupt(c) PROVE UNCHANGED buildVars
  BY <1>3 DEF CommandSteps, Interrupt, ContainerWrites, Launch, Disconnect, RunnerEnds, ClaimContainerCleanup, RemoveContainer
<1>4. ASSUME NEW w \in Waiters, CancelSteps(w) PROVE UNCHANGED buildVars
  BY <1>4 DEF CancelSteps, BeginCancel, SweepContainers
<1>5. ASSUME NEW e \in Edits, EditSteps(e) PROVE UNCHANGED buildVars
  <2>1. CASE CheckEdit(e) \/ StageEdit(e)
    BY <2>1 DEF CheckEdit, StageEdit, CompareHash
  <2>2. CASE InstallEdit(e)
    BY <2>2 DEF InstallEdit
  <2> QED
    BY <1>5, <2>1, <2>2 DEF EditSteps
<1>6. CASE UNCHANGED vars
  BY <1>6 DEF vars
<1> QED
  BY <1>1, <1>2, <1>3, <1>4, <1>5, <1>6 DEF Next

LEMMA CaptureStep == CaptureInv /\ [Next]_vars => CaptureInv'
<1> SUFFICES ASSUME CaptureInv, [Next]_vars PROVE CaptureInv'
  OBVIOUS
<1>1. CASE UNCHANGED buildVars
  <2>1. UNCHANGED <<build, source, captured, was, undone>>
    BY <1>1 DEF buildVars
  <2> QED
    BY <2>1 DEF CaptureInv, TrackedRead, UntrackedRead, ReadAgain
<1> QED
  BY <1>1, CreationCaptures, OthersCapture

\* Equal readings are of one checkout, unless both halves were changed back.
LEMMA BaselineIsReal ==
  ASSUME CaptureInv
  PROVE  BaselineWasReal
<1> SUFFICES ASSUME RequireConsistentSource, undone # {"tracked", "untracked"}
             PROVE  Checkout(captured.tracked, captured.untracked) \in was
  BY DEF BaselineWasReal, Checkout
<1>1. build = "compare" /\ captured.again = captured.tracked /\ source.untracked = captured.untracked
  BY DEF RequireConsistentSource, SameSource, UntrackedFiles
<1>2. "tracked" \notin undone \/ "untracked" \notin undone
  BY DEF CaptureInv
<1> QED
  BY <1>1, <1>2 DEF CaptureInv, ReadAgain

\* However often the user changes the checkout: an edit never replaces what another edit or write put there after its
\* caller had read the file (edit_text_transaction, _mutation_lock), and the baseline of a worktree is a state that
\* the checkout had at one instant, unless both its tracked and its untracked files were changed and changed back
\* while they were captured (GitWorktreeManager.create, _require_consistent_source).
THEOREM NoContentIsTornOrLost == Spec => NoTornOrLostContent
<1>1. Inv /\ CaptureInv /\ [Next]_vars => [BaselineWasReal /\ EditsKeepEdits]_vars
  BY BaselineIsReal DEF Inv, EditInv, EditsKeepEdits
<1>2. Init => CaptureInv
  BY CaptureInit
<1> QED
  BY <1>1, <1>2, CaptureStep, SandboxInvariant, PTL DEF Spec, NoTornOrLostContent
=============================================================================
