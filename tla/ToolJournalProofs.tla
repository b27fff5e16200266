------------------------- MODULE ToolJournalProofs --------------------------
(***************************************************************************)
(* What is proved of one run's tool turns and their journal (module        *)
(* ToolJournal), for any number of calls, turns, crashes and rewinds, in   *)
(* every approval mode and with repeated identifiers: a change is made     *)
(* once and after its approval, a failed tool leaves no trace, an outcome  *)
(* is final, tool results answer calls, and a completed change is restored *)
(* as long as the run has no selected checkpoint.                          *)
(***************************************************************************)
EXTENDS ToolJournal, FiniteSetTheorems, SequenceTheorems, WellFoundedInduction, TLAPS

-----------------------------------------------------------------------------
(************************** The inductive invariant ************************)

Changes == [call : Calls, epoch : 1..MaxEpoch]
Messages == [role : {"assistant", "user", "tool"}, calls : Seq(Calls), status : {"none"} \cup Finished]
Rows == [state : States, turn : 0..MaxTurns, at : Nat]
Checkpoints == [call : Calls, epoch : 1..MaxEpoch, pre : Seq(Changes), done : BOOLEAN, post : Seq(Changes),
                conversation : Seq(Messages), saved : Seq(Messages)]
Kinds == {"received", "started", "completed", "approval", "request", "checkpoint", "run_failed"}
Events == [kind : Kinds, call : Calls \cup {0}, state : States, at : Nat]

\* Where the calls of a turn are being run, and where the transcript ends with the turn's assistant message.
Running == {"tool", "complete", "rollback"}
Calling == {"call"} \cup Running
InTurn  == {"receive", "turn", "journal"} \cup Calling
Steps   == {"none", "resume", "model", "stream", "emit", "finish"} \cup InTurn

Attempts ==
    [pc : Steps, tree : Seq(Changes), outcomes : [Calls -> States],
     decision : [Calls -> {"none", "pending", "approved", "rejected"}], turn : 0..MaxTurns, count : Nat,
     retries : 0..(MaxSemanticRetries + 1), todo : Seq(Calls), unsaved : Seq(Messages), emitted : Seq(Events),
     last : Nat, final : States]

RunType == run \in [status : {"queued", "running", "waiting_approval"} \cup Finished,
                    epoch : 1..MaxEpoch, last : Nat, error : Errors]

TableTypes ==
    /\ row \in [Calls -> Rows]
    /\ approval \in [Calls -> {"absent", "pending", "approved", "rejected"}]
    /\ checkpoint \in Seq(Checkpoints)
    /\ messages \in Seq(Messages)
    /\ crashes \in 0..MaxCrashes

\* Instants are positions among the checkpoints, and the events say what their kind can say.
EventSound(e) ==
    /\ e.at <= Len(checkpoint)
    /\ e.kind # "run_failed" => e.call \in Calls
    /\ e.kind = "received" => e.state = Open("received")
    /\ e.kind = "started" => e.state = Open("running")
    /\ e.kind = "completed" => e.state.status \in Finished
    /\ e.kind \in {"approval", "request"} => e.state = Open("waiting_approval")
    /\ e.kind = "run_failed" => e.state.status = "failed"

Instants ==
    /\ run.last <= Len(checkpoint)
    /\ att.last <= Len(checkpoint)
    /\ \A c \in Calls : row[c].at <= Len(checkpoint)
    /\ \A e \in Elements(att.emitted) : EventSound(e)

TypeInv == RunType /\ TableTypes /\ att \in Attempts /\ Instants

\* How far an attempt is, and what its fields are there.
Control ==
    /\ att.pc = "none" <=> run.status # "running"
    /\ att.pc = "none" => att = NoAttempt
    /\ IF att.pc = "finish" THEN att.final.status \in {"waiting_approval"} \cup Finished
                            ELSE att.final.status \in {"none", "waiting_approval"}
    /\ att.retries > MaxSemanticRetries => att.pc \in {"none", "journal", "emit", "finish"}
    /\ att.retries > MaxSemanticRetries /\ att.pc \in {"journal", "emit"}
         => \E e \in Elements(att.emitted) : e.kind = "run_failed"
    /\ att.pc \in {"resume", "receive"} => \A c \in Elements(att.todo) : row[c].state.status # "absent"
    /\ att.pc = "receive" => \A e \in Elements(att.emitted) :
                                e.kind = "received" /\ row[e.call].state.status # "absent"
    /\ att.pc \notin Calling \cup {"journal"} => att.unsaved = <<>>

\* A request that is about to be stored is the first one for its call, a call with a request has been
\* received, and what the attempt takes for a decision is one.
Decisions ==
    /\ att.pc # "emit" => \A e \in Elements(att.emitted) : e.kind # "request"
    /\ att.pc = "emit" /\ att.emitted # <<>> =>
         /\ \A e \in Elements(Tail(att.emitted)) : e.kind # "request"
         /\ Head(att.emitted).kind = "request" =>
              /\ approval[Head(att.emitted).call] = "absent"
              /\ row[Head(att.emitted).call].state.status \notin {"absent", "received"}
    /\ \A c \in Calls : approval[c] # "absent" => row[c].state.status \notin {"absent", "received"}
    /\ \A c \in Calls : att.decision[c] # "none" =>
                            att.decision[c] \in {"approved", "rejected"} /\ approval[c] = att.decision[c]
    /\ att.pc \in Calling => \A c \in Elements(att.todo) :
                                Known(c) \/ ~RequiresApproval(c) \/ att.decision[c] # "none"

\* A workspace: each of its changes is there once, was preceded by the one checkpoint of its call, and was
\* approved if it had to be.
NoDuplicates(tree) == \A i, j \in 1..Len(tree) : tree[i] = tree[j] => i = j

ChangeSound(x) ==
    /\ Effect[x.call] = "mutation"
    /\ x.epoch <= run.epoch
    /\ \E k \in 1..Len(checkpoint) : checkpoint[k].call = x.call /\ checkpoint[k].epoch = x.epoch
    /\ x.epoch = run.epoch /\ RequiresApproval(x.call) => approval[x.call] = "approved"

TreeSound(tree) == NoDuplicates(tree) /\ \A x \in Elements(tree) : ChangeSound(x)

Trees ==
    /\ TreeSound(att.tree)
    /\ \A k \in 1..Len(checkpoint) : /\ TreeSound(checkpoint[k].pre) /\ TreeSound(checkpoint[k].post)
                                     /\ checkpoint[k].epoch <= run.epoch

\* No stored workspace has the change of this call.
Unstored(c) ==
    \A k \in 1..Len(checkpoint) : /\ Change(c) \notin Elements(checkpoint[k].pre)
                                  /\ Change(c) \notin Elements(checkpoint[k].post)

\* While a tool runs, the newest checkpoint is the one made for it, and its change is new.
ToolRuns ==
    att.pc \in Running =>
        LET c == Head(att.todo)
            k == Len(checkpoint)
        IN /\ att.todo # <<>> /\ checkpoint # <<>>
           /\ checkpoint[k].call = c /\ checkpoint[k].epoch = run.epoch
           /\ Effect[c] = "mutation"
           /\ RequiresApproval(c) => approval[c] = "approved"
           /\ Unstored(c)
           /\ att.tree = IF att.pc = "tool" THEN checkpoint[k].pre ELSE Append(checkpoint[k].pre, Change(c))

\* What the journal, the loop and the executor have as the state of a call.
Reports(c) ==
    {row[c].state, att.outcomes[c]}
        \cup {e.state : e \in {d \in Elements(att.emitted) : d.kind = "completed" /\ d.call = c}}

\* A mutation that its tool failed has had its checkpoint, and no workspace has its change.
Failures ==
    \A c \in Calls : Effect[c] = "mutation" /\ Failed("tool_failed") \in Reports(c) =>
        /\ CheckpointExists(c)
        /\ Unstored(c)
        /\ Change(c) \notin Elements(att.tree)
        /\ att.pc \in Running => c # Head(att.todo)

\* The transcript: every stored version of it, and the turn that is open.
Answered(msgs) ==
    \A i \in 1..Len(msgs) : msgs[i].role = "tool" =>
        \E j \in 1..(i - 1) : /\ msgs[j].role = "assistant"
                              /\ msgs[i].calls[1] \in Elements(msgs[j].calls)
                              /\ \A m \in (j + 1)..(i - 1) : msgs[m].role = "tool"

OpenTurn ==
    att.pc \in InTurn =>
        LET last == messages[Len(messages)]
        IN /\ messages # <<>> /\ last.role = "assistant"
           /\ Elements(att.todo) \subseteq Elements(last.calls)
           /\ \A m \in Elements(att.unsaved) : m.role = "tool" /\ m.calls[1] \in Elements(last.calls)

Transcript ==
    /\ Answered(messages)
    /\ \A k \in 1..Len(checkpoint) : Answered(checkpoint[k].saved)
    /\ OpenTurn

\* A run without a selected checkpoint is in its first epoch, and the workspace it would be restarted with has
\* every change that is reported as completed.
Base == IF checkpoint = <<>> THEN <<>>
        ELSE IF checkpoint[Len(checkpoint)].done THEN checkpoint[Len(checkpoint)].post
        ELSE checkpoint[Len(checkpoint)].pre

Restored ==
    run.last = 0 =>
        /\ run.epoch = 1
        /\ \A c \in Calls :
             Effect[c] = "mutation" /\ (\E s \in Reports(c) : s.status = "completed") =>
                /\ Change(c) \in Elements(Base)
                /\ att.pc # "none" => Change(c) \in Elements(att.tree)
                /\ att.pc \in Running => c # Head(att.todo)

Inv ==
    /\ TypeInv /\ Control /\ Decisions /\ Trees /\ ToolRuns
    /\ Failures /\ Transcript /\ Restored

-----------------------------------------------------------------------------
(******************************* The operators *****************************)

\* A finite set of numbers can be put in order: set inclusion is well founded, and
\* the largest member of a smallest counterexample can be taken away.
LEMMA LargestExists ==
    ASSUME NEW S \in SUBSET Nat, IsFiniteSet(S), S # {}
    PROVE  \E m \in S : \A n \in S : n <= m
<1>1. IsWellFoundedOn(StrictSubsetOrdering(Nat), FiniteSubsetsOf(Nat))
  BY FS_StrictSubsetOrderingWellFounded
<1> DEFINE Above(m) == {n \in S : n > m}
           Rests == {Above(m) : m \in S}
<1>2. Rests \subseteq FiniteSubsetsOf(Nat) /\ Rests # {}
  <2>1. \A m \in S : IsFiniteSet(Above(m))
    BY FS_Subset
  <2> QED
    BY <2>1 DEF FiniteSubsetsOf
<1> HIDE DEF Rests
<1>3. PICK x \in Rests : \A y \in Rests : ~ (<<y, x>> \in StrictSubsetOrdering(Nat))
  BY <1>1, <1>2, WFMin
<1>4. PICK m \in S : x = Above(m)
  BY DEF Rests
<1>5. ASSUME NEW n \in S, n > m PROVE FALSE
  <2>1. Above(n) \in Rests
    BY DEF Rests
  <2>2. Above(n) \subseteq Above(m) /\ n \in Above(m) /\ n \notin Above(n)
    <3>1. m \in Nat /\ n \in Nat /\ n > m /\ ~(n > n)
      BY <1>5
    <3>2. \A k \in S : k > n => k > m
      BY <3>1
    <3> QED
      BY <3>1, <3>2
  <2>3. Above(n) \in SUBSET Nat /\ Above(m) \in SUBSET Nat /\ Above(n) # Above(m)
    BY <2>2
  <2>4. <<Above(n), x>> \in StrictSubsetOrdering(Nat)
    BY <1>4, <2>2, <2>3 DEF StrictSubsetOrdering
  <2> QED
    BY <1>3, <2>1, <2>4
<1> QED
  BY <1>5

Ordered(S, s) == \A i, j \in 1..Cardinality(S) : i < j => s[i] < s[j]
Orderable(S) == \E s \in [1..Cardinality(S) -> S] : Ordered(S, s)

\* One more number, larger than the others.
LEMMA OneMore ==
    ASSUME NEW S \in SUBSET Nat, IsFiniteSet(S), NEW m \in S, \A n \in S : n <= m, Orderable(S \ {m})
    PROVE  Orderable(S)
<1>1. Cardinality(S) \in Nat /\ Cardinality(S \ {m}) = Cardinality(S) - 1
  BY FS_CardinalityType, FS_RemoveElement
<1>2. Cardinality(S \ {m}) \in Nat
  BY FS_CardinalityType, FS_RemoveElement
<1> DEFINE k == Cardinality(S \ {m})
<1>3. k \in Nat /\ Cardinality(S) = k + 1
  BY <1>1, <1>2
<1>4. PICK s \in [1..k -> S \ {m}] : \A i, j \in 1..k : i < j => s[i] < s[j]
  BY DEF Orderable, Ordered
<1> HIDE DEF k
<1> DEFINE t == [i \in 1..(k + 1) |-> IF i = k + 1 THEN m ELSE s[i]]
<1>5. t \in [1..(k + 1) -> S]
  BY <1>3, <1>4
<1>6. ASSUME NEW i \in 1..(k + 1), NEW j \in 1..(k + 1), i < j PROVE t[i] < t[j]
  <2>1. i \in 1..k /\ t[i] = s[i] /\ s[i] \in S \ {m}
    BY <1>3, <1>4, <1>6
  <2>2. CASE j = k + 1
    <3>1. t[j] = m /\ s[i] \in Nat /\ m \in Nat /\ s[i] <= m /\ s[i] # m
      BY <1>3, <2>1, <2>2
    <3> QED
      BY <2>1, <3>1
  <2>3. CASE j # k + 1
    BY <1>3, <1>4, <1>6, <2>1, <2>3
  <2> QED
    BY <2>2, <2>3
<1> QED
  BY <1>3, <1>5, <1>6 DEF Orderable, Ordered

LEMMA OrderExists ==
    ASSUME NEW S \in SUBSET Nat, IsFiniteSet(S)
    PROVE  Orderable(S)
<1> DEFINE Bad == {T \in FiniteSubsetsOf(Nat) : ~Orderable(T)}
<1> SUFFICES ASSUME Bad # {} PROVE FALSE
  BY DEF FiniteSubsetsOf
<1>1. IsWellFoundedOn(StrictSubsetOrdering(Nat), FiniteSubsetsOf(Nat))
  BY FS_StrictSubsetOrderingWellFounded
<1>2. PICK T \in Bad : \A y \in Bad : ~ (<<y, T>> \in StrictSubsetOrdering(Nat))
  <2>1. Bad \subseteq FiniteSubsetsOf(Nat)
    OBVIOUS
  <2> HIDE DEF Bad
  <2> QED
    BY <1>1, <2>1, WFMin
<1>3. T \in SUBSET Nat /\ IsFiniteSet(T) /\ ~Orderable(T)
  BY DEF FiniteSubsetsOf
<1>4. T # {}
  <2> SUFFICES ASSUME T = {} PROVE Orderable(T)
    BY <1>3
  <2>1. 1..Cardinality(T) = {}
    BY FS_EmptySet
  <2>2. [i \in {} |-> 0] \in [{} -> T]
    OBVIOUS
  <2> QED
    BY <2>1, <2>2 DEF Orderable, Ordered
<1>5. PICK m \in T : \A n \in T : n <= m
  BY <1>3, <1>4, LargestExists
<1>6. IsFiniteSet(T \ {m})
  BY <1>3, FS_RemoveElement
<1>7. <<T \ {m}, T>> \in StrictSubsetOrdering(Nat)
  BY <1>3, <1>5 DEF StrictSubsetOrdering
<1>8. Orderable(T \ {m})
  BY <1>2, <1>3, <1>6, <1>7 DEF FiniteSubsetsOf
<1> QED
  BY <1>3, <1>5, <1>8, OneMore

\* What InOrder returns: a sequence of members of the set.
LEMMA InOrderIsASeq ==
    ASSUME NEW n \in Nat, NEW S \in SUBSET (1..n)
    PROVE  InOrder(S) \in Seq(S)
<1>1. S \in SUBSET Nat /\ IsFiniteSet(S)
  <2>1. 1 \in Int /\ n \in Int
    OBVIOUS
  <2>2. IsFiniteSet(1..n)
    BY <2>1, FS_Interval
  <2>3. IsFiniteSet(S)
    BY <2>2, FS_Subset
  <2>4. 1..n \subseteq Nat
    OBVIOUS
  <2> QED
    BY <2>3, <2>4
<1>2. Cardinality(S) \in Nat
  BY <1>1, FS_CardinalityType
<1>3. \E s \in [1..Cardinality(S) -> S] : \A i, j \in DOMAIN s : i < j => s[i] < s[j]
  BY <1>1, OrderExists DEF Orderable, Ordered
<1>4. InOrder(S) \in [1..Cardinality(S) -> S]
  BY <1>3 DEF InOrder
<1> QED
  BY <1>2, <1>4, SeqDef

-----------------------------------------------------------------------------
\* The elements of sequences.
LEMMA ElementsIn ==
    ASSUME NEW T, NEW s \in Seq(T)
    PROVE  /\ Elements(s) \subseteq T
           /\ Elements(s) = {s[i] : i \in 1..Len(s)}
           /\ s # <<>> => Head(s) = s[1] /\ Head(s) \in Elements(s) /\ 1 \in 1..Len(s)
BY LenProperties, EmptySeq DEF Elements

LEMMA ElementsOfAppend ==
    ASSUME NEW T, NEW s \in Seq(T), NEW x \in T
    PROVE  Elements(Append(s, x)) = Elements(s) \cup {x}
<1>1. /\ Append(s, x) \in Seq(T) /\ Len(Append(s, x)) = Len(s) + 1 /\ Len(s) \in Nat
      /\ \A i \in 1..Len(s) : Append(s, x)[i] = s[i]
      /\ Append(s, x)[Len(s) + 1] = x
  BY AppendProperties, LenProperties
<1>2. \A i \in 1..(Len(s) + 1) : i \in 1..Len(s) \/ i = Len(s) + 1
  BY <1>1
<1>3. Elements(Append(s, x)) = {Append(s, x)[i] : i \in 1..(Len(s) + 1)} /\ Elements(s) = {s[i] : i \in 1..Len(s)}
  BY <1>1, ElementsIn
<1>4. Len(s) + 1 \in 1..(Len(s) + 1) /\ \A i \in 1..Len(s) : i \in 1..(Len(s) + 1)
  BY <1>1
<1>5. ASSUME NEW y PROVE y \in Elements(Append(s, x)) <=> y \in Elements(s) \cup {x}
  BY <1>1, <1>2, <1>3, <1>4
<1> QED
  BY <1>5

LEMMA ElementsOfConcat ==
    ASSUME NEW T, NEW s \in Seq(T), NEW t \in Seq(T)
    PROVE  s \o t \in Seq(T) /\ Elements(s \o t) = Elements(s) \cup Elements(t)
<1>1. /\ s \o t \in Seq(T) /\ Len(s \o t) = Len(s) + Len(t) /\ Len(s) \in Nat /\ Len(t) \in Nat
      /\ \A i \in 1..(Len(s) + Len(t)) : (s \o t)[i] = IF i <= Len(s) THEN s[i] ELSE t[i - Len(s)]
  BY ConcatProperties, LenProperties
<1>2. /\ Elements(s \o t) = {(s \o t)[i] : i \in 1..(Len(s) + Len(t))}
      /\ Elements(s) = {s[i] : i \in 1..Len(s)} /\ Elements(t) = {t[i] : i \in 1..Len(t)}
  BY <1>1, ElementsIn
<1>3. ASSUME NEW y \in Elements(s \o t) PROVE y \in Elements(s) \cup Elements(t)
  <2>1. PICK i \in 1..(Len(s) + Len(t)) : y = (s \o t)[i]
    BY <1>2, <1>3
  <2>2. CASE i <= Len(s)
    BY <1>1, <1>2, <2>1, <2>2
  <2>3. CASE i > Len(s)
    <3>1. i - Len(s) \in 1..Len(t) /\ y = t[i - Len(s)]
      BY <1>1, <2>1, <2>3
    <3> QED
      BY <1>2, <3>1
  <2> QED
    BY <1>1, <2>2, <2>3
<1>4. ASSUME NEW i \in 1..Len(s) PROVE s[i] \in Elements(s \o t)
  <2>1. i \in 1..(Len(s) + Len(t)) /\ (s \o t)[i] = s[i]
    BY <1>1
  <2> QED
    BY <1>2, <2>1
<1>5. ASSUME NEW i \in 1..Len(t) PROVE t[i] \in Elements(s \o t)
  <2>1. Len(s) + i \in 1..(Len(s) + Len(t)) /\ (s \o t)[Len(s) + i] = t[i]
    BY <1>1
  <2> QED
    BY <1>2, <2>1
<1> QED
  BY <1>1, <1>2, <1>3, <1>4, <1>5, ZenonT(60)

LEMMA ElementsOfTail ==
    ASSUME NEW T, NEW s \in Seq(T), s # <<>>
    PROVE  /\ Tail(s) \in Seq(T) /\ Elements(Tail(s)) \subseteq Elements(s)
           /\ Elements(s) = {Head(s)} \cup Elements(Tail(s))
<1>1. /\ Tail(s) \in Seq(T) /\ Len(Tail(s)) = Len(s) - 1 /\ Len(s) \in Nat \ {0}
      /\ \A i \in 1..Len(Tail(s)) : Tail(s)[i] = s[i + 1]
  BY HeadTailProperties, LenProperties, EmptySeq
<1>2. /\ Elements(Tail(s)) = {Tail(s)[i] : i \in 1..(Len(s) - 1)}
      /\ Elements(s) = {s[i] : i \in 1..Len(s)} /\ Head(s) = s[1] /\ Head(s) \in Elements(s)
  BY <1>1, ElementsIn
<1>3. ASSUME NEW i \in 1..(Len(s) - 1) PROVE i + 1 \in 1..Len(s) /\ Tail(s)[i] = s[i + 1]
  BY <1>1
<1>4. ASSUME NEW i \in 1..Len(s) PROVE s[i] = Head(s) \/ s[i] \in Elements(Tail(s))
  <2>1. CASE i = 1
    BY <1>2, <2>1
  <2>2. CASE i # 1
    <3>1. i - 1 \in 1..(Len(s) - 1) /\ (i - 1) + 1 = i
      BY <1>1, <2>2
    <3> QED
      BY <1>2, <1>3, <3>1
  <2> QED
    BY <2>1, <2>2
<1> QED
  BY <1>1, <1>2, <1>3, <1>4

LEMMA ElementsOfFew ==
    /\ Elements(<<>>) = {}
    /\ \A x : Elements(<<x>>) = {x}
    /\ \A x, y : Elements(<<x, y>>) = {x, y}
BY DEF Elements

-----------------------------------------------------------------------------
(******************************** The values *******************************)

\* Everything that is a state of a call, with its status.
LEMMA StateValues ==
    /\ \A s \in {"none", "absent", "received", "waiting_approval", "running"} :
          Open(s) \in States /\ Open(s).status = s /\ Open(s).error = "none"
    /\ \A e \in Errors : Failed(e) \in States /\ Failed(e).status = "failed" /\ Failed(e).error = e
    /\ \A t \in Seq(Changes) : Completed(t) \in States /\ Completed(t).status = "completed"
    /\ \A s \in {"none", "absent", "received", "waiting_approval", "running"} : s \notin Finished
<1>1. <<>> \in Seq(Changes) /\ States = [status : {"none", "absent", "received", "waiting_approval", "running",
                                                   "completed", "failed"}, result : Seq(Changes), error : Errors]
  BY EmptySeq DEF States, Changes, Finished
<1>2. ASSUME NEW s \in {"none", "absent", "received", "waiting_approval", "running"}
      PROVE  Open(s) \in States /\ Open(s).status = s /\ Open(s).error = "none" /\ s \notin Finished
  BY <1>1 DEF Open, State, Finished, Errors
<1>3. ASSUME NEW e \in Errors PROVE Failed(e) \in States /\ Failed(e).status = "failed" /\ Failed(e).error = e
  BY <1>1 DEF Failed, State
<1>4. ASSUME NEW t \in Seq(Changes) PROVE Completed(t) \in States /\ Completed(t).status = "completed"
  BY <1>1 DEF Completed, State, Errors
<1> QED
  BY <1>2, <1>3, <1>4

LEMMA StateFields ==
    ASSUME NEW s \in States
    PROVE  /\ s.status \in {"none", "absent", "received", "waiting_approval", "running"} \cup Finished
           /\ s.error \in Errors
BY DEF States

LEMMA AttemptFields ==
    ASSUME att \in Attempts
    PROVE  /\ att.pc \in Steps /\ att.tree \in Seq(Changes) /\ att.outcomes \in [Calls -> States]
           /\ att.decision \in [Calls -> {"none", "pending", "approved", "rejected"}]
           /\ att.turn \in 0..MaxTurns /\ att.count \in Nat /\ att.retries \in 0..(MaxSemanticRetries + 1)
           /\ att.todo \in Seq(Calls) /\ att.unsaved \in Seq(Messages) /\ att.emitted \in Seq(Events)
           /\ att.last \in Nat /\ att.final \in States
BY DEF Attempts

LEMMA NoAttemptIsOne ==
    /\ NoAttempt \in Attempts
    /\ NoAttempt.pc = "none" /\ NoAttempt.tree = <<>> /\ NoAttempt.todo = <<>> /\ NoAttempt.unsaved = <<>>
    /\ NoAttempt.emitted = <<>> /\ NoAttempt.last = 0 /\ NoAttempt.retries = 0 /\ NoAttempt.final = Open("none")
    /\ \A c \in Calls : NoAttempt.outcomes[c] = Open("none") /\ NoAttempt.decision[c] = "none"
<1>1. <<>> \in Seq(Changes) /\ <<>> \in Seq(Calls) /\ <<>> \in Seq(Messages) /\ <<>> \in Seq(Events)
  BY EmptySeq
<1>2. 0 \in 0..MaxTurns /\ 0 \in 0..(MaxSemanticRetries + 1) /\ 0 \in Nat
  BY BoundsAssumption
<1>3. Open("none") \in States
  BY StateValues
<1>4. [c \in Calls |-> Open("none")] \in [Calls -> States]
  BY <1>3
<1>5. [c \in Calls |-> "none"] \in [Calls -> {"none", "pending", "approved", "rejected"}]
  OBVIOUS
<1> HIDE DEF Open
<1>6. NoAttempt \in Attempts
  BY <1>1, <1>2, <1>3, <1>4, <1>5 DEF NoAttempt, Attempts, Steps
<1> QED
  BY <1>6 DEF NoAttempt

\* The invariant looks at a workspace's changes one by one.
LEMMA TreeFacts ==
    ASSUME NEW tree \in Seq(Changes), TreeSound(tree), NEW x \in Elements(tree)
    PROVE  x \in Changes /\ ChangeSound(x)
BY ElementsIn DEF TreeSound

LEMMA EmptyTree == TreeSound(<<>>)
<1>1. Len(<<>>) = 0 /\ Elements(<<>>) = {}
  BY ElementsOfFew
<1>2. 1..0 = {}
  OBVIOUS
<1> QED
  BY <1>1, <1>2 DEF TreeSound, NoDuplicates

\* A change of the run's epoch.
LEMMA ChangeFields ==
    ASSUME RunType, NEW c \in Calls
    PROVE  Change(c) \in Changes /\ Change(c).call = c /\ Change(c).epoch = run.epoch
BY DEF Change, Changes, RunType

\* The initial state.
LEMMA JournalInit == Init => Inv
<1> SUFFICES ASSUME Init PROVE Inv
  OBVIOUS
<1>0. /\ run = [status |-> "queued", epoch |-> 1, last |-> 0, error |-> "none"] /\ checkpoint = <<>> /\ messages = <<>>
      /\ row = [c \in Calls |-> [state |-> Open("absent"), turn |-> 0, at |-> 0]]
      /\ approval = [c \in Calls |-> "absent"] /\ crashes = 0 /\ att = NoAttempt
  BY DEF Init
<1>1. RunType
  <2>1. 1 \in 1..MaxEpoch /\ 0 \in Nat
    BY BoundsAssumption
  <2> QED
    BY <1>0, <2>1 DEF RunType, Errors
<1>2. TableTypes
  <2>1. <<>> \in Seq(Checkpoints) /\ <<>> \in Seq(Messages)
    BY EmptySeq
  <2>2. [state |-> Open("absent"), turn |-> 0, at |-> 0] \in Rows
    <3>1. Open("absent") \in States
      BY StateValues
    <3>2. 0 \in 0..MaxTurns /\ 0 \in Nat
      BY BoundsAssumption
    <3> QED
      BY <3>1, <3>2 DEF Rows
  <2>3. 0 \in 0..MaxCrashes
    BY BoundsAssumption
  <2> QED
    BY <1>0, <2>1, <2>2, <2>3 DEF TableTypes
<1>3. att \in Attempts
  BY <1>0, NoAttemptIsOne
<1>4. Len(checkpoint) = 0 /\ Len(messages) = 0 /\ 1..0 = {}
  BY <1>0, EmptySeq
<1>5. Instants
  BY <1>0, <1>4, NoAttemptIsOne, ElementsOfFew DEF Instants
<1>6. Control
  BY <1>0, NoAttemptIsOne, StateValues, BoundsAssumption, ElementsOfFew DEF Control, Steps, Calling, Running
<1>7. \A c \in Calls : row[c].state = Open("absent") /\ approval[c] = "absent"
  BY <1>0
<1>8. Decisions
  BY <1>0, <1>7, NoAttemptIsOne, ElementsOfFew DEF Decisions, Calling, Running
<1>9. Trees /\ ToolRuns
  BY <1>0, <1>4, NoAttemptIsOne, EmptyTree DEF Trees, ToolRuns, Running
<1>10. Transcript
  BY <1>0, <1>4, NoAttemptIsOne DEF Transcript, Answered, OpenTurn, InTurn, Calling, Running
<1>11. \A c \in Calls : \A s \in Reports(c) : s = Open("absent") \/ s = Open("none")
  BY <1>0, <1>7, NoAttemptIsOne, ElementsOfFew DEF Reports
<1>12. Failures /\ Restored
  <2>1. Failed("tool_failed") # Open("absent") /\ Failed("tool_failed") # Open("none")
    BY DEF Failed, Open, State
  <2>2. Open("absent").status # "completed" /\ Open("none").status # "completed"
    BY StateValues
  <2> QED
    BY <1>0, <1>11, <2>1, <2>2 DEF Failures, Restored
<1> QED
  BY <1>1, <1>2, <1>3, <1>5, <1>6, <1>8, <1>9, <1>10, <1>12 DEF Inv, TypeInv

-----------------------------------------------------------------------------
(**************************** What steps leave alone ***********************)

LEMMA InvTypes ==
    ASSUME Inv
    PROVE  /\ RunType /\ TableTypes /\ att \in Attempts /\ Instants /\ TypeInv
           /\ run.status \in {"queued", "running", "waiting_approval"} \cup Finished
           /\ run.epoch \in 1..MaxEpoch /\ run.last \in Nat /\ run.error \in Errors
           /\ Len(checkpoint) \in Nat /\ Len(messages) \in Nat
           /\ \A k \in 1..Len(checkpoint) : checkpoint[k] \in Checkpoints
           /\ \A c \in Calls : row[c] \in Rows
           /\ Elements(att.emitted) \subseteq Events /\ Elements(att.todo) \subseteq Calls
<1>1. RunType /\ TableTypes /\ att \in Attempts /\ Instants /\ TypeInv
  BY DEF Inv, TypeInv
<1>2. checkpoint \in Seq(Checkpoints) /\ messages \in Seq(Messages)
  BY <1>1 DEF TableTypes
<1>3. Len(checkpoint) \in Nat /\ Len(messages) \in Nat /\ \A k \in 1..Len(checkpoint) : checkpoint[k] \in Checkpoints
  BY <1>2, LenProperties, ElementOfSeq
<1>4. Elements(att.emitted) \subseteq Events /\ Elements(att.todo) \subseteq Calls
  BY <1>1, AttemptFields, ElementsIn
<1>5. \A c \in Calls : row[c] \in Rows
  BY <1>1 DEF TableTypes
<1> QED
  BY <1>1, <1>3, <1>4, <1>5 DEF RunType

LEMMA RowFields ==
    ASSUME NEW c \in Calls, row[c] \in Rows
    PROVE  row[c].state \in States /\ row[c].turn \in 0..MaxTurns /\ row[c].at \in Nat
BY DEF Rows

LEMMA CheckpointFields ==
    ASSUME NEW p \in Checkpoints
    PROVE  /\ p.call \in Calls /\ p.epoch \in 1..MaxEpoch /\ p.pre \in Seq(Changes) /\ p.post \in Seq(Changes)
           /\ p.done \in BOOLEAN /\ p.saved \in Seq(Messages)
BY DEF Checkpoints

\* The workspaces stay sound as long as approvals are not taken back.
LEMMA TreesRest ==
    ASSUME Inv, att'.tree = att.tree, UNCHANGED checkpoint, run'.epoch = run.epoch,
           \A c \in Calls : approval[c] = "approved" => approval'[c] = "approved"
    PROVE  Trees'
<1>1. Trees /\ att \in Attempts /\ \A k \in 1..Len(checkpoint) : checkpoint[k] \in Checkpoints
  BY InvTypes DEF Inv
<1>2. ASSUME NEW tree \in Seq(Changes), TreeSound(tree) PROVE TreeSound(tree)'
  <2>1. ASSUME NEW x \in Elements(tree) PROVE ChangeSound(x)'
    <3>1. x \in Changes /\ ChangeSound(x)
      BY <1>2, <2>1, TreeFacts
    <3>2. x.call \in Calls
      BY <3>1 DEF Changes
    <3> QED
      BY <3>1, <3>2 DEF ChangeSound, RequiresApproval
  <2> QED
    BY <1>2, <2>1 DEF TreeSound, NoDuplicates
<1>3. att.tree \in Seq(Changes)
  BY <1>1, AttemptFields
<1>4. TreeSound(att.tree)'
  BY <1>1, <1>2, <1>3 DEF Trees
<1>5. \A k \in 1..Len(checkpoint) : TreeSound(checkpoint[k].pre)' /\ TreeSound(checkpoint[k].post)'
  BY <1>1, <1>2, CheckpointFields DEF Trees
<1> QED
  BY <1>1, <1>4, <1>5 DEF Trees

\* A report that says nothing of an ended mutation.
Plain(c, s) == Effect[c] # "mutation" \/ (s.status # "completed" /\ s # Failed("tool_failed"))

\* What is known of ended calls stays true as long as nothing new is reported.
LEMMA ReportsRest ==
    ASSUME Inv, att.pc # "none", att'.pc \notin Running, att'.tree = att.tree, UNCHANGED <<checkpoint, run>>,
           \A c \in Calls : \A s \in Reports(c)' : s \in Reports(c) \/ Plain(c, s)
    PROVE  Failures' /\ Restored'
<1>1. Failures /\ Restored
  BY DEF Inv
<1>2. Failures'
  BY <1>1 DEF Failures, Plain, CheckpointExists, Unstored, Change
<1>3. Restored'
  BY <1>1 DEF Restored, Plain, Base, Change
<1> QED
  BY <1>2, <1>3

\* A step of an attempt that changes neither the workspace nor the checkpoints.
LEMMA AttemptGoesOn ==
    ASSUME Inv, UNCHANGED <<checkpoint, run>>, TableTypes', att' \in Attempts, Instants',
           att.pc # "none", att'.pc \notin Running \cup {"none"}, att'.tree = att.tree,
           \A c \in Calls : approval[c] = "approved" => approval'[c] = "approved",
           Control', Decisions', Answered(messages'), OpenTurn',
           \A c \in Calls : \A s \in Reports(c)' : s \in Reports(c) \/ Plain(c, s)
    PROVE  Inv'
<1>1. RunType'
  BY DEF Inv, TypeInv, RunType
<1>2. Trees'
  BY TreesRest
<1>3. Failures' /\ Restored'
  BY ReportsRest
<1>4. ToolRuns'
  BY DEF ToolRuns
<1>5. Transcript'
  <2>1. \A k \in 1..Len(checkpoint) : Answered(checkpoint[k].saved)'
    BY DEF Inv, Transcript, Answered
  <2>2. Answered(messages)'
    BY DEF Answered
  <2> QED
    BY <2>1, <2>2 DEF Transcript
<1> QED
  BY <1>1, <1>2, <1>3, <1>4, <1>5 DEF Inv, TypeInv

\* An attempt that ends, one way or another: what was in memory is gone.
LEMMA AttemptEnds ==
    ASSUME Inv, UNCHANGED journal, att' = NoAttempt, RunType', run'.status # "running", run'.epoch = run.epoch,
           run'.last <= Len(checkpoint), run'.last = 0 => run.last = 0, crashes' \in 0..MaxCrashes
    PROVE  Inv'
<1> USE NoAttemptIsOne DEF journal
<1>1. TableTypes' /\ att' \in Attempts
  BY DEF Inv, TypeInv, TableTypes
<1>2. Instants'
  BY ElementsOfFew, InvTypes DEF Instants
<1>3. Control'
  BY StateValues, BoundsAssumption DEF Control, Calling, Running
<1>4. Decisions'
  BY ElementsOfFew DEF Inv, Decisions, Calling, Running
<1>5. Trees'
  <2>1. Trees /\ \A k \in 1..Len(checkpoint) : checkpoint[k] \in Checkpoints
    BY InvTypes DEF Inv
  <2>2. \A tree : TreeSound(tree)' <=> TreeSound(tree)
    BY DEF TreeSound, NoDuplicates, ChangeSound, RequiresApproval
  <2> QED
    BY <2>1, <2>2, EmptyTree DEF Trees
<1>6. ToolRuns'
  BY DEF ToolRuns, Running
<1>7. ASSUME NEW c \in Calls, NEW s \in Reports(c)' PROVE s \in Reports(c) \/ s = Open("none")
  BY <1>7, ElementsOfFew DEF Reports
<1>8. Failures' /\ Restored'
  <2>1. Failures /\ Restored
    BY DEF Inv
  <2>2. Failed("tool_failed") # Open("none") /\ Open("none").status # "completed"
    BY DEF Failed, Open, State
  <2>3. Failures'
    BY <1>7, <2>1, <2>2, ElementsOfFew DEF Failures, CheckpointExists, Unstored, Change, Running
  <2>4. Restored'
    BY <1>7, <2>1, <2>2 DEF Restored, Base, Change, Running
  <2> QED
    BY <2>3, <2>4
<1>9. Transcript'
  BY DEF Inv, Transcript, Answered, OpenTurn, InTurn, Calling, Running
<1> QED
  BY <1>1, <1>2, <1>3, <1>4, <1>5, <1>6, <1>8, <1>9 DEF Inv, TypeInv

-----------------------------------------------------------------------------
(**************************** Attempts that end ****************************)

LEMMA AbortStep ==
    ASSUME Inv, NEW error \in Errors, Abort(error), UNCHANGED <<journal, crashes>>
    PROVE  Inv'
<1>1. RunType' /\ run'.status # "running" /\ run'.epoch = run.epoch /\ run'.last = run.last /\ att' = NoAttempt
  BY InvTypes DEF Abort, RunType, Finished
<1>2. crashes' \in 0..MaxCrashes /\ run.last <= Len(checkpoint)
  BY InvTypes DEF TableTypes, Instants
<1> QED
  BY <1>1, <1>2, AttemptEnds

LEMMA RecoveryFailsStep ==
    ASSUME Inv, RecoveryFails
    PROVE  Inv'
<1>1. RecoveryError(SelectedCheckpoint) \in Errors
  BY DEF RecoveryError, Errors
<1> QED
  BY <1>1, AbortStep DEF RecoveryFails

LEMMA FinishStep ==
    ASSUME Inv, Finish
    PROVE  Inv'
<1>1. att.final.status \in {"waiting_approval"} \cup Finished /\ att.final.error \in Errors
  BY InvTypes, AttemptFields, StateFields DEF Inv, Control, Finish
<1>2. att.last \in Nat /\ run.last <= Len(checkpoint) /\ att.last <= Len(checkpoint) /\ crashes \in 0..MaxCrashes
  BY InvTypes, AttemptFields DEF Instants, TableTypes
<1>3. RunType' /\ run'.status = att.final.status /\ run'.epoch = run.epoch /\ att' = NoAttempt
      /\ run'.last = (IF att.last # 0 THEN att.last ELSE run.last)
  BY <1>1, <1>2, InvTypes DEF Finish, RunType
<1>4. run'.status # "running"
  BY <1>1, <1>3 DEF Finished
<1> QED
  BY <1>2, <1>3, <1>4, AttemptEnds DEF Finish

LEMMA CrashStep ==
    ASSUME Inv, Crash
    PROVE  Inv'
<1>1. RunType' /\ run'.status = "queued" /\ run'.epoch = run.epoch /\ run'.last = run.last /\ att' = NoAttempt
  BY InvTypes DEF Crash, RunType, Requeued
<1>2. crashes' \in 0..MaxCrashes /\ run.last <= Len(checkpoint)
  BY InvTypes, BoundsAssumption DEF Crash, TableTypes, Instants
<1> QED
  BY <1>1, <1>2, AttemptEnds DEF Crash

-----------------------------------------------------------------------------
(************************ Steps of the loop in memory **********************)

\* The loop goes on in memory and reports nothing new.
LEMMA MemoryStep ==
    ASSUME Inv, UNCHANGED <<run, journal, crashes>>, att' \in Attempts,
           att.pc # "none", att'.pc \notin Running \cup {"none"}, att'.tree = att.tree, att'.last = att.last,
           att'.outcomes = att.outcomes, att'.decision = att.decision, att'.emitted = att.emitted,
           att'.unsaved = att.unsaved,
           att'.pc # "emit" => \A e \in Elements(att.emitted) : e.kind # "request",
           att'.pc = "emit" => att.pc = "emit",
           att'.pc \in Calling => \A c \in Elements(att'.todo) :
                                     Known(c) \/ ~RequiresApproval(c) \/ att.decision[c] # "none",
           Control', OpenTurn'
    PROVE  Inv'
<1> USE DEF journal
<1>1. TableTypes' /\ Instants'
  BY InvTypes DEF TableTypes, Instants, EventSound
<1>2. Decisions'
  BY DEF Inv, Decisions, Known
<1>3. Answered(messages')
  BY DEF Inv, Transcript
<1>4. \A c \in Calls : Reports(c)' = Reports(c)
  BY DEF Reports
<1> QED
  BY <1>1, <1>2, <1>3, <1>4, AttemptGoesOn

LEMMA StartModelStep ==
    ASSUME Inv, StartModel
    PROVE  Inv'
<1>1. att \in Attempts /\ att.turn + 1 \in 0..MaxTurns /\ <<>> \in Seq(Calls)
  <2>1. att \in Attempts /\ att.turn \in 0..MaxTurns /\ att.turn < MaxTurns /\ <<>> \in Seq(Calls)
    BY InvTypes, AttemptFields, EmptySeq DEF StartModel
  <2> QED
    BY <2>1, BoundsAssumption
<1>2. att' \in Attempts
  BY <1>1 DEF StartModel, Attempts, Steps
<1>3. att'.pc = "stream" /\ att.pc = "model"
  BY <1>1 DEF StartModel, Attempts
<1>4. /\ att'.tree = att.tree /\ att'.last = att.last /\ att'.outcomes = att.outcomes /\ att'.decision = att.decision
      /\ att'.emitted = att.emitted /\ att'.unsaved = att.unsaved /\ att'.final = att.final /\ att'.retries = att.retries
  BY <1>1 DEF StartModel, Attempts
<1>5. Control' /\ OpenTurn'
  BY <1>3, <1>4 DEF Inv, Control, OpenTurn, StartModel, InTurn, Calling, Running
<1>6. \A e \in Elements(att.emitted) : e.kind # "request"
  BY <1>3 DEF Inv, Decisions
<1> QED
  BY <1>2, <1>3, <1>4, <1>5, <1>6, MemoryStep DEF StartModel, Calling, Running

\* The attempt has a result.
LEMMA EndsStep ==
    ASSUME Inv, NEW state \in States, state.status \in Finished, Ends(state), UNCHANGED <<run, journal, crashes>>,
           att.pc \in {"model", "stream"}
    PROVE  Inv'
<1>1. att \in Attempts
  BY InvTypes
<1>2. att' \in Attempts
  BY <1>1 DEF Ends, Attempts, Steps
<1>3. att'.pc = "finish" /\ att'.final = state
  BY <1>1 DEF Ends, Attempts
<1>4. /\ att'.tree = att.tree /\ att'.last = att.last /\ att'.outcomes = att.outcomes /\ att'.decision = att.decision
      /\ att'.emitted = att.emitted /\ att'.unsaved = att.unsaved /\ att'.retries = att.retries
  BY <1>1 DEF Ends, Attempts
<1>5. Control' /\ OpenTurn'
  BY <1>3, <1>4 DEF Inv, Control, OpenTurn, InTurn, Calling, Running
<1>6. \A e \in Elements(att.emitted) : e.kind # "request"
  BY <1>3 DEF Inv, Decisions
<1> QED
  BY <1>2, <1>3, <1>4, <1>5, <1>6, MemoryStep DEF Calling, Running

LEMMA LimitSteps ==
    ASSUME Inv, TurnLimit \/ ModelFails
    PROVE  Inv'
<1>1. /\ Failed("turn_limit") \in States /\ Failed("turn_limit").status \in Finished
      /\ Failed("model_failure") \in States /\ Failed("model_failure").status \in Finished
  BY StateValues DEF Errors, Finished
<1> QED
  BY <1>1, EndsStep DEF TurnLimit, ModelFails

LEMMA BeginCallsStep ==
    ASSUME Inv, BeginCalls
    PROVE  Inv'
<1>1. att \in Attempts
  BY InvTypes
<1>2. att' \in Attempts
  BY <1>1 DEF BeginCalls, Attempts, Steps, InTurn, Calling
<1>3. att'.pc = "call" /\ att.pc = "turn"
  BY <1>1 DEF BeginCalls, Attempts
<1>4. /\ att'.tree = att.tree /\ att'.last = att.last /\ att'.outcomes = att.outcomes /\ att'.decision = att.decision
      /\ att'.emitted = att.emitted /\ att'.unsaved = att.unsaved /\ att'.final = att.final /\ att'.retries = att.retries
      /\ att'.todo = att.todo
  BY <1>1 DEF BeginCalls, Attempts
<1>5. Control' /\ OpenTurn'
  <2>1. UNCHANGED <<run, row, messages>>
    BY DEF BeginCalls, journal
  <2> QED
    BY <1>3, <1>4, <2>1 DEF Inv, Control, Transcript, OpenTurn, InTurn, Calling, Running
<1>6. \A e \in Elements(att.emitted) : e.kind # "request"
  BY <1>3 DEF Inv, Decisions
<1>7. \A c \in Elements(att.todo) : Known(c) \/ ~RequiresApproval(c) \/ att.decision[c] # "none"
  BY DEF BeginCalls, Awaiting
<1> QED
  BY <1>2, <1>3, <1>4, <1>5, <1>6, <1>7, MemoryStep DEF BeginCalls, Running

LEMMA EndCallsStep ==
    ASSUME Inv, EndCalls
    PROVE  Inv'
<1>1. att \in Attempts
  BY InvTypes
<1>2. att' \in Attempts
  BY <1>1 DEF EndCalls, Attempts, Steps, InTurn
<1>3. att'.pc = "journal" /\ att.pc = "call"
  BY <1>1 DEF EndCalls, Attempts
<1>4. /\ att'.tree = att.tree /\ att'.last = att.last /\ att'.outcomes = att.outcomes /\ att'.decision = att.decision
      /\ att'.emitted = att.emitted /\ att'.unsaved = att.unsaved /\ att'.final = att.final /\ att'.retries = att.retries
      /\ att'.todo = att.todo
  BY <1>1 DEF EndCalls, Attempts
<1>5. Control' /\ OpenTurn'
  <2>1. UNCHANGED <<run, row, messages>>
    BY DEF EndCalls, journal
  <2> QED
    BY <1>3, <1>4, <2>1 DEF Inv, Control, Transcript, OpenTurn, InTurn, Calling, Running
<1>6. \A e \in Elements(att.emitted) : e.kind # "request"
  BY <1>3 DEF Inv, Decisions
<1> QED
  BY <1>2, <1>3, <1>4, <1>5, <1>6, MemoryStep DEF EndCalls, Calling, Running

LEMMA EndTurnStep ==
    ASSUME Inv, EndTurn
    PROVE  Inv'
<1>1. att \in Attempts
  BY InvTypes
<1>2. att' \in Attempts
  BY <1>1 DEF EndTurn, Attempts, Steps
<1>3. /\ att.pc = "emit" /\ att.emitted = <<>> /\ att'.pc = (IF att.final.status = "none" THEN "model" ELSE "finish")
      /\ att'.pc \in {"model", "finish"}
  BY <1>1 DEF EndTurn, Attempts
<1>4. /\ att'.tree = att.tree /\ att'.last = att.last /\ att'.outcomes = att.outcomes /\ att'.decision = att.decision
      /\ att'.emitted = att.emitted /\ att'.unsaved = att.unsaved /\ att'.final = att.final /\ att'.retries = att.retries
  BY <1>1 DEF EndTurn, Attempts
<1>5. Control' /\ OpenTurn'
  <2>1. UNCHANGED <<run, row, messages>>
    BY DEF EndTurn, journal
  <2> QED
    BY <1>3, <1>4, <2>1, ElementsOfFew DEF Inv, Control, OpenTurn, InTurn, Calling, Running
<1>6. \A e \in Elements(att.emitted) : e.kind # "request"
  BY <1>3, ElementsOfFew
<1> QED
  BY <1>2, <1>3, <1>4, <1>5, <1>6, MemoryStep DEF EndTurn, Calling, Running

-----------------------------------------------------------------------------
(********************************* Tool calls ******************************)

LEMMA EventValue ==
    ASSUME Inv, NEW kind \in Kinds, NEW c \in Calls \cup {0}, NEW state \in States
    PROVE  /\ Event(kind, c, state) \in Events
           /\ Event(kind, c, state).kind = kind /\ Event(kind, c, state).call = c
           /\ Event(kind, c, state).state = state /\ Event(kind, c, state).at = Len(checkpoint)
BY InvTypes DEF Event, Events

LEMMA RunFailedValue ==
    ASSUME Inv, NEW error \in Errors
    PROVE  /\ RunFailed(error) \in Events /\ RunFailed(error).kind = "run_failed"
           /\ RunFailed(error).state = Failed(error) /\ RunFailed(error).at = Len(checkpoint)
<1>1. "run_failed" \in Kinds /\ 0 \in Calls \cup {0} /\ Failed(error) \in States /\ Len(checkpoint) \in Nat
  BY StateValues, InvTypes DEF Kinds
<1> QED
  BY <1>1 DEF RunFailed, Event, Events

LEMMA MessageValue ==
    ASSUME NEW c \in Calls, NEW state \in States, state.status \in Finished
    PROVE  /\ ToolMessage(c, state) \in Messages
           /\ ToolMessage(c, state).role = "tool" /\ ToolMessage(c, state).calls[1] = c
<1>1. <<c>> \in Seq(Calls) /\ <<c>>[1] = c
  OBVIOUS
<1> QED
  BY <1>1 DEF ToolMessage, Messages

\* The next call of a turn.
LEMMA NextCallIs ==
    ASSUME Inv, att.todo # <<>>
    PROVE  /\ Head(att.todo) \in Calls /\ Head(att.todo) \in Elements(att.todo)
           /\ Tail(att.todo) \in Seq(Calls) /\ Elements(Tail(att.todo)) \subseteq Elements(att.todo)
<1>1. att.todo \in Seq(Calls)
  BY InvTypes, AttemptFields
<1> QED
  BY <1>1, ElementsIn, ElementsOfTail, HeadTailProperties

\* A call that is done, with the workspace it left.
LEMMA ConcludedFacts ==
    ASSUME Inv, att.pc \in Calling, att.todo # <<>>, NEW c, c = Head(att.todo),
           NEW state \in States, state.status \in Finished,
           NEW events, events = <<>> \/ events = <<Started(c)>>, NEW t \in Seq(Changes),
           att' = [Concluded(c, state, events) EXCEPT !.tree = t],
           UNCHANGED <<run, row, approval, messages>>, Len(checkpoint') = Len(checkpoint)
    PROVE  /\ att' \in Attempts /\ att'.pc = "call" /\ att'.tree = t
           /\ Instants' /\ Control' /\ Decisions' /\ OpenTurn'
           /\ \A d \in Calls : \A s \in Reports(d)' : s \in Reports(d) \/ (d = c /\ s = state)
<1> DEFINE done == Event("completed", c, state)
           msg == ToolMessage(c, state)
<1>1. c \in Calls /\ c \in Elements(att.todo) /\ Tail(att.todo) \in Seq(Calls) /\ Elements(Tail(att.todo)) \subseteq Elements(att.todo)
  BY NextCallIs
<1>2. att \in Attempts
  BY InvTypes
<1>3. done \in Events /\ done.kind = "completed" /\ done.call = c /\ done.state = state /\ done.at = Len(checkpoint)
  BY <1>1, EventValue DEF Kinds
<1>4. Started(c) \in Events /\ Started(c).kind = "started" /\ Started(c).call = c /\ Started(c).state = Open("running")
      /\ Started(c).at = Len(checkpoint)
  BY <1>1, EventValue, StateValues DEF Kinds, Started
<1>5. msg \in Messages /\ msg.role = "tool" /\ msg.calls[1] = c
  BY <1>1, MessageValue
<1> HIDE DEF done, msg
<1>6. events \in Seq(Events) /\ Elements(events) \subseteq {Started(c)} /\ <<done>> \in Seq(Events)
  <2>1. <<>> \in Seq(Events) /\ <<Started(c)>> \in Seq(Events) /\ <<done>> \in Seq(Events)
    BY <1>3, <1>4
  <2> QED
    BY <2>1, ElementsOfFew
<1> DEFINE emitted == (att.emitted \o events) \o <<done>>
           unsaved == Append(att.unsaved, msg)
           outcomes == [att.outcomes EXCEPT ![c] = state]
<1>7. emitted \in Seq(Events) /\ Elements(emitted) \subseteq Elements(att.emitted) \cup {Started(c), done}
  <2>1. att.emitted \in Seq(Events)
    BY <1>2, AttemptFields
  <2> DEFINE most == att.emitted \o events
  <2>2. most \in Seq(Events) /\ Elements(most) = Elements(att.emitted) \cup Elements(events)
    BY <1>6, <2>1, ElementsOfConcat
  <2> DEFINE one == <<done>>
  <2> HIDE DEF most, one
  <2>3. most \o one \in Seq(Events) /\ Elements(most \o one) = Elements(most) \cup Elements(one)
    <3>1. one \in Seq(Events)
      BY <1>6 DEF one
    <3> QED
      BY <2>2, <3>1, ElementsOfConcat
  <2> USE DEF most, one
  <2> QED
    BY <1>6, <2>2, <2>3, ElementsOfFew
<1>8. unsaved \in Seq(Messages) /\ Elements(unsaved) = Elements(att.unsaved) \cup {msg}
  BY <1>2, <1>5, AttemptFields, ElementsOfAppend, AppendProperties
<1>9. outcomes \in [Calls -> States] /\ outcomes[c] = state /\ \A d \in Calls : d # c => outcomes[d] = att.outcomes[d]
  BY <1>1, <1>2, AttemptFields
<1>10. att' = [att EXCEPT !.pc = "call", !.todo = Tail(att.todo), !.outcomes = outcomes, !.unsaved = unsaved,
                          !.emitted = emitted, !.tree = t]
  BY <1>2 DEF Concluded, Attempts, done, msg
<1> HIDE DEF emitted, unsaved, outcomes
<1>11. att' \in Attempts
  BY <1>1, <1>2, <1>7, <1>8, <1>9, <1>10, ZenonT(60) DEF Attempts, Steps, InTurn, Calling
<1>12. /\ att'.pc = "call" /\ att'.tree = t /\ att'.todo = Tail(att.todo) /\ att'.outcomes = outcomes
       /\ att'.unsaved = unsaved /\ att'.emitted = emitted /\ att'.decision = att.decision /\ att'.last = att.last
       /\ att'.final = att.final /\ att'.retries = att.retries
  BY <1>2, <1>10, ZenonT(60) DEF Attempts
<1>13. Instants'
  <2>1. Instants /\ Len(checkpoint) \in Nat
    BY InvTypes
  <2>2. ASSUME NEW e \in Elements(att'.emitted) PROVE EventSound(e)'
    <3>1. CASE e \in Elements(att.emitted)
      BY <2>1, <3>1 DEF Instants, EventSound
    <3>2. CASE e = done
      BY <1>1, <1>3, <2>1, <3>2 DEF EventSound
    <3>3. CASE e = Started(c)
      BY <1>1, <1>4, <2>1, <3>3 DEF EventSound
    <3> QED
      BY <1>7, <1>12, <2>2, <3>1, <3>2, <3>3
  <2> QED
    BY <1>12, <2>1, <2>2 DEF Instants
<1>14. Control'
  BY <1>12 DEF Inv, Control, Calling, Running
<1>15. \A e \in Elements(att'.emitted) : e.kind # "request"
  BY <1>3, <1>4, <1>7, <1>12 DEF Inv, Decisions, Calling, Running
<1>16. Decisions'
  <2>1. \A d \in Calls : Known(d) => Known(d)'
    BY <1>9, <1>12 DEF Known
  <2>2. \A d \in Elements(Tail(att.todo)) : d \in Calls
    BY <1>1, InvTypes
  <2>3. /\ \A d \in Calls : approval[d] # "absent" => row[d].state.status \notin {"absent", "received"}
        /\ \A d \in Calls : att.decision[d] # "none" =>
                                att.decision[d] \in {"approved", "rejected"} /\ approval[d] = att.decision[d]
        /\ \A d \in Elements(att.todo) : Known(d) \/ ~RequiresApproval(d) \/ att.decision[d] # "none"
    BY DEF Inv, Decisions
  <2>4. \A d \in Elements(att'.todo) : Known(d)' \/ ~RequiresApproval(d) \/ att'.decision[d] # "none"
    BY <1>1, <1>12, <2>1, <2>2, <2>3
  <2> QED
    BY <1>12, <1>15, <2>3, <2>4 DEF Decisions
<1>17. OpenTurn'
  BY <1>1, <1>5, <1>8, <1>12 DEF Inv, Transcript, OpenTurn, InTurn
<1>18. ASSUME NEW d \in Calls, NEW s \in Reports(d)' PROVE s \in Reports(d) \/ (d = c /\ s = state)
  BY <1>3, <1>4, <1>7, <1>9, <1>12, <1>18 DEF Reports
<1> QED
  BY <1>11, <1>12, <1>13, <1>14, <1>16, <1>17, <1>18

\* A call that leaves the workspace as it is.
LEMMA CallStep ==
    ASSUME Inv, NEW c, NextCall(c), NEW state \in States, state.status \in Finished,
           state \in Reports(c) \/ Plain(c, state),
           NEW events, events = <<>> \/ events = <<Started(c)>>,
           att' = Concluded(c, state, events), UNCHANGED <<run, journal, crashes>>
    PROVE  Inv'
<1> USE DEF journal
<1>1. att.pc \in Calling /\ att.todo # <<>> /\ c = Head(att.todo) /\ att.pc # "none"
  BY DEF NextCall, Calling
<1>2. att \in Attempts /\ att.tree \in Seq(Changes)
  BY InvTypes, AttemptFields
<1>3. att' = [Concluded(c, state, events) EXCEPT !.tree = att.tree]
  BY <1>2 DEF Concluded, Attempts
<1>4. /\ att' \in Attempts /\ att'.pc = "call" /\ att'.tree = att.tree
      /\ Instants' /\ Control' /\ Decisions' /\ OpenTurn'
      /\ \A d \in Calls : \A s \in Reports(d)' : s \in Reports(d) \/ (d = c /\ s = state)
  BY <1>1, <1>2, <1>3, ConcludedFacts
<1>5. TableTypes' /\ Answered(messages')
  BY DEF Inv, TypeInv, TableTypes, Transcript
<1> QED
  BY <1>1, <1>4, <1>5, AttemptGoesOn DEF Running

LEMMA ReuseOutcomeStep ==
    ASSUME Inv, NEW c \in Calls, ReuseOutcome(c)
    PROVE  Inv'
<1>1. att.outcomes[c] \in States /\ att.outcomes[c].status \in Finished /\ att.outcomes[c] \in Reports(c)
  BY InvTypes, AttemptFields DEF ReuseOutcome, Known, Reports
<1> QED
  BY <1>1, CallStep DEF ReuseOutcome

LEMMA RefuseRejectedStep ==
    ASSUME Inv, NEW c \in Calls, RefuseRejected(c)
    PROVE  Inv'
<1>1. Failed("approval_rejected") \in States /\ Failed("approval_rejected").status = "failed"
  BY StateValues DEF Errors
<1>2. Failed("approval_rejected") # Failed("tool_failed")
  BY DEF Failed, State
<1>3. Plain(c, Failed("approval_rejected")) /\ Failed("approval_rejected").status \in Finished
  BY <1>1, <1>2 DEF Plain, Finished
<1> QED
  BY <1>1, <1>3, CallStep DEF RefuseRejected

LEMMA AnswerInteractionStep ==
    ASSUME Inv, NEW c \in Calls, AnswerInteraction(c)
    PROVE  Inv'
<1>1. Completed(<<>>) \in States /\ Completed(<<>>).status = "completed"
  BY StateValues, EmptySeq
<1>2. Plain(c, Completed(<<>>)) /\ Completed(<<>>).status \in Finished
  BY <1>1 DEF AnswerInteraction, Plain, Finished
<1> QED
  BY <1>1, <1>2, CallStep DEF AnswerInteraction, MayRun

LEMMA RunReadOnlyStep ==
    ASSUME Inv, NEW c \in Calls, RunReadOnly(c)
    PROVE  Inv'
<1>1. PICK state \in {Completed(att.tree), Failed("tool_failed")} : att' = Concluded(c, state, <<Started(c)>>)
  BY DEF RunReadOnly
<1>2. state \in States /\ state.status \in Finished
  BY InvTypes, AttemptFields, StateValues DEF Errors, Finished
<1>3. Plain(c, state)
  BY DEF RunReadOnly, Plain
<1> QED
  BY <1>1, <1>2, <1>3, CallStep DEF RunReadOnly, MayRun

\* A turn that breaks off, with the workspace as it is then.
LEMMA BrokenFacts ==
    ASSUME Inv, att.pc \in Calling, att.todo # <<>>, NEW c, c = Head(att.todo), NEW error \in Errors,
           NEW t \in Seq(Changes), att' = [Broken(c, error) EXCEPT !.tree = t],
           UNCHANGED <<run, row, approval, messages>>, Len(checkpoint') = Len(checkpoint)
    PROVE  /\ att' \in Attempts /\ att'.pc = "journal" /\ att'.tree = t
           /\ Instants' /\ Control' /\ Decisions' /\ OpenTurn'
           /\ \A d \in Calls : \A s \in Reports(d)' : s \in Reports(d) \/ (d = c /\ s = Failed(error))
<1> DEFINE done == Event("completed", c, Failed(error))
           over == RunFailed(error)
           two == <<done, over>>
<1>1. c \in Calls /\ att \in Attempts /\ <<>> \in Seq(Calls)
  BY NextCallIs, InvTypes, EmptySeq
<1>2. Failed(error) \in States /\ Failed(error).status = "failed" /\ "failed" \in Finished
  BY StateValues DEF Finished
<1>3. done \in Events /\ done.kind = "completed" /\ done.call = c /\ done.state = Failed(error) /\ done.at = Len(checkpoint)
  BY <1>1, <1>2, EventValue DEF Kinds
<1>4. over \in Events /\ over.kind = "run_failed" /\ over.state = Failed(error) /\ over.at = Len(checkpoint)
  BY RunFailedValue
<1> HIDE DEF done, over
<1>5. two \in Seq(Events) /\ Elements(two) = {done, over}
  BY <1>3, <1>4, ElementsOfFew
<1> HIDE DEF two
<1> DEFINE emitted == att.emitted \o two
<1>6. emitted \in Seq(Events) /\ Elements(emitted) = Elements(att.emitted) \cup {done, over}
  BY <1>1, <1>5, AttemptFields, ElementsOfConcat
<1>7. att' = [att EXCEPT !.pc = "journal", !.todo = <<>>, !.emitted = emitted, !.tree = t]
  BY <1>1 DEF Broken, Attempts, done, over, two
<1> HIDE DEF emitted
<1>8. att' \in Attempts
  BY <1>1, <1>6, <1>7 DEF Attempts, Steps, InTurn
<1>9. /\ att'.pc = "journal" /\ att'.tree = t /\ att'.todo = <<>> /\ att'.outcomes = att.outcomes
      /\ att'.unsaved = att.unsaved /\ att'.emitted = emitted /\ att'.decision = att.decision /\ att'.last = att.last
      /\ att'.final = att.final /\ att'.retries = att.retries
  BY <1>1, <1>7 DEF Attempts
<1>10. Instants'
  <2>1. Instants /\ Len(checkpoint) \in Nat
    BY InvTypes
  <2>2. ASSUME NEW e \in Elements(att'.emitted) PROVE EventSound(e)'
    <3>1. CASE e \in Elements(att.emitted)
      BY <2>1, <3>1 DEF Instants, EventSound
    <3>2. CASE e = done
      BY <1>1, <1>2, <1>3, <2>1, <3>2 DEF EventSound
    <3>3. CASE e = over
      BY <1>2, <1>4, <2>1, <3>3 DEF EventSound
    <3> QED
      BY <1>6, <1>9, <2>2, <3>1, <3>2, <3>3
  <2> QED
    BY <1>9, <2>1, <2>2 DEF Instants
<1>11. Control'
  BY <1>4, <1>6, <1>9 DEF Inv, Control, Calling, Running
<1>12. Decisions'
  <2>1. \A e \in Elements(att'.emitted) : e.kind # "request"
    BY <1>3, <1>4, <1>6, <1>9 DEF Inv, Decisions, Calling, Running
  <2>2. /\ \A d \in Calls : approval[d] # "absent" => row[d].state.status \notin {"absent", "received"}
        /\ \A d \in Calls : att.decision[d] # "none" =>
                                att.decision[d] \in {"approved", "rejected"} /\ approval[d] = att.decision[d]
    BY DEF Inv, Decisions
  <2>3. att'.pc # "emit" /\ att'.pc \notin Calling
    BY <1>9 DEF Calling, Running
  <2> QED
    BY <1>9, <2>1, <2>2, <2>3 DEF Decisions
<1>13. OpenTurn'
  BY <1>9, ElementsOfFew DEF Inv, Transcript, OpenTurn, InTurn
<1>14. ASSUME NEW d \in Calls, NEW s \in Reports(d)' PROVE s \in Reports(d) \/ (d = c /\ s = Failed(error))
  BY <1>3, <1>4, <1>6, <1>9, <1>14 DEF Reports
<1> QED
  BY <1>8, <1>9, <1>10, <1>11, <1>12, <1>13, <1>14

LEMMA BrokenStep ==
    ASSUME Inv, att.pc \in Calling, att.todo # <<>>, NEW error \in Errors \ {"tool_failed"},
           att' = Broken(Head(att.todo), error), UNCHANGED <<run, journal, crashes>>
    PROVE  Inv'
<1> USE DEF journal
<1>1. att \in Attempts /\ att.tree \in Seq(Changes) /\ att.pc # "none"
  BY InvTypes, AttemptFields DEF Calling, Running
<1>2. att' = [Broken(Head(att.todo), error) EXCEPT !.tree = att.tree]
  BY <1>1 DEF Broken, Attempts
<1>3. /\ att' \in Attempts /\ att'.pc = "journal" /\ att'.tree = att.tree
      /\ Instants' /\ Control' /\ Decisions' /\ OpenTurn'
      /\ \A d \in Calls : \A s \in Reports(d)' : s \in Reports(d) \/ (d = Head(att.todo) /\ s = Failed(error))
  BY <1>1, <1>2, BrokenFacts
<1>4. TableTypes' /\ Answered(messages')
  BY DEF Inv, TypeInv, TableTypes, Transcript
<1>5. \A d \in Calls : Plain(d, Failed(error))
  <2>1. Failed(error).error = error /\ Failed("tool_failed").error = "tool_failed" /\ Failed(error).status = "failed"
    BY StateValues DEF Errors
  <2> QED
    BY <2>1 DEF Plain
<1> QED
  BY <1>1, <1>3, <1>4, <1>5, AttemptGoesOn DEF Running

LEMMA BrokenSteps ==
    ASSUME Inv, RollbackFails \/ \E c \in Calls : CheckpointFails(c)
    PROVE  Inv'
<1>1. CASE RollbackFails
  <2>1. att.todo # <<>> /\ att.pc \in Calling
    BY <1>1 DEF RollbackFails, Inv, ToolRuns, Calling, Running
  <2> QED
    BY <1>1, <2>1, BrokenStep DEF RollbackFails, Errors
<1>2. ASSUME NEW c \in Calls, CheckpointFails(c) PROVE Inv'
  <2>1. att.todo # <<>> /\ att.pc \in Calling /\ c = Head(att.todo)
    BY <1>2 DEF CheckpointFails, MayRun, NextCall, Calling
  <2>2. (IF CheckpointExists(c) THEN "checkpoint_conflict" ELSE "checkpoint_create_failed") \in Errors \ {"tool_failed"}
    BY DEF Errors
  <2> QED
    BY <1>2, <2>1, <2>2, BrokenStep DEF CheckpointFails
<1> QED
  BY <1>1, <1>2

\* A sequence that is written as a function.
LEMMA FunctionIsSeq ==
    ASSUME NEW T, NEW n \in Nat, NEW f \in [1..n -> T]
    PROVE  f \in Seq(T) /\ Len(f) = n /\ Elements(f) = {f[i] : i \in 1..n}
<1>1. f \in Seq(T)
  BY SeqDef
<1>2. Len(f) \in Nat /\ 1..Len(f) = 1..n
  BY <1>1, LenProperties
<1>3. Len(f) = n
  BY <1>2
<1> QED
  BY <1>1, <1>3, ElementsIn

LEMMA RejectInvalidTurnStep ==
    ASSUME Inv, RejectInvalidTurn
    PROVE  Inv'
<1> DEFINE IsInvalid(c) == ~Known(c) /\ Effect[c] = "invalid"
           state(c, first) == Failed(IF IsInvalid(c) /\ first THEN "invalid_arguments" ELSE "tool_turn_rejected")
           error(i) == state(att.todo[i], FirstUse(i))
           events == [i \in DOMAIN att.todo |-> Event("completed", att.todo[i], error(i))]
           over == RunFailed("semantic_retry_limit")
           emitted == IF att.retries + 1 > MaxSemanticRetries THEN Append(events, over) ELSE events
           unsaved == [i \in DOMAIN att.todo |-> ToolMessage(att.todo[i], error(i))]
           outcomes == [c \in Calls |-> IF c \in Elements(att.todo) /\ ~Known(c) THEN state(c, TRUE) ELSE att.outcomes[c]]
           Refusals == {Failed("invalid_arguments"), Failed("tool_turn_rejected")}
<1>1. att \in Attempts /\ att.todo \in Seq(Calls) /\ att.outcomes \in [Calls -> States] /\ <<>> \in Seq(Calls)
  BY InvTypes, AttemptFields, EmptySeq
<1>2. /\ att.pc = "turn" /\ UNCHANGED <<run, journal, crashes>>
      /\ att' = [att EXCEPT !.pc = "journal", !.todo = <<>>, !.outcomes = outcomes, !.unsaved = unsaved,
                            !.emitted = emitted, !.retries = att.retries + 1]
  BY <1>1 DEF RejectInvalidTurn, Attempts
<1>3. \A s \in Refusals : s \in States /\ s.status = "failed" /\ s.status \in Finished /\ \A c \in Calls : Plain(c, s)
  <2> SUFFICES ASSUME NEW s \in Refusals
               PROVE  s \in States /\ s.status = "failed" /\ s.status \in Finished /\ \A c \in Calls : Plain(c, s)
    OBVIOUS
  <2>1. PICK e \in Errors : e # "tool_failed" /\ s = Failed(e)
    BY DEF Errors
  <2>2. Failed(e) \in States /\ Failed(e).status = "failed" /\ Failed(e).error = e /\ Failed("tool_failed").error = "tool_failed"
    BY StateValues DEF Errors
  <2> QED
    BY <2>1, <2>2 DEF Finished, Plain
<1>3a. (\A i \in DOMAIN att.todo : error(i) \in Refusals) /\ \A c \in Calls : state(c, TRUE) \in Refusals
  OBVIOUS
<1> HIDE DEF state, error, Refusals
<1>4. Len(att.todo) \in Nat /\ DOMAIN att.todo = 1..Len(att.todo) /\ \A i \in 1..Len(att.todo) : att.todo[i] \in Calls
  BY <1>1, LenProperties
<1>5. \A i \in 1..Len(att.todo) :
         LET e == Event("completed", att.todo[i], error(i))
         IN e \in Events /\ e.kind = "completed" /\ e.call = att.todo[i] /\ e.state \in Refusals /\ e.at = Len(checkpoint)
  <2> SUFFICES ASSUME NEW i \in 1..Len(att.todo) 
               PROVE  LET e == Event("completed", att.todo[i], error(i))
                      IN /\ e \in Events /\ e.kind = "completed" /\ e.call = att.todo[i]
                         /\ e.state \in Refusals /\ e.at = Len(checkpoint)
    OBVIOUS
  <2>1. att.todo[i] \in Calls /\ error(i) \in States /\ error(i) \in Refusals /\ "completed" \in Kinds
    BY <1>3, <1>3a, <1>4 DEF Kinds
  <2> QED
    BY <2>1, EventValue
<1>6. events \in Seq(Events) /\ Len(events) \in Nat
      /\ \A e \in Elements(events) : /\ e \in Events /\ e.kind = "completed" /\ e.call \in Calls
                                     /\ e.state \in Refusals /\ e.at = Len(checkpoint)
  <2>1. events \in [1..Len(att.todo) -> Events]
    BY <1>4, <1>5
  <2>2. \A i \in 1..Len(att.todo) : events[i] = Event("completed", att.todo[i], error(i))
    BY <1>4
  <2> HIDE DEF events
  <2>3. events \in Seq(Events) /\ Len(events) \in Nat /\ Elements(events) = {events[i] : i \in 1..Len(att.todo)}
    <3>1. \A n \in Nat : \A f \in [1..n -> Events] :
              f \in Seq(Events) /\ Len(f) = n /\ Elements(f) = {f[i] : i \in 1..n}
      BY FunctionIsSeq
    <3> QED
      BY <1>4, <2>1, <3>1
  <2> QED
    BY <1>4, <1>5, <2>2, <2>3
<1>7. /\ unsaved \in Seq(Messages)
      /\ \A m \in Elements(unsaved) : m.role = "tool" /\ m.calls[1] \in Elements(att.todo)
  <2>1. ASSUME NEW i \in 1..Len(att.todo)
        PROVE  LET m == ToolMessage(att.todo[i], error(i))
               IN m \in Messages /\ m.role = "tool" /\ m.calls[1] = att.todo[i]
    BY <1>3, <1>3a, <1>4, MessageValue
  <2>2. unsaved \in [1..Len(att.todo) -> Messages]
    BY <1>4, <2>1
  <2>3. \A i \in 1..Len(att.todo) : unsaved[i] = ToolMessage(att.todo[i], error(i)) /\ att.todo[i] \in Elements(att.todo)
    BY <1>1, <1>4, ElementsIn
  <2> HIDE DEF unsaved
  <2>4. unsaved \in Seq(Messages) /\ Elements(unsaved) = {unsaved[i] : i \in 1..Len(att.todo)}
    <3>1. \A n \in Nat : \A f \in [1..n -> Messages] :
              f \in Seq(Messages) /\ Len(f) = n /\ Elements(f) = {f[i] : i \in 1..n}
      BY FunctionIsSeq
    <3> QED
      BY <1>4, <2>2, <3>1
  <2> QED
    BY <2>1, <2>3, <2>4
<1>8. over \in Events /\ over.kind = "run_failed" /\ over.state.status = "failed" /\ over.at = Len(checkpoint)
  BY RunFailedValue, StateValues DEF Errors
<1> HIDE DEF events, over
<1>9. /\ emitted \in Seq(Events) /\ Elements(emitted) \subseteq Elements(events) \cup {over}
      /\ att.retries + 1 > MaxSemanticRetries => over \in Elements(emitted)
  <2>1. Append(events, over) \in Seq(Events) /\ Elements(Append(events, over)) = Elements(events) \cup {over}
    BY <1>6, <1>8, AppendProperties, ElementsOfAppend
  <2> QED
    BY <1>6, <2>1
<1>10. outcomes \in [Calls -> States]
  BY <1>1, <1>3, <1>3a
<1>11. att.retries + 1 \in 0..(MaxSemanticRetries + 1)
  <2>1. att.retries \in 0..(MaxSemanticRetries + 1) /\ ~(att.retries > MaxSemanticRetries)
    BY <1>1, <1>2, AttemptFields DEF Inv, Control
  <2> QED
    BY <2>1, BoundsAssumption
<1>12. \A c \in Calls : outcomes[c] = att.outcomes[c] \/ outcomes[c] \in Refusals
  BY <1>3a
<1> HIDE DEF emitted, unsaved, outcomes
<1>13. att' \in Attempts
  BY <1>1, <1>2, <1>7, <1>9, <1>10, <1>11 DEF Attempts, Steps, InTurn
<1>14. /\ att'.pc = "journal" /\ att'.tree = att.tree /\ att'.todo = <<>> /\ att'.outcomes = outcomes
       /\ att'.unsaved = unsaved /\ att'.emitted = emitted /\ att'.decision = att.decision /\ att'.last = att.last
       /\ att'.final = att.final /\ att'.retries = att.retries + 1
  BY <1>1, <1>2 DEF Attempts
<1>15. TableTypes' /\ Answered(messages')
  BY <1>2 DEF journal, Inv, TypeInv, TableTypes, Transcript
<1>16. \A e \in Elements(emitted) : EventSound(e) /\ e.kind # "request"
  BY <1>3, <1>6, <1>8, <1>9, InvTypes DEF EventSound
<1>17. Instants'
  BY <1>2, <1>14, <1>16, InvTypes DEF journal, Instants, EventSound
<1>18. Control'
  BY <1>2, <1>8, <1>9, <1>14 DEF Inv, Control, Calling, Running
<1>19. Decisions'
  BY <1>2, <1>14, <1>16 DEF journal, Inv, Decisions, Calling, Running
<1>20. OpenTurn'
  BY <1>2, <1>7, <1>14, ElementsOfFew DEF journal, Inv, Transcript, OpenTurn, InTurn
<1>21. ASSUME NEW c \in Calls, NEW s \in Reports(c)' PROVE s \in Reports(c) \/ Plain(c, s)
  <2>1. s \in Reports(c) \/ s \in Refusals
    BY <1>2, <1>6, <1>8, <1>9, <1>12, <1>14, <1>21 DEF journal, Reports
  <2> QED
    BY <1>3, <2>1
<1> QED
  BY <1>2, <1>13, <1>14, <1>15, <1>17, <1>18, <1>19, <1>20, <1>21, AttemptGoesOn DEF journal, Running

LEMMA AskApprovalStep ==
    ASSUME Inv, AskApproval
    PROVE  Inv'
<1> DEFINE IsAsked(i) == att.todo[i] \in Awaiting /\ FirstUse(i)
           asked == InOrder({i \in DOMAIN att.todo : IsAsked(i)})
           emitted == [n \in DOMAIN asked |-> Event("approval", att.todo[asked[n]], Open("waiting_approval"))]
<1>1. att \in Attempts /\ att.todo \in Seq(Calls) /\ <<>> \in Seq(Calls)
  BY InvTypes, AttemptFields, EmptySeq
<1>2. /\ att.pc = "turn" /\ UNCHANGED <<run, journal, crashes>>
      /\ att' = [att EXCEPT !.pc = "journal", !.todo = <<>>, !.emitted = emitted]
  BY DEF AskApproval
<1>3. Len(att.todo) \in Nat /\ DOMAIN att.todo = 1..Len(att.todo) /\ \A i \in 1..Len(att.todo) : att.todo[i] \in Calls
  BY <1>1, LenProperties
<1>4. asked \in Seq(1..Len(att.todo))
  <2> DEFINE S == {i \in DOMAIN att.todo : IsAsked(i)}
  <2>1. S \in SUBSET (1..Len(att.todo))
    BY <1>3
  <2> HIDE DEF S
  <2>2. InOrder(S) \in Seq(S)
    BY <1>3, <2>1, InOrderIsASeq
  <2>3. InOrder(S) \in Seq(1..Len(att.todo))
    BY <2>1, <2>2, SeqMonotonic
  <2> QED
    BY <2>3 DEF S
<1> HIDE DEF asked
<1>5. Len(asked) \in Nat /\ DOMAIN asked = 1..Len(asked) /\ \A n \in 1..Len(asked) : asked[n] \in 1..Len(att.todo)
  BY <1>4, LenProperties, ElementOfSeq
<1>6. ASSUME NEW n \in 1..Len(asked)
      PROVE  LET e == Event("approval", att.todo[asked[n]], Open("waiting_approval"))
             IN /\ e \in Events /\ e.kind = "approval" /\ e.call \in Calls
                /\ e.state = Open("waiting_approval") /\ e.at = Len(checkpoint)
  <2>1. att.todo[asked[n]] \in Calls /\ Open("waiting_approval") \in States /\ "approval" \in Kinds
    BY <1>3, <1>5, StateValues DEF Kinds
  <2> QED
    BY <2>1, EventValue
<1>7. emitted \in Seq(Events)
      /\ \A e \in Elements(emitted) : /\ e.kind = "approval" /\ e.call \in Calls
                                      /\ e.state = Open("waiting_approval") /\ e.at = Len(checkpoint)
  <2>1. emitted \in [1..Len(asked) -> Events]
    BY <1>5, <1>6
  <2>2. \A n \in 1..Len(asked) : emitted[n] = Event("approval", att.todo[asked[n]], Open("waiting_approval"))
    BY <1>5
  <2> HIDE DEF emitted
  <2>3. emitted \in Seq(Events) /\ Elements(emitted) = {emitted[n] : n \in 1..Len(asked)}
    BY <1>5, <2>1, FunctionIsSeq
  <2> QED
    BY <1>6, <2>2, <2>3
<1> HIDE DEF emitted
<1>8. att' \in Attempts
  BY <1>1, <1>2, <1>7 DEF Attempts, Steps, InTurn
<1>9. /\ att'.pc = "journal" /\ att'.tree = att.tree /\ att'.todo = <<>> /\ att'.outcomes = att.outcomes
      /\ att'.unsaved = att.unsaved /\ att'.emitted = emitted /\ att'.decision = att.decision /\ att'.last = att.last
      /\ att'.final = att.final /\ att'.retries = att.retries
  BY <1>1, <1>2 DEF Attempts
<1>10. TableTypes' /\ Answered(messages')
  BY <1>2 DEF journal, Inv, TypeInv, TableTypes, Transcript
<1>11. Instants'
  BY <1>2, <1>7, <1>9, InvTypes DEF journal, Instants, EventSound
<1>12. Control'
  BY <1>2, <1>9 DEF Inv, Control, Calling, Running
<1>13. Decisions'
  BY <1>2, <1>7, <1>9 DEF journal, Inv, Decisions, Calling, Running
<1>14. OpenTurn'
  BY <1>2, <1>9, ElementsOfFew DEF journal, Inv, Transcript, OpenTurn, InTurn
<1>15. \A c \in Calls : \A s \in Reports(c)' : s \in Reports(c)
  BY <1>2, <1>7, <1>9 DEF journal, Reports
<1> QED
  BY <1>2, <1>8, <1>9, <1>10, <1>11, <1>12, <1>13, <1>14, <1>15, AttemptGoesOn DEF journal, Running

-----------------------------------------------------------------------------
(******************************* The transcript ****************************)

LEMMA AnsweredAppend ==
    ASSUME NEW msgs \in Seq(Messages), Answered(msgs), NEW x \in Messages, x.role # "tool"
    PROVE  Append(msgs, x) \in Seq(Messages) /\ Answered(Append(msgs, x))
<1> DEFINE new == Append(msgs, x)
<1>1. /\ new \in Seq(Messages) /\ Len(new) = Len(msgs) + 1 /\ Len(msgs) \in Nat
      /\ \A i \in 1..Len(msgs) : new[i] = msgs[i]
      /\ new[Len(msgs) + 1] = x
  BY AppendProperties, LenProperties
<1> HIDE DEF new
<1>2. ASSUME NEW i \in 1..Len(new), new[i].role = "tool"
      PROVE  \E j \in 1..(i - 1) : /\ new[j].role = "assistant"
                                   /\ new[i].calls[1] \in Elements(new[j].calls)
                                   /\ \A m \in (j + 1)..(i - 1) : new[m].role = "tool"
  <2>1. i \in 1..Len(msgs)
    BY <1>1, <1>2
  <2>2. PICK j \in 1..(i - 1) : /\ msgs[j].role = "assistant"
                                /\ msgs[i].calls[1] \in Elements(msgs[j].calls)
                                /\ \A m \in (j + 1)..(i - 1) : msgs[m].role = "tool"
    BY <1>1, <1>2, <2>1 DEF Answered
  <2>3. \A m \in 1..i : m \in 1..Len(msgs) /\ new[m] = msgs[m]
    BY <1>1, <2>1
  <2>4. j \in 1..i /\ i \in 1..i /\ \A m \in (j + 1)..(i - 1) : m \in 1..i
    BY <2>1
  <2> QED
    BY <2>2, <2>3, <2>4
<1>3. Answered(new)
  BY <1>2 DEF Answered
<1> QED
  BY <1>1, <1>3 DEF new

\* The results of a turn, after the assistant message that opened it.
LEMMA AnsweredConcat ==
    ASSUME NEW msgs \in Seq(Messages), Answered(msgs), NEW res \in Seq(Messages), msgs # <<>>,
           msgs[Len(msgs)].role = "assistant",
           \A x \in Elements(res) : x.role = "tool" /\ x.calls[1] \in Elements(msgs[Len(msgs)].calls)
    PROVE  msgs \o res \in Seq(Messages) /\ Answered(msgs \o res)
<1> DEFINE new == msgs \o res
           n == Len(msgs)
<1>1. /\ new \in Seq(Messages) /\ Len(new) = n + Len(res) /\ n \in Nat \ {0} /\ Len(res) \in Nat
      /\ \A i \in 1..(n + Len(res)) : new[i] = IF i <= n THEN msgs[i] ELSE res[i - n]
  BY ConcatProperties, LenProperties, EmptySeq
<1>2. \A i \in 1..Len(res) : res[i] \in Elements(res)
  BY ElementsIn
<1> HIDE DEF new, n
<1>3. ASSUME NEW i \in (n + 1)..Len(new)
      PROVE  new[i].role = "tool" /\ new[i].calls[1] \in Elements(msgs[n].calls)
  <2>1. i - n \in 1..Len(res) /\ new[i] = res[i - n]
    BY <1>1
  <2> QED
    BY <1>2, <2>1 DEF n
<1>4. \A m \in 1..n : new[m] = msgs[m]
  BY <1>1
<1>5. ASSUME NEW i \in 1..Len(new), new[i].role = "tool"
      PROVE  \E j \in 1..(i - 1) : /\ new[j].role = "assistant"
                                   /\ new[i].calls[1] \in Elements(new[j].calls)
                                   /\ \A m \in (j + 1)..(i - 1) : new[m].role = "tool"
  <2>1. CASE i <= n
    <3>1. i \in 1..n
      BY <1>1, <2>1
    <3>2. PICK j \in 1..(i - 1) : /\ msgs[j].role = "assistant"
                                  /\ msgs[i].calls[1] \in Elements(msgs[j].calls)
                                  /\ \A m \in (j + 1)..(i - 1) : msgs[m].role = "tool"
      BY <1>4, <1>5, <3>1 DEF Answered, n
    <3>3. j \in 1..n /\ \A m \in (j + 1)..(i - 1) : m \in 1..n
      BY <1>1, <3>1
    <3> QED
      BY <1>4, <3>1, <3>2, <3>3
  <2>2. CASE i > n
    <3>1. i \in (n + 1)..Len(new) /\ n \in 1..(i - 1) /\ \A m \in (n + 1)..(i - 1) : m \in (n + 1)..Len(new)
      BY <1>1, <2>2
    <3>2. new[n] = msgs[n] /\ msgs[n].role = "assistant"
      BY <1>1, <1>4 DEF n
    <3> QED
      BY <1>3, <3>1, <3>2
  <2> QED
    BY <1>1, <2>1, <2>2
<1>6. Answered(new)
  BY <1>5 DEF Answered
<1> QED
  BY <1>1, <1>6 DEF new

LEMMA AssistantValue ==
    ASSUME NEW calls \in Seq(Calls)
    PROVE  Assistant(calls) \in Messages /\ Assistant(calls).role = "assistant" /\ Assistant(calls).calls = calls
BY DEF Assistant, Messages

\* A message of the assistant at the end of the transcript.
LEMMA LastMessage ==
    ASSUME Inv, NEW x \in Messages, x.role # "tool", messages' = Append(messages, x)
    PROVE  /\ messages' \in Seq(Messages) /\ Answered(messages') /\ messages' # <<>>
           /\ messages'[Len(messages')] = x
<1>1. messages \in Seq(Messages) /\ Answered(messages)
  BY DEF Inv, TypeInv, TableTypes, Transcript
<1> QED
  BY <1>1, AnsweredAppend, AppendProperties, LenProperties

LEMMA EndStreamStep ==
    ASSUME Inv, EndStream
    PROVE  Inv'
<1>1. att \in Attempts /\ att.todo \in Seq(Calls)
  BY InvTypes, AttemptFields
<1>2. /\ messages' \in Seq(Messages) /\ Answered(messages') /\ messages' # <<>>
      /\ messages'[Len(messages')] = Assistant(att.todo)
  BY <1>1, AssistantValue, LastMessage DEF EndStream
<1>3. att' \in Attempts
  BY <1>1 DEF EndStream, Attempts, Steps, InTurn
<1>4. /\ att.pc = "stream" /\ att'.pc = "turn" /\ att'.tree = att.tree /\ att'.todo = att.todo /\ att'.outcomes = att.outcomes
      /\ att'.unsaved = att.unsaved /\ att'.emitted = att.emitted /\ att'.decision = att.decision /\ att'.last = att.last
      /\ att'.final = att.final /\ att'.retries = att.retries
  BY <1>1 DEF EndStream, Attempts
<1>5. UNCHANGED <<run, row, approval, checkpoint, crashes>>
  BY DEF EndStream
<1>6. TableTypes' /\ Instants'
  BY <1>2, <1>4, <1>5, InvTypes DEF TableTypes, Instants, EventSound
<1>7. Control'
  BY <1>4, <1>5 DEF Inv, Control, Calling, Running
<1>8. Decisions'
  BY <1>4, <1>5 DEF Inv, Decisions, Calling, Running
<1>9. OpenTurn'
  <2>1. att.unsaved = <<>>
    BY <1>4 DEF Inv, Control, Calling, Running
  <2> QED
    BY <1>1, <1>2, <1>4, <2>1, AssistantValue, ElementsOfFew DEF OpenTurn
<1>10. \A c \in Calls : Reports(c)' = Reports(c)
  BY <1>4, <1>5 DEF Reports
<1> QED
  BY <1>2, <1>3, <1>4, <1>5, <1>6, <1>7, <1>8, <1>9, <1>10, AttemptGoesOn DEF Running

\* The transcript gets a message and the attempt leaves the stream, to end or to ask the model again.
LEMMA StreamEnds ==
    ASSUME Inv, att.pc = "stream", att' \in Attempts, UNCHANGED <<run, row, approval, checkpoint, crashes>>,
           messages' \in Seq(Messages), Answered(messages'),
           att'.pc \in {"finish", "model"}, att'.tree = att.tree, att'.outcomes = att.outcomes,
           att'.unsaved = att.unsaved, att'.emitted = att.emitted, att'.decision = att.decision, att'.last = att.last,
           att'.pc = "finish" => att'.final.status \in Finished /\ att'.retries = att.retries,
           att'.pc = "model" => att'.final = att.final /\ ~(att'.retries > MaxSemanticRetries)
    PROVE  Inv'
<1>1. TableTypes' /\ Instants'
  BY InvTypes DEF TableTypes, Instants, EventSound
<1>2. Control'
  BY DEF Inv, Control, Calling, Running
<1>3. Decisions'
  BY DEF Inv, Decisions, Calling, Running
<1>4. OpenTurn'
  BY DEF OpenTurn, InTurn, Calling, Running
<1>5. \A c \in Calls : Reports(c)' = Reports(c)
  BY DEF Reports
<1> QED
  BY <1>1, <1>2, <1>3, <1>4, <1>5, AttemptGoesOn DEF Running

LEMMA FinalTextStep ==
    ASSUME Inv, FinalText
    PROVE  Inv'
<1>1. att \in Attempts /\ <<>> \in Seq(Calls) /\ Completed(<<>>) \in States /\ Completed(<<>>).status \in Finished
  BY InvTypes, EmptySeq, StateValues DEF Finished
<1>2. messages' \in Seq(Messages) /\ Answered(messages')
  BY <1>1, AssistantValue, LastMessage DEF FinalText
<1>3. att' \in Attempts
  BY <1>1 DEF FinalText, Ends, Attempts, Steps
<1>4. /\ att.pc = "stream" /\ att'.pc = "finish" /\ att'.tree = att.tree /\ att'.outcomes = att.outcomes
      /\ att'.unsaved = att.unsaved /\ att'.emitted = att.emitted /\ att'.decision = att.decision /\ att'.last = att.last
      /\ att'.final = Completed(<<>>) /\ att'.retries = att.retries
  BY <1>1 DEF FinalText, Ends, Attempts
<1> QED
  BY <1>1, <1>2, <1>3, <1>4, StreamEnds DEF FinalText

LEMMA EmptyResponseStep ==
    ASSUME Inv, EmptyResponse
    PROVE  Inv'
<1>1. att \in Attempts /\ att.pc = "stream" /\ UNCHANGED <<run, row, approval, checkpoint, crashes>>
  BY InvTypes DEF EmptyResponse
<1>2. CASE att.retries + 1 > MaxSemanticRetries
  <2>1. Failed("semantic_retry_limit") \in States /\ Failed("semantic_retry_limit").status \in Finished
    BY StateValues DEF Finished, Errors
  <2> QED
    BY <1>1, <1>2, <2>1, EndsStep DEF EmptyResponse, journal
<1>3. CASE ~(att.retries + 1 > MaxSemanticRetries)
  <2>1. Feedback \in Messages /\ Feedback.role = "user"
    BY EmptySeq DEF Feedback, Messages
  <2>2. messages' \in Seq(Messages) /\ Answered(messages')
    BY <1>3, <2>1, LastMessage DEF EmptyResponse
  <2>3. att.retries + 1 \in 0..(MaxSemanticRetries + 1)
    BY <1>1, <1>3, AttemptFields, BoundsAssumption
  <2>4. att' = [att EXCEPT !.pc = "model", !.retries = att.retries + 1]
    BY <1>3 DEF EmptyResponse
  <2>5. att' \in Attempts
    BY <1>1, <2>3, <2>4 DEF Attempts, Steps
  <2>6. /\ att'.pc = "model" /\ att'.tree = att.tree /\ att'.outcomes = att.outcomes
        /\ att'.unsaved = att.unsaved /\ att'.emitted = att.emitted /\ att'.decision = att.decision /\ att'.last = att.last
        /\ att'.final = att.final /\ att'.retries = att.retries + 1
    BY <1>1, <2>4 DEF Attempts
  <2> QED
    BY <1>1, <1>3, <2>2, <2>5, <2>6, StreamEnds
<1> QED
  BY <1>2, <1>3

LEMMA JournalPendingStep ==
    ASSUME Inv, JournalPending
    PROVE  Inv'
<1> DEFINE emitted == [i \in DOMAIN att.todo |-> Event("received", att.todo[i], Open("received"))]
<1>1. att \in Attempts /\ att.todo \in Seq(Calls) /\ messages \in Seq(Messages) /\ Answered(messages)
  BY InvTypes, AttemptFields DEF Inv, Transcript, TableTypes
<1>2. /\ messages' \in Seq(Messages) /\ Answered(messages') /\ messages' # <<>>
      /\ messages'[Len(messages')] = Assistant(att.todo)
  <2>1. CASE EndsWithToolCalls(att.todo)
    BY <1>1, <2>1 DEF JournalPending, EndsWithToolCalls
  <2>2. CASE ~EndsWithToolCalls(att.todo)
    BY <1>1, <2>2, AssistantValue, LastMessage DEF JournalPending
  <2> QED
    BY <2>1, <2>2
<1>3. Len(att.todo) \in Nat /\ DOMAIN att.todo = 1..Len(att.todo) /\ \A i \in 1..Len(att.todo) : att.todo[i] \in Calls
  BY <1>1, LenProperties
<1>4. ASSUME NEW i \in 1..Len(att.todo)
      PROVE  LET e == Event("received", att.todo[i], Open("received"))
             IN e \in Events /\ e.kind = "received" /\ e.call = att.todo[i] /\ e.state = Open("received") /\ e.at = Len(checkpoint)
  <2>1. att.todo[i] \in Calls /\ Open("received") \in States /\ "received" \in Kinds
    BY <1>3, StateValues DEF Kinds
  <2> QED
    BY <2>1, EventValue
<1>5. emitted \in Seq(Events)
      /\ \A e \in Elements(emitted) : /\ e.kind = "received" /\ e.call \in Elements(att.todo) /\ e.call \in Calls
                                      /\ e.state = Open("received") /\ e.at = Len(checkpoint)
  <2>1. emitted \in [1..Len(att.todo) -> Events]
    BY <1>3, <1>4
  <2>2. \A i \in 1..Len(att.todo) : emitted[i] = Event("received", att.todo[i], Open("received")) /\ att.todo[i] \in Elements(att.todo)
    BY <1>1, <1>3, ElementsIn
  <2> HIDE DEF emitted
  <2>3. emitted \in Seq(Events) /\ Elements(emitted) = {emitted[i] : i \in 1..Len(att.todo)}
    <3>1. \A n \in Nat : \A f \in [1..n -> Events] :
              f \in Seq(Events) /\ Len(f) = n /\ Elements(f) = {f[i] : i \in 1..n}
      BY FunctionIsSeq
    <3> QED
      BY <1>3, <2>1, <3>1
  <2> QED
    BY <1>3, <1>4, <2>2, <2>3
<1>6. /\ att.pc = "resume" /\ att' = [att EXCEPT !.pc = "receive", !.emitted = emitted]
      /\ UNCHANGED <<run, row, approval, checkpoint, crashes>>
  BY DEF JournalPending
<1> HIDE DEF emitted
<1>7. att' \in Attempts
  BY <1>1, <1>5, <1>6 DEF Attempts, Steps, InTurn
<1>8. /\ att'.pc = "receive" /\ att'.tree = att.tree /\ att'.todo = att.todo /\ att'.outcomes = att.outcomes
      /\ att'.unsaved = att.unsaved /\ att'.emitted = emitted /\ att'.decision = att.decision /\ att'.last = att.last
      /\ att'.final = att.final /\ att'.retries = att.retries
  BY <1>1, <1>6 DEF Attempts
<1>9. TableTypes'
  BY <1>2, <1>6, InvTypes DEF TableTypes
<1>10. Instants'
  BY <1>5, <1>6, <1>8, InvTypes DEF Instants, EventSound
<1>11. Control'
  BY <1>5, <1>6, <1>8 DEF Inv, Control, Calling, Running
<1>12. Decisions'
  BY <1>5, <1>6, <1>8 DEF Inv, Decisions, Calling, Running
<1>13. OpenTurn'
  <2>1. att.unsaved = <<>>
    BY <1>6 DEF Inv, Control, Calling, Running
  <2> QED
    BY <1>1, <1>2, <1>8, <2>1, AssistantValue, ElementsOfFew DEF OpenTurn
<1>14. \A c \in Calls : \A s \in Reports(c)' : s \in Reports(c)
  BY <1>5, <1>6, <1>8 DEF Reports
<1> QED
  BY <1>2, <1>6, <1>7, <1>8, <1>9, <1>10, <1>11, <1>12, <1>13, <1>14, AttemptGoesOn DEF Running

LEMMA JournalResultsStep ==
    ASSUME Inv, JournalResults
    PROVE  Inv'
<1>1. att \in Attempts /\ att.emitted \in Seq(Events) /\ <<>> \in Seq(Messages) /\ messages \in Seq(Messages)
      /\ att.unsaved \in Seq(Messages) /\ Answered(messages)
  BY InvTypes, AttemptFields, EmptySeq DEF Inv, Transcript, TableTypes
<1>2. /\ att.pc = "journal" /\ att' = [att EXCEPT !.pc = "emit", !.unsaved = <<>>] /\ messages' = messages \o att.unsaved
      /\ UNCHANGED <<run, row, approval, checkpoint, crashes>>
  BY DEF JournalResults
<1>3. messages' \in Seq(Messages) /\ Answered(messages')
  <2>1. /\ messages # <<>> /\ messages[Len(messages)].role = "assistant"
        /\ \A x \in Elements(att.unsaved) : x.role = "tool" /\ x.calls[1] \in Elements(messages[Len(messages)].calls)
    BY <1>2 DEF Inv, Transcript, OpenTurn, InTurn
  <2> QED
    BY <1>1, <1>2, <2>1, AnsweredConcat
<1>4. att' \in Attempts
  BY <1>1, <1>2 DEF Attempts, Steps
<1>5. /\ att'.pc = "emit" /\ att'.tree = att.tree /\ att'.todo = att.todo /\ att'.outcomes = att.outcomes
      /\ att'.unsaved = <<>> /\ att'.emitted = att.emitted /\ att'.decision = att.decision /\ att'.last = att.last
      /\ att'.final = att.final /\ att'.retries = att.retries
  BY <1>1, <1>2 DEF Attempts
<1>6. TableTypes' /\ Instants'
  BY <1>2, <1>3, <1>5, InvTypes DEF TableTypes, Instants, EventSound
<1>7. Control'
  BY <1>2, <1>5 DEF Inv, Control, Calling, Running
<1>8. Decisions'
  <2>1. \A e \in Elements(att.emitted) : e.kind # "request"
    BY <1>2 DEF Inv, Decisions
  <2>2. att.emitted # <<>> => /\ \A e \in Elements(Tail(att.emitted)) : e.kind # "request"
                              /\ Head(att.emitted).kind # "request"
    BY <1>1, <2>1, ElementsIn, ElementsOfTail
  <2> QED
    BY <1>2, <1>5, <2>1, <2>2 DEF Inv, Decisions, Calling, Running
<1>9. OpenTurn'
  BY <1>5 DEF OpenTurn, InTurn, Calling, Running
<1>10. \A c \in Calls : Reports(c)' = Reports(c)
  BY <1>2, <1>5 DEF Reports
<1> QED
  BY <1>2, <1>3, <1>4, <1>5, <1>6, <1>7, <1>8, <1>9, <1>10, AttemptGoesOn DEF Running

-----------------------------------------------------------------------------
(******************************* The tool table ****************************)

\* What follows and what precedes a state of a call.
LEMMA TransitionTables ==
    /\ Predecessors("absent") = {} /\ Predecessors("none") = {} /\ Predecessors("received") = {}
    /\ Predecessors("waiting_approval") = {"received"}
    /\ Predecessors("running") = {"received", "waiting_approval"}
    /\ \A s \in Finished : /\ Predecessors(s) = {"received", "waiting_approval", "running"}
                           /\ Successors(s) = {}
    /\ \A s : Successors(s) \cap {"absent", "received"} = {}
BY DEF Predecessors, Successors, Finished

\* _save_tool_call changes one row, and none of a call that has ended.
LEMMA SavedIsFinal ==
    ASSUME Inv, NEW c \in Calls, NEW turn, NEW state, NEW at,
           SaveError(c, turn, state) = "none", SaveToolCall(c, turn, state, at)
    PROVE  \A d \in Calls : row[d].state.status \in Finished => row'[d] = row[d]
<1> DEFINE saved == SavedState(c, state)
           new == [state |-> saved, turn |-> turn, at |-> IF saved = row[c].state THEN row[c].at ELSE at]
<1>1. row \in [Calls -> Rows] /\ row[c] \in Rows
  BY InvTypes DEF TableTypes
<1>2. row' = [row EXCEPT ![c] = new]
  BY DEF SaveToolCall
<1>3. ASSUME row[c].state.status \in Finished PROVE new = row[c]
  <2>1. \/ row[c].turn = turn /\ row[c].state = state
        \/ row[c].turn = turn /\ state.status \in Predecessors(row[c].state.status) \cup Successors(row[c].state.status)
    BY <1>3 DEF SaveError, Finished
  <2>2. row[c].turn = turn /\ saved = row[c].state
    BY <1>3, <2>1, TransitionTables DEF SavedState
  <2> QED
    BY <1>1, <2>2 DEF Rows
<1> HIDE DEF new
<1> QED
  BY <1>1, <1>2, <1>3

\* _save_tool_call, when it raises no error: the row keeps its state or takes the given one, and never goes back.
LEMMA SaveFacts ==
    ASSUME Inv, NEW c \in Calls, NEW turn \in 0..MaxTurns, NEW state \in States,
           state.status \in {"received", "waiting_approval", "running"} \cup Finished,
           NEW at \in Nat, at <= Len(checkpoint), SaveError(c, turn, state) = "none", SaveToolCall(c, turn, state, at)
    PROVE  /\ row' \in [Calls -> Rows]
           /\ \A d \in Calls : d # c => row'[d] = row[d]
           /\ row'[c].state \in {row[c].state, state}
           /\ row'[c].at <= Len(checkpoint)
           /\ row'[c].state.status # "absent"
           /\ row[c].state.status \notin {"absent", "received"} => row'[c].state.status \notin {"absent", "received"}
<1> DEFINE old == row[c]
           saved == SavedState(c, state)
           new == [state |-> saved, turn |-> turn, at |-> IF saved = old.state THEN old.at ELSE at]
<1>1. /\ row \in [Calls -> Rows] /\ old \in Rows /\ old.state \in States /\ old.at \in Nat /\ old.at <= Len(checkpoint)
      /\ old.turn \in 0..MaxTurns
  BY InvTypes, RowFields DEF TableTypes, Instants
<1>2. saved = (IF state.status \in Predecessors(old.state.status) THEN old.state ELSE state)
  BY DEF SavedState
<1>3. \/ old.state.status = "absent"
      \/ old.turn = turn /\ old.state = state
      \/ old.turn = turn /\ state.status \in Predecessors(old.state.status) \cup Successors(old.state.status)
  BY DEF SaveError
<1>4. old.state.status \in {"none", "absent", "received", "waiting_approval", "running"} \cup Finished
  BY <1>1, StateFields
<1> HIDE DEF saved
<1>5. saved \in {old.state, state} /\ saved \in States
  BY <1>1, <1>2
<1>6. new \in Rows /\ new.state = saved /\ new.at <= Len(checkpoint)
  BY <1>1, <1>5 DEF Rows
<1>7. row' = [row EXCEPT ![c] = new]
  BY DEF SaveToolCall, saved
<1> HIDE DEF new
<1>8. row' \in [Calls -> Rows] /\ row'[c] = new /\ \A d \in Calls : d # c => row'[d] = row[d]
  BY <1>1, <1>6, <1>7
<1>9. saved.status # "absent"
  <2>1. CASE saved = state
    BY <2>1 DEF Finished
  <2>2. CASE saved # state
    BY <1>2, <2>2, TransitionTables
  <2> QED
    BY <2>1, <2>2
<1>10. ASSUME old.state.status \notin {"absent", "received"} PROVE saved.status \notin {"absent", "received"}
  <2>1. CASE state.status \in Predecessors(old.state.status) \/ old.state = state
    BY <1>2, <1>10, <2>1
  <2>2. CASE state.status \in Successors(old.state.status) /\ state.status \notin Predecessors(old.state.status)
    BY <1>2, <2>2, TransitionTables
  <2> QED
    BY <1>3, <1>10, <2>1, <2>2
<1> QED
  BY <1>5, <1>6, <1>8, <1>9, <1>10

LEMMA SaveErrorIsOne ==
    \A c, turn, state : SaveError(c, turn, state) \in Errors
BY DEF SaveError, Errors

LEMMA ReceivePendingStep ==
    ASSUME Inv, ReceivePending
    PROVE  Inv'
<1>1. /\ att \in Attempts /\ att.emitted \in Seq(Events) /\ att.todo \in Seq(Calls) /\ att.count \in Nat /\ att.pc = "receive"
      /\ UNCHANGED <<approval, checkpoint, messages, crashes>>
  BY InvTypes, AttemptFields DEF ReceivePending
<1>2. CASE att.emitted = <<>>
  <2>1. att' = [att EXCEPT !.pc = "turn", !.count = att.count + Len(att.todo)] /\ UNCHANGED <<run, row>>
    BY <1>1, <1>2 DEF ReceivePending, Attempts
  <2>2. att.count + Len(att.todo) \in Nat
    BY <1>1, LenProperties
  <2>3. att' \in Attempts
    BY <1>1, <2>1, <2>2 DEF Attempts, Steps, InTurn
  <2>4. /\ att'.pc = "turn" /\ att'.tree = att.tree /\ att'.todo = att.todo /\ att'.outcomes = att.outcomes
        /\ att'.unsaved = att.unsaved /\ att'.emitted = att.emitted /\ att'.decision = att.decision /\ att'.last = att.last
        /\ att'.final = att.final /\ att'.retries = att.retries
    BY <1>1, <2>1 DEF Attempts
  <2>5. Control' /\ OpenTurn'
    BY <1>1, <2>1, <2>4 DEF Inv, Control, Transcript, OpenTurn, InTurn, Calling, Running
  <2>6. \A e \in Elements(att.emitted) : e.kind # "request"
    BY <1>2, ElementsOfFew
  <2> QED
    BY <1>1, <2>1, <2>3, <2>4, <2>5, <2>6, MemoryStep DEF journal, Calling, Running
<1>3. CASE att.emitted # <<>>
  <2> DEFINE e == Head(att.emitted)
  <2>1. e \in Elements(att.emitted) /\ e \in Events /\ EventSound(e) /\ e.kind = "received" /\ row[e.call].state.status # "absent"
    BY <1>1, <1>3, ElementsIn, InvTypes DEF Inv, Control, Instants
  <2>2. e.call \in Calls /\ e.state = Open("received") /\ e.at \in Nat /\ e.at <= Len(checkpoint)
    BY <2>1 DEF EventSound, Events
  <2> DEFINE error == SaveError(e.call, 1, e.state)
  <2>3. CASE error # "none"
    <3>1. Abort(error) /\ UNCHANGED row /\ error \in Errors
      BY <1>3, <2>3, SaveErrorIsOne DEF ReceivePending
    <3> HIDE DEF error
    <3> QED
      BY <1>1, <3>1, AbortStep DEF journal
  <2>4. CASE error = "none"
    <3>1. SaveToolCall(e.call, 1, e.state, e.at) /\ att' = [att EXCEPT !.emitted = Tail(att.emitted)] /\ UNCHANGED run
      BY <1>1, <1>3, <2>4 DEF ReceivePending, Attempts
    <3>2. row[e.call].turn = 1
      BY <2>1, <2>4 DEF SaveError
    <3>3. 1 \in 0..MaxTurns
      BY <2>2, <3>2, InvTypes, RowFields
    <3>4. Open("received") \in States /\ Open("received").status = "received"
      BY StateValues
    <3>5. SaveError(e.call, 1, Open("received")) = "none" /\ SaveToolCall(e.call, 1, Open("received"), e.at)
      BY <2>2, <2>4, <3>1
    <3> DEFINE c == e.call
               at == e.at
    <3>6. /\ c \in Calls /\ at \in Nat /\ at <= Len(checkpoint)
          /\ SaveError(c, 1, Open("received")) = "none" /\ SaveToolCall(c, 1, Open("received"), at)
      BY <2>2, <3>5
    <3> HIDE DEF c, at
    <3>7. /\ row' \in [Calls -> Rows]
          /\ \A d \in Calls : d # c => row'[d] = row[d]
          /\ row'[c].state \in {row[c].state, Open("received")}
          /\ row'[c].at <= Len(checkpoint)
          /\ row'[c].state.status # "absent"
          /\ row[c].state.status \notin {"absent", "received"} => row'[c].state.status \notin {"absent", "received"}
      BY <3>3, <3>4, <3>6, SaveFacts
    <3>8. Tail(att.emitted) \in Seq(Events) /\ Elements(Tail(att.emitted)) \subseteq Elements(att.emitted)
      BY <1>1, <1>3, ElementsOfTail
    <3>9. att' \in Attempts
      BY <1>1, <3>1, <3>8 DEF Attempts
    <3>10. /\ att'.pc = "receive" /\ att'.tree = att.tree /\ att'.todo = att.todo /\ att'.outcomes = att.outcomes
           /\ att'.unsaved = att.unsaved /\ att'.emitted = Tail(att.emitted) /\ att'.decision = att.decision
           /\ att'.last = att.last /\ att'.final = att.final /\ att'.retries = att.retries
      BY <1>1, <3>1 DEF Attempts
    <3>11. TableTypes' /\ Instants'
      <4>1. \A d \in Calls : row'[d].at <= Len(checkpoint)
        BY <3>7, InvTypes DEF Instants
      <4> QED
        BY <1>1, <3>1, <3>7, <3>8, <3>10, <4>1, InvTypes DEF TableTypes, Instants, EventSound
    <3>12. \A d \in Calls : /\ row[d].state.status # "absent" => row'[d].state.status # "absent"
                            /\ row[d].state.status \notin {"absent", "received"} => row'[d].state.status \notin {"absent", "received"}
      BY <3>7
    <3>13. Control'
      <4>1. \A d \in Elements(att.todo) : row'[d].state.status # "absent"
        BY <1>1, <3>12, InvTypes DEF Inv, Control
      <4>2. \A d \in Elements(Tail(att.emitted)) : d.kind = "received" /\ row'[d.call].state.status # "absent"
        <5> SUFFICES ASSUME NEW d \in Elements(Tail(att.emitted))
                     PROVE  d.kind = "received" /\ row'[d.call].state.status # "absent"
          OBVIOUS
        <5>1. d \in Elements(att.emitted) /\ EventSound(d) /\ d.kind = "received" /\ row[d.call].state.status # "absent"
          BY <1>1, <3>8, InvTypes DEF Inv, Control, Instants
        <5> QED
          BY <3>12, <5>1 DEF EventSound
      <4> QED
        BY <1>1, <3>1, <3>10, <4>1, <4>2 DEF Inv, Control, Calling, Running
    <3>14. Decisions'
      BY <1>1, <3>8, <3>10, <3>12 DEF Inv, Decisions, Calling, Running
    <3>15. OpenTurn'
      BY <1>1, <3>10 DEF Inv, Transcript, OpenTurn
    <3>16. ASSUME NEW d \in Calls, NEW s \in Reports(d)' PROVE s \in Reports(d) \/ Plain(d, s)
      <4>1. Plain(d, Open("received"))
        BY <3>4 DEF Plain, Failed, Open, State
      <4>2. s \in Reports(d) \/ s = Open("received")
        BY <3>7, <3>8, <3>10, <3>16 DEF Reports
      <4> QED
        BY <4>1, <4>2
    <3> QED
      BY <1>1, <3>1, <3>9, <3>10, <3>11, <3>13, <3>14, <3>15, <3>16, AttemptGoesOn DEF Inv, Transcript, Running
  <2> QED
    BY <2>3, <2>4
<1> QED
  BY <1>2, <1>3

LEMMA ReceiveCallStep ==
    ASSUME Inv, NEW c \in Calls, ReceiveCall(c)
    PROVE  Inv'
<1> DEFINE error == SaveError(c, att.turn, Open("received"))
<1>1. /\ att \in Attempts /\ att.todo \in Seq(Calls) /\ att.count \in Nat /\ att.pc = "stream" /\ att.turn \in 0..MaxTurns
      /\ UNCHANGED <<approval, checkpoint, messages, crashes>>
  BY InvTypes, AttemptFields DEF ReceiveCall
<1>2. CASE error # "none"
  <2>1. Abort(error) /\ UNCHANGED row /\ error \in Errors
    BY <1>2, SaveErrorIsOne DEF ReceiveCall
  <2> HIDE DEF error
  <2> QED
    BY <1>1, <2>1, AbortStep DEF journal
<1>3. CASE error = "none"
  <2>1. /\ SaveToolCall(c, att.turn, Open("received"), 0) /\ UNCHANGED run
        /\ \/ att' = [att EXCEPT !.todo = Append(att.todo, c), !.count = att.count + 1]
           \/ att' = [att EXCEPT !.pc = "finish", !.final = Failed("tool_call_limit")]
    BY <1>1, <1>3 DEF ReceiveCall, Attempts
  <2>2. Open("received") \in States /\ Open("received").status = "received"
    BY StateValues
  <2>3. 0 \in Nat /\ 0 <= Len(checkpoint)
    BY InvTypes
  <2>4. /\ row' \in [Calls -> Rows]
        /\ \A d \in Calls : d # c => row'[d] = row[d]
        /\ row'[c].state \in {row[c].state, Open("received")}
        /\ row'[c].at <= Len(checkpoint)
        /\ row[c].state.status \notin {"absent", "received"} => row'[c].state.status \notin {"absent", "received"}
    BY <1>1, <1>3, <2>1, <2>2, <2>3, SaveFacts
  <2>5. Failed("tool_call_limit") \in States /\ Failed("tool_call_limit").status = "failed"
    BY StateValues DEF Errors
  <2>6. Append(att.todo, c) \in Seq(Calls) /\ att.count + 1 \in Nat
    BY <1>1, AppendProperties
  <2>7. att' \in Attempts
    <3>1. CASE att' = [att EXCEPT !.todo = Append(att.todo, c), !.count = att.count + 1]
      BY <1>1, <2>6, <3>1 DEF Attempts
    <3>2. CASE att' = [att EXCEPT !.pc = "finish", !.final = Failed("tool_call_limit")]
      BY <1>1, <2>5, <3>2 DEF Attempts, Steps
    <3> QED
      BY <2>1, <3>1, <3>2
  <2>8. /\ att'.tree = att.tree /\ att'.outcomes = att.outcomes /\ att'.unsaved = att.unsaved /\ att'.emitted = att.emitted
        /\ att'.decision = att.decision /\ att'.last = att.last /\ att'.retries = att.retries
        /\ \/ att'.pc = "stream" /\ att'.final = att.final
           \/ att'.pc = "finish" /\ att'.final = Failed("tool_call_limit")
    BY <1>1, <2>1, <2>5 DEF Attempts
  <2>9. \A d \in Calls : row[d].state.status \notin {"absent", "received"} => row'[d].state.status \notin {"absent", "received"}
    BY <2>4
  <2>10. TableTypes' /\ Instants'
    <3>1. \A d \in Calls : row'[d].at <= Len(checkpoint)
      BY <2>4, InvTypes DEF Instants
    <3> QED
      BY <1>1, <2>1, <2>4, <2>8, <3>1, InvTypes DEF TableTypes, Instants, EventSound
  <2>11. Control'
    BY <1>1, <2>1, <2>5, <2>8 DEF Inv, Control, Calling, Running, Finished
  <2>12. Decisions'
    BY <1>1, <2>8, <2>9 DEF Inv, Decisions, Calling, Running
  <2>13. OpenTurn'
    BY <2>8 DEF OpenTurn, InTurn, Calling, Running
  <2>14. ASSUME NEW d \in Calls, NEW s \in Reports(d)' PROVE s \in Reports(d) \/ Plain(d, s)
    <3>1. Plain(d, Open("received"))
      BY <2>2 DEF Plain, Failed, Open, State
    <3>2. s \in Reports(d) \/ s = Open("received")
      BY <2>4, <2>8, <2>14 DEF Reports
    <3> QED
      BY <3>1, <3>2
  <2> QED
    BY <1>1, <2>1, <2>7, <2>8, <2>10, <2>11, <2>12, <2>13, <2>14, AttemptGoesOn DEF Inv, Transcript, Running
<1> QED
  BY <1>2, <1>3

-----------------------------------------------------------------------------
(************************** The executor's events **************************)

\* The executor is done with an event, and what it has stored contradicts nothing.
LEMMA HandledFacts ==
    ASSUME Inv, att.pc = "emit", att.emitted # <<>>, Head(att.emitted).kind # "run_failed",
           att' \in Attempts, att'.pc = "emit", att'.tree = att.tree, att'.todo = att.todo, att'.outcomes = att.outcomes,
           att'.unsaved = att.unsaved, att'.emitted = Tail(att.emitted), att'.decision = att.decision,
           att'.retries = att.retries, att'.last <= Len(checkpoint), att'.final.status \in {"none", "waiting_approval"},
           UNCHANGED <<run, checkpoint, messages, crashes>>,
           row' \in [Calls -> Rows], \A d \in Calls : row'[d].at <= Len(checkpoint),
           \A d \in Calls : row[d].state.status \notin {"absent", "received"} => row'[d].state.status \notin {"absent", "received"},
           \A d \in Calls : row'[d].state \in Reports(d) \/ Plain(d, row'[d].state),
           approval' \in [Calls -> {"absent", "pending", "approved", "rejected"}],
           \A d \in Calls : \/ approval'[d] = approval[d]
                            \/ approval[d] = "absent" /\ row'[d].state.status \notin {"absent", "received"}
    PROVE  Inv'
<1>1. att \in Attempts /\ att.emitted \in Seq(Events)
  BY InvTypes, AttemptFields
<1> DEFINE rest == Tail(att.emitted)
<1>2. rest \in Seq(Events) /\ Elements(rest) \subseteq Elements(att.emitted) /\ Elements(att.emitted) = {Head(att.emitted)} \cup Elements(rest)
  BY <1>1, ElementsOfTail
<1> HIDE DEF rest
<1>3. att'.emitted = rest
  BY DEF rest
<1>4. TableTypes' /\ Instants'
  BY <1>2, <1>3, InvTypes DEF TableTypes, Instants, EventSound
<1>5. Control'
  <2>1. att.retries > MaxSemanticRetries => \E e \in Elements(rest) : e.kind = "run_failed"
    BY <1>2 DEF Inv, Control
  <2> QED
    BY <1>3, <2>1 DEF Inv, Control, Calling, Running
<1>6. Decisions'
  <2>1. \A e \in Elements(rest) : e.kind # "request"
    BY DEF Inv, Decisions, rest
  <2>2. rest # <<>> => Head(rest) \in Elements(rest) /\ Elements(Tail(rest)) \subseteq Elements(rest)
    BY <1>2, ElementsIn, ElementsOfTail
  <2>3. \A c \in Calls : approval'[c] # "absent" => row'[c].state.status \notin {"absent", "received"}
    BY DEF Inv, Decisions
  <2>4. \A c \in Calls : att'.decision[c] # "none" =>
                            att'.decision[c] \in {"approved", "rejected"} /\ approval'[c] = att'.decision[c]
    BY <1>3 DEF Inv, Decisions
  <2> QED
    BY <1>3, <2>1, <2>2, <2>3, <2>4 DEF Decisions, Calling, Running
<1>7. OpenTurn'
  BY <1>3 DEF OpenTurn, InTurn, Calling, Running
<1>8. ASSUME NEW d \in Calls, NEW s \in Reports(d)' PROVE s \in Reports(d) \/ Plain(d, s)
  BY <1>2, <1>3, <1>8 DEF Reports
<1>9. \A c \in Calls : approval[c] = "approved" => approval'[c] = "approved"
  OBVIOUS
<1> QED
  BY <1>4, <1>5, <1>6, <1>7, <1>8, <1>9, AttemptGoesOn DEF Inv, Transcript, Running

\* The executor's memory once an event is done.
LEMMA HandledIs ==
    ASSUME Inv, att.emitted # <<>>
    PROVE  /\ Handled \in Attempts /\ Handled.pc = att.pc /\ Handled.tree = att.tree /\ Handled.todo = att.todo
           /\ Handled.outcomes = att.outcomes /\ Handled.unsaved = att.unsaved /\ Handled.emitted = Tail(att.emitted)
           /\ Handled.decision = att.decision /\ Handled.retries = att.retries /\ Handled.last = att.last
           /\ Handled.final = att.final
<1>1. att \in Attempts /\ att.emitted \in Seq(Events) /\ Tail(att.emitted) \in Seq(Events)
  BY InvTypes, AttemptFields, ElementsOfTail
<1> QED
  BY <1>1 DEF Handled, Attempts

\* The event that the executor handles next.
LEMMA NextEvent ==
    ASSUME Inv, att.emitted # <<>>, NEW e, e = Head(att.emitted)
    PROVE  /\ e \in Elements(att.emitted) /\ e \in Events /\ EventSound(e) /\ e.state \in States /\ e.at \in Nat
           /\ e.at <= Len(checkpoint) /\ (e.kind # "run_failed" => e.call \in Calls)
<1>1. att.emitted \in Seq(Events)
  BY InvTypes, AttemptFields
<1>2. e \in Elements(att.emitted)
  BY <1>1, ElementsIn
<1>3. e \in Events /\ EventSound(e)
  BY <1>2, InvTypes DEF Instants
<1> QED
  BY <1>2, <1>3 DEF Events, EventSound

LEMMA PersistStateStep ==
    ASSUME Inv, att.pc = "emit", att.emitted # <<>>, NEW e, e = Head(att.emitted), e.kind \in {"started", "completed"},
           PersistState(e)
    PROVE  Inv'
<1> DEFINE c == e.call
           error == SaveError(e.call, row[e.call].turn, e.state)
<1>0. Head(att.emitted).kind # "run_failed"
  OBVIOUS
<1>1. /\ e \in Elements(att.emitted) /\ e \in Events /\ EventSound(e) /\ e.state \in States /\ e.at \in Nat
      /\ e.at <= Len(checkpoint) /\ c \in Calls
  BY NextEvent
<1>2. att \in Attempts /\ att.last \in Nat /\ att.last <= Len(checkpoint) /\ att.final \in States
      /\ att.final.status \in {"none", "waiting_approval"} /\ TableTypes /\ Instants
  BY InvTypes, AttemptFields DEF Instants, Inv, Control
<1>3. UNCHANGED <<approval, checkpoint, messages, crashes>>
  BY DEF PersistState
<1>5. CASE att' = Handled /\ UNCHANGED <<run, row>>
  <2>1. \A d \in Calls : row[d].state \in Reports(d)
    BY DEF Reports
  <2> QED
    <3>2. row' = row /\ approval' = approval /\ UNCHANGED <<run, checkpoint, messages, crashes>>
      BY <1>3, <1>5
    <3>3. row \in [Calls -> Rows] /\ approval \in [Calls -> {"absent", "pending", "approved", "rejected"}]
          /\ \A d \in Calls : row[d].at <= Len(checkpoint)
      BY <1>2 DEF TableTypes, Instants
    <3> QED
      BY <1>0, <1>2, <1>5, <2>1, <3>2, <3>3, HandledIs, HandledFacts
<1>6. CASE Abort(error) /\ UNCHANGED row
  <2>1. error \in Errors
    BY SaveErrorIsOne
  <2> HIDE DEF error
  <2> QED
    BY <1>3, <1>6, <2>1, AbortStep DEF journal
<1>7. CASE error = "none" /\ SaveToolCall(e.call, row[e.call].turn, e.state, e.at) /\ att' = Handled /\ UNCHANGED run
  <2>1. e.state.status \in {"received", "waiting_approval", "running"} \cup Finished
    BY <1>1, StateValues DEF EventSound
  <2>2. row[c].turn \in 0..MaxTurns
    BY <1>1, InvTypes, RowFields
  <2> DEFINE state == e.state
             at == e.at
             turn == row[c].turn
  <2>3. /\ turn \in 0..MaxTurns /\ state \in States /\ at \in Nat /\ at <= Len(checkpoint)
        /\ state.status \in {"received", "waiting_approval", "running"} \cup Finished
        /\ SaveError(c, turn, state) = "none" /\ SaveToolCall(c, turn, state, at)
    BY <1>1, <1>7, <2>1, <2>2
  <2>4. state \in Reports(c) \/ Plain(c, state)
    <3>1. CASE e.kind = "completed"
      BY <1>1, <3>1 DEF Reports
    <3>2. CASE e.kind = "started"
      <4>1. state = Open("running")
        BY <1>1, <3>2 DEF EventSound
      <4>2. Open("running").status # "completed" /\ Open("running") # Failed("tool_failed")
        BY DEF Open, Failed, State
      <4> QED
        BY <4>1, <4>2 DEF Plain
    <3> QED
      BY <3>1, <3>2
  <2> HIDE DEF c, state, at, turn
  <2>5. /\ row' \in [Calls -> Rows]
        /\ \A d \in Calls : d # c => row'[d] = row[d]
        /\ row'[c].state \in {row[c].state, state}
        /\ row'[c].at <= Len(checkpoint)
        /\ row[c].state.status \notin {"absent", "received"} => row'[c].state.status \notin {"absent", "received"}
    BY <1>1, <2>3, SaveFacts
  <2>6. \A d \in Calls : row[d].state \in Reports(d)
    BY DEF Reports
  <2>7. \A d \in Calls : row'[d].state \in Reports(d) \/ Plain(d, row'[d].state)
    BY <2>4, <2>5, <2>6
  <2>8. \A d \in Calls : /\ row'[d].at <= Len(checkpoint)
                         /\ row[d].state.status \notin {"absent", "received"} => row'[d].state.status \notin {"absent", "received"}
    BY <1>2, <2>5 DEF Instants
  <2> QED
    <3>1. approval' = approval /\ UNCHANGED <<run, checkpoint, messages, crashes>>
          /\ approval \in [Calls -> {"absent", "pending", "approved", "rejected"}]
      BY <1>2, <1>3, <1>7 DEF TableTypes
    <3> QED
      BY <1>0, <1>2, <1>7, <2>5, <2>7, <2>8, <3>1, HandledIs, HandledFacts
<1> QED
  BY <1>5, <1>6, <1>7 DEF PersistState

\* A sequence with another first element.
LEMMA ChangedHead ==
    ASSUME NEW T, NEW s \in Seq(T), s # <<>>, NEW x \in T
    PROVE  LET t == [s EXCEPT ![1] = x]
           IN t \in Seq(T) /\ t # <<>> /\ Head(t) = x /\ Tail(t) = Tail(s)
<1> DEFINE t == [s EXCEPT ![1] = x]
<1>1. Len(s) \in Nat /\ Len(s) # 0 /\ 1 \in 1..Len(s)
  BY LenProperties, EmptySeq
<1>2. t \in Seq(T) /\ Len(t) = Len(s) /\ \A j \in 1..Len(s) : t[j] = IF j = 1 THEN x ELSE s[j]
  BY <1>1, ExceptSeq
<1> HIDE DEF t
<1>3. t # <<>> /\ Head(t) = x
  BY <1>1, <1>2, LenProperties, EmptySeq, ElementsIn
<1>4. /\ Tail(t) \in Seq(T) /\ Len(Tail(t)) = Len(s) - 1 /\ \A i \in 1..(Len(s) - 1) : Tail(t)[i] = t[i + 1]
      /\ Tail(s) \in Seq(T) /\ Len(Tail(s)) = Len(s) - 1 /\ \A i \in 1..(Len(s) - 1) : Tail(s)[i] = s[i + 1]
  BY <1>2, <1>3, HeadTailProperties
<1>5. \A i \in 1..(Len(s) - 1) : Tail(t)[i] = Tail(s)[i]
  <2> SUFFICES ASSUME NEW i \in 1..(Len(s) - 1) PROVE Tail(t)[i] = Tail(s)[i]
    OBVIOUS
  <2>1. i + 1 \in 1..Len(s) /\ i + 1 # 1
    BY <1>1
  <2> QED
    BY <1>2, <1>4, <2>1
<1>6. Tail(t) = Tail(s)
  BY <1>4, <1>5, SeqEqual
<1> QED
  BY <1>2, <1>3, <1>6 DEF t

LEMMA PersistWaitingStep ==
    ASSUME Inv, att.pc = "emit", att.emitted # <<>>, NEW e, e = Head(att.emitted), e.kind = "approval",
           PersistWaiting(e)
    PROVE  Inv'
<1> DEFINE c == e.call
<1>1. /\ e \in Elements(att.emitted) /\ e \in Events /\ e.state = Open("waiting_approval") /\ e.at \in Nat
      /\ e.at <= Len(checkpoint) /\ c \in Calls
  BY NextEvent DEF EventSound
<1>2. Open("waiting_approval") \in States /\ Open("waiting_approval").status = "waiting_approval"
  BY StateValues
<1>3. /\ att \in Attempts /\ att.emitted \in Seq(Events) /\ att.last \in Nat /\ att.last <= Len(checkpoint)
      /\ TableTypes /\ Instants /\ att.final.status \in {"none", "waiting_approval"}
      /\ Head(att.emitted).kind # "run_failed"
  BY InvTypes, AttemptFields DEF Instants, Inv, Control
<1>4. UNCHANGED <<run, approval, checkpoint, messages, crashes>>
  BY DEF PersistWaiting
<1>5. \A d \in Calls : row[d].state \in Reports(d)
  BY DEF Reports
<1>6. CASE row[c].state.status # "received"
  <2>1. att' = [Handled EXCEPT !.final = Open("waiting_approval")] /\ row' = row
    BY <1>1, <1>6 DEF PersistWaiting
  <2>2. Handled \in Attempts
    BY HandledIs
  <2>3. /\ att' \in Attempts /\ att'.pc = Handled.pc /\ att'.tree = Handled.tree /\ att'.todo = Handled.todo
        /\ att'.outcomes = Handled.outcomes /\ att'.unsaved = Handled.unsaved /\ att'.emitted = Handled.emitted
        /\ att'.decision = Handled.decision /\ att'.retries = Handled.retries /\ att'.last = Handled.last
        /\ att'.final = Open("waiting_approval")
    BY <1>2, <2>1, <2>2 DEF Attempts
  <2>4. row \in [Calls -> Rows] /\ approval \in [Calls -> {"absent", "pending", "approved", "rejected"}]
        /\ \A d \in Calls : row[d].at <= Len(checkpoint)
    BY <1>3 DEF TableTypes, Instants
  <2> QED
    BY <1>2, <1>3, <1>4, <1>5, <2>1, <2>3, <2>4, HandledIs, HandledFacts
<1>7. CASE row[c].state.status = "received"
  <2> DEFINE turn == row[c].turn
             at == e.at
             state == Open("waiting_approval")
             first == [e EXCEPT !.kind = "request"]
             rest == Tail(att.emitted)
             emitted == [att.emitted EXCEPT ![1] = first]
  <2>1. SaveToolCall(c, turn, state, at) /\ att' = [att EXCEPT !.emitted = emitted]
    <3>1. e = att.emitted[1]
      BY <1>3, ElementsIn
    <3> QED
      BY <1>1, <1>3, <1>7, <3>1 DEF PersistWaiting, Attempts
  <2>2. SaveError(c, turn, state) = "none"
    <3>1. state.status \in Successors("received")
      BY <1>2 DEF Successors
    <3> QED
      BY <1>7, <3>1 DEF SaveError
  <2>3. turn \in 0..MaxTurns /\ at \in Nat /\ at <= Len(checkpoint) /\ state \in States /\ state.status = "waiting_approval"
    BY <1>1, <1>2, InvTypes, RowFields
  <2>4. first \in Events /\ first.kind = "request" /\ first.call = c /\ first.state = state /\ first.at = at
    BY <1>1 DEF Events, Kinds
  <2> HIDE DEF first
  <2>5. emitted \in Seq(Events) /\ emitted # <<>> /\ Head(emitted) = first /\ Tail(emitted) = rest
    BY <1>3, <2>4, ChangedHead
  <2> HIDE DEF emitted, rest
  <2>6. Elements(emitted) = {first} \cup Elements(rest) /\ Elements(rest) \subseteq Elements(att.emitted)
    BY <1>3, <2>5, ElementsOfTail DEF rest
  <2> HIDE DEF c, at, turn, state
  <2>7. /\ row' \in [Calls -> Rows]
        /\ \A d \in Calls : d # c => row'[d] = row[d]
        /\ row'[c].at <= Len(checkpoint)
    BY <1>1, <2>1, <2>2, <2>3, SaveFacts
  <2>8. row'[c].state = state
    <3>1. SavedState(c, state) = state
      BY <1>7, TransitionTables DEF SavedState
    <3> QED
      BY <1>1, <1>3, <2>1, <3>1 DEF SaveToolCall, TableTypes
  <2>9. att' \in Attempts
    BY <1>3, <2>1, <2>5 DEF Attempts
  <2>10. /\ att'.pc = "emit" /\ att'.tree = att.tree /\ att'.todo = att.todo /\ att'.outcomes = att.outcomes
         /\ att'.unsaved = att.unsaved /\ att'.emitted = emitted /\ att'.decision = att.decision
         /\ att'.last = att.last /\ att'.final = att.final /\ att'.retries = att.retries
    BY <1>3, <2>1 DEF Attempts
  <2>11. TableTypes'
    BY <1>3, <1>4, <2>7 DEF TableTypes
  <2>12. Instants'
    <3>1. \A d \in Calls : row'[d].at <= Len(checkpoint)
      BY <1>3, <2>7 DEF Instants
    <3>2. EventSound(first)
      BY <1>1, <2>3, <2>4 DEF EventSound, state
    <3>3. \A d \in Elements(emitted) : EventSound(d)
      BY <1>3, <2>6, <3>2 DEF Instants
    <3> QED
      BY <1>3, <1>4, <2>10, <3>1, <3>3 DEF Instants, EventSound
  <2>13. Control'
    <3>1. att.retries > MaxSemanticRetries => \E d \in Elements(emitted) : d.kind = "run_failed"
      <4>1. Elements(att.emitted) = {e} \cup Elements(rest)
        BY <1>3, ElementsOfTail DEF rest
      <4> QED
        BY <2>6, <4>1 DEF Inv, Control
    <3> QED
      BY <1>4, <2>10, <3>1 DEF Inv, Control, Calling, Running
  <2>14. Decisions'
    <3>1. \A d \in Elements(rest) : d.kind # "request"
      BY DEF Inv, Decisions, rest
    <3>2. approval[c] = "absent"
      BY <1>1, <1>7 DEF Inv, Decisions
    <3>3. row'[c].state.status = "waiting_approval"
      BY <2>3, <2>8
    <3>4. \A d \in Calls : approval[d] # "absent" => row'[d].state.status \notin {"absent", "received"}
      BY <2>7, <3>3 DEF Inv, Decisions
    <3>5. \A d \in Calls : att'.decision[d] # "none" =>
                              att'.decision[d] \in {"approved", "rejected"} /\ approval'[d] = att'.decision[d]
      BY <1>4, <2>10 DEF Inv, Decisions
    <3>6. Head(att'.emitted).kind = "request" /\ Head(att'.emitted).call = c /\ Tail(att'.emitted) = rest
      BY <2>4, <2>5, <2>10
    <3>7. att'.pc = "emit" /\ approval' = approval
      BY <1>4, <2>10
    <3> QED
      BY <3>1, <3>2, <3>3, <3>4, <3>5, <3>6, <3>7 DEF Decisions, Calling, Running
  <2>15. OpenTurn'
    BY <2>10 DEF OpenTurn, InTurn, Calling, Running
  <2>16. ASSUME NEW d \in Calls, NEW s \in Reports(d)' PROVE s \in Reports(d) \/ Plain(d, s)
    <3>1. Plain(d, state)
      BY DEF Plain, Failed, Open, State, state
    <3>2. s \in Reports(d) \/ s = state
      BY <2>4, <2>6, <2>7, <2>8, <2>10, <2>16 DEF Reports
    <3> QED
      BY <3>1, <3>2
  <2> QED
    BY <1>4, <2>9, <2>10, <2>11, <2>12, <2>13, <2>14, <2>15, <2>16, AttemptGoesOn DEF Inv, Transcript, Running
<1> QED
  BY <1>6, <1>7

LEMMA PersistRequestStep ==
    ASSUME Inv, att.pc = "emit", att.emitted # <<>>, NEW e, e = Head(att.emitted), e.kind = "request",
           PersistRequest(e)
    PROVE  Inv'
<1> DEFINE c == e.call
<1>1. e.state = Open("waiting_approval") /\ c \in Calls
  BY NextEvent DEF EventSound
<1>2. Open("waiting_approval") \in States /\ Open("waiting_approval").status = "waiting_approval"
  BY StateValues
<1>3. /\ att.last <= Len(checkpoint) /\ TableTypes /\ Instants /\ Head(att.emitted).kind # "run_failed"
  BY InvTypes DEF Instants
<1>4. /\ row' = row /\ UNCHANGED <<run, checkpoint, messages, crashes>>
      /\ approval' = [approval EXCEPT ![c] = "pending"]
      /\ att' = [Handled EXCEPT !.final = Open("waiting_approval")]
  BY <1>1 DEF PersistRequest
<1>5. approval[c] = "absent" /\ row[c].state.status \notin {"absent", "received"}
  BY DEF Inv, Decisions
<1>6. \A d \in Calls : row[d].state \in Reports(d)
  BY DEF Reports
<1>7. Handled \in Attempts
  BY HandledIs
<1>8. /\ att' \in Attempts /\ att'.pc = Handled.pc /\ att'.tree = Handled.tree /\ att'.todo = Handled.todo
      /\ att'.outcomes = Handled.outcomes /\ att'.unsaved = Handled.unsaved /\ att'.emitted = Handled.emitted
      /\ att'.decision = Handled.decision /\ att'.retries = Handled.retries /\ att'.last = Handled.last
      /\ att'.final = Open("waiting_approval")
  BY <1>2, <1>4, <1>7 DEF Attempts
<1>9. row \in [Calls -> Rows] /\ \A d \in Calls : row[d].at <= Len(checkpoint)
  BY <1>3 DEF TableTypes, Instants
<1> HIDE DEF c
<1>10. /\ approval' \in [Calls -> {"absent", "pending", "approved", "rejected"}]
       /\ \A d \in Calls : d # c => approval'[d] = approval[d]
  BY <1>1, <1>3, <1>4 DEF TableTypes
<1>11. \A d \in Calls : \/ approval'[d] = approval[d]
                        \/ approval[d] = "absent" /\ row'[d].state.status \notin {"absent", "received"}
  BY <1>4, <1>5, <1>10
<1> QED
  BY <1>2, <1>3, <1>4, <1>6, <1>8, <1>9, <1>10, <1>11, HandledIs, HandledFacts

LEMMA NoteCheckpointStep ==
    ASSUME Inv, att.pc = "emit", att.emitted # <<>>, NEW e, e = Head(att.emitted), e.kind = "checkpoint",
           att' = [Handled EXCEPT !.last = e.at], UNCHANGED <<run, journal, crashes>>
    PROVE  Inv'
<1>1. e.at \in Nat /\ e.at <= Len(checkpoint)
  BY NextEvent
<1>2. /\ TableTypes /\ Instants /\ Head(att.emitted).kind # "run_failed" /\ att.final.status \in {"none", "waiting_approval"}
  BY InvTypes DEF Inv, Control
<1>3. \A d \in Calls : row[d].state \in Reports(d)
  BY DEF Reports
<1>4. Handled \in Attempts
  BY HandledIs
<1>5. /\ att' \in Attempts /\ att'.pc = Handled.pc /\ att'.tree = Handled.tree /\ att'.todo = Handled.todo
      /\ att'.outcomes = Handled.outcomes /\ att'.unsaved = Handled.unsaved /\ att'.emitted = Handled.emitted
      /\ att'.decision = Handled.decision /\ att'.retries = Handled.retries /\ att'.final = Handled.final
      /\ att'.last = e.at
  BY <1>1, <1>4 DEF Attempts
<1>6. /\ row \in [Calls -> Rows] /\ \A d \in Calls : row[d].at <= Len(checkpoint)
      /\ approval \in [Calls -> {"absent", "pending", "approved", "rejected"}]
  BY <1>2 DEF TableTypes, Instants
<1>7. row' = row /\ approval' = approval /\ UNCHANGED <<run, checkpoint, messages, crashes>>
  BY DEF journal
<1> QED
  BY <1>1, <1>2, <1>3, <1>5, <1>6, <1>7, HandledIs, HandledFacts

LEMMA EmitStep ==
    ASSUME Inv, Emit
    PROVE  Inv'
<1> DEFINE e == Head(att.emitted)
<1>1. att.pc = "emit" /\ att.emitted # <<>>
  BY DEF Emit
<1>2. CASE e.kind = "run_failed" /\ Ends(e.state) /\ UNCHANGED <<run, journal, crashes>>
  <2>1. att \in Attempts /\ e.state \in States /\ e.state.status = "failed"
    BY <1>1, <1>2, NextEvent, InvTypes DEF EventSound
  <2>2. att' \in Attempts
    BY <1>2, <2>1 DEF Ends, Attempts, Steps
  <2>3. /\ att'.pc = "finish" /\ att'.final = e.state /\ att'.tree = att.tree /\ att'.last = att.last
        /\ att'.outcomes = att.outcomes /\ att'.decision = att.decision /\ att'.emitted = att.emitted
        /\ att'.unsaved = att.unsaved /\ att'.retries = att.retries
    BY <1>2, <2>1 DEF Ends, Attempts
  <2>4. \A d \in Elements(att.emitted) : d.kind # "request"
    <3>1. att.emitted \in Seq(Events)
      BY <2>1, AttemptFields
    <3>2. Elements(att.emitted) = {e} \cup Elements(Tail(att.emitted))
      BY <1>1, <3>1, ElementsOfTail
    <3> QED
      BY <1>1, <1>2, <3>2 DEF Inv, Decisions
  <2>5. Control' /\ OpenTurn'
    BY <1>1, <1>2, <2>1, <2>3 DEF Inv, Control, OpenTurn, InTurn, Calling, Running, Finished
  <2> QED
    BY <1>1, <1>2, <2>2, <2>3, <2>4, <2>5, MemoryStep DEF Calling, Running
<1>3. CASE e.kind \in {"started", "completed"} /\ PersistState(e)
  BY <1>1, <1>3, PersistStateStep
<1>4. CASE e.kind = "approval" /\ PersistWaiting(e)
  BY <1>1, <1>4, PersistWaitingStep
<1>5. CASE e.kind = "request" /\ PersistRequest(e)
  BY <1>1, <1>5, PersistRequestStep
<1>6. CASE e.kind = "checkpoint" /\ att' = [Handled EXCEPT !.last = e.at] /\ UNCHANGED <<run, journal, crashes>>
  BY <1>1, <1>6, NoteCheckpointStep
<1> QED
  BY <1>2, <1>3, <1>4, <1>5, <1>6 DEF Emit

-----------------------------------------------------------------------------
(********************************* Recovery ********************************)

\* What recovery starts from: one of the stored workspaces, the newest state of the run if none was selected.
LEMMA RestoredTreeFacts ==
    ASSUME Inv, NEW k, k = SelectedCheckpoint
    PROVE  /\ k \in Nat /\ k <= Len(checkpoint)
           /\ RestoredTree(k) \in Seq(Changes) /\ TreeSound(RestoredTree(k))
           /\ \/ RestoredTree(k) = <<>>
              \/ \E j \in 1..Len(checkpoint) : RestoredTree(k) \in {checkpoint[j].pre, checkpoint[j].post}
           /\ run.last = 0 => RestoredTree(k) = Base
<1>1. run.last \in Nat /\ run.last <= Len(checkpoint) /\ Len(checkpoint) \in Nat
  BY InvTypes DEF Instants
<1>2. k \in Nat /\ k <= Len(checkpoint)
  BY <1>1 DEF SelectedCheckpoint
<1>3. <<>> \in Seq(Changes) /\ TreeSound(<<>>)
  BY EmptySeq, EmptyTree
<1>4. CASE k = 0
  <2>1. RestoredTree(k) = <<>>
    BY <1>4 DEF RestoredTree
  <2>2. run.last = 0 /\ Len(checkpoint) = 0
    BY <1>1, <1>4 DEF SelectedCheckpoint
  <2>3. checkpoint = <<>>
    BY <2>2, InvTypes, EmptySeq DEF TableTypes
  <2> QED
    BY <1>2, <1>3, <2>1, <2>3 DEF Base
<1>5. CASE k # 0
  <2>1. k \in 1..Len(checkpoint) /\ checkpoint[k] \in Checkpoints
    BY <1>1, <1>2, <1>5, InvTypes
  <2>2. RestoredTree(k) = IF ActiveBranch(k) /\ checkpoint[k].done THEN checkpoint[k].post ELSE checkpoint[k].pre
    BY <1>5 DEF RestoredTree
  <2>3. /\ RestoredTree(k) \in {checkpoint[k].pre, checkpoint[k].post}
        /\ checkpoint[k].pre \in Seq(Changes) /\ checkpoint[k].post \in Seq(Changes)
        /\ TreeSound(checkpoint[k].pre) /\ TreeSound(checkpoint[k].post)
    BY <2>1, <2>2, CheckpointFields DEF Inv, Trees
  <2>4. ASSUME run.last = 0 PROVE RestoredTree(k) = Base
    <3>1. k = Len(checkpoint) /\ run.epoch = 1
      BY <2>4 DEF SelectedCheckpoint, Inv, Restored
    <3>2. checkpoint[k].epoch \in 1..MaxEpoch /\ checkpoint[k].epoch <= run.epoch
      BY <2>1, CheckpointFields DEF Inv, Trees
    <3>3. checkpoint[k].epoch = run.epoch
      BY <3>1, <3>2, BoundsAssumption
    <3>4. checkpoint # <<>>
      BY <1>5, <3>1, EmptySeq
    <3> QED
      BY <2>2, <3>1, <3>3, <3>4 DEF Base, ActiveBranch
  <2> QED
    BY <1>2, <2>1, <2>3, <2>4
<1> QED
  BY <1>4, <1>5

\* The calls that recovery takes up again, and the decisions that there are for them.
LEMMA PendingFacts ==
    ASSUME Inv, NEW k
    PROVE  /\ PendingToolCalls(k) \in Seq(Calls)
           /\ \A c \in Elements(PendingToolCalls(k)) : c \in Calls /\ row[c].state.status \in {"received", "waiting_approval"}
           /\ RecoveryError(k) = "none" => \A c \in Elements(PendingToolCalls(k)) :
                                              approval[c] # "absent" => approval[c] \in {"approved", "rejected"}
<1> DEFINE S == {c \in Calls : ReadsCalls(k) /\ row[c].state.status \in {"received", "waiting_approval"}}
           pending == PendingToolCalls(k)
<1>1. pending = InOrder(S)
  BY DEF PendingToolCalls
<1>2. S \in SUBSET (1..NCalls) /\ NCalls \in Nat
  BY CallsAssumption DEF Calls
<1>3. InOrder(S) \in Seq(S) /\ S \subseteq Calls
  <2> HIDE DEF S
  <2>1. InOrder(S) \in Seq(S)
    BY <1>2, InOrderIsASeq
  <2> QED
    BY <1>2, <2>1 DEF Calls
<1>4. pending \in Seq(S)
  BY <1>1, <1>3
<1>5. pending \in Seq(Calls) /\ Elements(pending) \subseteq S
  <2> HIDE DEF S, pending
  <2> QED
    BY <1>3, <1>4, SeqMonotonic, ElementsIn
<1>6. \A c \in Elements(pending) : c \in Calls /\ row[c].state.status \in {"received", "waiting_approval"}
  BY <1>5
<1>7. ASSUME RecoveryError(k) = "none", NEW c \in Elements(pending), approval[c] # "absent"
      PROVE  approval[c] \in {"approved", "rejected"}
  <2>1. approval[c] \in {"absent", "pending", "approved", "rejected"}
    BY <1>6, InvTypes DEF TableTypes
  <2>2. ~(row[c].state.status = "waiting_approval" /\ approval[c] \in {"absent", "pending"})
    BY <1>7 DEF RecoveryError
  <2>3. ~(row[c].state.status = "received" /\ approval[c] # "absent")
    BY <1>7 DEF RecoveryError
  <2> QED
    BY <1>6, <1>7, <2>1, <2>2, <2>3
<1> QED
  BY <1>5, <1>6, <1>7

LEMMA RecoverStep ==
    ASSUME Inv, Recover
    PROVE  Inv'
<1> DEFINE k == SelectedCheckpoint
           pending == PendingToolCalls(k)
           tree == RestoredTree(k)
           outcomes == ToolOutcomes(k)
           pc == IF pending = <<>> THEN "model" ELSE "resume"
           decision == [c \in Calls |-> IF c \in Elements(pending) /\ approval[c] # "absent" THEN approval[c] ELSE "none"]
<1>1. /\ run.status = "queued" /\ RecoveryError(k) = "none" /\ run' = [run EXCEPT !.status = "running"]
      /\ att' = [NoAttempt EXCEPT !.pc = pc, !.tree = tree, !.outcomes = outcomes, !.decision = decision,
                                  !.todo = pending, !.last = k]
      /\ UNCHANGED <<journal, crashes>>
  BY DEF Recover
<1>2. RunType' /\ run'.status = "running" /\ run'.epoch = run.epoch /\ run'.last = run.last
  BY <1>1, InvTypes DEF RunType
<1>3. /\ k \in Nat /\ k <= Len(checkpoint) /\ tree \in Seq(Changes) /\ TreeSound(tree)
      /\ \/ tree = <<>>
         \/ \E j \in 1..Len(checkpoint) : tree \in {checkpoint[j].pre, checkpoint[j].post}
      /\ run.last = 0 => tree = Base
  BY RestoredTreeFacts
<1>4. /\ pending \in Seq(Calls)
      /\ \A c \in Elements(pending) : c \in Calls /\ row[c].state.status \in {"received", "waiting_approval"}
      /\ \A c \in Elements(pending) : approval[c] # "absent" => approval[c] \in {"approved", "rejected"}
  BY <1>1, PendingFacts
<1>5. outcomes \in [Calls -> States] /\ \A c \in Calls : outcomes[c] \in {row[c].state, Open("none")}
  <2>1. Open("none") \in States /\ \A c \in Calls : row[c].state \in States
    BY StateValues, InvTypes, RowFields
  <2> QED
    BY <2>1 DEF ToolOutcomes
<1> HIDE DEF k, pending, tree, outcomes
<1>6. /\ decision \in [Calls -> {"none", "pending", "approved", "rejected"}]
      /\ \A c \in Calls : decision[c] # "none" => decision[c] \in {"approved", "rejected"} /\ approval[c] = decision[c]
  BY <1>4
<1> HIDE DEF decision
<1>7. pc \in {"model", "resume"}
  OBVIOUS
<1> HIDE DEF pc
<1>8. att' \in Attempts
  BY <1>1, <1>3, <1>4, <1>5, <1>6, <1>7, NoAttemptIsOne DEF Attempts, Steps
<1>9. /\ att'.pc = pc /\ att'.tree = tree /\ att'.outcomes = outcomes /\ att'.decision = decision /\ att'.todo = pending
      /\ att'.last = k /\ att'.unsaved = <<>> /\ att'.emitted = <<>> /\ att'.retries = 0 /\ att'.final = Open("none")
  BY <1>1, NoAttemptIsOne DEF Attempts
<1>10. UNCHANGED <<row, approval, checkpoint, messages, crashes>>
  BY <1>1 DEF journal
<1>11. TableTypes' /\ Instants'
  BY <1>2, <1>3, <1>9, <1>10, InvTypes, ElementsOfFew DEF TableTypes, Instants
<1>12. Control'
  <2>1. Open("none").status = "none" /\ ~(0 > MaxSemanticRetries)
    BY StateValues, BoundsAssumption
  <2>2. \A c \in Elements(pending) : row[c].state.status # "absent"
    BY <1>4
  <2> QED
    BY <1>2, <1>7, <1>9, <1>10, <2>1, <2>2 DEF Control, Calling, Running
<1>13. Decisions'
  <2>1. \A c \in Calls : approval[c] # "absent" => row[c].state.status \notin {"absent", "received"}
    BY DEF Inv, Decisions
  <2> QED
    BY <1>6, <1>7, <1>9, <1>10, <2>1, ElementsOfFew DEF Decisions, Calling, Running
<1>14. Trees'
  <2>1. \A t : TreeSound(t)' <=> TreeSound(t)
    BY <1>2, <1>10 DEF TreeSound, NoDuplicates, ChangeSound, RequiresApproval
  <2> QED
    BY <1>2, <1>3, <1>9, <1>10, <2>1 DEF Inv, Trees
<1>15. ToolRuns' /\ OpenTurn'
  BY <1>7, <1>9 DEF ToolRuns, OpenTurn, InTurn, Calling, Running
<1>16. Transcript'
  BY <1>10, <1>15 DEF Inv, Transcript, Answered
<1>17. ASSUME NEW c \in Calls, NEW s \in Reports(c)' PROVE s \in Reports(c) \/ s = Open("none")
  BY <1>5, <1>9, <1>10, <1>17, ElementsOfFew DEF Reports
<1>18. Failed("tool_failed") # Open("none") /\ Open("none").status # "completed"
  BY DEF Failed, Open, State
<1>19. Failures'
  <2> SUFFICES ASSUME NEW c \in Calls, Effect[c] = "mutation", Failed("tool_failed") \in Reports(c)'
               PROVE  /\ CheckpointExists(c)' /\ Unstored(c)' /\ (Change(c) \notin Elements(att.tree))'
    BY <1>7, <1>9 DEF Failures, Running
  <2>1. CheckpointExists(c) /\ Unstored(c)
    BY <1>17, <1>18 DEF Inv, Failures
  <2>2. CheckpointExists(c)' /\ Unstored(c)' /\ Change(c)' = Change(c)
    BY <1>2, <1>10, <2>1 DEF CheckpointExists, Unstored, Change
  <2>3. Change(c) \notin Elements(tree)
    BY <1>3, <2>1, ElementsOfFew DEF Unstored
  <2> QED
    BY <1>9, <2>2, <2>3
<1>20. Restored'
  <2> SUFFICES ASSUME run.last = 0
               PROVE  /\ run.epoch = 1
                      /\ \A c \in Calls : Effect[c] = "mutation" /\ (\E s \in Reports(c)' : s.status = "completed")
                                            => Change(c) \in Elements(Base)
    BY <1>2, <1>3, <1>7, <1>9, <1>10 DEF Restored, Running, Base, Change
  <2> QED
    BY <1>17, <1>18 DEF Inv, Restored
<1> QED
  BY <1>2, <1>8, <1>11, <1>12, <1>13, <1>14, <1>15, <1>16, <1>19, <1>20 DEF Inv, TypeInv

-----------------------------------------------------------------------------
(******************************* Running a tool ****************************)

\* A call whose change is in a sound workspace has its checkpoint.
LEMMA ChangedHasCheckpoint ==
    ASSUME Inv, NEW c \in Calls, NEW t \in Seq(Changes), TreeSound(t), Change(c) \in Elements(t)
    PROVE  CheckpointExists(c)
<1>1. ChangeSound(Change(c)) /\ Change(c).call = c /\ Change(c).epoch = run.epoch
  BY TreeFacts, ChangeFields, InvTypes
<1>2. DOMAIN checkpoint = 1..Len(checkpoint)
  BY InvTypes, LenProperties DEF TableTypes
<1> QED
  BY <1>1, <1>2 DEF ChangeSound, CheckpointExists

LEMMA CreateCheckpointStep ==
    ASSUME Inv, NEW c \in Calls, CreateCheckpoint(c)
    PROVE  Inv'
<1> DEFINE new == [call |-> c, epoch |-> run.epoch, pre |-> att.tree, done |-> FALSE, post |-> <<>>,
                   conversation |-> messages \o att.unsaved, saved |-> messages]
           n == Len(checkpoint)
           made == [Event("checkpoint", c, Open("none")) EXCEPT !.at = Len(checkpoint) + 1]
           two == <<made, Started(c)>>
           emitted == att.emitted \o two
<1>1. /\ att.pc = "call" /\ att.todo # <<>> /\ c = Head(att.todo) /\ ~Known(c) /\ att.decision[c] # "rejected"
      /\ Effect[c] = "mutation" /\ ~CheckpointExists(c) /\ checkpoint' = Append(checkpoint, new)
      /\ att' = [att EXCEPT !.pc = "tool", !.emitted = emitted]
      /\ UNCHANGED <<run, row, approval, messages, crashes>>
  BY DEF CreateCheckpoint, MayRun, NextCall
<1>2. /\ att \in Attempts /\ att.tree \in Seq(Changes) /\ att.unsaved \in Seq(Messages) /\ att.emitted \in Seq(Events)
      /\ checkpoint \in Seq(Checkpoints) /\ messages \in Seq(Messages) /\ n \in Nat /\ run.epoch \in 1..MaxEpoch
      /\ \A k \in 1..n : checkpoint[k] \in Checkpoints
  BY InvTypes, AttemptFields DEF TableTypes
<1>3. /\ new \in Checkpoints /\ new.call = c /\ new.epoch = run.epoch /\ new.pre = att.tree /\ new.post = <<>>
      /\ new.done = FALSE /\ new.saved = messages
  <2>1. messages \o att.unsaved \in Seq(Messages) /\ <<>> \in Seq(Changes)
    BY <1>2, ElementsOfConcat, EmptySeq
  <2> QED
    BY <1>2, <2>1 DEF Checkpoints
<1> HIDE DEF new
<1>4. /\ checkpoint' \in Seq(Checkpoints) /\ Len(checkpoint') = n + 1 /\ checkpoint'[n + 1] = new
      /\ \A k \in 1..n : checkpoint'[k] = checkpoint[k]
      /\ checkpoint' # <<>> /\ DOMAIN checkpoint' = 1..(n + 1) /\ DOMAIN checkpoint = 1..n
      /\ \A k \in 1..(n + 1) : k \in 1..n \/ k = n + 1
  BY <1>1, <1>2, <1>3, AppendProperties, LenProperties
<1> HIDE DEF n
<1>5. /\ made \in Events /\ made.kind = "checkpoint" /\ made.call = c /\ made.at = n + 1
      /\ Started(c) \in Events /\ Started(c).kind = "started" /\ Started(c).call = c
      /\ Started(c).state = Open("running") /\ Started(c).at = n
  <2>1. Open("none") \in States /\ Open("running") \in States /\ "checkpoint" \in Kinds /\ "started" \in Kinds
    BY StateValues DEF Kinds
  <2>2. /\ Event("checkpoint", c, Open("none")) \in Events /\ Event("checkpoint", c, Open("none")).kind = "checkpoint"
        /\ Event("checkpoint", c, Open("none")).call = c
    BY <2>1, EventValue
  <2>3. /\ Started(c) \in Events /\ Started(c).kind = "started" /\ Started(c).call = c
        /\ Started(c).state = Open("running") /\ Started(c).at = n
    BY <2>1, EventValue DEF Started, n
  <2>4. n + 1 \in Nat
    BY <1>2
  <2> QED
    BY <2>2, <2>3, <2>4 DEF Events, n
<1> HIDE DEF made
<1>6. two \in Seq(Events) /\ Elements(two) = {made, Started(c)}
  BY <1>5, ElementsOfFew
<1> HIDE DEF two
<1>7. emitted \in Seq(Events) /\ Elements(emitted) = Elements(att.emitted) \cup {made, Started(c)}
  BY <1>2, <1>6, ElementsOfConcat
<1> HIDE DEF emitted
<1>8. att' \in Attempts
  BY <1>1, <1>2, <1>7 DEF Attempts, Steps, InTurn, Calling, Running
<1>9. /\ att'.pc = "tool" /\ att'.tree = att.tree /\ att'.todo = att.todo /\ att'.outcomes = att.outcomes
      /\ att'.unsaved = att.unsaved /\ att'.emitted = emitted /\ att'.decision = att.decision /\ att'.last = att.last
      /\ att'.final = att.final /\ att'.retries = att.retries
  BY <1>1, <1>2 DEF Attempts
<1>10. RunType' /\ TableTypes'
  BY <1>1, <1>4, InvTypes DEF RunType, TableTypes
<1>11. Instants'
  <2>1. ASSUME NEW e \in Elements(att'.emitted) PROVE EventSound(e)'
    <3>1. CASE e \in Elements(att.emitted)
      <4>1. EventSound(e) /\ e.at \in Nat
        BY <3>1, InvTypes DEF Instants, Events
      <4> QED
        BY <1>2, <1>4, <4>1 DEF EventSound, n
    <3>2. CASE e = made
      BY <1>2, <1>4, <1>5, <3>2 DEF EventSound
    <3>3. CASE e = Started(c)
      BY <1>2, <1>4, <1>5, <3>3 DEF EventSound
    <3> QED
      BY <1>7, <1>9, <2>1, <3>1, <3>2, <3>3
  <2>2. run.last <= n + 1 /\ att.last <= n + 1 /\ \A d \in Calls : row[d].at <= n + 1
    <3>1. run.last \in Nat /\ att.last \in Nat /\ \A d \in Calls : row[d].at \in Nat
      BY <1>2, InvTypes, AttemptFields, RowFields
    <3>2. run.last <= n /\ att.last <= n /\ \A d \in Calls : row[d].at <= n
      BY InvTypes DEF Instants, n
    <3>3. \A x \in Nat : x <= n => x <= n + 1
      BY <1>2
    <3> QED
      BY <3>1, <3>2, <3>3
  <2> QED
    BY <1>1, <1>4, <1>9, <2>1, <2>2 DEF Instants
<1>12. Control'
  BY <1>1, <1>9 DEF Inv, Control, Calling, Running
<1>13. Decisions'
  <2>1. \A e \in Elements(emitted) : e.kind # "request"
    BY <1>1, <1>5, <1>7 DEF Inv, Decisions
  <2>2. \A d \in Calls : Known(d)' <=> Known(d)
    BY <1>9 DEF Known
  <2> QED
    BY <1>1, <1>9, <2>1, <2>2, InvTypes DEF Inv, Decisions, Calling, Running, RequiresApproval
<1>14. \A d \in Calls : /\ Change(d)' = Change(d) /\ Reports(d)' = Reports(d) 
                        /\ CheckpointExists(d) => CheckpointExists(d)'
  <2>1. \A d \in Calls : Change(d)' = Change(d) /\ (CheckpointExists(d) => CheckpointExists(d)')
    BY <1>1, <1>2, <1>4 DEF Change, CheckpointExists
  <2>2. \A d \in Calls : Reports(d)' = Reports(d)
    BY <1>1, <1>5, <1>7, <1>9 DEF Reports
  <2> QED
    BY <2>1, <2>2
<1>15. ASSUME NEW t \in Seq(Changes), TreeSound(t) PROVE TreeSound(t)'
  <2>1. ASSUME NEW x \in Elements(t) PROVE ChangeSound(x)'
    <3>1. ChangeSound(x)
      BY <1>15, <2>1, TreeFacts
    <3>2. PICK k \in 1..n : checkpoint[k].call = x.call /\ checkpoint[k].epoch = x.epoch
      BY <3>1 DEF ChangeSound, n
    <3>3. k \in 1..(n + 1) /\ checkpoint'[k] = checkpoint[k]
      BY <1>2, <1>4
    <3> QED
      BY <1>1, <1>4, <3>1, <3>2, <3>3 DEF ChangeSound, RequiresApproval
  <2> QED
    BY <1>15, <2>1 DEF TreeSound, NoDuplicates
<1>16. \A k \in 1..n : /\ checkpoint[k].pre \in Seq(Changes) /\ checkpoint[k].post \in Seq(Changes)
                       /\ TreeSound(checkpoint[k].pre) /\ TreeSound(checkpoint[k].post) /\ checkpoint[k].epoch <= run.epoch
  BY <1>2, CheckpointFields DEF Inv, Trees, n
<1>17. TreeSound(att.tree) /\ TreeSound(<<>>) /\ <<>> \in Seq(Changes)
  BY EmptyTree, EmptySeq DEF Inv, Trees
<1>18. Trees'
  <2>1. ASSUME NEW k \in 1..(n + 1)
        PROVE  TreeSound(checkpoint[k].pre)' /\ TreeSound(checkpoint[k].post)' /\ checkpoint'[k].epoch <= run.epoch
    <3>1. CASE k \in 1..n
      <4>1. checkpoint'[k] = checkpoint[k]
        BY <1>4, <3>1
      <4> QED
        BY <1>15, <1>16, <3>1, <4>1
    <3>2. CASE k = n + 1
      <4>1. checkpoint'[k].pre = att.tree /\ checkpoint'[k].post = <<>> /\ checkpoint'[k].epoch = run.epoch
        BY <1>3, <1>4, <3>2
      <4>2. run.epoch <= run.epoch
        BY <1>2, BoundsAssumption
      <4>3. checkpoint'[k].pre \in Seq(Changes) /\ TreeSound(checkpoint'[k].pre)
        BY <1>2, <1>17, <4>1
      <4>4. checkpoint'[k].post \in Seq(Changes) /\ TreeSound(checkpoint'[k].post)
        BY <1>17, <4>1
      <4> QED
        BY <1>15, <4>1, <4>2, <4>3, <4>4
    <3> QED
      BY <1>4, <3>1, <3>2
  <2>2. TreeSound(att.tree)'
    BY <1>2, <1>9, <1>15, <1>17
  <2> QED
    BY <1>1, <1>4, <2>1, <2>2 DEF Trees
<1>19. ASSUME NEW d \in Calls, Unstored(d), Change(d) \notin Elements(att.tree) PROVE Unstored(d)'
  BY <1>3, <1>4, <1>14, <1>19, ElementsOfFew DEF Unstored, n
<1>20. Unstored(c) /\ Change(c) \notin Elements(att.tree)
  BY <1>1, <1>2, <1>16, <1>17, ChangedHasCheckpoint DEF Unstored, n
<1>21. RequiresApproval(c) => approval[c] = "approved"
  <2>1. c \in Elements(att.todo)
    BY <1>1, NextCallIs
  <2> QED
    BY <1>1, <2>1 DEF Inv, Decisions, Calling
<1>22. ToolRuns'
  <2>1. RequiresApproval(c)' => RequiresApproval(c)
    BY DEF RequiresApproval
  <2>2. Unstored(c)'
    BY <1>19, <1>20
  <2> QED
    BY <1>1, <1>3, <1>4, <1>9, <1>21, <2>1, <2>2 DEF ToolRuns
<1>23. Failures'
  <2> SUFFICES ASSUME NEW d \in Calls, Effect[d] = "mutation", Failed("tool_failed") \in Reports(d)
               PROVE  CheckpointExists(d)' /\ Unstored(d)' /\ Change(d) \notin Elements(att.tree) /\ d # c
    BY <1>1, <1>9, <1>14 DEF Failures
  <2>1. CheckpointExists(d) /\ Unstored(d) /\ Change(d) \notin Elements(att.tree)
    BY DEF Inv, Failures
  <2> QED
    BY <1>1, <1>14, <1>19, <2>1
<1>24. Restored'
  <2>1. Base' = att.tree
    BY <1>3, <1>4 DEF Base
  <2> SUFFICES ASSUME run.last = 0, NEW d \in Calls, Effect[d] = "mutation",
                      \E s \in Reports(d) : s.status = "completed"
               PROVE  Change(d) \in Elements(att.tree) /\ d # c
    BY <1>1, <1>9, <1>14, <2>1 DEF Inv, Restored
  <2>2. Change(d) \in Elements(att.tree)
    BY <1>1 DEF Inv, Restored
  <2> QED
    BY <1>20, <2>2
<1>25. Transcript'
  <2>1. Answered(messages) /\ \A k \in 1..n : Answered(checkpoint[k].saved)
    BY DEF Inv, Transcript, n
  <2>2. ASSUME NEW k \in 1..(n + 1) PROVE Answered(checkpoint[k].saved)'
    <3>1. checkpoint'[k].saved \in {messages, checkpoint[k].saved} /\ Answered(checkpoint'[k].saved)
      BY <1>3, <1>4, <2>1
    <3> QED
      BY <3>1 DEF Answered
  <2>3. Answered(messages)'
    BY <1>1, <2>1 DEF Answered
  <2>4. OpenTurn'
    BY <1>1, <1>9 DEF Inv, Transcript, OpenTurn, InTurn, Calling, Running
  <2> QED
    BY <1>4, <2>2, <2>3, <2>4 DEF Transcript
<1> QED
  BY <1>8, <1>10, <1>11, <1>12, <1>13, <1>18, <1>22, <1>23, <1>24, <1>25 DEF Inv, TypeInv

\* While a tool runs: its checkpoint, and the workspace it started from.
LEMMA ToolFacts ==
    ASSUME Inv, att.pc \in Running, NEW c, c = Head(att.todo), NEW k, k = Len(checkpoint)
    PROVE  /\ att.todo # <<>> /\ c \in Calls /\ k \in Nat /\ k \in 1..Len(checkpoint) /\ checkpoint # <<>>
           /\ checkpoint[k] \in Checkpoints /\ checkpoint[k].pre \in Seq(Changes) /\ TreeSound(checkpoint[k].pre)
           /\ checkpoint[k].call = c /\ checkpoint[k].epoch = run.epoch
           /\ Effect[c] = "mutation" /\ (RequiresApproval(c) => approval[c] = "approved") /\ Unstored(c)
           /\ CheckpointExists(c)
           /\ att.pc = "tool" => att.tree = checkpoint[k].pre
           /\ att.pc # "tool" => att.tree = Append(checkpoint[k].pre, Change(c))
           /\ Elements(Append(checkpoint[k].pre, Change(c))) = Elements(checkpoint[k].pre) \cup {Change(c)}
           /\ Append(checkpoint[k].pre, Change(c)) \in Seq(Changes)
<1>1. /\ att.todo # <<>> /\ checkpoint # <<>> /\ checkpoint[k].call = c /\ checkpoint[k].epoch = run.epoch
      /\ Effect[c] = "mutation" /\ (RequiresApproval(c) => approval[c] = "approved") /\ Unstored(c)
      /\ att.tree = IF att.pc = "tool" THEN checkpoint[k].pre ELSE Append(checkpoint[k].pre, Change(c))
  BY DEF Inv, ToolRuns
<1>2. c \in Calls
  BY <1>1, NextCallIs
<1>3. k \in Nat /\ k \in 1..Len(checkpoint) /\ DOMAIN checkpoint = 1..Len(checkpoint)
  BY <1>1, InvTypes, EmptySeq, LenProperties DEF TableTypes
<1>4. checkpoint[k] \in Checkpoints
  BY <1>3, InvTypes
<1>5. checkpoint[k].pre \in Seq(Changes) /\ TreeSound(checkpoint[k].pre)
  BY <1>3, <1>4, CheckpointFields DEF Inv, Trees
<1>6. Change(c) \in Changes
  BY <1>2, InvTypes, ChangeFields
<1>7. /\ Elements(Append(checkpoint[k].pre, Change(c))) = Elements(checkpoint[k].pre) \cup {Change(c)}
      /\ Append(checkpoint[k].pre, Change(c)) \in Seq(Changes)
  BY <1>5, <1>6, ElementsOfAppend, AppendProperties
<1>8. CheckpointExists(c)
  BY <1>1, <1>3 DEF CheckpointExists
<1> QED
  BY <1>1, <1>2, <1>3, <1>4, <1>5, <1>7, <1>8

\* Changes of different calls differ.
LEMMA ChangesDiffer ==
    ASSUME Inv, NEW c \in Calls, NEW d \in Calls, Change(c) = Change(d)
    PROVE  c = d
BY InvTypes, ChangeFields

LEMMA RunToolStep ==
    ASSUME Inv, RunTool
    PROVE  Inv'
<1> DEFINE c == Head(att.todo)
           k == Len(checkpoint)
           pre == checkpoint[k].pre
           tree == Append(pre, Change(c))
<1>1. att \in Attempts /\ att.pc = "tool" /\ UNCHANGED <<run, row, approval, checkpoint, messages, crashes>>
  BY InvTypes DEF RunTool, journal
<1>2. /\ att.todo # <<>> /\ c \in Calls /\ k \in 1..Len(checkpoint) /\ checkpoint # <<>>
      /\ pre \in Seq(Changes) /\ TreeSound(pre) /\ checkpoint[k].call = c /\ checkpoint[k].epoch = run.epoch
      /\ Effect[c] = "mutation" /\ (RequiresApproval(c) => approval[c] = "approved") /\ Unstored(c)
      /\ att.tree = pre /\ Elements(tree) = Elements(pre) \cup {Change(c)} /\ tree \in Seq(Changes)
  BY <1>1, ToolFacts DEF Running
<1>3. PICK next \in {"complete", "rollback"} : att' = [att EXCEPT !.pc = next, !.tree = tree]
  BY <1>1, <1>2 DEF RunTool, Attempts
<1>4. Change(c) \in Changes /\ Change(c).call = c /\ Change(c).epoch = run.epoch /\ Change(c) \notin Elements(pre)
  BY <1>2, InvTypes, ChangeFields DEF Unstored
<1>5. TreeSound(tree)
  <2>1. NoDuplicates(tree)
    <3> DEFINE n == Len(pre)
    <3>1. /\ n \in Nat /\ Len(tree) = n + 1 /\ \A i \in 1..n : tree[i] = pre[i] /\ pre[i] \in Elements(pre)
          /\ tree[n + 1] = Change(c) /\ \A i \in 1..(n + 1) : i \in 1..n \/ i = n + 1
      BY <1>2, <1>4, AppendProperties, LenProperties, ElementsIn
    <3>2. \A i, j \in 1..n : pre[i] = pre[j] => i = j
      BY <1>2 DEF TreeSound, NoDuplicates
    <3> HIDE DEF n, tree, pre
    <3> QED
      BY <1>4, <3>1, <3>2 DEF NoDuplicates
  <2>2. run.epoch <= run.epoch
    BY InvTypes, BoundsAssumption
  <2>3. ChangeSound(Change(c))
    BY <1>2, <1>4, <2>2 DEF ChangeSound
  <2> QED
    BY <1>2, <2>1, <2>3 DEF TreeSound
<1> HIDE DEF tree
<1>6. att' \in Attempts
  BY <1>1, <1>2, <1>3 DEF Attempts, Steps, InTurn, Calling, Running
<1>7. /\ att'.pc = next /\ att'.tree = tree /\ att'.todo = att.todo /\ att'.outcomes = att.outcomes
      /\ att'.unsaved = att.unsaved /\ att'.emitted = att.emitted /\ att'.decision = att.decision /\ att'.last = att.last
      /\ att'.final = att.final /\ att'.retries = att.retries
  BY <1>1, <1>3 DEF Attempts
<1>8. RunType' /\ TableTypes' /\ Instants'
  BY <1>1, <1>7, InvTypes DEF RunType, TableTypes, Instants, EventSound
<1>9. Control'
  BY <1>1, <1>7 DEF Inv, Control, Calling, Running
<1>10. Decisions'
  <2>1. \A d \in Calls : Known(d)' <=> Known(d)
    BY <1>7 DEF Known
  <2> QED
    BY <1>1, <1>7, <2>1, InvTypes DEF Inv, Decisions, Calling, Running, RequiresApproval
<1>11. Trees'
  <2>1. \A t : TreeSound(t)' <=> TreeSound(t)
    BY <1>1 DEF TreeSound, NoDuplicates, ChangeSound, RequiresApproval
  <2> QED
    BY <1>1, <1>5, <1>7, <2>1 DEF Inv, Trees
<1>12. ToolRuns'
  <2>1. Unstored(c)' /\ Change(c)' = Change(c)
    BY <1>1, <1>2, <1>7 DEF Unstored, Change
  <2>2. tree = Append(pre, Change(c))
    BY DEF tree
  <2> QED
    BY <1>1, <1>2, <1>7, <2>1, <2>2 DEF ToolRuns, RequiresApproval
<1>13. \A d \in Calls : Reports(d)' = Reports(d) /\ Change(d)' = Change(d)
  BY <1>1, <1>7 DEF Reports, Change
<1>14. Failures'
  <2> SUFFICES ASSUME NEW d \in Calls, Effect[d] = "mutation", Failed("tool_failed") \in Reports(d)
               PROVE  CheckpointExists(d)' /\ Unstored(d)' /\ Change(d) \notin Elements(tree) /\ d # c
    BY <1>7, <1>13 DEF Failures
  <2>1. CheckpointExists(d) /\ Unstored(d) /\ Change(d) \notin Elements(att.tree) /\ d # c
    BY <1>1 DEF Inv, Failures, Running
  <2>2. CheckpointExists(d)' /\ Unstored(d)'
    BY <1>1, <2>1 DEF CheckpointExists, Unstored, Change
  <2> QED
    BY <1>2, <2>1, <2>2, ChangesDiffer
<1>15. Restored'
  <2>1. Base' = Base
    BY <1>1 DEF Base
  <2> SUFFICES ASSUME run.last = 0, NEW d \in Calls, Effect[d] = "mutation", \E s \in Reports(d) : s.status = "completed"
               PROVE  Change(d) \in Elements(Base) /\ Change(d) \in Elements(tree) /\ d # c
    BY <1>1, <1>7, <1>13, <2>1 DEF Inv, Restored
  <2> QED
    BY <1>1, <1>2 DEF Inv, Restored, Running
<1>16. Transcript'
  BY <1>1, <1>7 DEF Inv, Transcript, Answered, OpenTurn, InTurn, Calling, Running
<1> QED
  BY <1>6, <1>8, <1>9, <1>10, <1>11, <1>12, <1>14, <1>15, <1>16 DEF Inv, TypeInv

\* A tool is done, one way or another, and its checkpoint may have got its result.
LEMMA ToolEnds ==
    ASSUME Inv, att.pc \in {"complete", "rollback"}, UNCHANGED <<run, row, approval, messages, crashes>>,
           NEW c, c = Head(att.todo), NEW k, k = Len(checkpoint),
           checkpoint' \in Seq(Checkpoints), Len(checkpoint') = k,
           \A j \in 1..k : /\ checkpoint'[j].call = checkpoint[j].call /\ checkpoint'[j].epoch = checkpoint[j].epoch
                           /\ checkpoint'[j].pre = checkpoint[j].pre /\ checkpoint'[j].saved = checkpoint[j].saved
                           /\ checkpoint'[j].post \in {checkpoint[j].post, att.tree},
           Base' \in {Base, att.tree},
           att' \in Attempts, att'.pc \notin Running \cup {"none"}, att'.tree \in {checkpoint[k].pre, att.tree},
           Instants', Control', Decisions', OpenTurn',
           \A d \in Calls : \A s \in Reports(d)' :
              \/ s \in Reports(d) \/ Plain(d, s)
              \/ d = c /\ s = Failed("tool_failed") /\ UNCHANGED checkpoint /\ att'.tree = checkpoint[k].pre
              \/ d = c /\ s.status = "completed" /\ att'.tree = att.tree /\ Base' = att.tree
    PROVE  Inv'
<1> DEFINE pre == checkpoint[k].pre
<1>1. /\ c \in Calls /\ k \in Nat /\ k \in 1..k /\ pre \in Seq(Changes) /\ TreeSound(pre) /\ Unstored(c) /\ CheckpointExists(c)
      /\ att.tree = Append(pre, Change(c)) /\ Elements(att.tree) = Elements(pre) \cup {Change(c)}
  <2>1. att.pc \in Running /\ att.pc # "tool"
    BY DEF Running
  <2>2. /\ c \in Calls /\ k \in Nat /\ k \in 1..Len(checkpoint) /\ Unstored(c) /\ CheckpointExists(c)
        /\ pre \in Seq(Changes) /\ TreeSound(pre)
    BY <2>1, ToolFacts
  <2>3. att.tree = Append(pre, Change(c))
    BY <2>1, ToolFacts
  <2>4. Elements(Append(pre, Change(c))) = Elements(pre) \cup {Change(c)}
    BY <2>1, ToolFacts
  <2> QED
    BY <2>2, <2>3, <2>4
<1>2. att.tree \in Seq(Changes) /\ TreeSound(att.tree) /\ att.pc # "none" /\ att.pc \in Running
  BY InvTypes, AttemptFields DEF Inv, Trees, Running
<1>3. RunType' /\ TableTypes'
  BY InvTypes DEF RunType, TableTypes
<1>4. \A d \in Calls : Change(d)' = Change(d) /\ (CheckpointExists(d) => CheckpointExists(d)')
  <2>1. DOMAIN checkpoint = 1..k /\ DOMAIN checkpoint' = 1..k
    BY InvTypes, LenProperties DEF TableTypes
  <2> QED
    BY <2>1 DEF Change, CheckpointExists
<1>5. ASSUME NEW t \in Seq(Changes), TreeSound(t) PROVE TreeSound(t)'
  <2>1. ASSUME NEW x \in Elements(t) PROVE ChangeSound(x)'
    <3>1. ChangeSound(x)
      BY <1>5, <2>1, TreeFacts
    <3> QED
      BY <3>1 DEF ChangeSound, RequiresApproval
  <2> QED
    BY <1>5, <2>1 DEF TreeSound, NoDuplicates
<1>6. Trees'
  <2>1. ASSUME NEW j \in 1..k
        PROVE  TreeSound(checkpoint[j].pre)' /\ TreeSound(checkpoint[j].post)' /\ checkpoint'[j].epoch <= run.epoch
    <3>1. /\ checkpoint[j].pre \in Seq(Changes) /\ checkpoint[j].post \in Seq(Changes)
          /\ TreeSound(checkpoint[j].pre) /\ TreeSound(checkpoint[j].post) /\ checkpoint[j].epoch <= run.epoch
      BY InvTypes, CheckpointFields DEF Inv, Trees
    <3>2. checkpoint'[j].post \in Seq(Changes) /\ TreeSound(checkpoint'[j].post)
      BY <1>2, <3>1
    <3> QED
      BY <1>5, <3>1, <3>2
  <2>2. TreeSound(att.tree)'
    <3>1. att'.tree \in Seq(Changes) /\ TreeSound(att'.tree)
      BY <1>1, <1>2
    <3> QED
      BY <1>5, <3>1
  <2> QED
    BY <2>1, <2>2 DEF Trees
<1>7. ToolRuns'
  BY DEF ToolRuns
<1>8. Failed("tool_failed").status # "completed"
  BY DEF Failed, State
<1>9. Failures'
  <2> SUFFICES ASSUME NEW d \in Calls, Effect[d] = "mutation", Failed("tool_failed") \in Reports(d)'
               PROVE  CheckpointExists(d)' /\ Unstored(d)' /\ Change(d) \notin Elements(att'.tree)
    BY <1>4 DEF Failures
  <2>1. CASE Failed("tool_failed") \in Reports(d)
    <3>1. CheckpointExists(d) /\ Unstored(d) /\ Change(d) \notin Elements(att.tree)
      BY <2>1 DEF Inv, Failures
    <3>2. Unstored(d)'
      BY <1>4, <3>1 DEF Unstored
    <3>3. Change(d) \notin Elements(pre)
      BY <1>1, <3>1 DEF Unstored
    <3> QED
      BY <1>4, <3>1, <3>2, <3>3
  <2>2. CASE d = c /\ UNCHANGED checkpoint /\ att'.tree = pre
    <3>1. Change(d) \notin Elements(pre)
      BY <1>1, <2>2 DEF Unstored
    <3>2. Unstored(d)'
      BY <1>1, <1>4, <2>2 DEF Unstored
    <3> QED
      BY <1>1, <1>4, <2>2, <3>1, <3>2
  <2> QED
    BY <1>8, <2>1, <2>2 DEF Plain
<1>10. Restored'
  <2> SUFFICES ASSUME run.last = 0
               PROVE  /\ run.epoch = 1
                      /\ \A d \in Calls : Effect[d] = "mutation" /\ (\E s \in Reports(d)' : s.status = "completed")
                                             => Change(d) \in Elements(Base') /\ Change(d) \in Elements(att'.tree)
    BY <1>4 DEF Restored
  <2>1. run.epoch = 1
    BY DEF Inv, Restored
  <2>2. ASSUME NEW d \in Calls, Effect[d] = "mutation", NEW s \in Reports(d)', s.status = "completed"
        PROVE  Change(d) \in Elements(Base') /\ Change(d) \in Elements(att'.tree)
    <3>1. CASE s \in Reports(d)
      <4>1. Change(d) \in Elements(Base) /\ Change(d) \in Elements(att.tree) /\ d # c
        BY <1>2, <2>2, <3>1 DEF Inv, Restored
      <4>2. Change(d) \in Elements(pre)
        BY <1>1, <4>1, ChangesDiffer
      <4> QED
        BY <4>1, <4>2
    <3>2. CASE d = c /\ att'.tree = att.tree /\ Base' = att.tree
      BY <1>1, <3>2
    <3> QED
      BY <1>8, <2>2, <3>1, <3>2 DEF Plain
  <2> QED
    BY <2>1, <2>2
<1>11. Transcript'
  <2>1. ASSUME NEW j \in 1..k PROVE Answered(checkpoint[j].saved)'
    <3>1. Answered(checkpoint[j].saved) /\ checkpoint'[j].saved = checkpoint[j].saved
      BY DEF Inv, Transcript
    <3> QED
      BY <3>1 DEF Answered
  <2>2. Answered(messages)'
    BY DEF Inv, Transcript, Answered
  <2> QED
    BY <2>1, <2>2 DEF Transcript
<1> QED
  BY <1>3, <1>6, <1>7, <1>9, <1>10, <1>11 DEF Inv, TypeInv

\* The result of the tool is bound to its checkpoint.
ResultStored == checkpoint' = [checkpoint EXCEPT ![Len(checkpoint)].done = TRUE, ![Len(checkpoint)].post = att.tree]

LEMMA CheckpointDone ==
    ASSUME Inv, att.pc = "complete", NEW k, k = Len(checkpoint), ResultStored
    PROVE  /\ checkpoint' \in Seq(Checkpoints) /\ Len(checkpoint') = k
           /\ \A j \in 1..k : /\ checkpoint'[j].call = checkpoint[j].call /\ checkpoint'[j].epoch = checkpoint[j].epoch
                              /\ checkpoint'[j].pre = checkpoint[j].pre /\ checkpoint'[j].saved = checkpoint[j].saved
                              /\ checkpoint'[j].post \in {checkpoint[j].post, att.tree}
           /\ Base' = att.tree
<1> DEFINE new == [checkpoint[k] EXCEPT !.done = TRUE, !.post = att.tree]
<1>1. k \in Nat /\ k \in 1..Len(checkpoint) /\ checkpoint[k] \in Checkpoints /\ checkpoint \in Seq(Checkpoints)
      /\ att.tree \in Seq(Changes)
  <2>1. att.pc \in Running
    BY DEF Running
  <2> QED
    BY <2>1, ToolFacts, InvTypes, AttemptFields DEF TableTypes
<1>2. /\ new \in Checkpoints /\ new.call = checkpoint[k].call /\ new.epoch = checkpoint[k].epoch
      /\ new.pre = checkpoint[k].pre /\ new.saved = checkpoint[k].saved /\ new.post = att.tree /\ new.done = TRUE
  BY <1>1 DEF Checkpoints
<1>3. checkpoint' = [checkpoint EXCEPT ![k] = new]
  BY <1>1 DEF ResultStored
<1> HIDE DEF new
<1>4. checkpoint' \in Seq(Checkpoints) /\ Len(checkpoint') = k /\ \A j \in 1..k : checkpoint'[j] = IF j = k THEN new ELSE checkpoint[j]
  BY <1>1, <1>2, <1>3, ExceptSeq
<1>5. \A j \in 1..k : /\ checkpoint'[j].call = checkpoint[j].call /\ checkpoint'[j].epoch = checkpoint[j].epoch
                      /\ checkpoint'[j].pre = checkpoint[j].pre /\ checkpoint'[j].saved = checkpoint[j].saved
                      /\ checkpoint'[j].post \in {checkpoint[j].post, att.tree}
  <2> SUFFICES ASSUME NEW j \in 1..k
               PROVE  /\ checkpoint'[j].call = checkpoint[j].call /\ checkpoint'[j].epoch = checkpoint[j].epoch
                      /\ checkpoint'[j].pre = checkpoint[j].pre /\ checkpoint'[j].saved = checkpoint[j].saved
                      /\ checkpoint'[j].post \in {checkpoint[j].post, att.tree}
    OBVIOUS
  <2>1. CASE j = k
    BY <1>2, <1>4, <2>1
  <2>2. CASE j # k
    BY <1>4, <2>2
  <2> QED
    BY <2>1, <2>2
<1>6. Base' = att.tree
  <2>1. checkpoint' # <<>> /\ checkpoint'[k] = new
    BY <1>1, <1>4, EmptySeq
  <2> QED
    BY <1>2, <1>4, <2>1 DEF Base
<1> QED
  BY <1>4, <1>5, <1>6

LEMMA CompleteToolStep ==
    ASSUME Inv, CompleteTool
    PROVE  Inv'
<1> DEFINE c == Head(att.todo)
           k == Len(checkpoint)
           state == Completed(att.tree)
<1>1. /\ att.pc = "complete" /\ att \in Attempts /\ att.tree \in Seq(Changes) /\ att' = Concluded(c, state, <<>>)
      /\ ResultStored /\ UNCHANGED <<run, row, approval, messages, crashes>>
  BY InvTypes, AttemptFields DEF CompleteTool, ResultStored
<1>2. state \in States /\ state.status = "completed" /\ state.status \in Finished
  BY <1>1, StateValues DEF Finished
<1>3. att.todo # <<>> /\ att.pc \in Calling
  BY <1>1, ToolFacts DEF Running, Calling
<1>4. /\ checkpoint' \in Seq(Checkpoints) /\ Len(checkpoint') = k
      /\ \A j \in 1..k : /\ checkpoint'[j].call = checkpoint[j].call /\ checkpoint'[j].epoch = checkpoint[j].epoch
                         /\ checkpoint'[j].pre = checkpoint[j].pre /\ checkpoint'[j].saved = checkpoint[j].saved
                         /\ checkpoint'[j].post \in {checkpoint[j].post, att.tree}
      /\ Base' = att.tree
  BY <1>1, CheckpointDone
<1>5. att' = [Concluded(c, state, <<>>) EXCEPT !.tree = att.tree]
  BY <1>1 DEF Concluded, Attempts
<1> HIDE DEF c, state, k
<1>6. /\ att' \in Attempts /\ att'.pc = "call" /\ att'.tree = att.tree
      /\ Instants' /\ Control' /\ Decisions' /\ OpenTurn'
      /\ \A d \in Calls : \A s \in Reports(d)' : s \in Reports(d) \/ (d = c /\ s = state)
  BY <1>1, <1>2, <1>3, <1>4, <1>5, ConcludedFacts DEF c, k
<1>7. \A d \in Calls : \A s \in Reports(d)' :
         s \in Reports(d) \/ (d = c /\ s.status = "completed" /\ att'.tree = att.tree /\ Base' = att.tree)
  BY <1>2, <1>4, <1>6
<1>8. /\ att.pc \in {"complete", "rollback"} /\ c = Head(att.todo) /\ k = Len(checkpoint) /\ Base' \in {Base, att.tree}
      /\ att'.pc \notin Running \cup {"none"} /\ att'.tree \in {checkpoint[k].pre, att.tree}
  BY <1>1, <1>4, <1>6 DEF c, k, Running
<1> QED
  BY <1>1, <1>4, <1>6, <1>7, <1>8, ToolEnds

LEMMA CompleteFailsStep ==
    ASSUME Inv, CompleteFails
    PROVE  Inv'
<1> DEFINE c == Head(att.todo)
           k == Len(checkpoint)
<1>1. /\ att.pc = "complete" /\ att \in Attempts /\ att.tree \in Seq(Changes)
      /\ UNCHANGED checkpoint \/ ResultStored
      /\ UNCHANGED <<run, row, approval, messages, crashes>>
  BY InvTypes, AttemptFields DEF CompleteFails, ResultStored
<1>2. PICK tree \in {checkpoint[k].pre, att.tree}, error \in {"checkpoint_finalize_failed", "checkpoint_restore_failed"} :
        att' = [Broken(c, error) EXCEPT !.tree = tree]
  <2>1. CASE att' = [Broken(c, "checkpoint_finalize_failed") EXCEPT !.tree = RollbackTree]
    BY <2>1 DEF RollbackTree
  <2>2. CASE att' = Broken(c, "checkpoint_restore_failed")
    <3>1. att' = [Broken(c, "checkpoint_restore_failed") EXCEPT !.tree = att.tree]
      BY <1>1, <2>2 DEF Broken, Attempts
    <3> QED
      BY <3>1
  <2> QED
    BY <2>1, <2>2 DEF CompleteFails
<1>3. att.todo # <<>> /\ att.pc \in Calling /\ tree \in Seq(Changes) /\ error \in Errors
  <2>1. att.pc \in Running /\ error \in Errors
    BY <1>1 DEF Running, Errors
  <2>2. att.todo # <<>> /\ checkpoint[k].pre \in Seq(Changes)
    BY <2>1, ToolFacts
  <2> QED
    BY <1>1, <2>1, <2>2 DEF Calling
<1>4. /\ checkpoint' \in Seq(Checkpoints) /\ Len(checkpoint') = k
      /\ \A j \in 1..k : /\ checkpoint'[j].call = checkpoint[j].call /\ checkpoint'[j].epoch = checkpoint[j].epoch
                         /\ checkpoint'[j].pre = checkpoint[j].pre /\ checkpoint'[j].saved = checkpoint[j].saved
                         /\ checkpoint'[j].post \in {checkpoint[j].post, att.tree}
      /\ Base' \in {Base, att.tree}
  <2>1. CASE UNCHANGED checkpoint
    BY <2>1, InvTypes DEF TableTypes, Base
  <2>2. CASE ResultStored
    BY <1>1, <2>2, CheckpointDone
  <2> QED
    BY <1>1, <2>1, <2>2
<1>5. Plain(c, Failed(error))
  BY DEF Plain, Failed, State
<1> HIDE DEF c, k
<1>6. /\ att' \in Attempts /\ att'.pc = "journal" /\ att'.tree = tree
      /\ Instants' /\ Control' /\ Decisions' /\ OpenTurn'
      /\ \A d \in Calls : \A s \in Reports(d)' : s \in Reports(d) \/ (d = c /\ s = Failed(error))
  BY <1>1, <1>2, <1>3, <1>4, BrokenFacts DEF c, k
<1>7. \A d \in Calls : \A s \in Reports(d)' : s \in Reports(d) \/ Plain(d, s)
  BY <1>5, <1>6
<1> QED
  BY <1>1, <1>2, <1>4, <1>6, <1>7, ToolEnds DEF c, k, Running

LEMMA RollbackStep ==
    ASSUME Inv, Rollback
    PROVE  Inv'
<1> DEFINE c == Head(att.todo)
           k == Len(checkpoint)
           state == Failed("tool_failed")
           pre == checkpoint[k].pre
<1>1. /\ att.pc = "rollback" /\ att \in Attempts /\ att' = [Concluded(c, state, <<>>) EXCEPT !.tree = pre]
      /\ UNCHANGED <<run, row, approval, checkpoint, messages, crashes>>
  BY InvTypes DEF Rollback, RollbackTree, journal
<1>2. state \in States /\ state.status \in Finished
  BY StateValues DEF Finished, Errors
<1>3. att.todo # <<>> /\ att.pc \in Calling /\ pre \in Seq(Changes)
  <2>1. att.pc \in Running
    BY <1>1 DEF Running
  <2> QED
    BY <2>1, ToolFacts DEF Calling
<1>4. /\ checkpoint' \in Seq(Checkpoints) /\ Len(checkpoint') = k /\ Base' = Base
      /\ \A j \in 1..k : /\ checkpoint'[j].call = checkpoint[j].call /\ checkpoint'[j].epoch = checkpoint[j].epoch
                         /\ checkpoint'[j].pre = checkpoint[j].pre /\ checkpoint'[j].saved = checkpoint[j].saved
                         /\ checkpoint'[j].post \in {checkpoint[j].post, att.tree}
  BY <1>1, InvTypes DEF TableTypes, Base
<1> HIDE DEF c, state, k, pre
<1>5. /\ att' \in Attempts /\ att'.pc = "call" /\ att'.tree = pre
      /\ Instants' /\ Control' /\ Decisions' /\ OpenTurn'
      /\ \A d \in Calls : \A s \in Reports(d)' : s \in Reports(d) \/ (d = c /\ s = state)
  BY <1>1, <1>2, <1>3, <1>4, ConcludedFacts DEF c, k
<1> QED
  BY <1>1, <1>4, <1>5, ToolEnds DEF c, k, pre, state, Running

-----------------------------------------------------------------------------
(******************************* The outside *******************************)

LEMMA DecideStep ==
    ASSUME Inv, NEW c \in Calls, NEW decision \in {"approved", "rejected"}, Decide(c, decision)
    PROVE  Inv'
<1>1. /\ approval[c] = "pending" /\ approval' = [approval EXCEPT ![c] = decision]
      /\ run' \in {run, [run EXCEPT !.status = "queued"]} /\ (run'.status # run.status => run.status = "waiting_approval")
      /\ UNCHANGED <<row, checkpoint, messages, crashes, att>>
  BY InvTypes DEF Decide, RunType
<1>2. /\ RunType' /\ run'.epoch = run.epoch /\ run'.last = run.last
      /\ (run'.status = "running") <=> (run.status = "running")
  BY <1>1, InvTypes DEF RunType
<1>3. /\ approval' \in [Calls -> {"absent", "pending", "approved", "rejected"}] /\ approval'[c] = decision
      /\ \A d \in Calls : d # c => approval'[d] = approval[d]
  BY <1>1, InvTypes DEF TableTypes
<1>4. TableTypes' /\ att' \in Attempts /\ Instants'
  BY <1>1, <1>2, <1>3, InvTypes DEF TableTypes, Instants, EventSound
<1>5. Control'
  BY <1>1, <1>2 DEF Inv, Control
<1>6. Decisions'
  <2>1. att.pc = "emit" /\ att.emitted # <<>> /\ Head(att.emitted).kind = "request" =>
          approval'[Head(att.emitted).call] = "absent"
    <3> SUFFICES ASSUME att.pc = "emit", att.emitted # <<>>, Head(att.emitted).kind = "request"
                 PROVE  approval'[Head(att.emitted).call] = "absent"
      OBVIOUS
    <3>1. Head(att.emitted).call \in Calls
      BY NextEvent
    <3> QED
      BY <1>1, <1>3, <3>1 DEF Inv, Decisions
  <2>2. \A d \in Calls : approval'[d] # "absent" => row[d].state.status \notin {"absent", "received"}
    BY <1>1, <1>3 DEF Inv, Decisions
  <2>3. \A d \in Calls : att.decision[d] # "none" =>
                            att.decision[d] \in {"approved", "rejected"} /\ approval'[d] = att.decision[d]
    BY <1>1, <1>3 DEF Inv, Decisions
  <2> QED
    BY <1>1, <2>1, <2>2, <2>3 DEF Inv, Decisions, Known, RequiresApproval
<1>7. Trees'
  BY <1>1, <1>2, <1>3, TreesRest
<1>8. \A d \in Calls : Reports(d)' = Reports(d) /\ Change(d)' = Change(d) /\ (Unstored(d)' <=> Unstored(d))
  BY <1>1, <1>2 DEF Reports, Change, Unstored
<1>9. ToolRuns'
  <2> SUFFICES ASSUME att.pc \in Running PROVE ToolRuns'
    BY <1>1 DEF ToolRuns
  <2>1. Head(att.todo) \in Calls
    BY ToolFacts
  <2>2. RequiresApproval(Head(att.todo)) => approval'[Head(att.todo)] = "approved"
    BY <1>1, <1>3, <2>1 DEF Inv, ToolRuns
  <2>3. Unstored(Head(att.todo))' /\ Change(Head(att.todo))' = Change(Head(att.todo))
    BY <1>1, <1>2, <2>1 DEF Inv, ToolRuns, Unstored, Change
  <2> QED
    BY <1>1, <1>2, <2>2, <2>3 DEF Inv, ToolRuns, RequiresApproval
<1>10. Failures'
  <2>1. \A d \in Calls : CheckpointExists(d)' <=> CheckpointExists(d)
    BY <1>1, <1>2 DEF CheckpointExists
  <2> QED
    BY <1>1, <1>8, <2>1 DEF Inv, Failures
<1>11. Restored'
  <2>1. Base' = Base
    BY <1>1 DEF Base
  <2> QED
    BY <1>1, <1>2, <1>8, <2>1 DEF Inv, Restored
<1>12. Transcript'
  BY <1>1 DEF Inv, Transcript, Answered, OpenTurn
<1> QED
  BY <1>2, <1>4, <1>5, <1>6, <1>7, <1>9, <1>10, <1>11, <1>12 DEF Inv, TypeInv

LEMMA RewindStep ==
    ASSUME Inv, NEW k \in DOMAIN checkpoint, Rewind(k)
    PROVE  Inv'
<1> USE NoAttemptIsOne
<1>1. /\ run.status # "running" /\ run.epoch < MaxEpoch
      /\ run' = [status |-> "queued", epoch |-> run.epoch + 1, last |-> k, error |-> "none"]
      /\ row' = [c \in Calls |-> [state |-> Open("absent"), turn |-> 0, at |-> 0]]
      /\ approval' = [c \in Calls |-> "absent"] /\ messages' = checkpoint[k].saved
      /\ UNCHANGED <<checkpoint, crashes, att>>
  BY DEF Rewind, Finished
<1>2. att = NoAttempt
  BY <1>1 DEF Inv, Control
<1>3. k \in 1..Len(checkpoint) /\ k \in Nat /\ k # 0 /\ k <= Len(checkpoint) /\ Len(checkpoint) \in Nat
  BY InvTypes, LenProperties DEF TableTypes
<1>4. /\ run.epoch \in Nat /\ run.epoch + 1 \in 1..MaxEpoch /\ run'.epoch = run.epoch + 1 /\ run'.last = k
      /\ run'.status = "queued"
  BY <1>1, InvTypes, BoundsAssumption
<1>5. RunType'
  BY <1>1, <1>3, <1>4 DEF RunType, Errors
<1>6. checkpoint[k] \in Checkpoints /\ checkpoint[k].saved \in Seq(Messages) /\ Answered(checkpoint[k].saved)
  BY <1>3, InvTypes, CheckpointFields DEF Inv, Transcript
<1>7. row' \in [Calls -> Rows] /\ \A c \in Calls : row'[c].state = Open("absent") /\ row'[c].at = 0
  <2>1. [state |-> Open("absent"), turn |-> 0, at |-> 0] \in Rows
    <3>1. Open("absent") \in States /\ 0 \in 0..MaxTurns /\ 0 \in Nat
      BY StateValues, BoundsAssumption
    <3> QED
      BY <3>1 DEF Rows
  <2> QED
    BY <1>1, <2>1
<1>8. TableTypes' /\ att' \in Attempts
  BY <1>1, <1>6, <1>7, InvTypes DEF TableTypes
<1>9. Instants'
  BY <1>1, <1>2, <1>3, <1>4, <1>7, ElementsOfFew DEF Instants
<1>10. Control'
  BY <1>1, <1>2, <1>4, StateValues, BoundsAssumption DEF Control, Calling, Running
<1>11. Decisions'
  BY <1>1, <1>2, ElementsOfFew DEF Decisions, Calling, Running
<1>12. Trees'
  <2>1. ASSUME NEW t \in Seq(Changes), TreeSound(t) PROVE TreeSound(t)'
    <3>1. ASSUME NEW x \in Elements(t) PROVE ChangeSound(x)'
      <4>1. ChangeSound(x) /\ x \in Changes
        BY <2>1, <3>1, TreeFacts
      <4>2. x.epoch \in Nat /\ x.epoch <= run.epoch
        BY <4>1, BoundsAssumption DEF ChangeSound, Changes
      <4>3. x.epoch <= run.epoch + 1 /\ x.epoch # run.epoch + 1
        BY <1>4, <4>2
      <4> QED
        BY <1>1, <1>4, <4>1, <4>3 DEF ChangeSound
    <3> QED
      BY <2>1, <3>1 DEF TreeSound, NoDuplicates
  <2>2. TreeSound(att.tree)'
    BY <1>1, <1>2, EmptyTree, EmptySeq, <2>1
  <2>3. ASSUME NEW j \in 1..Len(checkpoint)
        PROVE  TreeSound(checkpoint[j].pre)' /\ TreeSound(checkpoint[j].post)' /\ checkpoint[j].epoch <= run.epoch + 1
    <3>1. /\ checkpoint[j].pre \in Seq(Changes) /\ checkpoint[j].post \in Seq(Changes) /\ checkpoint[j].epoch \in 1..MaxEpoch
          /\ TreeSound(checkpoint[j].pre) /\ TreeSound(checkpoint[j].post) /\ checkpoint[j].epoch <= run.epoch
      BY InvTypes, CheckpointFields DEF Inv, Trees
    <3>2. checkpoint[j].epoch <= run.epoch + 1
      BY <1>4, <3>1, BoundsAssumption
    <3> QED
      BY <1>1, <2>1, <3>1, <3>2
  <2> QED
    BY <1>1, <1>4, <2>2, <2>3 DEF Trees
<1>13. ToolRuns' /\ OpenTurn'
  BY <1>1, <1>2 DEF ToolRuns, OpenTurn, InTurn, Calling, Running
<1>14. Failures' /\ Restored'
  <2>1. ASSUME NEW c \in Calls, NEW s \in Reports(c)' PROVE s = Open("absent") \/ s = Open("none")
    BY <1>1, <1>2, <1>7, <2>1, ElementsOfFew DEF Reports
  <2>2. Failed("tool_failed") # Open("absent") /\ Failed("tool_failed") # Open("none")
    BY DEF Failed, Open, State
  <2> QED
    BY <1>3, <1>4, <2>1, <2>2 DEF Failures, Restored
<1>15. Transcript'
  <2>1. Answered(messages)'
    <3>1. Answered(messages')
      BY <1>1, <1>6
    <3> QED
      BY <3>1 DEF Answered
  <2>2. ASSUME NEW j \in 1..Len(checkpoint) PROVE Answered(checkpoint[j].saved)'
    <3>1. Answered(checkpoint[j].saved) /\ checkpoint' = checkpoint
      BY <1>1 DEF Inv, Transcript
    <3> QED
      BY <3>1 DEF Answered
  <2> QED
    BY <1>1, <1>13, <2>1, <2>2 DEF Transcript
<1> QED
  BY <1>5, <1>8, <1>9, <1>10, <1>11, <1>12, <1>13, <1>14, <1>15 DEF Inv, TypeInv

LEMMA StutterStep ==
    ASSUME Inv, UNCHANGED vars
    PROVE  Inv'
<1>1. UNCHANGED <<run, row, approval, checkpoint, messages, crashes, att>>
  BY DEF vars
<1>2. TypeInv' /\ Control'
  BY <1>1 DEF Inv, TypeInv, RunType, TableTypes, Instants, EventSound, Control
<1>3. Decisions' /\ Transcript'
  BY <1>1 DEF Inv, Decisions, Known, RequiresApproval, Transcript, Answered, OpenTurn
<1>4. Trees'
  BY <1>1, TreesRest
<1>5. \A c \in Calls : /\ Reports(c)' = Reports(c) /\ Change(c)' = Change(c) /\ (Unstored(c)' <=> Unstored(c))
                       /\ (CheckpointExists(c)' <=> CheckpointExists(c))
  BY <1>1 DEF Reports, Change, Unstored, CheckpointExists
<1>6. Failures' /\ Restored'
  BY <1>1, <1>5 DEF Inv, Failures, Restored, Base
<1>7. ToolRuns'
  BY <1>1 DEF Inv, ToolRuns, Unstored, Change, RequiresApproval
<1> QED
  BY <1>2, <1>3, <1>4, <1>6, <1>7 DEF Inv

-----------------------------------------------------------------------------
(******************************* The theorems ******************************)

LEMMA JournalNext == Inv /\ [Next]_vars => Inv'
<1> SUFFICES ASSUME Inv, [Next]_vars PROVE Inv'
  OBVIOUS
<1>1. CASE Recover \/ RecoveryFails \/ JournalPending \/ ReceivePending
  BY <1>1, RecoverStep, RecoveryFailsStep, JournalPendingStep, ReceivePendingStep
<1>2. CASE StartModel \/ TurnLimit \/ ModelFails \/ EndStream \/ FinalText \/ EmptyResponse
  BY <1>2, StartModelStep, LimitSteps, EndStreamStep, FinalTextStep, EmptyResponseStep
<1>3. CASE \E c \in Calls : ReceiveCall(c)
  BY <1>3, ReceiveCallStep
<1>4. CASE RejectInvalidTurn \/ AskApproval \/ BeginCalls
  BY <1>4, RejectInvalidTurnStep, AskApprovalStep, BeginCallsStep
<1>5. CASE \E c \in Calls : \/ ReuseOutcome(c) \/ RefuseRejected(c) \/ AnswerInteraction(c)
                            \/ RunReadOnly(c) \/ CreateCheckpoint(c) \/ CheckpointFails(c)
  BY <1>5, ReuseOutcomeStep, RefuseRejectedStep, AnswerInteractionStep, RunReadOnlyStep, CreateCheckpointStep, BrokenSteps
<1>6. CASE RunTool \/ CompleteTool \/ CompleteFails \/ Rollback \/ RollbackFails
  BY <1>6, RunToolStep, CompleteToolStep, CompleteFailsStep, RollbackStep, BrokenSteps
<1>7. CASE EndCalls \/ JournalResults \/ Emit \/ EndTurn \/ Finish
  BY <1>7, EndCallsStep, JournalResultsStep, EmitStep, EndTurnStep, FinishStep
<1>8. CASE Crash \/ Rest \/ UNCHANGED vars
  BY <1>8, CrashStep, StutterStep DEF Rest
<1>9. CASE \E c \in Calls, d \in {"approved", "rejected"} : Decide(c, d)
  BY <1>9, DecideStep
<1>10. CASE \E k \in DOMAIN checkpoint : Rewind(k)
  BY <1>10, RewindStep
<1> QED
  BY <1>1, <1>2, <1>3, <1>4, <1>5, <1>6, <1>7, <1>8, <1>9, <1>10 DEF Next, WorkerStep

LEMMA JournalInvariant == Spec => []Inv
BY JournalInit, JournalNext, PTL DEF Spec

\* What the tables and the attempt are, as the runs check it.
LEMMA InvIsTypeOK == Inv => TypeOK
<1> SUFFICES ASSUME Inv PROVE TypeOK
  OBVIOUS
<1>1. /\ run.status \in {"queued", "running", "waiting_approval"} \cup Finished /\ run.epoch \in 1..MaxEpoch
      /\ run.last \in Nat /\ run.error \in Errors /\ Len(checkpoint) \in Nat
      /\ approval \in [Calls -> {"absent", "pending", "approved", "rejected"}] /\ crashes \in 0..MaxCrashes
      /\ \A c \in Calls : row[c].state \in States /\ row[c].turn \in 0..MaxTurns /\ row[c].at \in Nat
  BY InvTypes, RowFields DEF TableTypes
<1>2. /\ att.last \in Nat /\ att.tree \in Seq(Changes) /\ att.outcomes \in [Calls -> States]
      /\ att.retries \in 0..(MaxSemanticRetries + 1)
  BY InvTypes, AttemptFields
<1>3. run.last \in 0..Len(checkpoint) /\ att.last \in 0..Len(checkpoint) /\ \A c \in Calls : row[c].at \in 0..Len(checkpoint)
  <2>1. run.last <= Len(checkpoint) /\ att.last <= Len(checkpoint) /\ \A c \in Calls : row[c].at <= Len(checkpoint)
    BY InvTypes DEF Instants
  <2>2. \A n \in Nat : n <= Len(checkpoint) => n \in 0..Len(checkpoint)
    BY <1>1
  <2> QED
    BY <1>1, <1>2, <2>1, <2>2
<1>4. \A k \in DOMAIN checkpoint : checkpoint[k].call \in Calls
  <2>1. DOMAIN checkpoint = 1..Len(checkpoint)
    BY InvTypes, LenProperties DEF TableTypes
  <2> QED
    BY <2>1, InvTypes, CheckpointFields
<1>5. (att.pc = "none") <=> (run.status # "running")
  BY DEF Inv, Control
<1> QED
  BY <1>1, <1>2, <1>3, <1>4, <1>5 DEF TypeOK, Changes

LEMMA InvIsNoRepeatedMutation == Inv => NoRepeatedMutation
<1> SUFFICES ASSUME Inv PROVE NoRepeatedMutation
  OBVIOUS
<1>1. DOMAIN att.tree = 1..Len(att.tree)
  BY InvTypes, AttemptFields, LenProperties
<1> QED
  BY <1>1 DEF Inv, Trees, TreeSound, NoDuplicates, NoRepeatedMutation

-----------------------------------------------------------------------------
(**************************** Finalized changes ****************************)

\* Every stored workspace, and the one an attempt works in between two tools, has finalized changes only; the
\* exception is an attempt that is about to fail its run.
AllFinalized(tree) == \A x \in Elements(tree) : Finalized(x)

RunFails == \E e \in Elements(att.emitted) : e.kind = "run_failed"

Doomed == att.pc = "finish" \/ (att.pc \in {"journal", "emit"} /\ RunFails)

StoredKept ==
    \A k \in 1..Len(checkpoint) : /\ AllFinalized(checkpoint[k].pre)
                                  /\ checkpoint[k].done => AllFinalized(checkpoint[k].post)

Kept == StoredKept /\ (att.pc \in Running \/ Doomed \/ AllFinalized(att.tree))

\* A step that leaves the checkpoints alone.
LEMMA CheckpointsStay ==
    ASSUME UNCHANGED checkpoint
    PROVE  \A t : AllFinalized(t) => AllFinalized(t)'
BY DEF AllFinalized, Finalized

\* A step that leaves the checkpoints alone, and the workspace or the attempt's fate.
LEMMA KeptRests ==
    ASSUME Inv, Kept, UNCHANGED checkpoint, att'.pc \notin Running,
           \/ att'.tree = att.tree /\ att.pc \notin Running /\ (Doomed => Doomed' \/ att'.tree = <<>>)
           \/ att'.tree = <<>> \/ Doomed'
    PROVE  Kept'
<1>1. \A t : AllFinalized(t) => AllFinalized(t)'
  BY CheckpointsStay
<1>2. StoredKept'
  BY <1>1 DEF Kept, StoredKept
<1>4. Doomed' \/ \A x \in Elements(att'.tree) : Finalized(x)'
  <2>1. AllFinalized(att.tree) => \A x \in Elements(att.tree) : Finalized(x)'
    BY <1>1 DEF AllFinalized, Finalized
  <2> QED
    BY <2>1, ElementsOfFew DEF Kept
<1> QED
  BY <1>2, <1>4 DEF Kept, AllFinalized

\* The attempt ends, or is none.
LEMMA KeptWithoutAttempt ==
    ASSUME Inv, Kept, UNCHANGED checkpoint, att' = NoAttempt
    PROVE  Kept'
<1>1. att'.pc \notin Running /\ att'.tree = <<>>
  BY NoAttemptIsOne DEF Running
<1> QED
  BY <1>1, KeptRests

\* The steps of an attempt that neither run a tool nor end a turn.
LEMMA KeptInModel ==
    ASSUME Inv, Kept,
           \/ JournalPending \/ ReceivePending \/ StartModel \/ TurnLimit \/ ModelFails \/ EndStream \/ FinalText
           \/ EmptyResponse \/ (\E c \in Calls : ReceiveCall(c))
           \/ RejectInvalidTurn \/ AskApproval \/ BeginCalls \/ EndCalls
    PROVE  Kept'
<1>1. att \in Attempts /\ UNCHANGED checkpoint
  BY InvTypes DEF JournalPending, ReceivePending, StartModel, TurnLimit, ModelFails, EndStream, FinalText,
     EmptyResponse, ReceiveCall, RejectInvalidTurn, AskApproval, BeginCalls, EndCalls, journal
<1>2. att.pc \in {"resume", "receive", "model", "stream", "turn", "call"}
  BY DEF JournalPending, ReceivePending, StartModel, TurnLimit, ModelFails, EndStream, FinalText,
     EmptyResponse, ReceiveCall, RejectInvalidTurn, AskApproval, BeginCalls, EndCalls
<1>3. \/ att' = NoAttempt
      \/ att'.tree = att.tree /\ att'.pc \in {"receive", "turn", "stream", "finish", "model", "journal", "call"}
  <2>1. CASE JournalPending \/ StartModel \/ TurnLimit \/ ModelFails \/ EndStream \/ FinalText
    BY <1>1, <2>1 DEF JournalPending, StartModel, TurnLimit, ModelFails, EndStream, FinalText, Ends, Attempts
  <2>2. CASE ReceivePending
    <3>1. \/ att' = NoAttempt \/ att' = [att EXCEPT !.pc = "turn", !.count = @ + Len(att.todo)]
          \/ att' = [att EXCEPT !.emitted = Tail(@)]
      BY <2>2 DEF ReceivePending, Abort
    <3> QED
      BY <1>1, <2>2, <3>1 DEF ReceivePending, Attempts
  <2>3. CASE EmptyResponse
    BY <1>1, <2>3 DEF EmptyResponse, Ends, Attempts
  <2>4. ASSUME NEW c \in Calls, ReceiveCall(c)
        PROVE  \/ att' = NoAttempt
               \/ att'.tree = att.tree /\ att'.pc \in {"stream", "finish"}
    <3>1. \/ att' = NoAttempt \/ att' = [att EXCEPT !.todo = Append(@, c), !.count = @ + 1]
          \/ att' = [att EXCEPT !.pc = "finish", !.final = Failed("tool_call_limit")]
      BY <2>4 DEF ReceiveCall, Abort
    <3> QED
      BY <1>1, <2>4, <3>1 DEF ReceiveCall, Attempts
  <2>5. CASE RejectInvalidTurn
    <3>1. \E o, u, e, r : att' = [att EXCEPT !.pc = "journal", !.todo = <<>>, !.outcomes = o, !.unsaved = u,
                                             !.emitted = e, !.retries = r]
      BY <2>5 DEF RejectInvalidTurn
    <3> QED
      BY <1>1, <3>1 DEF Attempts
  <2>6. CASE AskApproval \/ BeginCalls \/ EndCalls
    BY <1>1, <2>6 DEF AskApproval, BeginCalls, EndCalls, Attempts
  <2> QED
    BY <2>1, <2>2, <2>3, <2>4, <2>5, <2>6
<1>4. att.pc \notin Running /\ ~Doomed
  BY <1>2 DEF Running, Doomed
<1>5. CASE att' = NoAttempt
  BY <1>1, <1>5, KeptWithoutAttempt
<1>6. CASE att'.tree = att.tree /\ att'.pc \in {"receive", "turn", "stream", "finish", "model", "journal", "call"}
  <2>1. att'.pc \notin Running
    BY <1>6 DEF Running
  <2> QED
    BY <1>1, <1>4, <1>6, <2>1, KeptRests
<1> QED
  BY <1>3, <1>5, <1>6

\* The calls of a turn that change nothing, and the end of the turn.
LEMMA KeptInTurn ==
    ASSUME Inv, Kept,
           \/ \E c \in Calls : ReuseOutcome(c) \/ RefuseRejected(c) \/ AnswerInteraction(c) \/ RunReadOnly(c)
           \/ JournalResults \/ EndTurn
    PROVE  Kept'
<1>1. att \in Attempts /\ UNCHANGED checkpoint
  BY InvTypes DEF ReuseOutcome, RefuseRejected, AnswerInteraction, RunReadOnly, JournalResults, EndTurn, journal
<1>2. CASE \E c \in Calls : ReuseOutcome(c) \/ RefuseRejected(c) \/ AnswerInteraction(c) \/ RunReadOnly(c)
  <2>1. att.pc = "call"
    BY <1>2 DEF ReuseOutcome, RefuseRejected, AnswerInteraction, RunReadOnly, MayRun, NextCall
  <2>2. \E c, s, e : att' = Concluded(c, s, e)
    BY <1>2 DEF ReuseOutcome, RefuseRejected, AnswerInteraction, RunReadOnly
  <2>3. att'.pc = "call" /\ att'.tree = att.tree
    BY <1>1, <2>2 DEF Concluded, Attempts
  <2>4. ~Doomed /\ att.pc \notin Running /\ att'.pc \notin Running
    BY <2>1, <2>3 DEF Doomed, Running
  <2> QED
    BY <1>1, <2>3, <2>4, KeptRests
<1>3. CASE JournalResults
  <2>1. att.pc = "journal" /\ att'.pc = "emit" /\ att'.tree = att.tree /\ att'.emitted = att.emitted
    BY <1>1, <1>3 DEF JournalResults, Attempts
  <2>2. (Doomed => Doomed') /\ att.pc \notin Running /\ att'.pc \notin Running
    BY <2>1 DEF Doomed, RunFails, Running
  <2> QED
    BY <1>1, <2>1, <2>2, KeptRests
<1>4. CASE EndTurn
  <2>1. /\ att.pc = "emit" /\ att.emitted = <<>> /\ att'.pc \in {"model", "finish"} /\ att'.tree = att.tree
    BY <1>1, <1>4 DEF EndTurn, Attempts
  <2>2. ~Doomed /\ att.pc \notin Running /\ att'.pc \notin Running
    BY <2>1, ElementsOfFew DEF Doomed, RunFails, Running
  <2> QED
    BY <1>1, <2>1, <2>2, KeptRests
<1> QED
  BY <1>2, <1>3, <1>4

\* An attempt whose run is about to fail does not get past the event that says so.
LEMMA KeptEmit ==
    ASSUME Inv, Kept, Emit
    PROVE  Kept'
<1> DEFINE e == Head(att.emitted)
<1>1. /\ att \in Attempts /\ att.pc = "emit" /\ att.emitted # <<>> /\ att.emitted \in Seq(Events)
      /\ UNCHANGED checkpoint
  BY InvTypes, AttemptFields DEF Emit, PersistState, PersistWaiting, PersistRequest, journal
<1>2. \/ att' = NoAttempt \/ att'.pc = "finish"
      \/ /\ att'.pc = "emit" /\ att'.tree = att.tree
         /\ e.kind # "run_failed" /\ (RunFails => RunFails')
  <2>1. e.kind # "run_failed" /\ RunFails => \E d \in Elements(Tail(att.emitted)) : d.kind = "run_failed"
    BY <1>1, ElementsOfTail DEF RunFails
  <2>2. ASSUME NEW f, NEW l, NEW h, h = [att EXCEPT !.emitted = Tail(@), !.final = f, !.last = l], att' = h
        PROVE  att'.pc = "emit" /\ att'.tree = att.tree /\ att'.emitted = Tail(att.emitted)
    BY <1>1, <2>2 DEF Attempts
  <2>3. CASE e.kind \in {"started", "completed"} /\ PersistState(e)
    <3>1. att' = NoAttempt \/ att' = Handled
      BY <2>3 DEF PersistState, Abort
    <3>2. Handled.pc = "emit" /\ Handled.tree = att.tree /\ Handled.emitted = Tail(att.emitted)
      BY <1>1 DEF Handled, Attempts
    <3> QED
      BY <2>1, <2>3, <3>1, <3>2 DEF RunFails
  <2>4. CASE e.kind = "approval" /\ PersistWaiting(e)
    <3>1. CASE att' = [Handled EXCEPT !.final = e.state]
      <4>1. att'.pc = "emit" /\ att'.tree = att.tree /\ att'.emitted = Tail(att.emitted)
        BY <1>1, <3>1 DEF Handled, Attempts
      <4> QED
        BY <2>1, <2>4, <4>1 DEF RunFails
    <3>2. CASE att' = [att EXCEPT !.emitted[1].kind = "request"]
      <4>1. att'.pc = "emit" /\ att'.tree = att.tree /\ att'.emitted = [att.emitted EXCEPT ![1].kind = "request"]
        BY <1>1, <3>2 DEF Attempts
      <4>2. ASSUME RunFails PROVE RunFails'
        <5>1. PICK i \in DOMAIN att.emitted : att.emitted[i].kind = "run_failed"
          BY <4>2 DEF RunFails, Elements
        <5>2. e = att.emitted[1]
          BY <1>1, ElementsIn
        <5>3. i # 1 /\ i \in DOMAIN att'.emitted /\ att'.emitted[i] = att.emitted[i]
          BY <2>4, <4>1, <5>1, <5>2
        <5> QED
          BY <5>1, <5>3 DEF RunFails, Elements
      <4> QED
        BY <2>4, <4>1, <4>2
    <3> QED
      BY <2>4, <3>1, <3>2 DEF PersistWaiting
  <2>5. CASE e.kind = "request" /\ PersistRequest(e)
    <3>1. att' = [Handled EXCEPT !.final = e.state]
      BY <2>5 DEF PersistRequest
    <3>2. att'.pc = "emit" /\ att'.tree = att.tree /\ att'.emitted = Tail(att.emitted)
      BY <1>1, <3>1 DEF Handled, Attempts
    <3> QED
      BY <2>1, <2>5, <3>2 DEF RunFails
  <2>6. CASE e.kind = "checkpoint" /\ att' = [Handled EXCEPT !.last = e.at]
    <3>1. att'.pc = "emit" /\ att'.tree = att.tree /\ att'.emitted = Tail(att.emitted)
      BY <1>1, <2>6 DEF Handled, Attempts
    <3> QED
      BY <2>1, <2>6, <3>1 DEF RunFails
  <2>7. CASE Ends(e.state)
    BY <1>1, <2>7 DEF Ends, Attempts
  <2> QED
    BY <2>3, <2>4, <2>5, <2>6, <2>7 DEF Emit
<1>3. CASE att' = NoAttempt
  BY <1>1, <1>3, KeptWithoutAttempt
<1>4. CASE att'.pc = "finish"
  <2>1. Doomed' /\ att'.pc \notin Running
    BY <1>4 DEF Doomed, Running
  <2> QED
    BY <1>1, <2>1, KeptRests
<1>5. CASE att'.pc = "emit" /\ att'.tree = att.tree /\ (RunFails => RunFails')
  <2>1. (Doomed => Doomed') /\ att.pc \notin Running /\ att'.pc \notin Running
    BY <1>1, <1>5 DEF Doomed, Running
  <2> QED
    BY <1>1, <1>5, <2>1, KeptRests
<1> QED
  BY <1>2, <1>3, <1>4, <1>5

\* The run of a turn that cannot go on is about to fail.
LEMMA BrokenIsDoomed ==
    ASSUME Inv, NEW c, NEW error, NEW t, NEW h, h = [Broken(c, error) EXCEPT !.tree = t], h.pc = "journal",
           att' = h \/ att' = Broken(c, error), att.emitted \in Seq(Events),
           Event("completed", c, Failed(error)) \in Events, RunFailed(error) \in Events
    PROVE  Doomed' /\ att'.pc \notin Running
<1> DEFINE done == Event("completed", c, Failed(error))
           over == RunFailed(error)
<1>1. att \in Attempts
  BY InvTypes
<1>2. att'.pc = "journal" /\ att'.emitted = att.emitted \o <<done, over>>
  BY <1>1 DEF Broken, Attempts
<1>3. over.kind = "run_failed"
  BY DEF RunFailed, Event
<1>4. <<done, over>> \in Seq(Events)
  OBVIOUS
<1> HIDE DEF done, over
<1>5. over \in Elements(att.emitted \o <<done, over>>)
  <2>1. Elements(att.emitted \o <<done, over>>) = Elements(att.emitted) \cup Elements(<<done, over>>)
    <3>1. \A s, t2 \in Seq(Events) : Elements(s \o t2) = Elements(s) \cup Elements(t2)
      BY ElementsOfConcat
    <3> QED
      BY <1>4, <3>1
  <2>2. over \in Elements(<<done, over>>)
    BY ElementsOfFew
  <2> QED
    BY <2>1, <2>2
<1> QED
  BY <1>2, <1>3, <1>5 DEF Doomed, RunFails, Running

\* The attempt gives up a call, in the turn or after its tool.
LEMMA GivingUp ==
    ASSUME Inv, RollbackFails \/ CompleteFails \/ \E c \in Calls : CheckpointFails(c)
    PROVE  Doomed' /\ att'.pc \notin Running
<1>1. att \in Attempts /\ att.emitted \in Seq(Events)
  BY InvTypes, AttemptFields
<1>2. PICK c \in Calls, error \in Errors :
        \/ att' = Broken(c, error)
        \/ \E t : att' = [Broken(c, error) EXCEPT !.tree = t]
  <2>1. CASE RollbackFails \/ CompleteFails
    <3>1. Head(att.todo) \in Calls
      <4>1. att.pc \in Running
        BY <2>1 DEF RollbackFails, CompleteFails, Running
      <4> QED
        BY <4>1, ToolFacts
    <3> QED
      BY <2>1, <3>1 DEF RollbackFails, CompleteFails, Errors
  <2>2. CASE \E c \in Calls : CheckpointFails(c)
    BY <2>2 DEF CheckpointFails, Errors
  <2> QED
    BY <2>1, <2>2
<1>3. Event("completed", c, Failed(error)) \in Events /\ RunFailed(error) \in Events
  <2>1. Failed(error) \in States /\ "completed" \in Kinds
    BY StateValues DEF Kinds
  <2> QED
    BY <2>1, EventValue, RunFailedValue
<1>4. PICK t : att' = Broken(c, error) \/ att' = [Broken(c, error) EXCEPT !.tree = t]
  BY <1>2
<1> DEFINE h == [Broken(c, error) EXCEPT !.tree = t]
<1>5. h.pc = "journal"
  BY <1>1 DEF Broken, Attempts
<1> HIDE DEF h
<1> QED
  BY <1>1, <1>3, <1>4, <1>5, BrokenIsDoomed DEF h

\* The result of a tool is finalized with its checkpoint, and what was finalized before stays so.
LEMMA KeptResult ==
    ASSUME Inv, Kept, att.pc = "complete", ResultStored
    PROVE  /\ \A x \in Elements(att.tree) : Finalized(x)'
           /\ \A x \in Elements(checkpoint[Len(checkpoint)].pre) : Finalized(x)'
           /\ StoredKept'
<1> DEFINE c == Head(att.todo)
           k == Len(checkpoint)
           pre == checkpoint[k].pre
           new == [checkpoint[k] EXCEPT !.done = TRUE, !.post = att.tree]
<1>1. att.pc \in Running /\ att.pc # "tool"
  BY DEF Running
<1>2. /\ c \in Calls /\ k \in Nat /\ k \in 1..k /\ checkpoint[k] \in Checkpoints /\ pre \in Seq(Changes)
      /\ checkpoint[k].call = c /\ checkpoint[k].epoch = run.epoch
      /\ att.tree = Append(pre, Change(c)) /\ Elements(att.tree) = Elements(pre) \cup {Change(c)}
      /\ checkpoint \in Seq(Checkpoints) /\ att.tree \in Seq(Changes)
  <2>1. /\ c \in Calls /\ k \in Nat /\ k \in 1..Len(checkpoint) /\ checkpoint[k] \in Checkpoints /\ pre \in Seq(Changes)
        /\ checkpoint[k].call = c /\ checkpoint[k].epoch = run.epoch
    BY <1>1, ToolFacts
  <2>2. /\ att.tree = Append(pre, Change(c))
        /\ Elements(Append(pre, Change(c))) = Elements(pre) \cup {Change(c)}
    <3> HIDE DEF c, k
    <3>1. c = Head(att.todo) /\ k = Len(checkpoint)
      BY DEF c, k
    <3>2. /\ att.pc # "tool" => att.tree = Append(checkpoint[k].pre, Change(c))
          /\ Elements(Append(checkpoint[k].pre, Change(c))) = Elements(checkpoint[k].pre) \cup {Change(c)}
      BY <1>1, <3>1, ToolFacts
    <3> QED
      BY <1>1, <3>2
  <2>3. checkpoint \in Seq(Checkpoints) /\ att.tree \in Seq(Changes)
    BY InvTypes, AttemptFields DEF TableTypes
  <2> QED
    BY <2>1, <2>2, <2>3
<1>3. /\ new \in Checkpoints /\ new.call = c /\ new.epoch = run.epoch /\ new.pre = pre /\ new.post = att.tree /\ new.done = TRUE
  BY <1>2 DEF Checkpoints
<1>4. checkpoint' = [checkpoint EXCEPT ![k] = new]
  BY <1>2 DEF ResultStored
<1> HIDE DEF new, pre, c
<1>5. /\ checkpoint' \in Seq(Checkpoints) /\ Len(checkpoint') = k /\ DOMAIN checkpoint = 1..k /\ DOMAIN checkpoint' = 1..k
      /\ checkpoint'[k] = new /\ \A j \in 1..k : j # k => checkpoint'[j] = checkpoint[j]
  BY <1>2, <1>3, <1>4, ExceptSeq, LenProperties
<1> HIDE DEF k
<1>6. PICK ch \in Changes : ch = Change(c) /\ ch.call = c /\ ch.epoch = run.epoch
  BY <1>2, InvTypes, ChangeFields
<1>7. Finalized(ch)'
  BY <1>2, <1>3, <1>5, <1>6 DEF Finalized
<1>8. ASSUME NEW x \in Changes, Finalized(x) PROVE Finalized(x)'
  <2>1. PICK j \in 1..k : /\ checkpoint[j].call = x.call /\ checkpoint[j].epoch = x.epoch
                          /\ checkpoint[j].done /\ x \in Elements(checkpoint[j].post)
    BY <1>5, <1>8 DEF Finalized
  <2>2. CASE j = k
    <3>1. x = ch
      BY <1>2, <1>6, <2>1, <2>2 DEF Changes
    <3> QED
      BY <1>7, <3>1
  <2>3. CASE j # k
    BY <1>5, <2>1, <2>3 DEF Finalized
  <2> QED
    BY <2>2, <2>3
<1>9. ASSUME NEW t \in Seq(Changes), AllFinalized(t) PROVE \A x \in Elements(t) : Finalized(x)'
  BY <1>8, <1>9, ElementsIn DEF AllFinalized
<1>10. \A x \in Elements(pre) : Finalized(x)'
  <2>1. AllFinalized(pre)
    BY <1>2 DEF Kept, StoredKept, k, pre
  <2> QED
    BY <1>2, <1>9, <2>1
<1>11. \A x \in Elements(att.tree) : Finalized(x)'
  BY <1>2, <1>6, <1>7, <1>10
<1>12. ASSUME NEW j \in 1..k
       PROVE  /\ \A x \in Elements(checkpoint'[j].pre) : Finalized(x)'
              /\ checkpoint'[j].done => \A x \in Elements(checkpoint'[j].post) : Finalized(x)'
  <2>1. CASE j = k
    BY <1>3, <1>5, <1>10, <1>11, <2>1
  <2>2. CASE j # k
    <3>1. /\ checkpoint[j].pre \in Seq(Changes) /\ checkpoint[j].post \in Seq(Changes)
          /\ AllFinalized(checkpoint[j].pre) /\ (checkpoint[j].done => AllFinalized(checkpoint[j].post))
      BY InvTypes, CheckpointFields DEF Kept, StoredKept, k
    <3> QED
      BY <1>5, <1>9, <2>2, <3>1
  <2> QED
    BY <2>1, <2>2
<1>13. StoredKept'
  BY <1>5, <1>12 DEF StoredKept, AllFinalized
<1> QED
  BY <1>10, <1>11, <1>13 DEF k, pre

LEMMA KeptAfterTool ==
    ASSUME Inv, Kept, RunTool \/ CompleteTool \/ CompleteFails \/ Rollback \/ RollbackFails
    PROVE  Kept'
<1>1. att \in Attempts /\ att.pc \in Running
  BY InvTypes DEF RunTool, CompleteTool, CompleteFails, Rollback, RollbackFails, Running
<1>2. CASE RunTool
  <2>1. att'.pc \in Running /\ UNCHANGED checkpoint
    BY <1>1, <1>2 DEF RunTool, Attempts, journal, Running
  <2> QED
    BY <2>1, CheckpointsStay DEF Kept, StoredKept, AllFinalized, Finalized
<1>3. CASE CompleteTool
  <2>1. att.pc = "complete" /\ ResultStored /\ att'.tree = att.tree
    BY <1>1, <1>3 DEF CompleteTool, ResultStored, Concluded, Attempts
  <2>2. StoredKept' /\ \A x \in Elements(att.tree) : Finalized(x)'
    BY <2>1, KeptResult
  <2> QED
    BY <2>1, <2>2 DEF Kept, AllFinalized
<1>4. CASE CompleteFails
  <2>1. Doomed'
    BY <1>4, GivingUp
  <2>2. StoredKept'
    <3>1. CASE UNCHANGED checkpoint
      BY <3>1, CheckpointsStay DEF Kept, StoredKept
    <3>2. CASE ResultStored
      BY <1>4, <3>2, KeptResult DEF CompleteFails
    <3> QED
      BY <1>4, <3>1, <3>2 DEF CompleteFails, ResultStored
  <2> QED
    BY <2>1, <2>2 DEF Kept
<1>5. CASE Rollback
  <2>1. UNCHANGED checkpoint /\ att'.tree = checkpoint[Len(checkpoint)].pre
    BY <1>1, <1>5 DEF Rollback, Concluded, RollbackTree, Attempts, journal
  <2>2. Len(checkpoint) \in 1..Len(checkpoint)
    BY <1>1, ToolFacts
  <2>3. \A x \in Elements(checkpoint[Len(checkpoint)].pre) : Finalized(x)'
    BY <2>1, <2>2, CheckpointsStay DEF Kept, StoredKept, AllFinalized
  <2>4. StoredKept'
    BY <2>1, CheckpointsStay DEF Kept, StoredKept
  <2> QED
    BY <2>1, <2>3, <2>4 DEF Kept, AllFinalized
<1>6. CASE RollbackFails
  <2>1. Doomed' /\ UNCHANGED checkpoint
    BY <1>6, GivingUp DEF RollbackFails, journal
  <2> QED
    BY <2>1, CheckpointsStay DEF Kept, StoredKept
<1> QED
  BY <1>2, <1>3, <1>4, <1>5, <1>6

\* A new checkpoint has the workspace of the attempt, and a new attempt that of a checkpoint.
LEMMA KeptCreate ==
    ASSUME Inv, Kept, NEW c \in Calls, CreateCheckpoint(c)
    PROVE  Kept'
<1>1. att \in Attempts /\ att.pc = "call" /\ Len(checkpoint) \in Nat /\ checkpoint \in Seq(Checkpoints)
  BY InvTypes DEF CreateCheckpoint, MayRun, NextCall, TableTypes
<1>2. att'.pc \in Running
  BY <1>1 DEF CreateCheckpoint, Attempts, Running
<1>3. PICK new : /\ checkpoint' = Append(checkpoint, new) /\ new.pre = att.tree /\ ~new.done
  BY DEF CreateCheckpoint
<1>4. /\ Len(checkpoint') = Len(checkpoint) + 1 /\ checkpoint'[Len(checkpoint) + 1] = new
      /\ \A k \in 1..Len(checkpoint) : checkpoint'[k] = checkpoint[k]
      /\ DOMAIN checkpoint = 1..Len(checkpoint) /\ DOMAIN checkpoint' = 1..(Len(checkpoint) + 1)
  <2>1. checkpoint \in Seq(Checkpoints \cup {new}) /\ new \in Checkpoints \cup {new}
    BY <1>1, SeqMonotonic
  <2> QED
    BY <1>3, <2>1, AppendProperties, LenProperties
<1>5. \A x : Finalized(x) => Finalized(x)'
  BY <1>1, <1>4 DEF Finalized
<1>6. AllFinalized(att.tree)
  BY <1>1 DEF Kept, Doomed, Running
<1>7. ASSUME NEW k \in 1..(Len(checkpoint) + 1)
      PROVE  /\ \A x \in Elements(checkpoint'[k].pre) : Finalized(x)'
             /\ checkpoint'[k].done => \A x \in Elements(checkpoint'[k].post) : Finalized(x)'
  <2>1. CASE k = Len(checkpoint) + 1
    BY <1>3, <1>4, <1>5, <1>6, <2>1 DEF AllFinalized
  <2>2. CASE k \in 1..Len(checkpoint)
    BY <1>4, <1>5, <2>2 DEF Kept, StoredKept, AllFinalized
  <2> QED
    BY <1>1, <2>1, <2>2
<1>8. StoredKept'
  BY <1>4, <1>7 DEF StoredKept, AllFinalized
<1> QED
  BY <1>2, <1>8 DEF Kept

LEMMA KeptRecover ==
    ASSUME Inv, Kept, Recover
    PROVE  Kept'
<1> DEFINE k == SelectedCheckpoint
<1>1. UNCHANGED checkpoint /\ att'.tree = RestoredTree(k)
  BY NoAttemptIsOne DEF Recover, journal, Attempts
<1>2. k \in 0..Len(checkpoint)
  BY InvTypes DEF SelectedCheckpoint, Instants
<1>3. AllFinalized(RestoredTree(k))
  <2>1. CASE k = 0
    BY <2>1, ElementsOfFew DEF RestoredTree, AllFinalized
  <2>2. CASE k # 0
    <3>1. k \in 1..Len(checkpoint)
      BY <1>2, <2>2, InvTypes
    <3> QED
      BY <2>2, <3>1 DEF RestoredTree, Kept, StoredKept
  <2> QED
    BY <2>1, <2>2
<1> HIDE DEF k
<1>4. \A t : AllFinalized(t) => AllFinalized(t)'
  BY <1>1, CheckpointsStay
<1>5. \A x \in Elements(RestoredTree(k)) : Finalized(x)'
  BY <1>1, <1>3 DEF AllFinalized, Finalized
<1>6. AllFinalized(att.tree)'
  BY <1>1, <1>5 DEF AllFinalized
<1>7. StoredKept'
  BY <1>1, <1>4 DEF Kept, StoredKept
<1> QED
  BY <1>6, <1>7 DEF Kept

LEMMA KeptNext ==
    ASSUME Inv, Kept, [Next]_vars
    PROVE  Kept'
<1>1. CASE Recover
  BY <1>1, KeptRecover
<1>2. CASE \/ JournalPending \/ ReceivePending \/ StartModel \/ TurnLimit \/ ModelFails \/ EndStream \/ FinalText
           \/ EmptyResponse \/ (\E c \in Calls : ReceiveCall(c))
           \/ RejectInvalidTurn \/ AskApproval \/ BeginCalls \/ EndCalls
  BY <1>2, KeptInModel
<1>3. CASE \/ \E c \in Calls : ReuseOutcome(c) \/ RefuseRejected(c) \/ AnswerInteraction(c) \/ RunReadOnly(c)
           \/ JournalResults \/ EndTurn
  BY <1>3, KeptInTurn
<1>4. CASE Emit
  BY <1>4, KeptEmit
<1>5. CASE RunTool \/ CompleteTool \/ CompleteFails \/ Rollback \/ RollbackFails
  BY <1>5, KeptAfterTool
<1>6. CASE \E c \in Calls : CreateCheckpoint(c)
  BY <1>6, KeptCreate
<1>7. CASE \E c \in Calls : CheckpointFails(c)
  <2>1. Doomed' /\ att'.pc \notin Running /\ UNCHANGED checkpoint
    BY <1>7, GivingUp DEF CheckpointFails, journal
  <2> QED
    BY <2>1, KeptRests
<1>8. CASE RecoveryFails \/ Finish \/ Crash
  <2>1. att' = NoAttempt /\ UNCHANGED checkpoint
    BY <1>8 DEF RecoveryFails, Finish, Crash, Abort, journal
  <2> QED
    BY <2>1, KeptWithoutAttempt
<1>9. CASE (\E c \in Calls, d \in {"approved", "rejected"} : Decide(c, d)) \/ (\E k \in DOMAIN checkpoint : Rewind(k))
           \/ Rest \/ UNCHANGED vars
  <2>1. UNCHANGED <<checkpoint, att>>
    BY <1>9 DEF Decide, Rewind, Rest, vars
  <2> QED
    BY <2>1, CheckpointsStay DEF Kept, StoredKept, AllFinalized, Finalized, Doomed, RunFails
<1> QED
  BY <1>1, <1>2, <1>3, <1>4, <1>5, <1>6, <1>7, <1>8, <1>9 DEF Next, WorkerStep

LEMMA KeptInvariant == Spec => []Kept
<1>1. Init => Kept
  <2> SUFFICES ASSUME Init PROVE Kept
    OBVIOUS
  <2>1. Len(checkpoint) = 0 /\ att.tree = <<>>
    BY NoAttemptIsOne DEF Init
  <2> QED
    BY <2>1, ElementsOfFew DEF Kept, StoredKept, AllFinalized
<1>2. Inv /\ Kept /\ [Next]_vars => Kept'
  BY KeptNext
<1> QED
  BY <1>1, <1>2, JournalInvariant, PTL DEF Spec

\* The workspace in which the model goes on has each change once, only changes that were finalized, and no change
\* of a call that its tool failed, whichever crashes, failed rollbacks and resumed turns came before; the tables
\* keep their types (_tool_turn.py execute, PostgresRecoveryStore.load, _save_tool_call).
THEOREM WorkspaceTheorem == Spec => []WorkspaceMatchesJournal
<1>1. Inv => FailedToolLeavesNoTrace
  <2> SUFFICES ASSUME Inv, att.pc \in {"model", "stream"}, NEW c \in Calls, row[c].state = Failed("tool_failed")
               PROVE  Change(c) \notin Elements(att.tree)
    BY DEF FailedToolLeavesNoTrace
  <2>1. CASE Effect[c] = "mutation"
    BY <2>1 DEF Inv, Failures, Reports
  <2>2. CASE Effect[c] # "mutation"
    <3> SUFFICES ASSUME Change(c) \in Elements(att.tree) PROVE FALSE
      OBVIOUS
    <3>1. ChangeSound(Change(c)) /\ Change(c).call = c
      BY InvTypes, AttemptFields, TreeFacts, ChangeFields DEF Inv, Trees
    <3> QED
      BY <2>2, <3>1 DEF ChangeSound
  <2> QED
    BY <2>1, <2>2
<1>2. Kept => OnlyFinalizedChanges
  BY DEF Kept, OnlyFinalizedChanges, AllFinalized, Doomed, Running
<1>3. Inv /\ Kept => WorkspaceMatchesJournal
  BY <1>1, <1>2, InvIsTypeOK, InvIsNoRepeatedMutation DEF WorkspaceMatchesJournal
<1> QED
  BY <1>3, JournalInvariant, KeptInvariant, PTL

\* A change that needs a decision is in a workspace only after its approval, and once (_requires_approval,
\* _pending_tool_calls, PostgresApprovalRepository.decide).
THEOREM ApprovalTheorem == Spec => []ApprovedAndOnce
<1>1. Inv => ApprovedBeforeChange
  <2> SUFFICES ASSUME Inv, NEW i \in DOMAIN att.tree, att.tree[i].epoch = run.epoch, RequiresApproval(att.tree[i].call)
               PROVE  approval[att.tree[i].call] = "approved"
    BY DEF ApprovedBeforeChange
  <2>1. att.tree[i] \in Elements(att.tree)
    BY DEF Elements
  <2>2. ChangeSound(att.tree[i])
    BY <2>1, InvTypes, AttemptFields, TreeFacts DEF Inv, Trees
  <2> QED
    BY <2>2 DEF ChangeSound
<1>2. Inv => ApprovedAndOnce
  BY <1>1, InvIsNoRepeatedMutation DEF ApprovedAndOnce
<1> QED
  BY <1>2, JournalInvariant, PTL

\* Every tool result in the stored transcript answers a call of the assistant message that opens its turn, also
\* after a turn was resumed or the run was rewound (loop.py run, append_transcript_fenced, RunRepository.rewind).
THEOREM TranscriptTheorem == Spec => []ResultsAnswerCalls
<1>1. Inv => ResultsAnswerCalls
  <2> SUFFICES ASSUME Inv PROVE ResultsAnswerCalls
    OBVIOUS
  <2>1. DOMAIN messages = 1..Len(messages) /\ Answered(messages)
    BY InvTypes, LenProperties DEF Inv, Transcript, TableTypes
  <2> QED
    BY <2>1 DEF Answered, ResultsAnswerCalls
<1> QED
  BY <1>1, JournalInvariant, PTL

\* Until a run has a selected checkpoint, the sandbox of an attempt has the change of every call that the tool table
\* reports as completed.  The hypothesis is the exact limit: PostgresRunQueue.finish selects a checkpoint that later
\* attempts go on using, and the run lost_mutation shows the change of a completed call missing then
\* (PostgresRecoveryStore._checkpoint, _checkpoint_domain).
THEOREM RestoredTheorem == Spec => [](run.last = 0 => CompletedIsRestored)
<1>1. Inv => (run.last = 0 => CompletedIsRestored)
  BY DEF Inv, Restored, Reports, CompletedIsRestored
<1> QED
  BY <1>1, JournalInvariant, PTL

\* No step of the epoch touches the row of a call that has ended.
LEMMA RowsStayFinal ==
    ASSUME Inv, Next, run'.epoch = run.epoch
    PROVE  \A c \in Calls : row[c].state.status \in Finished => row'[c] = row[c]
<1>1. CASE UNCHANGED row
  BY <1>1
<1>2. CASE ReceivePending
  <2> SUFFICES ASSUME ~UNCHANGED row PROVE \A c \in Calls : row[c].state.status \in Finished => row'[c] = row[c]
    OBVIOUS
  <2> DEFINE e == Head(att.emitted)
  <2>1. att.emitted # <<>> /\ att.pc = "receive" /\ SaveError(e.call, 1, e.state) = "none" /\ SaveToolCall(e.call, 1, e.state, e.at)
    BY <1>2 DEF ReceivePending
  <2>2. e.call \in Calls
    <3>1. e \in Elements(att.emitted) /\ (e.kind # "run_failed" => e.call \in Calls)
      BY <2>1, NextEvent
    <3> QED
      BY <2>1, <3>1 DEF Inv, Control
  <2> QED
    BY <2>1, <2>2, SavedIsFinal
<1>3. CASE \E c \in Calls : ReceiveCall(c)
  BY <1>3, SavedIsFinal DEF ReceiveCall
<1>4. CASE Emit
  <2> SUFFICES ASSUME ~UNCHANGED row PROVE \A c \in Calls : row[c].state.status \in Finished => row'[c] = row[c]
    OBVIOUS
  <2> DEFINE e == Head(att.emitted)
  <2>1. att.emitted # <<>> /\ (e.kind # "run_failed" => e.call \in Calls)
    BY <1>4, NextEvent DEF Emit
  <2>2. CASE e.kind \in {"started", "completed"} /\ PersistState(e)
    <3>1. e.call \in Calls
      BY <2>1, <2>2
    <3>2. /\ SaveError(e.call, row[e.call].turn, e.state) = "none"
          /\ SaveToolCall(e.call, row[e.call].turn, e.state, e.at)
      BY <2>2 DEF PersistState
    <3> QED
      BY <3>1, <3>2, SavedIsFinal
  <2>3. CASE e.kind = "approval" /\ PersistWaiting(e)
    <3>1. /\ row \in [Calls -> Rows] /\ row[e.call].state.status = "received"
          /\ SaveToolCall(e.call, row[e.call].turn, e.state, e.at)
      BY <2>3, InvTypes DEF PersistWaiting, TableTypes
    <3> QED
      BY <3>1 DEF SaveToolCall, Finished
  <2> QED
    BY <1>4, <2>2, <2>3 DEF Emit, PersistRequest, journal
<1>5. CASE \E k \in DOMAIN checkpoint : Rewind(k)
  <2>1. run'.epoch = run.epoch + 1 /\ run.epoch \in 1..MaxEpoch
    BY <1>5, InvTypes DEF Rewind
  <2> QED
    BY <2>1, BoundsAssumption
<1>6. CASE \/ Recover \/ RecoveryFails \/ JournalPending \/ StartModel \/ TurnLimit \/ ModelFails
           \/ EndStream \/ FinalText \/ EmptyResponse \/ RejectInvalidTurn \/ AskApproval \/ BeginCalls
  BY <1>6 DEF Recover, RecoveryFails, JournalPending, StartModel, TurnLimit, ModelFails, EndStream, FinalText,
              EmptyResponse, RejectInvalidTurn, AskApproval, BeginCalls, journal
<1>7. CASE \E c \in Calls : \/ ReuseOutcome(c) \/ RefuseRejected(c) \/ AnswerInteraction(c)
                            \/ RunReadOnly(c) \/ CreateCheckpoint(c) \/ CheckpointFails(c)
  BY <1>7 DEF ReuseOutcome, RefuseRejected, AnswerInteraction, RunReadOnly, CreateCheckpoint, CheckpointFails, journal
<1>8. CASE \/ RunTool \/ CompleteTool \/ CompleteFails \/ Rollback \/ RollbackFails \/ EndCalls \/ JournalResults
           \/ EndTurn \/ Finish \/ Crash \/ Rest \/ \E c \in Calls, d \in {"approved", "rejected"} : Decide(c, d)
  BY <1>8 DEF RunTool, CompleteTool, CompleteFails, Rollback, RollbackFails, EndCalls, JournalResults, EndTurn, Finish,
              Crash, Rest, Decide, journal, vars
<1> QED
  BY <1>2, <1>3, <1>4, <1>5, <1>6, <1>7, <1>8 DEF Next, WorkerStep

\* A call that has ended keeps its state, its result and its instant for the rest of the epoch, whatever a later
\* attempt replays and whichever identifier the model repeats (_save_tool_call).
THEOREM OutcomesTheorem == Spec => OutcomesAreFinal
<1>1. Inv /\ [Next]_vars =>
        [\A c \in Calls : (row[c].state.status \in Finished /\ run'.epoch = run.epoch) => row'[c] = row[c]]_vars
  BY RowsStayFinal
<1> QED
  BY <1>1, JournalInvariant, PTL DEF Spec, OutcomesAreFinal
=============================================================================
