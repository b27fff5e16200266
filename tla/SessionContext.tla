--------------------------- MODULE SessionContext ---------------------------
(***************************************************************************)
(* What a worker tells the model about the past: the stored conversation   *)
(* of a session, the compaction rows that summarise it, and the build of   *)
(* the context of an attempt.                                              *)
(*                                                                         *)
(* One run of one session, rewound up to MaxEpoch - 1 times.  A build      *)
(* reads the tables in four separate transactions, and no fence covers it: *)
(* a worker that lost its lease goes on building while another attempt,    *)
(* a rewind or a request for a compaction comes between.  A message is     *)
(* known by its sequence number; `of' is the sequence number it was first  *)
(* stored under, which stands for its text.  A summary is the set of the   *)
(* texts that may be in it: the compressor leaves out what does not fit    *)
(* its input, the model what it likes, and the answer is cut to a prefix,  *)
(* so that a property may say what is not in a summary and never what is.  *)
(***************************************************************************)
EXTENDS Integers, Sequences, SequencesExt, FiniteSets, FiniteSetsExt

CONSTANTS
  Workers,      \* the worker processes
  Keys,         \* idempotency keys of API requests, numbered
  Threshold,    \* proactive_threshold_messages
  HistoryLimit, \* message_limit of the context source
  Recent,       \* recent_messages of the conversation contributor
  MaxMessages, MaxCompactions, MaxEpoch, MaxAttempts \* bounds of the instance

ASSUME SessionContextAssumption ==
  /\ {Threshold, HistoryLimit, Recent, MaxMessages, MaxEpoch} \subseteq Nat \ {0}
  /\ {MaxCompactions, MaxAttempts} \subseteq Nat /\ Threshold < HistoryLimit /\ Keys \subseteq Nat

VARIABLES
  epoch,   \* runs.execution_epoch
  gen,     \* sessions.context_generation
  lease,   \* the worker that holds the run lease, or NoWorker
  attempt, \* how many attempts were begun
  msgs,    \* messages, by sequence number
  comps,   \* context_compactions, in the order they were requested
  ckpts,   \* checkpoints
  ckpt,    \* the checkpoint recovery starts from (0: none)
  build,   \* build[w]: the local variables of w's attempt
  past,    \* history: the texts of the branch and of what came before it
  astray   \* history: whether a build has completed a compaction of a later generation than its own
vars == <<epoch, gen, lease, attempt, msgs, comps, ckpts, ckpt, build, past, astray>>

NoWorker == "none"
ASSUME WorkersAssumption == NoWorker \notin Workers
NoSummary == {0}
Texts == 1 .. MaxMessages
Summaries == {NoSummary} \union SUBSET Texts

Message == [epoch: 1 .. MaxEpoch, of: Texts, index: Nat, own: BOOLEAN,
            role: {"user", "assistant", "tool"}]
\* covers stands for the summary; kept is history: the texts that the same build kept as they are.
Compaction == [gen: 1 .. MaxEpoch, key: (0 .. MaxEpoch) \X Nat, status: {"pending", "completed", "failed"},
               error: {"none", "failed", "empty", "superseded"},
               source: 0 .. MaxMessages, covers: Summaries, kept: SUBSET Texts]
Checkpoint == [epoch: 1 .. MaxEpoch, index: Nat, at: 0 .. MaxMessages, summary: Summaries, past: SUBSET Texts]

\* recovered is the summary of the checkpoint, latest the watermark read (0: none), pending the row found
\* (0: none), conv the sequence numbers loaded or kept, summary the previous summary and then the one the
\* loop has, size the transcript's length.
Idle == [pc |-> "idle", epoch |-> 0, recovered |-> NoSummary, latest |-> 0, pending |-> 0, conv |-> <<>>,
         summary |-> NoSummary, made |-> NoSummary, size |-> 0]

Init ==
  /\ epoch = 1 /\ gen = 1 /\ lease = NoWorker /\ attempt = 0
  /\ msgs = <<[epoch |-> 1, of |-> 1, index |-> 0, own |-> FALSE, role |-> "user"]>>
  /\ comps = <<>> /\ ckpts = <<>> /\ ckpt = 0
  /\ build = [w \in Workers |-> Idle]
  /\ past = {1} /\ astray = FALSE

----------------------------------------------------------------------------
(* The tables *)

ActiveMessages == {s \in DOMAIN msgs : msgs[s].epoch = epoch}
InOrder(S) == [i \in 1 .. Cardinality(S) |-> CHOOSE s \in S : Cardinality({t \in S : t <= s}) = i]
ListMessages(after, through) == {s \in ActiveMessages : after < s /\ s <= through}
MutInAnyGeneration(status) == {k \in DOMAIN comps : comps[k].status = status}
InGeneration(status) == {k \in DOMAIN comps : comps[k].gen = gen /\ comps[k].status = status}
Pending == Max(InGeneration("pending") \union {0})
\* The latest by the clocks of the hosts that completed them, which may be any.
LatestCompleted == IF InGeneration("completed") = {} THEN {0} ELSE InGeneration("completed")
SourceSequence == Max(ActiveMessages \union {0})
\* The key a client chose, and the one a build makes up.
ApiKey(key) == <<0, key>>
AutoKey(source) == <<gen, source>>
ByKey(key) == {k \in DOMAIN comps : comps[k].key = key}

Requested(key, source) ==
  Append(comps, [gen |-> gen, key |-> key, status |-> "pending", error |-> "none", source |-> source,
                 covers |-> NoSummary, kept |-> {}])

\* The API's request.  A repeated key returns the row it made; another pending row refuses the request.
RequestCompaction(key) ==
  /\ Len(comps) < MaxCompactions
  /\ ByKey(ApiKey(key)) = {} /\ Pending = 0
  /\ comps' = Requested(ApiKey(key), SourceSequence)
  /\ UNCHANGED <<epoch, gen, lease, attempt, msgs, ckpts, ckpt, build, past, astray>>

\* A rewind keeps the rows up to the checkpoint as a new branch and gives up pending compactions.
Retained(c) == {s \in DOMAIN msgs : /\ msgs[s].epoch = ckpts[c].epoch /\ s <= ckpts[c].at
                                    /\ msgs[s].index <= ckpts[c].index}
\* Two retained rows at one transcript position refuse the rewind.
Rewindable(c) ==
  \A s, t \in Retained(c) : msgs[s].index # 0 /\ msgs[s].index = msgs[t].index => s = t
SeedBranch(c) ==
  msgs \o [i \in 1 .. Cardinality(Retained(c)) |->
             [msgs[InOrder(Retained(c))[i]] EXCEPT !.epoch = epoch + 1, !.own = FALSE]]
Superseded ==
  [k \in DOMAIN comps |->
     IF comps[k].status = "pending"
       THEN [comps[k] EXCEPT !.status = "failed", !.error = "superseded"] ELSE comps[k]]

Rewind(c) ==
  /\ lease = NoWorker /\ epoch < MaxEpoch
  /\ Rewindable(c) /\ Len(SeedBranch(c)) <= MaxMessages
  /\ msgs' = SeedBranch(c) /\ comps' = Superseded
  /\ epoch' = epoch + 1 /\ gen' = gen + 1 /\ ckpt' = c /\ past' = ckpts[c].past
  /\ UNCHANGED <<lease, attempt, ckpts, build, astray>>

----------------------------------------------------------------------------
(* An attempt builds its context *)

\* The lease and what recovery reads under it: here, the summary of the checkpoint.
Start(w) ==
  /\ lease = NoWorker /\ build[w].pc = "idle"
  /\ attempt < MaxAttempts /\ attempt' = attempt + 1
  /\ lease' = w
  /\ build' = [build EXCEPT ![w] = [Idle EXCEPT !.pc = "latest", !.epoch = epoch,
                 !.recovered = IF ckpt = 0 THEN NoSummary ELSE ckpts[ckpt].summary]]
  /\ UNCHANGED <<epoch, gen, msgs, comps, ckpts, ckpt, past, astray>>

ReadLatest(w) ==
  /\ build[w].pc = "latest"
  /\ \E k \in LatestCompleted :
       build' = [build EXCEPT ![w].pc = "pending", ![w].latest = IF k = 0 THEN 0 ELSE comps[k].source,
                              ![w].summary = IF k = 0 THEN build[w].recovered ELSE comps[k].covers]
  /\ UNCHANGED <<epoch, gen, lease, attempt, msgs, comps, ckpts, ckpt, past, astray>>

ReadPending(w) ==
  /\ build[w].pc = "pending"
  /\ build' = [build EXCEPT ![w].pc = IF Pending = 0 THEN "request" ELSE "load", ![w].pending = Pending]
  /\ UNCHANGED <<epoch, gen, lease, attempt, msgs, comps, ckpts, ckpt, past, astray>>

\* A pending row that appeared meanwhile is taken; a compaction at this watermark that ended is not
\* asked for again.
RequestIfNeeded(w) ==
  /\ build[w].pc = "request"
  /\ LET uncompacted == ListMessages(build[w].latest, Len(msgs))
         source == Max(uncompacted \union {0})
         key == AutoKey(source)
     IN IF Pending # 0 \/ Cardinality(uncompacted) < Threshold \/ ByKey(key) # {} \/ Len(comps) = MaxCompactions
          THEN /\ build' = [build EXCEPT ![w].pc = "load", ![w].pending = Pending]
               /\ UNCHANGED comps
          ELSE /\ comps' = Requested(key, source)
               /\ build' = [build EXCEPT ![w].pc = "load", ![w].pending = Len(comps) + 1]
  /\ UNCHANGED <<epoch, gen, lease, attempt, msgs, ckpts, ckpt, past, astray>>

Through(w) == IF build[w].pending = 0 THEN Len(msgs) ELSE comps[build[w].pending].source

\* The attempt fails; its run is released in the same breath if it still holds the lease.
Stopped(w) == [build EXCEPT ![w] = Idle]
Release(w) == lease' = IF lease = w THEN NoWorker ELSE lease

\* Too many messages, or any failure of a load, leaves a pending compaction as it is.
Load(w) ==
  /\ build[w].pc = "load"
  /\ \E found \in {ListMessages(build[w].latest, Through(w))} :
       \/ /\ Cardinality(found) <= HistoryLimit
          /\ build' = [build EXCEPT ![w].pc = "assemble", ![w].conv = InOrder(found)]
          /\ UNCHANGED lease
       \/ build' = Stopped(w) /\ Release(w)
  /\ UNCHANGED <<epoch, gen, attempt, msgs, comps, ckpts, ckpt, past, astray>>

\* The recent messages are critical, and so is the call that the first of them answers.
RecentStart(conv) ==
  LET first == Max({1, Len(conv) - Recent + 1})
      call == Max({i \in 1 .. first : msgs[conv[i]].role = "assistant"} \union {1})
  IN IF first <= Len(conv) /\ msgs[conv[first]].role = "tool" THEN call ELSE first

TextOf(S) == {msgs[s].of : s \in S}
Critical(conv) == SubSeq(conv, RecentStart(conv), Len(conv))

MutKnownFrom(summary) == {}
\* The previous summary is a fragment like the others, and may go into the next one.
KnownFrom(summary) == summary \ NoSummary
\* What the compressor may be given: fragments of high priority first, as many as fit.
Noncritical(b) == TextOf(ToSet(b.conv) \ ToSet(Critical(b.conv))) \union KnownFrom(b.summary)

\* The fragments that are system messages become one message before the conversation.
Assembled(b, conv) == [b EXCEPT !.pc = "finish", !.conv = conv, !.size = Len(conv) + 1]

\* The summary is cut to a prefix that fits beside the critical fragments, which may be empty.
FitSummary(summary) == {summary, NoSummary}

\* No fragment may fit, and the call to the model may fail.
Compressed(b) ==
  {[b EXCEPT !.pc = "fail"]} \union
  {[Assembled(b, Critical(b.conv)) EXCEPT !.made = made] : made \in FitSummary(Noncritical(b))}

\* The context fits and nobody asked for a compaction; or the critical fragments stay and the others are
\* summarised.  The critical part alone may be over the budget.  Files, memories and the diff are fragments
\* too, so there may be something to summarise even if every message is recent.
Assemble(w) ==
  /\ build[w].pc = "assemble"
  /\ LET b == [build[w] EXCEPT !.latest = 0]
         whole == IF b.pending = 0 THEN {Assembled(b, b.conv)} ELSE {}
     IN \E next \in Compressed(b) \union whole : build' = [build EXCEPT ![w] = next]
  /\ UNCHANGED <<epoch, gen, lease, attempt, msgs, comps, ckpts, ckpt, past, astray>>

\* Ending a compaction: only from pending; the same end again is accepted, any other is refused.
Ended(k, status, error, covers, kept) ==
  [comps EXCEPT ![k] = [@ EXCEPT !.status = status, !.error = error, !.covers = covers, !.kept = kept]]
CanEnd(k) == comps[k].status = "pending"
SameFailure(k, error) == comps[k].error = error /\ error # "none"
MayBeSameSummary(k, made) == comps[k].status = "completed" /\ comps[k].covers = made

\* A build without a summary ends its compaction as a failure.
Error(made) == IF made = NoSummary THEN "empty" ELSE "none"

\* The summary the loop writes into its checkpoints: the new one, or again that of the last checkpoint.
InUse(w) == LET b == build[w] IN IF b.made # NoSummary THEN b.made ELSE b.recovered

\* All that the loop still needs of the conversation.
LastOf(conv) == SubSeq(conv, Max({1, Len(conv)}), Len(conv))

\* The build returns: the attempt goes on to the loop with the summary in use.
Built(w) == [build EXCEPT ![w] = [@ EXCEPT !.pc = "loop", !.pending = 0, !.made = NoSummary, !.summary = InUse(w), !.recovered = NoSummary,
                                          !.conv = LastOf(build[w].conv)]]

Finish(w) ==
  /\ build[w].pc = "finish"
  /\ LET b == build[w]
         error == Error(b.made)
     IN \/ b.pending = 0 /\ build' = Built(w) /\ UNCHANGED <<comps, lease, astray>>
        \/ /\ b.pending # 0 /\ CanEnd(b.pending)
           /\ comps' = Ended(b.pending, IF error = "none" THEN "completed" ELSE "failed", error, b.made,
                             TextOf(ToSet(b.conv)))
           /\ astray' = (astray \/ b.epoch # epoch)
           /\ build' = Built(w) /\ UNCHANGED lease
        \/ /\ b.pending # 0 /\ ~CanEnd(b.pending)
           /\ \/ /\ SameFailure(b.pending, error) \/ MayBeSameSummary(b.pending, b.made)
                 /\ build' = Built(w) /\ UNCHANGED lease
              \/ ~SameFailure(b.pending, error) /\ build' = Stopped(w) /\ Release(w)
           /\ UNCHANGED <<comps, astray>>
  /\ UNCHANGED <<epoch, gen, attempt, msgs, ckpts, ckpt, past>>

\* The failure of the build is recorded, and the attempt fails.
RecordFailure(w) ==
  /\ build[w].pc = "fail"
  /\ comps' = IF build[w].pending # 0 /\ CanEnd(build[w].pending)
                THEN Ended(build[w].pending, "failed", "failed", NoSummary, {}) ELSE comps
  /\ build' = Stopped(w) /\ Release(w)
  /\ UNCHANGED <<epoch, gen, attempt, msgs, ckpts, ckpt, past, astray>>

----------------------------------------------------------------------------
(* The loop appends to the transcript *)

\* The rows whose identity is this position of the branch; a copy made by a rewind has another.
Taken(index) == {s \in ActiveMessages : msgs[s].own /\ msgs[s].index = index}

Fenced(w) == lease = w /\ build[w].epoch = epoch
Position(w) == build[w].size + 1
StoredAs(w, s) == build' = [build EXCEPT ![w].size = Position(w), ![w].conv = <<s>>]

\* A turn stores the model's message, makes the checkpoint of its tool call, and then stores the result.
\* The position after the transcript it was built with is its identity in the branch.
AppendNew(w) ==
  LET answers == build[w].conv # <<>> /\ msgs[Last(build[w].conv)].role = "assistant"
      next == Len(msgs) + 1
  IN
  /\ Fenced(w) /\ Taken(Position(w)) = {} /\ next <= MaxMessages
  /\ \E role \in {"assistant"} \union (IF answers THEN {"tool"} ELSE {}) :
       /\ msgs' = Append(msgs, [epoch |-> epoch, of |-> next, index |-> Position(w), own |-> TRUE, role |-> role])
       /\ past' = past \union {next}
       /\ IF role = "tool" THEN UNCHANGED <<ckpts, ckpt>>
          ELSE /\ ckpts' = Append(ckpts, [epoch |-> epoch, index |-> Position(w), at |-> next,
                                          summary |-> build[w].summary, past |-> past'])
               /\ ckpt' = Len(ckpts) + 1
  /\ StoredAs(w, next) /\ UNCHANGED lease

\* The same message is there already: the turn goes on over it, with the checkpoint it has.
AppendAgain(w) ==
  /\ Fenced(w) /\ \E s \in Taken(Position(w)) : StoredAs(w, s)
  /\ UNCHANGED <<lease, msgs, ckpts, ckpt, past>>

\* Another message there is a conflict, which fails the attempt, and so does a lost lease.
AppendRefused(w) ==
  /\ ~Fenced(w) \/ Taken(Position(w)) # {}
  /\ build' = Stopped(w) /\ Release(w)
  /\ UNCHANGED <<msgs, ckpts, ckpt, past>>

AppendTranscript(w) ==
  /\ build[w].pc = "loop"
  /\ AppendNew(w) \/ AppendAgain(w) \/ AppendRefused(w)
  /\ UNCHANGED <<epoch, gen, attempt, comps, astray>>

\* The attempt ends and gives its lease back.
EndAttempt(w) ==
  /\ build[w].pc = "loop"
  /\ build' = Stopped(w) /\ Release(w)
  /\ UNCHANGED <<epoch, gen, attempt, msgs, comps, ckpts, ckpt, past, astray>>

\* The lease expires and recovery takes it; the worker does not know yet.
LoseLease ==
  /\ lease # NoWorker /\ lease' = NoWorker
  /\ UNCHANGED <<epoch, gen, attempt, msgs, comps, ckpts, ckpt, build, past, astray>>

Next ==
  \/ \E w \in Workers :
       \/ Start(w) \/ ReadLatest(w) \/ ReadPending(w) \/ RequestIfNeeded(w) \/ Load(w) \/ Assemble(w)
       \/ Finish(w) \/ RecordFailure(w) \/ AppendTranscript(w) \/ EndAttempt(w)
  \/ \E key \in Keys : RequestCompaction(key)
  \/ \E c \in DOMAIN ckpts : Rewind(c)
  \/ LoseLease

Spec == Init /\ [][Next]_vars

----------------------------------------------------------------------------
(* Properties *)

\* Every row and every build is well formed.
TypeOK ==
  /\ epoch \in 1 .. MaxEpoch /\ gen \in 1 .. MaxEpoch /\ lease \in Workers \union {NoWorker}
  /\ attempt \in 0 .. MaxAttempts
  /\ \A s \in DOMAIN msgs : msgs[s] \in Message
  /\ \A k \in DOMAIN comps :
       /\ comps[k] \in Compaction
       /\ (comps[k].status = "completed") = (comps[k].covers # NoSummary)
  /\ \A c \in DOMAIN ckpts : ckpts[c] \in Checkpoint
  /\ ckpt \in 0 .. Len(ckpts)
  /\ \A w \in Workers : /\ build[w].latest \in 0 .. Len(msgs) /\ build[w].pending \in 0 .. Len(comps)
                        /\ ToSet(build[w].conv) \subseteq DOMAIN msgs
                        /\ {build[w].recovered, build[w].summary, build[w].made} \subseteq Summaries
  /\ past \subseteq Texts /\ astray \in BOOLEAN

\* A session has one pending compaction at a time, of its present generation: a request of the API and the
\* proactive requests of two builds do not add a second, and a rewind leaves none behind
\* (request_compaction, request_compaction_if_needed, rewind).
OnePendingCompaction ==
  \A j, k \in DOMAIN comps : comps[j].status = "pending" /\ comps[k].status = "pending"
                               => j = k /\ comps[j].gen = gen

\* A compaction that ended keeps its end, whatever a build that still has it in hand reports later: the
\* builds of a lost and of a new attempt may both have taken the same request (_finish).
OutcomesAreFinal ==
  \A k \in DOMAIN comps : comps[k].status # "pending" => comps'[k] = comps[k]

\* Within a generation a compaction is completed only at or after the watermark of every one completed
\* before it, even when a stale build completes it: history is never given up for an older summary
\* (request_compaction, _finish).
WatermarksGrow ==
  \A j, k \in DOMAIN comps :
    comps[j].gen = comps[k].gen /\ comps[j].status = "completed"
      /\ comps[k].status # "completed" /\ comps'[k].status = "completed"
    => comps[k].source >= comps[j].source

\* A summary holds nothing that came after its watermark: such a message would reach the model twice
\* (load with through_message_sequence).
SummaryWithinWatermark ==
  \A k \in DOMAIN comps : comps[k].status = "completed" =>
    comps[k].covers \subseteq TextOf({s \in DOMAIN msgs : s <= comps[k].source})

\* No message of the branch falls between a watermark and the history a build loads, although it reads
\* them in four transactions: each one up to the watermark of a completed compaction was before a build
\* that completed one, among the fragments to be summarised, itself or through the summary that was
\* continued, or among those kept as they are (DurableRunContextBuilder.build).  It does not say that the
\* next build still has it: fragments that do not fit are not summarised, a summary is cut, and what a
\* build kept is behind the watermark.
HistoryHasNoGap ==
  \A k \in DOMAIN comps : comps[k].status = "completed" /\ comps[k].gen = gen =>
    \A s \in ActiveMessages : s <= comps[k].source =>
      \/ msgs[s].of \in comps[k].covers \union comps[k].kept
      \/ \E j \in 1 .. k - 1 : comps[j].status = "completed" /\ msgs[s].of \in comps[j].kept

\* Compactions of a session are requested once, end once, go forward and skip nothing of its history.
CompactionsAreSound ==
  [][/\ (TypeOK /\ OnePendingCompaction /\ SummaryWithinWatermark /\ HistoryHasNoGap)'
     /\ OutcomesAreFinal /\ WatermarksGrow]_vars

\* What the model is told: the conversation, and the summary it continues or that was made of it.
Told(w) == TextOf(ToSet(build[w].conv)) \union KnownFrom(build[w].summary) \union KnownFrom(build[w].made)

\* ADR 0034: a rewind supersedes pending work "so summaries derived from an abandoned future cannot
\* enter active context".  Neither a summary of the present generation nor what an attempt of the present
\* branch is told has a text that a rewind left behind, with one exception, which the code has: a build
\* begun before the rewind reads the old summary, meets a request made after it, and completes that
\* (DurableRunContextBuilder.build; _finish asks neither for the epoch nor for the lease).
AbandonedFutureStaysOut ==
  astray \/ /\ \A k \in InGeneration("completed") : comps[k].covers \subseteq past
            /\ \A w \in Workers : build[w].epoch = epoch => Told(w) \subseteq past
=============================================================================
