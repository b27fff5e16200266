------------------------ MODULE SessionContextProofs ------------------------
(***************************************************************************)
(* What is proved of a session's conversation and its compactions (module  *)
(* SessionContext), for any number of workers, requests and messages:      *)
(* compactions are requested once, end once, go forward and leave no gap   *)
(* before their watermark; and what a rewind left behind comes back only   *)
(* when a build begun before it completes a compaction asked for after it. *)
(***************************************************************************)
EXTENDS SessionContext, FiniteSetTheorems, SequenceTheorems, WellFoundedInduction, TLAPS

-----------------------------------------------------------------------------
(************************** The inductive invariant ************************)

(* The parts of the invariant are about the rows M (messages), C (compactions) and K (checkpoints) and the
   epoch E, so that they can be said of the tables before and after a step. *)

Steps == {"idle", "latest", "pending", "request", "load", "assemble", "fail", "finish", "loop"}
Builds == [pc : Steps, epoch : 0 .. MaxEpoch, recovered : Summaries, latest : Nat, pending : Nat, conv : Seq(Nat), summary : Summaries,
           made : Summaries, size : Nat]

Live(M, E) == {s \in 1 .. Len(M) : M[s].epoch = E}
\* The texts of the first n messages; 0 stands for no summary.
Upto(M, n) == {M[s].of : s \in {t \in 1 .. Len(M) : t <= n}} \union {0}
IsPending(C, p) == p \in 1 .. Len(C) /\ C[p].status = "pending"
IsCompleted(C, k) == k \in 1 .. Len(C) /\ C[k].status = "completed"
KeptBy(C, text) == \E j \in 1 .. Len(C) : IsCompleted(C, j) /\ text \in C[j].kept

MessagesSound(M, E) ==
  /\ M \in Seq(Message) /\ Len(M) \in 1 .. MaxMessages
  /\ M[Len(M)].epoch = E
  /\ \A s \in 1 .. Len(M) : M[s].epoch <= E

\* Only the last row can be pending, watermarks are in the order of the rows, and a summary stays within its own.
RowsSound(C, M, E) ==
  /\ C \in Seq(Compaction)
  /\ \A k \in 1 .. Len(C) :
       /\ C[k].gen <= E /\ C[k].source <= Len(M)
       /\ \A j \in 1 .. k : C[j].source <= C[k].source
       /\ IsPending(C, k) => k = Len(C) /\ C[k].gen = E
       /\ IsCompleted(C, k) <=> C[k].covers # NoSummary
       /\ C[k].covers \subseteq Upto(M, C[k].source)

\* A checkpoint is of a message of its epoch, and the one in use keeps to a pending watermark.
CheckpointsSound(K, c, M, C) ==
  /\ K \in Seq(Checkpoint) /\ c \in 0 .. Len(K)
  /\ \A k \in 1 .. Len(K) : /\ K[k].at \in 1 .. Len(M)
                            /\ M[K[k].at].epoch = K[k].epoch /\ M[K[k].at].index <= K[k].index
                            /\ K[k].summary \subseteq Upto(M, Len(M))
  /\ \A p \in 1 .. Len(C) : IsPending(C, p) /\ c # 0 => K[c].summary \subseteq Upto(M, C[p].source)

Accounted(M, C, E) ==
  \A k \in 1 .. Len(C) : IsCompleted(C, k) /\ C[k].gen = E =>
    \A s \in Live(M, E) : s <= C[k].source =>
      \/ M[s].of \in C[k].covers \union C[k].kept
      \/ \E j \in 1 .. k - 1 : IsCompleted(C, j) /\ M[s].of \in C[j].kept

\* The values of a build refer to rows there are.
Shape(b, M, C) ==
  /\ b \in Builds
  /\ b.latest <= Len(M) /\ b.pending <= Len(C)
  /\ b.conv \in Seq(1 .. Len(M)) /\ Len(b.conv) <= Len(M)
  /\ b.recovered \subseteq Upto(M, Len(M))
  /\ b.summary \subseteq Upto(M, Len(M)) /\ b.made \subseteq Upto(M, Len(M))
  /\ b.pc # "finish" => b.made = NoSummary
  /\ b.pc \in {"finish", "loop"} => b.latest = 0

\* What the build of the lease's holder (holds), or one that has the pending row in hand, has read is not beyond
\* the watermark of that row; any other build can neither end the row nor make a checkpoint.
Within(b, holds, M, C) ==
  \A p \in 1 .. Len(C) : IsPending(C, p) =>
    /\ b.pc \in {"idle", "latest"} \/ holds => b.recovered \subseteq Upto(M, C[p].source)
    /\ b.pc \in {"idle", "latest", "pending", "request"} \/ b.pending = p \/ holds => b.summary \subseteq Upto(M, C[p].source)
    /\ b.pc = "load" /\ holds /\ b.pending # p => Len(M) <= C[p].source
    /\ b.pc = "assemble" /\ (b.pending = p \/ holds) => \A i \in 1 .. Len(b.conv) : b.conv[i] <= C[p].source
    /\ b.pc = "finish" /\ (b.pending = p \/ holds) => b.made \subseteq Upto(M, C[p].source)

\* What precedes the watermark a build has read is in the summary it has read or was kept by an earlier one, and
\* what it has loaded, or made of it, reaches from there to the watermark of its pending row.
Accounts(b, M, C, E) ==
  /\ \A s \in Live(M, E) : s <= b.latest => M[s].of \in b.summary \/ KeptBy(C, M[s].of)
  /\ b.pc = "assemble" /\ IsPending(C, b.pending) =>
       \A s \in Live(M, E) : s <= C[b.pending].source =>
         s \in ToSet(b.conv) \/ M[s].of \in b.summary \/ KeptBy(C, M[s].of)
  /\ b.pc = "finish" /\ IsPending(C, b.pending) /\ b.made # NoSummary =>
       \A s \in Live(M, E) : s <= C[b.pending].source =>
         \/ M[s].of \in b.made \/ KeptBy(C, M[s].of)
         \/ \E t \in ToSet(b.conv) : M[t].of = M[s].of

BuildSound(b, holds, M, C, E) == Shape(b, M, C) /\ Within(b, holds, M, C) /\ Accounts(b, M, C, E)

Registers == /\ epoch \in 1 .. MaxEpoch /\ gen = epoch /\ lease \in Workers \union {NoWorker}
             /\ DOMAIN build = Workers /\ build = [w \in Workers |-> build[w]]

\* The counter of attempts and what the model remembers of the past.
Ghosts == attempt \in 0 .. MaxAttempts /\ past \subseteq Texts /\ astray \in BOOLEAN

Inv ==
  /\ Registers
  /\ MessagesSound(msgs, epoch) /\ RowsSound(comps, msgs, epoch) /\ CheckpointsSound(ckpts, ckpt, msgs, comps)
  /\ Accounted(msgs, comps, epoch)
  /\ \A w \in Workers : BuildSound(build[w], lease = w, msgs, comps, epoch)

-----------------------------------------------------------------------------
(******************************* The operators *****************************)

\* A finite set of numbers has a largest one: set inclusion is well founded, and the
\* members above a member get fewer.
LEMMA LargestExists ==
    ASSUME NEW S \in SUBSET Nat, IsFiniteSet(S), S # {}
    PROVE  \E m \in S : \A n \in S : n <= m
<1>1. IsWellFoundedOn(StrictSubsetOrdering(Nat), FiniteSubsetsOf(Nat))
  BY FS_StrictSubsetOrderingWellFounded
<1> DEFINE Above(m) == {n \in S : n > m}
           Rests == {Above(m) : m \in S}
<1>2. Rests \subseteq FiniteSubsetsOf(Nat) /\ Rests # {}
  <2>1. \A m \in S : IsFiniteSet(Above(m))
    BY FS_Subset
  <2> QED
    BY <2>1 DEF FiniteSubsetsOf
<1> HIDE DEF Rests
<1>3. PICK x \in Rests : \A y \in Rests : ~ (<<y, x>> \in StrictSubsetOrdering(Nat))
  BY <1>1, <1>2, WFMin
<1>4. PICK m \in S : x = Above(m)
  BY DEF Rests
<1>5. ASSUME NEW n \in S, n > m PROVE FALSE
  <2>1. Above(n) \in Rests
    BY DEF Rests
  <2>2. Above(n) \subseteq Above(m) /\ n \in Above(m) /\ n \notin Above(n)
    <3>1. m \in Nat /\ n \in Nat /\ n > m /\ ~(n > n)
      BY <1>5
    <3>2. \A k \in S : k > n => k > m
      BY <3>1
    <3> QED
      BY <3>1, <3>2
  <2>3. Above(n) \in SUBSET Nat /\ Above(m) \in SUBSET Nat /\ Above(n) # Above(m)
    BY <2>2
  <2>4. <<Above(n), x>> \in StrictSubsetOrdering(Nat)
    BY <1>4, <2>2, <2>3 DEF StrictSubsetOrdering
  <2> QED
    BY <1>3, <2>1, <2>4
<1> QED
  BY <1>5

LEMMA MaxIs ==
  ASSUME NEW S \in SUBSET Nat, IsFiniteSet(S), S # {}
  PROVE  Max(S) \in S /\ \A y \in S : Max(S) >= y
<1>1. PICK m \in S : \A n \in S : n <= m
  BY LargestExists
<1>2. \A y \in S : m >= y
  BY <1>1
<1> QED
  BY <1>2 DEF Max

LEMMA MaxOfTwo ==
  ASSUME NEW a \in Int, NEW b \in Int
  PROVE  Max({a, b}) \in {a, b} /\ Max({a, b}) >= a /\ Max({a, b}) >= b
<1>1. \E x \in {a, b} : \A y \in {a, b} : x >= y
  <2>1. CASE a >= b
    BY <2>1
  <2>2. CASE b >= a
    BY <2>2
  <2> QED
    BY <2>1, <2>2
<1>2. Max({a, b}) \in {a, b} /\ \A y \in {a, b} : Max({a, b}) >= y
  BY <1>1 DEF Max
<1> QED
  BY <1>2

\* The largest of some row numbers, or 0.
LEMMA MaxOrZero ==
  ASSUME NEW n \in Nat, NEW S \in SUBSET (1 .. n)
  PROVE  /\ Max(S \union {0}) \in S \union {0}
         /\ \A y \in S : Max(S \union {0}) >= y
         /\ Max(S \union {0}) = 0 <=> S = {}
<1>1. IsFiniteSet(S)
  <2>1. IsFiniteSet(1 .. n)
    BY FS_Interval
  <2> QED
    BY <2>1, FS_Subset
<1> DEFINE T == S \union {0}
<1>2. T \in SUBSET Nat /\ IsFiniteSet(T) /\ T # {}
  BY <1>1, FS_AddElement
<1>3. Max(T) \in T /\ \A y \in T : Max(T) >= y
  BY <1>2, MaxIs
<1>4. ASSUME NEW y \in S PROVE y >= 1 /\ y \in Nat
  OBVIOUS
<1>5. CASE S = {}
  BY <1>3, <1>5
<1>6. CASE S # {}
  <2>1. PICK y \in S : TRUE
    BY <1>6
  <2>2. Max(T) \in Nat /\ Max(T) >= y /\ y >= 1 /\ y \in Nat
    BY <1>2, <1>3, <1>4
  <2>3. Max(T) # 0
    BY <2>2
  <2> QED
    BY <1>3, <1>6, <2>3
<1> QED
  BY <1>5, <1>6

\* What InOrder returns: every member of the set, once.  Ranks differ, and there are as many as members.
LEMMA InOrderIs ==
  ASSUME NEW n \in Nat, NEW S \in SUBSET (1 .. n)
  PROVE  /\ InOrder(S) \in Seq(S) /\ Len(InOrder(S)) = Cardinality(S)
         /\ Cardinality(S) \in Nat /\ Cardinality(S) <= n
         /\ ToSet(InOrder(S)) = S
<1>1. IsFiniteSet(S) /\ Cardinality(S) \in Nat /\ Cardinality(S) <= n
  <2>1. IsFiniteSet(1 .. n) /\ Cardinality(1 .. n) = n
    BY FS_Interval
  <2> QED
    BY <2>1, FS_Subset, FS_CardinalityType
<1> DEFINE size == Cardinality(S)
           below(s) == {t \in S : t <= s}
           rank(s) == Cardinality(below(s))
<1>2. ASSUME NEW s \in S PROVE IsFiniteSet(below(s)) /\ rank(s) \in 1 .. size
  <2>1. IsFiniteSet(below(s)) /\ rank(s) <= size
    BY <1>1, FS_Subset
  <2>2. rank(s) \in Nat
    BY <2>1, FS_CardinalityType
  <2>3. s \in below(s)
    OBVIOUS
  <2>4. rank(s) # 0
    BY <2>1, <2>3, FS_EmptySet
  <2> QED
    BY <1>1, <2>1, <2>2, <2>4
<1>3. ASSUME NEW s \in S, NEW t \in S, rank(s) = rank(t), s <= t PROVE s = t
  <2>1. below(s) \subseteq below(t)
    <3>1. ASSUME NEW u \in S, u <= s PROVE u <= t
      <4>1. s \in Nat /\ t \in Nat /\ u \in Nat
        OBVIOUS
      <4> QED
        BY <1>3, <3>1, <4>1
    <3> QED
      BY <3>1
  <2>2. below(s) = below(t)
    BY <1>2, <1>3, <2>1, FS_Subset
  <2>3. t \in below(t)
    OBVIOUS
  <2>4. t <= s
    BY <2>2, <2>3
  <2> QED
    BY <1>3, <2>4
<1>4. ASSUME NEW s \in S, NEW t \in S, rank(s) = rank(t) PROVE s = t
  <2>1. s <= t \/ t <= s
    OBVIOUS
  <2> QED
    BY <1>3, <1>4, <2>1
<1> HIDE DEF rank
<1>5. ASSUME NEW i \in 1 .. size PROVE \E s \in S : rank(s) = i
  <2> SUFFICES ASSUME \A s \in S : rank(s) # i PROVE FALSE
    OBVIOUS
  <2> DEFINE others == (1 .. size) \ {i}
             f == [s \in S |-> rank(s)]
  <2>1. IsFiniteSet(others) /\ Cardinality(others) < Cardinality(S)
    <3>1. IsFiniteSet(1 .. size) /\ Cardinality(1 .. size) = size
      BY <1>1, FS_Interval
    <3>2. IsFiniteSet(others) /\ Cardinality(others) = size - 1
      BY <3>1, FS_RemoveElement
    <3> QED
      BY <1>1, <3>2
  <2>2. f \in [S -> others]
    BY <1>2
  <2>3. \A s \in S : f[s] = rank(s)
    OBVIOUS
  <2> HIDE DEF others, f
  <2>4. PICK x, y \in S : x # y /\ f[x] = f[y]
    BY <1>1, <2>1, <2>2, FS_PigeonHole
  <2> QED
    BY <1>4, <2>3, <2>4
<1> DEFINE seq == InOrder(S)
<1>6. seq = [i \in 1 .. size |-> CHOOSE s \in S : rank(s) = i]
  BY DEF InOrder, rank
<1> HIDE DEF seq
<1>7. ASSUME NEW i \in 1 .. size PROVE seq[i] \in S /\ rank(seq[i]) = i
  BY <1>5, <1>6
<1>8. seq \in Seq(S) /\ Len(seq) = size /\ DOMAIN seq = 1 .. size
  <2>1. seq \in [1 .. size -> S]
    BY <1>6, <1>7
  <2> QED
    BY <1>1, <2>1, SeqDef, LenProperties
<1>9. ASSUME NEW s \in S PROVE s \in ToSet(seq)
  <2>1. rank(s) \in 1 .. size /\ seq[rank(s)] = s
    BY <1>2, <1>4, <1>7
  <2> QED
    BY <1>8, <2>1 DEF ToSet
<1>10. ToSet(seq) = S
  BY <1>7, <1>8, <1>9 DEF ToSet
<1> QED
  BY <1>1, <1>8, <1>10 DEF seq

-----------------------------------------------------------------------------
(************************* Builds and growing tables ***********************)

Grows(M, M2) == /\ Len(M) \in Nat /\ Len(M2) \in Nat /\ Len(M) <= Len(M2)
                /\ \A s \in 1 .. Len(M) : M2[s] = M[s]

LEMMA UptoGrows ==
  ASSUME NEW M, NEW M2, Grows(M, M2), NEW n \in Nat, NEW m \in Nat, n <= m
  PROVE  Upto(M, n) \subseteq Upto(M2, m)
<1>1. ASSUME NEW s \in 1 .. Len(M), s <= n PROVE s \in 1 .. Len(M2) /\ s <= m /\ M2[s] = M[s]
  BY <1>1 DEF Grows
<1> QED
  BY <1>1 DEF Upto

LEMMA BuildFields ==
  ASSUME NEW b \in Builds
  PROVE  /\ b.pc \in Steps /\ b.epoch \in 0 .. MaxEpoch /\ b.recovered \in Summaries /\ b.latest \in Nat /\ b.pending \in Nat
         /\ b.conv \in Seq(Nat) /\ b.summary \in Summaries /\ b.made \in Summaries /\ b.size \in Nat
BY DEF Builds

\* A build that has lost the lease owes less.
LEMMA WithoutLease ==
  ASSUME NEW b, NEW h \in BOOLEAN, NEW h2 \in BOOLEAN, h2 => h, NEW M, NEW C, NEW E, BuildSound(b, h, M, C, E)
  PROVE  BuildSound(b, h2, M, C, E)
BY DEF BuildSound, Within

\* Messages are added, by another worker.
LEMMA MessagesAdded ==
  ASSUME NEW b, NEW M, NEW M2, NEW C, NEW E, NEW E2, Grows(M, M2), Len(C) \in Nat,
         \A p \in 1 .. Len(C) : C[p].source \in Nat /\ C[p].source <= Len(M),
         \A s \in Live(M2, E2) : s \in Live(M, E) \/ s > Len(M),
         BuildSound(b, FALSE, M, C, E)
  PROVE  BuildSound(b, FALSE, M2, C, E2)
<1>0. Len(M) \in Nat /\ Len(M2) \in Nat /\ Len(M) <= Len(M2) /\ b \in Builds /\ Shape(b, M, C)
  BY DEF Grows, BuildSound, Shape
<1>1. Shape(b, M2, C)
  <2>1. b.conv \in Seq(1 .. Len(M2))
    <3>1. 1 .. Len(M) \subseteq 1 .. Len(M2)
      BY <1>0
    <3> QED
      BY <1>0, <3>1, SeqMonotonic DEF Shape
  <2>2. Upto(M, Len(M)) \subseteq Upto(M2, Len(M2))
    BY <1>0, UptoGrows
  <2>3. Len(b.conv) \in Nat /\ b.latest \in Nat /\ b.size \in Nat
    BY <1>0, BuildFields, LenProperties
  <2> QED
    BY <1>0, <2>1, <2>2, <2>3 DEF Shape
<1>2. Within(b, FALSE, M2, C)
  <2>1. \A p \in 1 .. Len(C) : Upto(M, C[p].source) \subseteq Upto(M2, C[p].source)
    BY UptoGrows
  <2> QED
    BY <2>1 DEF BuildSound, Within
<1>3. ASSUME NEW s \in Live(M2, E2), NEW n \in Nat, n <= Len(M), s <= n PROVE s \in Live(M, E) /\ M2[s] = M[s]
  <2>1. s \in Nat /\ ~(s > Len(M))
    BY <1>0, <1>3 DEF Live
  <2>2. s \in Live(M, E)
    BY <2>1
  <2> QED
    BY <2>2 DEF Live, Grows
<1>4. Accounts(b, M2, C, E2)
  <2>1. b.latest \in Nat /\ b.latest <= Len(M)
    BY <1>0, BuildFields DEF Shape
  <2>2. \A s \in Live(M2, E2) : s <= b.latest => M2[s].of \in b.summary \/ KeptBy(C, M2[s].of)
    BY <1>3, <2>1 DEF BuildSound, Accounts
  <2>3. ASSUME b.pc = "assemble", IsPending(C, b.pending), NEW s \in Live(M2, E2), s <= C[b.pending].source
        PROVE  s \in ToSet(b.conv) \/ M2[s].of \in b.summary \/ KeptBy(C, M2[s].of)
    <3>1. C[b.pending].source \in Nat /\ C[b.pending].source <= Len(M)
      BY <2>3 DEF IsPending
    <3>2. s \in Live(M, E) /\ M2[s] = M[s]
      BY <1>3, <2>3, <3>1
    <3> QED
      BY <2>3, <3>2 DEF BuildSound, Accounts
  <2>4. ASSUME b.pc = "finish", IsPending(C, b.pending), b.made # NoSummary, NEW s \in Live(M2, E2),
               s <= C[b.pending].source
        PROVE  M2[s].of \in b.made \/ KeptBy(C, M2[s].of) \/ \E t \in ToSet(b.conv) : M2[t].of = M2[s].of
    <3>1. C[b.pending].source \in Nat /\ C[b.pending].source <= Len(M)
      BY <2>4 DEF IsPending
    <3>2. s \in Live(M, E) /\ M2[s] = M[s]
      BY <1>3, <2>4, <3>1
    <3>3. M[s].of \in b.made \/ KeptBy(C, M[s].of) \/ \E t \in ToSet(b.conv) : M[t].of = M[s].of
      BY <2>4, <3>2 DEF BuildSound, Accounts
    <3>4. \A t \in ToSet(b.conv) : t \in 1 .. Len(M) /\ M2[t] = M[t]
      <4>1. b.conv \in Seq(1 .. Len(M))
        BY <1>0 DEF Shape
      <4>2. \A t \in ToSet(b.conv) : t \in 1 .. Len(M)
        BY <4>1, LenProperties DEF ToSet
      <4> QED
        BY <4>2 DEF Grows
    <3> QED
      BY <3>2, <3>3, <3>4
  <2> QED
    BY <2>2, <2>3, <2>4 DEF Accounts
<1> QED
  BY <1>1, <1>2, <1>4 DEF BuildSound

\* No row is pending any more, and the completed ones stand.
Closes(C, C2) ==
  /\ Len(C2) = Len(C) /\ \A p \in 1 .. Len(C) : ~IsPending(C2, p)
  /\ \A k \in 1 .. Len(C) : IsCompleted(C, k) => IsCompleted(C2, k) /\ C2[k].kept = C[k].kept

\* The pending row is ended: nothing is asked of a build's last part any more.
LEMMA PendingEnded ==
  ASSUME NEW b, NEW h \in BOOLEAN, NEW h2 \in BOOLEAN, NEW M, NEW C, NEW C2, NEW E, Closes(C, C2),
         BuildSound(b, h, M, C, E)
  PROVE  BuildSound(b, h2, M, C2, E)
<1>1. Shape(b, M, C2)
  BY DEF BuildSound, Shape, Closes
<1>2. Within(b, h2, M, C2)
  BY DEF Within, Closes
<1>3. \A text : KeptBy(C, text) => KeptBy(C2, text)
  BY DEF KeptBy, Closes
<1>4. ~IsPending(C2, b.pending)
  BY DEF IsPending, Closes
<1>5. Accounts(b, M, C2, E)
  BY <1>3, <1>4 DEF BuildSound, Accounts
<1> QED
  BY <1>1, <1>2, <1>5 DEF BuildSound

\* A row is requested, with the newest message as its watermark.
LEMMA RowRequested ==
  ASSUME NEW b, NEW h \in BOOLEAN, NEW M, NEW C \in Seq(Compaction), NEW r \in Compaction, NEW E,
         Len(M) \in Nat, r.source = Len(M),
         \A p \in 1 .. Len(C) : ~IsPending(C, p), r.status = "pending",
         BuildSound(b, h, M, C, E)
  PROVE  BuildSound(b, h, M, Append(C, r), E)
<1> DEFINE C2 == Append(C, r)
<1>1. /\ Len(C) \in Nat /\ Len(C2) = Len(C) + 1 /\ C2[Len(C) + 1] = r
      /\ \A k \in 1 .. Len(C) : C2[k] = C[k]
  BY AppendProperties, LenProperties
<1> HIDE DEF C2
<1>2. b \in Builds /\ b.pending \in Nat /\ b.pending <= Len(C)
  BY BuildFields DEF BuildSound, Shape
<1>3. Shape(b, M, C2)
  BY <1>1, <1>2 DEF BuildSound, Shape
<1>4. ASSUME NEW p, IsPending(C2, p) PROVE p = Len(C) + 1 /\ C2[p].source = Len(M)
  BY <1>1, <1>4 DEF IsPending
<1>5. Within(b, h, M, C2)
  <2> SUFFICES ASSUME NEW p \in 1 .. Len(C2), IsPending(C2, p)
               PROVE  /\ b.recovered \subseteq Upto(M, C2[p].source)
                      /\ b.summary \subseteq Upto(M, C2[p].source) /\ b.made \subseteq Upto(M, C2[p].source)
                      /\ Len(M) <= C2[p].source /\ \A i \in 1 .. Len(b.conv) : b.conv[i] <= C2[p].source
    BY DEF Within
  <2>1. C2[p].source = Len(M)
    BY <1>4
  <2>2. b.conv \in Seq(1 .. Len(M))
    BY DEF BuildSound, Shape
  <2>3. \A i \in 1 .. Len(b.conv) : b.conv[i] \in 1 .. Len(M)
    BY <2>2, ElementOfSeq
  <2> QED
    BY <2>1, <2>3 DEF BuildSound, Shape
<1>6. \A text : KeptBy(C, text) => KeptBy(C2, text)
  BY <1>1 DEF KeptBy, IsCompleted
<1>7. ~IsPending(C2, b.pending)
  BY <1>1, <1>2, <1>4
<1>8. Accounts(b, M, C2, E)
  BY <1>6, <1>7 DEF BuildSound, Accounts
<1> QED
  BY <1>3, <1>5, <1>8 DEF BuildSound, C2

-----------------------------------------------------------------------------
(******************************** The tables *******************************)

LEMMA InvFacts ==
  ASSUME Inv
  PROVE  /\ msgs \in Seq(Message) /\ Len(msgs) \in 1 .. MaxMessages /\ DOMAIN msgs = 1 .. Len(msgs)
         /\ comps \in Seq(Compaction) /\ Len(comps) \in Nat /\ DOMAIN comps = 1 .. Len(comps)
         /\ ckpts \in Seq(Checkpoint) /\ Len(ckpts) \in Nat /\ DOMAIN ckpts = 1 .. Len(ckpts) /\ ckpt \in 0 .. Len(ckpts)
         /\ epoch \in 1 .. MaxEpoch /\ gen = epoch /\ lease \in Workers \union {NoWorker}
         /\ \A k \in 1 .. Len(comps) : comps[k] \in Compaction /\ comps[k].source \in Nat /\ comps[k].source <= Len(msgs)
         /\ MaxMessages \in Nat \ {0} /\ MaxEpoch \in Nat \ {0}
<1>1. /\ msgs \in Seq(Message) /\ comps \in Seq(Compaction) /\ ckpts \in Seq(Checkpoint)
      /\ Len(msgs) \in 1 .. MaxMessages /\ ckpt \in 0 .. Len(ckpts)
      /\ epoch \in 1 .. MaxEpoch /\ gen = epoch /\ lease \in Workers \union {NoWorker}
  BY DEF Inv, Registers, MessagesSound, RowsSound, CheckpointsSound
<1>2. /\ DOMAIN msgs = 1 .. Len(msgs) /\ DOMAIN comps = 1 .. Len(comps) /\ DOMAIN ckpts = 1 .. Len(ckpts)
      /\ Len(comps) \in Nat /\ Len(ckpts) \in Nat
  BY <1>1, LenProperties
<1>3. MaxMessages \in Nat \ {0} /\ MaxEpoch \in Nat \ {0}
  BY SessionContextAssumption
<1>4. ASSUME NEW k \in 1 .. Len(comps)
      PROVE  comps[k] \in Compaction /\ comps[k].source \in Nat /\ comps[k].source <= Len(msgs)
  <2>1. comps[k] \in Compaction
    BY <1>1, ElementOfSeq
  <2>2. comps[k].source \in 0 .. MaxMessages
    BY <2>1 DEF Compaction
  <2> QED
    BY <1>3, <2>1, <2>2 DEF Inv, RowsSound
<1> QED
  BY <1>1, <1>2, <1>3, <1>4

\* What the queries of the tables return.
LEMMA PendingIs ==
  ASSUME Inv
  PROVE  /\ Pending \in 0 .. Len(comps)
         /\ Pending # 0 => IsPending(comps, Pending)
         /\ Pending = 0 => \A p \in 1 .. Len(comps) : ~IsPending(comps, p)
<1> DEFINE S == InGeneration("pending")
<1>1. S = {k \in 1 .. Len(comps) : IsPending(comps, k)}
  <2>1. \A k \in 1 .. Len(comps) : IsPending(comps, k) => comps[k].gen = gen
    BY InvFacts DEF Inv, RowsSound
  <2> QED
    BY InvFacts, <2>1 DEF InGeneration, IsPending
<1> HIDE DEF S
<1>2. Max(S \union {0}) \in S \union {0} /\ (Max(S \union {0}) = 0 <=> S = {})
  BY <1>1, InvFacts, MaxOrZero
<1>3. Pending = Max(S \union {0}) /\ Len(comps) \in Nat
  BY InvFacts DEF Pending, S
<1>4. CASE Pending = 0
  BY <1>1, <1>2, <1>3, <1>4
<1>5. CASE Pending # 0
  BY <1>1, <1>2, <1>3, <1>5
<1> QED
  BY <1>4, <1>5

LEMMA LatestIs ==
  ASSUME Inv, NEW k \in LatestCompleted
  PROVE  /\ k \in 0 .. Len(comps)
         /\ k # 0 => IsCompleted(comps, k) /\ comps[k].gen = epoch
<1>1. InGeneration("completed") = {j \in 1 .. Len(comps) : IsCompleted(comps, j) /\ comps[j].gen = epoch}
  BY InvFacts DEF InGeneration, IsCompleted
<1> QED
  BY <1>1, InvFacts DEF LatestCompleted

\* The newest message is of the present branch, so it is the newest of any part of the branch that is open above.
LEMMA NewestIs ==
  ASSUME Inv, NEW n \in Nat
  PROVE  /\ SourceSequence = Len(msgs)
         /\ LET open == ListMessages(n, Len(msgs))
            IN open \subseteq 1 .. Len(msgs) /\ (open # {} => Max(open \union {0}) = Len(msgs))
<1> DEFINE open == ListMessages(n, Len(msgs))
<1>1. /\ ActiveMessages \subseteq 1 .. Len(msgs) /\ Len(msgs) \in ActiveMessages /\ open \subseteq 1 .. Len(msgs)
      /\ Len(msgs) \in Nat
  BY InvFacts DEF Inv, MessagesSound, ActiveMessages, ListMessages
<1>2. open # {} => Len(msgs) \in open
  <2> SUFFICES ASSUME NEW s \in open PROVE Len(msgs) \in open
    OBVIOUS
  <2>1. n < s /\ s <= Len(msgs) /\ s \in Nat
    BY <1>1 DEF ListMessages
  <2> QED
    BY <1>1, <2>1 DEF ListMessages
<1>3. ASSUME NEW S \in SUBSET (1 .. Len(msgs)), Len(msgs) \in S PROVE Max(S \union {0}) = Len(msgs)
  <2> DEFINE top == Max(S \union {0})
  <2>1. top \in S \union {0} /\ top >= Len(msgs)
    BY <1>1, <1>3, MaxOrZero
  <2>2. \A x \in S \union {0} : x \in Nat /\ x <= Len(msgs)
    BY <1>1
  <2> HIDE DEF top
  <2>3. top = Len(msgs)
    BY <1>1, <2>1, <2>2
  <2> QED
    BY <2>3 DEF top
<1> HIDE DEF open
<1> QED
  BY <1>1, <1>2, <1>3 DEF SourceSequence, open

\* A new row.
LEMMA RequestKeepsTables ==
  ASSUME NEW M, NEW C \in Seq(Compaction), NEW E \in Nat, NEW K, NEW c, NEW r \in Compaction,
         MessagesSound(M, E), RowsSound(C, M, E), CheckpointsSound(K, c, M, C), Accounted(M, C, E),
         r.gen = E, r.source = Len(M), r.status = "pending", r.covers = NoSummary,
         \A p \in 1 .. Len(C) : ~IsPending(C, p)
  PROVE  LET C2 == Append(C, r)
         IN RowsSound(C2, M, E) /\ CheckpointsSound(K, c, M, C2) /\ Accounted(M, C2, E)
<1> DEFINE C2 == Append(C, r)
<1>1. /\ C2 \in Seq(Compaction) /\ Len(C) \in Nat /\ Len(C2) = Len(C) + 1 /\ C2[Len(C) + 1] = r
      /\ \A k \in 1 .. Len(C) : C2[k] = C[k]
  BY AppendProperties, LenProperties
<1> HIDE DEF C2
<1>2. Len(M) \in Nat
  BY LenProperties DEF MessagesSound
<1>3. ASSUME NEW k \in 1 .. Len(C) PROVE (IsPending(C2, k) <=> IsPending(C, k)) /\ (IsCompleted(C2, k) <=> IsCompleted(C, k))
  BY <1>1 DEF IsPending, IsCompleted
<1>4. IsPending(C2, Len(C) + 1) /\ ~IsCompleted(C2, Len(C) + 1)
  BY <1>1 DEF IsPending, IsCompleted
<1>5. \A k \in 1 .. Len(C2) : k \in 1 .. Len(C) \/ k = Len(C) + 1
  BY <1>1
<1>6. RowsSound(C2, M, E)
  <2> SUFFICES ASSUME NEW k \in 1 .. Len(C2)
               PROVE  /\ C2[k].gen <= E /\ C2[k].source <= Len(M)
                      /\ \A j \in 1 .. k : C2[j].source <= C2[k].source
                      /\ IsPending(C2, k) => k = Len(C2) /\ C2[k].gen = E
                      /\ IsCompleted(C2, k) <=> C2[k].covers # NoSummary
                      /\ C2[k].covers \subseteq Upto(M, C2[k].source)
    BY <1>1 DEF RowsSound
  <2>1. CASE k \in 1 .. Len(C)
    <3>1. \A j \in 1 .. k : j \in 1 .. Len(C) /\ C2[j] = C[j]
      BY <1>1, <2>1
    <3> QED
      BY <1>1, <1>3, <2>1, <3>1 DEF RowsSound
  <2>2. CASE k = Len(C) + 1
    <3>1. \A j \in 1 .. k : C2[j].source <= Len(M)
      BY <1>1, <1>2, <2>2 DEF RowsSound
    <3>2. NoSummary \subseteq Upto(M, Len(M))
      BY DEF NoSummary, Upto
    <3> QED
      BY <1>1, <1>2, <1>4, <2>2, <3>1, <3>2
  <2> QED
    BY <1>5, <2>1, <2>2
<1>7. CheckpointsSound(K, c, M, C2)
  <2>1. ASSUME NEW p \in 1 .. Len(C2), IsPending(C2, p), c # 0 PROVE K[c].summary \subseteq Upto(M, C2[p].source)
    <3>1. p = Len(C) + 1
      BY <1>3, <1>5, <2>1
    <3>2. c \in 1 .. Len(K)
      BY <2>1, LenProperties DEF CheckpointsSound
    <3> QED
      BY <1>1, <3>1, <3>2 DEF CheckpointsSound
  <2> QED
    BY <2>1 DEF CheckpointsSound
<1>8. Accounted(M, C2, E)
  <2> SUFFICES ASSUME NEW k \in 1 .. Len(C2), IsCompleted(C2, k), C2[k].gen = E, NEW s \in Live(M, E), s <= C2[k].source
               PROVE  \/ M[s].of \in C2[k].covers \union C2[k].kept
                      \/ \E j \in 1 .. k - 1 : IsCompleted(C2, j) /\ M[s].of \in C2[j].kept
    BY DEF Accounted
  <2>1. k \in 1 .. Len(C) /\ C2[k] = C[k]
    BY <1>1, <1>4, <1>5
  <2>2. \A j \in 1 .. k - 1 : j \in 1 .. Len(C) /\ C2[j] = C[j]
    BY <1>1, <2>1
  <2> QED
    BY <1>3, <2>1, <2>2 DEF Accounted
<1> QED
  BY <1>6, <1>7, <1>8 DEF C2

\* The pending row k ends as r, which accounts for the branch if it is completed.
RowEnds(r, k, M, C, E) ==
  /\ r \in Compaction /\ IsPending(C, k) /\ r.gen = C[k].gen /\ r.source = C[k].source /\ r.status # "pending"
  /\ (r.status = "completed") <=> (r.covers # NoSummary)
  /\ r.covers \subseteq Upto(M, r.source)
  /\ r.status = "completed" => \A s \in Live(M, E) : s <= r.source =>
        M[s].of \in r.covers \union r.kept \/ KeptBy(C, M[s].of)

LEMMA EndKeepsTables ==
  ASSUME NEW M, NEW C \in Seq(Compaction), NEW E \in Nat, NEW K, NEW c, NEW k, NEW r, NEW C2,
         MessagesSound(M, E), RowsSound(C, M, E), CheckpointsSound(K, c, M, C), Accounted(M, C, E),
         RowEnds(r, k, M, C, E), C2 = [C EXCEPT ![k] = r]
  PROVE  RowsSound(C2, M, E) /\ CheckpointsSound(K, c, M, C2) /\ Accounted(M, C2, E) /\ Closes(C, C2)
<1>1. k \in 1 .. Len(C) /\ k = Len(C) /\ Len(C) \in Nat /\ C[k].status = "pending"
  BY LenProperties DEF RowEnds, IsPending, RowsSound
<1>2. /\ C2 \in Seq(Compaction) /\ Len(C2) = Len(C) /\ C2[k] = r
      /\ \A j \in 1 .. Len(C) : j # k => C2[j] = C[j]
  BY <1>1, ExceptSeq, LenProperties DEF RowEnds
<1>3. \A j \in 1 .. Len(C) : C2[j].gen = C[j].gen /\ C2[j].source = C[j].source
  BY <1>2 DEF RowEnds
<1>4. \A p \in 1 .. Len(C) : ~IsPending(C2, p)
  BY <1>1, <1>2 DEF RowEnds, RowsSound, IsPending
<1>5. \A j \in 1 .. Len(C) : IsCompleted(C, j) => j # k /\ IsCompleted(C2, j) /\ C2[j] = C[j]
  BY <1>1, <1>2 DEF IsCompleted
<1>6. RowsSound(C2, M, E)
  <2> SUFFICES ASSUME NEW j \in 1 .. Len(C2)
               PROVE  /\ C2[j].gen <= E /\ C2[j].source <= Len(M)
                      /\ \A i \in 1 .. j : C2[i].source <= C2[j].source
                      /\ IsCompleted(C2, j) <=> C2[j].covers # NoSummary
                      /\ C2[j].covers \subseteq Upto(M, C2[j].source)
    BY <1>2, <1>4 DEF RowsSound
  <2>1. \A i \in 1 .. j : i \in 1 .. Len(C)
    BY <1>1, <1>2
  <2>2. C2[j].gen <= E /\ C2[j].source <= Len(M) /\ \A i \in 1 .. j : C2[i].source <= C2[j].source
    BY <1>2, <1>3, <2>1 DEF RowsSound
  <2>3. CASE j = k
    BY <1>2, <2>2, <2>3 DEF RowEnds, IsCompleted
  <2>4. CASE j # k
    BY <1>2, <2>2, <2>4 DEF RowsSound, IsCompleted
  <2> QED
    BY <2>3, <2>4
<1>7. CheckpointsSound(K, c, M, C2)
  BY <1>2, <1>4 DEF CheckpointsSound
<1>8. Accounted(M, C2, E)
  <2> SUFFICES ASSUME NEW j \in 1 .. Len(C2), IsCompleted(C2, j), C2[j].gen = E, NEW s \in Live(M, E), s <= C2[j].source
               PROVE  \/ M[s].of \in C2[j].covers \union C2[j].kept
                      \/ \E i \in 1 .. j - 1 : IsCompleted(C2, i) /\ M[s].of \in C2[i].kept
    BY DEF Accounted
  <2>1. CASE j = k
    <3>1. M[s].of \in r.covers \union r.kept \/ KeptBy(C, M[s].of)
      BY <1>2, <2>1 DEF IsCompleted, RowEnds
    <3>2. ASSUME NEW i \in 1 .. Len(C), IsCompleted(C, i), M[s].of \in C[i].kept
          PROVE  i \in 1 .. j - 1 /\ IsCompleted(C2, i) /\ M[s].of \in C2[i].kept
      <4>1. i # k /\ IsCompleted(C2, i) /\ C2[i] = C[i]
        BY <1>5, <3>2
      <4>2. i \in 1 .. j - 1
        BY <1>1, <2>1, <4>1
      <4> QED
        BY <3>2, <4>1, <4>2
    <3> QED
      BY <1>2, <2>1, <3>1, <3>2 DEF KeptBy
  <2>2. CASE j # k
    <3>1. j \in 1 .. Len(C) /\ C2[j] = C[j] /\ IsCompleted(C, j)
      BY <1>2, <2>2 DEF IsCompleted
    <3>2. \/ M[s].of \in C[j].covers \union C[j].kept
          \/ \E i \in 1 .. j - 1 : IsCompleted(C, i) /\ M[s].of \in C[i].kept
      BY <3>1 DEF Accounted
    <3>3. \A i \in 1 .. j - 1 : i \in 1 .. Len(C)
      BY <1>1, <3>1
    <3> QED
      BY <1>5, <3>1, <3>2, <3>3
  <2> QED
    BY <2>1, <2>2
<1>9. Closes(C, C2)
  BY <1>2, <1>4, <1>5 DEF Closes
<1> QED
  BY <1>6, <1>7, <1>8, <1>9

-----------------------------------------------------------------------------
(************************ The steps of a build alone ***********************)

LEMMA IdleIsSound ==
  ASSUME NEW h, NEW M, NEW C, NEW E, Len(M) \in Nat, Len(C) \in Nat
  PROVE  BuildSound(Idle, h, M, C, E)
<1>1. Idle \in Builds
  <2>1. <<>> \in Seq(Nat) /\ NoSummary \in Summaries /\ 0 \in 0 .. MaxEpoch
    BY SessionContextAssumption, EmptySeq DEF Summaries
  <2> QED
    BY <2>1 DEF Idle, Builds, Steps
<1>2. /\ Idle.pc = "idle" /\ Idle.latest = 0 /\ Idle.pending = 0 /\ Idle.conv = <<>>
      /\ Idle.recovered = NoSummary /\ Idle.summary = NoSummary /\ Idle.made = NoSummary
  BY DEF Idle
<1>3. \A n : NoSummary \subseteq Upto(M, n)
  BY DEF NoSummary, Upto
<1>4. Shape(Idle, M, C)
  <2>1. <<>> \in Seq(1 .. Len(M)) /\ Len(<<>>) = 0
    BY EmptySeq
  <2> QED
    BY <1>1, <1>2, <1>3, <2>1 DEF Shape
<1>5. Within(Idle, h, M, C)
  BY <1>2, <1>3 DEF Within
<1>6. Accounts(Idle, M, C, E)
  <2>1. \A s \in Live(M, E) : ~(s <= 0)
    BY DEF Live
  <2> QED
    BY <1>2, <2>1 DEF Accounts
<1> QED
  BY <1>4, <1>5, <1>6 DEF BuildSound

LEMMA SessionInit == Init => Inv
<1> SUFFICES ASSUME Init PROVE Inv
  OBVIOUS
<1>0. MaxMessages \in Nat \ {0} /\ MaxEpoch \in Nat \ {0}
  BY SessionContextAssumption
<1> DEFINE first == [epoch |-> 1, of |-> 1, index |-> 0, own |-> FALSE, role |-> "user"]
<1>1. first \in Message /\ first.epoch = 1
  BY <1>0 DEF Message, Texts
<1>2. msgs = <<first>> /\ comps = <<>> /\ ckpts = <<>> /\ ckpt = 0 /\ epoch = 1
  BY DEF Init
<1> HIDE DEF first
<1>3. msgs \in Seq(Message) /\ Len(msgs) = 1 /\ msgs[1] = first
  BY <1>1, <1>2
<1>4. MessagesSound(msgs, epoch)
  BY <1>0, <1>1, <1>2, <1>3 DEF MessagesSound
<1>5. Len(comps) = 0 /\ Len(ckpts) = 0 /\ comps \in Seq(Compaction) /\ ckpts \in Seq(Checkpoint)
  BY <1>2, EmptySeq
<1>6. RowsSound(comps, msgs, epoch) /\ CheckpointsSound(ckpts, ckpt, msgs, comps) /\ Accounted(msgs, comps, epoch)
  BY <1>2, <1>5 DEF RowsSound, CheckpointsSound, Accounted
<1>8. \A w \in Workers : build[w] = Idle
  BY DEF Init
<1>9. \A w \in Workers : BuildSound(build[w], lease = w, msgs, comps, epoch)
  BY <1>3, <1>5, <1>8, IdleIsSound
<1>10. Registers
  BY <1>0 DEF Init, Registers
<1> QED
  BY <1>4, <1>6, <1>9, <1>10 DEF Inv

tables == <<epoch, gen, msgs, comps, ckpts, ckpt>>

\* A step that changes one worker's build and the lease.
LEMMA BuildMoves ==
  ASSUME Inv, UNCHANGED tables, NEW w \in Workers, NEW nb, build' = [build EXCEPT ![w] = nb],
         lease' \in Workers \union {NoWorker}, \A v \in Workers : v # w /\ lease' = v => lease = v,
         BuildSound(nb, lease' = w, msgs, comps, epoch)
  PROVE  Inv'
<1>1. epoch' = epoch /\ gen' = gen /\ msgs' = msgs /\ comps' = comps /\ ckpts' = ckpts /\ ckpt' = ckpt
  BY DEF tables
<1>2. DOMAIN build = Workers
  BY DEF Inv, Registers
<1>3. build'[w] = nb /\ (\A v \in Workers : v # w => build'[v] = build[v])
      /\ DOMAIN build' = Workers /\ build' = [v \in Workers |-> build'[v]]
  BY <1>2
<1>4. ASSUME NEW v \in Workers PROVE BuildSound(build'[v], lease' = v, msgs, comps, epoch)
  <2>1. CASE v = w
    BY <1>3, <2>1
  <2>2. CASE v # w
    <3>1. BuildSound(build[v], lease = v, msgs, comps, epoch)
      BY DEF Inv
    <3>2. BuildSound(build[v], lease' = v, msgs, comps, epoch)
      BY <2>2, <3>1, WithoutLease
    <3> QED
      BY <1>3, <2>2, <3>2
  <2> QED
    BY <2>1, <2>2
<1>5. Registers'
  BY <1>1, <1>3 DEF Inv, Registers
<1>7. /\ MessagesSound(msgs', epoch') /\ RowsSound(comps', msgs', epoch')
      /\ CheckpointsSound(ckpts', ckpt', msgs', comps') /\ Accounted(msgs', comps', epoch')
  BY <1>1 DEF Inv
<1>8. \A v \in Workers : BuildSound(build'[v], lease' = v, msgs', comps', epoch')
  BY <1>1, <1>4
<1> QED
  BY <1>5, <1>7, <1>8 DEF Inv

LEMMA InvBuild ==
  ASSUME Inv, NEW w \in Workers
  PROVE  /\ build[w] \in Builds /\ build = [v \in Workers |-> build[v]] /\ DOMAIN build = Workers
         /\ Shape(build[w], msgs, comps) /\ Within(build[w], lease = w, msgs, comps)
         /\ Accounts(build[w], msgs, comps, epoch)
         /\ BuildSound(build[w], lease = w, msgs, comps, epoch)
BY DEF Inv, Registers, BuildSound, Shape

\* The attempt ends, with its lease if it still has it.
LEMMA StopStep ==
  ASSUME Inv, NEW w \in Workers, UNCHANGED tables, build' = Stopped(w), Release(w)
  PROVE  Inv'
<1>1. build' = [build EXCEPT ![w] = Idle]
  BY DEF Stopped
<1>2. lease' \in Workers \union {NoWorker} /\ \A v \in Workers : v # w /\ lease' = v => lease = v
  BY InvFacts, WorkersAssumption DEF Release
<1>3. BuildSound(Idle, lease' = w, msgs, comps, epoch)
  BY InvFacts, IdleIsSound
<1> QED
  BY <1>1, <1>2, <1>3, BuildMoves

LEMMA EndAttemptStep ==
  ASSUME Inv, NEW w \in Workers, EndAttempt(w)
  PROVE  Inv'
BY StopStep DEF EndAttempt, tables

LEMMA LoseLeaseStep ==
  ASSUME Inv, LoseLease
  PROVE  Inv'
<1>1. /\ epoch' = epoch /\ gen' = gen /\ msgs' = msgs /\ comps' = comps /\ ckpts' = ckpts /\ ckpt' = ckpt
      /\ build' = build /\ lease' = NoWorker
  BY DEF LoseLease
<1>2. ASSUME NEW v \in Workers PROVE BuildSound(build[v], lease' = v, msgs, comps, epoch)
  <2>1. lease' # v
    BY <1>1, WorkersAssumption
  <2> QED
    BY <2>1, InvBuild, WithoutLease
<1>3. Registers'
  BY <1>1 DEF Inv, Registers
<1>4. /\ MessagesSound(msgs', epoch') /\ RowsSound(comps', msgs', epoch')
      /\ CheckpointsSound(ckpts', ckpt', msgs', comps') /\ Accounted(msgs', comps', epoch')
      /\ \A v \in Workers : BuildSound(build'[v], lease' = v, msgs', comps', epoch')
  BY <1>1, <1>2 DEF Inv
<1> QED
  BY <1>3, <1>4 DEF Inv

\* The summary that recovery hands over keeps to the watermark of a pending row.
LEMMA StartStep ==
  ASSUME Inv, NEW w \in Workers, Start(w)
  PROVE  Inv'
<1> DEFINE S == IF ckpt = 0 THEN NoSummary ELSE ckpts[ckpt].summary
           nb == [Idle EXCEPT !.pc = "latest", !.epoch = epoch, !.recovered = S]
<1>1. build' = [build EXCEPT ![w] = nb] /\ lease' = w /\ lease = NoWorker /\ UNCHANGED tables
  BY DEF Start, tables
<1>2. Len(msgs) \in Nat /\ Len(comps) \in Nat /\ BuildSound(Idle, TRUE, msgs, comps, epoch)
  <2>1. Len(msgs) \in Nat /\ Len(comps) \in Nat
    BY InvFacts
  <2>2. BuildSound(Idle, TRUE, msgs, comps, epoch)
    BY <2>1, IdleIsSound
  <2> QED
    BY <2>1, <2>2
<1>3. /\ S \in Summaries /\ S \subseteq Upto(msgs, Len(msgs))
      /\ \A p \in 1 .. Len(comps) : IsPending(comps, p) => S \subseteq Upto(msgs, comps[p].source)
  <2>1. CASE ckpt = 0
    BY <2>1 DEF NoSummary, Upto, Summaries
  <2>2. CASE ckpt # 0
    <3>1. ckpt \in 1 .. Len(ckpts)
      BY <2>2, InvFacts
    <3>2. ckpts[ckpt] \in Checkpoint
      BY <3>1, InvFacts, ElementOfSeq
    <3>3. ckpts[ckpt].summary \in Summaries
      BY <3>2 DEF Checkpoint
    <3> QED
      BY <2>2, <3>1, <3>3 DEF Inv, CheckpointsSound
  <2> QED
    BY <2>1, <2>2
<1>4. epoch \in 0 .. MaxEpoch
  BY InvFacts
<1> HIDE DEF S
<1>5. /\ nb \in Builds /\ nb.pc = "latest" /\ nb.latest = 0 /\ nb.pending = 0 /\ nb.conv = Idle.conv /\ nb.recovered = S
      /\ nb.summary = NoSummary /\ nb.made = NoSummary
  BY <1>2, <1>3, <1>4 DEF Idle, Builds, BuildSound, Shape, Steps
<1> HIDE DEF nb
<1>6. BuildSound(nb, TRUE, msgs, comps, epoch)
  <2>0. \A n : NoSummary \subseteq Upto(msgs, n)
    BY DEF NoSummary, Upto
  <2>1. Shape(nb, msgs, comps)
    BY <1>2, <1>3, <1>5, <2>0 DEF BuildSound, Shape
  <2>2. Within(nb, TRUE, msgs, comps)
    BY <1>3, <1>5, <2>0 DEF Within
  <2>3. Accounts(nb, msgs, comps, epoch)
    <3>1. \A s \in Live(msgs, epoch) : ~(s <= 0)
      BY DEF Live
    <3> QED
      BY <1>5, <3>1 DEF Accounts
  <2> QED
    BY <2>1, <2>2, <2>3 DEF BuildSound
<1>7. lease' \in Workers \union {NoWorker} /\ \A v \in Workers : v # w /\ lease' = v => lease = v
  BY <1>1
<1>8. BuildSound(nb, lease' = w, msgs, comps, epoch)
  BY <1>1, <1>6
<1> QED
  BY <1>1, <1>7, <1>8, BuildMoves

\* The watermark read is that of a completed row, whose summary accounts for what precedes it.
LEMMA ReadLatestStep ==
  ASSUME Inv, NEW w \in Workers, ReadLatest(w)
  PROVE  Inv'
<1>0. PICK k \in LatestCompleted :
        build' = [build EXCEPT ![w].pc = "pending", ![w].latest = IF k = 0 THEN 0 ELSE comps[k].source,
                               ![w].summary = IF k = 0 THEN build[w].recovered ELSE comps[k].covers]
  BY DEF ReadLatest
<1> DEFINE b == build[w]
           L == IF k = 0 THEN 0 ELSE comps[k].source
           S == IF k = 0 THEN b.recovered ELSE comps[k].covers
           nb == [b EXCEPT !.pc = "pending", !.latest = L, !.summary = S]
<1>1. /\ b \in Builds /\ b.pc = "latest" /\ Shape(b, msgs, comps) /\ Within(b, lease = w, msgs, comps)
      /\ Accounts(b, msgs, comps, epoch)
  BY InvBuild DEF ReadLatest
<1>2. build' = [build EXCEPT ![w] = nb] /\ lease' = lease /\ UNCHANGED tables
  <2>1. lease' = lease /\ UNCHANGED tables
    BY DEF ReadLatest, tables
  <2>2. build' = [build EXCEPT ![w].pc = "pending", ![w].latest = L, ![w].summary = S]
    BY <1>0
  <2> HIDE DEF L, S
  <2>3. build' = [build EXCEPT ![w] = nb]
    BY <1>1, <2>2, InvBuild DEF Builds
  <2> QED
    BY <2>1, <2>3
<1>3. k \in 0 .. Len(comps) /\ (k # 0 => IsCompleted(comps, k) /\ comps[k].gen = epoch)
  BY LatestIs
<1>4. /\ L \in Nat /\ L <= Len(msgs) /\ S \in Summaries /\ S \subseteq Upto(msgs, Len(msgs))
      /\ \A p \in 1 .. Len(comps) : IsPending(comps, p) => S \subseteq Upto(msgs, comps[p].source)
      /\ \A s \in Live(msgs, epoch) : s <= L => msgs[s].of \in S \/ KeptBy(comps, msgs[s].of)
  <2>1. CASE k = 0
    <3>1. \A s \in Live(msgs, epoch) : ~(s <= 0)
      BY DEF Live
    <3> QED
      BY <1>1, <2>1, <3>1, InvFacts, BuildFields DEF Shape, Within
  <2>2. CASE k # 0
    <3>1. /\ k \in 1 .. Len(comps) /\ comps[k] \in Compaction /\ comps[k].source \in Nat /\ comps[k].source <= Len(msgs)
          /\ Len(msgs) \in Nat
      BY <1>3, <2>2, InvFacts
    <3>2. comps[k].covers \in Summaries
      BY <3>1 DEF Compaction
    <3>3. comps[k].covers \subseteq Upto(msgs, comps[k].source)
      BY <3>1 DEF Inv, RowsSound
    <3>4. ASSUME NEW n \in Nat, comps[k].source <= n PROVE comps[k].covers \subseteq Upto(msgs, n)
      <4>1. Grows(msgs, msgs)
        BY <3>1 DEF Grows
      <4> QED
        BY <3>1, <3>3, <3>4, <4>1, UptoGrows
    <3>5. ASSUME NEW p \in 1 .. Len(comps), IsPending(comps, p) PROVE comps[k].covers \subseteq Upto(msgs, comps[p].source)
      <4>1. p = Len(comps) /\ k \in 1 .. p /\ comps[k].source <= comps[p].source /\ comps[p].source \in Nat
        BY <3>1, <3>5, InvFacts DEF Inv, RowsSound
      <4> QED
        BY <3>4, <4>1
    <3>6. ASSUME NEW s \in Live(msgs, epoch), s <= comps[k].source
          PROVE  msgs[s].of \in comps[k].covers \/ KeptBy(comps, msgs[s].of)
      <4>1. \/ msgs[s].of \in comps[k].covers \union comps[k].kept
            \/ \E j \in 1 .. k - 1 : IsCompleted(comps, j) /\ msgs[s].of \in comps[j].kept
        BY <1>3, <2>2, <3>1, <3>6 DEF Inv, Accounted
      <4>2. \A j \in 1 .. k - 1 : j \in 1 .. Len(comps)
        BY <3>1, InvFacts
      <4> QED
        BY <1>3, <2>2, <3>1, <4>1, <4>2 DEF KeptBy
    <3> QED
      BY <2>2, <3>1, <3>2, <3>4, <3>5, <3>6
  <2> QED
    BY <2>1, <2>2
<1> HIDE DEF L, S
<1>5. /\ nb \in Builds /\ nb.pc = "pending" /\ nb.latest = L /\ nb.pending = b.pending /\ nb.conv = b.conv /\ nb.summary = S
      /\ nb.made = b.made /\ nb.recovered = b.recovered
  BY <1>1, <1>4 DEF Builds, Steps
<1> HIDE DEF nb
<1>6. BuildSound(nb, lease = w, msgs, comps, epoch)
  <2>1. Shape(nb, msgs, comps)
    BY <1>1, <1>4, <1>5 DEF Shape
  <2>2. Within(nb, lease = w, msgs, comps)
    BY <1>1, <1>4, <1>5 DEF Within
  <2>3. Accounts(nb, msgs, comps, epoch)
    BY <1>4, <1>5 DEF Accounts
  <2> QED
    BY <2>1, <2>2, <2>3 DEF BuildSound
<1> QED
  BY <1>2, <1>6, InvFacts, BuildMoves

\* A build that has in hand the one pending row, or none if there is none, goes on to load.
LEMMA GoesToLoad ==
  ASSUME NEW b, NEW h \in BOOLEAN, NEW M, NEW C, NEW E, BuildSound(b, h, M, C, E), b.pc \in {"pending", "request"},
         NEW pc \in {"request", "load"}, NEW p \in Nat, p <= Len(C),
         \A q \in 1 .. Len(C) : IsPending(C, q) => q = p
  PROVE  BuildSound([b EXCEPT !.pc = pc, !.pending = p], h, M, C, E)
<1> DEFINE nb == [b EXCEPT !.pc = pc, !.pending = p]
<1>1. b \in Builds /\ Shape(b, M, C) /\ Within(b, h, M, C) /\ Accounts(b, M, C, E)
  BY DEF BuildSound, Shape
<1>2. /\ nb \in Builds /\ nb.pc = pc /\ nb.pending = p /\ nb.latest = b.latest /\ nb.conv = b.conv
      /\ nb.summary = b.summary /\ nb.made = b.made /\ nb.recovered = b.recovered
  BY <1>1 DEF Builds, Steps
<1> HIDE DEF nb
<1>3. Shape(nb, M, C)
  BY <1>1, <1>2 DEF Shape
<1>4. Within(nb, h, M, C)
  BY <1>1, <1>2 DEF Within
<1>5. Accounts(nb, M, C, E)
  BY <1>1, <1>2 DEF Accounts
<1> QED
  BY <1>3, <1>4, <1>5 DEF BuildSound, nb

LEMMA OnlyPending ==
  ASSUME Inv
  PROVE  Pending \in Nat /\ Pending <= Len(comps) /\ \A q \in 1 .. Len(comps) : IsPending(comps, q) => q = Pending
<1>1. ASSUME NEW q \in 1 .. Len(comps), IsPending(comps, q) PROVE q = Pending
  <2>1. q = Len(comps) /\ Pending # 0
    BY <1>1, PendingIs DEF Inv, RowsSound
  <2>2. Pending = Len(comps)
    BY <2>1, PendingIs DEF Inv, RowsSound, IsPending
  <2> QED
    BY <2>1, <2>2
<1> QED
  BY <1>1, PendingIs, InvFacts

LEMMA ReadPendingStep ==
  ASSUME Inv, NEW w \in Workers, ReadPending(w)
  PROVE  Inv'
<1> DEFINE pc == IF Pending = 0 THEN "request" ELSE "load"
           nb == [build[w] EXCEPT !.pc = pc, !.pending = Pending]
<1>1. build[w].pc = "pending" /\ lease' = lease /\ UNCHANGED tables
  BY DEF ReadPending, tables
<1>2. build' = [build EXCEPT ![w] = nb]
  BY InvBuild DEF ReadPending, Builds
<1>3. BuildSound(nb, lease = w, msgs, comps, epoch)
  BY <1>1, InvBuild, OnlyPending, GoesToLoad
<1> HIDE DEF nb
<1> QED
  BY <1>1, <1>2, <1>3, InvFacts, BuildMoves

\* A request finds no pending row and makes one at the newest message.
LEMMA RequestStep ==
  ASSUME Inv, Pending = 0, NEW key \in (0 .. MaxEpoch) \X Nat, comps' = Requested(key, Len(msgs)),
         UNCHANGED <<epoch, gen, lease, msgs, ckpts, ckpt>>, build' = [v \in Workers |-> build'[v]],
         \A v \in Workers : BuildSound(build[v], lease = v, msgs, comps', epoch)
                               => BuildSound(build'[v], lease = v, msgs, comps', epoch)
  PROVE  Inv'
<1> DEFINE row == [gen |-> gen, key |-> key, status |-> "pending", error |-> "none", source |-> Len(msgs),
                   covers |-> NoSummary, kept |-> {}]
<1>1. comps' = Append(comps, row)
  BY DEF Requested
<1>2. /\ row \in Compaction /\ row.gen = epoch /\ row.source = Len(msgs) /\ row.status = "pending" /\ row.covers = NoSummary
  BY InvFacts DEF Compaction, Summaries
<1> HIDE DEF row
<1>3. \A p \in 1 .. Len(comps) : ~IsPending(comps, p)
  BY PendingIs
<1>4. RowsSound(comps', msgs, epoch) /\ CheckpointsSound(ckpts, ckpt, msgs, comps') /\ Accounted(msgs, comps', epoch)
  <2>1. /\ MessagesSound(msgs, epoch) /\ RowsSound(comps, msgs, epoch) /\ CheckpointsSound(ckpts, ckpt, msgs, comps)
        /\ Accounted(msgs, comps, epoch) /\ comps \in Seq(Compaction) /\ epoch \in Nat
    BY InvFacts DEF Inv
  <2>2. LET C2 == Append(comps, row)
        IN RowsSound(C2, msgs, epoch) /\ CheckpointsSound(ckpts, ckpt, msgs, C2) /\ Accounted(msgs, C2, epoch)
    BY <1>2, <1>3, <2>1, RequestKeepsTables, Zenon
  <2> QED
    BY <1>1, <2>2
<1>5. ASSUME NEW v \in Workers PROVE BuildSound(build'[v], lease' = v, msgs', comps', epoch')
  <2>1. /\ BuildSound(build[v], lease = v, msgs, comps, epoch) /\ Len(msgs) \in Nat /\ comps \in Seq(Compaction)
        /\ (lease = v) \in BOOLEAN
    BY InvBuild, InvFacts
  <2>2. BuildSound(build[v], lease = v, msgs, Append(comps, row), epoch)
    BY <1>2, <1>3, <2>1, RowRequested
  <2> QED
    BY <1>1, <2>2
<1>6. Registers'
  BY DEF Inv, Registers
<1>8. /\ MessagesSound(msgs', epoch') /\ RowsSound(comps', msgs', epoch')
      /\ CheckpointsSound(ckpts', ckpt', msgs', comps') /\ Accounted(msgs', comps', epoch')
  BY <1>4 DEF Inv
<1> QED
  BY <1>5, <1>6, <1>8 DEF Inv

LEMMA RequestCompactionStep ==
  ASSUME Inv, NEW key \in Keys, RequestCompaction(key)
  PROVE  Inv'
<1>1. ApiKey(key) \in (0 .. MaxEpoch) \X Nat
  BY SessionContextAssumption DEF ApiKey
<1>2. /\ Pending = 0 /\ comps' = Requested(ApiKey(key), Len(msgs)) /\ UNCHANGED <<epoch, gen, lease, msgs, ckpts, ckpt>>
      /\ build' = build
  BY NewestIs DEF RequestCompaction
<1>3. build' = [v \in Workers |-> build'[v]]
  BY <1>2 DEF Inv, Registers
<1> QED
  BY <1>1, <1>2, <1>3, RequestStep

LEMMA RequestIfNeededStep ==
  ASSUME Inv, NEW w \in Workers, RequestIfNeeded(w)
  PROVE  Inv'
<1> DEFINE b == build[w]
           open == ListMessages(b.latest, Len(msgs))
           source == Max(open \union {0})
           key == AutoKey(source)
<1>1. b.pc = "request" /\ UNCHANGED <<epoch, gen, lease, msgs, ckpts, ckpt>> /\ b \in Builds /\ b.latest \in Nat
  BY InvBuild, BuildFields DEF RequestIfNeeded
<1>2. CASE UNCHANGED comps /\ build' = [build EXCEPT ![w].pc = "load", ![w].pending = Pending]
  <2> DEFINE nb == [b EXCEPT !.pc = "load", !.pending = Pending]
  <2>1. build' = [build EXCEPT ![w] = nb]
    BY <1>2, InvBuild DEF Builds
  <2>2. BuildSound(nb, lease = w, msgs, comps, epoch)
    BY <1>1, InvBuild, OnlyPending, GoesToLoad
  <2> HIDE DEF nb
  <2>3. UNCHANGED tables
    BY <1>1, <1>2 DEF tables
  <2> QED
    BY <1>1, <2>1, <2>2, <2>3, InvFacts, BuildMoves
<1>3. CASE /\ Pending = 0 /\ ~(Cardinality(open) < Threshold) /\ comps' = Requested(key, source)
           /\ build' = [build EXCEPT ![w].pc = "load", ![w].pending = Len(comps) + 1]
  <2> DEFINE p == Len(comps) + 1
             nb == [b EXCEPT !.pc = "load", !.pending = p]
  <2>1. source = Len(msgs)
    <3>1. Cardinality({}) < Threshold
      BY FS_EmptySet, SessionContextAssumption
    <3>2. open # {}
      BY <1>3, <3>1
    <3> QED
      BY <1>1, <3>2, NewestIs
  <2>2. key \in (0 .. MaxEpoch) \X Nat
    BY <2>1, InvFacts DEF AutoKey
  <2>3. build' = [build EXCEPT ![w] = nb]
    BY <1>3, InvBuild DEF Builds
  <2>4. /\ p \in Nat /\ p <= Len(comps') /\ \A q \in 1 .. Len(comps') : IsPending(comps', q) => q = p
    <3>1. Len(comps') = Len(comps) + 1 /\ \A q \in 1 .. Len(comps) : comps'[q] = comps[q]
      BY <1>3, InvFacts, AppendProperties DEF Requested
    <3>2. \A q \in 1 .. Len(comps) : ~IsPending(comps', q)
      BY <1>3, <3>1, PendingIs DEF IsPending
    <3> QED
      BY <3>1, <3>2, InvFacts
  <2> HIDE DEF p
  <2>5. BuildSound(b, lease = w, msgs, comps', epoch) => BuildSound(nb, lease = w, msgs, comps', epoch)
    BY <1>1, <2>4, GoesToLoad
  <2> HIDE DEF nb
  <2>6. /\ build'[w] = nb /\ \A v \in Workers : v # w => build'[v] = build[v]
        /\ build' = [v \in Workers |-> build'[v]]
    BY <2>3, InvBuild
  <2>7. \A v \in Workers : BuildSound(build[v], lease = v, msgs, comps', epoch)
                             => BuildSound(build'[v], lease = v, msgs, comps', epoch)
    BY <2>5, <2>6
  <2> QED
    BY <1>1, <1>3, <2>1, <2>2, <2>6, <2>7, RequestStep
<1> QED
  BY <1>2, <1>3 DEF RequestIfNeeded

\* The messages from the watermark that was read to that of the pending row.
LEMMA LoadStep ==
  ASSUME Inv, NEW w \in Workers, Load(w)
  PROVE  Inv'
<1> DEFINE b == build[w]
           found == ListMessages(b.latest, Through(w))
           conv == InOrder(found)
           nb == [b EXCEPT !.pc = "assemble", !.conv = conv]
<1>1. /\ b \in Builds /\ b.pc = "load" /\ Shape(b, msgs, comps) /\ Within(b, lease = w, msgs, comps)
      /\ Accounts(b, msgs, comps, epoch) /\ UNCHANGED tables
  BY InvBuild DEF Load, tables
<1>2. CASE build' = Stopped(w) /\ Release(w)
  BY <1>1, <1>2, StopStep
<1>3. CASE build' = [build EXCEPT ![w].pc = "assemble", ![w].conv = conv] /\ UNCHANGED lease
  <2>1. build' = [build EXCEPT ![w] = nb]
    BY <1>3, InvBuild DEF Builds
  <2>2. /\ Through(w) \in Nat /\ Through(w) <= Len(msgs) /\ b.pending \in Nat /\ b.pending <= Len(comps)
        /\ b.pending # 0 => Through(w) = comps[b.pending].source
    BY <1>1, InvFacts, BuildFields DEF Through, Shape
  <2>3. found = {s \in Live(msgs, epoch) : b.latest < s /\ s <= Through(w)}
    BY InvFacts DEF ListMessages, ActiveMessages, Live
  <2>4. found \in SUBSET (1 .. Len(msgs)) /\ Len(msgs) \in Nat
    BY <2>3, InvFacts DEF Live
  <2>5. conv \in Seq(found) /\ Len(conv) \in Nat /\ Len(conv) <= Len(msgs) /\ ToSet(conv) = found
    BY <2>4, InOrderIs
  <2> HIDE DEF conv
  <2>6. conv \in Seq(1 .. Len(msgs)) /\ conv \in Seq(Nat) /\ \A i \in 1 .. Len(conv) : conv[i] \in found
    <3>1. found \subseteq 1 .. Len(msgs) /\ found \subseteq Nat
      BY <2>4
    <3> QED
      BY <2>5, <3>1, SeqMonotonic, ElementOfSeq
  <2>7. /\ nb \in Builds /\ nb.pc = "assemble" /\ nb.latest = b.latest /\ nb.pending = b.pending /\ nb.conv = conv
        /\ nb.summary = b.summary /\ nb.made = b.made /\ nb.recovered = b.recovered
    BY <1>1, <2>6 DEF Builds, Steps
  <2> HIDE DEF nb, found
  <2>8. Shape(nb, msgs, comps)
    BY <1>1, <2>5, <2>6, <2>7 DEF Shape
  <2>9. Within(nb, lease = w, msgs, comps)
    <3> SUFFICES ASSUME NEW p \in 1 .. Len(comps), IsPending(comps, p), b.pending = p \/ lease = w
                 PROVE  /\ b.summary \subseteq Upto(msgs, comps[p].source)
                        /\ \A i \in 1 .. Len(conv) : conv[i] <= comps[p].source
      BY <1>1, <2>7 DEF Within
    <3>1. b.summary \subseteq Upto(msgs, comps[p].source)
      BY <1>1 DEF Within
    <3>2. comps[p].source \in Nat /\ Through(w) <= comps[p].source
      <4>1. CASE b.pending = p
        BY <2>2, <4>1, InvFacts
      <4>2. CASE b.pending # p
        <5>1. Len(msgs) <= comps[p].source /\ comps[p].source \in Nat
          BY <1>1, <4>2, InvFacts DEF Within
        <5> QED
          BY <2>2, <2>4, <5>1
      <4> QED
        BY <4>1, <4>2
    <3>3. \A i \in 1 .. Len(conv) : conv[i] <= Through(w) /\ conv[i] \in Nat
      BY <2>3, <2>6 DEF Live
    <3> QED
      BY <2>2, <3>1, <3>2, <3>3
  <2>10. Accounts(nb, msgs, comps, epoch)
    <3>1. \A s \in Live(msgs, epoch) : s <= b.latest => msgs[s].of \in b.summary \/ KeptBy(comps, msgs[s].of)
      BY <1>1 DEF Accounts
    <3>2. ASSUME IsPending(comps, b.pending), NEW s \in Live(msgs, epoch), s <= comps[b.pending].source
          PROVE  s \in ToSet(conv) \/ msgs[s].of \in b.summary \/ KeptBy(comps, msgs[s].of)
      <4>1. s \in Nat /\ b.latest \in Nat /\ Through(w) = comps[b.pending].source
        BY <1>1, <2>2, <3>2, BuildFields DEF Live, IsPending
      <4>2. CASE s <= b.latest
        BY <3>1, <4>2
      <4>3. CASE b.latest < s
        BY <2>3, <2>5, <3>2, <4>1, <4>3
      <4> QED
        BY <4>1, <4>2, <4>3
    <3> QED
      BY <2>7, <3>1, <3>2 DEF Accounts
  <2>11. BuildSound(nb, lease' = w, msgs, comps, epoch)
    BY <1>3, <2>8, <2>9, <2>10 DEF BuildSound
  <2> QED
    BY <1>1, <1>3, <2>1, <2>11, InvFacts, BuildMoves
<1> QED
  BY <1>2, <1>3 DEF Load

\* The critical part is the end of what was loaded.
LEMMA CriticalIs ==
  ASSUME NEW n \in Nat, NEW conv \in Seq(1 .. n)
  PROVE  /\ Critical(conv) \in Seq(1 .. n) /\ Len(Critical(conv)) \in Nat /\ Len(Critical(conv)) <= Len(conv)
         /\ ToSet(Critical(conv)) \subseteq ToSet(conv)
<1> DEFINE first == Max({1, Len(conv) - Recent + 1})
           S == {i \in 1 .. first : msgs[conv[i]].role = "assistant"} \union {1}
           start == RecentStart(conv)
<1>1. Len(conv) \in Nat /\ Recent \in Nat \ {0} /\ DOMAIN conv = 1 .. Len(conv)
  BY LenProperties, SessionContextAssumption
<1>2. first \in 1 .. (Len(conv) + 1)
  <2>1. Len(conv) - Recent + 1 \in Int /\ Len(conv) - Recent + 1 <= Len(conv)
    BY <1>1
  <2> DEFINE a == Len(conv) - Recent + 1
  <2> HIDE DEF a
  <2>2. a \in Int /\ 1 \in Int /\ a <= Len(conv)
    BY <2>1 DEF a
  <2>3. Max({1, a}) \in {1, a} /\ Max({1, a}) >= 1
    BY <2>2, MaxOfTwo
  <2>4. Max({1, a}) \in 1 .. (Len(conv) + 1)
    BY <1>1, <2>2, <2>3
  <2> QED
    BY <2>4 DEF a
<1> HIDE DEF first
<1>3. Max(S) \in 1 .. first
  <2>1. S \in SUBSET (1 .. first) /\ 1 \in S /\ first \in Nat /\ S \in SUBSET Nat
    BY <1>1, <1>2
  <2>2. IsFiniteSet(S)
    <3>1. IsFiniteSet(1 .. first)
      BY <2>1, FS_Interval
    <3> QED
      BY <2>1, <3>1, FS_Subset
  <2> HIDE DEF S
  <2> QED
    BY <2>1, <2>2, MaxIs
<1>4. start = IF first <= Len(conv) /\ msgs[conv[first]].role = "tool" THEN Max(S) ELSE first
  BY DEF RecentStart, first
<1> HIDE DEF S, start
<1>5. start \in 1 .. (Len(conv) + 1)
  BY <1>1, <1>2, <1>3, <1>4
<1> DEFINE crit == SubSeq(conv, start, Len(conv))
<1>6. \A i \in start .. Len(conv) : i \in 1 .. Len(conv) /\ conv[i] \in 1 .. n /\ conv[i] \in ToSet(conv)
  BY <1>1, <1>5, ElementOfSeq DEF ToSet
<1>7. /\ crit \in Seq(1 .. n) /\ Len(crit) = IF start <= Len(conv) THEN Len(conv) - start + 1 ELSE 0
      /\ crit \in Seq(ToSet(conv))
  <2>1. start \in Int /\ Len(conv) \in Int
    BY <1>1, <1>5
  <2> QED
    BY <1>6, <2>1, SubSeqProperties
<1>8. crit = Critical(conv)
  BY DEF Critical, start
<1> HIDE DEF crit
<1>9. Len(crit) \in Nat /\ Len(crit) <= Len(conv)
  BY <1>1, <1>5, <1>7
<1>10. ToSet(crit) \subseteq ToSet(conv)
  <2>1. DOMAIN crit = 1 .. Len(crit) /\ \A i \in 1 .. Len(crit) : crit[i] \in ToSet(conv)
    BY <1>7, ElementOfSeq, LenProperties
  <2> QED
    BY <2>1 DEF ToSet
<1> QED
  BY <1>7, <1>8, <1>9, <1>10

\* A summary made of what build b does not keep in conv, or none.
Summarises(made, b, conv) ==
  /\ made \subseteq {0} \union TextOf(ToSet(b.conv)) \union b.summary
  /\ made # NoSummary => \A s \in ToSet(b.conv) \ ToSet(conv) : msgs[s].of \in made
  /\ made # NoSummary => b.summary \ NoSummary \subseteq made
AssembledWith(b, conv, made) == [Assembled([b EXCEPT !.latest = 0], conv) EXCEPT !.made = made]

\* A build whose context is assembled from conv, with the summary made of the rest, or with none.
LEMMA AssembledIsSound ==
  ASSUME Inv, NEW w \in Workers, build[w].pc = "assemble", NEW conv \in Seq(1 .. Len(msgs)), Len(conv) \in Nat,
         Len(conv) <= Len(msgs), NEW made \in Summaries, NEW nb,
         nb = AssembledWith(build[w], conv, made), Summarises(made, build[w], conv)
  PROVE  BuildSound(nb, lease = w, msgs, comps, epoch)
<1> USE DEF Summarises, AssembledWith
<1> DEFINE b == build[w]
<1>1. b \in Builds /\ Shape(b, msgs, comps) /\ Within(b, lease = w, msgs, comps) /\ Accounts(b, msgs, comps, epoch)
  BY InvBuild
<1>2. conv \in Seq(Nat) /\ Len(msgs) \in Nat
  <2>1. 1 .. Len(msgs) \subseteq Nat
    BY InvFacts
  <2> QED
    BY <2>1, SeqMonotonic, InvFacts
<1>3. /\ nb \in Builds /\ nb.pc = "finish" /\ nb.latest = 0 /\ nb.pending = b.pending /\ nb.conv = conv
      /\ nb.summary = b.summary /\ nb.made = made /\ nb.size = Len(conv) + 1 /\ nb.recovered = b.recovered
  <2>1. Len(conv) + 1 \in Nat
    OBVIOUS
  <2> QED
    BY <1>1, <1>2, <2>1 DEF Builds, Steps, Assembled
<1>4. b.conv \in Seq(1 .. Len(msgs)) /\ DOMAIN b.conv = 1 .. Len(b.conv)
      /\ \A i \in 1 .. Len(b.conv) : b.conv[i] \in 1 .. Len(msgs)
  BY <1>1, ElementOfSeq, LenProperties DEF Shape
<1>5. ASSUME NEW n \in Nat, \A i \in 1 .. Len(b.conv) : b.conv[i] <= n, b.summary \subseteq Upto(msgs, n)
      PROVE  made \subseteq Upto(msgs, n)
  <2>1. ASSUME NEW s \in ToSet(b.conv) PROVE s \in 1 .. Len(msgs) /\ s <= n
    BY <1>4, <1>5 DEF ToSet
  <2>2. TextOf(ToSet(b.conv)) \subseteq Upto(msgs, n)
    BY <2>1 DEF TextOf, Upto
  <2>3. {0} \subseteq Upto(msgs, n)
    BY DEF Upto
  <2> QED
    BY <1>5, <2>2, <2>3
<1>6. Shape(nb, msgs, comps)
  <2>1. made \subseteq Upto(msgs, Len(msgs))
    <3>1. \A i \in 1 .. Len(b.conv) : b.conv[i] <= Len(msgs)
      BY <1>2, <1>4
    <3> QED
      BY <1>1, <1>2, <1>5, <3>1 DEF Shape
  <2>2. Shape(b, msgs, comps) /\ nb.pc # "loop" /\ Len(nb.conv) <= Len(msgs) /\ 0 <= Len(msgs)
    BY <1>1, <1>2, <1>3
  <2> QED
    BY <1>3, <2>1, <2>2 DEF Shape
<1>7. Within(nb, lease = w, msgs, comps)
  <2> SUFFICES ASSUME NEW p \in 1 .. Len(comps), IsPending(comps, p), b.pending = p \/ lease = w
               PROVE  b.summary \subseteq Upto(msgs, comps[p].source) /\ made \subseteq Upto(msgs, comps[p].source)
    BY <1>1, <1>3 DEF Within
  <2>1. /\ b.summary \subseteq Upto(msgs, comps[p].source) /\ comps[p].source \in Nat
        /\ \A i \in 1 .. Len(b.conv) : b.conv[i] <= comps[p].source
    BY <1>1, InvFacts DEF Within
  <2> QED
    BY <1>5, <2>1
<1>8. Accounts(nb, msgs, comps, epoch)
  <2>1. \A s \in Live(msgs, epoch) : ~(s <= 0)
    BY DEF Live
  <2>2. ASSUME IsPending(comps, b.pending), made # NoSummary, NEW s \in Live(msgs, epoch), s <= comps[b.pending].source
        PROVE  \/ msgs[s].of \in made \/ KeptBy(comps, msgs[s].of)
               \/ \E t \in ToSet(conv) : msgs[t].of = msgs[s].of
    <3>1. s \in ToSet(b.conv) \/ msgs[s].of \in b.summary \/ KeptBy(comps, msgs[s].of)
      BY <1>1, <2>2 DEF Accounts
    <3>2. msgs[s].of \notin NoSummary
      <4>1. msgs[s] \in Message
        BY InvFacts, ElementOfSeq DEF Live
      <4>2. msgs[s].of \in 1 .. MaxMessages
        BY <4>1 DEF Message, Texts
      <4> QED
        BY <4>2 DEF NoSummary
    <3>3. CASE s \in ToSet(b.conv)
      BY <2>2, <3>3
    <3>4. CASE msgs[s].of \in b.summary
      BY <2>2, <3>2, <3>4
    <3> QED
      BY <3>1, <3>3, <3>4
  <2> QED
    BY <1>3, <2>1, <2>2 DEF Accounts
<1> QED
  BY <1>6, <1>7, <1>8 DEF BuildSound

LEMMA AssembleStep ==
  ASSUME Inv, NEW w \in Workers, Assemble(w)
  PROVE  Inv'
<1> DEFINE b == build[w]
           b0 == [b EXCEPT !.latest = 0]
           crit == Critical(b.conv)
<1>1. /\ b \in Builds /\ b.pc = "assemble" /\ Shape(b, msgs, comps) /\ Within(b, lease = w, msgs, comps)
      /\ Accounts(b, msgs, comps, epoch) /\ UNCHANGED tables /\ lease' = lease
  BY InvBuild DEF Assemble, tables
<1>2. b0 \in Builds /\ b0.conv = b.conv /\ b0.summary = b.summary /\ b0.pending = b.pending /\ b0.made = b.made
  BY <1>1 DEF Builds
<1>3. PICK nb : /\ build' = [build EXCEPT ![w] = nb]
                /\ \/ nb = [b0 EXCEPT !.pc = "fail"]
                   \/ \E made \in {Noncritical(b0), NoSummary} : nb = [Assembled(b0, crit) EXCEPT !.made = made]
                   \/ b.pending = 0 /\ nb = Assembled(b0, b.conv)
  <2>1. b.pending = b0.pending /\ b0.conv = b.conv
    BY <1>2
  <2> QED
    BY <2>1 DEF Assemble, Compressed, FitSummary
<1>4. b.conv \in Seq(1 .. Len(msgs)) /\ Len(b.conv) \in Nat /\ Len(b.conv) <= Len(msgs) /\ Len(msgs) \in Nat
  BY <1>1, InvFacts, LenProperties DEF Shape
<1>5. /\ crit \in Seq(1 .. Len(msgs)) /\ Len(crit) \in Nat /\ Len(crit) <= Len(msgs)
      /\ ToSet(crit) \subseteq ToSet(b.conv)
  <2>1. /\ crit \in Seq(1 .. Len(msgs)) /\ Len(crit) \in Nat /\ Len(crit) <= Len(b.conv)
        /\ ToSet(crit) \subseteq ToSet(b.conv)
    BY <1>4, CriticalIs
  <2> QED
    BY <1>4, <2>1
<1>6. NoSummary \in Summaries /\ b.summary \in Summaries
  BY <1>1, BuildFields DEF Summaries
<1>7. CASE nb = [b0 EXCEPT !.pc = "fail"]
  <2>1. /\ nb \in Builds /\ nb.pc = "fail" /\ nb.latest = 0 /\ nb.pending = b.pending /\ nb.conv = b.conv
        /\ nb.summary = b.summary /\ nb.made = b.made /\ nb.recovered = b.recovered
    BY <1>1, <1>7 DEF Builds, Steps
  <2>2. Shape(nb, msgs, comps)
    BY <1>1, <1>4, <2>1 DEF Shape
  <2>3. Within(nb, lease = w, msgs, comps)
    BY <1>1, <2>1 DEF Within
  <2>4. Accounts(nb, msgs, comps, epoch)
    <3>1. \A s \in Live(msgs, epoch) : ~(s <= 0)
      BY DEF Live
    <3> QED
      BY <2>1, <3>1 DEF Accounts
  <2> QED
    BY <1>1, <1>3, <2>2, <2>3, <2>4, InvFacts, BuildMoves DEF BuildSound
<1>8. CASE \E made \in {Noncritical(b0), NoSummary} : nb = [Assembled(b0, crit) EXCEPT !.made = made]
  <2>1. PICK made \in {Noncritical(b0), NoSummary} : nb = [Assembled(b0, crit) EXCEPT !.made = made]
    BY <1>8
  <2> DEFINE all == TextOf(ToSet(b.conv) \ ToSet(crit)) \union (b.summary \ NoSummary)
  <2>2. Noncritical(b0) = all
    BY <1>2 DEF Noncritical, KnownFrom
  <2>3. all \in Summaries
    <3>1. ASSUME NEW s \in ToSet(b.conv) PROVE msgs[s].of \in Texts
      <4>1. s \in 1 .. Len(msgs)
        BY <1>4, LenProperties, ElementOfSeq DEF ToSet
      <4>2. msgs[s] \in Message
        BY <4>1, InvFacts, ElementOfSeq
      <4> QED
        BY <4>2 DEF Message
    <3>2. b.summary \ NoSummary \subseteq Texts
      BY <1>6 DEF Summaries
    <3> QED
      BY <3>1, <3>2 DEF TextOf, Summaries
  <2>4. /\ all \subseteq {0} \union TextOf(ToSet(b.conv)) \union b.summary
        /\ \A s \in ToSet(b.conv) \ ToSet(crit) : msgs[s].of \in all
        /\ b.summary \ NoSummary \subseteq all
    BY DEF TextOf
  <2> HIDE DEF all
  <2>5. /\ made \in Summaries /\ made \subseteq {0} \union TextOf(ToSet(b.conv)) \union b.summary
        /\ made # NoSummary => \A s \in ToSet(b.conv) \ ToSet(crit) : msgs[s].of \in made
        /\ made # NoSummary => b.summary \ NoSummary \subseteq made
    <3>1. NoSummary \subseteq {0}
      BY DEF NoSummary
    <3> QED
      BY <1>6, <2>1, <2>2, <2>3, <2>4, <3>1
  <2> HIDE DEF crit
  <2>6. BuildSound(nb, lease = w, msgs, comps, epoch)
    <3>1. nb = AssembledWith(b, crit, made) /\ Summarises(made, b, crit)
      BY <2>1, <2>5 DEF AssembledWith, Summarises
    <3> QED
      BY <1>1, <1>5, <2>5, <3>1, AssembledIsSound
  <2> QED
    BY <1>1, <1>3, <2>6, InvFacts, BuildMoves
<1>9. CASE b.pending = 0 /\ nb = Assembled(b0, b.conv)
  <2>1. nb = [Assembled(b0, b.conv) EXCEPT !.made = NoSummary]
    <3>1. b.made = NoSummary
      BY <1>1 DEF Shape
    <3> QED
      BY <1>1, <1>9, <3>1 DEF Assembled, Builds
  <2>2. NoSummary \subseteq {0} \union TextOf(ToSet(b.conv)) \union b.summary
    BY DEF NoSummary
  <2>3. BuildSound(nb, lease = w, msgs, comps, epoch)
    <3>1. nb = AssembledWith(b, b.conv, NoSummary) /\ Summarises(NoSummary, b, b.conv)
      BY <2>1, <2>2 DEF AssembledWith, Summarises
    <3> QED
      BY <1>1, <1>4, <1>6, <3>1, AssembledIsSound
  <2> QED
    BY <1>1, <1>3, <2>3, InvFacts, BuildMoves
<1> QED
  BY <1>3, <1>7, <1>8, <1>9

-----------------------------------------------------------------------------
(********************* The end of a build and of a row *********************)

\* The attempt goes on with the summary in use, and its build owes nothing any more.
LEMMA BuiltIsSound ==
  ASSUME Inv, NEW w \in Workers, build[w].pc = "finish"
  PROVE  \E nb : Built(w) = [build EXCEPT ![w] = nb] /\ BuildSound(nb, lease = w, msgs, comps, epoch)
<1> DEFINE b == build[w]
           use == InUse(w)
           conv == LastOf(b.conv)
           nb == [b EXCEPT !.pc = "loop", !.pending = 0, !.made = NoSummary, !.summary = use, !.recovered = NoSummary,
                           !.conv = conv]
<1>1. b \in Builds /\ Shape(b, msgs, comps) /\ Within(b, lease = w, msgs, comps) /\ Accounts(b, msgs, comps, epoch)
  BY InvBuild
<1>2. Built(w) = [build EXCEPT ![w] = nb]
  BY InvBuild DEF Built, Builds
<1>3. /\ use \in Summaries /\ use \subseteq Upto(msgs, Len(msgs)) /\ NoSummary \in Summaries
      /\ \A p \in 1 .. Len(comps) : IsPending(comps, p) /\ lease = w => use \subseteq Upto(msgs, comps[p].source)
  BY <1>1, BuildFields DEF InUse, Shape, Within, Summaries
<1>4. conv \in Seq(1 .. Len(msgs)) /\ conv \in Seq(Nat) /\ Len(conv) \in Nat /\ Len(conv) <= Len(msgs)
  <2>1. b.conv \in Seq(1 .. Len(msgs)) /\ Len(b.conv) \in Nat /\ Len(b.conv) <= Len(msgs) /\ Len(msgs) \in Nat
    BY <1>1, InvFacts, LenProperties DEF Shape
  <2> DEFINE n == Len(b.conv)
             top == Max({1, n})
  <2>2. top \in {1, n} /\ top >= 1
    <3>1. n \in Int /\ 1 \in Int
      BY <2>1
    <3> QED
      BY <3>1, MaxOfTwo
  <2>3. conv = SubSeq(b.conv, top, n)
    BY DEF LastOf
  <2> HIDE DEF top, conv
  <2>4. \A i \in top .. n : b.conv[i] \in 1 .. Len(msgs)
    BY <2>1, <2>2, ElementOfSeq
  <2>5. conv \in Seq(1 .. Len(msgs)) /\ Len(conv) = IF top <= n THEN n - top + 1 ELSE 0
    <3>1. top \in Int /\ n \in Int
      BY <2>1, <2>2
    <3> QED
      BY <2>3, <2>4, <3>1, SubSeqProperties
  <2>6. Len(conv) \in Nat /\ Len(conv) <= n
    <3>1. CASE top <= n
      BY <2>1, <2>2, <2>5, <3>1
    <3>2. CASE ~(top <= n)
      BY <2>1, <2>5, <3>2
    <3> QED
      BY <3>1, <3>2
  <2>7. 1 .. Len(msgs) \subseteq Nat
    BY <2>1
  <2> QED
    BY <2>1, <2>5, <2>6, <2>7, SeqMonotonic
<1> HIDE DEF use, conv
<1>5. /\ nb \in Builds /\ nb.pc = "loop" /\ nb.pending = 0 /\ nb.made = NoSummary /\ nb.summary = use /\ nb.conv = conv
      /\ nb.latest = b.latest /\ nb.size = b.size /\ nb.recovered = NoSummary
  BY <1>1, <1>3, <1>4 DEF Builds, Steps
<1> HIDE DEF nb
<1>6. Shape(nb, msgs, comps)
  <2>1. NoSummary \subseteq Upto(msgs, Len(msgs)) /\ Len(comps) \in Nat
    BY InvFacts DEF NoSummary, Upto
  <2> QED
    BY <1>1, <1>3, <1>4, <1>5, <2>1 DEF Shape
<1>7. Within(nb, lease = w, msgs, comps)
  <2>1. \A n : NoSummary \subseteq Upto(msgs, n)
    BY DEF NoSummary, Upto
  <2> QED
    BY <1>3, <1>5, <2>1 DEF Within
<1>8. b.latest = 0
  BY <1>1 DEF Shape
<1>9. Accounts(nb, msgs, comps, epoch)
  <2>1. \A s \in Live(msgs, epoch) : ~(s <= 0)
    BY DEF Live
  <2> QED
    BY <1>5, <1>8, <2>1 DEF Accounts
<1> QED
  BY <1>2, <1>6, <1>7, <1>9 DEF BuildSound

\* The pending row is ended by a worker whose build owes nothing after it.
LEMMA EndStep ==
  ASSUME Inv, NEW w \in Workers, NEW nb, NEW h \in BOOLEAN, NEW k, NEW r,
         UNCHANGED <<epoch, gen, msgs, ckpts, ckpt>>, lease' \in Workers \union {NoWorker},
         build' = [build EXCEPT ![w] = nb], BuildSound(nb, h, msgs, comps, epoch),
         comps' = [comps EXCEPT ![k] = r], RowEnds(r, k, msgs, comps, epoch)
  PROVE  Inv'
<1>1. /\ MessagesSound(msgs, epoch) /\ RowsSound(comps, msgs, epoch) /\ CheckpointsSound(ckpts, ckpt, msgs, comps)
      /\ Accounted(msgs, comps, epoch) /\ comps \in Seq(Compaction) /\ epoch \in Nat
  BY InvFacts DEF Inv
<1>2. /\ RowsSound(comps', msgs, epoch) /\ CheckpointsSound(ckpts, ckpt, msgs, comps') /\ Accounted(msgs, comps', epoch)
      /\ Closes(comps, comps')
  BY <1>1, EndKeepsTables
<1>3. /\ build'[w] = nb /\ \A v \in Workers : v # w => build'[v] = build[v]
      /\ DOMAIN build' = Workers /\ build' = [v \in Workers |-> build'[v]]
  BY InvBuild
<1>4. ASSUME NEW v \in Workers PROVE BuildSound(build'[v], lease' = v, msgs, comps', epoch)
  <2>1. CASE v = w
    <3>1. BuildSound(nb, lease' = w, msgs, comps', epoch)
      BY <1>2, PendingEnded
    <3> QED
      BY <1>3, <2>1, <3>1
  <2>2. CASE v # w
    <3>1. BuildSound(build[v], lease = v, msgs, comps, epoch)
      BY InvBuild
    <3> QED
      BY <1>2, <1>3, <2>2, <3>1, PendingEnded
  <2> QED
    BY <2>1, <2>2
<1>5. Registers'
  BY <1>3 DEF Inv, Registers
<1>7. /\ MessagesSound(msgs', epoch') /\ RowsSound(comps', msgs', epoch')
      /\ CheckpointsSound(ckpts', ckpt', msgs', comps') /\ Accounted(msgs', comps', epoch')
      /\ \A v \in Workers : BuildSound(build'[v], lease' = v, msgs', comps', epoch')
  BY <1>1, <1>2, <1>4
<1> QED
  BY <1>5, <1>7 DEF Inv

LEMMA FinishStep ==
  ASSUME Inv, NEW w \in Workers, Finish(w)
  PROVE  Inv'
<1> DEFINE b == build[w]
           k == b.pending
           error == Error(b.made)
           status == IF error = "none" THEN "completed" ELSE "failed"
           kept == TextOf(ToSet(b.conv))
<1>1. /\ b \in Builds /\ b.pc = "finish" /\ Shape(b, msgs, comps) /\ Within(b, lease = w, msgs, comps)
      /\ Accounts(b, msgs, comps, epoch) /\ UNCHANGED <<epoch, gen, msgs, ckpts, ckpt>>
  BY InvBuild DEF Finish
<1>2. PICK nb : Built(w) = [build EXCEPT ![w] = nb] /\ BuildSound(nb, lease = w, msgs, comps, epoch)
  BY <1>1, BuiltIsSound
<1>3. CASE build' = Built(w) /\ UNCHANGED <<comps, lease>>
  BY <1>1, <1>2, <1>3, InvFacts, BuildMoves DEF tables
<1>4. CASE build' = Stopped(w) /\ Release(w) /\ UNCHANGED comps
  BY <1>1, <1>4, StopStep DEF tables
<1>5. CASE k # 0 /\ CanEnd(k) /\ comps' = Ended(k, status, error, b.made, kept) /\ build' = Built(w) /\ UNCHANGED lease
  <2>1. k \in 1 .. Len(comps) /\ IsPending(comps, k)
    BY <1>1, <1>5, BuildFields, InvFacts DEF Shape, CanEnd, IsPending
  <2>2. kept \in SUBSET Texts
    <3>1. ASSUME NEW s \in ToSet(b.conv) PROVE msgs[s].of \in Texts
      <4>1. s \in 1 .. Len(msgs)
        BY <1>1, LenProperties, ElementOfSeq DEF ToSet, Shape
      <4>2. msgs[s] \in Message
        BY <4>1, InvFacts, ElementOfSeq
      <4> QED
        BY <4>2 DEF Message
    <3> QED
      BY <3>1 DEF TextOf
  <2>3. /\ b.made \in Summaries /\ status \in {"completed", "failed"} /\ error \in {"none", "failed", "empty"}
        /\ (status = "completed" <=> b.made # NoSummary)
    BY <1>1, BuildFields DEF Error
  <2>4. b.made \subseteq Upto(msgs, comps[k].source)
    BY <1>1, <2>1 DEF Within
  <2>5. ASSUME b.made # NoSummary, NEW s \in Live(msgs, epoch), s <= comps[k].source
        PROVE  msgs[s].of \in b.made \union kept \/ KeptBy(comps, msgs[s].of)
    BY <1>1, <2>1, <2>5 DEF Accounts, TextOf
  <2> HIDE DEF kept, error, status
  <2> DEFINE r == [comps[k] EXCEPT !.status = status, !.error = error, !.covers = b.made, !.kept = kept]
  <2>6. /\ r \in Compaction /\ comps' = [comps EXCEPT ![k] = r] /\ r.gen = comps[k].gen /\ r.source = comps[k].source
        /\ r.status = status /\ r.covers = b.made /\ r.kept = kept
    <3>1. comps[k] \in Compaction
      BY <2>1, InvFacts
    <3>2. comps' = [comps EXCEPT ![k] = r]
      BY <1>5 DEF Ended
    <3> QED
      BY <2>2, <2>3, <3>1, <3>2 DEF Compaction
  <2> HIDE DEF r
  <2>7. RowEnds(r, k, msgs, comps, epoch)
    BY <2>1, <2>3, <2>4, <2>5, <2>6 DEF RowEnds
  <2>8. lease' \in Workers \union {NoWorker} /\ (lease = w) \in BOOLEAN
    BY <1>5, InvFacts
  <2> QED
    BY <1>1, <1>2, <1>5, <2>6, <2>7, <2>8, EndStep
<1> QED
  BY <1>3, <1>4, <1>5 DEF Finish

LEMMA RecordFailureStep ==
  ASSUME Inv, NEW w \in Workers, RecordFailure(w)
  PROVE  Inv'
<1> DEFINE k == build[w].pending
<1>1. build' = Stopped(w) /\ Release(w) /\ UNCHANGED <<epoch, gen, msgs, ckpts, ckpt>>
  BY DEF RecordFailure
<1>2. CASE UNCHANGED comps
  BY <1>1, <1>2, StopStep DEF tables
<1>3. CASE k # 0 /\ CanEnd(k) /\ comps' = Ended(k, "failed", "failed", NoSummary, {})
  <2>1. k \in 1 .. Len(comps) /\ IsPending(comps, k)
    BY <1>3, InvBuild, BuildFields, InvFacts DEF Shape, CanEnd, IsPending
  <2>2. NoSummary \in Summaries /\ {} \in SUBSET Texts /\ \A n : NoSummary \subseteq Upto(msgs, n)
    BY DEF Summaries, NoSummary, Upto
  <2> DEFINE r == [comps[k] EXCEPT !.status = "failed", !.error = "failed", !.covers = NoSummary, !.kept = {}]
  <2>3. /\ r \in Compaction /\ comps' = [comps EXCEPT ![k] = r] /\ r.gen = comps[k].gen /\ r.source = comps[k].source
        /\ r.status = "failed" /\ r.covers = NoSummary /\ r.kept = {}
    <3>1. comps[k] \in Compaction
      BY <2>1, InvFacts
    <3>2. comps' = [comps EXCEPT ![k] = r]
      BY <1>3 DEF Ended
    <3> QED
      BY <2>2, <3>1, <3>2 DEF Compaction
  <2> HIDE DEF r
  <2>4. build' = [build EXCEPT ![w] = Idle] /\ lease' \in Workers \union {NoWorker}
    BY <1>1, InvFacts DEF Stopped, Release
  <2>5. BuildSound(Idle, FALSE, msgs, comps, epoch)
    <3>1. Len(msgs) \in Nat /\ Len(comps) \in Nat
      BY InvFacts
    <3> QED
      BY <3>1, IdleIsSound
  <2>6. RowEnds(r, k, msgs, comps, epoch)
    BY <2>1, <2>2, <2>3 DEF RowEnds
  <2> QED
    BY <1>1, <2>3, <2>4, <2>5, <2>6, EndStep
<1> QED
  BY <1>2, <1>3 DEF RecordFailure

-----------------------------------------------------------------------------
(****************************** New messages *******************************)

LEMMA RowFields ==
  ASSUME NEW C \in Seq(Compaction), NEW k \in 1 .. Len(C)
  PROVE  C[k] \in Compaction /\ C[k].source \in Nat /\ C[k].gen \in Nat
<1>1. C[k] \in Compaction
  BY ElementOfSeq
<1>2. MaxMessages \in Nat /\ MaxEpoch \in Nat
  BY SessionContextAssumption
<1>3. C[k].source \in 0 .. MaxMessages /\ C[k].gen \in 1 .. MaxEpoch
  BY <1>1 DEF Compaction
<1> QED
  BY <1>1, <1>2, <1>3

LEMMA GrowthKeepsTables ==
  ASSUME NEW M, NEW M2, NEW C \in Seq(Compaction), NEW E \in Nat, NEW E2 \in Nat, E <= E2, NEW K, NEW c,
         Grows(M, M2), RowsSound(C, M, E), CheckpointsSound(K, c, M, C)
  PROVE  /\ \A k \in 1 .. Len(C) :
              /\ C[k].gen <= E2 /\ C[k].source <= Len(M2) /\ C[k].covers \subseteq Upto(M2, C[k].source)
         /\ CheckpointsSound(K, c, M2, C)
<1>1. Len(M) \in Nat /\ Len(M2) \in Nat /\ Len(M) <= Len(M2) /\ Len(C) \in Nat
  BY LenProperties DEF Grows
<1>2. ASSUME NEW k \in 1 .. Len(C)
      PROVE  /\ C[k].source \in Nat /\ C[k].gen <= E2 /\ C[k].source <= Len(M2)
             /\ Upto(M, C[k].source) \subseteq Upto(M2, C[k].source) /\ C[k].covers \subseteq Upto(M2, C[k].source)
  <2>2. C[k].source \in Nat /\ C[k].gen \in Nat
    BY RowFields
  <2>3. C[k].gen <= E /\ C[k].source <= Len(M) /\ C[k].covers \subseteq Upto(M, C[k].source)
    BY DEF RowsSound
  <2>4. Upto(M, C[k].source) \subseteq Upto(M2, C[k].source)
    BY <2>2, UptoGrows
  <2> QED
    BY <1>1, <2>2, <2>3, <2>4
<1>3. CheckpointsSound(K, c, M2, C)
  <2>1. ASSUME NEW k \in 1 .. Len(K)
        PROVE  /\ K[k].at \in 1 .. Len(M2) /\ M2[K[k].at].epoch = K[k].epoch /\ M2[K[k].at].index <= K[k].index
               /\ K[k].summary \subseteq Upto(M2, Len(M2))
    <3>1. /\ K[k].at \in 1 .. Len(M) /\ M[K[k].at].epoch = K[k].epoch /\ M[K[k].at].index <= K[k].index
          /\ K[k].summary \subseteq Upto(M, Len(M))
      BY DEF CheckpointsSound
    <3>2. M2[K[k].at] = M[K[k].at] /\ K[k].at \in 1 .. Len(M2)
      BY <1>1, <3>1 DEF Grows
    <3>3. Upto(M, Len(M)) \subseteq Upto(M2, Len(M2))
      BY <1>1, UptoGrows
    <3> QED
      BY <3>1, <3>2, <3>3
  <2>2. ASSUME NEW p \in 1 .. Len(C), IsPending(C, p), c # 0 PROVE K[c].summary \subseteq Upto(M2, C[p].source)
    <3>1. K[c].summary \subseteq Upto(M, C[p].source)
      BY <2>2 DEF CheckpointsSound
    <3> QED
      BY <1>2, <3>1
  <2> QED
    BY <2>1, <2>2 DEF CheckpointsSound
<1> QED
  BY <1>2, <1>3

\* A message of the branch is appended.
LEMMA AppendKeepsTables ==
  ASSUME NEW M, NEW C \in Seq(Compaction), NEW E \in Nat, NEW K, NEW c, NEW m \in Message, NEW M2, M2 = Append(M, m),
         MessagesSound(M, E), RowsSound(C, M, E), CheckpointsSound(K, c, M, C), Accounted(M, C, E),
         m.epoch = E, Len(M) < MaxMessages
  PROVE  /\ MessagesSound(M2, E) /\ RowsSound(C, M2, E) /\ CheckpointsSound(K, c, M2, C) /\ Accounted(M2, C, E)
         /\ Grows(M, M2) /\ \A s \in Live(M2, E) : s \in Live(M, E) \/ s > Len(M)
<1>1. /\ M2 \in Seq(Message) /\ Len(M) \in Nat /\ Len(M2) = Len(M) + 1 /\ M2[Len(M) + 1] = m
      /\ \A s \in 1 .. Len(M) : M2[s] = M[s]
  BY AppendProperties, LenProperties DEF MessagesSound
<1>2. Grows(M, M2)
  BY <1>1 DEF Grows
<1>3. MessagesSound(M2, E)
  <2>1. \A s \in 1 .. Len(M2) : s \in 1 .. Len(M) \/ s = Len(M) + 1
    BY <1>1
  <2>2. Len(M2) \in 1 .. MaxMessages
    BY <1>1, SessionContextAssumption
  <2>3. \A s \in 1 .. Len(M2) : M2[s].epoch <= E
    BY <1>1, <2>1 DEF MessagesSound
  <2> QED
    BY <1>1, <2>2, <2>3 DEF MessagesSound
<1>4. \A s \in Live(M2, E) : s \in Live(M, E) \/ s > Len(M)
  BY <1>1 DEF Live
<1>5. /\ \A k \in 1 .. Len(C) :
           C[k].gen <= E /\ C[k].source <= Len(M2) /\ C[k].covers \subseteq Upto(M2, C[k].source)
      /\ CheckpointsSound(K, c, M2, C)
  <2>1. E <= E
    OBVIOUS
  <2> QED
    BY <1>2, <2>1, GrowthKeepsTables
<1>6. RowsSound(C, M2, E)
  BY <1>5 DEF RowsSound
<1>7. Accounted(M2, C, E)
  <2> SUFFICES ASSUME NEW k \in 1 .. Len(C), IsCompleted(C, k), C[k].gen = E, NEW s \in Live(M2, E), s <= C[k].source
               PROVE  \/ M2[s].of \in C[k].covers \union C[k].kept
                      \/ \E j \in 1 .. k - 1 : IsCompleted(C, j) /\ M2[s].of \in C[j].kept
    BY DEF Accounted
  <2>1. C[k].source \in Nat /\ C[k].source <= Len(M)
    BY RowFields DEF RowsSound
  <2>2. s \in Nat
    BY DEF Live
  <2>3. s \in Live(M, E)
    BY <1>1, <1>4, <2>1, <2>2
  <2>4. M2[s] = M[s]
    BY <1>1, <2>3 DEF Live
  <2> QED
    BY <2>3, <2>4 DEF Accounted
<1> QED
  BY <1>2, <1>3, <1>4, <1>5, <1>6, <1>7

\* The new message's checkpoint, if it gets one.
LEMMA CheckpointAdded ==
  ASSUME NEW M, NEW C, NEW K \in Seq(Checkpoint), NEW c, CheckpointsSound(K, c, M, C), NEW x \in Checkpoint,
         x.at \in 1 .. Len(M), M[x.at].epoch = x.epoch, M[x.at].index <= x.index, x.summary \subseteq Upto(M, Len(M)),
         \A p \in 1 .. Len(C) : IsPending(C, p) => x.summary \subseteq Upto(M, C[p].source)
  PROVE  CheckpointsSound(Append(K, x), Len(K) + 1, M, C)
<1> DEFINE K2 == Append(K, x)
<1>1. /\ K2 \in Seq(Checkpoint) /\ Len(K) \in Nat /\ Len(K2) = Len(K) + 1 /\ K2[Len(K) + 1] = x
      /\ \A k \in 1 .. Len(K) : K2[k] = K[k]
  BY AppendProperties, LenProperties
<1> HIDE DEF K2
<1>2. \A k \in 1 .. Len(K2) : k \in 1 .. Len(K) \/ k = Len(K) + 1
  BY <1>1
<1>3. ASSUME NEW k \in 1 .. Len(K2)
      PROVE  /\ K2[k].at \in 1 .. Len(M) /\ M[K2[k].at].epoch = K2[k].epoch /\ M[K2[k].at].index <= K2[k].index
             /\ K2[k].summary \subseteq Upto(M, Len(M))
  <2>1. CASE k \in 1 .. Len(K)
    BY <1>1, <2>1 DEF CheckpointsSound
  <2>2. CASE k = Len(K) + 1
    BY <1>1, <2>2
  <2> QED
    BY <1>2, <2>1, <2>2
<1>4. Len(K) + 1 \in 0 .. Len(K2)
  BY <1>1
<1>5. CheckpointsSound(K2, Len(K) + 1, M, C)
  BY <1>1, <1>3, <1>4 DEF CheckpointsSound
<1> QED
  BY <1>5 DEF K2

\* The holder of the lease goes on with the message it stored, or found stored.
LEMMA AppendedIsSound ==
  ASSUME NEW b \in Builds, NEW M, NEW M2, NEW C, NEW E, NEW nb, NEW s \in 1 .. Len(M2), b.pc = "loop", Grows(M, M2),
         Shape(b, M, C), Within(b, TRUE, M, C), \A p \in 1 .. Len(C) : C[p].source \in Nat,
         nb = [b EXCEPT !.size = b.size + 1, !.conv = <<s>>]
  PROVE  BuildSound(nb, TRUE, M2, C, E)
<1>1. Len(M) \in Nat /\ Len(M2) \in Nat /\ Len(M) <= Len(M2) /\ s \in Nat /\ Len(M2) >= 1
  BY DEF Grows
<1>2. b.size \in Nat /\ b.latest = 0
  BY BuildFields DEF Shape
<1>3. <<s>> \in Seq(1 .. Len(M2)) /\ <<s>> \in Seq(Nat) /\ Len(<<s>>) = 1
  BY <1>1
<1>4. /\ nb \in Builds /\ nb.pc = "loop" /\ nb.size = b.size + 1 /\ nb.conv = <<s>> /\ nb.latest = b.latest
      /\ nb.pending = b.pending /\ nb.summary = b.summary /\ nb.made = b.made /\ nb.recovered = b.recovered
  <2> DEFINE conv == <<s>>
             size == b.size + 1
  <2>1. conv \in Seq(Nat) /\ size \in Nat /\ nb = [b EXCEPT !.size = size, !.conv = conv]
    BY <1>2, <1>3
  <2> HIDE DEF conv, size
  <2>2. /\ nb \in Builds /\ nb.pc = b.pc /\ nb.size = size /\ nb.conv = conv /\ nb.latest = b.latest
        /\ nb.pending = b.pending /\ nb.summary = b.summary /\ nb.made = b.made /\ nb.recovered = b.recovered
    BY <2>1 DEF Builds
  <2> QED
    BY <2>2 DEF conv, size
<1>5. Shape(nb, M2, C)
  <2>1. Upto(M, Len(M)) \subseteq Upto(M2, Len(M2))
    BY <1>1, UptoGrows
  <2>2. /\ nb.summary \subseteq Upto(M2, Len(M2)) /\ nb.made \subseteq Upto(M2, Len(M2))
        /\ nb.recovered \subseteq Upto(M2, Len(M2))
    BY <1>4, <2>1 DEF Shape
  <2>3. nb.latest <= Len(M2) /\ nb.pending <= Len(C)
    BY <1>1, <1>2, <1>4 DEF Shape
  <2>4. nb.made = NoSummary /\ nb.latest = 0
    BY <1>2, <1>4 DEF Shape
  <2> QED
    BY <1>1, <1>3, <1>4, <2>2, <2>3, <2>4 DEF Shape
<1>6. Within(nb, TRUE, M2, C)
  <2>1. ASSUME NEW p \in 1 .. Len(C), IsPending(C, p)
        PROVE  b.summary \subseteq Upto(M2, C[p].source) /\ b.recovered \subseteq Upto(M2, C[p].source)
    <3>1. b.summary \subseteq Upto(M, C[p].source) /\ b.recovered \subseteq Upto(M, C[p].source)
      BY <2>1 DEF Within
    <3>2. Upto(M, C[p].source) \subseteq Upto(M2, C[p].source)
      BY UptoGrows
    <3> QED
      BY <3>1, <3>2
  <2> QED
    BY <1>4, <2>1 DEF Within
<1>7. Accounts(nb, M2, C, E)
  <2>1. \A t \in Live(M2, E) : ~(t <= 0)
    BY DEF Live
  <2> QED
    BY <1>2, <1>4, <2>1 DEF Accounts
<1> QED
  BY <1>5, <1>6, <1>7 DEF BuildSound

\* A message is stored, and with a model's message its checkpoint.
LEMMA AppendNewStep ==
  ASSUME Inv, Ghosts, NEW w \in Workers, build[w].pc = "loop", UNCHANGED <<epoch, gen, comps>>, AppendNew(w)
  PROVE  Inv'
<1> DEFINE b == build[w]
           n == Len(msgs)
           index == b.size + 1
           nb == [b EXCEPT !.size = b.size + 1, !.conv = <<n + 1>>]
           m(role) == [epoch |-> epoch, of |-> n + 1, index |-> index, own |-> TRUE, role |-> role]
           now == past \union {n + 1}
           x == [epoch |-> epoch, index |-> index, at |-> n + 1, summary |-> b.summary, past |-> now]
<1>1. /\ b \in Builds /\ b.pc = "loop" /\ Shape(b, msgs, comps) /\ Within(b, lease = w, msgs, comps)
      /\ UNCHANGED <<epoch, gen, comps>> /\ n < MaxMessages /\ n \in Nat /\ n >= 1 /\ MaxMessages \in Nat
      /\ b.size \in Nat /\ epoch \in 1 .. MaxEpoch /\ epoch \in Nat /\ b.summary \in Summaries
  <2>1. b \in Builds /\ Shape(b, msgs, comps) /\ Within(b, lease = w, msgs, comps)
    BY InvBuild
  <2>2. n + 1 <= MaxMessages
    BY DEF AppendNew
  <2>3. n \in Nat /\ n >= 1 /\ MaxMessages \in Nat /\ epoch \in 1 .. MaxEpoch /\ epoch \in Nat
    BY InvFacts
  <2>4. b.size \in Nat /\ b.summary \in Summaries
    BY <2>1, BuildFields DEF Shape
  <2> QED
    BY <2>1, <2>2, <2>3, <2>4
<1>2. /\ lease = w /\ UNCHANGED lease
      /\ build' = [build EXCEPT ![w].size = index, ![w].conv = <<n + 1>>]
  BY DEF AppendNew, Fenced, StoredAs, Position
<1>3. PICK role \in {"assistant", "tool"} :
        /\ msgs' = Append(msgs, m(role))
        /\ \/ UNCHANGED <<ckpts, ckpt>>
           \/ ckpts' = Append(ckpts, x) /\ ckpt' = Len(ckpts) + 1
  BY DEF AppendNew, Position
<1>4. now \in SUBSET Texts
  <2>1. n + 1 \in Texts
    BY <1>1 DEF Texts
  <2> QED
    BY <2>1 DEF Ghosts
<1> HIDE DEF now
<1> QED
  <2>1. m(role) \in Message
    BY <1>1 DEF Message, Texts
  <2>2. /\ MessagesSound(msgs, epoch) /\ RowsSound(comps, msgs, epoch) /\ CheckpointsSound(ckpts, ckpt, msgs, comps)
        /\ Accounted(msgs, comps, epoch) /\ comps \in Seq(Compaction)
    BY InvFacts DEF Inv
  <2>3. /\ MessagesSound(msgs', epoch) /\ RowsSound(comps, msgs', epoch) /\ CheckpointsSound(ckpts, ckpt, msgs', comps)
        /\ Accounted(msgs', comps, epoch)
        /\ Grows(msgs, msgs') /\ \A s \in Live(msgs', epoch) : s \in Live(msgs, epoch) \/ s > Len(msgs)
    <3> DEFINE new == m(role)
    <3>1. new.epoch = epoch /\ new \in Message /\ msgs' = Append(msgs, new)
      BY <1>3, <2>1
    <3> HIDE DEF new
    <3> QED
      BY <1>1, <2>2, <3>1, AppendKeepsTables
  <2>4. Len(msgs') = n + 1 /\ msgs'[n + 1] = m(role) /\ \A s \in 1 .. n : msgs'[s] = msgs[s]
    BY <1>3, <2>1, InvFacts, AppendProperties
  <2>5. CheckpointsSound(ckpts', ckpt', msgs', comps)
    <3>1. CASE UNCHANGED <<ckpts, ckpt>>
      BY <2>3, <3>1
    <3>2. CASE ckpts' = Append(ckpts, x) /\ ckpt' = Len(ckpts) + 1
      <4>1. x \in Checkpoint /\ x.at = n + 1 /\ x.epoch = epoch /\ x.index = index /\ x.summary = b.summary
        BY <1>1, <1>4 DEF Checkpoint
      <4>2. x.at \in 1 .. Len(msgs') /\ msgs'[x.at].epoch = x.epoch /\ msgs'[x.at].index <= x.index
        BY <1>1, <2>4, <4>1
      <4>3. x.summary \subseteq Upto(msgs', Len(msgs'))
        <5>1. Upto(msgs, n) \subseteq Upto(msgs', n + 1)
          BY <1>1, <2>3, UptoGrows
        <5> QED
          BY <1>1, <2>4, <4>1, <5>1 DEF Shape
      <4>4. ASSUME NEW p \in 1 .. Len(comps), IsPending(comps, p) PROVE x.summary \subseteq Upto(msgs', comps[p].source)
        <5>1. b.summary \subseteq Upto(msgs, comps[p].source)
          BY <1>1, <1>2, <4>4 DEF Within
        <5>2. Upto(msgs, comps[p].source) \subseteq Upto(msgs', comps[p].source)
          BY <2>3, InvFacts, UptoGrows
        <5> QED
          BY <4>1, <5>1, <5>2
      <4>5. ckpts \in Seq(Checkpoint)
        BY InvFacts
      <4> HIDE DEF x
      <4> QED
        BY <2>3, <3>2, <4>1, <4>2, <4>3, <4>4, <4>5, CheckpointAdded
    <3> QED
      BY <1>3, <3>1, <3>2
  <2>6. /\ build'[w] = nb /\ \A v \in Workers : v # w => build'[v] = build[v]
        /\ DOMAIN build' = Workers /\ build' = [v \in Workers |-> build'[v]]
    BY <1>1, <1>2, InvBuild DEF Builds
  <2>7. ASSUME NEW v \in Workers PROVE BuildSound(build'[v], lease = v, msgs', comps, epoch)
    <3>1. CASE v = w
      <4>1. BuildSound(nb, TRUE, msgs', comps, epoch)
        <5>1. Within(b, TRUE, msgs, comps)
          BY <1>1, <1>2
        <5>2. nb = [b EXCEPT !.size = b.size + 1, !.conv = <<Len(msgs')>>] /\ Len(msgs') \in 1 .. Len(msgs')
          BY <1>1, <2>4
        <5>3. \A p \in 1 .. Len(comps) : comps[p].source \in Nat
          BY InvFacts
        <5> HIDE DEF nb
        <5> QED
          BY <1>1, <2>3, <5>1, <5>2, <5>3, AppendedIsSound
      <4> QED
        BY <1>2, <2>6, <3>1, <4>1
    <3>2. CASE v # w
      <4>1. BuildSound(build[v], FALSE, msgs, comps, epoch) /\ lease # v
        BY <1>2, <3>2, InvBuild, WithoutLease
      <4>2. BuildSound(build[v], FALSE, msgs', comps, epoch)
        BY <2>3, <4>1, InvFacts, MessagesAdded
      <4> QED
        BY <2>6, <3>2, <4>1, <4>2
    <3> QED
      BY <3>1, <3>2
  <2>9. Registers'
    BY <1>1, <1>2, <2>6 DEF Inv, Registers
  <2>10. /\ MessagesSound(msgs', epoch') /\ RowsSound(comps', msgs', epoch')
         /\ CheckpointsSound(ckpts', ckpt', msgs', comps') /\ Accounted(msgs', comps', epoch')
         /\ \A v \in Workers : BuildSound(build'[v], lease' = v, msgs', comps', epoch')
    BY <1>1, <1>2, <2>3, <2>5, <2>7
  <2> QED
    BY <2>9, <2>10 DEF Inv

LEMMA AppendTranscriptStep ==
  ASSUME Inv, Ghosts, NEW w \in Workers, AppendTranscript(w)
  PROVE  Inv'
<1> DEFINE b == build[w]
<1>1. b.pc = "loop" /\ UNCHANGED <<epoch, gen, comps>>
  BY DEF AppendTranscript
<1>2. CASE AppendRefused(w)
  BY <1>1, <1>2, StopStep DEF AppendRefused, tables
<1>3. CASE AppendNew(w)
  BY <1>1, <1>3, AppendNewStep
<1>4. CASE AppendAgain(w)
  <2>1. PICK s \in Taken(Position(w)) : StoredAs(w, s)
    BY <1>4 DEF AppendAgain
  <2> DEFINE nb == [b EXCEPT !.size = b.size + 1, !.conv = <<s>>]
  <2>2. build' = [build EXCEPT ![w] = nb]
    BY <2>1, InvBuild DEF StoredAs, Position, Builds
  <2>3. s \in 1 .. Len(msgs) /\ Grows(msgs, msgs) /\ \A p \in 1 .. Len(comps) : comps[p].source \in Nat
    <3>1. s \in DOMAIN msgs
      BY <2>1 DEF Taken, ActiveMessages
    <3> QED
      BY <3>1, InvFacts DEF Grows
  <2>4. lease = w /\ lease' = lease /\ UNCHANGED tables
    BY <1>1, <1>4 DEF AppendAgain, Fenced, tables
  <2>5. b \in Builds /\ Shape(b, msgs, comps) /\ Within(b, TRUE, msgs, comps)
    BY <2>4, InvBuild
  <2>6. BuildSound(nb, TRUE, msgs, comps, epoch)
    BY <1>1, <2>3, <2>5, AppendedIsSound
  <2> HIDE DEF nb
  <2>7. lease' = w /\ BuildSound(nb, lease' = w, msgs, comps, epoch)
    BY <2>4, <2>6
  <2> QED
    BY <2>2, <2>4, <2>7, BuildMoves
<1> QED
  BY <1>2, <1>3, <1>4 DEF AppendTranscript

\* A rewind adds copies of messages, at least one, and they are of the next epoch.
LEMMA BranchIs ==
  ASSUME Inv, NEW c \in 1 .. Len(ckpts), epoch < MaxEpoch
  PROVE  /\ SeedBranch(c) \in Seq(Message) /\ Len(SeedBranch(c)) > Len(msgs) /\ Grows(msgs, SeedBranch(c))
         /\ \A s \in 1 .. Len(SeedBranch(c)) :
              s > Len(msgs) => /\ SeedBranch(c)[s].epoch = epoch + 1
                               /\ \E t \in Retained(c) : SeedBranch(c)[s].of = msgs[t].of
<1> DEFINE S == Retained(c)
           n == Len(msgs)
           size == Cardinality(S)
           order == InOrder(S)
           seeds == [i \in 1 .. size |-> [msgs[order[i]] EXCEPT !.epoch = epoch + 1, !.own = FALSE]]
<1>1. n \in Nat /\ msgs \in Seq(Message) /\ DOMAIN msgs = 1 .. n
  BY InvFacts
<1>2. S \in SUBSET (1 .. n)
  BY <1>1 DEF Retained
<1>3. ckpts[c].at \in S
  <2>1. ckpts[c].at \in 1 .. n /\ msgs[ckpts[c].at].epoch = ckpts[c].epoch /\ msgs[ckpts[c].at].index <= ckpts[c].index
    BY DEF Inv, CheckpointsSound
  <2>2. ckpts[c].at <= ckpts[c].at
    BY <1>1, <2>1
  <2> QED
    BY <1>1, <2>1, <2>2 DEF Retained
<1> HIDE DEF S
<1>4. order \in Seq(S) /\ Len(order) = size /\ size \in Nat
  BY <1>1, <1>2, InOrderIs
<1>5. size # 0
  <2>1. IsFiniteSet(S)
    <3>1. IsFiniteSet(1 .. n)
      BY <1>1, FS_Interval
    <3> QED
      BY <1>2, <3>1, FS_Subset
  <2> QED
    BY <1>3, <2>1, FS_EmptySet
<1> HIDE DEF size, order
<1>6. ASSUME NEW i \in 1 .. size
      PROVE  seeds[i] \in Message /\ seeds[i].epoch = epoch + 1 /\ \E t \in S : seeds[i].of = msgs[t].of
  <2>1. order[i] \in 1 .. n /\ order[i] \in S
    BY <1>2, <1>4, ElementOfSeq
  <2> DEFINE old == msgs[order[i]]
  <2>2. old \in Message /\ epoch + 1 \in 1 .. MaxEpoch
    BY <1>1, <2>1, InvFacts, ElementOfSeq
  <2>3. seeds[i] = [old EXCEPT !.epoch = epoch + 1, !.own = FALSE]
    OBVIOUS
  <2> HIDE DEF old, seeds
  <2>4. seeds[i] \in Message /\ seeds[i].epoch = epoch + 1 /\ seeds[i].of = old.of
    BY <2>2, <2>3 DEF Message
  <2> QED
    BY <2>1, <2>4 DEF old
<1>7. seeds \in Seq(Message) /\ Len(seeds) = size
  <2>1. seeds = [i \in 1 .. size |-> seeds[i]]
    OBVIOUS
  <2> HIDE DEF seeds
  <2>2. seeds \in [1 .. size -> Message]
    BY <1>6, <2>1
  <2> QED
    BY <1>4, <2>2, SeqDef, LenProperties
<1>8. SeedBranch(c) = msgs \o seeds
  BY DEF SeedBranch, S, size, order
<1> HIDE DEF seeds
<1>9. /\ SeedBranch(c) \in Seq(Message) /\ Len(SeedBranch(c)) = n + size
      /\ \A s \in 1 .. n + size : SeedBranch(c)[s] = IF s <= n THEN msgs[s] ELSE seeds[s - n]
  <2>1. /\ msgs \o seeds \in Seq(Message) /\ Len(msgs \o seeds) = n + size
        /\ \A s \in 1 .. n + size : (msgs \o seeds)[s] = IF s <= n THEN msgs[s] ELSE seeds[s - n]
    BY <1>1, <1>7, ConcatProperties, Zenon
  <2> QED
    BY <1>8, <2>1
<1>10. Grows(msgs, SeedBranch(c))
  BY <1>1, <1>4, <1>9 DEF Grows
<1>11. ASSUME NEW s \in 1 .. n + size, s > n
       PROVE  SeedBranch(c)[s].epoch = epoch + 1 /\ \E t \in S : SeedBranch(c)[s].of = msgs[t].of
  <2>1. s - n \in 1 .. size /\ ~(s <= n)
    BY <1>1, <1>4, <1>11
  <2> QED
    BY <1>6, <1>9, <2>1
<1>12. n + size > n
  BY <1>1, <1>4, <1>5
<1> QED
  BY <1>9, <1>10, <1>11, <1>12 DEF S

\* What giving up the pending compactions leaves of the rows.
LEMMA SupersededIs ==
  ASSUME Inv
  PROVE  /\ Superseded \in Seq(Compaction) /\ Closes(comps, Superseded)
         /\ \A k \in 1 .. Len(comps) :
              /\ Superseded[k].gen = comps[k].gen /\ Superseded[k].source = comps[k].source
              /\ Superseded[k].covers = comps[k].covers
              /\ IsCompleted(Superseded, k) <=> IsCompleted(comps, k)
<1> DEFINE C2 == Superseded
           n == Len(comps)
<1>1. n \in Nat /\ comps \in Seq(Compaction) /\ DOMAIN comps = 1 .. n
  BY InvFacts
<1>2. C2 = [k \in 1 .. n |-> C2[k]]
  BY <1>1 DEF Superseded
<1>3. ASSUME NEW k \in 1 .. n
      PROVE  /\ C2[k] \in Compaction /\ C2[k].gen = comps[k].gen /\ C2[k].source = comps[k].source
             /\ C2[k].covers = comps[k].covers /\ C2[k].kept = comps[k].kept /\ C2[k].status # "pending"
             /\ C2[k].status = "completed" <=> comps[k].status = "completed"
  <2> DEFINE old == comps[k]
  <2>1. old \in Compaction
    BY InvFacts
  <2>2. C2[k] = IF old.status = "pending" THEN [old EXCEPT !.status = "failed", !.error = "superseded"] ELSE old
    BY <1>1 DEF Superseded
  <2> HIDE DEF old, C2
  <2>3. /\ C2[k] \in Compaction /\ C2[k].gen = old.gen /\ C2[k].source = old.source /\ C2[k].covers = old.covers
        /\ C2[k].kept = old.kept /\ C2[k].status # "pending"
        /\ C2[k].status = "completed" <=> old.status = "completed"
    BY <2>1, <2>2 DEF Compaction
  <2> QED
    BY <2>3 DEF old
<1> HIDE DEF C2
<1>4. C2 \in Seq(Compaction) /\ Len(C2) = n
  <2>1. C2 \in [1 .. n -> Compaction]
    BY <1>2, <1>3
  <2> QED
    BY <1>1, <2>1, SeqDef, LenProperties
<1>5. Closes(comps, C2)
  BY <1>3, <1>4 DEF Closes, IsPending, IsCompleted
<1>6. \A k \in 1 .. n : IsCompleted(C2, k) <=> IsCompleted(comps, k)
  BY <1>3, <1>4 DEF IsCompleted
<1> QED
  BY <1>3, <1>4, <1>5, <1>6 DEF C2

LEMMA RewindStep ==
  ASSUME Inv, NEW c \in DOMAIN ckpts, Rewind(c)
  PROVE  Inv'
<1> DEFINE n == Len(msgs)
           E == epoch + 1
<1>1. /\ epoch < MaxEpoch /\ Len(msgs') <= MaxMessages /\ msgs' = SeedBranch(c) /\ comps' = Superseded
      /\ epoch' = E /\ gen' = E /\ ckpt' = c /\ lease' = lease /\ ckpts' = ckpts /\ build' = build
  BY InvFacts DEF Rewind
<1>2. /\ n \in Nat /\ epoch \in Nat /\ E \in Nat /\ epoch <= E /\ c \in 1 .. Len(ckpts) /\ Len(ckpts) \in Nat
      /\ comps \in Seq(Compaction) /\ Len(comps) \in Nat /\ MaxMessages \in Nat
  BY InvFacts
<1>3. /\ msgs' \in Seq(Message) /\ Len(msgs') \in Nat /\ Len(msgs') > n /\ Grows(msgs, msgs')
      /\ \A s \in 1 .. Len(msgs') : s > n => msgs'[s].epoch = E
  BY <1>1, <1>2, BranchIs DEF Grows
<1>4. /\ comps' \in Seq(Compaction) /\ Closes(comps, comps') /\ Len(comps') = Len(comps)
      /\ \A k \in 1 .. Len(comps) :
           /\ comps'[k].gen = comps[k].gen /\ comps'[k].source = comps[k].source
           /\ comps'[k].covers = comps[k].covers
           /\ IsCompleted(comps', k) <=> IsCompleted(comps, k)
  BY <1>1, SupersededIs DEF Closes
<1>5. /\ RowsSound(comps, msgs, epoch) /\ CheckpointsSound(ckpts, ckpt, msgs, comps) /\ MessagesSound(msgs, epoch)
  BY DEF Inv
<1>6. /\ \A k \in 1 .. Len(comps) : comps[k].source <= Len(msgs') /\ comps[k].covers \subseteq Upto(msgs', comps[k].source)
      /\ \A k \in 1 .. Len(comps) : comps[k].gen <= E
      /\ CheckpointsSound(ckpts, ckpt, msgs', comps)
  BY <1>2, <1>3, <1>5, GrowthKeepsTables
<1>7. ASSUME NEW s \in 1 .. n PROVE msgs'[s] = msgs[s] /\ msgs[s].epoch <= epoch /\ msgs[s].epoch \in Nat
  <2>1. msgs[s] \in Message
    BY InvFacts, ElementOfSeq
  <2>2. msgs[s].epoch \in 1 .. MaxEpoch
    BY <2>1 DEF Message
  <2> QED
    BY <1>3, <1>5, <2>2, InvFacts DEF Grows, MessagesSound
<1>8. MessagesSound(msgs', E)
  <2>1. ASSUME NEW s \in 1 .. Len(msgs') PROVE msgs'[s].epoch <= E
    <3>1. CASE s \in 1 .. n
      BY <1>2, <1>7, <3>1
    <3>2. CASE s > n
      BY <1>2, <1>3, <3>2
    <3> QED
      BY <1>2, <3>1, <3>2
  <2>2. msgs'[Len(msgs')].epoch = E /\ Len(msgs') \in 1 .. MaxMessages
    BY <1>1, <1>2, <1>3
  <2> QED
    BY <1>3, <2>1, <2>2 DEF MessagesSound
<1>9. RowsSound(comps', msgs', E)
  <2> SUFFICES ASSUME NEW k \in 1 .. Len(comps')
               PROVE  /\ comps'[k].gen <= E /\ comps'[k].source <= Len(msgs')
                      /\ \A j \in 1 .. k : comps'[j].source <= comps'[k].source
                      /\ IsPending(comps', k) => k = Len(comps') /\ comps'[k].gen = E
                      /\ IsCompleted(comps', k) <=> comps'[k].covers # NoSummary
                      /\ comps'[k].covers \subseteq Upto(msgs', comps'[k].source)
    BY <1>4 DEF RowsSound
  <2>1. k \in 1 .. Len(comps) /\ ~IsPending(comps', k) /\ \A j \in 1 .. k : j \in 1 .. Len(comps)
    BY <1>2, <1>4 DEF Closes
  <2>2. /\ \A j \in 1 .. k : comps[j].source <= comps[k].source
        /\ IsCompleted(comps, k) <=> comps[k].covers # NoSummary
    BY <1>5, <2>1 DEF RowsSound
  <2> QED
    BY <1>4, <1>6, <2>1, <2>2
<1>10. CheckpointsSound(ckpts, c, msgs', comps')
  <2>1. \A p \in 1 .. Len(comps') : ~IsPending(comps', p)
    BY <1>4 DEF Closes
  <2>2. c \in 0 .. Len(ckpts)
    BY <1>2
  <2> QED
    BY <1>6, <2>1, <2>2 DEF CheckpointsSound
<1>11. Accounted(msgs', comps', E)
  <2>1. ASSUME NEW k \in 1 .. Len(comps) PROVE comps'[k].gen # E
    <3>1. comps[k].gen \in Nat /\ comps[k].gen <= epoch
      BY <1>2, <1>5, RowFields DEF RowsSound
    <3> QED
      BY <1>2, <1>4, <3>1
  <2> QED
    BY <1>4, <2>1 DEF Accounted
<1>12. \A s \in Live(msgs', E) : s \in Live(msgs, epoch) \/ s > n
  <2> SUFFICES ASSUME NEW s \in 1 .. Len(msgs'), msgs'[s].epoch = E PROVE s > n
    BY DEF Live
  <2>1. s \notin 1 .. n
    BY <1>2, <1>7
  <2> QED
    BY <1>2, <1>3, <2>1
<1>13. ASSUME NEW v \in Workers PROVE BuildSound(build[v], lease = v, msgs', comps', E)
  <2>1. BuildSound(build[v], FALSE, msgs, comps, epoch)
    BY InvBuild, WithoutLease
  <2>2. BuildSound(build[v], FALSE, msgs', comps, E)
    BY <1>2, <1>3, <1>12, <2>1, InvFacts, MessagesAdded
  <2> QED
    BY <1>4, <2>2, PendingEnded
<1>15. Registers'
  BY <1>1, InvFacts DEF Inv, Registers
<1>16. /\ MessagesSound(msgs', epoch') /\ RowsSound(comps', msgs', epoch')
       /\ CheckpointsSound(ckpts', ckpt', msgs', comps') /\ Accounted(msgs', comps', epoch')
       /\ \A v \in Workers : BuildSound(build'[v], lease' = v, msgs', comps', epoch')
  BY <1>1, <1>8, <1>9, <1>10, <1>11, <1>13
<1> QED
  BY <1>15, <1>16 DEF Inv

-----------------------------------------------------------------------------
(******************************* The theorems ******************************)

LEMMA SessionNext ==
  ASSUME Inv, Ghosts, [Next]_vars
  PROVE  Inv'
<1>1. ASSUME NEW w \in Workers,
             \/ Start(w) \/ ReadLatest(w) \/ ReadPending(w) \/ RequestIfNeeded(w) \/ Load(w) \/ Assemble(w)
             \/ Finish(w) \/ RecordFailure(w) \/ AppendTranscript(w) \/ EndAttempt(w)
      PROVE  Inv'
  BY <1>1, StartStep, ReadLatestStep, ReadPendingStep, RequestIfNeededStep, LoadStep, AssembleStep, FinishStep,
     RecordFailureStep, AppendTranscriptStep, EndAttemptStep
<1>2. CASE UNCHANGED vars
  BY <1>2 DEF vars, Inv, Registers
<1> QED
  BY <1>1, <1>2, RequestCompactionStep, RewindStep, LoseLeaseStep DEF Next

LEMMA GhostsNext ==
  ASSUME Inv, Ghosts, [Next]_vars
  PROVE  Ghosts'
<1>1. attempt \in Nat /\ MaxAttempts \in Nat /\ Len(msgs) \in Nat /\ MaxMessages \in Nat
  BY InvFacts, SessionContextAssumption DEF Ghosts
<1>2. attempt' \in 0 .. MaxAttempts
  <2>1. attempt' = attempt \/ (attempt < MaxAttempts /\ attempt' = attempt + 1)
    BY DEF Next, vars, Start, ReadLatest, ReadPending, RequestIfNeeded, Load, Assemble, Finish, RecordFailure,
           AppendTranscript, EndAttempt, RequestCompaction, Rewind, LoseLease
  <2> QED
    BY <1>1, <2>1 DEF Ghosts
<1>3. past' \subseteq Texts
  <2>1. ASSUME NEW w \in Workers, AppendTranscript(w) PROVE past' = past \/ \E t \in Texts : past' = past \union {t}
    <3>1. CASE AppendNew(w)
      <4>1. Len(msgs) + 1 \in Texts /\ past' = past \union {Len(msgs) + 1}
        BY <1>1, <3>1 DEF AppendNew, Texts
      <4> QED
        BY <4>1
    <3> QED
      BY <2>1, <3>1 DEF AppendTranscript, AppendAgain, AppendRefused
  <2>2. ASSUME NEW c \in DOMAIN ckpts, Rewind(c) PROVE past' \subseteq Texts
    <3>1. ckpts[c] \in Checkpoint /\ past' = ckpts[c].past
      BY <2>2, InvFacts, ElementOfSeq DEF Rewind
    <3> QED
      BY <3>1 DEF Checkpoint
  <2>3. \/ past' = past \/ \E w \in Workers : AppendTranscript(w)
        \/ \E c \in DOMAIN ckpts : Rewind(c)
    BY DEF Next, vars, Start, ReadLatest, ReadPending, RequestIfNeeded, Load, Assemble, Finish, RecordFailure,
           EndAttempt, RequestCompaction, LoseLease
  <2> QED
    BY <2>1, <2>2, <2>3 DEF Ghosts
<1>4. astray' \in BOOLEAN
  <2>1. ASSUME NEW w \in Workers, Finish(w) PROVE astray' = astray \/ astray' = (astray \/ build[w].epoch # epoch)
    BY <2>1 DEF Finish
  <2>2. astray' = astray \/ \E w \in Workers : Finish(w)
    BY DEF Next, vars, Start, ReadLatest, ReadPending, RequestIfNeeded, Load, Assemble, RecordFailure,
           AppendTranscript, EndAttempt, RequestCompaction, Rewind, LoseLease
  <2> QED
    BY <2>1, <2>2 DEF Ghosts
<1> QED
  BY <1>2, <1>3, <1>4 DEF Ghosts

\* The parts of CompactionsAreSound that are about a state follow from the invariant.
LEMMA InvImplies == Inv /\ Ghosts => TypeOK /\ OnePendingCompaction /\ SummaryWithinWatermark /\ HistoryHasNoGap
<1> SUFFICES ASSUME Inv, Ghosts PROVE TypeOK /\ OnePendingCompaction /\ SummaryWithinWatermark /\ HistoryHasNoGap
  OBVIOUS
<1>1. TypeOK
  <2>1. epoch \in 1 .. MaxEpoch /\ gen \in 1 .. MaxEpoch /\ lease \in Workers \union {NoWorker}
    BY InvFacts
  <2>2. \A s \in DOMAIN msgs : msgs[s] \in Message
    BY InvFacts, ElementOfSeq
  <2>3. ASSUME NEW k \in DOMAIN comps
        PROVE  comps[k] \in Compaction /\ (comps[k].status = "completed") = (comps[k].covers # NoSummary)
    BY InvFacts DEF Inv, RowsSound, IsCompleted
  <2>4. \A c \in DOMAIN ckpts : ckpts[c] \in Checkpoint
    BY InvFacts, ElementOfSeq
  <2>5. ASSUME NEW w \in Workers
        PROVE  /\ build[w].latest \in 0 .. Len(msgs) /\ build[w].pending \in 0 .. Len(comps)
               /\ ToSet(build[w].conv) \subseteq DOMAIN msgs
               /\ {build[w].recovered, build[w].summary, build[w].made} \subseteq Summaries
    <3>1. /\ build[w].latest \in Nat /\ build[w].latest <= Len(msgs) /\ build[w].pending \in Nat
          /\ build[w].pending <= Len(comps) /\ build[w].summary \in Summaries /\ build[w].made \in Summaries
          /\ build[w].recovered \in Summaries
          /\ build[w].conv \in Seq(1 .. Len(msgs))
      BY InvBuild, BuildFields DEF Shape
    <3>2. ToSet(build[w].conv) \subseteq 1 .. Len(msgs)
      BY <3>1, LenProperties, ElementOfSeq DEF ToSet
    <3> QED
      BY <3>1, <3>2, InvFacts
  <2>6. ckpt \in 0 .. Len(ckpts)
    BY InvFacts
  <2> QED
    BY <2>1, <2>2, <2>3, <2>4, <2>5, <2>6 DEF TypeOK, Ghosts
<1>2. OnePendingCompaction
  <2> SUFFICES ASSUME NEW j \in DOMAIN comps, NEW k \in DOMAIN comps,
                      comps[j].status = "pending", comps[k].status = "pending"
               PROVE  j = k /\ comps[j].gen = gen
    BY DEF OnePendingCompaction
  <2>1. IsPending(comps, j) /\ IsPending(comps, k) /\ gen = epoch
    BY InvFacts DEF IsPending
  <2>2. \A i \in 1 .. Len(comps) : IsPending(comps, i) => i = Len(comps) /\ comps[i].gen = epoch
    BY DEF Inv, RowsSound
  <2>3. j \in 1 .. Len(comps) /\ k \in 1 .. Len(comps)
    BY InvFacts
  <2> QED
    BY <2>1, <2>2, <2>3
<1>3. SummaryWithinWatermark
  <2> SUFFICES ASSUME NEW k \in 1 .. Len(comps), comps[k].status = "completed", NEW text \in comps[k].covers
               PROVE  text \in TextOf({s \in DOMAIN msgs : s <= comps[k].source})
    BY InvFacts DEF SummaryWithinWatermark
  <2>1. comps[k].covers # NoSummary /\ comps[k].covers \subseteq Upto(msgs, comps[k].source)
    BY DEF Inv, RowsSound, IsCompleted
  <2>2. comps[k].covers \in Summaries
    BY InvFacts DEF Compaction
  <2>3. text # 0
    BY <2>1, <2>2 DEF Summaries, Texts
  <2> QED
    BY <2>1, <2>3, InvFacts DEF Upto, TextOf
<1>4. HistoryHasNoGap
  <2> SUFFICES ASSUME NEW k \in 1 .. Len(comps), comps[k].status = "completed", comps[k].gen = gen,
                      NEW s \in ActiveMessages, s <= comps[k].source
               PROVE  \/ msgs[s].of \in comps[k].covers \union comps[k].kept
                      \/ \E j \in 1 .. k - 1 : comps[j].status = "completed" /\ msgs[s].of \in comps[j].kept
    BY InvFacts DEF HistoryHasNoGap
  <2>1. s \in Live(msgs, epoch) /\ comps[k].gen = epoch /\ IsCompleted(comps, k)
    BY InvFacts DEF ActiveMessages, Live, IsCompleted
  <2> QED
    BY <2>1 DEF Inv, Accounted, IsCompleted
<1> QED
  BY <1>1, <1>2, <1>3, <1>4

\* Every action leaves the rows, adds one, ends the pending one or gives it up.
LEMMA RowsMove ==
  ASSUME Inv, Next
  PROVE  \/ UNCHANGED comps
         \/ \E key, source : comps' = Requested(key, source)
         \/ \E k, status, error, covers, kept : CanEnd(k) /\ comps' = Ended(k, status, error, covers, kept)
         \/ comps' = Superseded
<1>1. ASSUME NEW w \in Workers, Finish(w) \/ RecordFailure(w)
      PROVE  \/ UNCHANGED comps
             \/ \E k, status, error, covers, kept : CanEnd(k) /\ comps' = Ended(k, status, error, covers, kept)
  <2>1. CASE Finish(w)
    BY <2>1 DEF Finish
  <2>2. CASE RecordFailure(w)
    BY <2>2 DEF RecordFailure
  <2> QED
    BY <1>1, <2>1, <2>2
<1>2. ASSUME NEW w \in Workers, RequestIfNeeded(w)
      PROVE  UNCHANGED comps \/ \E key, source : comps' = Requested(key, source)
  BY <1>2 DEF RequestIfNeeded
<1>3. ASSUME NEW w \in Workers,
             \/ Start(w) \/ ReadLatest(w) \/ ReadPending(w) \/ Load(w) \/ Assemble(w)
             \/ AppendTranscript(w) \/ EndAttempt(w) \/ LoseLease
      PROVE  UNCHANGED comps
  BY <1>3 DEF Start, ReadLatest, ReadPending, Load, Assemble, AppendTranscript, EndAttempt, LoseLease
<1>4. ASSUME NEW key \in Keys, RequestCompaction(key) PROVE \E k, source : comps' = Requested(k, source)
  BY <1>4 DEF RequestCompaction
<1>5. ASSUME NEW c \in DOMAIN ckpts, Rewind(c) PROVE comps' = Superseded
  BY <1>5 DEF Rewind
<1>6. CASE LoseLease
  BY <1>6 DEF LoseLease
<1> QED
  BY <1>1, <1>2, <1>3, <1>4, <1>5, <1>6 DEF Next

LEMMA OutcomesStay ==
  ASSUME Inv, Next
  PROVE  OutcomesAreFinal /\ WatermarksGrow
<1>1. comps \in Seq(Compaction) /\ Len(comps) \in Nat /\ DOMAIN comps = 1 .. Len(comps)
  BY InvFacts
<1>2. ASSUME NEW k \in DOMAIN comps, comps[k].status # "pending" PROVE comps'[k] = comps[k]
  <2>1. CASE UNCHANGED comps
    BY <2>1
  <2>2. ASSUME NEW key, NEW source, comps' = Requested(key, source) PROVE comps'[k] = comps[k]
    BY <1>1, <2>2 DEF Requested
  <2>3. ASSUME NEW j, NEW status, NEW error, NEW covers, NEW kept,
               CanEnd(j), comps' = Ended(j, status, error, covers, kept)
        PROVE  comps'[k] = comps[k]
    BY <1>2, <2>3 DEF CanEnd, Ended
  <2>4. CASE comps' = Superseded
    BY <1>2, <2>4 DEF Superseded
  <2> QED
    BY <2>1, <2>2, <2>3, <2>4, RowsMove
<1>3. OutcomesAreFinal
  BY <1>2 DEF OutcomesAreFinal
<1>4. WatermarksGrow
  <2> SUFFICES ASSUME NEW j \in DOMAIN comps, NEW k \in DOMAIN comps, comps[j].status = "completed",
                      comps[k].status # "completed", comps'[k].status = "completed"
               PROVE  comps[k].source >= comps[j].source
    BY DEF WatermarksGrow
  <2>1. IsPending(comps, k)
    BY <1>1, <1>2 DEF IsPending
  <2>2. k = Len(comps) /\ \A i \in 1 .. k : comps[i].source <= comps[k].source
    BY <1>1, <2>1 DEF Inv, RowsSound
  <2>3. comps[j].source <= comps[k].source /\ comps[j].source \in Nat /\ comps[k].source \in Nat
    BY <1>1, <2>2, InvFacts
  <2> QED
    BY <2>3
<1> QED
  BY <1>3, <1>4

\* The invariant the theorems rest on: what the tables and every build say fits together.
THEOREM SessionInvariant == Spec => [](Inv /\ Ghosts)
<1>1. Init => Ghosts
  <2>1. 1 \in Texts /\ 0 \in 0 .. MaxAttempts
    BY SessionContextAssumption DEF Texts
  <2> QED
    BY <2>1 DEF Init, Ghosts
<1>2. Inv /\ Ghosts /\ [Next]_vars => Inv' /\ Ghosts'
  BY SessionNext, GhostsNext
<1> QED
  BY <1>1, <1>2, SessionInit, PTL DEF Spec

-----------------------------------------------------------------------------
(*************************** The abandoned future **************************)

\* The texts of the branch are those of the past, also as they were when a checkpoint was made.
BranchIsPast(M, E, K, P) ==
  /\ \A s \in Live(M, E) : M[s].of \in P
  /\ \A c \in 1 .. Len(K) : \A s \in Live(M, K[c].epoch) : s <= K[c].at => M[s].of \in K[c].past

\* Nothing in b is of an abandoned future, if it is of the present epoch.
BuildIsPast(b, M, E, P) ==
  b.epoch = E => /\ \A i \in 1 .. Len(b.conv) : M[b.conv[i]].of \in P
                 /\ b.recovered \union b.summary \union b.made \subseteq P \union {0}
SummariesArePast(C, E, P) == \A k \in 1 .. Len(C) : IsCompleted(C, k) /\ C[k].gen = E => C[k].covers \subseteq P \union {0}
CheckpointsArePast(K, c, P) ==
  /\ \A k \in 1 .. Len(K) : K[k].summary \subseteq K[k].past \union {0}
  /\ c # 0 => K[c].summary \subseteq P \union {0}

Past ==
  /\ BranchIsPast(msgs, epoch, ckpts, past)
  /\ \A w \in Workers : build[w].epoch <= epoch
  /\ astray \/ /\ SummariesArePast(comps, epoch, past) /\ CheckpointsArePast(ckpts, ckpt, past)
               /\ \A w \in Workers : BuildIsPast(build[w], msgs, epoch, past)

LEMMA PastInit == Init => Past
<1> SUFFICES ASSUME Init PROVE Past
  OBVIOUS
<1>1. /\ msgs = <<[epoch |-> 1, of |-> 1, index |-> 0, own |-> FALSE, role |-> "user"]>> /\ past = {1}
      /\ comps = <<>> /\ ckpts = <<>> /\ ckpt = 0 /\ epoch = 1 /\ \A w \in Workers : build[w] = Idle
  BY DEF Init
<1>2. BranchIsPast(msgs, epoch, ckpts, past)
  BY <1>1 DEF BranchIsPast, Live
<1>3. SummariesArePast(comps, epoch, past) /\ CheckpointsArePast(ckpts, ckpt, past)
  BY <1>1 DEF SummariesArePast, CheckpointsArePast
<1>4. Idle.epoch = 0
  BY DEF Idle
<1> QED
  BY <1>1, <1>2, <1>3, <1>4 DEF Past, BuildIsPast

\* One worker's build moves, and the branch with its past stays.
LEMMA PastBuildMoves ==
  ASSUME Inv, Past, NEW w \in Workers, NEW nb, build' = [build EXCEPT ![w] = nb],
         UNCHANGED <<epoch, msgs, comps, ckpts, ckpt, past, astray>>,
         nb.epoch <= epoch, astray \/ BuildIsPast(nb, msgs, epoch, past)
  PROVE  Past'
<1>1. build'[w] = nb /\ \A v \in Workers : v # w => build'[v] = build[v]
  BY InvBuild
<1>2. \A v \in Workers : build'[v].epoch <= epoch
  BY <1>1 DEF Past
<1>3. astray \/ \A v \in Workers : BuildIsPast(build'[v], msgs, epoch, past)
  BY <1>1 DEF Past
<1> QED
  BY <1>2, <1>3 DEF Past

\* The fields that Past is about, of a build that keeps its epoch.
LEMMA IdlePast ==
  ASSUME Inv, NEW w \in Workers
  PROVE  Idle.epoch <= epoch /\ BuildIsPast(Idle, msgs, epoch, past) /\ Stopped(w) = [build EXCEPT ![w] = Idle]
<1>1. Idle.epoch = 0 /\ epoch \in Nat /\ epoch >= 1
  BY InvFacts DEF Idle
<1> QED
  BY <1>1 DEF BuildIsPast, Stopped

LEMMA PastStart ==
  ASSUME Inv, Past, NEW w \in Workers, Start(w)
  PROVE  Past'
<1> DEFINE S == IF ckpt = 0 THEN NoSummary ELSE ckpts[ckpt].summary
           nb == [Idle EXCEPT !.pc = "latest", !.epoch = epoch, !.recovered = S]
<1>1. build' = [build EXCEPT ![w] = nb] /\ UNCHANGED <<epoch, msgs, comps, ckpts, ckpt, past, astray>>
  BY DEF Start
<1>2. astray \/ S \subseteq past \union {0}
  BY DEF Past, CheckpointsArePast, NoSummary
<1>3. nb.epoch = epoch /\ nb.conv = <<>> /\ nb.recovered = S /\ nb.summary = {0} /\ nb.made = {0}
  BY DEF Idle, NoSummary
<1> HIDE DEF nb, S
<1>4. astray \/ BuildIsPast(nb, msgs, epoch, past)
  BY <1>2, <1>3 DEF BuildIsPast
<1>5. nb.epoch <= epoch
  BY <1>3, InvFacts
<1> QED
  BY <1>1, <1>4, <1>5, PastBuildMoves

LEMMA PastReadLatest ==
  ASSUME Inv, Past, NEW w \in Workers, ReadLatest(w)
  PROVE  Past'
<1>0. PICK k \in LatestCompleted :
        build' = [build EXCEPT ![w].pc = "pending", ![w].latest = IF k = 0 THEN 0 ELSE comps[k].source,
                               ![w].summary = IF k = 0 THEN build[w].recovered ELSE comps[k].covers]
  BY DEF ReadLatest
<1> DEFINE b == build[w]
           L == IF k = 0 THEN 0 ELSE comps[k].source
           S == IF k = 0 THEN b.recovered ELSE comps[k].covers
           nb == [b EXCEPT !.pc = "pending", !.latest = L, !.summary = S]
<1>1. b \in Builds /\ UNCHANGED <<epoch, msgs, comps, ckpts, ckpt, past, astray>>
  BY InvBuild DEF ReadLatest
<1>2. astray \/ b.epoch # epoch \/ S \subseteq past \union {0}
  <2>1. k # 0 => IsCompleted(comps, k) /\ comps[k].gen = epoch /\ k \in 1 .. Len(comps)
    BY LatestIs, InvFacts
  <2> QED
    BY <2>1 DEF Past, SummariesArePast, BuildIsPast
<1>3. build' = [build EXCEPT ![w] = nb]
  <2>1. build' = [build EXCEPT ![w].pc = "pending", ![w].latest = L, ![w].summary = S]
    BY <1>0
  <2> HIDE DEF L, S
  <2> QED
    BY <1>1, <2>1, InvBuild DEF Builds
<1> HIDE DEF L, S
<1>4. nb.epoch = b.epoch /\ nb.conv = b.conv /\ nb.recovered = b.recovered /\ nb.summary = S /\ nb.made = b.made
  BY <1>1 DEF Builds
<1> HIDE DEF nb
<1>5. astray \/ BuildIsPast(nb, msgs, epoch, past)
  BY <1>2, <1>4 DEF BuildIsPast, Past
<1>6. nb.epoch <= epoch
  BY <1>4 DEF Past
<1> QED
  BY <1>1, <1>3, <1>5, <1>6, PastBuildMoves

\* A build goes on to load, and a row may have been requested.
LEMMA PastRequests ==
  ASSUME Inv, Past, UNCHANGED <<epoch, msgs, ckpts, ckpt, past, astray>>,
         comps' = comps \/ \E key, source : comps' = Requested(key, source),
         \A v \in Workers : /\ build'[v].epoch = build[v].epoch /\ build'[v].conv = build[v].conv
                            /\ build'[v].recovered = build[v].recovered /\ build'[v].summary = build[v].summary
                            /\ build'[v].made = build[v].made
  PROVE  Past'
<1>1. ASSUME NEW k \in 1 .. Len(comps'), IsCompleted(comps', k) PROVE k \in 1 .. Len(comps) /\ comps'[k] = comps[k]
  <2>1. CASE comps' = comps
    BY <2>1
  <2>2. ASSUME NEW key, NEW source, comps' = Requested(key, source) PROVE k \in 1 .. Len(comps) /\ comps'[k] = comps[k]
    <3> DEFINE row == [gen |-> gen, key |-> key, status |-> "pending", error |-> "none", source |-> source,
                       covers |-> NoSummary, kept |-> {}]
    <3>1. comps' = Append(comps, row) /\ row.status = "pending"
      BY <2>2 DEF Requested
    <3> HIDE DEF row
    <3>2. /\ Len(comps') = Len(comps) + 1 /\ comps'[Len(comps) + 1] = row /\ Len(comps) \in Nat
          /\ \A j \in 1 .. Len(comps) : comps'[j] = comps[j]
      <4> DEFINE Rows == Compaction \union {row}
      <4>1. comps \in Seq(Rows) /\ row \in Rows /\ Len(comps) \in Nat
        <5>1. Compaction \subseteq Rows /\ comps \in Seq(Compaction) /\ Len(comps) \in Nat
          BY InvFacts
        <5> QED
          BY <5>1, SeqMonotonic
      <4> HIDE DEF Rows
      <4> QED
        BY <3>1, <4>1, AppendProperties
    <3>3. k # Len(comps) + 1
      BY <1>1, <3>1, <3>2 DEF IsCompleted
    <3> QED
      BY <3>2, <3>3
  <2> QED
    BY <2>1, <2>2
<1>2. astray \/ SummariesArePast(comps', epoch, past)
  BY <1>1 DEF Past, SummariesArePast, IsCompleted
<1>3. astray \/ \A v \in Workers : BuildIsPast(build'[v], msgs, epoch, past)
  BY DEF Past, BuildIsPast
<1>4. \A v \in Workers : build'[v].epoch <= epoch
  BY DEF Past
<1> QED
  BY <1>2, <1>3, <1>4 DEF Past

LEMMA PastReadsPending ==
  ASSUME Inv, Past, NEW w \in Workers, ReadPending(w) \/ RequestIfNeeded(w)
  PROVE  Past'
<1>1. UNCHANGED <<epoch, msgs, ckpts, ckpt, past, astray>>
  BY DEF ReadPending, RequestIfNeeded
<1>2. PICK pc, p : build' = [build EXCEPT ![w].pc = pc, ![w].pending = p]
  BY DEF ReadPending, RequestIfNeeded
<1>3. comps' = comps \/ \E key, source : comps' = Requested(key, source)
  BY DEF ReadPending, RequestIfNeeded
<1>4. ASSUME NEW v \in Workers
      PROVE  /\ build'[v].epoch = build[v].epoch /\ build'[v].conv = build[v].conv
             /\ build'[v].recovered = build[v].recovered /\ build'[v].summary = build[v].summary
             /\ build'[v].made = build[v].made
  BY <1>2, InvBuild DEF Builds
<1> QED
  BY <1>1, <1>3, <1>4, PastRequests

LEMMA PastRequestCompaction ==
  ASSUME Inv, Past, NEW key \in Keys, RequestCompaction(key)
  PROVE  Past'
<1>1. UNCHANGED <<epoch, msgs, ckpts, ckpt, past, astray>> /\ build' = build
  BY DEF RequestCompaction
<1>2. \E k, source : comps' = Requested(k, source)
  BY DEF RequestCompaction
<1> QED
  BY <1>1, <1>2, PastRequests

\* What a load finds is of the branch.
LEMMA PastLoad ==
  ASSUME Inv, Past, NEW w \in Workers, Load(w)
  PROVE  Past'
<1> DEFINE b == build[w]
           found == ListMessages(b.latest, Through(w))
           conv == InOrder(found)
           nb == [b EXCEPT !.pc = "assemble", !.conv = conv]
<1>1. b \in Builds /\ UNCHANGED <<epoch, msgs, comps, ckpts, ckpt, past, astray>>
  BY InvBuild DEF Load
<1>2. CASE build' = Stopped(w)
  BY <1>1, <1>2, IdlePast, PastBuildMoves
<1>3. CASE build' = [build EXCEPT ![w].pc = "assemble", ![w].conv = conv]
  <2>1. found \in SUBSET (1 .. Len(msgs)) /\ found \subseteq Live(msgs, epoch) /\ Len(msgs) \in Nat
    BY InvFacts DEF ListMessages, ActiveMessages, Live
  <2>2. conv \in Seq(found)
    BY <2>1, InOrderIs
  <2>3. \A i \in 1 .. Len(conv) : conv[i] \in Live(msgs, epoch)
    BY <2>1, <2>2, ElementOfSeq
  <2> HIDE DEF conv
  <2>4. build' = [build EXCEPT ![w] = nb]
    BY <1>1, <1>3, InvBuild DEF Builds
  <2>5. nb.epoch = b.epoch /\ nb.conv = conv /\ nb.recovered = b.recovered /\ nb.summary = b.summary /\ nb.made = b.made
    BY <1>1 DEF Builds
  <2> HIDE DEF nb
  <2>6. \A i \in 1 .. Len(conv) : msgs[conv[i]].of \in past
    BY <2>3 DEF Past, BranchIsPast
  <2>7. astray \/ BuildIsPast(nb, msgs, epoch, past)
    BY <2>5, <2>6 DEF BuildIsPast, Past
  <2>8. nb.epoch <= epoch
    BY <2>5 DEF Past
  <2> QED
    BY <1>1, <2>4, <2>7, <2>8, PastBuildMoves
<1> QED
  BY <1>2, <1>3 DEF Load

\* What is kept and what is made of the rest are of what was loaded.
LEMMA PastAssemble ==
  ASSUME Inv, Past, NEW w \in Workers, Assemble(w)
  PROVE  Past'
<1> DEFINE b == build[w]
           b0 == [b EXCEPT !.latest = 0]
           crit == Critical(b.conv)
<1>1. b \in Builds /\ Shape(b, msgs, comps) /\ UNCHANGED <<epoch, msgs, comps, ckpts, ckpt, past, astray>>
  BY InvBuild DEF Assemble
<1>2. /\ b0 \in Builds /\ b0.conv = b.conv /\ b0.summary = b.summary /\ b0.pending = b.pending /\ b0.made = b.made
      /\ b0.epoch = b.epoch /\ b0.recovered = b.recovered
  BY <1>1 DEF Builds
<1>3. PICK nb : /\ build' = [build EXCEPT ![w] = nb]
                /\ \/ nb = [b0 EXCEPT !.pc = "fail"]
                   \/ \E made \in {Noncritical(b0), NoSummary} : nb = [Assembled(b0, crit) EXCEPT !.made = made]
                   \/ b.pending = 0 /\ nb = Assembled(b0, b.conv)
  <2>1. b.pending = b0.pending /\ b0.conv = b.conv
    BY <1>2
  <2> QED
    BY <2>1 DEF Assemble, Compressed, FitSummary
<1>4. /\ nb.epoch = b.epoch /\ nb.recovered = b.recovered /\ nb.summary = b.summary
      /\ nb.conv \in {b.conv, crit} /\ nb.made \in {b.made, Noncritical(b0), NoSummary}
  BY <1>2, <1>3 DEF Builds, Assembled
<1>5. b.conv \in Seq(1 .. Len(msgs)) /\ DOMAIN b.conv = 1 .. Len(b.conv) /\ Len(msgs) \in Nat
  BY <1>1, InvFacts, LenProperties DEF Shape
<1>6. /\ crit \in Seq(1 .. Len(msgs)) /\ ToSet(crit) \subseteq ToSet(b.conv) /\ DOMAIN crit = 1 .. Len(crit)
  BY <1>5, CriticalIs, LenProperties
<1>7. astray \/ b.epoch # epoch \/ BuildIsPast(nb, msgs, epoch, past)
  <2> SUFFICES ASSUME ~astray, b.epoch = epoch PROVE BuildIsPast(nb, msgs, epoch, past)
    OBVIOUS
  <2>1. /\ \A i \in 1 .. Len(b.conv) : msgs[b.conv[i]].of \in past
        /\ b.recovered \union b.summary \union b.made \subseteq past \union {0}
    BY DEF Past, BuildIsPast
  <2>2. \A s \in ToSet(b.conv) : msgs[s].of \in past
    BY <1>5, <2>1 DEF ToSet
  <2>3. \A i \in 1 .. Len(crit) : crit[i] \in ToSet(b.conv)
    BY <1>6 DEF ToSet
  <2>4. Noncritical(b0) \subseteq past \union {0}
    <3>1. TextOf(ToSet(b.conv) \ ToSet(crit)) \subseteq past
      BY <2>2 DEF TextOf
    <3> QED
      BY <1>2, <2>1, <3>1 DEF Noncritical, KnownFrom
  <2>5. nb.made \subseteq past \union {0}
    BY <1>4, <2>1, <2>4 DEF NoSummary
  <2>6. \A i \in 1 .. Len(nb.conv) : msgs[nb.conv[i]].of \in past
    BY <1>4, <2>1, <2>2, <2>3
  <2> QED
    BY <1>4, <2>1, <2>5, <2>6 DEF BuildIsPast
<1>8. nb.epoch <= epoch /\ (b.epoch # epoch => BuildIsPast(nb, msgs, epoch, past))
  BY <1>4 DEF Past, BuildIsPast
<1> QED
  BY <1>1, <1>3, <1>7, <1>8, PastBuildMoves

LEMMA LastOfIs ==
  ASSUME NEW n \in Nat, NEW conv \in Seq(1 .. n)
  PROVE  \A i \in 1 .. Len(LastOf(conv)) : \E j \in 1 .. Len(conv) : LastOf(conv)[i] = conv[j]
<1> DEFINE m == Len(conv)
           top == Max({1, m})
<1>1. m \in Nat /\ m \in Int /\ 1 \in Int
  BY LenProperties
<1>2. top \in {1, m} /\ top >= 1
  BY <1>1, MaxOfTwo
<1>3. LastOf(conv) = SubSeq(conv, top, m)
  BY DEF LastOf
<1> HIDE DEF top, m
<1>4. \A i \in top .. m : conv[i] \in ToSet(conv)
  BY <1>1, <1>2, LenProperties DEF ToSet, m
<1>5. SubSeq(conv, top, m) \in Seq(ToSet(conv))
  <2>1. top \in Int
    BY <1>1, <1>2
  <2> QED
    BY <1>1, <1>4, <2>1, SubSeqProperties DEF m
<1>6. \A i \in 1 .. Len(LastOf(conv)) : LastOf(conv)[i] \in ToSet(conv)
  BY <1>3, <1>5, ElementOfSeq
<1> QED
  BY <1>6, LenProperties DEF ToSet

\* The build goes on to the loop, with what it was told.
LEMMA PastBuilt ==
  ASSUME Inv, Past, NEW w \in Workers
  PROVE  \E nb : /\ Built(w) = [build EXCEPT ![w] = nb] /\ nb.epoch = build[w].epoch
                 /\ astray \/ BuildIsPast(nb, msgs, epoch, past)
<1> DEFINE b == build[w]
           use == InUse(w)
           conv == LastOf(b.conv)
           nb == [b EXCEPT !.pc = "loop", !.pending = 0, !.made = NoSummary, !.summary = use, !.recovered = NoSummary,
                           !.conv = conv]
<1>1. b \in Builds /\ b.conv \in Seq(1 .. Len(msgs)) /\ Len(msgs) \in Nat
  BY InvBuild, InvFacts DEF Shape
<1>2. Built(w) = [build EXCEPT ![w] = nb]
  BY InvBuild DEF Built, Builds
<1>3. use = b.made \/ use = b.recovered
  BY DEF InUse
<1>4. \A i \in 1 .. Len(conv) : \E j \in 1 .. Len(b.conv) : conv[i] = b.conv[j]
  BY <1>1, LastOfIs
<1> HIDE DEF use, conv
<1>5. nb.epoch = b.epoch /\ nb.conv = conv /\ nb.recovered = {0} /\ nb.summary = use /\ nb.made = {0}
  BY <1>1 DEF Builds, NoSummary
<1> HIDE DEF nb
<1>6. astray \/ BuildIsPast(nb, msgs, epoch, past)
  <2> SUFFICES ASSUME ~astray, b.epoch = epoch PROVE BuildIsPast(nb, msgs, epoch, past)
    BY <1>5 DEF BuildIsPast
  <2>1. /\ \A i \in 1 .. Len(b.conv) : msgs[b.conv[i]].of \in past
        /\ b.recovered \union b.summary \union b.made \subseteq past \union {0}
    BY DEF Past, BuildIsPast
  <2>2. \A i \in 1 .. Len(conv) : msgs[conv[i]].of \in past
    BY <1>4, <2>1
  <2>3. use \subseteq past \union {0}
    BY <1>3, <2>1
  <2> QED
    BY <1>5, <2>2, <2>3 DEF BuildIsPast
<1> QED
  BY <1>2, <1>5, <1>6

\* A row ends as r, which is not completed, or of the past.
LEMMA PastRowEnds ==
  ASSUME Inv, Past, NEW k \in 1 .. Len(comps), NEW r, comps' = [comps EXCEPT ![k] = r], UNCHANGED <<epoch, past>>,
         ~astray, r.status # "completed" \/ r.covers \subseteq past \union {0}
  PROVE  SummariesArePast(comps', epoch, past)
<1>1. Len(comps') = Len(comps) /\ comps'[k] = r /\ \A j \in 1 .. Len(comps) : j # k => comps'[j] = comps[j]
  BY InvFacts, LenProperties
<1>2. \A j \in 1 .. Len(comps) : j # k /\ IsCompleted(comps', j) => IsCompleted(comps, j)
  BY <1>1 DEF IsCompleted
<1> QED
  BY <1>1, <1>2 DEF Past, SummariesArePast, IsCompleted

LEMMA PastFinish ==
  ASSUME Inv, Past, Ghosts, NEW w \in Workers, Finish(w)
  PROVE  Past'
<1> DEFINE b == build[w]
           k == b.pending
           error == Error(b.made)
           status == IF error = "none" THEN "completed" ELSE "failed"
           kept == TextOf(ToSet(b.conv))
<1>1. b \in Builds /\ Shape(b, msgs, comps) /\ UNCHANGED <<epoch, msgs, ckpts, ckpt, past>> /\ b.epoch <= epoch
  BY InvBuild DEF Finish, Past
<1>2. PICK nb : /\ Built(w) = [build EXCEPT ![w] = nb] /\ nb.epoch = b.epoch
                /\ astray \/ BuildIsPast(nb, msgs, epoch, past)
  BY PastBuilt
<1>3. CASE build' = Built(w) /\ UNCHANGED <<comps, astray>>
  BY <1>1, <1>2, <1>3, PastBuildMoves
<1>4. CASE build' = Stopped(w) /\ UNCHANGED <<comps, astray>>
  BY <1>1, <1>4, IdlePast, PastBuildMoves
<1>5. CASE k # 0 /\ comps' = Ended(k, status, error, b.made, kept) /\ build' = Built(w)
           /\ astray' = (astray \/ b.epoch # epoch)
  <2>1. k \in 1 .. Len(comps)
    BY <1>1, <1>5, BuildFields, InvFacts DEF Shape
  <2>2. build'[w] = nb /\ \A v \in Workers : v # w => build'[v] = build[v]
    BY <1>2, <1>5, InvBuild
  <2>3. \A v \in Workers : build'[v].epoch <= epoch
    BY <1>1, <1>2, <2>2 DEF Past
  <2>4. ASSUME ~astray, b.epoch = epoch
        PROVE  SummariesArePast(comps', epoch, past) /\ CheckpointsArePast(ckpts, ckpt, past)
               /\ \A v \in Workers : BuildIsPast(build'[v], msgs, epoch, past)
    <3> HIDE DEF kept, error, status
    <3> DEFINE r == [comps[k] EXCEPT !.status = status, !.error = error, !.covers = b.made, !.kept = kept]
    <3>1. comps' = [comps EXCEPT ![k] = r] /\ r.covers = b.made
      <4>1. comps' = [comps EXCEPT ![k] = r]
        BY <1>5 DEF Ended
      <4>2. comps[k] \in Compaction
        BY <2>1, InvFacts
      <4> QED
        BY <4>1, <4>2 DEF Compaction
    <3> HIDE DEF r
    <3>2. b.made \subseteq past \union {0}
      BY <2>4 DEF Past, BuildIsPast
    <3>3. SummariesArePast(comps', epoch, past)
      BY <1>1, <2>1, <2>4, <3>1, <3>2, PastRowEnds
    <3>4. CheckpointsArePast(ckpts, ckpt, past) /\ \A v \in Workers : BuildIsPast(build[v], msgs, epoch, past)
      BY <2>4 DEF Past
    <3> QED
      BY <1>2, <2>2, <2>4, <3>3, <3>4
  <2>5. astray' \/ (~astray /\ b.epoch = epoch)
    BY <1>5 DEF Ghosts
  <2>6. BranchIsPast(msgs, epoch, ckpts, past)
    BY DEF Past
  <2> QED
    BY <1>1, <2>3, <2>4, <2>5, <2>6 DEF Past
<1> QED
  BY <1>3, <1>4, <1>5 DEF Finish

LEMMA PastRecordFailure ==
  ASSUME Inv, Past, NEW w \in Workers, RecordFailure(w)
  PROVE  Past'
<1> DEFINE k == build[w].pending
<1>1. build' = Stopped(w) /\ UNCHANGED <<epoch, msgs, ckpts, ckpt, past, astray>>
  BY DEF RecordFailure
<1>2. CASE UNCHANGED comps
  BY <1>1, <1>2, IdlePast, PastBuildMoves
<1>3. CASE k # 0 /\ CanEnd(k) /\ comps' = Ended(k, "failed", "failed", NoSummary, {})
  <2>1. k \in 1 .. Len(comps)
    BY <1>3, InvBuild, BuildFields, InvFacts DEF Shape
  <2> DEFINE r == [comps[k] EXCEPT !.status = "failed", !.error = "failed", !.covers = NoSummary, !.kept = {}]
  <2>2. comps' = [comps EXCEPT ![k] = r] /\ r.status = "failed"
    <3>1. comps' = [comps EXCEPT ![k] = r]
      BY <1>3 DEF Ended
    <3>2. comps[k] \in Compaction
      BY <2>1, InvFacts
    <3> QED
      BY <3>1, <3>2 DEF Compaction
  <2> HIDE DEF r
  <2>3. astray \/ SummariesArePast(comps', epoch, past)
    BY <1>1, <2>1, <2>2, PastRowEnds
  <2>4. \A v \in Workers : build'[v] = build[v] \/ build'[v] = Idle
    BY <1>1, IdlePast, InvBuild
  <2>5. \A v \in Workers : build'[v].epoch <= epoch
    BY <2>4, IdlePast DEF Past
  <2>6. astray \/ \A v \in Workers : BuildIsPast(build'[v], msgs, epoch, past)
    BY <2>4, IdlePast DEF Past
  <2> QED
    BY <1>1, <2>3, <2>5, <2>6 DEF Past
<1> QED
  BY <1>2, <1>3 DEF RecordFailure

\* The message is of the past from now on, and so is its checkpoint.
LEMMA PastAppendNew ==
  ASSUME Inv, Past, NEW w \in Workers, UNCHANGED <<epoch, comps, astray>>, AppendNew(w)
  PROVE  Past'
<1> DEFINE b == build[w]
           n == Len(msgs)
           index == b.size + 1
           nb == [b EXCEPT !.size = b.size + 1, !.conv = <<n + 1>>]
           m(role) == [epoch |-> epoch, of |-> n + 1, index |-> index, own |-> TRUE, role |-> role]
           x == [epoch |-> epoch, index |-> index, at |-> n + 1, summary |-> b.summary, past |-> past']
<1>1. b \in Builds /\ b.epoch = epoch /\ n \in Nat /\ b.size \in Nat
  BY InvBuild, InvFacts, BuildFields DEF AppendNew, Fenced
<1>2. past' = past \union {n + 1} /\ build' = [build EXCEPT ![w].size = index, ![w].conv = <<n + 1>>]
  BY DEF AppendNew, StoredAs, Position
<1>3. PICK role \in {"assistant", "tool"} :
        /\ msgs' = Append(msgs, m(role))
        /\ \/ UNCHANGED <<ckpts, ckpt>>
           \/ ckpts' = Append(ckpts, x) /\ ckpt' = Len(ckpts) + 1
  BY DEF AppendNew, Position
<1>4. Len(msgs') = n + 1 /\ msgs'[n + 1].of = n + 1 /\ \A s \in 1 .. n : msgs'[s] = msgs[s]
  <2> DEFINE new == m(role)
             All == Message \union {new}
  <2>1. msgs' = Append(msgs, new) /\ new.of = n + 1
    BY <1>3
  <2> HIDE DEF new
  <2>2. msgs \in Seq(All) /\ new \in All
    <3>1. Message \subseteq All /\ msgs \in Seq(Message)
      BY InvFacts
    <3> QED
      BY <3>1, SeqMonotonic
  <2> HIDE DEF All
  <2> QED
    BY <2>1, <2>2, AppendProperties
<1>5. \A s \in 1 .. Len(msgs') : s \in 1 .. n \/ s = n + 1
  BY <1>1, <1>4
<1>6. \A s \in Live(msgs', epoch) : msgs'[s].of \in past'
  BY <1>2, <1>4, <1>5 DEF Past, BranchIsPast, Live
<1>7. ASSUME NEW c \in 1 .. Len(ckpts), NEW s \in Live(msgs', ckpts[c].epoch), s <= ckpts[c].at
      PROVE  msgs'[s].of \in ckpts[c].past
  <2>1. ckpts[c].at \in 1 .. n
    BY DEF Inv, CheckpointsSound
  <2>2. s \in 1 .. n
    BY <1>1, <1>7, <2>1 DEF Live
  <2>3. s \in Live(msgs, ckpts[c].epoch)
    BY <1>4, <2>2 DEF Live
  <2> QED
    BY <1>4, <1>7, <2>2, <2>3 DEF Past, BranchIsPast
<1>8. /\ BranchIsPast(msgs', epoch, ckpts', past')
      /\ astray \/ CheckpointsArePast(ckpts', ckpt', past')
  <2>1. CASE UNCHANGED <<ckpts, ckpt>>
    <3>1. astray \/ CheckpointsArePast(ckpts, ckpt, past')
      BY <1>2 DEF Past, CheckpointsArePast
    <3> QED
      BY <1>6, <1>7, <2>1, <3>1 DEF BranchIsPast
  <2>2. CASE ckpts' = Append(ckpts, x) /\ ckpt' = Len(ckpts) + 1
    <3> DEFINE now == past'
    <3>1. x.epoch = epoch /\ x.summary = b.summary /\ x.past = now
      OBVIOUS
    <3>2. ckpts' = Append(ckpts, x) /\ ckpt' = Len(ckpts) + 1
      BY <2>2
    <3> HIDE DEF now, x
    <3>3. /\ Len(ckpts') = Len(ckpts) + 1 /\ ckpts'[Len(ckpts) + 1] = x /\ Len(ckpts) \in Nat
          /\ \A c \in 1 .. Len(ckpts) : ckpts'[c] = ckpts[c]
      <4> DEFINE All == Checkpoint \union {x}
      <4>1. ckpts \in Seq(All) /\ x \in All /\ Len(ckpts) \in Nat
        <5>1. Checkpoint \subseteq All /\ ckpts \in Seq(Checkpoint) /\ Len(ckpts) \in Nat
          BY InvFacts
        <5> QED
          BY <5>1, SeqMonotonic
      <4> HIDE DEF All
      <4> QED
        BY <3>2, <4>1, AppendProperties
    <3>4. \A c \in 1 .. Len(ckpts') : c \in 1 .. Len(ckpts) \/ c = Len(ckpts) + 1
      BY <3>3
    <3>5. astray \/ x.summary \subseteq x.past \union {0}
      BY <1>1, <1>2, <3>1 DEF Past, BuildIsPast, now
    <3>6. astray \/ CheckpointsArePast(ckpts', ckpt', past')
      <4>1. astray \/ \A c \in 1 .. Len(ckpts) : ckpts[c].summary \subseteq ckpts[c].past \union {0}
        BY DEF Past, CheckpointsArePast
      <4>2. astray \/ \A c \in 1 .. Len(ckpts') : ckpts'[c].summary \subseteq ckpts'[c].past \union {0}
        BY <3>3, <3>4, <3>5, <4>1
      <4> QED
        BY <3>1, <3>2, <3>3, <3>5, <4>2 DEF CheckpointsArePast, now
    <3>7. ASSUME NEW c \in 1 .. Len(ckpts'), NEW s \in Live(msgs', ckpts'[c].epoch), s <= ckpts'[c].at
          PROVE  msgs'[s].of \in ckpts'[c].past
      <4>1. CASE c \in 1 .. Len(ckpts)
        BY <1>7, <3>3, <3>7, <4>1
      <4>2. CASE c = Len(ckpts) + 1
        BY <1>6, <3>1, <3>3, <4>2 DEF now
      <4> QED
        BY <3>4, <4>1, <4>2
    <3> QED
      BY <1>6, <3>6, <3>7 DEF BranchIsPast
  <2> QED
    BY <1>3, <2>1, <2>2
<1>9. build'[w] = nb /\ \A v \in Workers : v # w => build'[v] = build[v]
  BY <1>1, <1>2, InvBuild DEF Builds
<1>10. /\ nb.epoch = b.epoch /\ nb.conv = <<n + 1>> /\ nb.recovered = b.recovered /\ nb.summary = b.summary
       /\ nb.made = b.made
  <2> DEFINE conv == <<n + 1>>
             size == b.size + 1
  <2>1. nb = [b EXCEPT !.size = size, !.conv = conv]
    OBVIOUS
  <2> HIDE DEF conv, size
  <2>2. nb.epoch = b.epoch /\ nb.conv = conv /\ nb.recovered = b.recovered /\ nb.summary = b.summary /\ nb.made = b.made
    BY <1>1, <2>1 DEF Builds
  <2> QED
    BY <2>2 DEF conv
<1> HIDE DEF nb
<1>11. \A v \in Workers : build'[v].epoch <= epoch
  BY <1>9, <1>10 DEF Past
<1>12. ASSUME NEW v \in Workers, ~astray PROVE BuildIsPast(build'[v], msgs', epoch, past')
  <2>1. BuildIsPast(build[v], msgs, epoch, past) /\ BuildIsPast(b, msgs, epoch, past)
    BY <1>12 DEF Past
  <2>2. CASE v = w
    <3>1. \A i \in 1 .. Len(nb.conv) : msgs'[nb.conv[i]].of \in past'
      <4>1. Len(<<n + 1>>) = 1 /\ <<n + 1>>[1] = n + 1
        OBVIOUS
      <4>2. \A i \in 1 .. Len(nb.conv) : nb.conv[i] = n + 1
        BY <1>10, <4>1
      <4> QED
        BY <1>2, <1>4, <4>2
    <3> QED
      BY <1>1, <1>2, <1>9, <1>10, <2>1, <2>2, <3>1 DEF BuildIsPast
  <2>3. CASE v # w
    <3>1. build[v].conv \in Seq(1 .. n)
      BY InvBuild DEF Shape
    <3>2. \A i \in 1 .. Len(build[v].conv) : build[v].conv[i] \in 1 .. n
      BY <3>1, ElementOfSeq
    <3>3. \A i \in 1 .. Len(build[v].conv) : msgs'[build[v].conv[i]] = msgs[build[v].conv[i]]
      BY <1>4, <3>2
    <3>4. BuildIsPast(build[v], msgs', epoch, past')
      BY <1>2, <2>1, <3>3 DEF BuildIsPast
    <3> QED
      BY <1>9, <2>3, <3>4
  <2> QED
    BY <2>2, <2>3
<1>13. astray \/ SummariesArePast(comps, epoch, past')
  BY <1>2 DEF Past, SummariesArePast
<1> QED
  BY <1>8, <1>11, <1>12, <1>13 DEF Past

LEMMA PastAppend ==
  ASSUME Inv, Past, NEW w \in Workers, AppendTranscript(w)
  PROVE  Past'
<1>1. UNCHANGED <<epoch, comps, astray>>
  BY DEF AppendTranscript
<1>2. CASE AppendNew(w)
  BY <1>1, <1>2, PastAppendNew
<1>3. CASE AppendRefused(w)
  BY <1>1, <1>3, IdlePast, PastBuildMoves DEF AppendRefused
<1>4. CASE AppendAgain(w)
  <2> DEFINE b == build[w]
  <2>1. PICK s \in Taken(Position(w)) : StoredAs(w, s)
    BY <1>4 DEF AppendAgain
  <2> DEFINE nb == [b EXCEPT !.size = b.size + 1, !.conv = <<s>>]
  <2>2. build' = [build EXCEPT ![w] = nb] /\ b \in Builds
    BY <2>1, InvBuild DEF StoredAs, Position, Builds
  <2>3. msgs[s].of \in past
    <3>1. s \in Live(msgs, epoch)
      BY <2>1, InvFacts DEF Taken, ActiveMessages, Live
    <3> QED
      BY <3>1 DEF Past, BranchIsPast
  <2>4. UNCHANGED <<epoch, msgs, comps, ckpts, ckpt, past, astray>>
    BY <1>1, <1>4 DEF AppendAgain
  <2>5. nb.epoch = b.epoch /\ nb.conv = <<s>> /\ nb.recovered = b.recovered /\ nb.summary = b.summary /\ nb.made = b.made
    <3> DEFINE conv == <<s>>
               size == b.size + 1
    <3>1. nb = [b EXCEPT !.size = size, !.conv = conv]
      OBVIOUS
    <3> HIDE DEF conv, size
    <3>2. nb.epoch = b.epoch /\ nb.conv = conv /\ nb.recovered = b.recovered /\ nb.summary = b.summary /\ nb.made = b.made
      BY <2>2, <3>1 DEF Builds
    <3> QED
      BY <3>2 DEF conv
  <2> HIDE DEF nb
  <2>6. \A i \in 1 .. Len(nb.conv) : msgs[nb.conv[i]].of \in past
    BY <2>3, <2>5
  <2>7. nb.epoch <= epoch /\ (astray \/ BuildIsPast(nb, msgs, epoch, past))
    BY <2>5, <2>6 DEF Past, BuildIsPast
  <2> QED
    BY <2>2, <2>4, <2>7, PastBuildMoves
<1> QED
  BY <1>2, <1>3, <1>4 DEF AppendTranscript

\* The copies are of what was the past at the checkpoint; no build and no summary is of the new epoch yet.
LEMMA PastRewind ==
  ASSUME Inv, Past, NEW c \in DOMAIN ckpts, Rewind(c)
  PROVE  Past'
<1> DEFINE n == Len(msgs)
           E == epoch + 1
           B == SeedBranch(c)
<1>1. /\ epoch < MaxEpoch /\ msgs' = B /\ comps' = Superseded
      /\ epoch' = E /\ ckpt' = c /\ past' = ckpts[c].past /\ UNCHANGED <<ckpts, build, astray>>
  BY DEF Rewind
<1>2. n \in Nat /\ epoch \in Nat /\ E \in Nat /\ c \in 1 .. Len(ckpts) /\ Len(ckpts) \in Nat
  BY InvFacts
<1>3. /\ Grows(msgs, B)
      /\ \A s \in 1 .. Len(B) : s > n => \E t \in Retained(c) : B[s].of = msgs[t].of
  BY <1>1, <1>2, BranchIs
<1>4. Len(B) \in Nat /\ \A s \in 1 .. n : B[s] = msgs[s]
  BY <1>3 DEF Grows
<1> HIDE DEF B
<1>5. ASSUME NEW t \in Retained(c) PROVE msgs[t].of \in ckpts[c].past
  <2>1. t \in Live(msgs, ckpts[c].epoch) /\ t <= ckpts[c].at
    BY InvFacts DEF Retained, Live
  <2> QED
    BY <1>2, <2>1 DEF Past, BranchIsPast
<1>6. ASSUME NEW s \in 1 .. n PROVE msgs[s].epoch # E
  <2>1. msgs[s] \in Message
    BY InvFacts, ElementOfSeq
  <2>2. msgs[s].epoch \in 1 .. MaxEpoch /\ msgs[s].epoch <= epoch
    BY <2>1 DEF Message, Inv, MessagesSound
  <2> QED
    BY <1>2, <2>2, InvFacts
<1>7. \A s \in Live(B, E) : B[s].of \in ckpts[c].past
  <2> SUFFICES ASSUME NEW s \in 1 .. Len(B), B[s].epoch = E PROVE B[s].of \in ckpts[c].past
    BY DEF Live
  <2>1. s > n
    BY <1>2, <1>4, <1>6
  <2> QED
    BY <1>3, <1>5, <2>1
<1>8. ASSUME NEW k \in 1 .. Len(ckpts), NEW s \in Live(B, ckpts[k].epoch), s <= ckpts[k].at
      PROVE  B[s].of \in ckpts[k].past
  <2>1. ckpts[k].at \in 1 .. n
    BY DEF Inv, CheckpointsSound
  <2>2. s \in 1 .. n
    BY <1>2, <1>8, <2>1 DEF Live
  <2>3. s \in Live(msgs, ckpts[k].epoch)
    BY <1>4, <2>2 DEF Live
  <2> QED
    BY <1>4, <1>8, <2>2, <2>3 DEF Past, BranchIsPast
<1>9. BranchIsPast(msgs', epoch', ckpts', past')
  BY <1>1, <1>7, <1>8 DEF BranchIsPast
<1>10. astray \/ CheckpointsArePast(ckpts, c, ckpts[c].past)
  BY <1>2 DEF Past, CheckpointsArePast
<1>11. SummariesArePast(comps', E, past')
  <2>1. Len(comps') = Len(comps) /\ \A k \in 1 .. Len(comps) : comps'[k].gen = comps[k].gen
    BY <1>1, SupersededIs DEF Closes
  <2>2. ASSUME NEW k \in 1 .. Len(comps) PROVE comps[k].gen # E
    <3>1. comps[k].gen \in Nat /\ comps[k].gen <= epoch
      BY InvFacts, RowFields DEF Inv, RowsSound
    <3> QED
      BY <1>2, <3>1
  <2> QED
    BY <2>1, <2>2 DEF SummariesArePast
<1>12. ASSUME NEW w \in Workers PROVE build[w].epoch <= E /\ build[w].epoch # E
  <2>1. build[w].epoch \in 0 .. MaxEpoch /\ build[w].epoch <= epoch
    BY InvBuild, BuildFields DEF Past
  <2>2. build[w].epoch \in Nat
    BY <2>1, InvFacts
  <2> QED
    BY <1>2, <2>1, <2>2
<1>13. \A w \in Workers : BuildIsPast(build'[w], msgs', E, past')
  BY <1>1, <1>12 DEF BuildIsPast
<1> QED
  BY <1>1, <1>9, <1>10, <1>11, <1>12, <1>13 DEF Past

LEMMA PastNext ==
  ASSUME Inv, Ghosts, Past, [Next]_vars
  PROVE  Past'
<1>1. ASSUME NEW w \in Workers,
             \/ Start(w) \/ ReadLatest(w) \/ ReadPending(w) \/ RequestIfNeeded(w) \/ Load(w) \/ Assemble(w)
             \/ Finish(w) \/ RecordFailure(w) \/ AppendTranscript(w)
      PROVE  Past'
  BY <1>1, PastStart, PastReadLatest, PastReadsPending, PastLoad, PastAssemble, PastFinish, PastRecordFailure, PastAppend
<1>2. ASSUME NEW w \in Workers, EndAttempt(w) PROVE Past'
  BY <1>2, IdlePast, PastBuildMoves DEF EndAttempt
<1>3. CASE UNCHANGED vars
  BY <1>3 DEF vars, Past
<1>4. CASE LoseLease
  BY <1>4 DEF LoseLease, Past
<1> QED
  BY <1>1, <1>2, <1>3, <1>4, PastRequestCompaction, PastRewind DEF Next

\* What the invariants say of the summaries, and of what an attempt is told.
LEMMA PastImplies ==
  ASSUME Inv, Past
  PROVE  AbandonedFutureStaysOut
<1> SUFFICES ASSUME ~astray
             PROVE  /\ \A k \in InGeneration("completed") : comps[k].covers \subseteq past
                    /\ \A w \in Workers : build[w].epoch = epoch => Told(w) \subseteq past
  BY DEF AbandonedFutureStaysOut
<1>1. ASSUME NEW k \in InGeneration("completed") PROVE comps[k].covers \subseteq past
  <2>1. k \in 1 .. Len(comps) /\ IsCompleted(comps, k) /\ comps[k].gen = epoch
    BY InvFacts DEF InGeneration, IsCompleted
  <2>2. comps[k].covers # NoSummary /\ comps[k].covers \in Summaries
    BY <2>1, InvFacts DEF Inv, RowsSound, Compaction
  <2>3. 0 \notin comps[k].covers
    BY <2>2 DEF Summaries, Texts
  <2> QED
    BY <2>1, <2>3 DEF Past, SummariesArePast
<1>2. ASSUME NEW w \in Workers, build[w].epoch = epoch PROVE Told(w) \subseteq past
  <2>1. /\ \A i \in 1 .. Len(build[w].conv) : msgs[build[w].conv[i]].of \in past
        /\ build[w].recovered \union build[w].summary \union build[w].made \subseteq past \union {0}
    BY <1>2 DEF Past, BuildIsPast
  <2>2. DOMAIN build[w].conv = 1 .. Len(build[w].conv)
    BY InvBuild, LenProperties DEF Shape
  <2>3. TextOf(ToSet(build[w].conv)) \subseteq past
    BY <2>1, <2>2 DEF TextOf, ToSet
  <2> QED
    BY <2>1, <2>3 DEF Told, KnownFrom, NoSummary
<1> QED
  BY <1>1, <1>2

\* For any number of workers, rewinds, requests and messages, neither a summary of the present generation nor what
\* an attempt of the present branch is told has a text that a rewind left behind, until a build begun before a
\* rewind completes a compaction that was requested after it (_finish asks neither for the epoch nor for the lease).
THEOREM AbandonedFutureIsLeftOut == Spec => []AbandonedFutureStaysOut
<1>1. Inv /\ Ghosts /\ Past /\ [Next]_vars => Past'
  BY PastNext
<1>2. Inv /\ Past => AbandonedFutureStaysOut
  BY PastImplies
<1> QED
  BY <1>1, <1>2, PastInit, SessionInvariant, PTL DEF Spec

\* For any number of workers, requests and messages, a session has one pending compaction, an outcome is final, the
\* watermark only moves forward, a completed compaction holds nothing beyond its watermark, and no message of the
\* branch before it was passed over: it was to be summarised or was kept as it is by a build that completed one,
\* although a build reads its inputs in four transactions and no fence covers it (request_compaction,
\* request_compaction_if_needed, _finish, DurableRunContextBuilder.build, rewind).
THEOREM SessionCompactions == Spec => CompactionsAreSound
<1> DEFINE Sound == TypeOK /\ OnePendingCompaction /\ SummaryWithinWatermark /\ HistoryHasNoGap
           Both == Inv /\ Ghosts
<1>1. Both => Sound
  BY InvImplies
<1>2. Both /\ [Next]_vars => [OutcomesAreFinal /\ WatermarksGrow]_vars
  BY OutcomesStay
<1>3. Both /\ Both' /\ [Next]_vars => [Sound' /\ OutcomesAreFinal /\ WatermarksGrow]_vars
  <2>1. Both' => Sound'
    BY <1>1, PTL
  <2> QED
    BY <1>2, <2>1
<1> QED
  BY <1>3, SessionInvariant, PTL DEF Spec, CompactionsAreSound
=============================================================================
