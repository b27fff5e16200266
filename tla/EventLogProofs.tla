--------------------------- MODULE EventLogProofs ---------------------------
(***************************************************************************)
(* What is proved of module EventLog, for any number of leases, events and *)
(* followers: a delivery that is repeated, after a lost answer, a takeover *)
(* or a rewind, is stored once; and every follower sees an EventFeed, the  *)
(* append-only log that the event streams promise.                         *)
(***************************************************************************)
EXTENDS EventLog, FiniteSetTheorems, SequenceTheorems, WellFoundedInduction, TLAPS

USE DEF Owners, Platform, Writers

-----------------------------------------------------------------------------
(************************** The inductive invariant ************************)

\* The i-th committed row has sequence i, and the run's row knows the next one.
Numbered ==
    /\ next = Len(rows) + 1
    /\ \A i \in 1..Len(rows) : rows[i].seq = i

\* The row of a transaction in progress: nothing has happened to the run, its
\* lease or its rows since the transaction locked the run's row.
TxnSound(w) ==
    txn[w] # None =>
        /\ txn[w].seq = next /\ txn[w].epoch = epoch
        /\ txn[w].data = <<w, acked[w] + 1>>
        /\ txn[w].key = IF w = Platform THEN None ELSE txn[w].data
        /\ w # Platform => owner = w
        /\ \A i \in 1..Len(rows) : rows[i].data # txn[w].data
        /\ \A v \in Writers : v # w => txn[v] = None

\* A stored row: a plain event, which its writer knows of, or a delivery under
\* its own key, at most one event ahead of what the lease knows of.  The rows of
\* the lease that is active are of the current epoch.
RowSound(i) ==
    LET g == rows[i].data[1]
        n == rows[i].data[2]
    IN  /\ g = Platform => rows[i].key = None /\ n <= acked[g]
        /\ g # Platform => rows[i].key = rows[i].data /\ n <= acked[g] + 1 /\ g <= latest
        /\ g = owner => rows[i].epoch = epoch

\* The sequence s is what comes after the first c rows.
Follows(s, c) ==
    /\ c + Len(s) <= Len(rows)
    /\ \A i \in 1..Len(s) : s[i] = rows[c + i]

\* A follower has the first rows, and its connection, if it has one, goes on
\* where it stands.
FollowerSound(f) ==
    /\ Follows(got[f], 0)
    /\ stream[f] # None => stream[f].cursor = Len(got[f]) /\ Follows(stream[f].page, stream[f].cursor)

ReadersTyped ==
    /\ got \in [Followers -> Seq(Row)]
    /\ stream \in [Followers -> {None} \cup [cursor : Nat, page : Seq(Row)]]

\* What the writers rely on.
LogInv ==
    /\ TypeOK /\ Numbered /\ (owner # None => owner = latest)
    /\ \A w \in Writers : TxnSound(w)
    /\ \A i \in 1..Len(rows) : RowSound(i)
    /\ EachDeliveryStoredOnce /\ OwnerNeverConflicts

\* What the followers rely on.
ReadInv == ReadersTyped /\ \A f \in Followers : FollowerSound(f)

Inv == LogInv /\ ReadInv

-----------------------------------------------------------------------------
(******************************* The operators *****************************)

\* A set of numbers below a bound has a largest one: the well-foundedness of set
\* inclusion, for the intervals from each of the numbers to the bound.
LEMMA LargestExists ==
    ASSUME NEW m \in Nat, NEW K \in SUBSET (0..m), K # {}
    PROVE  \E n \in K : \A k \in K : k <= n
<1> DEFINE Tails == {n..m : n \in K}
<1>1. \A n \in K : IsFiniteSet(n..m) /\ n..m \in SUBSET Nat
  <2> SUFFICES ASSUME NEW n \in K PROVE IsFiniteSet(n..m) /\ n..m \in SUBSET Nat
    OBVIOUS
  <2>1. n \in Int /\ m \in Int
    OBVIOUS
  <2> QED
    BY <2>1, FS_Interval
<1>2. Tails \subseteq FiniteSubsetsOf(Nat) /\ Tails # {}
  BY <1>1 DEF FiniteSubsetsOf
<1>3. IsWellFoundedOn(StrictSubsetOrdering(Nat), FiniteSubsetsOf(Nat))
  BY FS_StrictSubsetOrderingWellFounded
<1> HIDE DEF Tails
<1>4. PICK x \in Tails : \A y \in Tails : ~ (<<y, x>> \in StrictSubsetOrdering(Nat))
  BY <1>2, <1>3, WFMin
<1>5. PICK n \in K : x = n..m
  BY DEF Tails
<1>6. ASSUME NEW k \in K, k > n PROVE FALSE
  <2>1. k..m \in Tails
    BY DEF Tails
  <2>2. k..m \subseteq n..m /\ n \in n..m /\ n \notin k..m
    BY <1>6
  <2>3. <<k..m, x>> \in StrictSubsetOrdering(Nat)
    BY <1>1, <1>5, <2>2 DEF StrictSubsetOrdering, FiniteSubsetsOf
  <2> QED
    BY <1>4, <2>1, <2>3
<1> QED
  BY <1>6

\* Rows numbered in the order of their commits are in order.
LEMMA NumberedInOrder ==
    ASSUME rows \in Seq(Row), Numbered
    PROVE  InOrder(rows) = rows
<1>1. DOMAIN rows = 1..Len(rows) /\ Len(rows) \in Nat
  BY LenProperties
<1>2. \A i, j \in DOMAIN rows : i < j => rows[i].seq <= rows[j].seq
  BY <1>1 DEF Numbered
<1> QED
  BY <1>2 DEF InOrder

\* What is read after a cursor is what was committed after it.
LEMMA AfterIsRest ==
    ASSUME rows \in Seq(Row), Numbered, NEW c \in 0..Len(rows)
    PROVE  After(c) = SubSeq(rows, c + 1, Len(rows))
<1>1. DOMAIN rows = 1..Len(rows) /\ Len(rows) \in Nat
  BY LenProperties
<1>2. {i \in DOMAIN rows : rows[i].seq <= c} = 1..c
  BY <1>1 DEF Numbered
<1>3. Cardinality(1..c) = c
  <2>1. 1 \in Int /\ c \in Int
    BY <1>1
  <2> QED
    BY <1>1, <2>1, FS_Interval
<1> QED
  BY <1>2, <1>3, NumberedInOrder DEF After

\* Min of a pair.
LEMMA SmallerOfTwo ==
    ASSUME NEW a \in Nat, NEW b \in Nat
    PROVE  Min({a, b}) = IF a <= b THEN a ELSE b
<1> DEFINE m == IF a <= b THEN a ELSE b
<1>1. m \in {a, b} /\ \A y \in {a, b} : m <= y
  OBVIOUS
<1>2. \A x \in {a, b} : (\A y \in {a, b} : x <= y) => x = m
  OBVIOUS
<1> QED
  BY <1>1, <1>2 DEF Min

\* A page holds the rows that come after its cursor.
LEMMA PageFollows ==
    ASSUME rows \in Seq(Row), Numbered, NEW c \in 0..Len(rows)
    PROVE  Page(c).events \in Seq(Row) /\ Follows(Page(c).events, c)
<1> DEFINE all == After(c)
           most == Min({PageLimit, Len(all)})
           Full(n) == /\ n = 0 \/ Fits(SubSeq(all, 1, n))
                      /\ n = most \/ ~Fits(SubSeq(all, 1, n + 1))
           kept == CHOOSE n \in 0..most : Full(n)
<1>1. Len(rows) \in Nat /\ \A i \in 1..Len(rows) : rows[i] \in Row
  BY LenProperties, ElementOfSeq
<1>2. /\ all \in Seq(Row) /\ Len(all) = Len(rows) - c
      /\ \A i \in 1..Len(all) : all[i] = rows[c + i]
  <2>1. all = SubSeq(rows, c + 1, Len(rows))
    BY AfterIsRest
  <2>2. c + 1 \in Int /\ Len(rows) \in Int /\ \A i \in c + 1 .. Len(rows) : rows[i] \in Row
    BY <1>1
  <2>3. /\ SubSeq(rows, c + 1, Len(rows)) \in Seq(Row)
        /\ Len(SubSeq(rows, c + 1, Len(rows))) = IF c + 1 <= Len(rows) THEN Len(rows) - (c + 1) + 1 ELSE 0
        /\ \A i \in 1 .. Len(rows) - (c + 1) + 1 : SubSeq(rows, c + 1, Len(rows))[i] = rows[c + 1 + i - 1]
    BY <2>2, SubSeqProperties
  <2>4. Len(all) = Len(rows) - c
    BY <1>1, <2>1, <2>3
  <2> HIDE DEF all
  <2>5. \A i \in 1..Len(all) : all[i] = rows[c + i]
    <3> SUFFICES ASSUME NEW i \in 1..Len(all) PROVE all[i] = rows[c + i]
      OBVIOUS
    <3>1. i \in 1 .. Len(rows) - (c + 1) + 1 /\ c + 1 + i - 1 = c + i
      BY <1>1, <2>4
    <3> QED
      BY <2>1, <2>3, <3>1
  <2> QED
    BY <2>1, <2>3, <2>4, <2>5
<1> HIDE DEF all
<1>3. most \in Nat /\ most <= Len(all)
  BY SMTT(60), <1>1, <1>2, SmallerOfTwo, BoundsType
<1> HIDE DEF most
<1>4. \E n \in 0..most : Full(n)
  <2> DEFINE K == {n \in 0..most : n = 0 \/ Fits(SubSeq(all, 1, n))}
  <2>1. K \in SUBSET (0..most) /\ 0 \in K
    BY <1>3
  <2>2. PICK n \in K : \A k \in K : k <= n
    BY <1>3, <2>1, LargestExists
  <2>3. n = most \/ ~Fits(SubSeq(all, 1, n + 1))
    <3> SUFFICES ASSUME n # most, Fits(SubSeq(all, 1, n + 1)) PROVE FALSE
      OBVIOUS
    <3>1. n + 1 \in K
      BY <1>3
    <3> QED
      BY <2>2, <3>1, <1>3
  <2> QED
    BY <2>3
<1>5. kept \in 0..most
  BY <1>4
<1> HIDE DEF Full, kept
<1>6. Page(c).events = SubSeq(all, 1, kept)
  BY DEF Page, all, most, kept, Full
<1>7. \A i \in 1..kept : all[i] \in Row
  BY <1>1, <1>2, <1>3, <1>5
<1>8. 1 \in Int /\ kept \in Int
  BY <1>3, <1>5
<1>9. /\ SubSeq(all, 1, kept) \in Seq(Row)
      /\ Len(SubSeq(all, 1, kept)) = IF 1 <= kept THEN kept - 1 + 1 ELSE 0
      /\ \A i \in 1 .. kept - 1 + 1 : SubSeq(all, 1, kept)[i] = all[1 + i - 1]
  BY <1>7, <1>8, SubSeqProperties
<1> DEFINE s == SubSeq(all, 1, kept)
<1> HIDE DEF s
<1>10. s \in Seq(Row) /\ Len(s) = kept /\ \A i \in 1..kept : s[i] = all[i]
  BY <1>3, <1>5, <1>9 DEF s
<1> QED
  BY <1>1, <1>2, <1>3, <1>5, <1>6, <1>10 DEF Follows, s

\* The cursor of a follower that has the first rows is their number.
LEMMA LastSeqIsLen ==
    ASSUME rows \in Seq(Row), Numbered, NEW s \in Seq(Row), Follows(s, 0)
    PROVE  LastSeq(s) = Len(s)
<1>1. Len(s) \in Nat /\ Len(rows) \in Nat /\ (s # << >> => Len(s) > 0)
  BY EmptySeq, LenProperties
<1>2. CASE s = << >>
  BY <1>2, EmptySeq DEF LastSeq
<1>3. CASE s # << >>
  <2>1. Len(s) \in 1..Len(s) /\ 0 + Len(s) = Len(s)
    BY <1>1, <1>3
  <2>2. s[Len(s)].seq = Len(s)
    BY <1>1, <2>1 DEF Follows, Numbered
  <2> QED
    BY <1>3, <2>2 DEF LastSeq, Last
<1> QED
  BY <1>2, <1>3

\* The rows, by their position.
LEMMA RangeOfRows ==
    ASSUME rows \in Seq(Row)
    PROVE  \A r : r \in Range(rows) <=> \E i \in 1..Len(rows) : rows[i] = r
  BY LenProperties DEF Range

\* Every acknowledged delivery is stored, by its position.
LEMMA AckedIsStored ==
    ASSUME rows \in Seq(Row)
    PROVE  EachDeliveryStoredOnce <=>
             /\ \A i, j \in 1..Len(rows) : rows[i].data = rows[j].data => i = j
             /\ \A g \in Owners : \A n \in 1..acked[g] : \E i \in 1..Len(rows) : rows[i].data = <<g, n>>
<1>1. DOMAIN rows = 1..Len(rows)
  BY LenProperties
<1>2. ASSUME NEW d PROVE (\E r \in Range(rows) : r.data = d) <=> \E i \in 1..Len(rows) : rows[i].data = d
  BY RangeOfRows
<1> QED
  BY <1>1, <1>2 DEF EachDeliveryStoredOnce

LEMMA AckedIsStoredNext ==
    ASSUME rows' \in Seq(Row)
    PROVE  EachDeliveryStoredOnce' <=>
             /\ \A i, j \in 1..Len(rows') : rows'[i].data = rows'[j].data => i = j
             /\ \A g \in Owners : \A n \in 1..acked'[g] : \E i \in 1..Len(rows') : rows'[i].data = <<g, n>>
<1>1. DOMAIN rows' = 1..Len(rows')
  BY LenProperties
<1>2. ASSUME NEW d PROVE (\E r \in Range(rows') : r.data = d) <=> \E i \in 1..Len(rows') : rows'[i].data = d
  BY <1>1 DEF Range
<1> QED
  BY <1>1, <1>2 DEF EachDeliveryStoredOnce

-----------------------------------------------------------------------------
(*********************** Each step keeps what writers need *****************)

LEMMA InitInv == Init => Inv
<1> SUFFICES ASSUME Init PROVE Inv
  OBVIOUS
<1> USE DEF Init
<1>1. rows \in Seq(Row) /\ Len(rows) = 0
  BY EmptySeq
<1>2. TypeOK
  BY <1>1, BoundsType DEF TypeOK
<1>3. EachDeliveryStoredOnce
  BY <1>1, AckedIsStored
<1>4. LogInv
  BY <1>1, <1>2, <1>3 DEF LogInv, Numbered, TxnSound, RowSound, OwnerNeverConflicts
<1>5. ReadInv
  BY <1>1, EmptySeq DEF ReadInv, ReadersTyped, FollowerSound, Follows
<1> QED
  BY <1>4, <1>5 DEF Inv

\* The facts that the steps of the writers start from.
LEMMA LogFacts ==
    ASSUME LogInv
    PROVE  /\ rows \in Seq(Row) /\ Len(rows) \in Nat /\ \A i \in 1..Len(rows) : rows[i] \in Row
           /\ \A i, j \in 1..Len(rows) : rows[i].data = rows[j].data => i = j
           /\ \A g \in Owners : \A n \in 1..acked[g] : \E i \in 1..Len(rows) : rows[i].data = <<g, n>>
<1>1. rows \in Seq(Row)
  BY DEF LogInv, TypeOK
<1> QED
  BY <1>1, LenProperties, ElementOfSeq, AckedIsStored DEF LogInv

\* A step on the run's leases leaves the rows alone.
LEMMA LeaseStep ==
    ASSUME LogInv, GrantLease \/ EndLease \/ Rewind, TypeOK'
    PROVE  LogInv'
<1> USE LogFacts, NoneIsNoValue, BoundsType DEF logVars
<1>1. UNCHANGED <<rows, next, txn, acked, refused>> /\ \A w \in Writers : txn[w] = None
  BY DEF GrantLease, EndLease, Rewind, RowFree
<1>2. Numbered' /\ EachDeliveryStoredOnce' /\ OwnerNeverConflicts'
  BY <1>1 DEF LogInv, Numbered, EachDeliveryStoredOnce, OwnerNeverConflicts
<1>3. \A w \in Writers : TxnSound(w)'
  BY <1>1 DEF TxnSound
<1>4. owner' # None => owner' = latest'
  BY DEF GrantLease, EndLease, Rewind
<1>5. ASSUME NEW i \in 1..Len(rows) PROVE RowSound(i)'
  <2>1. RowSound(i) /\ rows[i] \in Row
    BY DEF LogInv
  <2>2. latest \in Nat
    BY DEF LogInv, TypeOK
  <2>3. rows[i].data[1] \in Writers /\ rows[i].data[2] \in Nat
    BY <2>1 DEF Row
  <2>4. rows[i].data[1] <= latest /\ latest <= latest'
    BY <2>1, <2>2, <2>3 DEF RowSound, GrantLease, EndLease, Rewind
  <2>5. CASE owner' = None
    <3>1. rows[i].data[1] # owner'
      BY <2>3, <2>5
    <3>2. rows[i].data[1] # Platform => rows[i].data[1] <= latest'
      BY <2>2, <2>3, <2>4 DEF GrantLease, EndLease, Rewind
    <3> HIDE NoneIsNoValue
    <3> QED
      BY <1>1, <2>1, <3>1, <3>2 DEF RowSound
  <2>6. CASE owner' # None
    BY <1>1, <2>1, <2>2, <2>3, <2>4, <2>6 DEF RowSound, GrantLease, EndLease, Rewind
  <2> QED
    BY <2>5, <2>6
<1> QED
  BY <1>1, <1>2, <1>3, <1>4, <1>5 DEF LogInv

\* A delivery that is numbered up to the acknowledged one, or is the next one.
LEMMA NextNumber ==
    ASSUME NEW a \in Nat, NEW b \in {a, a + 1}, NEW n \in 1..b
    PROVE  n \in 1..a \/ n = a + 1
OBVIOUS

\* A transaction that locks the run's row: a plain append, or a delivery whose
\* key is not stored, which is then stored in no epoch.
LEMMA BeginStep ==
    ASSUME LogInv, TypeOK', BeginAppend \/ \E g \in Owners : BeginDelivery(g)
    PROVE  LogInv'
<1> USE LogFacts, NoneIsNoValue, BoundsType
<1>1. UNCHANGED <<rows, next, epoch, owner, latest>> /\ \A w \in Writers : txn[w] = None
  BY DEF BeginAppend, BeginDelivery, RowFree, runVars
<1>2. CASE BeginAppend
  <2>1. UNCHANGED <<acked, refused>> /\ txn' = [txn EXCEPT ![Platform] = NewRow(None, <<Platform, acked[Platform] + 1>>)]
    BY <1>2 DEF BeginAppend
  <2>2. Numbered' /\ EachDeliveryStoredOnce' /\ OwnerNeverConflicts' /\ \A i \in 1..Len(rows) : RowSound(i)'
    BY <1>1, <2>1 DEF LogInv, Numbered, EachDeliveryStoredOnce, OwnerNeverConflicts, RowSound
  <2>3. \A i \in 1..Len(rows) : rows[i].data # <<Platform, acked[Platform] + 1>>
    <3> SUFFICES ASSUME NEW i \in 1..Len(rows), rows[i].data = <<Platform, acked[Platform] + 1>> PROVE FALSE
      OBVIOUS
    <3>1. RowSound(i) /\ acked[Platform] \in Nat
      BY DEF LogInv, TypeOK
    <3> QED
      BY <3>1 DEF RowSound
  <2>4. ASSUME NEW w \in Writers PROVE TxnSound(w)'
    <3>1. Platform \in DOMAIN txn /\ next = next' /\ epoch = epoch' /\ acked = acked'
      BY <1>1, <2>1 DEF LogInv, TypeOK
    <3>2. w # Platform => txn'[w] = None
      BY <1>1, <2>1
    <3>3. txn'[Platform] = NewRow(None, <<Platform, acked[Platform] + 1>>)
      BY <2>1, <3>1
    <3> QED
      BY <1>1, <2>1, <2>3, <3>1, <3>2, <3>3 DEF TxnSound, NewRow
  <2> QED
    BY <1>1, <2>2, <2>4 DEF LogInv
<1>3. ASSUME NEW g \in Owners, BeginDelivery(g) PROVE LogInv'
  <2> DEFINE n == acked[g] + 1
  <2>1. owner = g /\ acked[g] \in Nat /\ AppendIdempotent(g, <<g, n>>, <<g, n>>)
    BY <1>3 DEF BeginDelivery, DeliveryKey, LogInv, TypeOK
  <2>2. \A r : r \in Stored(<<g, n>>) <=>
               \E i \in 1..Len(rows) : rows[i] = r /\ r.epoch = epoch /\ r.key = <<g, n>>
    BY RangeOfRows DEF Stored
  <2>3. ASSUME NEW r \in Stored(<<g, n>>) PROVE r.data = <<g, n>> /\ \E i \in 1..Len(rows) : rows[i] = r
    <3>1. PICK i \in 1..Len(rows) : rows[i] = r /\ r.key = <<g, n>>
      BY <2>2
    <3>2. <<g, n>> # None
      BY <2>1
    <3> QED
      BY <3>1, <3>2 DEF LogInv, RowSound
  <2>4. CASE Stored(<<g, n>>) = {}
    <3>1. UNCHANGED <<acked, refused>> /\ txn' = [txn EXCEPT ![g] = NewRow(<<g, n>>, <<g, n>>)]
      BY <2>1, <2>4 DEF AppendIdempotent
    <3>2. ASSUME NEW i \in 1..Len(rows), rows[i].data = <<g, n>> PROVE FALSE
      <4>1. rows[i].epoch = epoch /\ rows[i].key = <<g, n>>
        BY <2>1, <3>2 DEF LogInv, RowSound
      <4> QED
        BY <2>2, <2>4, <4>1
    <3>3. Numbered' /\ EachDeliveryStoredOnce' /\ OwnerNeverConflicts' /\ \A i \in 1..Len(rows) : RowSound(i)'
      BY ZenonT(60), <1>1, <3>1 DEF LogInv, Numbered, EachDeliveryStoredOnce, OwnerNeverConflicts, RowSound
    <3>4. ASSUME NEW w \in Writers PROVE TxnSound(w)'
      <4>1. g \in DOMAIN txn /\ g # Platform
        BY DEF LogInv, TypeOK
      <4>2. w # g => txn'[w] = None
        BY <1>1, <3>1
      <4>3. txn'[g] = NewRow(<<g, n>>, <<g, n>>)
        BY <3>1, <4>1
      <4> QED
        BY SMTT(60), <1>1, <2>1, <3>1, <3>2, <4>1, <4>2, <4>3 DEF TxnSound, NewRow
    <3> QED
      BY <1>1, <3>3, <3>4 DEF LogInv
  <2>5. CASE Stored(<<g, n>>) # {}
    <3>1. UNCHANGED <<txn, refused>> /\ acked' = [acked EXCEPT ![g] = n]
      BY <2>1, <2>3, <2>5 DEF AppendIdempotent
    <3>2. PICK k \in 1..Len(rows) : rows[k].data = <<g, n>>
      BY <2>3, <2>5
    <3>3. Numbered' /\ OwnerNeverConflicts' /\ \A w \in Writers : TxnSound(w)'
      BY <1>1, <3>1 DEF LogInv, Numbered, OwnerNeverConflicts, TxnSound
    <3>4. ASSUME NEW i \in 1..Len(rows) PROVE RowSound(i)'
      <4>1. RowSound(i) /\ rows[i] \in Row /\ acked \in [Writers -> Nat]
        BY DEF LogInv, TypeOK
      <4>2. rows[i].data[1] \in Writers /\ rows[i].data[2] \in Nat
        BY <4>1 DEF Row
      <4>3. acked'[rows[i].data[1]] \in Nat /\ acked'[rows[i].data[1]] >= acked[rows[i].data[1]]
        BY <3>1, <4>1, <4>2
      <4>4. acked'[rows[i].data[1]] + 1 >= acked[rows[i].data[1]] + 1 /\ acked[rows[i].data[1]] \in Nat
        BY SMTT(60), <4>1, <4>2, <4>3
      <4>5. rows[i].data[1] = Platform => rows[i].key = None /\ rows[i].data[2] <= acked'[rows[i].data[1]]
        BY <4>1, <4>2, <4>3, <4>4 DEF RowSound
      <4>6. rows[i].data[1] # Platform => rows[i].data[2] <= acked'[rows[i].data[1]] + 1
        BY SMTT(60), <4>1, <4>2, <4>3, <4>4 DEF RowSound
      <4> QED
        BY <1>1, <4>1, <4>5, <4>6 DEF RowSound
    <3>5. ASSUME NEW h \in Owners, NEW m \in 1..acked'[h] PROVE \E i \in 1..Len(rows) : rows[i].data = <<h, m>>
      <4>1. acked \in [Writers -> Nat]
        BY DEF LogInv, TypeOK
      <4>2. m \in 1..acked[h] \/ (h = g /\ m = n)
        BY SMTT(60), <2>1, <3>1, <4>1
      <4> QED
        BY <3>2, <4>2
    <3>6. EachDeliveryStoredOnce'
      <4>1. rows' \in Seq(Row)
        BY <1>1
      <4>2. EachDeliveryStoredOnce' <=>
              /\ \A i, j \in 1..Len(rows') : rows'[i].data = rows'[j].data => i = j
              /\ \A h \in Owners : \A m \in 1..acked'[h] : \E i \in 1..Len(rows') : rows'[i].data = <<h, m>>
        BY <4>1, AckedIsStoredNext
      <4> QED
        BY <1>1, <3>5, <4>2
    <3> QED
      BY <1>1, <3>3, <3>4, <3>6 DEF LogInv
  <2> QED
    BY <2>4, <2>5
<1> QED
  BY <1>2, <1>3

\* A transaction that commits: its row takes the next number, and its data is new.
LEMMA CommitStep ==
    ASSUME LogInv, TypeOK', NEW w \in Writers, Commit(w)
    PROVE  LogInv'
<1> USE LogFacts, BoundsType
<1>1. /\ txn[w] # None /\ txn[w] \in Row /\ TxnSound(w) /\ acked \in [Writers -> Nat]
      /\ rows' = Append(rows, txn[w]) /\ next' = next + 1
      /\ txn' = [txn EXCEPT ![w] = None] /\ txn \in [Writers -> Row \cup {None}]
      /\ UNCHANGED <<epoch, owner, latest, refused>>
  BY DEF Commit, LogInv, TypeOK, TxnSound, runVars
<1>2. /\ rows' \in Seq(Row) /\ Len(rows') = Len(rows) + 1
      /\ \A i \in 1..Len(rows) : rows'[i] = rows[i]
      /\ rows'[Len(rows) + 1] = txn[w]
  BY <1>1, AppendProperties
<1>3. \A i \in 1..Len(rows') : i \in 1..Len(rows) \/ i = Len(rows) + 1
  BY <1>2
<1>4. Numbered'
  BY <1>1, <1>2, <1>3 DEF Numbered, TxnSound, LogInv
<1>5. ASSUME NEW v \in Writers PROVE TxnSound(v)'
  BY <1>1 DEF TxnSound
<1>6. /\ \A v \in Writers : v # w => acked'[v] = acked[v]
      /\ acked'[w] \in {acked[w], acked[w] + 1} /\ (w = Platform => acked'[w] = acked[w] + 1)
  BY <1>1 DEF Commit
<1>7. txn[w].data = <<w, acked[w] + 1>> /\ txn[w].epoch = epoch /\ acked[w] \in Nat
  BY <1>1 DEF TxnSound
<1>8. ASSUME NEW i \in 1..Len(rows') PROVE RowSound(i)'
  <2>1. CASE i \in 1..Len(rows)
    <3>1. rows'[i] = rows[i] /\ RowSound(i) /\ rows[i] \in Row
      BY <1>2, <2>1 DEF LogInv
    <3>2. rows[i].data[1] \in Writers /\ rows[i].data[2] \in Nat
      BY <3>1 DEF Row
    <3> DEFINE g == rows[i].data[1]
               m == rows[i].data[2]
    <3>3. /\ g = Platform => rows[i].key = None /\ m <= acked[g]
          /\ g # Platform => m <= acked[g] + 1
      BY <3>1 DEF RowSound
    <3>4. g \in Writers /\ m \in Nat
      BY <3>2
    <3> HIDE DEF g, m
    <3>5. acked[g] \in Nat /\ acked'[g] \in Nat /\ acked[g] <= acked'[g]
      BY <1>1, <1>6, <3>4
    <3>6. /\ g = Platform => rows[i].key = None /\ m <= acked'[g]
          /\ g # Platform => m <= acked'[g] + 1
      BY <3>3, <3>4, <3>5
    <3> QED
      BY <1>1, <3>1, <3>6 DEF RowSound, g, m
  <2>2. CASE i = Len(rows) + 1
    <3>1. rows'[i] = txn[w]
      BY <1>2, <2>2
    <3>2. w # Platform => w <= latest /\ txn[w].key = txn[w].data
      BY SMTT(60), <1>1, NoneIsNoValue DEF TxnSound, LogInv
    <3>3. w = Platform => txn[w].key = None
      BY <1>1 DEF TxnSound
    <3>4. acked[w] + 1 <= acked'[w] + 1 /\ (w = Platform => acked[w] + 1 <= acked'[w])
      BY <1>6, <1>7
    <3>5. txn[w].data[1] = w /\ txn[w].data[2] = acked[w] + 1
      BY <1>7
    <3> QED
      BY <1>1, <1>7, <3>1, <3>2, <3>3, <3>4, <3>5 DEF RowSound
  <2> QED
    BY <1>3, <2>1, <2>2
<1>9. EachDeliveryStoredOnce'
  <2>1. ASSUME NEW i \in 1..Len(rows'), NEW j \in 1..Len(rows'), rows'[i].data = rows'[j].data PROVE i = j
    <3>1. \A k \in 1..Len(rows) : rows[k].data # txn[w].data
      BY <1>1 DEF TxnSound
    <3> QED
      BY <1>2, <1>3, <2>1, <3>1
  <2>2. ASSUME NEW g \in Owners, NEW n \in 1..acked'[g] PROVE \E i \in 1..Len(rows') : rows'[i].data = <<g, n>>
    <3>1. n \in 1..acked[g] \/ (g = w /\ n = acked[w] + 1)
      <4>1. g \in Writers
        OBVIOUS
      <4>2. CASE g # w
        BY <1>6, <4>1, <4>2
      <4>3. CASE g = w
        <5>1. acked[w] \in Nat /\ acked'[w] \in {acked[w], acked[w] + 1} /\ n \in 1..acked'[w]
          BY <1>6, <1>7, <2>2, <4>3
        <5> QED
          BY <4>3, <5>1, NextNumber
      <4> QED
        BY <4>2, <4>3
    <3>2. Len(rows) + 1 \in 1..Len(rows') /\ \A i \in 1..Len(rows) : i \in 1..Len(rows')
      BY <1>2
    <3>3. CASE n \in 1..acked[g]
      <4>1. PICK i \in 1..Len(rows) : rows[i].data = <<g, n>>
        BY <3>3
      <4> QED
        BY <1>2, <3>2, <4>1
    <3>4. CASE g = w /\ n = acked[w] + 1
      BY <1>2, <1>7, <3>2, <3>4
    <3> QED
      BY <3>1, <3>3, <3>4
  <2> QED
    BY <1>2, <2>1, <2>2, AckedIsStoredNext
<1> QED
  BY <1>1, <1>4, <1>5, <1>8, <1>9 DEF LogInv, OwnerNeverConflicts

\* A transaction that is rolled back, and whatever leaves the log and the run alone.
LEMMA OtherStep ==
    ASSUME LogInv, TypeOK', (\E w \in Writers : Rollback(w)) \/ UNCHANGED <<runVars, logVars>>
    PROVE  LogInv'
<1>1. UNCHANGED <<rows, next, acked, refused, epoch, owner, latest>>
  BY DEF Rollback, runVars, logVars
<1>2. ASSUME NEW v \in Writers PROVE txn'[v] = txn[v] \/ txn'[v] = None
  BY DEF Rollback, logVars, LogInv, TypeOK
<1>3. Numbered' /\ EachDeliveryStoredOnce' /\ OwnerNeverConflicts' /\ \A i \in 1..Len(rows) : RowSound(i)'
  BY <1>1 DEF LogInv, Numbered, EachDeliveryStoredOnce, OwnerNeverConflicts, RowSound
<1>4. \A v \in Writers : TxnSound(v)'
  BY <1>1, <1>2 DEF LogInv, TxnSound
<1> QED
  BY <1>1, <1>3, <1>4 DEF LogInv

-----------------------------------------------------------------------------
(********************** Each step keeps what followers have ****************)

\* The rows that were there are there still, in front.
RowsGrow ==
    /\ Len(rows') \in Nat /\ Len(rows) <= Len(rows')
    /\ \A i \in 1..Len(rows) : rows'[i] = rows[i]

\* Rows that are added leave what was read as it is.
LEMMA FollowsOn ==
    ASSUME rows \in Seq(Row), RowsGrow, NEW s \in Seq(Row), NEW c \in Nat, Follows(s, c)
    PROVE  Follows(s, c)'
<1>1. Len(rows) \in Nat /\ Len(s) \in Nat
  BY LenProperties
<1> QED
  BY <1>1 DEF Follows, RowsGrow

\* The steps of the run and of the writers.
LEMMA WriterStep ==
    ASSUME ReadInv, rows \in Seq(Row), RowsGrow, UNCHANGED readVars
    PROVE  ReadInv'
<1>1. UNCHANGED <<stream, got>>
  BY DEF readVars
<1>2. ASSUME NEW f \in Followers PROVE FollowerSound(f)'
  <2>1. got[f] \in Seq(Row) /\ Follows(got[f], 0) /\ 0 \in Nat
    BY DEF ReadInv, ReadersTyped, FollowerSound
  <2>2. Follows(got[f], 0)'
    BY <1>1, <2>1, FollowsOn
  <2>3. CASE stream[f] = None
    BY <1>1, <2>2, <2>3 DEF FollowerSound
  <2>4. CASE stream[f] # None
    <3>1. stream[f] \in [cursor : Nat, page : Seq(Row)]
      BY <2>4 DEF ReadInv, ReadersTyped
    <3>2. stream[f].page \in Seq(Row) /\ stream[f].cursor \in Nat /\ Follows(stream[f].page, stream[f].cursor)
      BY <2>4, <3>1 DEF ReadInv, FollowerSound
    <3>3. Follows(stream[f].page, stream[f].cursor)'
      BY <1>1, <3>2, FollowsOn
    <3> QED
      BY <1>1, <2>2, <3>3 DEF FollowerSound, ReadInv
  <2> QED
    BY <2>3, <2>4
<1> QED
  BY <1>1, <1>2 DEF ReadInv, ReadersTyped

\* The facts that the steps of the follower f start from.
LEMMA FollowerFacts ==
    ASSUME Inv, NEW f \in Followers
    PROVE  /\ rows \in Seq(Row) /\ Numbered /\ Len(rows) \in Nat
           /\ got[f] \in Seq(Row) /\ Follows(got[f], 0) /\ Len(got[f]) \in 0..Len(rows)
           /\ LastSeq(got[f]) = Len(got[f])
           /\ stream[f] # None =>
                /\ stream[f].cursor = Len(got[f]) /\ stream[f].page \in Seq(Row)
                /\ Follows(stream[f].page, Len(got[f]))
<1>1. rows \in Seq(Row) /\ Numbered
  BY DEF Inv, LogInv, TypeOK
<1>2. got[f] \in Seq(Row) /\ Follows(got[f], 0)
  BY DEF Inv, ReadInv, ReadersTyped, FollowerSound
<1>3. Len(rows) \in Nat /\ Len(got[f]) \in Nat
  BY <1>1, <1>2, LenProperties
<1>4. stream[f] # None => stream[f].page \in Seq(Row)
  BY DEF Inv, ReadInv, ReadersTyped
<1>5. Len(got[f]) \in 0..Len(rows)
  BY <1>2, <1>3 DEF Follows
<1>6. LastSeq(got[f]) = Len(got[f])
  BY <1>1, <1>2, LastSeqIsLen
<1>7. stream[f] # None => stream[f].cursor = Len(got[f]) /\ Follows(stream[f].page, Len(got[f]))
  BY DEF Inv, ReadInv, FollowerSound
<1> QED
  BY <1>1, <1>2, <1>3, <1>4, <1>5, <1>6, <1>7

\* The follower f alone moves, and what it is left with is sound.
LEMMA FollowerMoves ==
    ASSUME Inv, NEW f \in Followers, UNCHANGED rows,
           NEW g \in Seq(Row), NEW s \in {None} \cup [cursor : Nat, page : Seq(Row)],
           got' = [got EXCEPT ![f] = g], stream' = [stream EXCEPT ![f] = s],
           Follows(g, 0), s # None => s.cursor = Len(g) /\ Follows(s.page, s.cursor)
    PROVE  ReadInv'
<1>1. ReadersTyped'
  BY DEF Inv, ReadInv, ReadersTyped
<1>2. ASSUME NEW h \in Followers PROVE FollowerSound(h)'
  <2>1. CASE h = f
    <3>1. got'[h] = g /\ stream'[h] = s
      BY <2>1 DEF Inv, ReadInv, ReadersTyped
    <3> QED
      BY <3>1 DEF FollowerSound, Follows
  <2>2. CASE h # f
    <3>1. got'[h] = got[h] /\ stream'[h] = stream[h] /\ FollowerSound(h)
      BY <2>2 DEF Inv, ReadInv, ReadersTyped
    <3> QED
      BY <3>1 DEF FollowerSound, Follows
  <2> QED
    BY <2>1, <2>2
<1> QED
  BY <1>1, <1>2 DEF ReadInv

\* A sequence that goes on from another makes one from where that one begins.
LEMMA FollowsConcat ==
    ASSUME rows \in Seq(Row), NEW s \in Seq(Row), NEW t \in Seq(Row), Follows(s, 0), Follows(t, Len(s))
    PROVE  s \o t \in Seq(Row) /\ Len(s \o t) = Len(s) + Len(t) /\ Follows(s \o t, 0)
<1>1. Len(s) \in Nat /\ Len(t) \in Nat /\ Len(rows) \in Nat
  BY LenProperties
<1>2. /\ s \o t \in Seq(Row) /\ Len(s \o t) = Len(s) + Len(t)
      /\ \A i \in 1..Len(s) + Len(t) : (s \o t)[i] = IF i <= Len(s) THEN s[i] ELSE t[i - Len(s)]
  BY ConcatProperties
<1> QED
  BY <1>1, <1>2 DEF Follows

\* The first row of a page is handed over.
LEMMA FollowsSend ==
    ASSUME rows \in Seq(Row), Numbered, NEW s \in Seq(Row), NEW p \in Seq(Row), p # << >>,
           Follows(s, 0), Follows(p, Len(s))
    PROVE  /\ Append(s, Head(p)) \in Seq(Row) /\ Follows(Append(s, Head(p)), 0)
           /\ Head(p).seq = Len(s) + 1 /\ Len(Append(s, Head(p))) = Len(s) + 1
           /\ Tail(p) \in Seq(Row) /\ Follows(Tail(p), Len(s) + 1)
<1>1. Len(s) \in Nat /\ Len(p) \in Nat /\ Len(p) > 0 /\ Len(rows) \in Nat
  BY EmptySeq, LenProperties
<1>2. Head(p) = p[1] /\ Head(p) \in Row /\ p[1] = rows[Len(s) + 1] /\ Len(s) + 1 \in 1..Len(rows)
  BY <1>1, HeadTailProperties DEF Follows
<1>3. /\ Append(s, Head(p)) \in Seq(Row) /\ Len(Append(s, Head(p))) = Len(s) + 1
      /\ \A i \in 1..Len(s) : Append(s, Head(p))[i] = s[i]
      /\ Append(s, Head(p))[Len(s) + 1] = Head(p)
  BY <1>2, AppendProperties
<1>4. Follows(Append(s, Head(p)), 0)
  <2>1. 0 + Len(Append(s, Head(p))) <= Len(rows)
    BY <1>1, <1>2, <1>3
  <2>2. ASSUME NEW i \in 1..Len(Append(s, Head(p))) PROVE Append(s, Head(p))[i] = rows[0 + i]
    <3>1. i \in 1..Len(s) \/ i = Len(s) + 1
      BY <1>1, <1>3
    <3> QED
      BY <1>1, <1>2, <1>3, <3>1 DEF Follows
  <2> QED
    BY <2>1, <2>2 DEF Follows
<1>5. /\ Tail(p) \in Seq(Row) /\ Len(Tail(p)) = Len(p) - 1
      /\ \A i \in 1..Len(Tail(p)) : Tail(p)[i] = p[i + 1]
  BY HeadTailProperties
<1>6. Follows(Tail(p), Len(s) + 1)
  BY <1>1, <1>5 DEF Follows
<1> QED
  BY <1>2, <1>3, <1>4, <1>5, <1>6 DEF Numbered

\* The steps of a follower and of its connection.
LEMMA FollowerStep ==
    ASSUME Inv, NEW f \in Followers,
           Open(f) \/ ReadPage(f) \/ Send(f) \/ Disconnect(f) \/ ListEvents(f)
    PROVE  ReadInv'
<1> DEFINE Conn == [cursor : Nat, page : Seq(Row)]
<1> USE FollowerFacts
<1>1. UNCHANGED rows /\ got \in [Followers -> Seq(Row)] /\ stream \in [Followers -> {None} \cup Conn]
  BY DEF Open, ReadPage, Send, Disconnect, ListEvents, logVars, Inv, ReadInv, ReadersTyped
<1>2. Len(got[f]) \in Nat
  OBVIOUS
<1>3. CASE Open(f)
  <2> DEFINE s == [cursor |-> Len(got[f]), page |-> << >>]
  <2>1. stream' = [stream EXCEPT ![f] = s] /\ got' = [got EXCEPT ![f] = got[f]]
    BY <1>1, <1>3 DEF Open
  <2>2. s \in Conn /\ s.cursor = Len(got[f]) /\ s.page = << >>
    BY <1>2, EmptySeq
  <2>3. Follows(<< >>, Len(got[f]))
    <3>1. Len(<< >>) = 0 /\ Len(got[f]) + 0 <= Len(rows)
      OBVIOUS
    <3> QED
      BY <3>1 DEF Follows
  <2> HIDE DEF s
  <2> QED
    BY <1>1, <2>1, <2>2, <2>3, FollowerMoves
<1>4. CASE ReadPage(f)
  <2>1. PICK p \in {Page(stream[f].cursor)} :
            stream' = [stream EXCEPT ![f] = IF p.error THEN None ELSE [stream[f] EXCEPT !.page = p.events]]
    BY <1>4 DEF ReadPage
  <2>2. stream[f] # None /\ stream[f] \in Conn /\ got' = [got EXCEPT ![f] = got[f]]
    BY <1>1, <1>4 DEF ReadPage
  <2>3. p.events \in Seq(Row) /\ Follows(p.events, Len(got[f]))
    BY <2>2, PageFollows
  <2> DEFINE s == IF p.error THEN None ELSE [stream[f] EXCEPT !.page = p.events]
  <2>4. s \in {None} \cup Conn /\ (s # None => s.cursor = Len(got[f]) /\ s.page = p.events)
    BY <2>2, <2>3
  <2>5. stream' = [stream EXCEPT ![f] = s]
    BY <2>1
  <2> HIDE DEF s
  <2> QED
    BY <1>1, <2>2, <2>3, <2>4, <2>5, FollowerMoves
<1>5. CASE Send(f)
  <2> DEFINE e == Head(stream[f].page)
             g == Append(got[f], e)
             s == [cursor |-> e.seq, page |-> Tail(stream[f].page)]
  <2>1. /\ stream[f] # None /\ stream[f].page # << >>
        /\ got' = [got EXCEPT ![f] = g] /\ stream' = [stream EXCEPT ![f] = s]
    BY <1>1, <1>5 DEF Send
  <2>2. /\ g \in Seq(Row) /\ Follows(g, 0) /\ e.seq = Len(got[f]) + 1 /\ Len(g) = Len(got[f]) + 1
        /\ Tail(stream[f].page) \in Seq(Row) /\ Follows(Tail(stream[f].page), Len(got[f]) + 1)
    BY <2>1, FollowsSend
  <2>3. s \in Conn /\ s.cursor = Len(g) /\ Follows(s.page, s.cursor)
    BY <1>2, <2>2
  <2> HIDE DEF s, g, e
  <2> QED
    BY <1>1, <2>1, <2>2, <2>3, FollowerMoves
<1>6. CASE Disconnect(f)
  <2>1. stream' = [stream EXCEPT ![f] = None] /\ got' = [got EXCEPT ![f] = got[f]]
    BY <1>1, <1>6 DEF Disconnect
  <2> QED
    BY <1>1, <2>1, FollowerMoves
<1>7. CASE ListEvents(f)
  <2> DEFINE p == Page(Len(got[f]))
             g == got[f] \o p.events
  <2>1. /\ stream[f] = None /\ stream' = [stream EXCEPT ![f] = stream[f]]
        /\ got' = [got EXCEPT ![f] = g]
    BY <1>1, <1>7 DEF ListEvents
  <2>2. p.events \in Seq(Row) /\ Follows(p.events, Len(got[f]))
    BY PageFollows
  <2> HIDE DEF p
  <2>3. g \in Seq(Row) /\ Follows(g, 0)
    BY <2>2, FollowsConcat
  <2> HIDE DEF g
  <2> QED
    BY <1>1, <2>1, <2>3, FollowerMoves
<1> QED
  BY <1>3, <1>4, <1>5, <1>6, <1>7

\* Types: the steps of the run and of the writers.
LEMMA WriterTypes ==
    ASSUME Inv,
           \/ GrantLease \/ EndLease \/ Rewind \/ BeginAppend
           \/ \E g \in Owners : BeginDelivery(g)
           \/ \E w \in Writers : Commit(w) \/ Rollback(w)
    PROVE  TypeOK' /\ RowsGrow /\ UNCHANGED readVars
<1>1. TypeOK /\ Numbered /\ \A w \in Writers : TxnSound(w)
  BY DEF Inv, LogInv
<1>2. rows \in Seq(Row) /\ Len(rows) \in Nat
  BY <1>1, LenProperties DEF TypeOK
<1> USE BoundsType
<1>3. CASE GrantLease \/ EndLease \/ Rewind
  <2>1. UNCHANGED <<rows, next, txn, acked, refused, stream, got, drops>>
    BY <1>3 DEF GrantLease, EndLease, Rewind, readVars, logVars
  <2>2. epoch' \in 1..MaxEpoch /\ owner' \in Owners \cup {None} /\ latest' \in 0..MaxOwners
    BY <1>1, <1>3 DEF GrantLease, EndLease, Rewind, TypeOK
  <2> QED
    BY <1>1, <1>2, <2>1, <2>2 DEF TypeOK, RowsGrow, readVars
<1>4. CASE BeginAppend
  <2>1. NewRow(None, <<Platform, acked[Platform] + 1>>) \in Row
    BY <1>1 DEF NewRow, Row, TypeOK
  <2>2. /\ txn' = [txn EXCEPT ![Platform] = NewRow(None, <<Platform, acked[Platform] + 1>>)]
        /\ UNCHANGED <<rows, next, acked, refused, epoch, owner, latest, stream, got, drops>>
    BY <1>4 DEF BeginAppend, readVars, runVars
  <2>3. txn' \in [Writers -> Row \cup {None}]
    BY <1>1, <2>1, <2>2 DEF TypeOK
  <2> QED
    BY <1>1, <1>2, <2>2, <2>3 DEF TypeOK, RowsGrow, readVars
<1>5. ASSUME NEW g \in Owners, BeginDelivery(g) PROVE TypeOK' /\ RowsGrow /\ UNCHANGED readVars
  <2> DEFINE r == NewRow(<<g, acked[g] + 1>>, <<g, acked[g] + 1>>)
  <2>1. r \in Row
    BY <1>1 DEF NewRow, Row, TypeOK
  <2>2. /\ txn' \in {txn, [txn EXCEPT ![g] = r]} /\ acked' \in {acked, [acked EXCEPT ![g] = @ + 1]}
        /\ refused' \in {refused, refused \cup {g}}
        /\ UNCHANGED <<rows, next, runVars, readVars>>
    BY <1>5 DEF BeginDelivery, AppendIdempotent, DeliveryKey
  <2> HIDE DEF r
  <2>3. txn' \in [Writers -> Row \cup {None}]
    BY <1>1, <2>1, <2>2 DEF TypeOK
  <2>4. acked' \in [Writers -> Nat] /\ refused' \subseteq Owners
    BY <1>1, <2>2 DEF TypeOK
  <2> QED
    BY <1>1, <1>2, <2>2, <2>3, <2>4 DEF TypeOK, RowsGrow, readVars, runVars
<1>6. ASSUME NEW w \in Writers, Commit(w) PROVE TypeOK' /\ RowsGrow /\ UNCHANGED readVars
  <2>1. txn[w] \in Row /\ txn[w].seq \in Nat
    BY <1>1, <1>6 DEF Commit, TypeOK, Row
  <2>2. /\ rows' \in Seq(Row) /\ Len(rows') = Len(rows) + 1
        /\ \A i \in 1..Len(rows) : rows'[i] = rows[i]
    BY <1>2, <1>6, <2>1, AppendProperties DEF Commit
  <2>3. /\ acked' \in [Writers -> Nat] /\ txn' \in [Writers -> Row \cup {None}] /\ next' \in Nat \ {0}
        /\ UNCHANGED <<refused, epoch, owner, latest, stream, got, drops>>
    BY SMTT(60), <1>1, <1>6, <2>1 DEF Commit, TypeOK, runVars, readVars
  <2> QED
    BY <1>1, <1>2, <2>2, <2>3 DEF TypeOK, RowsGrow, readVars
<1>7. ASSUME NEW w \in Writers, Rollback(w) PROVE TypeOK' /\ RowsGrow /\ UNCHANGED readVars
  BY <1>1, <1>2, <1>7 DEF Rollback, TypeOK, RowsGrow, readVars, runVars
<1> QED
  BY <1>3, <1>4, <1>5, <1>6, <1>7

\* Types: the steps of the followers.
LEMMA FollowerTypes ==
    ASSUME Inv, ReadInv', NEW f \in Followers,
           Open(f) \/ ReadPage(f) \/ Send(f) \/ Disconnect(f) \/ ListEvents(f)
    PROVE  TypeOK' /\ UNCHANGED <<runVars, logVars>>
<1>1. UNCHANGED <<runVars, logVars>>
  BY DEF Open, ReadPage, Send, Disconnect, ListEvents
<1>2. drops' \in [Followers -> 0..MaxDrops]
  <2>1. drops \in [Followers -> 0..MaxDrops] /\ MaxDrops \in Nat
    BY BoundsType DEF Inv, LogInv, TypeOK
  <2>2. CASE UNCHANGED drops
    BY <2>1, <2>2
  <2>3. CASE Disconnect(f)
    <3>1. drops[f] \in 0..MaxDrops /\ drops[f] < MaxDrops /\ drops' = [drops EXCEPT ![f] = @ + 1]
      BY <2>1, <2>3 DEF Disconnect
    <3> QED
      BY <2>1, <3>1
  <2> QED
    BY <2>2, <2>3 DEF Open, ReadPage, Send, Disconnect, ListEvents
<1>3. \A h \in Followers : stream'[h] = None \/ stream'[h].cursor \in Nat
  BY DEF ReadInv, ReadersTyped
<1> QED
  BY <1>1, <1>2, <1>3 DEF Inv, LogInv, TypeOK, runVars, logVars

-----------------------------------------------------------------------------
(******************************* The theorems ******************************)

LEMMA NextInv == Inv /\ [Next]_vars => Inv'
<1> SUFFICES ASSUME Inv, [Next]_vars PROVE Inv'
  OBVIOUS
<1>1. CASE \/ GrantLease \/ EndLease \/ Rewind \/ BeginAppend
           \/ \E g \in Owners : BeginDelivery(g)
           \/ \E w \in Writers : Commit(w) \/ Rollback(w)
  <2>1. TypeOK' /\ RowsGrow /\ UNCHANGED readVars
    BY <1>1, WriterTypes
  <2>2. LogInv'
    BY <1>1, <2>1, LeaseStep, BeginStep, CommitStep, OtherStep DEF Inv
  <2>3. ReadInv'
    BY <2>1, WriterStep DEF Inv, LogInv, TypeOK
  <2> QED
    BY <2>2, <2>3 DEF Inv
<1>2. ASSUME NEW f \in Followers, Open(f) \/ ReadPage(f) \/ Send(f) \/ Disconnect(f) \/ ListEvents(f)
      PROVE  Inv'
  <2>1. ReadInv'
    BY <1>2, FollowerStep
  <2>2. TypeOK' /\ UNCHANGED <<runVars, logVars>>
    BY <1>2, <2>1, FollowerTypes
  <2> QED
    BY <2>1, <2>2, OtherStep DEF Inv
<1>3. CASE UNCHANGED vars
  <2>1. UNCHANGED <<runVars, logVars>> /\ UNCHANGED readVars
    BY <1>3 DEF vars
  <2>2. TypeOK' /\ RowsGrow
    BY <2>1, LenProperties DEF Inv, LogInv, TypeOK, RowsGrow, runVars, logVars, readVars
  <2> QED
    BY <2>1, <2>2, OtherStep, WriterStep DEF Inv, LogInv, TypeOK
<1> QED
  BY <1>1, <1>2, <1>3 DEF Next

\* However deliveries are repeated after lost answers, across takeovers and
\* rewinds, each is stored once, an acknowledged one is stored, and no lease is
\* told that its key belongs to another event (append_delivery).
THEOREM RepeatsAreHarmless == Spec => []DeliveriesAreIdempotent
<1>1. Inv => DeliveriesAreIdempotent
  BY DEF Inv, LogInv, DeliveriesAreIdempotent
<1> QED
  BY <1>1, InitInv, NextInv, PTL DEF Spec

\* What follows from the first row on, as long as it goes, is a prefix of the rows.
LEMMA FollowsIsPrefix ==
    ASSUME rows \in Seq(Row), NEW s \in Seq(Row), Follows(s, 0)
    PROVE  s = SubSeq(rows, 1, Len(s)) /\ Len(s) \in 0..Len(rows)
<1>1. Len(s) \in Nat /\ Len(rows) \in Nat /\ \A i \in 1..Len(rows) : rows[i] \in Row
  BY LenProperties, ElementOfSeq
<1>2. Len(s) <= Len(rows) /\ \A i \in 1..Len(s) : s[i] = rows[i]
  BY <1>1 DEF Follows
<1>3. 1 \in Int /\ Len(s) \in Int /\ \A i \in 1..Len(s) : rows[i] \in Row
  BY <1>1, <1>2
<1>4. /\ SubSeq(rows, 1, Len(s)) \in Seq(Row)
      /\ Len(SubSeq(rows, 1, Len(s))) = IF 1 <= Len(s) THEN Len(s) - 1 + 1 ELSE 0
      /\ \A i \in 1 .. Len(s) - 1 + 1 : SubSeq(rows, 1, Len(s))[i] = rows[1 + i - 1]
  BY <1>3, SubSeqProperties
<1> DEFINE t == SubSeq(rows, 1, Len(s))
<1> HIDE DEF t
<1>5. t \in Seq(Row) /\ Len(t) = Len(s) /\ \A i \in 1..Len(s) : s[i] = t[i]
  BY <1>1, <1>2, <1>4 DEF t
<1>6. s = t
  BY <1>5, SeqEqual
<1> QED
  BY <1>1, <1>2, <1>6 DEF t

\* A commit publishes the next event of the feed.
LEMMA CommitPublishes ==
    ASSUME Inv, NEW w \in Writers, Commit(w)
    PROVE  Feed!Publish
<1>1. rows \in Seq(Row) /\ txn[w] \in Row /\ rows' = Append(rows, txn[w]) /\ UNCHANGED got
  BY DEF Inv, LogInv, TypeOK, Commit, readVars
<1>2. /\ rows' \in Seq(Row) /\ Len(rows') = Len(rows) + 1 /\ Len(rows) \in Nat
      /\ \A i \in 1..Len(rows) : rows'[i] = rows[i]
  BY <1>1, AppendProperties, LenProperties
<1>3. \A i \in 1..Len(rows) : rows'[i] \in Row
  BY <1>1, <1>2, ElementOfSeq
<1>4. 1 \in Int /\ Len(rows) \in Int
  BY <1>2
<1>5. /\ SubSeq(rows', 1, Len(rows)) \in Seq(Row)
      /\ Len(SubSeq(rows', 1, Len(rows))) = IF 1 <= Len(rows) THEN Len(rows) - 1 + 1 ELSE 0
      /\ \A i \in 1 .. Len(rows) - 1 + 1 : SubSeq(rows', 1, Len(rows))[i] = rows'[1 + i - 1]
  BY <1>3, <1>4, SubSeqProperties
<1> DEFINE t == SubSeq(rows', 1, Len(rows))
<1> HIDE DEF t
<1>6. t \in Seq(Row) /\ Len(t) = Len(rows) /\ \A i \in 1..Len(rows) : t[i] = rows[i]
  BY <1>2, <1>5 DEF t
<1>7. t = rows
  BY <1>1, <1>6, SeqEqual
<1> QED
  BY <1>1, <1>2, <1>7 DEF Feed!Publish, t

\* A follower that gets more than it had receives what comes next in the feed.
LEMMA FollowerReceives ==
    ASSUME Inv, ReadInv', NEW f \in Followers, UNCHANGED rows, NEW g,
           got' = [got EXCEPT ![f] = g], Len(g) > Len(got[f])
    PROVE  Feed!Receive
<1>1. g \in Seq(Row) /\ Follows(g, 0)
  <2>1. got'[f] = g
    BY DEF Inv, ReadInv, ReadersTyped
  <2>2. got'[f] \in Seq(Row) /\ Follows(got'[f], 0)
    BY DEF ReadInv, ReadersTyped, FollowerSound, Follows
  <2> QED
    BY <2>1, <2>2
<1>2. g = SubSeq(rows, 1, Len(g)) /\ Len(g) \in 0..Len(rows)
  BY <1>1, FollowsIsPrefix, FollowerFacts
<1>3. Len(g) \in Len(got[f]) + 1 .. Len(rows)
  BY <1>2, FollowerFacts
<1>4. \E n \in Len(got[f]) + 1 .. Len(rows) : got' = [got EXCEPT ![f] = SubSeq(rows, 1, n)]
  BY <1>2, <1>3
<1> QED
  BY <1>4 DEF Feed!Receive

\* Every step is one of the feed, or leaves it as it is.
LEMMA NextRefines == Inv /\ Inv' /\ [Next]_vars => [Feed!Publish \/ Feed!Receive]_<<rows, got>>
<1> SUFFICES ASSUME Inv, Inv', [Next]_vars
             PROVE  Feed!Publish \/ Feed!Receive \/ UNCHANGED <<rows, got>>
  OBVIOUS
<1>1. CASE \/ GrantLease \/ EndLease \/ Rewind \/ BeginAppend
           \/ \E g \in Owners : BeginDelivery(g)
           \/ \E w \in Writers : Rollback(w)
           \/ UNCHANGED vars
  BY <1>1 DEF GrantLease, EndLease, Rewind, BeginAppend, BeginDelivery, Rollback, vars, logVars, readVars
<1>2. CASE \E w \in Writers : Commit(w)
  BY <1>2, CommitPublishes
<1>3. ASSUME NEW f \in Followers, Open(f) \/ ReadPage(f) \/ Disconnect(f) PROVE UNCHANGED <<rows, got>>
  BY <1>3 DEF Open, ReadPage, Disconnect, logVars
<1>4. ASSUME NEW f \in Followers, Send(f) PROVE Feed!Receive
  <2> DEFINE g == Append(got[f], Head(stream[f].page))
  <2>1. got' = [got EXCEPT ![f] = g] /\ UNCHANGED rows /\ stream[f] # None /\ stream[f].page # << >>
    BY <1>4 DEF Send, logVars
  <2>2. Head(stream[f].page) \in Row
    BY <2>1, FollowerFacts, HeadTailProperties
  <2>3. Len(g) > Len(got[f])
    BY <2>2, FollowerFacts, AppendProperties
  <2> HIDE DEF g
  <2> QED
    BY <2>1, <2>3, FollowerReceives DEF Inv
<1>5. ASSUME NEW f \in Followers, ListEvents(f) PROVE Feed!Receive
  <2> DEFINE p == Page(Len(got[f]))
             g == got[f] \o p.events
  <2>1. got' = [got EXCEPT ![f] = g] /\ UNCHANGED rows /\ p.events # << >>
    BY <1>5, FollowerFacts DEF ListEvents, logVars
  <2>2. p.events \in Seq(Row)
    BY FollowerFacts, PageFollows
  <2>3. Len(p.events) \in Nat \ {0} /\ Len(got[f]) \in Nat
    BY <2>1, <2>2, EmptySeq, FollowerFacts
  <2> HIDE DEF p
  <2>4. Len(g) = Len(got[f]) + Len(p.events)
    BY <2>2, FollowerFacts, ConcatProperties
  <2> HIDE DEF g
  <2>5. ASSUME NEW a \in Nat, NEW b \in Nat \ {0}, NEW c, c = a + b PROVE c > a
    BY <2>5
  <2>6. Len(g) > Len(got[f])
    BY <2>3, <2>4, <2>5
  <2> QED
    BY <2>1, <2>6, FollowerReceives DEF Inv
<1> QED
  BY <1>1, <1>2, <1>3, <1>4, <1>5 DEF Next

\* The event store is a feed: commits add one event each, in the order of their
\* sequences, and whatever a follower reads, over however many connections, is
\* a growing prefix of them (append, _read_page, stream, list_events).
THEOREM EventStoreIsAFeed == Spec => ImplementsFeed
<1>1. Init => Feed!Init
  BY DEF Init, Feed!Init
<1> QED
  BY <1>1, InitInv, NextInv, NextRefines, PTL DEF Spec, ImplementsFeed, Feed!Spec
=============================================================================
