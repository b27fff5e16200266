------------------------------ MODULE EventLog ------------------------------
(***************************************************************************)
(* The durable events of one run (event_store/postgres.py): appends under  *)
(* the run's row lock, delivery keys, the lease fence, and followers that  *)
(* page through the sequence over HTTP or a web socket                     *)
(* (agent_api/event_app.py) and reconnect with their last cursor.          *)
(*                                                                         *)
(* A write transaction is two steps: it locks and reads the run's row,     *)
(* then it commits or is rolled back.  Readers see committed rows only,    *)
(* and one statement reads one snapshot.                                   *)
(***************************************************************************)
EXTENDS Integers, Sequences, FiniteSets, FiniteSetsExt, SequencesExt

CONSTANTS
    MaxOwners,    \* lease generations of the run
    Followers,    \* clients that follow the run's events
    EventBytes,   \* serialized size of the n-th event of an owner, n \in 1..Len(EventBytes)
    PageLimit,    \* events per page
    PageBytes,    \* bytes per page, without the envelope
    MaxPlain,     \* bounds of the exploration: appends without a delivery key,
    MaxEpoch,     \* rewinds (the first epoch included)
    MaxDrops,     \* and broken connections per follower
    None

ASSUME BoundsType == /\ MaxOwners \in Nat /\ PageLimit \in Nat \ {0} /\ PageBytes \in Nat
                     /\ MaxPlain \in Nat /\ MaxEpoch \in Nat \ {0} /\ MaxDrops \in Nat
\* MIN_EVENT_PAGE_BYTES: a page has room for the largest event.
ASSUME OneEventFits == \A n \in DOMAIN EventBytes : EventBytes[n] \in 1..PageBytes

Owners == 1..MaxOwners
Platform == 0               \* the writer of events without a lease
Writers == Owners \cup {Platform}

VARIABLES
    rows,    \* the committed rows of agent_events, as they were committed
    next,    \* runs.next_event_sequence
    epoch,   \* runs.execution_epoch
    owner,   \* the generation whose lease is active, or None
    latest,  \* the generation of the last lease
    txn,     \* txn[w]: the writer's transaction in progress, or None
    acked,   \* acked[w]: how many of its events the writer knows to be stored
    refused, \* the writers that were told event_delivery_conflict
    stream,  \* stream[f]: the server's side of a connection, or None
    got,     \* got[f]: what the follower has received
    drops    \* drops[f]: connections lost so far

runVars == <<epoch, owner, latest>>
logVars == <<rows, next, txn, acked, refused>>
readVars == <<stream, got, drops>>
vars == <<runVars, logVars, readVars>>

Row == [seq : Nat, epoch : 1..MaxEpoch, key : (Owners \X Nat) \cup {None}, data : Writers \X Nat]

\* None is no lease, no delivery key, no row and no connection.
ASSUME NoneIsNoValue ==
    None \notin Writers \cup (Owners \X Nat) \cup Row \cup [cursor : Nat, page : Seq(Row)]

Init ==
    /\ rows = << >> /\ next = 1 /\ epoch = 1 /\ owner = None /\ latest = 0
    /\ txn = [w \in Writers |-> None]
    /\ acked = [w \in Writers |-> 0]
    /\ refused = {}
    /\ stream = [f \in Followers |-> None]
    /\ got = [f \in Followers |-> << >>]
    /\ drops = [f \in Followers |-> 0]

RowNeverLocked == TRUE

\* The run's row is not locked by a transaction in progress.
RowFree == \A w \in Writers : txn[w] = None

-----------------------------------------------------------------------------
(*************************** The run and its leases ************************)

\* The scheduler's transactions on the run row (module RunQueue): a lease with
\* a new generation, its end, and a rewind to a new epoch.
GrantLease ==
    /\ RowFree /\ owner = None /\ latest < MaxOwners
    /\ latest' = latest + 1 /\ owner' = latest + 1
    /\ UNCHANGED <<epoch, logVars, readVars>>

EndLease ==
    /\ RowFree /\ owner # None
    /\ owner' = None
    /\ UNCHANGED <<epoch, latest, logVars, readVars>>

Rewind ==
    /\ RowFree /\ owner = None /\ latest > 0 /\ epoch < MaxEpoch
    /\ epoch' = epoch + 1
    /\ UNCHANGED <<owner, latest, logVars, readVars>>

-----------------------------------------------------------------------------
(********************************* Appends *********************************)

\* RunExecutor._delivery_key: the attempt and generation of the lease and the
\* sequence that the loop gave the event.
DeliveryKey(g, n) == <<g, n>>

NothingStored(key) == {}

\* _append_idempotent: the row that the transaction answers with.
Stored(key) == {r \in Range(rows) : r.epoch = epoch /\ r.key = key}

NewRow(key, data) == [seq |-> next, epoch |-> epoch, key |-> key, data |-> data]

\* append: UPDATE ... RETURNING locks the row and allocates the sequence.
BeginAppend ==
    /\ RowFree /\ acked[Platform] < MaxPlain
    /\ txn' = [txn EXCEPT ![Platform] = NewRow(None, <<Platform, acked[Platform] + 1>>)]
    /\ UNCHANGED <<rows, next, acked, refused, runVars, readVars>>

\* _append_idempotent under the row lock: insert, answer with the stored row, or
\* refuse a key that belongs to other data.
AppendIdempotent(w, key, data) ==
    \/ /\ Stored(key) = {}
       /\ txn' = [txn EXCEPT ![w] = NewRow(key, data)]
       /\ UNCHANGED <<acked, refused>>
    \/ /\ \E r \in Stored(key) : r.data = data
       /\ acked' = [acked EXCEPT ![w] = @ + 1]
       /\ UNCHANGED <<txn, refused>>
    \/ /\ \E r \in Stored(key) : r.data # data
       /\ refused' = refused \cup {w}
       /\ UNCHANGED <<txn, acked>>

\* append_idempotent_fenced by lease g, of its event n: the first one it does
\* not know to be stored, or, after a lost answer, that one again.
BeginDelivery(g) ==
    LET n == acked[g] + 1
    IN  /\ RowFree /\ owner = g /\ n \in DOMAIN EventBytes /\ g \notin refused
        /\ AppendIdempotent(g, DeliveryKey(g, n), <<g, n>>)
        /\ UNCHANGED <<rows, next, runVars, readVars>>

\* The transaction commits; the writer is told, or the answer is lost and it
\* delivers the event again.  A plain append is not repeated.
Commit(w) ==
    /\ txn[w] # None
    /\ rows' = Append(rows, txn[w])
    /\ next' = txn[w].seq + 1
    /\ \/ acked' = [acked EXCEPT ![w] = @ + 1]
       \/ w # Platform /\ UNCHANGED acked
    /\ txn' = [txn EXCEPT ![w] = None]
    /\ UNCHANGED <<refused, runVars, readVars>>

Rollback(w) ==
    /\ txn[w] # None
    /\ txn' = [txn EXCEPT ![w] = None]
    /\ UNCHANGED <<rows, next, acked, refused, runVars, readVars>>

-----------------------------------------------------------------------------
(******************************** Followers ********************************)

Sorted(s) == SortSeq(s, LAMBDA q, r : q.seq < r.seq)

\* ORDER BY sequence; rows that are in order stay as they are.
InOrder(s) == IF \A i, j \in DOMAIN s : i < j => s[i].seq <= s[j].seq THEN s ELSE Sorted(s)

\* WHERE sequence > cursor
After(cursor) ==
    SubSeq(InOrder(rows), Cardinality({i \in DOMAIN rows : rows[i].seq <= cursor}) + 1, Len(rows))

RowBytes(r) == IF r.data[1] = Platform THEN 1 ELSE EventBytes[r.data[2]]

BytesOf(s) == FoldSeq(LAMBDA r, n : RowBytes(r) + n, 0, s)

FitsBelow(s) == BytesOf(s) < PageBytes

\* A page may be full to the last byte.
Fits(s) == BytesOf(s) <= PageBytes

\* EventPage.validate_cursor: what a page must be to be sent.
EventPageValid(s) ==
    /\ \A i \in 1..Len(s) - 1 : s[i + 1].seq = s[i].seq + 1
    /\ BytesOf(s) <= PageBytes

\* _read_page: the longest run of rows after the cursor that respects both
\* limits.  A gap among the rows it looks at, one more than it keeps, is an error.
Page(cursor) ==
    LET all == After(cursor)
        kept == CHOOSE n \in 0..Min({PageLimit, Len(all)}) :
                    /\ n = 0 \/ Fits(SubSeq(all, 1, n))
                    /\ n = Min({PageLimit, Len(all)}) \/ ~Fits(SubSeq(all, 1, n + 1))
        looked == Min({kept + 1, Len(all)})
        events == SubSeq(all, 1, kept)
    IN  [error |-> ~EventPageValid(events) \/ \E i \in 1..looked : all[i].seq # cursor + i,
         events |-> events]

LastSeq(s) == IF s = << >> THEN 0 ELSE Last(s).seq

\* stream_events: the socket is accepted with the follower's last sequence.
Open(f) ==
    /\ stream[f] = None
    /\ stream' = [stream EXCEPT ![f] = [cursor |-> LastSeq(got[f]), page |-> << >>]]
    /\ UNCHANGED <<got, drops, runVars, logVars>>

\* stream(): the next page, when the last one has been sent.  An empty page is
\* followed by a poll; an error closes the socket.
ReadPage(f) ==
    /\ stream[f] # None /\ stream[f].page = << >>
    /\ \E p \in {Page(stream[f].cursor)} :
           /\ p.error \/ p.events # << >>
           /\ stream' = [stream EXCEPT ![f] = IF p.error THEN None ELSE [@ EXCEPT !.page = p.events]]
    /\ UNCHANGED <<got, drops, runVars, logVars>>

\* One event goes out on the socket.
Send(f) ==
    /\ stream[f] # None /\ stream[f].page # << >>
    /\ LET e == Head(stream[f].page)
       IN  /\ got' = [got EXCEPT ![f] = Append(@, e)]
           /\ stream' = [stream EXCEPT ![f] = [cursor |-> e.seq, page |-> Tail(@.page)]]
    /\ UNCHANGED <<drops, runVars, logVars>>

\* The connection breaks, or the service stops (_drain_event_sockets): the
\* rest of the page is lost.
Disconnect(f) ==
    /\ stream[f] # None /\ drops[f] < MaxDrops
    /\ stream' = [stream EXCEPT ![f] = None]
    /\ drops' = [drops EXCEPT ![f] = @ + 1]
    /\ UNCHANGED <<got, runVars, logVars>>

\* list_events: a page over HTTP, after the last sequence the client has.
ListEvents(f) ==
    /\ stream[f] = None
    /\ LET p == Page(LastSeq(got[f]))
       IN  /\ ~p.error /\ p.events # << >>
           /\ got' = [got EXCEPT ![f] = @ \o p.events]
    /\ UNCHANGED <<stream, drops, runVars, logVars>>

-----------------------------------------------------------------------------
Next ==
    \/ GrantLease \/ EndLease \/ Rewind \/ BeginAppend
    \/ \E g \in Owners : BeginDelivery(g)
    \/ \E w \in Writers : Commit(w) \/ Rollback(w)
    \/ \E f \in Followers : Open(f) \/ ReadPage(f) \/ Send(f) \/ Disconnect(f) \/ ListEvents(f)

\* A client that lost its connection opens another one, and the server goes on
\* reading and sending; nothing is asked of the writers.
Fairness == \A f \in Followers : WF_vars(Open(f) \/ ReadPage(f) \/ Send(f))

Spec == Init /\ [][Next]_vars /\ Fairness

-----------------------------------------------------------------------------
TypeOK ==
    /\ rows \in Seq(Row) /\ next \in Nat \ {0} /\ epoch \in 1..MaxEpoch
    /\ owner \in Owners \cup {None} /\ latest \in 0..MaxOwners
    /\ txn \in [Writers -> Row \cup {None}]
    /\ acked \in [Writers -> Nat] /\ refused \subseteq Owners
    /\ \A f \in Followers : stream[f] = None \/ stream[f].cursor \in Nat
    /\ drops \in [Followers -> 0..MaxDrops]

\* The run's stored events as they were committed, and what each follower has received.
Feed == INSTANCE EventFeed WITH log <- rows, seen <- got

\* The event store keeps its promise to followers: whatever is repeated, rolled
\* back, rewound or disconnected, the run's events form one growing log without
\* gaps, and a follower has received exactly a prefix of it (EventFeed).
ImplementsFeed == Feed!Spec

\* A delivery repeated after a lost answer is never stored a second time, in
\* any epoch, and one that was acknowledged is stored.
EachDeliveryStoredOnce ==
    /\ \A i, j \in DOMAIN rows : rows[i].data = rows[j].data => i = j
    /\ \A g \in Owners : \A n \in 1..acked[g] : \E r \in Range(rows) : r.data = <<g, n>>

\* Keys name the event: no lease is told that its key belongs to another
\* lease's event (event_delivery_conflict), after a takeover or a rewind.
OwnerNeverConflicts == refused = {}

\* Every stored event reaches every follower that keeps reconnecting.
FollowersCatchUp ==
    \A f \in Followers : \A n \in 1..(MaxOwners * Len(EventBytes) + MaxPlain) :
        next > n ~> Len(got[f]) >= n

\* Repeating a delivery is harmless: it is stored once, its sender is acknowledged, never refused
\* (append_delivery, for any order of repeats, takeovers and rewinds).
DeliveriesAreIdempotent == TypeOK /\ EachDeliveryStoredOnce /\ OwnerNeverConflicts
=============================================================================
