------------------------------ MODULE Gateway ------------------------------
(***************************************************************************)
(* The gateway client of the worker processes and the tables it shares:    *)
(* the request store that makes a model request idempotent, the capacity   *)
(* leases with their token window, the rate limiter, the circuit breaker   *)
(* and the model-call journal, for one route.                              *)
(*                                                                         *)
(* A call is one execution of GatewayClient.stream.  Calls of different    *)
(* clients (and of one client) interleave at every await.  Each database   *)
(* transaction is one step, except acquire and release of a capacity       *)
(* lease: they take two row locks in opposite orders, so each is two       *)
(* steps, and the lock the first one took is read off the call's phase.    *)
(***************************************************************************)
EXTENDS Integers, FiniteSets, FiniteSetsExt, Functions

CONSTANTS
  Calls,            \* the calls, numbered
  Clients, Tenants, \* the worker processes; the tenants
  Inputs,           \* Inputs[c]: the client, tenant, request ID and request hash c may come with
  LocalSlots,       \* max_concurrent_requests of one client
  MaxAttempts,      \* max_attempts
  RateLimit,        \* requests_per_window
  TenantLimit,      \* max_gateway_requests of a tenant
  RouteLimit,       \* provider_request_limit
  TokenLimit,       \* provider_token_limit
  Reserved,         \* tokens reserved for a request
  Usage,            \* the token counts a response may report
  FailureThreshold, \* circuit_failure_threshold
  Lease, Window, Recovery, \* durations: capacity lease, token and rate window, circuit recovery
  Lag,              \* how far the time of a rate or circuit transaction may lie behind its commit
  MaxTime, MaxFaults \* bounds of the instance: the clock; cancellations, failures, crashes, closings

ASSUME GatewayAssumption ==
  /\ Calls \subseteq Nat \ {0} /\ IsFiniteSet(Calls)
  /\ \A n \in {LocalSlots, MaxAttempts, RateLimit, TenantLimit, RouteLimit, FailureThreshold,
               Lease, Window, Recovery, MaxTime} : n \in Nat \ {0}
  /\ {TokenLimit, Reserved, Lag, MaxFaults} \subseteq Nat /\ Lag < MaxTime /\ Usage \subseteq Nat
  /\ Inputs \in [Calls -> SUBSET [client : Clients, tenant : Tenants, request : Nat, hash : Nat]]

AllInputs == UNION {Inputs[c] : c \in Calls}
Requests == {<<i.tenant, i.request>> : i \in AllInputs}
NoInput == [client |-> "none", tenant |-> 0, request |-> 0, hash |-> 0]

VARIABLES
  now,      \* the clock
  client,   \* client[k]: "open", "cleanup" (_cleanup_required) or "closed"
  phase,    \* phase[c]: where the call is
  call,     \* call[c]: the local variables of stream
  beat,     \* beat[c]: the heartbeat task: Off, Asleep, or the expiry of a renewal not yet heard of
  request,  \* gateway_requests
  attributed, \* the requests with a completed row in model_calls
  rate,     \* gateway_rate_limits, a row per tenant
  lease,    \* gateway_capacity_leases, by the call that inserted the row
  route,    \* the gateway_provider_capacity row
  circuit,  \* the gateway_circuits row
  bill,     \* history: what lease l has charged, and to which token window
  probed,   \* history: when the last probe of the circuit was let through
  faults    \* how many cancellations, failures, crashes and closings there were
vars == <<now, client, phase, call, beat, request, attributed, rate, lease, route, circuit, bill,
          probed, faults>>
stores == <<request, attributed, rate, lease, route, circuit, bill, probed>>

Off == -1
Asleep == 0
NoRow == [status |-> "none", hash |-> 0, events |-> {}]
NoLease == [expires |-> 0, window |-> 0]
NoBill == [window |-> 0, tokens |-> 0]

-----------------------------------------------------------------------------
(* State. *)

Request(c) == <<call[c].input.tenant, call[c].input.request>>

Local == [input: AllInputs \union {NoInput}, id: Calls \union {0}, expires: Nat, at: Nat, slot: BOOLEAN, contacted: BOOLEAN,
          completed: BOOLEAN, durable: BOOLEAN, doomed: BOOLEAN, final: BOOLEAN, attempt: Nat,
          events: SUBSET Nat, usage: Nat]

LiveState == [input |-> NoInput, id |-> 0, expires |-> 0, at |-> 0, slot |-> FALSE, contacted |-> FALSE,
              completed |-> FALSE, durable |-> FALSE, doomed |-> FALSE, final |-> FALSE,
              attempt |-> 1, events |-> {}, usage |-> 0]

GatewayRequestRow == [status: {"none", "in_progress", "completed", "failed"}, hash: Nat,
                      events: SUBSET Nat]

Phases == {"new", "rate", "slot", "acquire", "acquiring", "circuit", "attempt", "retry", "complete",
           "attribute", "replay", "release", "releasing", "book",
           "delivered", "failed", "crashed"}
Ended == {"delivered", "failed", "crashed"}

CapacityRow == [window: Nat, accounted: Nat, updated: Nat]
CircuitRow == [failures: Nat, opened: Nat, probe: BOOLEAN, started: Nat]
RateRow == [started: Nat, count: Nat]
CapacityLeaseRow == [expires: Nat, window: Nat]

Init ==
  /\ now = 1 + Lag /\ probed = 0 /\ faults = 0
  /\ client = [k \in Clients |-> "open"]
  /\ phase = [c \in Calls |-> "new"]
  /\ call = [c \in Calls |-> LiveState]
  /\ beat = [c \in Calls |-> Off]
  /\ request = [r \in Requests |-> NoRow]
  /\ attributed = {}
  /\ rate = [t \in Tenants |-> [started |-> now, count |-> 0]]
  /\ lease = [c \in Calls |-> NoLease]
  /\ route = [window |-> now, accounted |-> 0, updated |-> now]
  /\ circuit = [failures |-> 0, opened |-> 0, probe |-> FALSE, started |-> 0]
  /\ bill = [c \in Calls |-> NoBill]

Live(l) == lease[l] # NoLease

MutUnwoundKeepsSlot(local) ==
  [local EXCEPT !.at = now, !.final = TRUE, !.attempt = 1, !.events = {},
                !.usage = IF local.contacted THEN Reserved ELSE 0]

\* The finally block of stream: the heartbeat is stopped, whatever it is doing, the clock of the
\* release is read, and the tokens it will report are those reserved once the provider was contacted.
Unwound(local) ==
  [local EXCEPT !.at = now, !.final = TRUE, !.attempt = 1, !.events = {},
                !.slot = @ /\ local.id # 0,
                !.usage = IF local.contacted THEN Reserved ELSE 0]

StopCapacityHeartbeat(c) == [beat EXCEPT ![c] = Off]

\* The call goes on to phase p with these locals; "stop" is the way into the finally block.
Continue(c, p, local) ==
  /\ phase' = [phase EXCEPT ![c] = IF p # "stop" THEN p ELSE IF local.id # 0 THEN "release" ELSE "book"]
  /\ call' = [call EXCEPT ![c] = IF p # "stop" THEN local ELSE Unwound(local)]
  /\ beat' = IF p = "stop" THEN StopCapacityHeartbeat(c) ELSE beat

CleanupRequired(c) ==
  client' = [client EXCEPT ![call[c].input.client] = IF @ = "open" THEN "cleanup" ELSE @]

-----------------------------------------------------------------------------
(* Claiming the request. *)

RequireAvailable(k) == client[k] = "open"

Inserted(i) == [status |-> "in_progress", hash |-> i.hash, events |-> {}]

MutReplayAnyPayload(row, i) ==
  IF row = NoRow THEN "rate" ELSE IF row.status = "completed" THEN "replay" ELSE "failed"

\* The ways a claim ends: executing, replaying a completed request of the same payload, or an error.
StoredEventsOrRaise(row, i) ==
  IF row = NoRow THEN "rate"
  ELSE IF row.hash = i.hash /\ row.status = "completed" THEN "replay" ELSE "failed"

Claim(c, i) ==
  LET r == <<i.tenant, i.request>>
      available == RequireAvailable(i.client)
  IN
  /\ phase[c] = "new"
  /\ Continue(c, IF available THEN StoredEventsOrRaise(request[r], i) ELSE "failed",
              [LiveState EXCEPT !.input = i])
  /\ request' = [request EXCEPT ![r] = IF available /\ @ = NoRow THEN Inserted(i) ELSE @]
  /\ UNCHANGED <<now, client, attributed, rate, lease, route, circuit, bill, probed, faults>>

\* The answer to a claim is lost, or the call is cancelled before it arrives: nothing is undone.
ClaimAnswerLost(c, i) ==
  LET r == <<i.tenant, i.request>> IN
  /\ phase[c] = "new" /\ RequireAvailable(i.client) /\ request[r] = NoRow
  /\ faults < MaxFaults /\ faults' = faults + 1
  /\ request' = [request EXCEPT ![r] = Inserted(i)]
  /\ Continue(c, "failed", [LiveState EXCEPT !.input = i])
  /\ UNCHANGED <<now, client, attributed, rate, lease, route, circuit, bill, probed>>

\* A completed request is attributed again and its events are handed out.
Replay(c) ==
  /\ phase[c] = "replay"
  /\ attributed' = attributed \union {Request(c)}
  /\ Continue(c, "delivered", [call[c] EXCEPT !.events = request[Request(c)].events])
  /\ UNCHANGED <<now, client, request, rate, lease, route, circuit, bill, probed, faults>>

-----------------------------------------------------------------------------
(* Admission: the rate window, the local slot, the capacity lease. *)

\* The limiter and the circuit breaker read their host's clock before they wait for a session and for
\* the lock of the row, and another host's clock may be ahead: a time that lies behind the commit.
Stamps == (now - Lag)..now

RateWindowOver(row, t) == t - row.started >= Window
RateLimited(row, t) == ~RateWindowOver(row, t) /\ row.count >= RateLimit

\* The fixed window of a tenant: begun anew, full, or counted up.
RateRowAfter(row, t) ==
  IF RateWindowOver(row, t) THEN [started |-> t, count |-> 1]
  ELSE IF RateLimited(row, t) THEN row ELSE [row EXCEPT !.count = @ + 1]

EnforceRateLimit(c) ==
  LET t == call[c].input.tenant IN
  /\ phase[c] = "rate"
  /\ \E at \in Stamps :
       /\ rate' = [rate EXCEPT ![t] = RateRowAfter(@, at)]
       /\ Continue(c, IF RateLimited(rate[t], at) THEN "stop" ELSE "slot", call[c])
  /\ UNCHANGED <<now, client, request, attributed, lease, route, circuit, bill, probed, faults>>

SlotsTaken(k) == Cardinality({c \in Calls : call[c].input.client = k /\ call[c].slot})

\* The semaphore; then the client is asked again, and acquire reads its clock.
AcquireSlot(c) ==
  /\ phase[c] = "slot" /\ SlotsTaken(call[c].input.client) < LocalSlots
  /\ Continue(c, IF RequireAvailable(call[c].input.client) THEN "acquire" ELSE "stop",
              [call[c] EXCEPT !.slot = TRUE, !.at = now])
  /\ UNCHANGED <<now, client, faults, stores>>

RouteLocked == \E d \in Calls : phase[d] = "acquiring"
LeaseLocked(l) == \E d \in Calls : phase[d] = "releasing" /\ call[d].id = l

\* acquire locks the tenant's quota row and the route row ...
LockRoute(c) ==
  /\ phase[c] = "acquire" /\ ~RouteLocked
  /\ Continue(c, "acquiring", call[c])
  /\ UNCHANGED <<now, client, faults, stores>>

\* ... and then every lease it deletes, and the one of the same request.
Expired(t) == {l \in Calls : Live(l) /\ lease[l].expires <= t}
Existing(c, kept) == {l \in kept : Request(l) = Request(c)}
WaitsFor(c, l) ==
  /\ call[c].at >= route.updated
  /\ l \in Expired(call[c].at) \/ Request(l) = Request(c)

ResetTokenWindow(r, t) ==
  IF t - r.window >= Window THEN [window |-> t, accounted |-> 0, updated |-> t] ELSE r

LeasesOfTenant(c, kept) == {l \in kept : call[l].input.tenant = call[c].input.tenant}

Full(c, kept) ==
  Cardinality(LeasesOfTenant(c, kept)) >= TenantLimit \/ Cardinality(kept) >= RouteLimit

\* What acquire decides: the lease the call gets (0 for none) and the rows it leaves.
AcquireResult(c) ==
  LET t == call[c].at
      kept == {l \in Calls : Live(l)} \ Expired(t)
      reset == ResetTokenWindow(route, t)
      refused == [id |-> 0, lease |-> lease, route |-> route, bill |-> bill]
      pruned == [refused EXCEPT !.lease = [l \in Calls |-> IF l \in kept THEN lease[l] ELSE NoLease]]
  IN
  IF t < route.updated THEN refused  \* "capacity clock may not move backward"
  ELSE IF Existing(c, kept) # {} THEN [pruned EXCEPT !.id = Min(Existing(c, kept))]
  ELSE IF Full(c, kept) THEN pruned
  ELSE IF reset.accounted + Reserved > TokenLimit THEN [pruned EXCEPT !.route = reset]
  ELSE [id |-> c,
        lease |-> [pruned.lease EXCEPT ![c] = [expires |-> t + Lease, window |-> reset.window]],
        route |-> [reset EXCEPT !.accounted = @ + Reserved, !.updated = t],
        bill |-> [bill EXCEPT ![c] = [window |-> reset.window, tokens |-> Reserved]]]

\* told is FALSE when the transaction commits and the caller never hears of it.
Acquire(c, told) ==
  /\ phase[c] = "acquiring" /\ ~\E l \in Calls : LeaseLocked(l) /\ WaitsFor(c, l)
  /\ told \/ faults < MaxFaults
  /\ faults' = IF told THEN faults ELSE faults + 1
  /\ \E result \in {AcquireResult(c)} :
       /\ lease' = result.lease /\ route' = result.route /\ bill' = result.bill
       /\ IF told /\ result.id # 0
          THEN /\ phase' = [phase EXCEPT ![c] = "circuit"]
               /\ call' = [call EXCEPT ![c].id = result.id, ![c].at = 0,
                                       ![c].expires = result.lease[result.id].expires]
               /\ beat' = [beat EXCEPT ![c] = Asleep]
          ELSE Continue(c, "stop", call[c])
  /\ UNCHANGED <<now, client, request, attributed, rate, circuit, probed>>

-----------------------------------------------------------------------------
(* The provider: circuit, attempts, retries. *)

RecoveryOver(t) == t - circuit.opened >= Recovery
ProbeOwned(t) == circuit.probe /\ t - circuit.started < Recovery
Allowed(t) == circuit.opened = 0 \/ (RecoveryOver(t) /\ ~ProbeOwned(t))
Allow(t) == circuit' = IF Allowed(t) /\ circuit.opened # 0
                       THEN [circuit EXCEPT !.probe = TRUE, !.started = t] ELSE circuit

MutRecordFailureOpensOnce(t) ==
  LET failures == Min({circuit.failures + 1, FailureThreshold}) IN
  circuit' = [failures |-> failures, probe |-> FALSE, started |-> 0,
              opened |-> IF failures >= FailureThreshold /\ circuit.opened = 0 THEN t ELSE circuit.opened]

\* Counting stops at the threshold: no larger count is told apart.
RecordFailure(t) ==
  LET failures == Min({circuit.failures + 1, FailureThreshold}) IN
  circuit' = [failures |-> failures, probe |-> FALSE, started |-> 0,
              opened |-> IF failures >= FailureThreshold THEN t ELSE circuit.opened]

RecordSuccess == circuit' = [failures |-> 0, opened |-> 0, probe |-> FALSE, started |-> 0]

\* Before the first attempt and before each retry.
RequireClosedCircuit(c) ==
  /\ phase[c] \in {"circuit", "retry"}
  /\ \E t \in Stamps :
       /\ Allow(t)
       /\ probed' = IF Allowed(t) /\ circuit.opened # 0 THEN now ELSE probed
       /\ Continue(c, IF Allowed(t) THEN "attempt" ELSE "stop",
                   [call[c] EXCEPT !.contacted = @ \/ Allowed(t)])
  /\ UNCHANGED <<now, client, request, attributed, rate, lease, route, bill, faults>>

Streamed(c, streamed) == IF streamed THEN call[c].events \union {call[c].attempt} ELSE call[c].events

CanRetry(c, streamed, retryable) == ~streamed /\ retryable /\ call[c].attempt < MaxAttempts

\* The attempt ends in an error (an opaque failure, an invalid or an incomplete stream), after it
\* streamed events, which the caller has from then on, or before.
AttemptFails(c, streamed, retryable) ==
  /\ phase[c] = "attempt"
  /\ IF retryable THEN \E t \in Stamps : RecordFailure(t) ELSE UNCHANGED circuit
  /\ IF CanRetry(c, streamed, retryable)
     THEN Continue(c, "retry", [call[c] EXCEPT !.attempt = @ + 1, !.events = Streamed(c, streamed)])
     ELSE Continue(c, "stop", call[c])
  /\ UNCHANGED <<now, client, request, attributed, rate, lease, route, bill, probed, faults>>

\* The terminal event arrives with its usage; it is kept back until it is durable.
AttemptEnds(c) ==
  /\ phase[c] = "attempt"
  /\ RecordSuccess
  /\ \E n \in Usage :
       Continue(c, "complete", [call[c] EXCEPT !.usage = n, !.events = Streamed(c, TRUE)])
  /\ UNCHANGED <<now, client, request, attributed, rate, lease, route, bill, probed, faults>>

-----------------------------------------------------------------------------
(* Committing the response. *)

Owned(c) ==
  request[Request(c)].status = "in_progress" /\ request[Request(c)].hash = call[c].input.hash

Completed(c) ==
  request' = [request EXCEPT ![Request(c)] =
                IF Owned(c) THEN [@ EXCEPT !.status = "completed", !.events = call[c].events] ELSE @]

\* A cancelled call waits for the shielded commit and then stops.  An answer may be lost.
CompleteRequest(c, told) ==
  /\ phase[c] = "complete"
  /\ told \/ faults < MaxFaults
  /\ faults' = IF told THEN faults ELSE faults + 1
  /\ Completed(c)
  /\ Continue(c, IF told /\ Owned(c) /\ ~call[c].doomed THEN "attribute" ELSE "stop",
              [call[c] EXCEPT !.durable = told /\ Owned(c)])
  /\ IF call[c].doomed /\ ~(told /\ Owned(c)) THEN CleanupRequired(c) ELSE UNCHANGED client
  /\ UNCHANGED <<now, attributed, rate, lease, route, circuit, bill, probed>>

\* The model call is recorded; then the heartbeat is stopped for the release before the terminal event.
AttributeModelCall(c) ==
  /\ phase[c] = "attribute"
  /\ attributed' = attributed \union {Request(c)}
  /\ phase' = [phase EXCEPT ![c] = "release"]
  /\ call' = [call EXCEPT ![c].completed = TRUE, ![c].at = now]
  /\ beat' = StopCapacityHeartbeat(c)
  /\ UNCHANGED <<now, client, request, rate, lease, route, circuit, bill, probed, faults>>

-----------------------------------------------------------------------------
(* Giving back the capacity lease. *)

\* What is left of a call that ended: its input, whether the provider saw it, what it handed out.
Remains(c) == [LiveState EXCEPT !.input = call[c].input, !.contacted = call[c].contacted,
                                !.events = call[c].events, !.slot = call[c].slot]

\* After the release: the terminal event is handed over, or the bookkeeping of a call that failed.
AfterRelease(c) ==
  IF call[c].final \/ call[c].doomed
  THEN Continue(c, "book", [call[c] EXCEPT !.id = 0, !.expires = 0, !.at = 0, !.usage = 0, !.slot = FALSE])
  ELSE Continue(c, "delivered", [Remains(c) EXCEPT !.slot = FALSE])

\* A release that fails blocks the client; the finally block tries once more.
ReleaseFails(c) ==
  /\ CleanupRequired(c)
  /\ IF call[c].final THEN AfterRelease(c) ELSE Continue(c, "stop", call[c])

\* Whether the row is the lease the client knows.
SameLease(c, l) == Live(l) /\ lease[l].expires = call[c].expires

LockLease(c) ==
  LET l == call[c].id IN
  /\ phase[c] = "release" /\ ~LeaseLocked(l)
  /\ \/ ~Live(l) /\ AfterRelease(c) /\ UNCHANGED client
     \/ Live(l) /\ ~SameLease(c, l) /\ ReleaseFails(c)
     \/ SameLease(c, l) /\ Continue(c, "releasing", call[c]) /\ UNCHANGED client
  /\ UNCHANGED <<now, faults, stores>>

MutRefundAnyWindow(r, l, consumed) == [r EXCEPT !.accounted = Max({0, @ - Reserved + consumed})]

Refund(r, l, consumed) ==
  IF r.window = lease[l].window THEN [r EXCEPT !.accounted = Max({0, @ - Reserved + consumed})] ELSE r

ReleaseCapacity(c) ==
  LET l == call[c].id
      reset == ResetTokenWindow(route, call[c].at)
  IN
  /\ phase[c] = "releasing" /\ ~RouteLocked
  /\ \/ /\ call[c].at < route.updated  \* "capacity clock may not move backward"
        /\ ReleaseFails(c) /\ UNCHANGED <<lease, route, bill>>
     \/ /\ call[c].at >= route.updated
        /\ route' = [Refund(reset, l, call[c].usage) EXCEPT !.updated = call[c].at]
        /\ bill' = [bill EXCEPT ![l].tokens = call[c].usage]
        /\ lease' = [lease EXCEPT ![l] = NoLease]
        /\ AfterRelease(c) /\ UNCHANGED client
  /\ UNCHANGED <<now, request, attributed, rate, circuit, probed, faults>>

\* PostgreSQL ends one of two transactions that wait for each other.
Deadlocked(c, d) ==
  phase[c] = "releasing" /\ phase[d] = "acquiring" /\ WaitsFor(d, call[c].id)

DeadlockVictim(c, d) ==
  /\ Deadlocked(c, d)
  /\ \/ ReleaseFails(c)
     \/ Continue(d, "stop", call[d]) /\ UNCHANGED client
  /\ UNCHANGED <<now, faults, stores>>

-----------------------------------------------------------------------------
(* Bookkeeping of the request: failed once the provider was contacted, forgotten otherwise. *)

MutForgetFailedRequest(c) ==
  /\ call[c].contacted /\ ~call[c].completed /\ ~call[c].durable
  /\ \/ Owned(c) /\ request' = [request EXCEPT ![Request(c)] = NoRow] /\ UNCHANGED client
     \/ ~Owned(c) /\ CleanupRequired(c) /\ UNCHANGED request

Failed(c) == Owned(c) /\ request' = [request EXCEPT ![Request(c)].status = "failed"]

FailRequest(c) ==
  /\ call[c].contacted /\ ~call[c].completed /\ ~call[c].durable
  /\ \/ Failed(c) /\ UNCHANGED client
     \/ ~Owned(c) /\ CleanupRequired(c) /\ UNCHANGED request

Forgotten(c) == Owned(c) /\ request' = [request EXCEPT ![Request(c)] = NoRow]

ReleaseRequest(c) == ~call[c].contacted /\ Forgotten(c) /\ UNCHANGED client

NothingToBook(c) ==
  /\ call[c].contacted /\ (call[c].completed \/ call[c].durable)
  /\ UNCHANGED <<client, request>>

Book(c) ==
  /\ phase[c] = "book"
  /\ FailRequest(c) \/ ReleaseRequest(c) \/ NothingToBook(c)
  /\ Continue(c, "failed", Remains(c))
  /\ UNCHANGED <<now, attributed, rate, lease, route, circuit, bill, probed, faults>>

-----------------------------------------------------------------------------
(* The heartbeat of a capacity lease, a task beside the call. *)

\* The call is cancelled at an await; the commit of the response is shielded.
Interrupt(c) ==
  IF phase[c] = "complete" THEN Continue(c, "complete", [call[c] EXCEPT !.doomed = TRUE])
  ELSE Continue(c, "stop", call[c])

HeartbeatDue(c) ==
  beat[c] = Asleep /\ ~LeaseLocked(call[c].id) /\ now + Lease > call[c].expires

Renewable(c) == SameLease(c, call[c].id) /\ lease[call[c].id].expires > now

\* The renewal commits; the client has not heard of it yet.
Renew(c) ==
  /\ HeartbeatDue(c) /\ Renewable(c)
  /\ lease' = [lease EXCEPT ![call[c].id].expires = now + Lease]
  /\ beat' = [beat EXCEPT ![c] = now + Lease]
  /\ UNCHANGED <<now, client, phase, call, request, attributed, rate, route, circuit, bill,
                 probed, faults>>

RenewalHeard(c) ==
  /\ beat[c] \notin {Off, Asleep}
  /\ call' = [call EXCEPT ![c].expires = beat[c]]
  /\ beat' = [beat EXCEPT ![c] = Asleep]
  /\ UNCHANGED <<now, client, phase, faults, stores>>

\* The renewal finds the lease lost, and cancels the call.
LeaseLost(c) ==
  /\ HeartbeatDue(c) /\ ~Renewable(c)
  /\ IF phase[c] = "complete"
     THEN /\ call' = [call EXCEPT ![c].doomed = TRUE] /\ beat' = StopCapacityHeartbeat(c)
          /\ UNCHANGED phase
     ELSE Continue(c, "stop", call[c])
  /\ UNCHANGED <<now, client, faults, stores>>

-----------------------------------------------------------------------------
(* What goes wrong. *)

Interruptible == {"rate", "slot", "acquire", "acquiring", "circuit", "attempt", "retry", "complete",
                  "attribute"}

\* The caller is cancelled or closes the stream.  A release under way is shielded, and the terminal
\* event is not handed over.
Cancel(c) ==
  /\ faults < MaxFaults /\ faults' = faults + 1
  /\ \/ phase[c] \in Interruptible /\ Interrupt(c)
     \/ /\ phase[c] \in {"release", "releasing"} /\ ~call[c].final
        /\ Continue(c, phase[c], [call[c] EXCEPT !.doomed = TRUE])
  /\ UNCHANGED <<now, client, stores>>

\* A transaction fails and leaves no trace.  Before the provider is contacted this looks to the call
\* as a cancellation does.
StoreFails(c) ==
  /\ faults < MaxFaults /\ faults' = faults + 1
  /\ \/ phase[c] = "replay" /\ Continue(c, "failed", call[c]) /\ UNCHANGED client
     \/ phase[c] = "complete" /\ ~call[c].doomed /\ Continue(c, "stop", call[c]) /\ UNCHANGED client
     \/ phase[c] \in {"release", "releasing"} /\ ReleaseFails(c)
     \/ phase[c] = "book" /\ CleanupRequired(c) /\ Continue(c, "failed", Remains(c))
  /\ UNCHANGED <<now, stores>>

\* A process dies with its calls; transactions under way are rolled back.  A new one starts.
Crash(k) ==
  /\ faults < MaxFaults /\ faults' = faults + 1
  /\ client' = [client EXCEPT ![k] = "open"]
  /\ LET dead == {c \in Calls : call[c].input.client = k /\ phase[c] \notin Ended \union {"new"}} IN
     /\ dead # {}
     /\ phase' = [c \in Calls |-> IF c \in dead THEN "crashed" ELSE phase[c]]
     /\ call' = [c \in Calls |-> IF c \in dead THEN [Remains(c) EXCEPT !.slot = FALSE] ELSE call[c]]
     /\ beat' = [c \in Calls |-> IF c \in dead THEN Off ELSE beat[c]]
  /\ UNCHANGED <<now, stores>>

\* aclose, which does not wait for calls under way; only calls that have not looked at the client
\* for the last time notice.  One that fails asks for cleanup, as other failures do.
Close(k) ==
  /\ client[k] # "closed" /\ faults < MaxFaults /\ faults' = faults + 1
  /\ \E c \in Calls : phase[c] \in {"new", "rate", "slot"}
  /\ client' = [client EXCEPT ![k] = "closed"]
  /\ UNCHANGED <<now, phase, call, beat, stores>>

\* The clock moves while there are calls under way or still to come.
Tick ==
  /\ now < MaxTime /\ now' = now + 1
  /\ \E c \in Calls : phase[c] # "new"
  /\ \E c \in Calls : phase[c] \notin Ended
  /\ UNCHANGED <<client, phase, call, beat, faults, stores>>

-----------------------------------------------------------------------------

CallStep(c) ==
  \/ Replay(c) \/ EnforceRateLimit(c) \/ AcquireSlot(c) \/ LockRoute(c)
  \/ Acquire(c, TRUE) \/ RequireClosedCircuit(c) \/ CompleteRequest(c, TRUE)
  \/ AttributeModelCall(c) \/ LockLease(c) \/ ReleaseCapacity(c) \/ Book(c)

\* An attempt answers, or fails before or after its first event, for good or not.
Provider(c) ==
  AttemptEnds(c) \/ \E streamed, retryable \in BOOLEAN : AttemptFails(c, streamed, retryable)

\* What moves by itself: the clients, the provider, and the deadlock detection of the database.
Progress ==
  \E c \in Calls : CallStep(c) \/ Provider(c) \/ \E d \in Calls : DeadlockVictim(c, d)

Next ==
  \/ Progress
  \/ \E c \in Calls :
       \/ \E i \in Inputs[c] : Claim(c, i) \/ ClaimAnswerLost(c, i)
       \/ Renew(c) \/ RenewalHeard(c) \/ LeaseLost(c)
       \/ Acquire(c, FALSE) \/ CompleteRequest(c, FALSE) \/ Cancel(c) \/ StoreFails(c)
  \/ \E k \in Clients : Crash(k) \/ Close(k)
  \/ Tick

Spec == Init /\ [][Next]_vars /\ WF_vars(Progress)

-----------------------------------------------------------------------------
(* Properties. *)

TypeOK ==
  /\ now \in (1 + Lag)..MaxTime
  /\ client \in [Clients -> {"open", "cleanup", "closed"}]
  /\ phase \in [Calls -> Phases] /\ call \in [Calls -> Local]
  /\ beat \in [Calls -> {Off, Asleep} \union Nat]
  /\ request \in [Requests -> GatewayRequestRow] /\ attributed \subseteq Requests
  /\ rate \in [Tenants -> RateRow] /\ lease \in [Calls -> CapacityLeaseRow]
  /\ route \in CapacityRow /\ circuit \in CircuitRow
  /\ bill \in [Calls -> [window: Nat, tokens: Nat]] /\ probed \in Nat

\* However calls of one request ID are repeated, cancelled, lost or crash, at most one of them ever
\* contacts the provider (ADR 0013: completed duplicates "do not create another upstream request").
OneContactPerRequest ==
  \A c, d \in Calls :
    Request(c) = Request(d) /\ call[c].contacted /\ call[d].contacted => c = d

\* A stored answer or failure of a request is never replaced or forgotten.
StoredOutcomeIsFinal ==
  \A r \in Requests : request[r].status \in {"completed", "failed"} => request'[r] = request[r]

\* A caller that was given the terminal event was given the events the store keeps for its payload,
\* and the model call is attributed.
DeliveredIsDurable ==
  \A c \in Calls : phase[c] = "delivered" =>
    /\ request[Request(c)] = [status |-> "completed", hash |-> call[c].input.hash, events |-> call[c].events]
    /\ Request(c) \in attributed

\* Callers never see the events of two attempts: a stream that began is not retried.
ResponseIsOneAttempt == \A c \in Calls : Cardinality(call[c].events) <= 1

\* Two calls in progress never hold one capacity lease.
LeaseHasOneUser ==
  \A c, d \in Calls : c # d /\ call[c].id # 0 => call[c].id # call[d].id

\* The leases of a tenant and of the route stay within their limits.
LeasesWithinLimits ==
  LET held == {l \in Calls : Live(l)} IN
  /\ Cardinality(held) <= RouteLimit
  /\ \A t \in Tenants : Cardinality({l \in held : call[l].input.tenant = t}) <= TenantLimit

\* The token window is charged exactly what its leases reserved, or used once they were released;
\* the tokens of a lease that expired stay charged and those of an earlier window are not refunded.
TokensAreCharged ==
  route.accounted =
    MapThenSumSet(LAMBDA l : bill[l].tokens, {l \in Calls : bill[l].window = route.window})

\* Two probes of an open circuit are at least the recovery time apart, less what a time may lie behind
\* its commit: a failure that comes late takes the probe of another call away, and may date the opening
\* back before it (PostgresGatewayCircuitBreaker; ADR 0013: "a half-open circuit probe is exclusive").
ProbesAreApart ==
  [][circuit'.probe /\ circuit' # circuit => probed = 0 \/ now - probed >= Recovery - Lag]_vars

\* Every call that was begun ends, whatever is cancelled, lost or deadlocked: again and again there
\* is no call under way.
CallsEnd == []<>(\A c \in Calls : phase[c] \in Ended \union {"new"})

\* A request ID stands for one request: one contact with the provider, the events of one attempt and one
\* outcome, which is stored for good (ReliableGatewayClient, PostgresGatewayRequestStore).
RequestsAreIdempotent ==
  [][OneContactPerRequest' /\ ResponseIsOneAttempt' /\ StoredOutcomeIsFinal]_vars

\* The capacity that calls hold is exactly what the tables say, within the limits
\* (PostgresGatewayCapacityStore).
CapacityIsAccounted == TypeOK /\ LeaseHasOneUser /\ LeasesWithinLimits /\ TokensAreCharged
=============================================================================
