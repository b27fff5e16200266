--------------------------- MODULE GatewayProofs ----------------------------
(***************************************************************************)
(* What is proved of the gateway client and the tables it shares (module   *)
(* Gateway), for any number of calls, clients and tenants and any limits:  *)
(* a request ID contacts the provider once and has one outcome, what is    *)
(* delivered is stored, leases have one user and stay within the limits,   *)
(* the token window is charged what its leases reserved or used, and the   *)
(* probes of the circuit are apart.                                        *)
(***************************************************************************)
EXTENDS Gateway, FiniteSetTheorems, WellFoundedInduction, TLAPS

\* The calls that own their request: between the claim and the end of the bookkeeping.
Active == {"rate", "slot", "acquire", "acquiring", "circuit", "attempt", "retry", "complete", "attribute",
           "release", "releasing", "book"}
Executing(c) == phase[c] \in Active
Occupies(c) == Executing(c) \/ call[c].contacted

\* A call that is about to hand over its terminal event, or has done so.
Handing(c) == (phase[c] \in {"release", "releasing"} /\ ~call[c].final) \/ phase[c] = "delivered"

\* No event, or those of one attempt.
OneAttempt(events) == \A m, n \in events : m = n

\* A call and the row of its request.
CallSound(c) ==
  /\ Occupies(c) \/ phase[c] \in {"replay", "delivered"} =>
       Request(c) \in Requests /\ request[Request(c)].status # "none"
  /\ Executing(c) \/ phase[c] = "replay" => request[Request(c)].hash = call[c].input.hash
  /\ phase[c] = "replay" => request[Request(c)].status = "completed"
  /\ phase[c] \in {"circuit", "attempt", "retry", "rate", "slot", "acquire", "acquiring"} => call[c].events = {}
  /\ OneAttempt(call[c].events)
  /\ Handing(c) \/ phase[c] = "attribute" =>
       request[Request(c)] = [status |-> "completed", hash |-> call[c].input.hash, events |-> call[c].events]
  /\ Handing(c) => Request(c) \in attributed

\* A request has one owner, and none again after the provider was contacted for it.
Alone == \A c, d \in Calls : Occupies(c) /\ Occupies(d) /\ Request(c) = Request(d) => c = d

RowSound(r) == (request[r].status = "none" => request[r] = NoRow) /\ OneAttempt(request[r].events)

\* A lease is of a call that was begun, and a call uses only a lease of its own request.
LeaseSound ==
  /\ \A l \in Calls : Live(l) => phase[l] # "new"
  /\ \A c \in Calls : call[c].id # 0 =>
       Executing(c) /\ call[c].id \in Calls /\ phase[call[c].id] # "new" /\ Request(call[c].id) = Request(c)

\* The heartbeat runs only beside a call that has its lease.
BeatSound == \A c \in Calls : beat[c] # Off => phase[c] \in {"circuit", "attempt", "retry", "complete", "attribute"}

\* An open circuit has all its failures; the last probe is the one under way, or the circuit opened after it,
\* by times that lie at most Lag behind.
CircuitSound ==
  /\ probed <= now
  /\ circuit.opened # 0 =>
       /\ circuit.failures >= FailureThreshold
       /\ probed = 0 \/ circuit.opened + Lag >= probed \/ (circuit.probe /\ circuit.started + Lag >= probed)

Inv ==
  /\ TypeOK /\ Alone /\ LeaseSound /\ LeasesWithinLimits /\ BeatSound /\ CircuitSound
  /\ \A c \in Calls : CallSound(c)
  /\ \A r \in Requests : RowSound(r)

-----------------------------------------------------------------------------
(* The local variables of a call. *)

\* What the invariant looks at.
Same(f, e) ==
  f.input = e.input /\ f.id = e.id /\ f.contacted = e.contacted /\ f.final = e.final /\ f.events = e.events

LEMMA SetNumber ==
  ASSUME NEW e \in Local, NEW n \in Nat
  PROVE  /\ [e EXCEPT !.at = n] \in Local /\ Same([e EXCEPT !.at = n], e)
         /\ [e EXCEPT !.expires = n] \in Local /\ Same([e EXCEPT !.expires = n], e)
         /\ [e EXCEPT !.attempt = n] \in Local /\ Same([e EXCEPT !.attempt = n], e)
         /\ [e EXCEPT !.usage = n] \in Local /\ Same([e EXCEPT !.usage = n], e)
BY DEF Local, Same

LEMMA SetFlag ==
  ASSUME NEW e \in Local, NEW b \in BOOLEAN
  PROVE  /\ [e EXCEPT !.slot = b] \in Local /\ Same([e EXCEPT !.slot = b], e)
         /\ [e EXCEPT !.completed = b] \in Local /\ Same([e EXCEPT !.completed = b], e)
         /\ [e EXCEPT !.durable = b] \in Local /\ Same([e EXCEPT !.durable = b], e)
         /\ [e EXCEPT !.doomed = b] \in Local /\ Same([e EXCEPT !.doomed = b], e)
BY DEF Local, Same

LEMMA SetFinal ==
  ASSUME NEW e \in Local
  PROVE  LET f == [e EXCEPT !.final = TRUE]
         IN  /\ f \in Local /\ f.input = e.input /\ f.id = e.id /\ f.contacted = e.contacted
             /\ f.final = TRUE /\ f.events = e.events
BY DEF Local

LEMMA SetEvents ==
  ASSUME NEW e \in Local, NEW s \in SUBSET Nat
  PROVE  LET f == [e EXCEPT !.events = s]
         IN  /\ f \in Local /\ f.input = e.input /\ f.id = e.id /\ f.contacted = e.contacted
             /\ f.final = e.final /\ f.events = s
BY DEF Local

LEMMA SetId ==
  ASSUME NEW e \in Local, NEW l \in Calls \union {0}
  PROVE  LET f == [e EXCEPT !.id = l]
         IN  /\ f \in Local /\ f.input = e.input /\ f.id = l /\ f.contacted = e.contacted
             /\ f.final = e.final /\ f.events = e.events
BY DEF Local

LEMMA SetContacted ==
  ASSUME NEW e \in Local, NEW b \in BOOLEAN
  PROVE  LET f == [e EXCEPT !.contacted = b]
         IN  /\ f \in Local /\ f.input = e.input /\ f.id = e.id /\ f.contacted = b
             /\ f.final = e.final /\ f.events = e.events
BY DEF Local

LEMMA SetInput ==
  ASSUME NEW i \in AllInputs
  PROVE  LET f == [LiveState EXCEPT !.input = i]
         IN  /\ f \in Local /\ f.input = i /\ f.id = 0 /\ f.contacted = FALSE
             /\ f.final = FALSE /\ f.events = {}
BY DEF Local, LiveState

\* The finally block keeps the request, the lease and whether the provider was contacted.
LEMMA UnwoundMeans ==
  ASSUME NEW e \in Local, now \in Nat, Reserved \in Nat
  PROVE  LET f == Unwound(e)
         IN  /\ f \in Local /\ f.input = e.input /\ f.id = e.id /\ f.contacted = e.contacted
             /\ f.final = TRUE /\ f.events = {}
<1> DEFINE e1 == [e EXCEPT !.at = now]
           e2 == [e1 EXCEPT !.final = TRUE]
           e3 == [e2 EXCEPT !.attempt = 1]
           e4 == [e3 EXCEPT !.events = {}]
           e5 == [e4 EXCEPT !.slot = e4.slot /\ e.id # 0]
           e6 == [e5 EXCEPT !.usage = IF e.contacted THEN Reserved ELSE 0]
<1>1. Unwound(e) = e6
  BY DEF Unwound
<1> HIDE DEF e6
<1>2. e5 \in Local => e6 \in Local /\ Same(e6, e5)
  <2> HIDE DEF e5
  <2> QED
    BY SetNumber DEF e6
<1> HIDE DEF e5
<1>3. e4 \in Local => e5 \in Local /\ Same(e5, e4)
  <2> HIDE DEF e4
  <2>1. (e4.slot /\ e.id # 0) \in BOOLEAN
    OBVIOUS
  <2> QED
    BY <2>1, SetFlag DEF e5
<1> HIDE DEF e4
<1>4. e3 \in Local => /\ e4 \in Local /\ e4.input = e3.input /\ e4.id = e3.id /\ e4.contacted = e3.contacted
                      /\ e4.final = e3.final /\ e4.events = {}
  <2> HIDE DEF e3
  <2> QED
    BY SetEvents DEF e4
<1> HIDE DEF e3
<1>5. e2 \in Local => e3 \in Local /\ Same(e3, e2)
  <2> HIDE DEF e2
  <2> QED
    BY SetNumber DEF e3
<1> HIDE DEF e2
<1>6. e1 \in Local => /\ e2 \in Local /\ e2.input = e1.input /\ e2.id = e1.id /\ e2.contacted = e1.contacted
                      /\ e2.final = TRUE
  <2> HIDE DEF e1
  <2> QED
    BY SetFinal DEF e2
<1> HIDE DEF e1
<1>7. e1 \in Local /\ Same(e1, e)
  BY SetNumber DEF e1
<1> QED
  BY <1>1, <1>2, <1>3, <1>4, <1>5, <1>6, <1>7 DEF Same

-----------------------------------------------------------------------------
(* A step of one call. *)

LEMMA Constants ==
  /\ LocalSlots \in Nat \ {0} /\ MaxAttempts \in Nat \ {0} /\ RateLimit \in Nat \ {0} /\ TenantLimit \in Nat \ {0}
  /\ RouteLimit \in Nat \ {0} /\ FailureThreshold \in Nat \ {0} /\ Lease \in Nat \ {0} /\ Window \in Nat \ {0}
  /\ Recovery \in Nat \ {0} /\ MaxTime \in Nat \ {0} /\ TokenLimit \in Nat /\ Reserved \in Nat /\ MaxFaults \in Nat
  /\ Lag \in Nat /\ Lag < MaxTime
  /\ Usage \subseteq Nat /\ IsFiniteSet(Calls) /\ Calls \subseteq Nat /\ 0 \notin Calls
BY GatewayAssumption

CallType ==
  phase \in [Calls -> Phases] /\ call \in [Calls -> Local] /\ beat \in [Calls -> {Off, Asleep} \union Nat]

\* What the tables but those of requests and leases must be.
TablesType ==
  /\ now \in (1 + Lag)..MaxTime /\ client \in [Clients -> {"open", "cleanup", "closed"}]
  /\ rate \in [Tenants -> RateRow] /\ route \in CapacityRow /\ circuit \in CircuitRow
  /\ bill \in [Calls -> [window: Nat, tokens: Nat]] /\ probed \in Nat

RequestType == request \in [Requests -> GatewayRequestRow] /\ attributed \subseteq Requests

LEMMA TypeParts ==
  ASSUME Inv
  PROVE  /\ CallType /\ TablesType /\ RequestType /\ lease \in [Calls -> CapacityLeaseRow]
         /\ now \in Nat /\ now # 0 /\ now > Lag
<1>1. now \in (1 + Lag)..MaxTime
  BY DEF Inv, TypeOK
<1>2. now \in Nat /\ now # 0 /\ now > Lag
  BY <1>1, Constants
<1> QED
  BY <1>2 DEF Inv, TypeOK, CallType, TablesType, RequestType

LEMMA PartsType ==
  ASSUME CallType', TablesType', RequestType', (lease \in [Calls -> CapacityLeaseRow])'
  PROVE  TypeOK'
BY DEF TypeOK, CallType, TablesType, RequestType

\* Where a call goes: to phase p, or into the finally block.
LEMMA ContinueMeans ==
  ASSUME Inv, NEW c \in Calls, NEW p \in Phases \union {"stop"}, NEW e \in Local, Continue(c, p, e)
  PROVE  /\ CallType'
         /\ \A d \in Calls \ {c} : phase'[d] = phase[d] /\ call'[d] = call[d] /\ beat'[d] = beat[d]
         /\ p # "stop" => phase'[c] = p /\ call'[c] = e /\ beat'[c] = beat[c]
         /\ p = "stop" => /\ phase'[c] = IF e.id # 0 THEN "release" ELSE "book"
                          /\ call'[c].input = e.input /\ call'[c].id = e.id /\ call'[c].contacted = e.contacted
                          /\ call'[c].final = TRUE /\ call'[c].events = {} /\ beat'[c] = Off
<1>1. CallType /\ now \in Nat /\ Reserved \in Nat
  BY TypeParts, Constants
<1>2. CASE p # "stop"
  <2>1. phase' = [phase EXCEPT ![c] = p] /\ call' = [call EXCEPT ![c] = e] /\ beat' = beat
    BY <1>2 DEF Continue
  <2> QED
    BY <1>1, <1>2, <2>1 DEF CallType
<1>3. CASE p = "stop"
  <2>1. PICK u : u = Unwound(e)
    OBVIOUS
  <2>2. /\ u \in Local /\ u.input = e.input /\ u.id = e.id /\ u.contacted = e.contacted
        /\ u.final = TRUE /\ u.events = {}
    BY <1>1, <2>1, UnwoundMeans
  <2>3. /\ phase' = [phase EXCEPT ![c] = IF e.id # 0 THEN "release" ELSE "book"]
        /\ call' = [call EXCEPT ![c] = u] /\ beat' = [beat EXCEPT ![c] = Off]
    BY <1>3, <2>1 DEF Continue, StopCapacityHeartbeat
  <2> QED
    BY <1>1, <1>3, <2>2, <2>3 DEF CallType, Phases
<1> QED
  BY <1>2, <1>3

\* A call does not notice what others do, as long as its row stays.
LEMMA OthersRest ==
  ASSUME Inv, NEW d \in Calls, phase'[d] = phase[d], call'[d] = call[d], attributed \subseteq attributed',
         Occupies(d) \/ phase[d] \in {"replay", "delivered"} => request'[Request(d)] = request[Request(d)]
  PROVE  CallSound(d)'
<1>1. CallSound(d)
  BY DEF Inv
<1>2. Request(d)' = Request(d)
  BY DEF Request
<1> QED
  BY <1>1, <1>2 DEF CallSound, Occupies, Executing, Handing, Active

\* Nobody else gets to own a request.
LEMMA AloneRests ==
  ASSUME Inv,
         \A d \in Calls : Occupies(d)' => Occupies(d) /\ call'[d].input = call[d].input
  PROVE  Alone'
<1>1. \A d \in Calls : Occupies(d)' => Request(d)' = Request(d)
  BY DEF Request
<1> QED
  BY <1>1 DEF Inv, Alone

\* Leases go away at most.
LEMMA LimitsRest ==
  ASSUME Inv, \A l \in Calls : Live(l)' => Live(l), \A l \in Calls : Live(l) => call'[l].input = call[l].input
  PROVE  LeasesWithinLimits'
<1> DEFINE Held == {l \in Calls : Live(l)}
           HeldBy(t) == {l \in Held : call[l].input.tenant = t}
<1>1. \A l \in Calls : Live(l)' => Live(l) /\ call'[l].input = call[l].input
  OBVIOUS
<1>2. IsFiniteSet(Held) /\ Held' \subseteq Held
  BY <1>1, Constants, FS_Subset
<1>3. Cardinality(Held') <= Cardinality(Held) /\ Cardinality(Held) \in Nat /\ Cardinality(Held') \in Nat
  BY <1>2, FS_Subset, FS_CardinalityType
<1>4. ASSUME NEW t \in Tenants
      PROVE  /\ Cardinality(HeldBy(t)') <= Cardinality(HeldBy(t))
             /\ Cardinality(HeldBy(t)) \in Nat /\ Cardinality(HeldBy(t)') \in Nat
  <2>1. IsFiniteSet(HeldBy(t)) /\ HeldBy(t)' \subseteq HeldBy(t)
    BY <1>1, <1>2, FS_Subset
  <2> QED
    BY <2>1, FS_Subset, FS_CardinalityType
<1>5. Cardinality(Held) <= RouteLimit /\ \A t \in Tenants : Cardinality(HeldBy(t)) <= TenantLimit
  BY DEF Inv, LeasesWithinLimits
<1>6. Cardinality(Held') <= RouteLimit
  <2> HIDE DEF Held
  <2> QED
    BY <1>3, <1>5, Constants
<1>7. ASSUME NEW t \in Tenants
      PROVE  Cardinality(HeldBy(t)') <= TenantLimit
  <2>1. PICK m, n : m = Cardinality(HeldBy(t)) /\ n = Cardinality(HeldBy(t)')
    OBVIOUS
  <2>2. m \in Nat /\ n \in Nat /\ n <= m /\ m <= TenantLimit
    BY <1>4, <1>5, <2>1
  <2>3. n <= TenantLimit
    BY <2>2, Constants
  <2> QED
    BY <2>1, <2>3
<1> QED
  BY <1>6, <1>7 DEF LeasesWithinLimits

\* And so do their users.
LEMMA LeasesRest ==
  ASSUME Inv, (lease \in [Calls -> CapacityLeaseRow])',
         \A l \in Calls : Live(l)' => Live(l),
         \A d \in Calls : phase[d] # "new" => phase'[d] # "new" /\ call'[d].input = call[d].input,
         \A d \in Calls : call'[d].id # 0 => call'[d].id = call[d].id /\ Executing(d)'
  PROVE  LeaseSound' /\ LeasesWithinLimits'
<1>1. \A d \in Calls : phase[d] # "new" => Request(d)' = Request(d)
  BY DEF Request
<1>2. LeaseSound'
  <2>1. \A l \in Calls : Live(l)' => phase'[l] # "new"
    BY DEF Inv, LeaseSound
  <2>2. ASSUME NEW d \in Calls, call'[d].id # 0
        PROVE  /\ Executing(d)' /\ call'[d].id \in Calls /\ phase'[call'[d].id] # "new"
               /\ Request(call[d].id)' = Request(d)'
    <3>1. call'[d].id = call[d].id /\ Executing(d)'
      BY <2>2
    <3>2. Executing(d) /\ call[d].id \in Calls /\ phase[call[d].id] # "new" /\ Request(call[d].id) = Request(d)
      BY <2>2, <3>1 DEF Inv, LeaseSound
    <3>3. PICK l \in Calls : l = call[d].id
      BY <3>2
    <3>4. phase[d] # "new"
      BY <3>2 DEF Executing, Active
    <3> QED
      BY <1>1, <3>1, <3>2, <3>3, <3>4 DEF Request
  <2> QED
    BY <2>1, <2>2 DEF LeaseSound
<1>3. LeasesWithinLimits'
  <2>1. \A l \in Calls : Live(l) => call'[l].input = call[l].input
    BY DEF Inv, LeaseSound
  <2> QED
    BY <2>1, LimitsRest
<1> QED
  BY <1>2, <1>3

-----------------------------------------------------------------------------
(* What a step keeps. *)

\* The circuit lets a probe through only when the last one is past its recovery time, less Lag.
ProbeApart ==
  circuit'.probe /\ circuit' # circuit => probed = 0 \/ now - probed >= Recovery - Lag

LEMMA StampIsNat ==
  ASSUME Inv, NEW t \in Stamps
  PROVE  t \in Nat /\ t # 0 /\ t <= now /\ t + Lag >= now
BY TypeParts, Constants DEF Stamps

\* What is shown of every step.
Kept == Inv' /\ StoredOutcomeIsFinal /\ ProbeApart

\* Call c moves, and no other call.
Moves(c) ==
  /\ CallType'
  /\ \A d \in Calls \ {c} : phase'[d] = phase[d] /\ call'[d] = call[d] /\ beat'[d] = beat[d]
  /\ phase'[c] # "new" /\ (phase[c] # "new" => call'[c].input = call[c].input)
  /\ CallSound(c)'
  /\ beat'[c] # Off => phase'[c] \in {"circuit", "attempt", "retry", "complete", "attribute"}

\* The row of another call's request stays: only the owner writes it, before it has an outcome.
TablesKept(c) ==
  /\ TablesType' /\ RequestType' /\ (lease \in [Calls -> CapacityLeaseRow])' /\ attributed \subseteq attributed'
  /\ \A r \in Requests : request'[r] # request[r] =>
       /\ request[r].status = "none" \/ (request[r].status = "in_progress" /\ Executing(c) /\ r = Request(c))
       /\ RowSound(r)'
  /\ CircuitSound' /\ ProbeApart

LEMMA MovesKeep ==
  ASSUME Inv, NEW c \in Calls, Moves(c), TablesKept(c), Alone', LeaseSound', LeasesWithinLimits'
  PROVE  Kept
<1>1. TypeOK'
  BY PartsType DEF Moves, TablesKept
<1>2. ASSUME NEW d \in Calls
      PROVE  CallSound(d)'
  <2>1. CASE d = c
    BY <2>1 DEF Moves
  <2>2. CASE d # c
    <3>1. phase'[d] = phase[d] /\ call'[d] = call[d] /\ attributed \subseteq attributed'
      BY <2>2 DEF Moves, TablesKept
    <3>2. ASSUME Occupies(d) \/ phase[d] \in {"replay", "delivered"}
          PROVE  request'[Request(d)] = request[Request(d)]
      <4> CallSound(d)
        BY DEF Inv
      <4>1. Request(d) \in Requests /\ request[Request(d)].status # "none"
        BY <3>2 DEF CallSound
      <4>2. Occupies(d) \/ request[Request(d)].status = "completed"
        <5>1. phase[d] = "replay" => request[Request(d)].status = "completed"
          BY DEF CallSound
        <5>2. phase[d] = "delivered" => request[Request(d)].status = "completed"
          BY DEF CallSound, Handing
        <5> QED
          BY <3>2, <5>1, <5>2
      <4>3. Occupies(d) /\ Executing(c) => Request(d) # Request(c)
        BY <2>2 DEF Inv, Alone, Occupies
      <4> QED
        BY <4>1, <4>2, <4>3 DEF TablesKept
    <3> QED
      BY <3>1, <3>2, OthersRest
  <2> QED
    BY <2>1, <2>2
<1>3. ASSUME NEW r \in Requests
      PROVE  RowSound(r)'
  <2>1. CASE request'[r] = request[r]
    BY <2>1 DEF Inv, RowSound
  <2>2. CASE request'[r] # request[r]
    BY <2>2 DEF TablesKept
  <2> QED
    BY <2>1, <2>2
<1>4. BeatSound'
  BY DEF Moves, BeatSound, Inv
<1>5. StoredOutcomeIsFinal
  BY DEF TablesKept, StoredOutcomeIsFinal
<1> QED
  BY <1>1, <1>2, <1>3, <1>4, <1>5 DEF Kept, Inv, TablesKept

\* A call that was begun goes on with what it has.
Runs(c) ==
  /\ Moves(c) /\ phase[c] # "new"
  /\ Occupies(c)' => Occupies(c)
  /\ call'[c].id # 0 => call'[c].id = call[c].id /\ Executing(c)'

LEMMA RunsKeep ==
  ASSUME Inv, NEW c \in Calls, Runs(c), TablesKept(c), \A l \in Calls : Live(l)' => Live(l)
  PROVE  Kept
<1>1. ASSUME NEW d \in Calls
      PROVE  /\ Occupies(d)' => Occupies(d) /\ call'[d].input = call[d].input
             /\ phase[d] # "new" => phase'[d] # "new" /\ call'[d].input = call[d].input
             /\ call'[d].id # 0 => call'[d].id = call[d].id /\ Executing(d)'
  <2>1. CASE d = c
    BY <2>1 DEF Runs, Moves
  <2>2. CASE d # c
    BY <2>2 DEF Runs, Moves, Occupies, Executing, Inv, LeaseSound
  <2> QED
    BY <2>1, <2>2
<1>2. Alone'
  BY <1>1, AloneRests
<1>3. LeaseSound' /\ LeasesWithinLimits'
  BY <1>1, LeasesRest DEF TablesKept
<1> QED
  BY <1>2, <1>3, MovesKeep DEF Runs

\* Nothing but calls changes.
LEMMA TablesRest ==
  ASSUME Inv, NEW c \in Calls, UNCHANGED <<now, stores>>,
         client' = client \/ CleanupRequired(c)
  PROVE  TablesKept(c) /\ \A l \in Calls : Live(l)' => Live(l)
<1>1. client' \in [Clients -> {"open", "cleanup", "closed"}]
  BY TypeParts DEF TablesType, CleanupRequired
<1>2. TablesType' /\ RequestType' /\ (lease \in [Calls -> CapacityLeaseRow])'
  BY <1>1, TypeParts DEF TablesType, RequestType, stores
<1>3. CircuitSound' /\ ProbeApart
  BY DEF stores, Inv, CircuitSound, ProbeApart
<1>4. \A r \in Requests : request'[r] = request[r]
  BY DEF stores
<1> QED
  BY <1>2, <1>3, <1>4 DEF TablesKept, stores, Live

-----------------------------------------------------------------------------
(* The ways a call goes on. *)

\* The row of the call's request keeps its payload, and does not go away.
RowStays(c) == request'[Request(c)].status # "none" /\ request'[Request(c)].hash = request[Request(c)].hash

\* What a call about to hand over events has stored.
Stored(c, events) ==
  request'[Request(c)] = [status |-> "completed", hash |-> call[c].input.hash, events |-> events]

LEMMA RowUntouched ==
  ASSUME Inv, NEW c \in Calls, Executing(c), request' = request
  PROVE  RowStays(c)
BY DEF Inv, CallSound, RowStays, Occupies

\* Into the finally block.
LEMMA Stops ==
  ASSUME Inv, NEW c \in Calls, Executing(c), RowStays(c), NEW e \in Local, e.input = call[c].input,
         e.id = call[c].id, Continue(c, "stop", e)
  PROVE  Runs(c)
<1>1. /\ CallType'
      /\ \A d \in Calls \ {c} : phase'[d] = phase[d] /\ call'[d] = call[d] /\ beat'[d] = beat[d]
      /\ phase'[c] \in {"release", "book"} /\ call'[c].input = call[c].input /\ call'[c].id = call[c].id
      /\ call'[c].final = TRUE /\ call'[c].events = {} /\ beat'[c] = Off
  BY ZenonT(60), ContinueMeans
<1>2. Request(c)' = Request(c) /\ phase[c] # "new" /\ Occupies(c) /\ Executing(c)'
  BY <1>1 DEF Request, Executing, Active, Occupies
<1>3. CallSound(c)'
  <2>1. CallSound(c)
    BY DEF Inv
  <2>2. ~Handing(c)'
    BY <1>1 DEF Handing
  <2> QED
    BY <1>1, <1>2, <2>1, <2>2 DEF CallSound, OneAttempt, RowStays
<1> QED
  BY <1>1, <1>2, <1>3 DEF Runs, Moves

LEMMA Goes ==
  ASSUME Inv, NEW c \in Calls, NEW p \in Phases, p # "stop", NEW e \in Local, Continue(c, p, e)
  PROVE  /\ CallType'
         /\ \A d \in Calls \ {c} : phase'[d] = phase[d] /\ call'[d] = call[d] /\ beat'[d] = beat[d]
         /\ phase'[c] = p /\ call'[c] = e /\ beat'[c] = beat[c]
BY ZenonT(60), ContinueMeans

\* On to another phase.
LEMMA Advances ==
  ASSUME Inv, NEW c \in Calls, Executing(c), RowStays(c), NEW p \in Active, NEW e \in Local,
         e.input = call[c].input, e.id # 0 => e.id = call[c].id,
         OneAttempt(e.events), p \in {"complete", "attribute", "release", "releasing", "book"} \/ e.events = {},
         p \in {"release", "releasing"} /\ ~e.final => Stored(c, e.events) /\ Request(c) \in attributed',
         p = "attribute" => Stored(c, e.events),
         beat[c] = Off \/ p \in {"circuit", "attempt", "retry", "complete", "attribute"},
         Continue(c, p, e)
  PROVE  Runs(c)
<1>1. /\ CallType'
      /\ \A d \in Calls \ {c} : phase'[d] = phase[d] /\ call'[d] = call[d] /\ beat'[d] = beat[d]
      /\ phase'[c] = p /\ call'[c] = e /\ beat'[c] = beat[c]
  <2>1. p \in Phases /\ p # "stop"
    BY DEF Active, Phases
  <2> QED
    BY <2>1, Goes
<1>2. Request(c)' = Request(c) /\ phase[c] # "new" /\ p # "new" /\ Occupies(c) /\ Executing(c)'
  BY <1>1 DEF Request, Executing, Active, Occupies
<1>3. CallSound(c)'
  <2>1. CallSound(c)
    BY DEF Inv
  <2>2. Handing(c)' => p \in {"release", "releasing"} /\ ~e.final
    BY <1>1 DEF Handing, Active
  <2>3. phase'[c] \notin {"replay", "delivered"}
    BY <1>1 DEF Active
  <2>4. Request(c) \in Requests /\ request[Request(c)].hash = call[c].input.hash
    BY <2>1 DEF CallSound, Occupies
  <2>5. Handing(c)' \/ phase'[c] = "attribute" => Stored(c, e.events)
    BY <1>1, <2>2
  <2> QED
    BY <1>1, <1>2, <2>2, <2>3, <2>4, <2>5 DEF CallSound, RowStays, Stored
<1> QED
  BY <1>1, <1>2, <1>3 DEF Runs, Moves

\* To its end.
LEMMA Ends ==
  ASSUME Inv, NEW c \in Calls, phase[c] # "new", NEW p \in {"failed", "delivered"}, NEW e \in Local,
         e.input = call[c].input, e.id = 0, e.contacted = call[c].contacted, OneAttempt(e.events),
         e.contacted => request'[Request(c)].status # "none",
         p = "delivered" => Stored(c, e.events) /\ Request(c) \in attributed' /\ Request(c) \in Requests,
         beat[c] = Off, Continue(c, p, e)
  PROVE  Runs(c)
<1>1. /\ CallType'
      /\ \A d \in Calls \ {c} : phase'[d] = phase[d] /\ call'[d] = call[d] /\ beat'[d] = beat[d]
      /\ phase'[c] = p /\ call'[c] = e /\ beat'[c] = beat[c]
  <2>1. p \in Phases /\ p # "stop"
    BY DEF Phases
  <2> QED
    BY <2>1, Goes, Zenon
<1>2. Request(c)' = Request(c) /\ ~Executing(c)' /\ (Occupies(c)' => call[c].contacted)
  BY <1>1 DEF Request, Executing, Active, Occupies
<1>3. CallSound(c)'
  <2>1. CallSound(c)
    BY DEF Inv
  <2>2. call[c].contacted => Request(c) \in Requests
    BY <2>1 DEF CallSound, Occupies
  <2>3. Handing(c)' => p = "delivered"
    BY <1>1 DEF Handing
  <2>4. p = "delivered" => request'[Request(c)].status = "completed"
    BY DEF Stored
  <2> QED
    BY <1>1, <1>2, <2>2, <2>3, <2>4 DEF CallSound, Stored
<1> QED
  BY <1>1, <1>2, <1>3 DEF Runs, Moves, Occupies

LEMMA CallFacts ==
  ASSUME Inv, NEW c \in Calls
  PROVE  /\ call[c] \in Local /\ OneAttempt(call[c].events)
         /\ phase[c] \notin {"circuit", "attempt", "retry", "complete", "attribute"} => beat[c] = Off
         /\ phase[c] \in {"circuit", "attempt", "retry", "rate", "slot", "acquire", "acquiring"} => call[c].events = {}
         /\ phase[c] \in Active => Executing(c)
         /\ phase[c] \notin Active => call[c].id = 0
         /\ Executing(c) => Request(c) \in Requests /\ request[Request(c)].status # "none"
                            /\ request[Request(c)].hash = call[c].input.hash
<1>1. CallSound(c)
  BY DEF Inv
<1>2. call[c] \in Local
  BY TypeParts DEF CallType
<1>3. phase[c] \notin {"circuit", "attempt", "retry", "complete", "attribute"} => beat[c] = Off
  BY DEF Inv, BeatSound
<1>4. phase[c] \notin Active => call[c].id = 0
  BY DEF Inv, LeaseSound, Executing
<1> QED
  BY <1>1, <1>2, <1>3, <1>4 DEF CallSound, Executing, Occupies

\* What is left of a call.
LEMMA RemainsMeans ==
  ASSUME Inv, NEW c \in Calls
  PROVE  LET f == Remains(c)
             g == [Remains(c) EXCEPT !.slot = FALSE]
         IN  /\ f \in Local /\ f.input = call[c].input /\ f.id = 0 /\ f.contacted = call[c].contacted
             /\ f.events = call[c].events
             /\ g \in Local /\ g.input = call[c].input /\ g.id = 0 /\ g.contacted = call[c].contacted
             /\ g.events = call[c].events
<1>1. PICK e \in Local : e = call[c]
  BY CallFacts
<1>2. e.contacted \in BOOLEAN /\ e.slot \in BOOLEAN /\ e.input \in AllInputs \union {NoInput} /\ e.events \in SUBSET Nat
  BY DEF Local
<1> DEFINE e1 == [LiveState EXCEPT !.input = e.input]
           e2 == [e1 EXCEPT !.contacted = e.contacted]
           e3 == [e2 EXCEPT !.events = e.events]
           e4 == [e3 EXCEPT !.slot = e.slot]
           e5 == [e4 EXCEPT !.slot = FALSE]
<1>3. Remains(c) = e4
  BY <1>1 DEF Remains
<1>4. e1 \in Local /\ e1.input = e.input /\ e1.id = 0
  BY <1>2 DEF LiveState, Local
<1> HIDE DEF e1
<1>5. /\ e2 \in Local /\ e2.input = e1.input /\ e2.id = e1.id /\ e2.contacted = e.contacted
  BY <1>2, <1>4, SetContacted
<1> HIDE DEF e2
<1>6. /\ e3 \in Local /\ e3.input = e2.input /\ e3.id = e2.id /\ e3.contacted = e2.contacted /\ e3.events = e.events
  BY <1>2, <1>5, SetEvents
<1> HIDE DEF e3
<1>7. e4 \in Local /\ Same(e4, e3)
  BY <1>2, <1>6, SetFlag
<1> HIDE DEF e4
<1>8. e5 \in Local /\ Same(e5, e4)
  BY <1>7, SetFlag
<1>9. [Remains(c) EXCEPT !.slot = FALSE] = e5
  BY <1>3
<1> HIDE DEF e5
<1> QED
  BY <1>1, <1>3, <1>4, <1>5, <1>6, <1>7, <1>8, <1>9 DEF Same

LEMMA CircuitRests ==
  ASSUME Inv, UNCHANGED <<now, circuit, probed>>
  PROVE  CircuitSound' /\ ProbeApart
BY DEF Inv, CircuitSound, ProbeApart

\* Rows of requests stay.
LEMMA TablesMove ==
  ASSUME Inv, NEW c \in Calls, TablesType', (lease \in [Calls -> CapacityLeaseRow])', request' = request,
         attributed \subseteq attributed', attributed' \subseteq Requests, CircuitSound', ProbeApart
  PROVE  TablesKept(c)
<1>1. RequestType'
  BY TypeParts DEF RequestType
<1> QED
  BY <1>1 DEF TablesKept

-----------------------------------------------------------------------------
(* The steps before the provider. *)

LEMMA ClaimStep ==
  ASSUME Inv, NEW c \in Calls, NEW i \in Inputs[c], phase[c] = "new", NEW p \in {"rate", "replay", "failed"},
         Continue(c, p, [LiveState EXCEPT !.input = i]),
         LET r == <<i.tenant, i.request>>
         IN  /\ \/ request' = request
                \/ request[r] = NoRow /\ p # "replay" /\ request' = [request EXCEPT ![r] = Inserted(i)]
             /\ p = "rate" => request[r] = NoRow /\ request' = [request EXCEPT ![r] = Inserted(i)]
             /\ p = "replay" => request[r].hash = i.hash /\ request[r].status = "completed",
         UNCHANGED <<now, client, attributed, rate, lease, route, circuit, bill, probed>>
  PROVE  Kept
<1> DEFINE r == <<i.tenant, i.request>>
<1>1. i \in AllInputs /\ r \in Requests /\ i.hash \in Nat
  <2>1. i \in AllInputs
    BY DEF AllInputs
  <2>2. i \in [client : Clients, tenant : Tenants, request : Nat, hash : Nat]
    BY GatewayAssumption
  <2> QED
    BY <2>1, <2>2 DEF Requests
<1>2. PICK e \in Local : e = [LiveState EXCEPT !.input = i] /\ e.input = i /\ e.id = 0 /\ e.contacted = FALSE
                         /\ e.final = FALSE /\ e.events = {}
  BY <1>1, SetInput
<1>3. /\ CallType'
      /\ \A d \in Calls \ {c} : phase'[d] = phase[d] /\ call'[d] = call[d] /\ beat'[d] = beat[d]
      /\ phase'[c] = p /\ call'[c] = e /\ beat'[c] = beat[c]
  <2>1. p \in Phases /\ p # "stop" /\ Continue(c, p, e)
    BY <1>2 DEF Phases
  <2> QED
    BY <2>1, Goes
<1>4. Request(c)' = r
  BY <1>2, <1>3 DEF Request
<1>5. beat[c] = Off
  BY CallFacts
<1>6. RequestType' /\ Inserted(i) \in GatewayRequestRow /\ Inserted(i).status = "in_progress" /\ Inserted(i).hash = i.hash
      /\ Inserted(i).events = {}
  BY SMTT(60), <1>1, TypeParts DEF RequestType, Inserted, GatewayRequestRow
<1>7. \A q \in Requests : request'[q] # request[q] => q = r /\ request[r] = NoRow /\ request'[r] = Inserted(i)
  BY <1>1, TypeParts DEF RequestType
<1>8. CallSound(c)'
  <2>1. ~Handing(c)' /\ phase'[c] # "attribute"
    BY <1>3 DEF Handing
  <2>2. OneAttempt(e.events)
    BY <1>2 DEF OneAttempt
  <2>3. p = "rate" => request'[r].status # "none" /\ request'[r].hash = e.input.hash
    BY <1>1, <1>2, <1>6, TypeParts DEF RequestType
  <2>4. p = "replay" => request'[r].status = "completed" /\ request'[r].hash = e.input.hash
    BY <1>2
  <2>5. p = "failed" => ~Executing(c)' /\ ~Occupies(c)'
    BY <1>2, <1>3 DEF Executing, Active, Occupies
  <2> QED
    BY <1>1, <1>2, <1>3, <1>4, <2>1, <2>2, <2>3, <2>4, <2>5 DEF CallSound
<1>9. Moves(c)
  BY <1>3, <1>5, <1>8 DEF Moves
<1>10. TablesKept(c)
  <2>1. CircuitSound' /\ ProbeApart
    BY CircuitRests
  <2>2. TablesType' /\ (lease \in [Calls -> CapacityLeaseRow])'
    BY TypeParts DEF TablesType
  <2>3. ASSUME NEW q \in Requests, request'[q] # request[q]
        PROVE  request[q].status = "none" /\ RowSound(q)'
    <3>1. request[q] = NoRow /\ request'[q] = Inserted(i)
      BY <1>7, <2>3
    <3> QED
      BY <1>6, <3>1 DEF NoRow, RowSound, OneAttempt
  <2> QED
    BY <1>6, <2>1, <2>2, <2>3 DEF TablesKept
<1>11. Alone'
  <2>1. ASSUME NEW d \in Calls, d # c, Occupies(d)', Occupies(c)', Request(d)' = Request(c)'
        PROVE  FALSE
    <3>1. Occupies(d) /\ Request(d) = r
      BY <1>3, <1>4, <2>1 DEF Occupies, Executing, Request
    <3>2. request[r].status # "none"
      BY <3>1 DEF Inv, CallSound
    <3>3. p = "rate"
      BY <1>2, <1>3, <2>1 DEF Occupies, Executing, Active
    <3> QED
      BY <3>2, <3>3 DEF NoRow
  <2>2. ASSUME NEW d \in Calls, d # c
        PROVE  (Occupies(d)' <=> Occupies(d)) /\ Request(d)' = Request(d)
    BY <1>3, <2>2 DEF Occupies, Executing, Request
  <2> QED
    BY <2>1, <2>2 DEF Inv, Alone
<1>12. LeaseSound' /\ LeasesWithinLimits'
  <2>1. \A d \in Calls : phase[d] # "new" => phase'[d] # "new" /\ call'[d].input = call[d].input
    BY <1>3
  <2>2. \A d \in Calls : call'[d].id # 0 => call'[d].id = call[d].id /\ Executing(d)'
    BY <1>2, <1>3 DEF Inv, LeaseSound, Executing
  <2> QED
    BY <1>10, <2>1, <2>2, LeasesRest DEF Live, TablesKept
<1> QED
  BY <1>9, <1>10, <1>11, <1>12, MovesKeep

LEMMA ClaimKeeps ==
  ASSUME Inv, NEW c \in Calls, NEW i \in Inputs[c], Claim(c, i) \/ ClaimAnswerLost(c, i)
  PROVE  Kept
<1> DEFINE r == <<i.tenant, i.request>>
<1>1. r \in Requests /\ request \in [Requests -> GatewayRequestRow]
  BY TypeParts DEF Requests, AllInputs, RequestType
<1>2. phase[c] = "new"
  BY DEF Claim, ClaimAnswerLost
<1>3. CASE ClaimAnswerLost(c, i)
  BY <1>2, <1>3, ClaimStep DEF ClaimAnswerLost
<1>4. CASE Claim(c, i)
  <2>1. PICK p : p = IF RequireAvailable(i.client) THEN StoredEventsOrRaise(request[r], i) ELSE "failed"
    OBVIOUS
  <2>2. p \in {"rate", "replay", "failed"} /\ Continue(c, p, [LiveState EXCEPT !.input = i])
        /\ UNCHANGED <<now, client, attributed, rate, lease, route, circuit, bill, probed>>
    BY <1>4, <2>1 DEF Claim, StoredEventsOrRaise
  <2>3. p = "rate" => request[r] = NoRow /\ request' = [request EXCEPT ![r] = Inserted(i)]
    BY <1>1, <1>4, <2>1 DEF Claim, StoredEventsOrRaise
  <2>4. p = "replay" => request[r].hash = i.hash /\ request[r].status = "completed" /\ request[r] # NoRow
    BY <2>1 DEF StoredEventsOrRaise
  <2>5. p # "rate" => request' = request
    <3>1. ASSUME p # "rate"
          PROVE  RequireAvailable(i.client) => request[r] # NoRow
      BY <2>1, <3>1 DEF StoredEventsOrRaise
    <3> QED
      BY <1>1, <1>4, <3>1 DEF Claim
  <2> QED
    BY <1>2, <2>2, <2>3, <2>4, <2>5, ClaimStep
<1> QED
  BY <1>3, <1>4

\* A step of call c that touches no table.
LEMMA CallOnlyKeeps ==
  ASSUME Inv, NEW c \in Calls, Runs(c), UNCHANGED <<now, stores>>, client' = client \/ CleanupRequired(c)
  PROVE  Kept
BY TablesRest, RunsKeep

LEMMA ReplayKeeps ==
  ASSUME Inv, NEW c \in Calls, Replay(c)
  PROVE  Kept
<1>1. /\ phase[c] = "replay" /\ attributed' = attributed \union {Request(c)} /\ request' = request
      /\ Continue(c, "delivered", [call[c] EXCEPT !.events = request[Request(c)].events])
      /\ UNCHANGED <<now, client, rate, lease, route, circuit, bill, probed>>
  BY DEF Replay
<1>2. /\ Request(c) \in Requests /\ request[Request(c)].status = "completed"
      /\ request[Request(c)].hash = call[c].input.hash
  BY <1>1 DEF Inv, CallSound
<1>3. request[Request(c)] \in GatewayRequestRow /\ OneAttempt(request[Request(c)].events)
  BY <1>2, TypeParts DEF RequestType, Inv, RowSound
<1>4. PICK s \in SUBSET Nat : s = request[Request(c)].events
  BY <1>3 DEF GatewayRequestRow
<1>5. PICK e \in Local : e = [call[c] EXCEPT !.events = s] /\ e.input = call[c].input /\ e.id = call[c].id
                         /\ e.contacted = call[c].contacted /\ e.events = s
  BY CallFacts, SetEvents
<1>6. Runs(c)
  <2>1. call[c].id = 0 /\ beat[c] = Off
    BY <1>1, CallFacts DEF Active
  <2>2. Stored(c, e.events)
    BY <1>1, <1>2, <1>3, <1>4, <1>5 DEF Stored, GatewayRequestRow
  <2>3. request'[Request(c)].status # "none"
    BY <1>1, <1>2
  <2>4. Continue(c, "delivered", e) /\ Request(c) \in attributed' /\ OneAttempt(e.events) /\ phase[c] # "new"
    BY <1>1, <1>3, <1>4, <1>5
  <2> QED
    BY <1>2, <1>5, <2>1, <2>2, <2>3, <2>4, Ends
<1>7. TablesKept(c)
  <2>1. attributed' \subseteq Requests /\ attributed \subseteq attributed'
    BY <1>1, <1>2, TypeParts DEF RequestType
  <2>2. TablesType' /\ (lease \in [Calls -> CapacityLeaseRow])'
    BY <1>1, TypeParts DEF TablesType
  <2> QED
    BY <1>1, <2>1, <2>2, CircuitRests, TablesMove
<1> QED
  BY <1>1, <1>6, <1>7, RunsKeep DEF Live

LEMMA EnforceRateLimitKeeps ==
  ASSUME Inv, NEW c \in Calls, EnforceRateLimit(c)
  PROVE  Kept
<1>1. /\ phase[c] = "rate" /\ (Continue(c, "stop", call[c]) \/ Continue(c, "slot", call[c]))
      /\ request' = request /\ attributed' = attributed
      /\ UNCHANGED <<now, client, lease, route, circuit, bill, probed>>
  BY DEF EnforceRateLimit
<1>2. phase[c] = "rate" /\ Executing(c)
  BY DEF EnforceRateLimit, Executing, Active
<1>3. Runs(c)
  <2>1. /\ call[c] \in Local /\ RowStays(c) /\ call[c].events = {} /\ beat[c] = Off /\ OneAttempt(call[c].events)
        /\ "slot" \in Active
    BY <1>1, <1>2, CallFacts, RowUntouched DEF Active
  <2>2. CASE Continue(c, "stop", call[c])
    BY <1>2, <2>1, <2>2, Stops
  <2>3. CASE Continue(c, "slot", call[c])
    BY <1>2, <2>1, <2>3, Advances
  <2> QED
    BY <1>1, <2>2, <2>3
<1>4. rate' \in [Tenants -> RateRow]
  <2>1. ASSUME NEW row \in RateRow, NEW at \in Stamps
        PROVE  RateRowAfter(row, at) \in RateRow
    BY StampIsNat DEF RateRow, RateRowAfter
  <2>2. PICK at \in Stamps : rate' = [rate EXCEPT ![call[c].input.tenant] = RateRowAfter(@, at)]
    BY DEF EnforceRateLimit
  <2> QED
    BY <2>1, <2>2, TypeParts DEF TablesType
<1>5. TablesKept(c)
  <2>1. TablesType' /\ (lease \in [Calls -> CapacityLeaseRow])' /\ attributed' \subseteq Requests
    BY <1>1, <1>4, TypeParts DEF TablesType, RequestType
  <2> QED
    BY <1>1, <2>1, CircuitRests, TablesMove
<1> QED
  BY <1>1, <1>3, <1>5, RunsKeep DEF Live

LEMMA AcquireSlotKeeps ==
  ASSUME Inv, NEW c \in Calls, AcquireSlot(c)
  PROVE  Kept
<1>1. phase[c] = "slot" /\ Executing(c) /\ request' = request
  BY DEF AcquireSlot, Executing, Active, stores
<1>2. /\ call[c] \in Local /\ RowStays(c) /\ call[c].events = {} /\ beat[c] = Off /\ OneAttempt(call[c].events)
      /\ "acquire" \in Active
  BY <1>1, CallFacts, RowUntouched DEF Active
<1>3. PICK f \in Local : f = [call[c] EXCEPT !.slot = TRUE] /\ Same(f, call[c])
  BY <1>2, SetFlag
<1>4. PICK e \in Local : e = [f EXCEPT !.at = now] /\ Same(e, f)
  BY TypeParts, SetNumber
<1>5. e = [call[c] EXCEPT !.slot = TRUE, !.at = now]
  BY <1>3, <1>4
<1>6. e.input = call[c].input /\ e.id = call[c].id /\ e.events = {} /\ OneAttempt(e.events)
  BY <1>2, <1>3, <1>4 DEF Same
<1>7. Continue(c, "acquire", e) \/ Continue(c, "stop", e)
  BY <1>5 DEF AcquireSlot
<1>8. Runs(c)
  <2>1. CASE Continue(c, "stop", e)
    BY <1>1, <1>2, <1>6, <2>1, Stops
  <2>2. CASE Continue(c, "acquire", e)
    BY <1>1, <1>2, <1>6, <2>2, Advances
  <2> QED
    BY <1>7, <2>1, <2>2
<1> QED
  BY <1>8, CallOnlyKeeps DEF AcquireSlot

LEMMA LockRouteKeeps ==
  ASSUME Inv, NEW c \in Calls, LockRoute(c)
  PROVE  Kept
<1>1. phase[c] = "acquire" /\ Executing(c) /\ request' = request /\ Continue(c, "acquiring", call[c])
  BY DEF LockRoute, Executing, Active, stores
<1>2. /\ call[c] \in Local /\ RowStays(c) /\ call[c].events = {} /\ beat[c] = Off /\ OneAttempt(call[c].events)
      /\ "acquiring" \in Active
  BY <1>1, CallFacts, RowUntouched DEF Active
<1>3. Runs(c)
  BY <1>1, <1>2, Advances
<1> QED
  BY <1>3, CallOnlyKeeps DEF LockRoute

-----------------------------------------------------------------------------
(* Acquiring a capacity lease. *)

\* A non-empty set of naturals has a least element: its initial segments are finite sets, which are well-founded.
LEMMA LeastExists ==
  ASSUME NEW K \in SUBSET Nat, K # {}
  PROVE  \E n \in K : \A k \in K : n <= k
<1> DEFINE Heads == {0..n : n \in K}
<1>1. \A n \in K : IsFiniteSet(0..n) /\ 0..n \in SUBSET Nat
  <2> SUFFICES ASSUME NEW n \in K PROVE IsFiniteSet(0..n) /\ 0..n \in SUBSET Nat
    OBVIOUS
  <2>1. 0 \in Int /\ n \in Int
    OBVIOUS
  <2> QED
    BY <2>1, FS_Interval
<1>2. Heads \subseteq FiniteSubsetsOf(Nat) /\ Heads # {}
  BY <1>1 DEF FiniteSubsetsOf
<1>3. IsWellFoundedOn(StrictSubsetOrdering(Nat), FiniteSubsetsOf(Nat))
  BY FS_StrictSubsetOrderingWellFounded
<1> HIDE DEF Heads
<1>4. PICK h \in Heads : \A i \in Heads : ~ (<<i, h>> \in StrictSubsetOrdering(Nat))
  BY <1>2, <1>3, WFMin
<1>5. PICK n \in K : h = 0..n
  BY DEF Heads
<1>6. ASSUME NEW k \in K, k < n PROVE FALSE
  <2>1. 0..k \in Heads
    BY DEF Heads
  <2>2. 0..k \subseteq 0..n /\ n \in 0..n /\ n \notin 0..k
    BY <1>6
  <2>3. <<0..k, h>> \in StrictSubsetOrdering(Nat)
    BY <1>1, <1>5, <2>2 DEF StrictSubsetOrdering
  <2> QED
    BY <1>4, <2>1, <2>3
<1> QED
  BY <1>6

Unexpired(c) == {l \in Calls : Live(l)} \ Expired(call[c].at)
Pruned(c) == [l \in Calls |-> IF l \in Unexpired(c) THEN lease[l] ELSE NoLease]

\* What acquire may decide.
Decided(c, q) ==
  /\ q.route \in CapacityRow /\ q.bill \in [Calls -> [window : Nat, tokens : Nat]]
  /\ \/ q.id = 0 /\ (q.lease = lease \/ q.lease = Pruned(c))
     \/ q.id = Min(Existing(c, Unexpired(c))) /\ Existing(c, Unexpired(c)) # {} /\ q.lease = Pruned(c)
     \/ /\ q.id = c /\ ~Full(c, Unexpired(c))
        /\ \E row \in CapacityLeaseRow : q.lease = [Pruned(c) EXCEPT ![c] = row]

LEMMA AcquireMeans ==
  ASSUME Inv, NEW c \in Calls
  PROVE  Decided(c, AcquireResult(c))
<1> SUFFICES ASSUME NEW q, q = AcquireResult(c) PROVE Decided(c, q)
  OBVIOUS
<1> DEFINE t == call[c].at
           reset == ResetTokenWindow(route, t)
<1>1. t \in Nat /\ route \in CapacityRow /\ bill \in [Calls -> [window : Nat, tokens : Nat]]
  BY CallFacts, TypeParts DEF Local, TablesType
<1>2. reset \in CapacityRow
  BY <1>1 DEF ResetTokenWindow, CapacityRow
<1>3. CASE t < route.updated
  <2>1. q = [id |-> 0, lease |-> lease, route |-> route, bill |-> bill]
    BY <1>3 DEF AcquireResult
  <2> QED
    BY <1>1, <2>1 DEF Decided
<1>4. CASE ~(t < route.updated) /\ Existing(c, Unexpired(c)) # {}
  <2>1. q = [id |-> Min(Existing(c, Unexpired(c))), lease |-> Pruned(c), route |-> route, bill |-> bill]
    BY <1>4 DEF AcquireResult, Pruned, Unexpired
  <2> QED
    BY <1>1, <1>4, <2>1 DEF Decided
<1>5. CASE ~(t < route.updated) /\ Existing(c, Unexpired(c)) = {} /\ Full(c, Unexpired(c))
  <2>1. q = [id |-> 0, lease |-> Pruned(c), route |-> route, bill |-> bill]
    BY <1>5 DEF AcquireResult, Pruned, Unexpired
  <2> QED
    BY <1>1, <2>1 DEF Decided
<1>6. CASE /\ ~(t < route.updated) /\ Existing(c, Unexpired(c)) = {} /\ ~Full(c, Unexpired(c))
           /\ reset.accounted + Reserved > TokenLimit
  <2>1. q = [id |-> 0, lease |-> Pruned(c), route |-> reset, bill |-> bill]
    BY <1>6 DEF AcquireResult, Pruned, Unexpired
  <2> QED
    BY <1>1, <1>2, <2>1 DEF Decided
<1>7. CASE /\ ~(t < route.updated) /\ Existing(c, Unexpired(c)) = {} /\ ~Full(c, Unexpired(c))
           /\ ~(reset.accounted + Reserved > TokenLimit)
  <2>1. q = [id |-> c,
             lease |-> [Pruned(c) EXCEPT ![c] = [expires |-> t + Lease, window |-> reset.window]],
             route |-> [reset EXCEPT !.accounted = @ + Reserved, !.updated = t],
             bill |-> [bill EXCEPT ![c] = [window |-> reset.window, tokens |-> Reserved]]]
    BY <1>7 DEF AcquireResult, Pruned, Unexpired
  <2>2. PICK w \in CapacityRow : w = reset
    BY <1>2
  <2>3. w.accounted + Reserved \in Nat /\ w.window \in Nat
    BY Constants DEF CapacityRow
  <2>4. PICK u \in CapacityRow : u = [w EXCEPT !.accounted = @ + Reserved]
    BY <2>3 DEF CapacityRow
  <2>5. PICK v \in CapacityRow : v = [reset EXCEPT !.accounted = @ + Reserved, !.updated = t]
    <3>1. [u EXCEPT !.updated = t] \in CapacityRow
      BY <1>1 DEF CapacityRow
    <3> QED
      BY <2>2, <2>4, <3>1
  <2>6. PICK row \in CapacityLeaseRow : row = [expires |-> t + Lease, window |-> reset.window]
    <3>1. t + Lease \in Nat
      BY <1>1, Constants
    <3>2. [expires |-> t + Lease, window |-> w.window] \in CapacityLeaseRow
      BY <2>3, <3>1 DEF CapacityLeaseRow
    <3> QED
      BY <2>2, <3>2
  <2>7. PICK b \in [Calls -> [window : Nat, tokens : Nat]] :
          b = [bill EXCEPT ![c] = [window |-> reset.window, tokens |-> Reserved]]
    BY <1>1, <2>2, <2>3, Constants
  <2>8. q = [id |-> c, lease |-> [Pruned(c) EXCEPT ![c] = row], route |-> v, bill |-> b]
    BY <2>1, <2>5, <2>6, <2>7
  <2>9. q.id = c /\ q.lease = [Pruned(c) EXCEPT ![c] = row] /\ q.route = v /\ q.bill = b
    BY <2>8
  <2> QED
    BY <1>7, <2>9 DEF Decided
<1> QED
  BY <1>3, <1>4, <1>5, <1>6, <1>7

LEMMA MinOf ==
  ASSUME NEW K \in SUBSET Nat, K # {}
  PROVE  Min(K) \in K /\ \A k \in K : Min(K) <= k
BY LeastExists DEF Min

LEMMA PrunedMeans ==
  ASSUME Inv, NEW c \in Calls
  PROVE  /\ Pruned(c) \in [Calls -> CapacityLeaseRow]
         /\ \A l \in Calls : Pruned(c)[l] # NoLease => l \in Unexpired(c) /\ Live(l)
         /\ \A l \in Existing(c, Unexpired(c)) : l \in Calls /\ Live(l) /\ Request(l) = Request(c) /\ Pruned(c)[l] = lease[l]
         /\ Unexpired(c) \subseteq Calls
<1>1. lease \in [Calls -> CapacityLeaseRow] /\ NoLease \in CapacityLeaseRow
  BY TypeParts DEF NoLease, CapacityLeaseRow
<1> QED
  BY <1>1 DEF Pruned, Unexpired, Existing

\* There is room for the lease of c.
LEMMA LimitsAfter ==
  ASSUME Inv, NEW c \in Calls, ~Full(c, Unexpired(c)),
         \A l \in Calls : Live(l)' => l \in Unexpired(c) \/ l = c,
         \A d \in Calls : call'[d].input = call[d].input
  PROVE  LeasesWithinLimits'
<1>1. PICK U : U = Unexpired(c) /\ U \subseteq Calls /\ IsFiniteSet(U)
  BY PrunedMeans, Constants, FS_Subset
<1>2. PICK H : H = {l \in Calls : Live(l)'} /\ H \subseteq U \union {c}
  BY <1>1
<1>3. Cardinality(H) <= RouteLimit
  <2>1. PICK n \in Nat : n = Cardinality(U) /\ n < RouteLimit
    <3>1. Cardinality(U) \in Nat /\ ~(Cardinality(U) >= RouteLimit)
      BY <1>1, FS_CardinalityType DEF Full
    <3> QED
      BY <3>1, Constants
  <2>2. IsFiniteSet(U \union {c}) /\ Cardinality(U \union {c}) \in {n, n + 1}
    BY <1>1, <2>1, FS_AddElement
  <2>3. PICK m : m = Cardinality(H) /\ m \in Nat /\ m <= Cardinality(U \union {c})
    BY <1>2, <2>2, FS_Subset, FS_CardinalityType
  <2> QED
    BY <2>1, <2>2, <2>3, Constants
<1>4. ASSUME NEW t \in Tenants
      PROVE  Cardinality({l \in H : call'[l].input.tenant = t}) <= TenantLimit
  <2>1. PICK G : G = {l \in H : call'[l].input.tenant = t} /\ G = {l \in H : call[l].input.tenant = t}
    BY <1>2
  <2>2. CASE t = call[c].input.tenant
    <3>1. PICK T : T = LeasesOfTenant(c, U) /\ IsFiniteSet(T) /\ G \subseteq T \union {c}
      <4>1. LeasesOfTenant(c, U) \subseteq U
        BY DEF LeasesOfTenant
      <4>2. G \subseteq LeasesOfTenant(c, U) \union {c}
        BY <1>2, <2>1, <2>2 DEF LeasesOfTenant
      <4> QED
        BY <1>1, <4>1, <4>2, FS_Subset
    <3>2. PICK n \in Nat : n = Cardinality(T) /\ n < TenantLimit
      <4>1. Cardinality(T) \in Nat /\ ~(Cardinality(T) >= TenantLimit)
        BY <1>1, <3>1, FS_CardinalityType DEF Full
      <4> QED
        BY <4>1, Constants
    <3>3. IsFiniteSet(T \union {c}) /\ Cardinality(T \union {c}) \in {n, n + 1}
      BY <3>1, <3>2, FS_AddElement
    <3>4. PICK m : m = Cardinality(G) /\ m \in Nat /\ m <= Cardinality(T \union {c})
      BY <3>1, <3>3, FS_Subset, FS_CardinalityType
    <3>5. m <= TenantLimit
      BY <3>2, <3>3, <3>4, Constants
    <3> QED
      BY <2>1, <3>4, <3>5
  <2>3. CASE t # call[c].input.tenant
    <3>1. PICK F : F = {l \in {k \in Calls : Live(k)} : call[l].input.tenant = t} /\ IsFiniteSet(F) /\ G \subseteq F
      <4>1. {l \in {k \in Calls : Live(k)} : call[l].input.tenant = t} \subseteq Calls
        OBVIOUS
      <4>2. G \subseteq {l \in {k \in Calls : Live(k)} : call[l].input.tenant = t}
        BY <1>1, <1>2, <2>1, <2>3 DEF Unexpired
      <4> QED
        BY <4>1, <4>2, Constants, FS_Subset
    <3>2. PICK n \in Nat : n = Cardinality(F) /\ n <= TenantLimit
      <4>1. Cardinality(F) <= TenantLimit
        BY <3>1 DEF Inv, LeasesWithinLimits
      <4> QED
        BY <3>1, <4>1, FS_CardinalityType
    <3>3. PICK m : m = Cardinality(G) /\ m \in Nat /\ m <= n
      BY <3>1, <3>2, FS_Subset, FS_CardinalityType
    <3>4. m <= TenantLimit
      BY <3>2, <3>3, Constants
    <3> QED
      BY <2>1, <3>3, <3>4
  <2> QED
    BY <2>2, <2>3
<1> QED
  BY <1>2, <1>3, <1>4 DEF LeasesWithinLimits

LEMMA AcquireKeeps ==
  ASSUME Inv, NEW c \in Calls, NEW told \in BOOLEAN, Acquire(c, told)
  PROVE  Kept
<1>1. PICK q : q = AcquireResult(c)
  OBVIOUS
<1>2. /\ phase[c] = "acquiring" /\ lease' = q.lease /\ route' = q.route /\ bill' = q.bill /\ request' = request
      /\ attributed' = attributed /\ UNCHANGED <<now, client, rate, circuit, probed>>
      /\ \/ /\ q.id # 0 /\ phase' = [phase EXCEPT ![c] = "circuit"]
            /\ call' = [call EXCEPT ![c].id = q.id, ![c].at = 0, ![c].expires = q.lease[q.id].expires]
            /\ beat' = [beat EXCEPT ![c] = Asleep]
         \/ Continue(c, "stop", call[c])
  BY <1>1 DEF Acquire
<1>3. Executing(c) /\ RowStays(c) /\ call[c] \in Local /\ call[c].events = {} /\ phase[c] # "new"
  BY <1>2, CallFacts, RowUntouched DEF Executing, Active
<1>4. Decided(c, q)
  BY <1>1, AcquireMeans
<1>5. Existing(c, Unexpired(c)) # {} => Min(Existing(c, Unexpired(c))) \in Existing(c, Unexpired(c))
  <2>1. Existing(c, Unexpired(c)) \in SUBSET Nat
    BY PrunedMeans, Constants
  <2> QED
    BY <2>1, MinOf
<1>6. /\ q.lease \in [Calls -> CapacityLeaseRow]
      /\ \/ \A l \in Calls : q.lease[l] # NoLease => Live(l)
         \/ ~Full(c, Unexpired(c)) /\ \A l \in Calls : q.lease[l] # NoLease => l \in Unexpired(c) \/ l = c
      /\ q.id # 0 => q.id \in Calls /\ (q.id = c \/ (Live(q.id) /\ Request(q.id) = Request(c)))
  <2>1. CASE q.lease = lease /\ q.id = 0
    BY <2>1, TypeParts DEF Live
  <2>2. CASE q.lease = Pruned(c) /\ q.id = 0
    BY <2>2, PrunedMeans
  <2>3. CASE q.id = Min(Existing(c, Unexpired(c))) /\ Existing(c, Unexpired(c)) # {} /\ q.lease = Pruned(c)
    BY <1>5, <2>3, PrunedMeans
  <2>4. CASE /\ q.id = c /\ ~Full(c, Unexpired(c))
             /\ \E row \in CapacityLeaseRow : q.lease = [Pruned(c) EXCEPT ![c] = row]
    BY <2>4, PrunedMeans
  <2> QED
    BY <1>4, <2>1, <2>2, <2>3, <2>4 DEF Decided
<1>7. TablesKept(c)
  <2>1. TablesType' /\ attributed' \subseteq Requests
    BY <1>2, <1>4, TypeParts DEF TablesType, RequestType, Decided
  <2> QED
    BY <1>2, <1>6, <2>1, CircuitRests, TablesMove
<1>8. CASE Continue(c, "stop", call[c])
  <2>1. Runs(c)
    BY <1>3, <1>8, Stops
  <2>2. CASE \A l \in Calls : q.lease[l] # NoLease => Live(l)
    BY <1>2, <1>7, <2>1, <2>2, RunsKeep DEF Live
  <2>3. CASE ~Full(c, Unexpired(c)) /\ \A l \in Calls : q.lease[l] # NoLease => l \in Unexpired(c) \/ l = c
    <3>1. \A d \in Calls : call'[d].input = call[d].input /\ (phase[d] # "new" => phase'[d] # "new")
      BY <1>3, <2>1 DEF Runs, Moves
    <3>2. LeasesWithinLimits'
      BY <1>2, <2>3, <3>1, LimitsAfter DEF Live
    <3>3. \A d \in Calls : Occupies(d)' => Occupies(d)
      BY <2>1 DEF Runs, Moves, Occupies, Executing
    <3>4. Alone'
      BY <3>1, <3>3, AloneRests
    <3>5. LeaseSound'
      <4>1. \A l \in Calls : Live(l)' => phase'[l] # "new"
        BY <1>2, <1>3, <2>3, <3>1 DEF Live, Unexpired, Inv, LeaseSound
      <4>2. \A d \in Calls : call'[d].id # 0 => call'[d].id = call[d].id /\ Executing(d)'
        BY <2>1 DEF Runs, Moves, Executing, Inv, LeaseSound
      <4>3. \A d \in Calls : call[d].id # 0 => /\ call[d].id \in Calls /\ phase[call[d].id] # "new"
                                               /\ Request(call[d].id) = Request(d)
        BY DEF Inv, LeaseSound
      <4>4. \A d \in Calls : Request(d)' = Request(d)
        BY <3>1 DEF Request
      <4> QED
        BY <3>1, <4>1, <4>2, <4>3, <4>4 DEF LeaseSound, Request
    <3> QED
      BY <1>7, <2>1, <3>2, <3>4, <3>5, MovesKeep DEF Runs
  <2> QED
    BY <1>6, <2>2, <2>3
<1>9. CASE /\ q.id # 0 /\ phase' = [phase EXCEPT ![c] = "circuit"]
           /\ call' = [call EXCEPT ![c].id = q.id, ![c].at = 0, ![c].expires = q.lease[q.id].expires]
           /\ beat' = [beat EXCEPT ![c] = Asleep]
  <2>1. PICK n \in Nat : n = q.lease[q.id].expires
    BY <1>6, <1>9 DEF CapacityLeaseRow
  <2>2. PICK e1 \in Local : e1 = [call[c] EXCEPT !.id = q.id] /\ e1.input = call[c].input /\ e1.id = q.id
                            /\ e1.contacted = call[c].contacted /\ e1.events = call[c].events
    <3>1. PICK l \in Calls \union {0} : l = q.id
      BY <1>6, <1>9
    <3>2. PICK e0 \in Local : e0 = call[c]
      BY <1>3
    <3>3. /\ [e0 EXCEPT !.id = l] \in Local
          /\ [e0 EXCEPT !.id = l].input = e0.input /\ [e0 EXCEPT !.id = l].id = l
          /\ [e0 EXCEPT !.id = l].contacted = e0.contacted /\ [e0 EXCEPT !.id = l].events = e0.events
      BY SetId
    <3> QED
      BY <3>1, <3>2, <3>3
  <2>3. PICK e2 \in Local : e2 = [e1 EXCEPT !.at = 0] /\ Same(e2, e1)
    BY SetNumber
  <2>4. PICK e \in Local : e = [e2 EXCEPT !.expires = n] /\ Same(e, e2)
    BY SetNumber
  <2>5. e.input = call[c].input /\ e.id = q.id /\ e.contacted = call[c].contacted /\ e.events = {}
    BY <1>3, <2>2, <2>3, <2>4 DEF Same
  <2>6. call' = [call EXCEPT ![c] = e]
    BY <1>3, <1>9, <2>1, <2>2, <2>3, <2>4, TypeParts DEF CallType
  <2>7. /\ CallType' /\ phase'[c] = "circuit" /\ call'[c] = e
        /\ \A d \in Calls \ {c} : phase'[d] = phase[d] /\ call'[d] = call[d] /\ beat'[d] = beat[d]
    <3>1. phase' \in [Calls -> Phases] /\ phase'[c] = "circuit"
      BY <1>9, TypeParts DEF CallType, Phases
    <3>2. call' \in [Calls -> Local] /\ call'[c] = e
      BY <2>6, TypeParts DEF CallType
    <3>3. beat' \in [Calls -> {Off, Asleep} \union Nat]
      BY <1>9, TypeParts DEF CallType
    <3>4. \A d \in Calls \ {c} : phase'[d] = phase[d] /\ call'[d] = call[d] /\ beat'[d] = beat[d]
      BY <1>9, <2>6, TypeParts DEF CallType
    <3> QED
      BY <3>1, <3>2, <3>3, <3>4 DEF CallType
  <2>8. /\ \A d \in Calls : call'[d].input = call[d].input /\ (phase[d] # "new" => phase'[d] # "new")
        /\ \A d \in Calls : Request(d)' = Request(d)
    BY <2>5, <2>7 DEF Request
  <2>9. Executing(c)'
    BY <2>7 DEF Executing, Active
  <2>10. Moves(c)
    <3>1. CallSound(c)'
      <4>1. ~Handing(c)' /\ OneAttempt(e.events)
        BY <2>5, <2>7 DEF Handing, OneAttempt
      <4>2. /\ Request(c) \in Requests /\ request[Request(c)].status # "none"
            /\ request[Request(c)].hash = call[c].input.hash
        BY <1>3, CallFacts
      <4> QED
        BY <1>2, <2>5, <2>7, <2>8, <4>1, <4>2 DEF CallSound
    <3> QED
      BY <2>5, <2>7, <3>1 DEF Moves
  <2>11. Alone'
    <3>1. \A d \in Calls : Occupies(d)' => Occupies(d)
      BY <1>3, <2>7 DEF Occupies, Executing
    <3> QED
      BY <2>8, <3>1, AloneRests
  <2>12. LeaseSound'
    <3>1. \A l \in Calls : Live(l)' => phase'[l] # "new"
      BY <1>2, <1>3, <1>6, <2>8 DEF Live, Unexpired, Inv, LeaseSound
    <3>2. /\ call'[c].id \in Calls /\ phase'[call'[c].id] # "new" /\ Request(q.id)' = Request(c)'
      <4>1. q.id \in Calls /\ phase[q.id] # "new" /\ Request(q.id) = Request(c)
        BY <1>3, <1>6, <1>9 DEF Inv, LeaseSound
      <4> QED
        BY <2>5, <2>7, <2>8, <4>1
    <3>3. ASSUME NEW d \in Calls \ {c}, call'[d].id # 0
          PROVE  /\ Executing(d)' /\ call'[d].id \in Calls /\ phase'[call'[d].id] # "new"
                 /\ Request(call[d].id)' = Request(d)' /\ call'[d].id = call[d].id
      <4>1. /\ call[d].id # 0 /\ Executing(d) /\ call[d].id \in Calls /\ phase[call[d].id] # "new"
            /\ Request(call[d].id) = Request(d)
        BY <2>7, <3>3 DEF Inv, LeaseSound
      <4>2. PICK l \in Calls : l = call[d].id
        BY <4>1
      <4> QED
        BY <2>7, <2>8, <4>1, <4>2 DEF Executing, Request
    <3> QED
      BY <2>5, <2>7, <2>9, <3>1, <3>2, <3>3 DEF LeaseSound, Request
  <2>13. LeasesWithinLimits'
    <3>1. CASE \A l \in Calls : q.lease[l] # NoLease => Live(l)
      <4>1. \A l \in Calls : Live(l)' => Live(l)
        BY <1>2, <3>1 DEF Live
      <4> QED
        BY <2>8, <4>1, LimitsRest
    <3>2. CASE ~Full(c, Unexpired(c)) /\ \A l \in Calls : q.lease[l] # NoLease => l \in Unexpired(c) \/ l = c
      BY <1>2, <2>8, <3>2, LimitsAfter DEF Live
    <3> QED
      BY <1>6, <3>1, <3>2
  <2> QED
    BY <1>7, <2>10, <2>11, <2>12, <2>13, MovesKeep
<1> QED
  BY <1>2, <1>8, <1>9

-----------------------------------------------------------------------------
(* The provider. *)

\* A step of an executing call that changes the circuit.
LEMMA CircuitKeeps ==
  ASSUME Inv, NEW c \in Calls, Runs(c), circuit' \in CircuitRow, probed' \in Nat, CircuitSound', ProbeApart,
         UNCHANGED <<now, client, request, attributed, rate, lease, route, bill>>
  PROVE  Kept
<1>1. TablesType' /\ (lease \in [Calls -> CapacityLeaseRow])' /\ attributed' \subseteq Requests
  BY TypeParts DEF TablesType, RequestType
<1>2. TablesKept(c)
  BY <1>1, TablesMove
<1> QED
  BY <1>2, RunsKeep DEF Live

\* The probe that is let through is past the recovery time of the last one.
LEMMA RequireClosedCircuitKeeps ==
  ASSUME Inv, NEW c \in Calls, RequireClosedCircuit(c)
  PROVE  Kept
<1>1. /\ phase[c] \in {"circuit", "retry"} /\ Executing(c) /\ request' = request
      /\ UNCHANGED <<now, client, request, attributed, rate, lease, route, bill>>
  BY DEF RequireClosedCircuit, Executing, Active
<1>2. now \in Nat /\ now # 0 /\ probed \in Nat /\ circuit \in CircuitRow /\ CircuitSound
  BY TypeParts DEF TablesType, Inv
<1>t. PICK t \in Stamps :
        /\ Allow(t) /\ probed' = IF Allowed(t) /\ circuit.opened # 0 THEN now ELSE probed
        /\ Continue(c, IF Allowed(t) THEN "attempt" ELSE "stop", [call[c] EXCEPT !.contacted = @ \/ Allowed(t)])
  BY Zenon DEF RequireClosedCircuit
<1>u. t \in Nat /\ t # 0 /\ t <= now /\ t + Lag >= now /\ Lag \in Nat /\ Recovery \in Nat
  BY StampIsNat, Constants
<1>3. CASE Allowed(t) /\ circuit.opened # 0
  <2>1. circuit' = [circuit EXCEPT !.probe = TRUE, !.started = t] /\ probed' = now
    BY <1>3, <1>t DEF Allow
  <2>2. /\ circuit' \in CircuitRow /\ circuit'.failures = circuit.failures /\ circuit'.opened = circuit.opened
        /\ circuit'.probe = TRUE /\ circuit'.started = t
    BY <1>2, <1>u, <2>1 DEF CircuitRow
  <2>3. circuit'.probe
    BY <2>2, Zenon
  <2>4. CircuitSound'
    BY <1>1, <1>2, <1>u, <1>3, <2>1, <2>2, <2>3 DEF CircuitSound
  <2>5. t - circuit.opened >= Recovery /\ ~(circuit.probe /\ t - circuit.started < Recovery)
    BY <1>3 DEF Allowed, RecoveryOver, ProbeOwned
  <2>6. probed = 0 \/ now - probed >= Recovery - Lag
    <3>1. circuit.opened \in Nat /\ circuit.started \in Nat
      BY <1>2 DEF CircuitRow
    <3>2. CASE circuit.opened + Lag >= probed
      BY <1>2, <1>u, <2>5, <3>1, <3>2, Constants
    <3>3. CASE circuit.probe /\ circuit.started + Lag >= probed
      <4>1. ~(t - circuit.started < Recovery)
        BY <2>5, <3>3
      <4> QED
        BY <1>2, <1>u, <3>1, <3>3, <4>1, Constants
    <3> QED
      BY <1>2, <1>3, <3>2, <3>3 DEF CircuitSound
  <2>7. Runs(c)
    <3>1. PICK b \in BOOLEAN : b = (call[c].contacted \/ Allowed(t))
      OBVIOUS
    <3>2. PICK e \in Local : e = [call[c] EXCEPT !.contacted = b] /\ e.input = call[c].input /\ e.id = call[c].id
                             /\ e.events = call[c].events
      BY CallFacts, SetContacted
    <3>3. Continue(c, "attempt", e)
      BY <1>3, <1>t, <3>1, <3>2
    <3>4. RowStays(c) /\ call[c].events = {} /\ OneAttempt(call[c].events) /\ "attempt" \in Active
      BY <1>1, CallFacts, RowUntouched DEF Active
    <3> QED
      BY <1>1, <3>2, <3>3, <3>4, Advances
  <2> QED
    BY <1>1, <2>1, <2>2, <2>4, <2>6, <2>7, <1>2, CircuitKeeps DEF ProbeApart
<1>4. CASE ~(Allowed(t) /\ circuit.opened # 0)
  <2>1. circuit' = circuit /\ probed' = probed
    BY <1>4, <1>t DEF Allow
  <2>2. Runs(c)
    <3>1. PICK b \in BOOLEAN : b = (call[c].contacted \/ Allowed(t))
      OBVIOUS
    <3>2. PICK e \in Local : e = [call[c] EXCEPT !.contacted = b] /\ e.input = call[c].input /\ e.id = call[c].id
                             /\ e.events = call[c].events
      BY CallFacts, SetContacted
    <3>3. Continue(c, "attempt", e) \/ Continue(c, "stop", e)
      BY <1>t, <3>1, <3>2
    <3>4. RowStays(c) /\ call[c].events = {} /\ OneAttempt(call[c].events) /\ "attempt" \in Active
      BY <1>1, CallFacts, RowUntouched DEF Active
    <3>5. CASE Continue(c, "attempt", e)
      BY <1>1, <3>2, <3>4, <3>5, Advances
    <3>6. CASE Continue(c, "stop", e)
      BY <1>1, <3>2, <3>4, <3>6, Stops
    <3> QED
      BY <3>3, <3>5, <3>6
  <2> QED
    BY <1>1, <1>2, <2>1, <2>2, CircuitRests, CircuitKeeps
<1> QED
  BY <1>3, <1>4

LEMMA RecordFailureMeans ==
  ASSUME Inv, NEW t \in Stamps, RecordFailure(t), UNCHANGED <<now, probed>>
  PROVE  circuit' \in CircuitRow /\ CircuitSound' /\ ProbeApart
<1>1. now \in Nat /\ now # 0 /\ probed \in Nat /\ circuit \in CircuitRow /\ CircuitSound /\ FailureThreshold \in Nat \ {0}
  BY TypeParts, Constants DEF TablesType, Inv
<1>t. t \in Nat /\ t # 0 /\ t <= now /\ t + Lag >= now /\ Lag \in Nat
  BY StampIsNat, Constants
<1>2. PICK f \in Nat : f = circuit.failures + 1
  BY <1>1 DEF CircuitRow
<1>3. PICK n : n = Min({f, FailureThreshold}) /\ n \in {f, FailureThreshold} /\ n <= f /\ n <= FailureThreshold
  BY <1>1, MinOf
<1>4. PICK o : o = IF n >= FailureThreshold THEN t ELSE circuit.opened
  OBVIOUS
<1>5. circuit' = [failures |-> n, probe |-> FALSE, started |-> 0, opened |-> o]
  BY <1>2, <1>3, <1>4 DEF RecordFailure
<1>6. o \in Nat /\ n \in Nat
  BY <1>1, <1>t, <1>3, <1>4 DEF CircuitRow
<1>7. circuit' \in CircuitRow /\ circuit'.failures = n /\ circuit'.opened = o /\ circuit'.probe = FALSE
  BY <1>5, <1>6 DEF CircuitRow
<1>8. ~circuit'.probe
  BY <1>7, Zenon
<1>9. o # 0 => n >= FailureThreshold /\ o = t
  <2>1. ASSUME ~(n >= FailureThreshold), circuit.opened # 0
        PROVE  FALSE
    <3>1. circuit.failures \in Nat /\ circuit.failures >= FailureThreshold
      BY <1>1, <2>1 DEF CircuitSound, CircuitRow
    <3> QED
      BY <1>1, <1>2, <1>3, <2>1, <3>1
  <2> QED
    BY <1>4, <2>1
<1> QED
  BY <1>1, <1>t, <1>6, <1>7, <1>8, <1>9 DEF CircuitSound, ProbeApart

LEMMA AttemptFailsKeeps ==
  ASSUME Inv, NEW c \in Calls, NEW streamed \in BOOLEAN, NEW retryable \in BOOLEAN,
         AttemptFails(c, streamed, retryable)
  PROVE  Kept
<1>1. /\ phase[c] = "attempt" /\ Executing(c) /\ request' = request
      /\ UNCHANGED <<now, client, request, attributed, rate, lease, route, bill, probed>>
  BY DEF AttemptFails, Executing, Active
<1>2. circuit' \in CircuitRow /\ CircuitSound' /\ ProbeApart /\ probed' \in Nat
  <2>1. probed' \in Nat /\ circuit \in CircuitRow
    BY <1>1, TypeParts DEF TablesType
  <2>2. (\E t \in Stamps : RecordFailure(t)) \/ circuit' = circuit
    BY DEF AttemptFails
  <2> QED
    BY <1>1, <2>1, <2>2, RecordFailureMeans, CircuitRests
<1>3. Runs(c)
  <2>1. RowStays(c) /\ call[c].events = {} /\ OneAttempt(call[c].events) /\ "retry" \in Active /\ call[c] \in Local
    BY <1>1, CallFacts, RowUntouched DEF Active
  <2>2. CASE CanRetry(c, streamed, retryable)
    <3>1. ~streamed
      BY <2>2 DEF CanRetry
    <3>2. Streamed(c, streamed) = {}
      BY <2>1, <3>1 DEF Streamed
    <3>3. PICK n \in Nat : n = call[c].attempt + 1
      BY <2>1 DEF Local
    <3>4. PICK f \in Local : f = [call[c] EXCEPT !.attempt = n] /\ Same(f, call[c])
      BY <2>1, SetNumber
    <3>5. PICK e \in Local : e = [f EXCEPT !.events = {}] /\ e.input = f.input /\ e.id = f.id /\ e.events = {}
      BY SetEvents
    <3>6. e = [call[c] EXCEPT !.attempt = @ + 1, !.events = Streamed(c, streamed)]
      BY <3>2, <3>3, <3>4, <3>5
    <3>7. Continue(c, "retry", e)
      BY <2>2, <3>6 DEF AttemptFails
    <3>8. e.input = call[c].input /\ e.id = call[c].id /\ OneAttempt(e.events)
      BY <2>1, <3>4, <3>5 DEF Same
    <3> QED
      BY <1>1, <2>1, <3>5, <3>7, <3>8, Advances
  <2>3. CASE ~CanRetry(c, streamed, retryable)
    <3>1. Continue(c, "stop", call[c])
      BY <2>3 DEF AttemptFails
    <3> QED
      BY <1>1, <2>1, <3>1, Stops
  <2> QED
    BY <2>2, <2>3
<1> QED
  BY <1>1, <1>2, <1>3, CircuitKeeps

LEMMA AttemptEndsKeeps ==
  ASSUME Inv, NEW c \in Calls, AttemptEnds(c)
  PROVE  Kept
<1>1. /\ phase[c] = "attempt" /\ Executing(c) /\ request' = request /\ RecordSuccess
      /\ UNCHANGED <<now, client, request, attributed, rate, lease, route, bill, probed>>
  BY DEF AttemptEnds, Executing, Active
<1>2. circuit' \in CircuitRow /\ CircuitSound' /\ ProbeApart /\ probed' \in Nat
  <2>1. circuit' \in CircuitRow /\ circuit'.opened = 0 /\ circuit'.probe = FALSE
    BY <1>1 DEF RecordSuccess, CircuitRow
  <2>2. ~circuit'.probe
    BY <2>1, Zenon
  <2>3. probed' \in Nat
    BY <1>1, TypeParts DEF TablesType
  <2> QED
    BY <1>1, <2>1, <2>2, <2>3 DEF CircuitSound, ProbeApart, Inv
<1>3. Runs(c)
  <2>1. RowStays(c) /\ call[c].events = {} /\ "complete" \in Active /\ call[c] \in Local
    BY <1>1, CallFacts, RowUntouched DEF Active
  <2>2. PICK n \in Usage : Continue(c, "complete", [call[c] EXCEPT !.usage = n, !.events = Streamed(c, TRUE)])
    BY Zenon DEF AttemptEnds
  <2>3. PICK s \in SUBSET Nat : s = Streamed(c, TRUE) /\ OneAttempt(s)
    <3>1. call[c].attempt \in Nat
      BY <2>1 DEF Local
    <3>2. Streamed(c, TRUE) = {call[c].attempt}
      BY <2>1 DEF Streamed
    <3>3. {call[c].attempt} \in SUBSET Nat /\ OneAttempt({call[c].attempt})
      BY <3>1 DEF OneAttempt
    <3> QED
      BY <3>2, <3>3
  <2>4. PICK f \in Local : f = [call[c] EXCEPT !.usage = n] /\ Same(f, call[c])
    BY <2>1, Constants, SetNumber
  <2>5. PICK e \in Local : e = [f EXCEPT !.events = s] /\ e.input = f.input /\ e.id = f.id /\ e.events = s
    BY SetEvents
  <2>6. e = [call[c] EXCEPT !.usage = n, !.events = Streamed(c, TRUE)]
    BY <2>3, <2>4, <2>5
  <2>7. Continue(c, "complete", e)
    BY <2>2, <2>6
  <2>8. e.input = call[c].input /\ e.id = call[c].id /\ OneAttempt(e.events)
    BY <2>3, <2>4, <2>5 DEF Same
  <2> QED
    BY <1>1, <2>1, <2>7, <2>8, Advances
<1> QED
  BY <1>1, <1>2, <1>3, CircuitKeeps

-----------------------------------------------------------------------------
(* Committing the response. *)

\* The owner of a request writes its row.
LEMMA RowWritten ==
  ASSUME Inv, NEW c \in Calls, Executing(c), Owned(c), NEW row \in GatewayRequestRow,
         request' = [request EXCEPT ![Request(c)] = row], row.status = "none" => row = NoRow, OneAttempt(row.events),
         attributed' = attributed, (lease \in [Calls -> CapacityLeaseRow])', TablesType', CircuitSound', ProbeApart
  PROVE  TablesKept(c) /\ request'[Request(c)] = row
<1>1. Request(c) \in Requests /\ request[Request(c)].status = "in_progress" /\ request \in [Requests -> GatewayRequestRow]
  BY CallFacts, TypeParts DEF Owned, RequestType
<1>2. RequestType'
  BY <1>1, TypeParts DEF RequestType
<1>3. request'[Request(c)] = row /\ \A q \in Requests : q # Request(c) => request'[q] = request[q]
  BY <1>1
<1>4. ASSUME NEW q \in Requests, request'[q] # request[q]
      PROVE  request[q].status = "in_progress" /\ q = Request(c) /\ RowSound(q)'
  <2>1. q = Request(c)
    BY <1>3, <1>4
  <2>2. RowSound(q)' <=> (request'[q].status = "none" => request'[q] = NoRow) /\ OneAttempt(request'[q].events)
    BY DEF RowSound
  <2> QED
    BY <1>1, <1>3, <2>1, <2>2
<1> QED
  BY <1>2, <1>3, <1>4 DEF TablesKept

LEMMA ClientType ==
  ASSUME Inv, NEW c \in Calls, client' = client \/ CleanupRequired(c),
         UNCHANGED <<now, rate, route, circuit, bill, probed>>
  PROVE  TablesType' /\ CircuitSound' /\ ProbeApart
<1>1. client' \in [Clients -> {"open", "cleanup", "closed"}]
  BY TypeParts DEF TablesType, CleanupRequired
<1> QED
  BY <1>1, TypeParts, CircuitRests DEF TablesType

LEMMA CompleteRequestKeeps ==
  ASSUME Inv, NEW c \in Calls, NEW told \in BOOLEAN, CompleteRequest(c, told)
  PROVE  Kept
<1>1. /\ phase[c] = "complete" /\ Executing(c) /\ attributed' = attributed /\ lease' = lease
      /\ UNCHANGED <<now, rate, route, circuit, bill, probed>> /\ (client' = client \/ CleanupRequired(c))
  BY DEF CompleteRequest, Executing, Active
<1>2. /\ call[c] \in Local /\ Request(c) \in Requests /\ request[Request(c)].status # "none"
      /\ request[Request(c)].hash = call[c].input.hash /\ OneAttempt(call[c].events)
  BY <1>1, CallFacts
<1>3. TablesType' /\ CircuitSound' /\ ProbeApart /\ (lease \in [Calls -> CapacityLeaseRow])'
  BY <1>1, ClientType, TypeParts
<1>4. /\ TablesKept(c) /\ RowStays(c) /\ (Owned(c) => Stored(c, call[c].events))
  <2>1. CASE Owned(c)
    <3>1. PICK row : row = [request[Request(c)] EXCEPT !.status = "completed", !.events = call[c].events]
      OBVIOUS
    <3>2. request[Request(c)] \in GatewayRequestRow /\ call[c].events \in SUBSET Nat
      BY <1>2, TypeParts DEF RequestType, Local
    <3>3. /\ row \in GatewayRequestRow /\ row.status = "completed" /\ row.events = call[c].events
          /\ row.hash = call[c].input.hash
      BY <1>2, <3>1, <3>2 DEF GatewayRequestRow
    <3>4. request' = [request EXCEPT ![Request(c)] = row]
      BY <1>2, <2>1, <3>1, TypeParts DEF CompleteRequest, Completed, RequestType
    <3>5. TablesKept(c) /\ request'[Request(c)] = row
      BY <1>1, <1>2, <1>3, <2>1, <3>3, <3>4, RowWritten
    <3>6. row = [status |-> "completed", hash |-> call[c].input.hash, events |-> call[c].events]
      BY <3>3 DEF GatewayRequestRow
    <3> QED
      BY <1>2, <3>3, <3>5, <3>6 DEF RowStays, Stored
  <2>2. CASE ~Owned(c)
    <3>1. request' = request
      BY <1>2, <2>2, TypeParts DEF CompleteRequest, Completed, RequestType
    <3>2. attributed' \subseteq Requests
      BY <1>1, TypeParts DEF RequestType
    <3> QED
      BY <1>1, <1>2, <1>3, <2>2, <3>1, <3>2, TablesMove, RowUntouched
  <2> QED
    BY <2>1, <2>2
<1>5. Runs(c)
  <2>1. PICK b \in BOOLEAN : b = (told /\ Owned(c))
    OBVIOUS
  <2>2. PICK e \in Local : e = [call[c] EXCEPT !.durable = b] /\ Same(e, call[c])
    BY <1>2, SetFlag
  <2>3. e.input = call[c].input /\ e.id = call[c].id /\ e.events = call[c].events
    BY <2>2 DEF Same
  <2>4. Continue(c, "stop", e) \/ (Owned(c) /\ Continue(c, "attribute", e))
    BY <2>1, <2>2 DEF CompleteRequest
  <2>5. CASE Continue(c, "stop", e)
    BY <1>1, <1>4, <2>3, <2>5, Stops
  <2>6. CASE Owned(c) /\ Continue(c, "attribute", e)
    <3>1. "attribute" \in Active /\ Stored(c, e.events) /\ OneAttempt(e.events)
      BY <1>2, <1>4, <2>3, <2>6 DEF Active
    <3> QED
      BY <1>1, <1>4, <2>3, <2>6, <3>1, Advances
  <2> QED
    BY <2>4, <2>5, <2>6
<1> QED
  BY <1>1, <1>4, <1>5, RunsKeep DEF Live

LEMMA AttributeModelCallKeeps ==
  ASSUME Inv, NEW c \in Calls, AttributeModelCall(c)
  PROVE  Kept
<1>1. /\ phase[c] = "attribute" /\ attributed' = attributed \union {Request(c)} /\ request' = request
      /\ phase' = [phase EXCEPT ![c] = "release"] /\ call' = [call EXCEPT ![c].completed = TRUE, ![c].at = now]
      /\ beat' = [beat EXCEPT ![c] = Off] /\ lease' = lease
      /\ UNCHANGED <<now, client, rate, lease, route, circuit, bill, probed>>
  BY DEF AttributeModelCall, StopCapacityHeartbeat
<1>2. Executing(c) /\ phase[c] # "new" /\ call[c] \in Local
  BY <1>1, CallFacts DEF Executing, Active
<1>3. PICK f \in Local : f = [call[c] EXCEPT !.completed = TRUE] /\ Same(f, call[c])
  BY <1>2, SetFlag
<1>4. PICK e \in Local : e = [f EXCEPT !.at = now] /\ Same(e, f)
  BY TypeParts, SetNumber
<1>5. call' = [call EXCEPT ![c] = e] /\ e.input = call[c].input /\ e.id = call[c].id /\ e.events = call[c].events
  BY <1>1, <1>2, <1>3, <1>4, TypeParts DEF CallType, Same
<1>6. /\ CallType' /\ phase'[c] = "release" /\ call'[c] = e /\ beat'[c] = Off
      /\ \A d \in Calls \ {c} : phase'[d] = phase[d] /\ call'[d] = call[d] /\ beat'[d] = beat[d]
  BY <1>1, <1>5, TypeParts DEF CallType, Phases
<1>7. Request(c)' = Request(c) /\ Executing(c)' /\ Occupies(c)
  BY <1>2, <1>5, <1>6 DEF Request, Executing, Active, Occupies
<1>8. /\ Request(c) \in Requests /\ request[Request(c)].status # "none"
      /\ request[Request(c)].hash = call[c].input.hash /\ OneAttempt(call[c].events)
      /\ request[Request(c)] = [status |-> "completed", hash |-> call[c].input.hash, events |-> call[c].events]
  BY <1>1, <1>2, CallFacts DEF Inv, CallSound
<1>9. CallSound(c)'
  BY <1>1, <1>5, <1>6, <1>7, <1>8 DEF CallSound
<1>10. Runs(c)
  BY <1>2, <1>5, <1>6, <1>7, <1>9 DEF Runs, Moves
<1>11. TablesKept(c)
  <2>1. attributed' \subseteq Requests /\ attributed \subseteq attributed'
    BY <1>1, <1>8, TypeParts DEF RequestType
  <2>2. TablesType' /\ (lease \in [Calls -> CapacityLeaseRow])'
    BY <1>1, TypeParts DEF TablesType
  <2> QED
    BY <1>1, <2>1, <2>2, CircuitRests, TablesMove
<1> QED
  BY <1>1, <1>10, <1>11, RunsKeep DEF Live

-----------------------------------------------------------------------------
(* Giving back the lease, and the bookkeeping. *)

\* After a release the caller is handed what is stored, or the bookkeeping is left.
LEMMA AfterReleaseRuns ==
  ASSUME Inv, NEW c \in Calls, phase[c] \in {"release", "releasing"}, AfterRelease(c), request' = request,
         attributed' = attributed
  PROVE  Runs(c)
<1>1. /\ Executing(c) /\ RowStays(c) /\ beat[c] = Off /\ call[c] \in Local /\ OneAttempt(call[c].events)
      /\ Request(c) \in Requests /\ request[Request(c)].status # "none"
  <2>1. Executing(c)
    BY DEF Executing, Active
  <2> QED
    BY <2>1, CallFacts, RowUntouched
<1>2. CASE call[c].final \/ call[c].doomed
  <2>1. PICK e0 \in Local : e0 = call[c]
    BY <1>1
  <2>2. PICK e1 \in Local : e1 = [e0 EXCEPT !.id = 0] /\ e1.input = e0.input /\ e1.id = 0 /\ e1.events = e0.events
    <3>1. [e0 EXCEPT !.id = 0] \in Local
      BY DEF Local
    <3> QED
      BY <3>1 DEF Local
  <2>3. PICK e2 \in Local : e2 = [e1 EXCEPT !.expires = 0] /\ Same(e2, e1)
    BY SetNumber
  <2>4. PICK e3 \in Local : e3 = [e2 EXCEPT !.at = 0] /\ Same(e3, e2)
    BY SetNumber
  <2>5. PICK e4 \in Local : e4 = [e3 EXCEPT !.usage = 0] /\ Same(e4, e3)
    BY SetNumber
  <2>6. PICK e \in Local : e = [e4 EXCEPT !.slot = FALSE] /\ Same(e, e4)
    BY SetFlag
  <2>7. e = [call[c] EXCEPT !.id = 0, !.expires = 0, !.at = 0, !.usage = 0, !.slot = FALSE]
    BY <2>1, <2>2, <2>3, <2>4, <2>5, <2>6
  <2>8. e.input = call[c].input /\ e.id = 0 /\ e.events = call[c].events
    BY <2>1, <2>2, <2>3, <2>4, <2>5, <2>6 DEF Same
  <2>9. Continue(c, "book", e) /\ "book" \in Active
    BY <1>2, <2>7 DEF AfterRelease, Active
  <2> QED
    BY <1>1, <2>8, <2>9, Advances
<1>3. CASE ~(call[c].final \/ call[c].doomed)
  <2>1. PICK e \in Local : /\ e = [Remains(c) EXCEPT !.slot = FALSE] /\ e.input = call[c].input /\ e.id = 0
                           /\ e.contacted = call[c].contacted /\ e.events = call[c].events
    BY RemainsMeans
  <2>2. Continue(c, "delivered", e)
    BY <1>3, <2>1 DEF AfterRelease
  <2>3. Handing(c)
    BY <1>3 DEF Handing
  <2>4. Stored(c, e.events) /\ Request(c) \in attributed'
    BY <2>1, <2>3 DEF Inv, CallSound, Stored
  <2>5. phase[c] # "new" /\ request'[Request(c)].status # "none" /\ OneAttempt(e.events)
    BY <1>1, <2>1
  <2> QED
    BY <1>1, <2>1, <2>2, <2>4, <2>5, Ends
<1> QED
  BY <1>2, <1>3

LEMMA ReleaseFailsRuns ==
  ASSUME Inv, NEW c \in Calls, phase[c] \in {"release", "releasing"}, ReleaseFails(c), request' = request,
         attributed' = attributed
  PROVE  Runs(c) /\ CleanupRequired(c)
<1>1. Executing(c) /\ RowStays(c) /\ call[c] \in Local
  <2>1. Executing(c)
    BY DEF Executing, Active
  <2> QED
    BY <2>1, CallFacts, RowUntouched
<1>2. AfterRelease(c) \/ Continue(c, "stop", call[c])
  BY DEF ReleaseFails
<1>3. Runs(c)
  BY <1>1, <1>2, AfterReleaseRuns, Stops
<1> QED
  BY <1>3 DEF ReleaseFails

LEMMA LockLeaseKeeps ==
  ASSUME Inv, NEW c \in Calls, LockLease(c)
  PROVE  Kept
<1>1. phase[c] = "release" /\ UNCHANGED <<now, stores>> /\ request' = request /\ attributed' = attributed
  BY DEF LockLease, stores
<1>2. CASE AfterRelease(c) /\ client' = client
  BY <1>1, <1>2, AfterReleaseRuns, CallOnlyKeeps
<1>3. CASE ReleaseFails(c)
  BY <1>1, <1>3, ReleaseFailsRuns, CallOnlyKeeps
<1>4. CASE Continue(c, "releasing", call[c]) /\ client' = client
  <2>1. /\ Executing(c) /\ RowStays(c) /\ beat[c] = Off /\ call[c] \in Local /\ OneAttempt(call[c].events)
        /\ "releasing" \in Active
    <3>1. Executing(c) /\ "releasing" \in Active
      BY <1>1 DEF Executing, Active
    <3> QED
      BY <1>1, <3>1, CallFacts, RowUntouched
  <2>2. ~call[c].final => Stored(c, call[c].events) /\ Request(c) \in attributed'
    BY <1>1 DEF Inv, CallSound, Handing, Stored
  <2>3. Runs(c)
    BY <1>4, <2>1, <2>2, Advances
  <2> QED
    BY <1>1, <1>4, <2>3, CallOnlyKeeps
<1> QED
  BY <1>2, <1>3, <1>4 DEF LockLease

LEMMA RefundType ==
  ASSUME Inv, NEW r \in CapacityRow, NEW l, NEW n \in Nat
  PROVE  Refund(r, l, n) \in CapacityRow
<1>1. r.accounted \in Nat /\ Reserved \in Nat
  BY Constants DEF CapacityRow
<1>2. PICK x \in Int : x = r.accounted - Reserved + n
  BY <1>1
<1>3. Max({0, x}) \in Nat
  <2>1. \E y \in {0, x} : \A z \in {0, x} : z <= y
    <3>1. CASE x <= 0
      BY <3>1
    <3>2. CASE ~(x <= 0)
      BY <3>2
    <3> QED
      BY <3>1, <3>2
  <2>2. Max({0, x}) \in {0, x} /\ \A z \in {0, x} : z <= Max({0, x})
    BY <2>1 DEF Max
  <2> QED
    BY <2>2
<1> QED
  BY <1>2, <1>3 DEF Refund, CapacityRow

LEMMA ReleaseCapacityKeeps ==
  ASSUME Inv, NEW c \in Calls, ReleaseCapacity(c)
  PROVE  Kept
<1>1. /\ phase[c] = "releasing" /\ request' = request /\ attributed' = attributed
      /\ UNCHANGED <<now, rate, circuit, probed>>
  BY DEF ReleaseCapacity
<1>2. CASE ReleaseFails(c) /\ UNCHANGED <<lease, route, bill>>
  <2>1. UNCHANGED <<now, stores>>
    BY <1>1, <1>2 DEF stores
  <2> QED
    BY <1>1, <1>2, <2>1, ReleaseFailsRuns, CallOnlyKeeps
<1>3. CASE /\ route' = [Refund(ResetTokenWindow(route, call[c].at), call[c].id, call[c].usage) EXCEPT !.updated = call[c].at]
           /\ bill' = [bill EXCEPT ![call[c].id].tokens = call[c].usage]
           /\ lease' = [lease EXCEPT ![call[c].id] = NoLease]
           /\ AfterRelease(c) /\ client' = client
  <2>1. PICK at \in Nat, usage \in Nat : at = call[c].at /\ usage = call[c].usage
    BY CallFacts DEF Local
  <2>2. route \in CapacityRow /\ bill \in [Calls -> [window : Nat, tokens : Nat]] /\ lease \in [Calls -> CapacityLeaseRow]
    BY TypeParts DEF TablesType
  <2>3. lease' \in [Calls -> CapacityLeaseRow] /\ \A l \in Calls : Live(l)' => Live(l)
    <3>1. NoLease \in CapacityLeaseRow
      BY DEF NoLease, CapacityLeaseRow
    <3> QED
      BY <1>3, <2>2, <3>1 DEF Live
  <2>4. bill' \in [Calls -> [window : Nat, tokens : Nat]]
    BY <1>3, <2>1, <2>2
  <2>5. route' \in CapacityRow
    <3>1. PICK w \in CapacityRow : w = ResetTokenWindow(route, at)
      BY <2>2 DEF ResetTokenWindow, CapacityRow
    <3>2. PICK u \in CapacityRow : u = Refund(w, call[c].id, usage)
      <4>1. Refund(w, call[c].id, usage) \in CapacityRow
        BY RefundType
      <4> QED
        BY <4>1
    <3>3. [u EXCEPT !.updated = at] \in CapacityRow
      BY DEF CapacityRow
    <3> QED
      BY <1>3, <2>1, <3>1, <3>2, <3>3
  <2>6. TablesType' /\ attributed' \subseteq Requests
    BY <1>1, <1>3, <2>4, <2>5, TypeParts DEF TablesType, RequestType
  <2>7. TablesKept(c)
    BY <1>1, <2>3, <2>6, CircuitRests, TablesMove
  <2>8. Runs(c)
    BY <1>1, <1>3, AfterReleaseRuns
  <2> QED
    BY <2>3, <2>7, <2>8, RunsKeep
<1> QED
  BY <1>2, <1>3 DEF ReleaseCapacity

LEMMA DeadlockVictimKeeps ==
  ASSUME Inv, NEW c \in Calls, NEW d \in Calls, DeadlockVictim(c, d)
  PROVE  Kept
<1>1. /\ phase[c] = "releasing" /\ phase[d] = "acquiring" /\ UNCHANGED <<now, stores>> /\ request' = request
      /\ attributed' = attributed
  BY DEF DeadlockVictim, Deadlocked, stores
<1>2. CASE ReleaseFails(c)
  BY <1>1, <1>2, ReleaseFailsRuns, CallOnlyKeeps
<1>3. CASE Continue(d, "stop", call[d]) /\ client' = client
  <2>1. Executing(d)
    BY <1>1 DEF Executing, Active
  <2>2. RowStays(d) /\ call[d] \in Local
    BY <1>1, <2>1, CallFacts, RowUntouched
  <2>3. Runs(d)
    BY <1>3, <2>1, <2>2, Stops
  <2> QED
    BY <1>1, <1>3, <2>3, CallOnlyKeeps
<1> QED
  BY <1>2, <1>3 DEF DeadlockVictim

\* The request of a call that failed is failed or forgotten, and by its owner only.
LEMMA BookKeeps ==
  ASSUME Inv, NEW c \in Calls, Book(c)
  PROVE  Kept
<1>1. /\ phase[c] = "book" /\ Continue(c, "failed", Remains(c)) /\ attributed' = attributed /\ lease' = lease
      /\ UNCHANGED <<now, rate, route, circuit, bill, probed>>
  BY DEF Book
<1>2. Executing(c) /\ phase[c] # "new"
  BY <1>1 DEF Executing, Active
<1>3. /\ Request(c) \in Requests /\ request[Request(c)].status # "none" /\ OneAttempt(call[c].events) /\ beat[c] = Off
  BY <1>1, <1>2, CallFacts
<1>4. client' = client \/ CleanupRequired(c)
  BY DEF Book, FailRequest, ReleaseRequest, NothingToBook
<1>5. TablesType' /\ CircuitSound' /\ ProbeApart /\ (lease \in [Calls -> CapacityLeaseRow])'
  BY <1>1, <1>4, ClientType, TypeParts
<1>6. PICK row : row = request[Request(c)] /\ row \in GatewayRequestRow
  BY <1>3, TypeParts DEF RequestType
<1>7. TablesKept(c) /\ (call[c].contacted => request'[Request(c)].status # "none")
  <2>1. CASE Failed(c)
    <3>1. PICK new \in GatewayRequestRow : new = [row EXCEPT !.status = "failed"] /\ new.status = "failed"
                                           /\ new.events = row.events
      <4>1. /\ [row EXCEPT !.status = "failed"] \in GatewayRequestRow /\ [row EXCEPT !.status = "failed"].status = "failed"
            /\ [row EXCEPT !.status = "failed"].events = row.events
        BY <1>6 DEF GatewayRequestRow
      <4> QED
        BY <4>1
    <3>2. request' = [request EXCEPT ![Request(c)] = new] /\ Owned(c)
      BY <1>3, <1>6, <2>1, <3>1, TypeParts DEF Failed, RequestType
    <3>3. OneAttempt(new.events)
      BY <1>3, <1>6, <3>1 DEF Inv, RowSound
    <3>4. TablesKept(c) /\ request'[Request(c)] = new
      BY <1>1, <1>2, <1>5, <3>1, <3>2, <3>3, RowWritten
    <3> QED
      BY <3>1, <3>4
  <2>2. CASE ~call[c].contacted /\ Forgotten(c)
    <3>1. NoRow \in GatewayRequestRow /\ OneAttempt(NoRow.events)
      BY DEF NoRow, GatewayRequestRow, OneAttempt
    <3>2. request' = [request EXCEPT ![Request(c)] = NoRow] /\ Owned(c)
      BY <2>2 DEF Forgotten
    <3>3. TablesKept(c)
      BY <1>1, <1>2, <1>5, <3>1, <3>2, RowWritten
    <3> QED
      BY <2>2, <3>3
  <2>3. CASE request' = request
    <3>1. attributed' \subseteq Requests
      BY <1>1, TypeParts DEF RequestType
    <3> QED
      BY <1>1, <1>3, <1>5, <2>3, <3>1, TablesMove
  <2> QED
    BY <2>1, <2>2, <2>3 DEF Book, FailRequest, ReleaseRequest, NothingToBook
<1>8. Runs(c)
  <2>1. PICK e \in Local : /\ e = Remains(c) /\ e.input = call[c].input /\ e.id = 0
                           /\ e.contacted = call[c].contacted /\ e.events = call[c].events
    BY RemainsMeans
  <2>2. Continue(c, "failed", e) /\ (e.contacted => request'[Request(c)].status # "none") /\ OneAttempt(e.events)
    BY <1>1, <1>3, <1>7, <2>1
  <2> QED
    BY <1>2, <1>3, <2>1, <2>2, Ends
<1> QED
  BY <1>1, <1>7, <1>8, RunsKeep DEF Live

-----------------------------------------------------------------------------
(* The heartbeat. *)

\* A call that stands still.
LEMMA StandsStill ==
  ASSUME Inv, NEW c \in Calls, phase' = phase, CallType', phase[c] # "new",
         \A d \in Calls \ {c} : call'[d] = call[d] /\ beat'[d] = beat[d],
         call'[c].input = call[c].input, call'[c].id = call[c].id, call'[c].contacted = call[c].contacted,
         call'[c].final = call[c].final, call'[c].events = call[c].events,
         beat'[c] # Off => beat[c] # Off, request' = request, attributed' = attributed
  PROVE  Runs(c)
<1>1. /\ Request(c)' = Request(c) /\ (Executing(c)' <=> Executing(c)) /\ (Occupies(c)' <=> Occupies(c))
      /\ (Handing(c)' <=> Handing(c))
  BY DEF Request, Executing, Occupies, Handing
<1>2. CallSound(c)'
  BY <1>1 DEF Inv, CallSound
<1>3. call'[c].id # 0 => Executing(c)'
  BY <1>1 DEF Inv, LeaseSound
<1> QED
  BY <1>1, <1>2, <1>3 DEF Runs, Moves, Inv, BeatSound

LEMMA RenewKeeps ==
  ASSUME Inv, NEW c \in Calls, Renew(c)
  PROVE  Kept
<1>1. /\ beat[c] = Asleep /\ beat' = [beat EXCEPT ![c] = now + Lease] /\ Live(call[c].id)
      /\ lease' = [lease EXCEPT ![call[c].id].expires = now + Lease] /\ phase' = phase /\ call' = call
      /\ request' = request /\ attributed' = attributed
      /\ UNCHANGED <<now, client, rate, route, circuit, bill, probed>>
  BY DEF Renew, HeartbeatDue, Renewable, SameLease
<1>2. now + Lease \in Nat
  BY TypeParts, Constants
<1>3. phase[c] # "new" /\ beat[c] # Off
  BY <1>1 DEF Inv, BeatSound, Off, Asleep
<1>4. CallType' /\ \A d \in Calls \ {c} : beat'[d] = beat[d]
  BY <1>1, <1>2, TypeParts DEF CallType
<1>5. Runs(c)
  BY <1>1, <1>3, <1>4, StandsStill
<1>6. lease' \in [Calls -> CapacityLeaseRow] /\ \A l \in Calls : Live(l)' => Live(l)
  <2>1. lease \in [Calls -> CapacityLeaseRow]
    BY TypeParts
  <2>2. lease' \in [Calls -> CapacityLeaseRow]
    BY <1>1, <1>2, <2>1 DEF CapacityLeaseRow
  <2>3. \A l \in Calls : l # call[c].id => lease'[l] = lease[l]
    BY <1>1, <2>1
  <2> QED
    BY <1>1, <2>2, <2>3 DEF Live
<1>7. TablesKept(c)
  <2>1. TablesType' /\ attributed' \subseteq Requests
    BY <1>1, TypeParts DEF TablesType, RequestType
  <2> QED
    BY <1>1, <1>6, <2>1, CircuitRests, TablesMove
<1> QED
  BY <1>5, <1>6, <1>7, RunsKeep

LEMMA RenewalHeardKeeps ==
  ASSUME Inv, NEW c \in Calls, RenewalHeard(c)
  PROVE  Kept
<1>1. /\ beat[c] \notin {Off, Asleep} /\ call' = [call EXCEPT ![c].expires = beat[c]]
      /\ beat' = [beat EXCEPT ![c] = Asleep] /\ phase' = phase /\ request' = request /\ attributed' = attributed
      /\ UNCHANGED <<now, client, stores>>
  BY DEF RenewalHeard, stores
<1>2. beat[c] \in Nat /\ call[c] \in Local /\ phase[c] # "new"
  BY <1>1, TypeParts DEF CallType, Inv, BeatSound
<1>3. PICK e \in Local : e = [call[c] EXCEPT !.expires = beat[c]] /\ Same(e, call[c])
  BY <1>2, SetNumber
<1>4. /\ CallType' /\ call'[c] = e
      /\ \A d \in Calls \ {c} : call'[d] = call[d] /\ beat'[d] = beat[d]
  <2>1. call' = [call EXCEPT ![c] = e]
    BY <1>1, <1>3, TypeParts DEF CallType
  <2> QED
    BY <1>1, <2>1, TypeParts DEF CallType
<1>5. Runs(c)
  BY <1>1, <1>2, <1>3, <1>4, StandsStill DEF Same
<1> QED
  BY <1>1, <1>5, CallOnlyKeeps

\* A call that is doomed goes on.
LEMMA Doomed ==
  ASSUME Inv, NEW c \in Calls, phase[c] # "new", phase' = phase, call' = [call EXCEPT ![c].doomed = TRUE],
         beat' = beat \/ beat' = [beat EXCEPT ![c] = Off], request' = request, attributed' = attributed
  PROVE  Runs(c)
<1>1. call[c] \in Local
  BY CallFacts
<1>2. PICK e \in Local : e = [call[c] EXCEPT !.doomed = TRUE] /\ Same(e, call[c])
  BY <1>1, SetFlag
<1>3. call' = [call EXCEPT ![c] = e]
  BY <1>2, TypeParts DEF CallType
<1>4. CallType' /\ call'[c] = e /\ \A d \in Calls \ {c} : call'[d] = call[d] /\ beat'[d] = beat[d]
  BY <1>3, TypeParts DEF CallType
<1>5. beat'[c] # Off => beat[c] # Off
  BY TypeParts DEF CallType
<1> QED
  BY <1>2, <1>4, <1>5, StandsStill DEF Same

LEMMA LeaseLostKeeps ==
  ASSUME Inv, NEW c \in Calls, LeaseLost(c)
  PROVE  Kept
<1>1. beat[c] = Asleep /\ UNCHANGED <<now, client, stores>> /\ request' = request /\ attributed' = attributed
  BY DEF LeaseLost, HeartbeatDue, stores
<1>2. Executing(c) /\ phase[c] # "new"
  BY <1>1 DEF Inv, BeatSound, Off, Asleep, Executing, Active
<1>3. CASE phase' = phase /\ call' = [call EXCEPT ![c].doomed = TRUE] /\ beat' = [beat EXCEPT ![c] = Off]
  <2>1. Runs(c)
    BY <1>1, <1>2, <1>3, Doomed
  <2> QED
    BY <1>1, <2>1, CallOnlyKeeps
<1>4. CASE Continue(c, "stop", call[c])
  <2>1. Runs(c)
    BY <1>1, <1>2, <1>4, CallFacts, RowUntouched, Stops
  <2> QED
    BY <1>1, <2>1, CallOnlyKeeps
<1> QED
  BY <1>3, <1>4 DEF LeaseLost, StopCapacityHeartbeat

-----------------------------------------------------------------------------
(* What goes wrong. *)

LEMMA CancelKeeps ==
  ASSUME Inv, NEW c \in Calls, Cancel(c)
  PROVE  Kept
<1>1. UNCHANGED <<now, client, stores>> /\ request' = request /\ attributed' = attributed
  BY DEF Cancel, stores
<1>2. phase[c] \in Interruptible \union {"release", "releasing"}
  BY DEF Cancel
<1>3. Executing(c) /\ phase[c] # "new" /\ phase[c] # "stop"
  BY <1>2 DEF Executing, Active, Interruptible
<1>4. Continue(c, "stop", call[c]) \/ Continue(c, phase[c], [call[c] EXCEPT !.doomed = TRUE])
  BY DEF Cancel, Interrupt
<1>5. CASE Continue(c, "stop", call[c])
  <2>1. Runs(c)
    BY <1>1, <1>3, <1>5, CallFacts, RowUntouched, Stops
  <2> QED
    BY <1>1, <2>1, CallOnlyKeeps
<1>6. CASE Continue(c, phase[c], [call[c] EXCEPT !.doomed = TRUE])
  <2>1. phase' = phase /\ call' = [call EXCEPT ![c].doomed = TRUE] /\ beat' = beat
    BY <1>3, <1>6, TypeParts DEF Continue, CallType
  <2>2. Runs(c)
    BY <1>1, <1>3, <2>1, Doomed
  <2> QED
    BY <1>1, <2>2, CallOnlyKeeps
<1> QED
  BY <1>4, <1>5, <1>6

LEMMA StoreFailsKeeps ==
  ASSUME Inv, NEW c \in Calls, StoreFails(c)
  PROVE  Kept
<1>1. UNCHANGED <<now, stores>> /\ request' = request /\ attributed' = attributed
  BY DEF StoreFails, stores
<1>2. CASE phase[c] = "replay" /\ Continue(c, "failed", call[c]) /\ client' = client
  <2>1. call[c] \in Local /\ call[c].id = 0 /\ beat[c] = Off /\ OneAttempt(call[c].events)
    BY <1>2, CallFacts DEF Active
  <2>2. request'[Request(c)].status # "none"
    BY <1>1, <1>2 DEF Inv, CallSound
  <2>3. Runs(c)
    BY <1>2, <2>1, <2>2, Ends
  <2> QED
    BY <1>1, <1>2, <2>3, CallOnlyKeeps
<1>3. CASE phase[c] = "complete" /\ Continue(c, "stop", call[c]) /\ client' = client
  <2>1. Executing(c)
    BY <1>3 DEF Executing, Active
  <2>2. Runs(c)
    BY <1>1, <1>3, <2>1, CallFacts, RowUntouched, Stops
  <2> QED
    BY <1>1, <1>3, <2>2, CallOnlyKeeps
<1>4. CASE phase[c] \in {"release", "releasing"} /\ ReleaseFails(c)
  BY <1>1, <1>4, ReleaseFailsRuns, CallOnlyKeeps
<1>5. CASE phase[c] = "book" /\ CleanupRequired(c) /\ Continue(c, "failed", Remains(c))
  <2>1. Executing(c)
    BY <1>5 DEF Executing, Active
  <2>2. PICK e \in Local : /\ e = Remains(c) /\ e.input = call[c].input /\ e.id = 0
                           /\ e.contacted = call[c].contacted /\ e.events = call[c].events
    BY RemainsMeans
  <2>3. request'[Request(c)].status # "none" /\ OneAttempt(e.events) /\ beat[c] = Off /\ Continue(c, "failed", e)
    BY <1>1, <1>5, <2>1, <2>2, CallFacts
  <2>4. Runs(c)
    BY <1>5, <2>2, <2>3, Ends
  <2> QED
    BY <1>1, <1>5, <2>4, CallOnlyKeeps
<1> QED
  BY <1>2, <1>3, <1>4, <1>5 DEF StoreFails

\* A dead call keeps its request, and whether it contacted the provider.
LEMMA CrashKeeps ==
  ASSUME Inv, NEW k \in Clients, Crash(k)
  PROVE  Kept
<1> DEFINE dead == {c \in Calls : call[c].input.client = k /\ phase[c] \notin Ended \union {"new"}}
<1>1. UNCHANGED <<now, stores>> /\ client' = [client EXCEPT ![k] = "open"]
  BY DEF Crash
<1>2. /\ phase' = [c \in Calls |-> IF c \in dead THEN "crashed" ELSE phase[c]]
      /\ call' = [c \in Calls |-> IF c \in dead THEN [Remains(c) EXCEPT !.slot = FALSE] ELSE call[c]]
      /\ beat' = [c \in Calls |-> IF c \in dead THEN Off ELSE beat[c]]
  BY DEF Crash
<1>3. ASSUME NEW c \in Calls
      PROVE  /\ call'[c] \in Local /\ call'[c].input = call[c].input /\ call'[c].contacted = call[c].contacted
             /\ call'[c].events = call[c].events /\ Request(c)' = Request(c)
             /\ c \in dead => call'[c].id = 0 /\ phase'[c] = "crashed" /\ beat'[c] = Off
             /\ c \notin dead => call'[c] = call[c] /\ phase'[c] = phase[c] /\ beat'[c] = beat[c]
             /\ phase[c] # "new" => phase'[c] # "new"
  <2>1. CASE c \in dead
    <3>1. PICK e \in Local : /\ e = [Remains(c) EXCEPT !.slot = FALSE] /\ e.input = call[c].input /\ e.id = 0
                             /\ e.contacted = call[c].contacted /\ e.events = call[c].events
      BY RemainsMeans
    <3>2. call'[c] = e /\ phase'[c] = "crashed" /\ beat'[c] = Off
      BY <1>2, <2>1, <3>1
    <3> QED
      BY <2>1, <3>1, <3>2 DEF Request
  <2>2. CASE c \notin dead
    <3>1. call'[c] = call[c] /\ phase'[c] = phase[c] /\ beat'[c] = beat[c]
      BY <1>2, <2>2
    <3> QED
      BY <2>2, <3>1, CallFacts DEF Request
  <2> QED
    BY <2>1, <2>2
<1> HIDE DEF dead
<1>4. ASSUME NEW c \in Calls
      PROVE  /\ Occupies(c)' => Occupies(c)
             /\ call'[c].id # 0 => call'[c].id = call[c].id /\ Executing(c)'
             /\ CallSound(c)'
  <2>1. CASE c \in dead
    <3>1. ~Executing(c)' /\ (Occupies(c)' => call[c].contacted) /\ ~Handing(c)'
      BY <1>3, <2>1 DEF Executing, Active, Occupies, Handing
    <3>2. CallSound(c)
      BY DEF Inv
    <3>3. call[c].contacted => Request(c) \in Requests /\ request[Request(c)].status # "none"
      BY <3>2 DEF CallSound, Occupies
    <3>4. CallSound(c)'
      BY <1>1, <1>3, <2>1, <3>1, <3>2, <3>3 DEF CallSound, stores
    <3> QED
      BY <1>3, <2>1, <3>1, <3>4 DEF Occupies
  <2>2. CASE c \notin dead
    <3>1. call'[c] = call[c] /\ phase'[c] = phase[c]
      BY <1>3, <2>2
    <3>2. (Executing(c)' <=> Executing(c)) /\ (Occupies(c)' <=> Occupies(c))
      BY <3>1 DEF Executing, Occupies
    <3>3. call[c].id # 0 => Executing(c)
      BY DEF Inv, LeaseSound
    <3>4. CallSound(c)'
      BY <1>1, <3>1, OthersRest DEF stores
    <3> QED
      BY <3>1, <3>2, <3>3, <3>4
  <2> QED
    BY <2>1, <2>2
<1>5. TypeOK'
  <2>1. phase' \in [Calls -> Phases] /\ beat' \in [Calls -> {Off, Asleep} \union Nat]
    BY <1>2, TypeParts DEF CallType, Phases
  <2>2. call' \in [Calls -> Local]
    BY <1>2, <1>3
  <2>3. TablesType' /\ RequestType' /\ (lease \in [Calls -> CapacityLeaseRow])'
    BY <1>1, TypeParts DEF TablesType, RequestType, stores
  <2> QED
    BY <2>1, <2>2, <2>3, PartsType DEF CallType
<1>6. Alone'
  BY <1>3, <1>4, AloneRests
<1>7. LeaseSound' /\ LeasesWithinLimits'
  <2>1. (lease \in [Calls -> CapacityLeaseRow])' /\ \A l \in Calls : Live(l)' => Live(l)
    BY <1>1, TypeParts DEF stores, Live
  <2> QED
    BY <1>3, <1>4, <2>1, LeasesRest
<1>8. BeatSound'
  BY <1>3 DEF Inv, BeatSound
<1>9. CircuitSound' /\ ProbeApart
  BY <1>1, CircuitRests DEF stores
<1>10. (\A r \in Requests : RowSound(r)') /\ StoredOutcomeIsFinal
  BY <1>1 DEF stores, Inv, RowSound, StoredOutcomeIsFinal
<1> QED
  BY <1>4, <1>5, <1>6, <1>7, <1>8, <1>9, <1>10 DEF Kept, Inv

\* The client is closed, or the clock moves: the calls do not notice.
LEMMA CallsRest ==
  ASSUME Inv, UNCHANGED <<phase, call, beat, stores>>, TablesType', now <= now'
  PROVE  Kept
<1>1. \A c \in Calls : CallSound(c)'
  BY OthersRest DEF stores
<1>2. TypeOK'
  <2>1. CallType' /\ RequestType' /\ (lease \in [Calls -> CapacityLeaseRow])'
    BY TypeParts DEF CallType, RequestType, stores
  <2> QED
    BY <2>1, PartsType
<1>3. Alone'
  BY DEF Inv, Alone, Occupies, Executing, Request
<1>4. LeaseSound' /\ LeasesWithinLimits'
  <2>1. \A l \in Calls : Live(l)' => Live(l)
    BY DEF Live, stores
  <2>2. \A d \in Calls : call'[d].id # 0 => call'[d].id = call[d].id /\ Executing(d)'
    BY DEF Inv, LeaseSound, Executing
  <2> QED
    BY <2>1, <2>2, LeasesRest, TypeParts DEF stores
<1>5. BeatSound'
  BY DEF Inv, BeatSound
<1>6. CircuitSound' /\ ProbeApart
  <2>1. now \in Nat /\ now' \in Nat /\ probed \in Nat /\ probed <= now
    BY TypeParts, Constants DEF TablesType, Inv, CircuitSound
  <2>2. probed' <= now'
    BY <2>1 DEF stores
  <2> QED
    BY <2>2 DEF CircuitSound, ProbeApart, stores, Inv
<1>7. (\A r \in Requests : RowSound(r)') /\ StoredOutcomeIsFinal
  BY DEF stores, Inv, RowSound, StoredOutcomeIsFinal
<1> QED
  BY <1>1, <1>2, <1>3, <1>4, <1>5, <1>6, <1>7 DEF Kept, Inv

LEMMA CloseKeeps ==
  ASSUME Inv, NEW k \in Clients, Close(k)
  PROVE  Kept
<1>1. TablesType' /\ now <= now'
  BY TypeParts DEF Close, TablesType, stores
<1> QED
  BY <1>1, CallsRest DEF Close

LEMMA TickKeeps ==
  ASSUME Inv, Tick
  PROVE  Kept
<1>1. now' \in (1 + Lag)..MaxTime /\ now <= now'
  BY TypeParts, Constants DEF Tick
<1>2. TablesType'
  BY <1>1, TypeParts DEF Tick, TablesType, stores
<1> QED
  BY <1>1, <1>2, CallsRest DEF Tick

-----------------------------------------------------------------------------
(* The theorems. *)

LEMMA InitSound ==
  ASSUME Init
  PROVE  Inv
<1>1. TypeOK
  <2>1. now \in (1 + Lag)..MaxTime /\ now \in Nat
    BY Constants DEF Init
  <2>2. LiveState \in Local
    BY DEF LiveState, Local
  <2>3. NoRow \in GatewayRequestRow /\ NoLease \in CapacityLeaseRow /\ NoBill \in [window : Nat, tokens : Nat]
    BY DEF NoRow, NoLease, NoBill, GatewayRequestRow, CapacityLeaseRow
  <2>4. client \in [Clients -> {"open", "cleanup", "closed"}] /\ phase \in [Calls -> Phases] /\ call \in [Calls -> Local]
        /\ beat \in [Calls -> {Off, Asleep} \union Nat]
    BY <2>2 DEF Init, Phases
  <2>5. request \in [Requests -> GatewayRequestRow] /\ attributed \subseteq Requests /\ lease \in [Calls -> CapacityLeaseRow]
        /\ bill \in [Calls -> [window : Nat, tokens : Nat]]
    BY <2>3 DEF Init
  <2>6. rate \in [Tenants -> RateRow] /\ route \in CapacityRow /\ circuit \in CircuitRow /\ probed \in Nat
    BY <2>1 DEF Init, RateRow, CapacityRow, CircuitRow
  <2> QED
    BY <2>1, <2>4, <2>5, <2>6 DEF TypeOK
<1>2. ASSUME NEW c \in Calls
      PROVE  /\ phase[c] = "new" /\ beat[c] = Off /\ ~Live(c) /\ call[c].id = 0 /\ call[c].events = {}
             /\ ~Executing(c) /\ ~Occupies(c) /\ ~Handing(c)
  <2>1. phase[c] = "new" /\ beat[c] = Off /\ lease[c] = NoLease /\ call[c] = LiveState
    BY DEF Init
  <2>2. call[c].id = 0 /\ call[c].events = {} /\ call[c].contacted = FALSE
    BY <2>1 DEF LiveState
  <2>3. ~call[c].contacted
    BY <2>2, Zenon
  <2> QED
    BY <2>1, <2>2, <2>3 DEF Live, Executing, Active, Occupies, Handing
<1>3. Alone /\ LeaseSound /\ BeatSound
  BY <1>2 DEF Alone, LeaseSound, BeatSound
<1>4. LeasesWithinLimits
  <2>1. {l \in Calls : Live(l)} = {}
    BY <1>2
  <2>2. Cardinality({}) = 0
    BY FS_EmptySet
  <2>3. \A t : {l \in {} : call[l].input.tenant = t} = {}
    OBVIOUS
  <2>4. 0 <= RouteLimit /\ 0 <= TenantLimit
    BY Constants
  <2> QED
    BY <2>1, <2>2, <2>3, <2>4 DEF LeasesWithinLimits
<1>5. CircuitSound
  BY Constants DEF Init, CircuitSound
<1>6. \A c \in Calls : CallSound(c)
  BY <1>2 DEF CallSound, OneAttempt
<1>7. \A r \in Requests : RowSound(r)
  BY DEF Init, RowSound, NoRow, OneAttempt
<1> QED
  BY <1>1, <1>3, <1>4, <1>5, <1>6, <1>7 DEF Inv

LEMMA StepKeeps ==
  ASSUME Inv, Next
  PROVE  Kept
<1>1. ASSUME NEW c \in Calls, CallStep(c)
      PROVE  Kept
  BY <1>1, ReplayKeeps, EnforceRateLimitKeeps, AcquireSlotKeeps, LockRouteKeeps, AcquireKeeps,
     RequireClosedCircuitKeeps, CompleteRequestKeeps, AttributeModelCallKeeps, LockLeaseKeeps,
     ReleaseCapacityKeeps, BookKeeps DEF CallStep
<1>2. ASSUME NEW c \in Calls, Provider(c)
      PROVE  Kept
  BY <1>2, AttemptEndsKeeps, AttemptFailsKeeps DEF Provider
<1>3. ASSUME Progress
      PROVE  Kept
  BY <1>1, <1>2, <1>3, DeadlockVictimKeeps DEF Progress
<1>4. ASSUME NEW c \in Calls,
             \/ \E i \in Inputs[c] : Claim(c, i) \/ ClaimAnswerLost(c, i)
             \/ Renew(c) \/ RenewalHeard(c) \/ LeaseLost(c)
             \/ Acquire(c, FALSE) \/ CompleteRequest(c, FALSE) \/ Cancel(c) \/ StoreFails(c)
      PROVE  Kept
  BY <1>4, ClaimKeeps, RenewKeeps, RenewalHeardKeeps, LeaseLostKeeps, AcquireKeeps, CompleteRequestKeeps,
     CancelKeeps, StoreFailsKeeps
<1> QED
  BY <1>3, <1>4, CrashKeeps, CloseKeeps, TickKeeps DEF Next

LEMMA StutterKeeps ==
  ASSUME Inv, UNCHANGED vars
  PROVE  Inv'
<1>1. TablesType' /\ now <= now'
  BY TypeParts DEF vars, TablesType
<1>2. UNCHANGED <<phase, call, beat, stores>>
  BY DEF vars, stores
<1> QED
  BY <1>1, <1>2, CallsRest DEF Kept

LEMMA InvHolds == Spec => []Inv
<1>1. Inv /\ [Next]_vars => Inv'
  BY StepKeeps, StutterKeeps DEF Kept
<1> QED
  BY <1>1, InitSound, PTL DEF Spec

\* What a caller was given is what the store keeps for its payload, and its model call is attributed, whatever is
\* repeated, cancelled, lost or crashes (GatewayClient.stream, PostgresGatewayRequestStore.complete).
THEOREM DeliveredIsStored == Spec => []DeliveredIsDurable
<1>1. Inv => DeliveredIsDurable
  BY DEF Inv, CallSound, Handing, DeliveredIsDurable
<1> QED
  BY <1>1, InvHolds, PTL

\* A request ID contacts the provider once, its response is of one attempt, and its stored outcome is never replaced
\* or forgotten (PostgresGatewayRequestStore.claim, complete, fail, release).
THEOREM RequestsHaveOneOutcome == Spec => RequestsAreIdempotent
<1>1. Inv => OneContactPerRequest
  BY DEF Inv, Alone, Occupies, OneContactPerRequest
<1>2. Inv => ResponseIsOneAttempt
  <2> SUFFICES ASSUME Inv, NEW c \in Calls
               PROVE  Cardinality(call[c].events) <= 1
    BY DEF ResponseIsOneAttempt
  <2>1. OneAttempt(call[c].events)
    BY CallFacts
  <2>2. CASE call[c].events = {}
    BY <2>2, FS_EmptySet
  <2>3. CASE call[c].events # {}
    <3>1. PICK m : call[c].events = {m}
      BY <2>1, <2>3 DEF OneAttempt
    <3> QED
      BY <3>1, FS_Singleton
  <2> QED
    BY <2>2, <2>3
<1>3. Inv /\ Inv' /\ [Next]_vars => [OneContactPerRequest' /\ ResponseIsOneAttempt' /\ StoredOutcomeIsFinal]_vars
  <2>1. Inv' => OneContactPerRequest' /\ ResponseIsOneAttempt'
    BY <1>1, <1>2, PTL
  <2>2. Inv /\ Next => StoredOutcomeIsFinal
    BY StepKeeps DEF Kept
  <2> QED
    BY <2>1, <2>2
<1> QED
  BY <1>3, InvHolds, PTL DEF Spec, RequestsAreIdempotent

\* Two probes of an open circuit are at least its recovery time apart, less what the time of a transaction may lie
\* behind its commit, whoever fails or answers late in between (PostgresGatewayCircuitBreaker.allow,
\* record_failure, record_success).
THEOREM ProbesStayApart == Spec => ProbesAreApart
<1>1. Inv /\ [Next]_vars =>
        [circuit'.probe /\ circuit' # circuit => probed = 0 \/ now - probed >= Recovery - Lag]_vars
  BY StepKeeps DEF Kept, ProbeApart
<1> QED
  BY <1>1, InvHolds, PTL DEF Spec, ProbesAreApart

-----------------------------------------------------------------------------
(* Sums of tokens.  The community module adds the tokens up over an element that CHOOSE picks, again and again. *)

First(s) == CHOOSE x \in s : TRUE
Rest(s) == s \ {First(s)}

\* The function that holds the sums of the subsets of S.
Adds(g, b, S) == g = [s \in SUBSET S |-> IF s = {} THEN 0 ELSE b[First(s)].tokens + g[Rest(s)]]
Adder(b, S) == CHOOSE g : Adds(g, b, S)
Total(b, S) == Adder(b, S)[S]

LEMMA SumIsTotal ==
  ASSUME NEW b, NEW S
  PROVE  MapThenSumSet(LAMBDA l : b[l].tokens, S) = Total(b, S)
BY DEF MapThenSumSet, MapThenFoldSet, Total, Adder, Adds, First, Rest

\* Among sets of finite sets there is one that contains no other.
LEMMA MinimalSet ==
  ASSUME NEW S, IsFiniteSet(S), NEW Bad \in SUBSET (SUBSET S), Bad # {}
  PROVE  \E t \in Bad : \A r \in SUBSET t : r # t => r \notin Bad
<1>1. IsWellFoundedOn(StrictSubsetOrdering(S), FiniteSubsetsOf(S))
  BY FS_StrictSubsetOrderingWellFounded
<1>2. Bad \subseteq FiniteSubsetsOf(S)
  <2>1. \A t \in SUBSET S : IsFiniteSet(t)
    BY FS_Subset
  <2> QED
    BY <2>1 DEF FiniteSubsetsOf
<1>3. PICK t \in Bad : \A r \in Bad : ~(<<r, t>> \in StrictSubsetOrdering(S))
  BY <1>1, <1>2, WFMin
<1>4. \A r \in SUBSET t : r # t /\ r \in Bad => <<r, t>> \in StrictSubsetOrdering(S)
  BY DEF StrictSubsetOrdering
<1>5. ASSUME NEW r \in SUBSET t, r # t, r \in Bad PROVE FALSE
  BY <1>3, <1>4, <1>5
<1>6. \A r \in SUBSET t : r # t => r \notin Bad
  BY <1>5
<1> QED
  BY <1>3, <1>6

LEMMA FirstIsIn ==
  ASSUME NEW s, s # {}
  PROVE  First(s) \in s /\ Rest(s) \in SUBSET s /\ Rest(s) # s
<1>1. First(s) \in s
  BY DEF First
<1> QED
  BY <1>1 DEF Rest

\* What an adder gives for a set.
LEMMA AdderMeans ==
  ASSUME NEW b, NEW S, NEW g, Adds(g, b, S), NEW s \in SUBSET S
  PROVE  g[s] = IF s = {} THEN 0 ELSE b[First(s)].tokens + g[Rest(s)]
<1> DEFINE f == [t \in SUBSET S |-> IF t = {} THEN 0 ELSE b[First(t)].tokens + g[Rest(t)]]
<1>1. g = f
  BY DEF Adds
<1>2. f[s] = IF s = {} THEN 0 ELSE b[First(s)].tokens + g[Rest(s)]
  OBVIOUS
<1> QED
  BY <1>1, <1>2

LEMMA AddersAgree ==
  ASSUME NEW b, NEW A, NEW B, NEW g, NEW h, Adds(g, b, A), Adds(h, b, B),
         NEW s \in SUBSET (A \intersect B), IsFiniteSet(s)
  PROVE  g[s] = h[s]
<1> DEFINE Bad == {t \in SUBSET s : g[t] # h[t]}
<1> SUFFICES ASSUME Bad # {} PROVE FALSE
  OBVIOUS
<1>0. Bad \in SUBSET (SUBSET s)
  OBVIOUS
<1> HIDE DEF Bad
<1>1. PICK t \in Bad : \A r \in SUBSET t : r # t => r \notin Bad
  BY <1>0, MinimalSet
<1> USE DEF Bad
<1>2. t \in SUBSET A /\ t \in SUBSET B /\ t \in SUBSET s /\ g[t] # h[t]
  OBVIOUS
<1>3. /\ g[t] = IF t = {} THEN 0 ELSE b[First(t)].tokens + g[Rest(t)]
      /\ h[t] = IF t = {} THEN 0 ELSE b[First(t)].tokens + h[Rest(t)]
  BY <1>2, AdderMeans
<1>4. t # {}
  BY <1>2, <1>3
<1>5. Rest(t) \in SUBSET t /\ Rest(t) # t
  BY <1>4, FirstIsIn
<1>6. g[Rest(t)] = h[Rest(t)]
  BY <1>1, <1>2, <1>5
<1> QED
  BY <1>2, <1>3, <1>4, <1>6

LEMMA AdderExists ==
  ASSUME NEW b, NEW S, IsFiniteSet(S)
  PROVE  Adds(Adder(b, S), b, S)
<1> DEFINE Bad == {t \in SUBSET S : ~\E g : Adds(g, b, t)}
<1>1. SUFFICES ASSUME Bad # {} PROVE FALSE
  BY DEF Adder
<1>0. Bad \in SUBSET (SUBSET S)
  OBVIOUS
<1> HIDE DEF Bad
<1>2. PICK t \in Bad : \A r \in SUBSET t : r # t => r \notin Bad
  BY <1>0, <1>1, MinimalSet
<1> USE DEF Bad
<1>3. ASSUME NEW r \in SUBSET t, r # t PROVE Adds(Adder(b, r), b, r) /\ IsFiniteSet(r)
  <2>1. r \in SUBSET S /\ \E g : Adds(g, b, r)
    BY <1>2, <1>3
  <2> QED
    BY <2>1, FS_Subset DEF Adder
<1> DEFINE V(s) == IF s = {} THEN 0 ELSE b[First(s)].tokens + Total(b, Rest(s))
           g == [s \in SUBSET t |-> V(s)]
<1>4. ASSUME NEW r \in SUBSET t, r # t PROVE Total(b, r) = V(r)
  <2>1. Total(b, r) = IF r = {} THEN 0 ELSE b[First(r)].tokens + Adder(b, r)[Rest(r)]
    BY <1>3, <1>4, AdderMeans DEF Total
  <2>2. CASE r = {}
    BY <2>1, <2>2
  <2>3. CASE r # {}
    <3>1. Rest(r) \in SUBSET r /\ Rest(r) \in SUBSET t /\ Rest(r) # t
      BY <1>4, <2>3, FirstIsIn
    <3>2. Adder(b, r)[Rest(r)] = Adder(b, Rest(r))[Rest(r)]
      BY <1>3, <1>4, <3>1, AddersAgree
    <3> QED
      BY <2>1, <2>3, <3>2 DEF Total
  <2> QED
    BY <2>2, <2>3
<1> HIDE DEF V
<1>5. ASSUME NEW s \in SUBSET t PROVE V(s) = IF s = {} THEN 0 ELSE b[First(s)].tokens + g[Rest(s)]
  <2>1. CASE s = {}
    BY <2>1 DEF V
  <2>2. CASE s # {}
    <3>1. Rest(s) \in SUBSET t /\ Rest(s) # t
      BY <2>2, FirstIsIn
    <3>2. g[Rest(s)] = Total(b, Rest(s))
      BY <1>4, <3>1
    <3> QED
      BY <2>2, <3>2 DEF V
  <2> QED
    BY <2>1, <2>2
<1>6. Adds(g, b, t)
  BY <1>5 DEF Adds
<1> QED
  BY <1>2, <1>6

\* A sum, one element after another.
LEMMA SumStep ==
  ASSUME NEW b, NEW S, IsFiniteSet(S)
  PROVE  Total(b, S) = IF S = {} THEN 0 ELSE b[First(S)].tokens + Total(b, Rest(S))
<1>1. Total(b, S) = IF S = {} THEN 0 ELSE b[First(S)].tokens + Adder(b, S)[Rest(S)]
  BY AdderExists, AdderMeans DEF Total
<1>2. CASE S = {}
  BY <1>1, <1>2
<1>3. CASE S # {}
  <2>1. Rest(S) \in SUBSET S
    BY <1>3, FirstIsIn
  <2>2. IsFiniteSet(Rest(S))
    BY <2>1, FS_Subset
  <2>3. Adds(Adder(b, S), b, S) /\ Adds(Adder(b, Rest(S)), b, Rest(S))
    BY <2>2, AdderExists
  <2>4. Rest(S) \in SUBSET (S \intersect Rest(S))
    BY <2>1
  <2>5. Adder(b, S)[Rest(S)] = Adder(b, Rest(S))[Rest(S)]
    BY <2>2, <2>3, <2>4, AddersAgree
  <2> QED
    BY <1>1, <1>3, <2>5 DEF Total
<1> QED
  BY <1>2, <1>3

\* A sum of natural numbers is one.
LEMMA SumType ==
  ASSUME NEW b, NEW S, IsFiniteSet(S), \A l \in S : b[l].tokens \in Nat
  PROVE  Total(b, S) \in Nat
<1> DEFINE Bad == {t \in SUBSET S : Total(b, t) \notin Nat}
<1>1. SUFFICES ASSUME Bad # {} PROVE FALSE
  OBVIOUS
<1>2. Bad \in SUBSET (SUBSET S)
  OBVIOUS
<1> HIDE DEF Bad
<1>3. PICK t \in Bad : \A r \in SUBSET t : r # t => r \notin Bad
  BY <1>1, <1>2, MinimalSet
<1>4. t \in SUBSET S /\ Total(b, t) \notin Nat
  BY DEF Bad
<1>5. Total(b, t) = IF t = {} THEN 0 ELSE b[First(t)].tokens + Total(b, Rest(t))
  BY <1>4, FS_Subset, SumStep
<1>6. t # {}
  BY <1>4, <1>5
<1>7. First(t) \in S /\ Rest(t) \in SUBSET t /\ Rest(t) # t /\ Rest(t) \in SUBSET S
  BY <1>4, <1>6, FirstIsIn
<1>8. Total(b, Rest(t)) \in Nat
  BY <1>3, <1>7 DEF Bad
<1> QED
  BY <1>4, <1>5, <1>6, <1>7, <1>8

\* Bills that agree on a set have the same sum.
LEMMA SumAgree ==
  ASSUME NEW b, NEW d, NEW S, IsFiniteSet(S), \A l \in S : b[l].tokens = d[l].tokens
  PROVE  Total(b, S) = Total(d, S)
<1> DEFINE Bad == {t \in SUBSET S : Total(b, t) # Total(d, t)}
<1>1. SUFFICES ASSUME Bad # {} PROVE FALSE
  OBVIOUS
<1>2. Bad \in SUBSET (SUBSET S)
  OBVIOUS
<1> HIDE DEF Bad
<1>3. PICK t \in Bad : \A r \in SUBSET t : r # t => r \notin Bad
  BY <1>1, <1>2, MinimalSet
<1>4. t \in SUBSET S /\ Total(b, t) # Total(d, t)
  BY DEF Bad
<1>5. /\ Total(b, t) = IF t = {} THEN 0 ELSE b[First(t)].tokens + Total(b, Rest(t))
      /\ Total(d, t) = IF t = {} THEN 0 ELSE d[First(t)].tokens + Total(d, Rest(t))
  BY <1>4, FS_Subset, SumStep
<1>6. t # {}
  BY <1>4, <1>5
<1>7. First(t) \in S /\ Rest(t) \in SUBSET t /\ Rest(t) # t /\ Rest(t) \in SUBSET S
  BY <1>4, <1>6, FirstIsIn
<1>8. Total(b, Rest(t)) = Total(d, Rest(t))
  BY <1>3, <1>7 DEF Bad
<1> QED
  BY <1>4, <1>5, <1>6, <1>7, <1>8

\* Any element may be taken out first.
LEMMA SumRemove ==
  ASSUME NEW b, NEW S, IsFiniteSet(S), \A l \in S : b[l].tokens \in Nat, NEW x \in S
  PROVE  Total(b, S) = b[x].tokens + Total(b, S \ {x})
<1> DEFINE Odd(t, w) == Total(b, t) # b[w].tokens + Total(b, t \ {w})
           Bad == {t \in SUBSET S : \E w \in t : Odd(t, w)}
<1>1. SUFFICES ASSUME Bad # {} PROVE FALSE
  OBVIOUS
<1>2. Bad \in SUBSET (SUBSET S)
  OBVIOUS
<1> HIDE DEF Bad
<1>3. PICK t \in Bad : \A r \in SUBSET t : r # t => r \notin Bad
  BY <1>1, <1>2, MinimalSet
<1>4. PICK w \in t : Odd(t, w)
  BY DEF Bad
<1>5. t \in SUBSET S
  BY DEF Bad
<1> DEFINE y == First(t)
<1>6. Total(b, t) = b[y].tokens + Total(b, t \ {y})
  BY <1>4, <1>5, FS_Subset, SumStep DEF Rest
<1>7. y \in t
  BY <1>4, FirstIsIn
<1>8. y # w
  BY <1>4, <1>6
<1> HIDE DEF y
<1>9. \A r \in SUBSET t, v \in t : r # t /\ v \in r => ~Odd(r, v)
  BY <1>3, <1>5 DEF Bad
<1>10. Total(b, t \ {y}) = b[w].tokens + Total(b, (t \ {y}) \ {w})
  <2>1. t \ {y} \in SUBSET t /\ t \ {y} # t /\ w \in t \ {y}
    BY <1>7, <1>8
  <2> QED
    BY <1>9, <2>1
<1>11. Total(b, t \ {w}) = b[y].tokens + Total(b, (t \ {w}) \ {y})
  <2>1. t \ {w} \in SUBSET t /\ t \ {w} # t /\ y \in t \ {w}
    BY <1>7, <1>8
  <2> QED
    BY <1>7, <1>9, <2>1
<1>12. (t \ {w}) \ {y} = (t \ {y}) \ {w}
  OBVIOUS
<1> DEFINE n == Total(b, (t \ {y}) \ {w})
<1>13. n \in Nat
  BY <1>5, FS_Subset, SumType
<1>14. b[w].tokens \in Nat /\ b[y].tokens \in Nat
  BY <1>5, <1>7
<1> HIDE DEF n
<1>15. Total(b, t) = b[y].tokens + (b[w].tokens + n) /\ Total(b, t \ {w}) = b[y].tokens + n
  BY <1>6, <1>10, <1>11, <1>12 DEF n
<1> QED
  BY <1>4, <1>13, <1>14, <1>15

-----------------------------------------------------------------------------
(* What the token window is charged. *)

\* The calls that have not asked for a lease.
Early == {"new", "rate", "slot", "acquire", "acquiring"}

\* The calls that were given one and have not released it.
Held == {"circuit", "attempt", "retry", "complete", "attribute", "release", "releasing"}

\* The leases that are charged to the window w.
ChargedTo(b, w) == {l \in Calls : b[l].window = w}

Charged == route.accounted = Total(bill, ChargedTo(bill, route.window))

\* A live lease is charged what was reserved, to the window it was given in; none is charged to a window to come.
BillSound(l) ==
  /\ Live(l) => lease[l].window # 0 /\ bill[l].window = lease[l].window /\ bill[l].tokens = Reserved
  /\ bill[l].window <= route.window
  /\ phase[l] \in Early => bill[l].window = 0

\* A lease that is locked for its release is not deleted.
LockSound(c) ==
  /\ phase[c] \in Held => call[c].id # 0
  /\ phase[c] = "releasing" => Live(call[c].id)

TokenInv ==
  /\ route.window # 0 /\ Charged
  /\ \A l \in Calls : BillSound(l)
  /\ \A c \in Calls : LockSound(c)

\* A call does not go back to before its lease, and locks none that is gone.
Follows(c) ==
  /\ phase'[c] \in Early => phase[c] \in Early
  /\ phase'[c] \in Held => call'[c].id # 0
  /\ phase'[c] = "releasing" => \/ phase[c] = "releasing" /\ call'[c].id = call[c].id
                                \/ Live(call'[c].id)

LEMMA BooksRest ==
  ASSUME TokenInv, UNCHANGED <<lease, route, bill>>, \A c \in Calls : Follows(c)
  PROVE  TokenInv'
<1>1. route'.window # 0 /\ Charged'
  BY DEF TokenInv, Charged
<1>2. \A l \in Calls : BillSound(l)'
  BY DEF TokenInv, BillSound, Follows, Live
<1>3. \A c \in Calls : LockSound(c)'
  BY DEF TokenInv, LockSound, Follows, Live
<1> QED
  BY <1>1, <1>2, <1>3 DEF TokenInv

LEMMA ContinueFollows ==
  ASSUME Inv, TokenInv, NEW c \in Calls, NEW p \in Phases \union {"stop"}, NEW e \in Local, Continue(c, p, e),
         p \in Early => phase[c] \in Early,
         p \in Held => e.id # 0,
         p = "releasing" => e.id = call[c].id /\ (phase[c] = "releasing" \/ Live(e.id))
  PROVE  \A d \in Calls : Follows(d)
<1>0. phase \in [Calls -> Phases] /\ call \in [Calls -> Local] /\ now \in Nat /\ Reserved \in Nat
  BY TypeParts, Constants DEF CallType
<1>1. \A d \in Calls : d # c => phase'[d] = phase[d] /\ call'[d] = call[d]
  BY <1>0 DEF Continue
<1>2. \A d \in Calls : d # c => Follows(d)
  BY <1>1 DEF TokenInv, LockSound, Follows
<1>3. CASE p = "stop"
  <2>1. call'[c].id = e.id /\ phase'[c] = IF e.id # 0 THEN "release" ELSE "book"
    <3>1. call'[c] = Unwound(e) /\ phase'[c] = IF e.id # 0 THEN "release" ELSE "book"
      BY <1>0, <1>3 DEF Continue
    <3> QED
      BY <1>0, <3>1, UnwoundMeans
  <2> QED
    BY <1>2, <2>1 DEF Follows, Early, Held
<1>4. CASE p # "stop"
  <2>1. phase'[c] = p /\ call'[c] = e
    BY <1>0, <1>4 DEF Continue
  <2> QED
    BY <1>2, <2>1 DEF Follows
<1> QED
  BY <1>3, <1>4

\* A call that stops, or goes on past its lease.
LEMMA LeavesFollow ==
  ASSUME Inv, TokenInv, NEW c \in Calls, NEW p \in {"stop", "book", "delivered", "failed", "replay"}, NEW e \in Local,
         Continue(c, p, e)
  PROVE  \A d \in Calls : Follows(d)
<1>1. p \in Phases \union {"stop"} /\ p \notin Early /\ p \notin Held /\ p # "releasing"
  BY DEF Phases, Early, Held
<1> QED
  BY <1>1, ContinueFollows

\* A call that goes on with its lease.
LEMMA HoldersFollow ==
  ASSUME Inv, TokenInv, NEW c \in Calls, phase[c] \in Held,
         NEW p \in {"attempt", "retry", "complete", "attribute", "release"}, NEW e \in Local, e.id = call[c].id,
         Continue(c, p, e)
  PROVE  \A d \in Calls : Follows(d)
<1>1. p \in Phases \union {"stop"} /\ p \notin Early /\ p # "releasing"
  BY DEF Phases, Early
<1>2. e.id # 0
  BY DEF TokenInv, LockSound
<1> QED
  BY <1>1, <1>2, ContinueFollows

\* The ways a release ends.
LEMMA ReleaseFollows ==
  ASSUME Inv, TokenInv, NEW c \in Calls, AfterRelease(c) \/ ReleaseFails(c)
  PROVE  \A d \in Calls : Follows(d)
<1>1. call[c] \in Local
  BY CallFacts
<1>2. ASSUME AfterRelease(c) PROVE \A d \in Calls : Follows(d)
  <2>1. CASE call[c].final \/ call[c].doomed
    <3>1. PICK e : e = [call[c] EXCEPT !.id = 0, !.expires = 0, !.at = 0, !.usage = 0, !.slot = FALSE]
      OBVIOUS
    <3>2. e \in Local
      BY <1>1, <3>1 DEF Local
    <3> QED
      BY <1>2, <2>1, <3>1, <3>2, LeavesFollow DEF AfterRelease
  <2>2. CASE ~(call[c].final \/ call[c].doomed)
    <3>1. PICK e \in Local : e = [Remains(c) EXCEPT !.slot = FALSE]
      BY RemainsMeans
    <3> QED
      BY <1>2, <2>2, <3>1, LeavesFollow DEF AfterRelease
  <2> QED
    BY <2>1, <2>2
<1>3. ASSUME Continue(c, "stop", call[c]) PROVE \A d \in Calls : Follows(d)
  BY <1>1, <1>3, LeavesFollow
<1> QED
  BY <1>2, <1>3 DEF ReleaseFails

LEMMA ClaimBooks ==
  ASSUME Inv, TokenInv, NEW c \in Calls, NEW i \in Inputs[c], Claim(c, i) \/ ClaimAnswerLost(c, i)
  PROVE  TokenInv'
<1>1. UNCHANGED <<lease, route, bill>> /\ phase[c] \in Early
  BY DEF Claim, ClaimAnswerLost, Early
<1>2. PICK e \in Local : e = [LiveState EXCEPT !.input = i]
  BY SetInput DEF AllInputs
<1>3. Continue(c, "rate", e) \/ Continue(c, "replay", e) \/ Continue(c, "failed", e)
  BY <1>2 DEF Claim, ClaimAnswerLost, StoredEventsOrRaise
<1>4. CASE Continue(c, "rate", e)
  <2>1. "rate" \in Phases \union {"stop"} /\ "rate" \notin Held
    BY DEF Phases, Held
  <2>2. \A d \in Calls : Follows(d)
    BY <1>1, <1>4, <2>1, ContinueFollows
  <2> QED
    BY <1>1, <2>2, BooksRest
<1>5. CASE Continue(c, "replay", e) \/ Continue(c, "failed", e)
  <2>1. \A d \in Calls : Follows(d)
    BY <1>5, LeavesFollow
  <2> QED
    BY <1>1, <2>1, BooksRest
<1> QED
  BY <1>3, <1>4, <1>5

\* The steps up to the lease.
LEMMA AdmissionBooks ==
  ASSUME Inv, TokenInv, NEW c \in Calls, Replay(c) \/ EnforceRateLimit(c) \/ AcquireSlot(c) \/ LockRoute(c)
  PROVE  TokenInv'
<1>1. UNCHANGED <<lease, route, bill>> /\ call[c] \in Local
  BY CallFacts DEF Replay, EnforceRateLimit, AcquireSlot, LockRoute, stores
<1> SUFFICES \A d \in Calls : Follows(d)
  BY <1>1, BooksRest
<1>2. /\ {"slot", "acquire", "acquiring"} \subseteq Phases \union {"stop"}
      /\ \A p \in {"slot", "acquire", "acquiring"} : p \notin Held /\ p # "releasing"
      /\ phase[c] \in {"rate", "slot", "acquire"} => phase[c] \in Early
  BY DEF Phases, Held, Early
<1>3. CASE Replay(c)
  <2>1. PICK e \in Local : e = [call[c] EXCEPT !.events = request[Request(c)].events]
    <3>1. request[Request(c)].events \in SUBSET Nat
      <4>1. Request(c) \in Requests
        BY <1>3 DEF Replay, Inv, CallSound
      <4> QED
        BY <4>1, TypeParts DEF RequestType, GatewayRequestRow
    <3> QED
      BY <1>1, <3>1, SetEvents
  <2> QED
    BY <1>3, <2>1, LeavesFollow DEF Replay
<1>4. CASE EnforceRateLimit(c)
  <2>1. phase[c] = "rate" /\ (Continue(c, "stop", call[c]) \/ Continue(c, "slot", call[c]))
    BY <1>4 DEF EnforceRateLimit
  <2> QED
    BY <1>1, <1>2, <2>1, LeavesFollow, ContinueFollows
<1>5. CASE AcquireSlot(c)
  <2>1. PICK e0 \in Local : e0 = [call[c] EXCEPT !.slot = TRUE]
    BY <1>1, SetFlag
  <2>2. PICK e \in Local : e = [e0 EXCEPT !.at = now]
    BY TypeParts, SetNumber
  <2>3. phase[c] = "slot" /\ (Continue(c, "stop", e) \/ Continue(c, "acquire", e))
    BY <1>5, <2>1, <2>2 DEF AcquireSlot
  <2> QED
    BY <1>2, <2>3, LeavesFollow, ContinueFollows
<1>6. CASE LockRoute(c)
  BY <1>1, <1>2, <1>6, ContinueFollows DEF LockRoute
<1> QED
  BY <1>3, <1>4, <1>5, <1>6

\* The steps with the lease, but for its release, and the bookkeeping.
LEMMA CallBooks ==
  ASSUME Inv, TokenInv, NEW c \in Calls,
         \/ RequireClosedCircuit(c) \/ CompleteRequest(c, TRUE) \/ CompleteRequest(c, FALSE) \/ AttributeModelCall(c)
         \/ LockLease(c) \/ Book(c)
  PROVE  TokenInv'
<1>1. UNCHANGED <<lease, route, bill>> /\ call[c] \in Local
  BY CallFacts DEF RequireClosedCircuit, CompleteRequest, AttributeModelCall, LockLease, Book, stores
<1> SUFFICES \A d \in Calls : Follows(d)
  BY <1>1, BooksRest
<1>2. CASE RequireClosedCircuit(c)
  <2>1. PICK t \in Stamps : Continue(c, IF Allowed(t) THEN "attempt" ELSE "stop",
                                     [call[c] EXCEPT !.contacted = @ \/ Allowed(t)])
    BY <1>2, Zenon DEF RequireClosedCircuit
  <2>2. PICK e \in Local : e = [call[c] EXCEPT !.contacted = @ \/ Allowed(t)] /\ e.id = call[c].id
    <3>1. PICK b \in BOOLEAN : b = (call[c].contacted \/ Allowed(t))
      OBVIOUS
    <3> QED
      BY <1>1, <3>1, SetContacted
  <2>3. phase[c] \in Held /\ (Continue(c, "attempt", e) \/ Continue(c, "stop", e))
    BY <1>2, <2>1, <2>2 DEF RequireClosedCircuit, Held
  <2> QED
    BY <2>2, <2>3, LeavesFollow, HoldersFollow
<1>3. ASSUME NEW told \in BOOLEAN, CompleteRequest(c, told) PROVE \A d \in Calls : Follows(d)
  <2>1. PICK e \in Local : e = [call[c] EXCEPT !.durable = told /\ Owned(c)] /\ e.id = call[c].id
    <3>1. PICK b \in BOOLEAN : b = (told /\ Owned(c))
      OBVIOUS
    <3> QED
      BY <1>1, <3>1, SetFlag DEF Same
  <2>2. phase[c] \in Held /\ (Continue(c, "attribute", e) \/ Continue(c, "stop", e))
    BY <1>3, <2>1 DEF CompleteRequest, Held
  <2> QED
    BY <2>1, <2>2, LeavesFollow, HoldersFollow
<1>4. CASE AttributeModelCall(c)
  <2>1. /\ phase' = [phase EXCEPT ![c] = "release"] /\ call' = [call EXCEPT ![c].completed = TRUE, ![c].at = now]
        /\ phase[c] = "attribute"
    BY <1>4 DEF AttributeModelCall
  <2>2. phase \in [Calls -> Phases] /\ call \in [Calls -> Local]
    BY TypeParts DEF CallType
  <2>3. phase'[c] = "release" /\ \A d \in Calls : d # c => phase'[d] = phase[d] /\ call'[d] = call[d]
    BY <2>1, <2>2
  <2>4. call'[c].id = call[c].id
    BY <2>1, <2>2 DEF Local
  <2>5. call[c].id # 0
    BY <2>1 DEF TokenInv, LockSound, Held
  <2>6. Follows(c)
    BY <2>3, <2>4, <2>5 DEF Follows, Early
  <2> QED
    BY <2>3, <2>6 DEF TokenInv, LockSound, Follows
<1>5. CASE LockLease(c)
  <2>1. CASE AfterRelease(c) \/ ReleaseFails(c)
    BY <2>1, ReleaseFollows
  <2>2. CASE SameLease(c, call[c].id) /\ Continue(c, "releasing", call[c])
    <3>1. "releasing" \in Phases \union {"stop"} /\ "releasing" \notin Early /\ phase[c] \in Held
      BY <1>5 DEF Phases, Early, LockLease, Held
    <3>2. call[c].id # 0
      BY <3>1 DEF TokenInv, LockSound
    <3> QED
      BY <1>1, <2>2, <3>1, <3>2, ContinueFollows DEF SameLease
  <2> QED
    BY <1>5, <2>1, <2>2 DEF LockLease
<1>6. CASE Book(c)
  BY <1>6, LeavesFollow, RemainsMeans DEF Book
<1> QED
  BY <1>2, <1>3, <1>4, <1>5, <1>6

\* The provider, the heartbeat but for a renewal, the deadlock detection and what goes wrong.
LEMMA OtherBooks ==
  ASSUME Inv, TokenInv, NEW c \in Calls,
         \/ Provider(c) \/ (\E d \in Calls : DeadlockVictim(c, d)) \/ RenewalHeard(c) \/ LeaseLost(c) \/ Cancel(c)
         \/ StoreFails(c)
  PROVE  TokenInv'
<1>1. UNCHANGED <<lease, route, bill>>
  BY DEF Provider, AttemptEnds, AttemptFails, DeadlockVictim, RenewalHeard, LeaseLost, Cancel, StoreFails, stores
<1> SUFFICES \A d \in Calls : Follows(d)
  BY <1>1, BooksRest
<1>0. phase \in [Calls -> Phases] /\ call \in [Calls -> Local]
  BY TypeParts DEF CallType
<1>stop. ASSUME NEW d \in Calls, Continue(d, "stop", call[d]) PROVE \A b \in Calls : Follows(b)
  BY <1>0, <1>stop, LeavesFollow
<1>2. CASE Provider(c)
  <2>1. phase[c] \in Held /\ call[c].events \in SUBSET Nat /\ call[c].attempt \in Nat
    BY <1>0, <1>2 DEF Provider, AttemptEnds, AttemptFails, Held, Local
  <2>2. \A streamed \in BOOLEAN : Streamed(c, streamed) \in SUBSET Nat
    BY <2>1 DEF Streamed
  <2>3. CASE AttemptEnds(c)
    <3>1. PICK n \in Usage : Continue(c, "complete", [call[c] EXCEPT !.usage = n, !.events = Streamed(c, TRUE)])
      BY <2>3 DEF AttemptEnds
    <3>2. PICK e0 \in Local : e0 = [call[c] EXCEPT !.usage = n] /\ e0.id = call[c].id
      <4>1. PICK f \in Local : f = call[c]
        BY <1>0
      <4>2. n \in Nat
        BY Constants
      <4>3. [f EXCEPT !.usage = n] \in Local /\ [f EXCEPT !.usage = n].id = f.id
        BY <4>2, SetNumber DEF Same
      <4> QED
        BY <4>1, <4>3
    <3>3. PICK e \in Local : e = [e0 EXCEPT !.events = Streamed(c, TRUE)] /\ e.id = e0.id
      <4>1. PICK s \in SUBSET Nat : s = Streamed(c, TRUE)
        BY <2>2
      <4>2. [e0 EXCEPT !.events = s] \in Local /\ [e0 EXCEPT !.events = s].id = e0.id
        BY SetEvents
      <4> QED
        BY <4>1, <4>2
    <3>4. Continue(c, "complete", e)
      BY <3>1, <3>2, <3>3
    <3> QED
      BY <2>1, <3>2, <3>3, <3>4, HoldersFollow
  <2>4. ASSUME NEW streamed \in BOOLEAN, NEW retryable \in BOOLEAN, AttemptFails(c, streamed, retryable)
        PROVE  \A d \in Calls : Follows(d)
    <3>1. PICK e0 \in Local : e0 = [call[c] EXCEPT !.attempt = @ + 1] /\ e0.id = call[c].id
      <4>1. PICK f \in Local : f = call[c]
        BY <1>0
      <4>2. f.attempt + 1 \in Nat
        BY <2>1, <4>1
      <4>3. [f EXCEPT !.attempt = f.attempt + 1] \in Local /\ [f EXCEPT !.attempt = f.attempt + 1].id = f.id
        BY <4>2, SetNumber DEF Same
      <4> QED
        BY <4>1, <4>3
    <3>2. PICK e \in Local : e = [e0 EXCEPT !.events = Streamed(c, streamed)] /\ e.id = e0.id
      <4>1. PICK s \in SUBSET Nat : s = Streamed(c, streamed)
        BY <2>2
      <4>2. [e0 EXCEPT !.events = s] \in Local /\ [e0 EXCEPT !.events = s].id = e0.id
        BY SetEvents
      <4> QED
        BY <4>1, <4>2
    <3>3. Continue(c, "retry", e) \/ Continue(c, "stop", call[c])
      BY <2>4, <3>1, <3>2 DEF AttemptFails
    <3> QED
      BY <1>stop, <2>1, <3>1, <3>2, <3>3, HoldersFollow
  <2> QED
    BY <1>2, <2>3, <2>4 DEF Provider
<1>3. CASE \E d \in Calls : DeadlockVictim(c, d)
  <2>1. PICK d \in Calls : ReleaseFails(c) \/ Continue(d, "stop", call[d])
    BY <1>3 DEF DeadlockVictim
  <2> QED
    BY <1>stop, <2>1, ReleaseFollows
<1>4. CASE RenewalHeard(c)
  <2>1. phase' = phase /\ call' = [call EXCEPT ![c].expires = beat[c]]
    BY <1>4 DEF RenewalHeard
  <2>2. \A d \in Calls : call'[d].id = call[d].id
    BY <1>0, <2>1 DEF Local
  <2> QED
    BY <2>1, <2>2 DEF TokenInv, LockSound, Follows
<1>5. CASE LeaseLost(c)
  <2>1. CASE phase' = phase /\ call' = [call EXCEPT ![c].doomed = TRUE]
    <3>1. \A d \in Calls : call'[d].id = call[d].id
      BY <1>0, <2>1 DEF Local
    <3> QED
      BY <2>1, <3>1 DEF TokenInv, LockSound, Follows
  <2> QED
    BY <1>stop, <1>5, <2>1 DEF LeaseLost
<1>6. CASE Cancel(c)
  <2>1. PICK e \in Local : e = [call[c] EXCEPT !.doomed = TRUE] /\ e.id = call[c].id
    BY <1>0, SetFlag DEF Same
  <2>2. CASE phase[c] = "complete" /\ Continue(c, "complete", e)
    BY <2>1, <2>2, HoldersFollow DEF Held
  <2>3. CASE phase[c] = "release" /\ Continue(c, "release", e)
    BY <2>1, <2>3, HoldersFollow DEF Held
  <2>4. CASE phase[c] = "releasing" /\ Continue(c, "releasing", e)
    <3>1. "releasing" \in Phases \union {"stop"} /\ "releasing" \notin Early /\ phase[c] \in Held
      BY <2>4 DEF Phases, Early, Held
    <3>2. e.id # 0
      BY <2>1, <3>1 DEF TokenInv, LockSound
    <3> QED
      BY <2>1, <2>4, <3>1, <3>2, ContinueFollows
  <2> QED
    BY <1>stop, <1>6, <2>1, <2>2, <2>3, <2>4 DEF Cancel, Interrupt
<1>7. CASE StoreFails(c)
  <2>1. PICK e \in Local : e = Remains(c)
    BY RemainsMeans
  <2>2. ReleaseFails(c) \/ Continue(c, "failed", call[c]) \/ Continue(c, "stop", call[c]) \/ Continue(c, "failed", e)
    BY <1>7, <2>1 DEF StoreFails
  <2> QED
    BY <1>0, <2>2, ReleaseFollows, LeavesFollow
<1> QED
  BY <1>2, <1>3, <1>4, <1>5, <1>6, <1>7

\* A crash, a closed client, the clock and a stuttering step.
LEMMA WorldBooks ==
  ASSUME Inv, TokenInv, (\E k \in Clients : Crash(k) \/ Close(k)) \/ Tick \/ UNCHANGED vars
  PROVE  TokenInv'
<1>1. UNCHANGED <<lease, route, bill>>
  BY DEF Crash, Close, Tick, stores, vars
<1>2. \A c \in Calls : Follows(c)
  <2>1. CASE \E k \in Clients : Crash(k)
    <3>1. PICK dead \in SUBSET Calls :
            /\ phase' = [c \in Calls |-> IF c \in dead THEN "crashed" ELSE phase[c]]
            /\ call' = [c \in Calls |-> IF c \in dead THEN [Remains(c) EXCEPT !.slot = FALSE] ELSE call[c]]
      BY <2>1 DEF Crash
    <3>2. ASSUME NEW c \in Calls PROVE phase'[c] = "crashed" \/ (phase'[c] = phase[c] /\ call'[c] = call[c])
      BY <3>1
    <3> QED
      BY <3>2 DEF TokenInv, LockSound, Follows, Early, Held
  <2>2. CASE UNCHANGED <<phase, call>>
    BY <2>2 DEF TokenInv, LockSound, Follows
  <2> QED
    BY <2>1, <2>2 DEF Close, Tick, vars
<1> QED
  BY <1>1, <1>2, BooksRest

\* A renewal leaves the lease live, in its window.
LEMMA RenewBooks ==
  ASSUME Inv, TokenInv, NEW c \in Calls, Renew(c)
  PROVE  TokenInv'
<1> DEFINE l == call[c].id
<1>1. /\ UNCHANGED <<route, bill, phase, call>> /\ Live(l) /\ lease' = [lease EXCEPT ![l].expires = now + Lease]
  BY DEF Renew, Renewable, SameLease
<1>2. lease \in [Calls -> CapacityLeaseRow] /\ now + Lease # 0 /\ now + Lease \in Nat
  BY TypeParts, Constants
<1> HIDE DEF l
<1>3. \A m \in Calls : lease'[m].window = lease[m].window
  BY <1>1, <1>2 DEF CapacityLeaseRow
<1>4. \A m \in Calls : Live(m)' <=> Live(m)
  <2>1. ASSUME NEW m \in Calls, m = l PROVE lease'[m].expires = now + Lease
    BY <1>1, <1>2, <2>1 DEF CapacityLeaseRow
  <2>2. NoLease.expires = 0
    BY DEF NoLease
  <2>3. ASSUME NEW m \in Calls, m = l PROVE Live(m)' /\ Live(m)
    BY <1>1, <1>2, <2>1, <2>2, <2>3 DEF Live
  <2>4. ASSUME NEW m \in Calls, m # l PROVE lease'[m] = lease[m]
    BY <1>1, <1>2, <2>4
  <2> QED
    BY <2>3, <2>4 DEF Live
<1>5. route'.window # 0 /\ Charged'
  BY <1>1 DEF TokenInv, Charged
<1>6. \A m \in Calls : BillSound(m)'
  BY <1>1, <1>3, <1>4 DEF TokenInv, BillSound
<1>7. \A d \in Calls : LockSound(d)'
  <2>1. ASSUME NEW d \in Calls, phase[d] = "releasing" PROVE lease'[call[d].id] # NoLease
    <3>1. Live(call[d].id) /\ call[d].id # 0
      BY <2>1 DEF TokenInv, LockSound, Held
    <3>2. call[d].id \in Calls
      BY <3>1 DEF Inv, LeaseSound
    <3> QED
      BY <1>4, <3>1, <3>2 DEF Live
  <2> QED
    BY <1>1, <2>1 DEF TokenInv, LockSound, Live
<1> QED
  BY <1>5, <1>6, <1>7 DEF TokenInv

-----------------------------------------------------------------------------
(* Acquiring and releasing, and the tokens. *)

BillType(b) == b \in [Calls -> [window : Nat, tokens : Nat]]

LEMMA ChargedSets ==
  ASSUME NEW b, BillType(b), NEW w
  PROVE  /\ ChargedTo(b, w) \subseteq Calls /\ IsFiniteSet(ChargedTo(b, w))
         /\ \A l \in ChargedTo(b, w) : b[l].tokens \in Nat
         /\ Total(b, ChargedTo(b, w)) \in Nat
<1>1. ChargedTo(b, w) \subseteq Calls /\ \A l \in ChargedTo(b, w) : b[l].tokens \in Nat
  BY DEF ChargedTo, BillType
<1>2. IsFiniteSet(ChargedTo(b, w))
  BY <1>1, Constants, FS_Subset
<1> QED
  BY <1>1, <1>2, SumType

\* A lease that is charged to a window adds its tokens.
LEMMA ChargeNew ==
  ASSUME NEW b, BillType(b), NEW c \in Calls, NEW w \in Nat, NEW n \in Nat, b[c].window # w
  PROVE  LET d == [b EXCEPT ![c] = [window |-> w, tokens |-> n]]
         IN  BillType(d) /\ Total(d, ChargedTo(d, w)) = Total(b, ChargedTo(b, w)) + n
<1> DEFINE d == [b EXCEPT ![c] = [window |-> w, tokens |-> n]]
<1>1. BillType(d) /\ d[c].window = w /\ d[c].tokens = n /\ \A l \in Calls \ {c} : d[l] = b[l]
  BY DEF BillType
<1> HIDE DEF d
<1> DEFINE D == ChargedTo(d, w)
           B == ChargedTo(b, w)
<1>2. c \in D /\ D \ {c} = B /\ c \notin B
  BY <1>1 DEF ChargedTo
<1>3. /\ IsFiniteSet(D) /\ IsFiniteSet(B) /\ (\A l \in D : d[l].tokens \in Nat) /\ Total(b, B) \in Nat
      /\ B \subseteq Calls
  BY <1>1, ChargedSets
<1> HIDE DEF D, B
<1>4. Total(d, D) = d[c].tokens + Total(d, D \ {c})
  BY <1>2, <1>3, SumRemove
<1>5. \A l \in B : d[l].tokens = b[l].tokens
  BY <1>1, <1>2, <1>3
<1>6. Total(d, B) = Total(b, B)
  BY <1>3, <1>5, SumAgree
<1>7. Total(d, D) = Total(b, B) + n
  BY <1>1, <1>2, <1>3, <1>4, <1>6
<1> QED
  BY <1>1, <1>7 DEF d, D, B

\* Charging other tokens to a lease changes its own window by the difference, and no other window.
LEMMA ChargeOther ==
  ASSUME NEW b, BillType(b), NEW d, BillType(d), NEW l \in Calls, NEW w \in Nat,
         \A m \in Calls : d[m].window = b[m].window,
         \A m \in Calls \ {l} : d[m] = b[m]
  PROVE  /\ b[l].window # w => Total(d, ChargedTo(d, w)) = Total(b, ChargedTo(b, w))
         /\ b[l].window = w => \E rest \in Nat : /\ Total(b, ChargedTo(b, w)) = b[l].tokens + rest
                                                 /\ Total(d, ChargedTo(d, w)) = d[l].tokens + rest
<1> DEFINE B == ChargedTo(b, w)
           rest == Total(b, B \ {l})
<1>2. ChargedTo(d, w) = B
  BY DEF ChargedTo
<1>3. /\ IsFiniteSet(B) /\ (\A m \in B : b[m].tokens \in Nat /\ d[m].tokens \in Nat) /\ B \subseteq Calls
  BY <1>2, ChargedSets
<1>4. l \in B <=> b[l].window = w
  BY DEF ChargedTo
<1> HIDE DEF B
<1>5. ASSUME b[l].window # w PROVE Total(d, B) = Total(b, B)
  <2>1. \A m \in B : d[m].tokens = b[m].tokens
    BY <1>3, <1>4, <1>5
  <2> QED
    BY <1>3, <2>1, SumAgree
<1>6. ASSUME b[l].window = w
      PROVE  rest \in Nat /\ Total(b, B) = b[l].tokens + rest /\ Total(d, B) = d[l].tokens + rest
  <2>1. IsFiniteSet(B \ {l}) /\ \A m \in B \ {l} : d[m].tokens = b[m].tokens /\ b[m].tokens \in Nat
    BY <1>3, FS_Subset
  <2>2. rest \in Nat /\ Total(d, B \ {l}) = rest
    BY <2>1, SumType, SumAgree
  <2>3. Total(b, B) = b[l].tokens + rest /\ Total(d, B) = d[l].tokens + Total(d, B \ {l})
    BY <1>3, <1>4, <1>6, SumRemove
  <2> QED
    BY <2>2, <2>3
<1> QED
  BY <1>2, <1>5, <1>6 DEF B

\* A new window is charged nothing.
LEMMA ResetCharged ==
  ASSUME Inv, TokenInv, NEW t \in Nat
  PROVE  LET r == ResetTokenWindow(route, t)
         IN  /\ r \in CapacityRow /\ r.window # 0 /\ route.window <= r.window
             /\ r.accounted = Total(bill, ChargedTo(bill, r.window))
             /\ \A l \in Calls : bill[l].window <= r.window
<1> DEFINE r == ResetTokenWindow(route, t)
<1>1. route \in CapacityRow /\ BillType(bill) /\ Window \in Nat \ {0} /\ route.window \in Nat
  BY TypeParts, Constants DEF TablesType, BillType, CapacityRow
<1>2. route.window # 0 /\ Charged /\ \A l \in Calls : bill[l].window <= route.window /\ bill[l].window \in Nat
  BY <1>1 DEF TokenInv, BillSound, BillType
<1>3. CASE t - route.window >= Window
  <2>1. r = [window |-> t, accounted |-> 0, updated |-> t]
    BY <1>3 DEF ResetTokenWindow
  <2>2. t > route.window
    BY <1>1, <1>3
  <2>3. r \in CapacityRow /\ r.window = t /\ r.accounted = 0
    BY <2>1 DEF CapacityRow
  <2>4. ChargedTo(bill, t) = {}
    BY <1>1, <1>2, <2>2 DEF ChargedTo
  <2>5. Total(bill, {}) = 0
    BY FS_EmptySet, SumStep
  <2> HIDE DEF r
  <2>6. \A l \in Calls : bill[l].window <= t
    BY <1>1, <1>2, <2>2
  <2>7. /\ r \in CapacityRow /\ r.window # 0 /\ route.window <= r.window
        /\ r.accounted = Total(bill, ChargedTo(bill, r.window))
        /\ \A l \in Calls : bill[l].window <= r.window
    BY <1>1, <1>2, <2>2, <2>3, <2>4, <2>5, <2>6
  <2> QED
    BY <2>7 DEF r
<1>4. CASE ~(t - route.window >= Window)
  <2>1. r = route
    BY <1>4 DEF ResetTokenWindow
  <2> QED
    BY <1>1, <1>2, <2>1 DEF Charged
<1> QED
  BY <1>3, <1>4

\* What acquire does to the leases, the window and the bills.
LEMMA AcquireTokens ==
  ASSUME NEW c \in Calls
  PROVE  LET q == AcquireResult(c)
             t == call[c].at
             reset == ResetTokenWindow(route, t)
         IN  \/ q.lease = lease /\ q.route = route /\ q.bill = bill
             \/ /\ ~(t < route.updated) /\ q.lease = Pruned(c) /\ q.bill = bill
                /\ q.route = route \/ q.route = reset
             \/ /\ ~(t < route.updated)
                /\ q.lease = [Pruned(c) EXCEPT ![c] = [expires |-> t + Lease, window |-> reset.window]]
                /\ q.route = [reset EXCEPT !.accounted = @ + Reserved, !.updated = t]
                /\ q.bill = [bill EXCEPT ![c] = [window |-> reset.window, tokens |-> Reserved]]
<1> DEFINE q == AcquireResult(c)
           t == call[c].at
           reset == ResetTokenWindow(route, t)
<1>1. CASE t < route.updated
  <2>1. q = [id |-> 0, lease |-> lease, route |-> route, bill |-> bill]
    BY <1>1 DEF AcquireResult
  <2> QED
    BY <2>1
<1>2. CASE ~(t < route.updated) /\ Existing(c, Unexpired(c)) # {}
  <2>1. q = [id |-> Min(Existing(c, Unexpired(c))), lease |-> Pruned(c), route |-> route, bill |-> bill]
    BY <1>2 DEF AcquireResult, Pruned, Unexpired
  <2> QED
    BY <1>2, <2>1
<1>3. CASE ~(t < route.updated) /\ Existing(c, Unexpired(c)) = {} /\ Full(c, Unexpired(c))
  <2>1. q = [id |-> 0, lease |-> Pruned(c), route |-> route, bill |-> bill]
    BY <1>3 DEF AcquireResult, Pruned, Unexpired
  <2> QED
    BY <1>3, <2>1
<1>4. CASE /\ ~(t < route.updated) /\ Existing(c, Unexpired(c)) = {} /\ ~Full(c, Unexpired(c))
           /\ reset.accounted + Reserved > TokenLimit
  <2>1. q = [id |-> 0, lease |-> Pruned(c), route |-> reset, bill |-> bill]
    BY <1>4 DEF AcquireResult, Pruned, Unexpired
  <2> QED
    BY <1>4, <2>1
<1>5. CASE /\ ~(t < route.updated) /\ Existing(c, Unexpired(c)) = {} /\ ~Full(c, Unexpired(c))
           /\ ~(reset.accounted + Reserved > TokenLimit)
  <2>1. q = [id |-> c,
             lease |-> [Pruned(c) EXCEPT ![c] = [expires |-> t + Lease, window |-> reset.window]],
             route |-> [reset EXCEPT !.accounted = @ + Reserved, !.updated = t],
             bill |-> [bill EXCEPT ![c] = [window |-> reset.window, tokens |-> Reserved]]]
    BY <1>5 DEF AcquireResult, Pruned, Unexpired
  <2> QED
    BY <1>5, <2>1
<1> QED
  BY <1>1, <1>2, <1>3, <1>4, <1>5

\* A new lease is charged to its window, and acquire does not delete a lease that is locked for its release.
LEMMA AcquireBooks ==
  ASSUME Inv, TokenInv, NEW c \in Calls, NEW told \in BOOLEAN, Acquire(c, told)
  PROVE  TokenInv'
<1>1. PICK q : q = AcquireResult(c)
  OBVIOUS
<1>2. /\ phase[c] = "acquiring" /\ lease' = q.lease /\ route' = q.route /\ bill' = q.bill
      /\ ~\E l \in Calls : LeaseLocked(l) /\ WaitsFor(c, l)
      /\ \/ /\ q.id # 0 /\ phase' = [phase EXCEPT ![c] = "circuit"]
            /\ call' = [call EXCEPT ![c].id = q.id, ![c].at = 0, ![c].expires = q.lease[q.id].expires]
         \/ Continue(c, "stop", call[c])
  BY <1>1 DEF Acquire
<1>3. phase \in [Calls -> Phases] /\ call \in [Calls -> Local] /\ lease \in [Calls -> CapacityLeaseRow] /\ BillType(bill)
  BY TypeParts DEF CallType, TablesType, BillType
<1>4. PICK t \in Nat : t = call[c].at
  BY <1>3 DEF Local
<1>5. /\ \A d \in Calls \ {c} : phase'[d] = phase[d] /\ call'[d] = call[d]
      /\ phase'[c] \notin Early /\ phase'[c] # "releasing"
      /\ phase'[c] \in Held => call'[c].id # 0
  <2>1. CASE /\ q.id # 0 /\ phase' = [phase EXCEPT ![c] = "circuit"]
             /\ call' = [call EXCEPT ![c].id = q.id, ![c].at = 0, ![c].expires = q.lease[q.id].expires]
    <3>1. phase'[c] = "circuit" /\ \A d \in Calls \ {c} : phase'[d] = phase[d] /\ call'[d] = call[d]
      BY <1>3, <2>1
    <3>2. call'[c].id = q.id
      BY <1>3, <2>1 DEF Local
    <3> QED
      BY <2>1, <3>1, <3>2 DEF Early
  <2>2. CASE Continue(c, "stop", call[c])
    <3>1. \A d \in Calls \ {c} : phase'[d] = phase[d] /\ call'[d] = call[d]
      BY <1>3, <2>2 DEF Continue
    <3>2. phase'[c] = "release" \/ phase'[c] = "book"
      BY <1>3, <2>2 DEF Continue
    <3>3. Follows(c)
      BY <1>3, <2>2, LeavesFollow
    <3> QED
      BY <3>1, <3>2, <3>3 DEF Follows, Early
  <2> QED
    BY <1>2, <2>1, <2>2
<1>6. ASSUME NEW d \in Calls, phase'[d] = "releasing"
      PROVE  d # c /\ call'[d].id = call[d].id /\ call[d].id \in Calls /\ Live(call[d].id) /\ LeaseLocked(call[d].id)
  <2>1. d # c /\ phase[d] = "releasing" /\ call'[d] = call[d]
    BY <1>5, <1>6
  <2>2. call[d].id # 0 /\ Live(call[d].id)
    BY <2>1 DEF TokenInv, LockSound, Held
  <2>3. call[d].id \in Calls
    BY <2>2 DEF Inv, LeaseSound
  <2> QED
    BY <2>1, <2>2, <2>3 DEF LeaseLocked
<1>7. ASSUME NEW d \in Calls, phase'[d] = "releasing", ~(t < route.updated)
      PROVE  call[d].id \in Unexpired(c)
  <2>1. route.updated \in Nat
    BY TypeParts DEF TablesType, CapacityRow
  <2>2. t >= route.updated
    BY <1>7, <2>1
  <2>3. ~WaitsFor(c, call[d].id) /\ call[d].id \in Calls /\ Live(call[d].id)
    BY <1>2, <1>6, <1>7
  <2>4. call[d].id \notin Expired(t)
    BY <1>4, <2>2, <2>3 DEF WaitsFor
  <2> QED
    BY <1>4, <2>3, <2>4 DEF Unexpired
<1> DEFINE reset == ResetTokenWindow(route, t)
<1>8. /\ reset \in CapacityRow /\ reset.window # 0 /\ route.window <= reset.window
      /\ reset.accounted = Total(bill, ChargedTo(bill, reset.window))
      /\ \A l \in Calls : bill[l].window <= reset.window
  BY ResetCharged
<1> HIDE DEF reset
<1>9. \A l \in Calls : Pruned(c)[l] # NoLease => Live(l) /\ Pruned(c)[l] = lease[l]
  BY DEF Pruned, Unexpired
<1>10. \A l \in Unexpired(c) : l \in Calls /\ Live(l) /\ Pruned(c)[l] = lease[l]
  BY DEF Pruned, Unexpired
<1>11. CASE q.lease = lease /\ q.route = route /\ q.bill = bill
  <2>1. \A d \in Calls : LockSound(d)'
    BY <1>2, <1>5, <1>6, <1>11 DEF TokenInv, LockSound, Live
  <2>2. \A l \in Calls : BillSound(l)'
    BY <1>2, <1>5, <1>11 DEF TokenInv, BillSound, Live
  <2> QED
    BY <1>2, <1>11, <2>1, <2>2 DEF TokenInv, Charged
<1>12. CASE ~(t < route.updated) /\ q.lease = Pruned(c) /\ q.bill = bill /\ (q.route = route \/ q.route = reset)
  <2>1. \A d \in Calls : LockSound(d)'
    <3>1. ASSUME NEW d \in Calls, phase'[d] = "releasing" PROVE lease'[call'[d].id] # NoLease
      BY <1>2, <1>6, <1>7, <1>10, <1>12, <3>1 DEF Live
    <3>2. ASSUME NEW d \in Calls, phase'[d] \in Held PROVE call'[d].id # 0
      BY <1>5, <3>2 DEF TokenInv, LockSound
    <3> QED
      BY <3>1, <3>2 DEF LockSound, Live
  <2>2. route'.window # 0 /\ Charged' /\ \A l \in Calls : bill[l].window <= route'.window
    <3>1. CASE q.route = route
      BY <1>2, <1>12, <3>1 DEF TokenInv, Charged, BillSound
    <3>2. CASE q.route = reset
      BY <1>2, <1>8, <1>12, <3>2 DEF Charged
    <3> QED
      BY <1>12, <3>1, <3>2
  <2>3. \A l \in Calls : BillSound(l)'
    BY <1>2, <1>5, <1>9, <1>12, <2>2 DEF TokenInv, BillSound, Live
  <2> QED
    BY <2>1, <2>2, <2>3 DEF TokenInv
<1>13. CASE /\ ~(t < route.updated)
            /\ q.lease = [Pruned(c) EXCEPT ![c] = [expires |-> t + Lease, window |-> reset.window]]
            /\ q.route = [reset EXCEPT !.accounted = @ + Reserved, !.updated = t]
            /\ q.bill = [bill EXCEPT ![c] = [window |-> reset.window, tokens |-> Reserved]]
  <2>1. PICK w \in Nat : w = reset.window
    BY <1>8 DEF CapacityRow
  <2>2. /\ lease'[c] = [expires |-> t + Lease, window |-> w] /\ bill'[c] = [window |-> w, tokens |-> Reserved]
        /\ \A l \in Calls \ {c} : lease'[l] = Pruned(c)[l] /\ bill'[l] = bill[l]
    <3>1. Pruned(c) \in [Calls -> CapacityLeaseRow]
      BY PrunedMeans
    <3> QED
      BY <1>2, <1>3, <1>13, <2>1, <3>1 DEF BillType
  <2>3. lease'[c] # NoLease /\ lease'[c].window = w /\ bill'[c].window = w /\ bill'[c].tokens = Reserved
    <3>1. lease'[c].expires = t + Lease /\ NoLease.expires = 0 /\ t + Lease # 0
      BY <2>2, Constants DEF NoLease
    <3> QED
      BY <2>2, <3>1
  <2>4. route'.window = w /\ route'.accounted = reset.accounted + Reserved
    BY <1>2, <1>8, <1>13, <2>1 DEF CapacityRow
  <2>5. bill[c].window # w
    <3>1. bill[c].window = 0
      BY <1>2 DEF TokenInv, BillSound, Early
    <3> QED
      BY <1>8, <2>1, <3>1
  <2>6. Charged'
    <3>1. Reserved \in Nat
      BY Constants
    <3>2. bill' = [bill EXCEPT ![c] = [window |-> w, tokens |-> Reserved]]
      BY <1>2, <1>13, <2>1
    <3>3. Total(bill', ChargedTo(bill', w)) = Total(bill, ChargedTo(bill, w)) + Reserved
      BY <1>3, <2>5, <3>1, <3>2, ChargeNew
    <3> QED
      BY <1>8, <2>1, <2>4, <3>3 DEF Charged
  <2>7. \A d \in Calls : LockSound(d)'
    <3>1. ASSUME NEW d \in Calls, phase'[d] = "releasing" PROVE lease'[call'[d].id] # NoLease
      <4>1. PICK l \in Calls : l = call[d].id /\ call'[d].id = l /\ Live(l) /\ Pruned(c)[l] = lease[l]
        BY <1>6, <1>7, <1>10, <1>13, <3>1
      <4>2. lease[l] # NoLease
        BY <4>1 DEF Live
      <4> QED
        BY <2>2, <2>3, <4>1, <4>2
    <3>2. ASSUME NEW d \in Calls, phase'[d] \in Held PROVE call'[d].id # 0
      BY <1>5, <3>2 DEF TokenInv, LockSound
    <3> QED
      BY <3>1, <3>2 DEF LockSound, Live
  <2>8. ASSUME NEW l \in Calls PROVE BillSound(l)'
    <3>1. CASE l = c
      BY <1>5, <1>8, <2>1, <2>3, <2>4, <3>1 DEF BillSound, Live
    <3>2. CASE l # c
      <4>1. lease'[l] = Pruned(c)[l] /\ bill'[l] = bill[l] /\ phase'[l] = phase[l]
        BY <1>5, <2>2, <3>2
      <4>2. BillSound(l) /\ bill[l].window <= w
        BY <1>8, <2>1 DEF TokenInv
      <4> QED
        BY <1>9, <2>4, <4>1, <4>2 DEF BillSound, Live
    <3> QED
      BY <3>1, <3>2
  <2> QED
    BY <1>8, <2>1, <2>4, <2>6, <2>7, <2>8 DEF TokenInv
<1> QED
  BY <1>1, <1>4, <1>11, <1>12, <1>13, AcquireTokens DEF reset

LEMMA OneUser ==
  ASSUME Inv
  PROVE  LeaseHasOneUser
<1> SUFFICES ASSUME NEW c \in Calls, NEW d \in Calls, c # d, call[c].id # 0, call[c].id = call[d].id
             PROVE  FALSE
  BY DEF LeaseHasOneUser
<1>1. Executing(c) /\ Executing(d) /\ Request(call[c].id) = Request(c) /\ Request(call[d].id) = Request(d)
  BY DEF Inv, LeaseSound
<1>2. Request(c) = Request(d)
  BY <1>1
<1> QED
  BY <1>1, <1>2 DEF Inv, Alone, Occupies

\* A refund leaves no fewer tokens than the other leases are charged.
LEMMA RefundMeans ==
  ASSUME NEW r \in CapacityRow, NEW l, NEW n \in Nat, NEW rest \in Nat, r.accounted = Reserved + rest
  PROVE  LET f == Refund(r, l, n)
         IN  f.window = r.window /\ f.accounted = IF r.window = lease[l].window THEN n + rest ELSE r.accounted
<1>1. Reserved \in Nat /\ r.accounted - Reserved + n = n + rest
  BY Constants
<1>2. PICK x \in Nat : x = n + rest
  OBVIOUS
<1>3. Max({0, x}) = x
  <2>1. x \in {0, x} /\ \A z \in {0, x} : z <= x
    OBVIOUS
  <2>2. Max({0, x}) \in {0, x} /\ \A z \in {0, x} : z <= Max({0, x})
    BY <2>1 DEF Max
  <2> QED
    BY <2>1, <2>2
<1>4. Max({0, r.accounted - Reserved + n}) = x
  BY <1>1, <1>2, <1>3
<1> QED
  BY <1>2, <1>4 DEF Refund, CapacityRow

\* A released lease is charged what was used, and its window no longer what it reserved.
LEMMA ReleaseBooks ==
  ASSUME Inv, TokenInv, NEW c \in Calls, ReleaseCapacity(c)
  PROVE  TokenInv'
<1>1. CASE ReleaseFails(c) /\ UNCHANGED <<lease, route, bill>>
  BY <1>1, ReleaseFollows, BooksRest
<1>2. CASE /\ route' = [Refund(ResetTokenWindow(route, call[c].at), call[c].id, call[c].usage) EXCEPT !.updated = call[c].at]
           /\ bill' = [bill EXCEPT ![call[c].id].tokens = call[c].usage]
           /\ lease' = [lease EXCEPT ![call[c].id] = NoLease]
           /\ AfterRelease(c)
  <2>1. phase[c] = "releasing"
    BY DEF ReleaseCapacity
  <2>2. phase \in [Calls -> Phases] /\ call \in [Calls -> Local] /\ lease \in [Calls -> CapacityLeaseRow] /\ BillType(bill)
    BY TypeParts DEF CallType, TablesType, BillType
  <2>3. PICK t \in Nat, n \in Nat : t = call[c].at /\ n = call[c].usage
    BY <2>2 DEF Local
  <2>4. call[c].id # 0 /\ Live(call[c].id)
    BY <2>1 DEF TokenInv, LockSound, Held
  <2>5. PICK l \in Calls : l = call[c].id
    BY <2>4 DEF Inv, LeaseSound
  <2>6. BillSound(l) /\ Live(l)
    BY <2>4, <2>5 DEF TokenInv
  <2>7. /\ \A d \in Calls \ {c} : phase'[d] = phase[d] /\ call'[d] = call[d]
        /\ phase'[c] = "book" \/ phase'[c] = "delivered"
    BY <1>2, <2>2 DEF AfterRelease, Continue
  <2>8. lease'[l] = NoLease /\ \A m \in Calls \ {l} : lease'[m] = lease[m]
    BY <1>2, <2>2, <2>5
  <2>9. \A d \in Calls : LockSound(d)'
    <3>1. ASSUME NEW d \in Calls, phase'[d] \in Held
          PROVE  d # c /\ phase'[d] = phase[d] /\ call'[d] = call[d] /\ call[d].id # 0
      BY <2>7, <3>1 DEF Held, TokenInv, LockSound
    <3>2. ASSUME NEW d \in Calls, phase'[d] = "releasing" PROVE lease'[call'[d].id] # NoLease
      <4>1. d # c /\ phase[d] = "releasing" /\ call'[d] = call[d] /\ call[d].id # 0
        BY <3>1, <3>2 DEF Held
      <4>2. call[d].id # l /\ call[d].id \in Calls
        BY <2>4, <2>5, <4>1, OneUser DEF LeaseHasOneUser, Inv, LeaseSound
      <4>3. Live(call[d].id)
        BY <4>1 DEF TokenInv, LockSound
      <4> QED
        BY <2>8, <4>1, <4>2, <4>3 DEF Live
    <3> QED
      BY <3>1, <3>2 DEF LockSound, Live
  <2> DEFINE r == ResetTokenWindow(route, t)
  <2>10. /\ r \in CapacityRow /\ r.window # 0 /\ route.window <= r.window
         /\ r.accounted = Total(bill, ChargedTo(bill, r.window))
         /\ \A m \in Calls : bill[m].window <= r.window
    BY ResetCharged
  <2> HIDE DEF r
  <2>11. PICK f : f = Refund(r, l, n)
    OBVIOUS
  <2>12. f \in CapacityRow
    BY <2>10, <2>11, RefundType
  <2>13. route'.window = f.window /\ route'.accounted = f.accounted
    <3>1. route' = [f EXCEPT !.updated = t]
      BY <1>2, <2>3, <2>5, <2>11 DEF r
    <3> QED
      BY <2>12, <3>1 DEF CapacityRow
  <2>14. bill' = [bill EXCEPT ![l].tokens = n]
    BY <1>2, <2>3, <2>5
  <2>15. /\ BillType(bill') /\ bill'[l].tokens = n /\ \A m \in Calls : bill'[m].window = bill[m].window
         /\ \A m \in Calls \ {l} : bill'[m] = bill[m]
    BY <2>2, <2>14 DEF BillType
  <2>16. lease[l].window = bill[l].window /\ bill[l].tokens = Reserved
    BY <2>6 DEF BillSound
  <2>17. r.window \in Nat
    BY <2>10 DEF CapacityRow
  <2>18. route'.window = r.window /\ Charged'
    <3>1. CASE bill[l].window # r.window
      <4>1. f = r
        BY <2>11, <2>16, <3>1 DEF Refund
      <4>2. Total(bill', ChargedTo(bill', r.window)) = Total(bill, ChargedTo(bill, r.window))
        BY <2>2, <2>15, <2>17, <3>1, ChargeOther
      <4> QED
        BY <2>10, <2>13, <4>1, <4>2 DEF Charged
    <3>2. CASE bill[l].window = r.window
      <4>1. PICK rest \in Nat : /\ Total(bill, ChargedTo(bill, r.window)) = bill[l].tokens + rest
                                /\ Total(bill', ChargedTo(bill', r.window)) = n + rest
        BY <2>2, <2>15, <2>17, <3>2, ChargeOther
      <4>2. r.accounted = Reserved + rest
        BY <2>10, <2>16, <4>1
      <4>3. f.window = r.window /\ f.accounted = n + rest
        BY <2>10, <2>11, <2>16, <3>2, <4>2, RefundMeans
      <4> QED
        BY <2>13, <4>1, <4>3 DEF Charged
    <3> QED
      BY <3>1, <3>2
  <2>19. ASSUME NEW m \in Calls PROVE BillSound(m)'
    <3>1. phase'[m] \in Early => phase[m] \in Early
      BY <2>7 DEF Early
    <3>2. BillSound(m)
      BY DEF TokenInv
    <3>3. bill'[m].window <= route'.window /\ (phase'[m] \in Early => bill'[m].window = 0)
      BY <2>10, <2>15, <2>18, <3>1, <3>2 DEF BillSound
    <3>4. lease'[m] # NoLease => m # l /\ lease'[m] = lease[m] /\ bill'[m] = bill[m]
      BY <2>8, <2>15
    <3> QED
      BY <3>2, <3>3, <3>4 DEF BillSound, Live
  <2> QED
    BY <2>9, <2>10, <2>18, <2>19 DEF TokenInv
<1> QED
  BY <1>1, <1>2 DEF ReleaseCapacity

LEMMA InitBooks ==
  ASSUME Init
  PROVE  TokenInv
<1>1. /\ route.window = now /\ now # 0 /\ 0 <= now /\ route.accounted = 0 /\ \A l \in Calls : bill[l].window = 0
      /\ \A c \in Calls : phase[c] = "new" /\ lease[c] = NoLease
  BY Constants DEF Init, NoBill
<1>2. ChargedTo(bill, now) = {}
  BY <1>1 DEF ChargedTo
<1>3. Total(bill, {}) = 0
  BY FS_EmptySet, SumStep
<1>4. Charged
  BY <1>1, <1>2, <1>3 DEF Charged
<1>5. \A l \in Calls : BillSound(l) /\ LockSound(l)
  BY <1>1 DEF BillSound, LockSound, Live, Held
<1> QED
  BY <1>1, <1>4, <1>5 DEF TokenInv

LEMMA BooksKeep ==
  ASSUME Inv, TokenInv, [Next]_vars
  PROVE  TokenInv'
<1>1. ASSUME NEW c \in Calls, CallStep(c)
      PROVE  TokenInv'
  BY <1>1, AdmissionBooks, AcquireBooks, CallBooks, ReleaseBooks DEF CallStep
<1>2. ASSUME Progress
      PROVE  TokenInv'
  BY <1>1, <1>2, OtherBooks DEF Progress
<1>3. ASSUME NEW c \in Calls,
             \/ \E i \in Inputs[c] : Claim(c, i) \/ ClaimAnswerLost(c, i)
             \/ Renew(c) \/ RenewalHeard(c) \/ LeaseLost(c)
             \/ Acquire(c, FALSE) \/ CompleteRequest(c, FALSE) \/ Cancel(c) \/ StoreFails(c)
      PROVE  TokenInv'
  BY <1>3, ClaimBooks, RenewBooks, OtherBooks, AcquireBooks, CallBooks
<1> QED
  BY <1>2, <1>3, WorldBooks DEF Next

\* A capacity lease has one user, leases stay within the limits of the tenant and of the route, and the token window is
\* charged exactly what its leases reserved, or used once they were released, under every interleaving of acquire, renew
\* and release, with expired leases, windows that ended, lost answers and deadlock victims (PostgresGatewayCapacityStore).
THEOREM CapacityStaysAccounted == Spec => []CapacityIsAccounted
<1>1. TokenInv => TokensAreCharged
  BY SumIsTotal DEF TokenInv, Charged, ChargedTo, TokensAreCharged
<1>2. Inv /\ TokenInv => CapacityIsAccounted
  BY <1>1, OneUser DEF Inv, CapacityIsAccounted
<1>3. Inv /\ TokenInv /\ [Next]_vars => TokenInv'
  BY BooksKeep
<1> QED
  BY <1>2, <1>3, InitBooks, InvHolds, PTL DEF Spec
=============================================================================
