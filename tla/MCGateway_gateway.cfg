SPECIFICATION Spec
CONSTANTS
  Calls = {1, 2}
  Clients = {"a", "b"}
  Tenants = {1, 2}
  Inputs <- MCInputs
  LocalSlots = 1
  MaxAttempts = 2
  RateLimit = 1
  TenantLimit = 1
  RouteLimit = 2
  TokenLimit = 4
  Reserved = 2
  Usage = {1}
  FailureThreshold = 1
  Lease = 2
  Window = 2
  Recovery = 2
  Lag = 1
  MaxTime = 4
  MaxFaults = 1
CHECK_DEADLOCK FALSE
INVARIANTS DeliveredIsDurable CapacityIsAccounted
PROPERTIES RequestsAreIdempotent ProbesAreApart CallsEnd
