\* One run passes between two workers whose clocks disagree: losses, retries, approvals, rewinds, cancellations.
SPECIFICATION Spec
CONSTANTS
    r1 = r1  r2 = r2  w1 = w1  w2 = w2  ws1 = ws1  t1 = t1
    None = None  Scheduler = Scheduler  Api = Api
    Runs = {r1}
    Workers = {w1, w2}
    Workspaces = {ws1}
    Tenants = {t1}
    Approvals = {a1}
    WorkspaceOf <- OneWorkspace
    TenantOf <- OneTenant
    Offset <- SkewedClocks
    MaxSkew = 1
    LeaseTtl = 2
    RetryDelay = 1
    MaxSlots = 1
    MaxActive = 2
    MaxQueued = 2
    GlobalQueueLimit = 2
    RecoveryLimit = 2
    MaxGen = 2
    MaxEpoch = 2
    MaxWsGen = 2
INVARIANTS LeaseMirrorsRun WorkspaceOwnerHasLease ExclusiveSandbox RowsAgree
PROPERTIES FencesHold ResultsAreFinal
