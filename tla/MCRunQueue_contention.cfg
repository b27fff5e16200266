\* Two runs of one session contend for its workspace and for the slots of one worker; holders may stop
\* at any point and the scheduler keeps polling.
SPECIFICATION FairSpec
CONSTANTS
    r1 = r1  r2 = r2  w1 = w1  w2 = w2  ws1 = ws1  t1 = t1
    None = None  Scheduler = Scheduler  Api = Api
    Runs = {r1, r2}
    Workers = {w1}
    Workspaces = {ws1}
    Tenants = {t1}
    Approvals = {}
    WorkspaceOf <- OneWorkspace
    TenantOf <- OneTenant
    Offset <- NoOffset
    MaxSkew = 0
    LeaseTtl = 2
    RetryDelay = 1
    MaxSlots = 2
    MaxActive = 2
    MaxQueued = 2
    GlobalQueueLimit = 2
    RecoveryLimit = 2
    MaxGen = 1
    MaxEpoch = 1
    MaxWsGen = 2
INVARIANTS TypeOK SlotsNeverOversold
PROPERTIES RunsReturn
