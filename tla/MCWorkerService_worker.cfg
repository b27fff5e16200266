SPECIFICATION Spec
CONSTANTS
    Leases = {l1, l2}
    TotalSlots = 2
    SandboxSlots = 1
    MaxSandboxes = 1
    MaxFaults = 1
    None = None
INVARIANTS SandboxesAreAccountedFor
PROPERTIES AttemptsEnd
CHECK_DEADLOCK FALSE
