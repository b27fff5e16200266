SPECIFICATION Spec
CONSTANTS
    MaxCommands = 2
    MaxEdits = 2
    MaxSnapshots = 2
    MaxCalls = 4
    MaxWrites = 2
    MaxFaults = 1
    MaxSourceEdits = 6
    Versions = {0, 1}
    None = None
INVARIANTS ContainersAreAccountedFor RestoreHolds
PROPERTIES NoTornOrLostContent SandboxWorkEnds
CHECK_DEADLOCK FALSE
