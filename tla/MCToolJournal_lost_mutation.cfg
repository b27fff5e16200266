\* ADR 0019, third crash window, after a suspension.
SPECIFICATION Spec
CONSTANTS
    NCalls = 2
    Effect <- TwoMutations
    ApprovalMode = "require_sensitive"
    ReuseIds = {}
    MaxTurns = 2
    MaxToolCalls = 2
    MaxSemanticRetries = 0
    MaxCrashes = 1
    MaxEpoch = 1
INVARIANT CompletedIsRestored
