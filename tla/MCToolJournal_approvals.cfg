\* Decisions, questions, repeated identifiers, a rewind and a dying worker.
SPECIFICATION FairSpec
CONSTANTS
    NCalls = 2
    Effect <- MutationAndQuestion
    ApprovalMode = "require_sensitive"
    ReuseIds = {1, 2}
    MaxTurns = 2
    MaxToolCalls = 2
    MaxSemanticRetries = 0
    MaxCrashes = 1
    MaxEpoch = 2
INVARIANTS ApprovedAndOnce
PROPERTIES OutcomesAreFinal RunSettles
