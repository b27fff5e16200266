\* Workers die anywhere in the turns of a session that asks for no approval.
SPECIFICATION Spec
CONSTANTS
    NCalls = 4
    Effect <- MutationsInvalidAndRead
    ApprovalMode = "auto_approve"
    ReuseIds = {3}
    MaxTurns = 2
    MaxToolCalls = 2
    MaxSemanticRetries = 0
    MaxCrashes = 2
    MaxEpoch = 1
INVARIANTS WorkspaceMatchesJournal CompletedIsRestored ResultsAnswerCalls
