SPECIFICATION SessionSpec
CONSTANTS
  Runs = {1, 2}
  Processes = {"p", "q"}
  Facts = {"f"}
  MemoryAttempts = 2
  MemoryEpochs = 2
  MaxJobs = 2
  Clients = {"c"}
  Attempts = {1, 2}
  Tasks <- TheTasks
  Candidates <- TheCandidates
  PlanEpochs = 2
  MaxVersion = 3
  PlanCheckpoints = 2
  Turns <- TheTurns
  MaxTasks = 2
  LocalCheckpoints = 3
  MaxMessages = 9
CHECK_DEADLOCK FALSE
INVARIANTS PlansAreKept SessionAddsUp
PROPERTIES MemoryFollowsTheUser MemoryJobsEnd
