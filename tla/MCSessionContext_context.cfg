SPECIFICATION Spec
CONSTANTS
  Workers = {a, b}
  Keys = {1}
  Threshold = 2
  HistoryLimit = 4
  Recent = 1
  MaxMessages = 6
  MaxCompactions = 2
  MaxEpoch = 2
  MaxAttempts = 3
SYMMETRY WorkerSymmetry
CHECK_DEADLOCK FALSE
INVARIANTS AbandonedFutureStaysOut
PROPERTIES CompactionsAreSound
