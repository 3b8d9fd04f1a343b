SPECIFICATION Spec
CONSTANTS
  Peers = {"p1", "p2", "p3"}
  SubmitWindow = 2
  MaxTxs = 2
  MaxReqs = 3
  MaxTracked = 2
  Scenarios <- MCScenarios
  Keys = {"w", "c", "f"}
  RequireIdentity = TRUE
  MaxBatch = 2
  MaxWebItems = 2
  FaucetWindow = 2
  FaucetAmount = 5
  Decimals = 2
  PubKeys = {"w", "c", "f", "x", "y"}
  Policy <- MCPolicy
  MaxNow = 4
  MaxRestarts = 1
INVARIANTS
  SlidingBound
  QuietAdmitted
  NoGap
  BatchWhole
  
  McpBudget
  AmountAsWritten
PROPERTIES
  EveryRequestEnds
CHECK_DEADLOCK FALSE
