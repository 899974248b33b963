CONSTANTS
  j1 = j1
  k1 = k1
  k2 = k2
  w1 = w1
  Null = Null
  MaxTaskRuns = 2
  JobIds <- MCJobIds
  WorkerIds <- MCWorkerIds
  DedupKeys <- MCDedupKeys
  Priorities <- MCPriorities
  AttemptLimits <- MCAttemptLimits
  StartDelays <- MCStartDelays
  MaxClock = 2

SYMMETRY MCSymmetry
SPECIFICATION QueueSpec
INVARIANTS RunBudget NoOvertaking
PROPERTIES ImplementsLifecycle
CHECK_DEADLOCK FALSE
