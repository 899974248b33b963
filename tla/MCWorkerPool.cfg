CONSTANTS
  j1 = j1
  k1 = k1
  id = id
  w1 = w1
  w2 = w2
  Null = Null
  MaxTaskRuns = 2
  JobIds <- MCJobIds
  WorkerIds <- MCWorkerIds
  DedupKeys <- MCDedupKeys
  Priorities <- MCZero
  AttemptLimits <- MCLimit2
  StartDelays <- MCZero
  MaxClock = 0
  Workers <- MCWorkers
  EnvJobRows <- MCEnvJobRows
  MaxDbErrors = 1
  MaxStops = 1

SPECIFICATION FairPoolSpec
INVARIANTS OneExecutor RunningIsExecuted
PROPERTIES ImplementsQueue EveryRunEnds
CHECK_DEADLOCK FALSE
