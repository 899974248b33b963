CONSTANTS
  j1 = j1
  k1 = k1
  k2 = k2
  id = id
  w1 = w1
  r1 = r1
  r2 = r2
  Null = Null
  MaxTaskRuns = 2
  JobIds <- MCJobIds
  WorkerIds <- MCWorkerIds
  DedupKeys <- MCDedupKeys
  Priorities <- MCNormal
  AttemptLimits <- MCZero
  StartDelays <- MCZero
  MaxClock = 0
  Workers <- MCWorkers1
  EnvJobRows <- JobRow
  MaxDbErrors = 0
  MaxStops = 1
  Reqs <- MCReqs
  Ops <- AllOps

CONSTRAINT MCRaceBound
SYMMETRY MCSymmetry
SPECIFICATION ControlSpec
INVARIANTS OneActiveRun StoppedJobIsQuiet StopCancelsAll
PROPERTIES ImplementsPool
CHECK_DEADLOCK FALSE
