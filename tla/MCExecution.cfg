CONSTANTS
  j1 = j1
  k1 = k1
  k2 = k2
  id = id
  w1 = w1
  w2 = w2
  r1 = r1
  nfo = nfo
  Null = Null
  MaxTaskRuns = 2
  JobIds <- MCJobIds
  WorkerIds <- MCWorkerIds
  DedupKeys <- MCDedupKeys
  Priorities <- MCNormal
  AttemptLimits <- MCZero
  StartDelays <- MCZero
  MaxClock = 0
  Workers <- MCWorkers
  EnvJobRows <- JobRow
  MaxDbErrors = 0
  MaxStops = 0
  Reqs <- MCReqs
  Ops <- MCOps
  TreeJob = j1
  Entries <- MCEntries
  Syncs <- MCWorkers
  Strategies <- MCStrategies
  PreferMount = TRUE
  SizeOf <- MCSizeOf
  ListedSize <- MCSizeOf
  TimeOf <- MCTimeOf
  WriteTimes = {9}
  Epsilon = 2
  QueueCap = 1
  MaxChanges = 0
  NoEntry = NoEntry
  Missing = Missing
  Blank = Blank
  Torn = Torn

CONSTRAINT MCClockBound
SPECIFICATION ExecSpec
INVARIANTS CopiesAreWhole CompletedIsHandled
CHECK_DEADLOCK FALSE
SYMMETRY MCSymmetry
