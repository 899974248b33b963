CONSTANTS
  j1 = j1
  j2 = j2
  c1 = c1
  c2 = c2
  s1 = s1
  i1 = i1
  i2 = i2
  NoRun = NoRun
  NoId = NoId
  Jobs <- MCJobs
  Runs <- MCRuns
  Stops <- MCStops
  Ids <- MCIds
  MaxFaults = 1

CONSTRAINT MCFirstJob
SPECIFICATION LiveSpec
INVARIANTS MapMatchesCalls ExecutionIsShown
PROPERTIES StopTakesEffect FinishedIsFinal
CHECK_DEADLOCK FALSE
