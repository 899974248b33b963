CONSTANTS
  s1 = s1
  s2 = s2
  o1 = o1
  e1 = e1
  e2 = e2
  url = url
  mapped = mapped
  Absent = Absent
  NoOptions = NoOptions
  Missing = Missing
  Blank = Blank
  Other = Other
  Sources <- MCSources
  Outputs <- MCOutputs
  OutputOf <- MCOutputOf
  Engines <- MCEngines
  Options <- MCAllOptions
  Forms <- MCForms
  Times <- MCTimes
  WriteTime = 5
  Epsilon = 2
  MaxConcurrency = 1

CONSTRAINT MCOverlapBound
SPECIFICATION EngineSpec
INVARIANTS NoRunStuck
PROPERTIES DoneIsMirrored RemoteOrphansOnly
