CONSTANTS
  five1 = five1
  five2 = five2
  six = six
  NoSpec = NoSpec
  Null = Null
  r1 = r1
  r2 = r2
  MaxJobs = 2
  MaxEntries = 4
  FiveField <- MCFiveField
  SixField <- MCSixField
  Reqs <- MCReqs
  Ops <- SchedOps

SYMMETRY MCSymmetry
CONSTRAINT MCOverlapBound
SPECIFICATION SchedSpec
INVARIANTS EngineMatchesEntries EntriesAgree
PROPERTIES RestartRepairs
