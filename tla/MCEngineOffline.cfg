CONSTANTS
  s1 = s1
  s2 = s2
  o1 = o1
  e1 = e1
  e2 = e2
  url = url
  mapped = mapped
  Absent = Absent
  NoOptions = NoOptions
  Missing = Missing
  Blank = Blank
  Other = Other
  Sources <- MCSources
  Outputs <- MCOutputs
  OutputOf <- MCOutputOf
  Engines = {e1}
  Options <- MCLocal
  Forms <- MCForms
  Times <- MCKnownTime
  WriteTime = 5
  Epsilon = 2
  MaxConcurrency = 2

SPECIFICATION EngineSpec
PROPERTIES OrphansOnly
