CONSTANTS
  c1 = c1
  c2 = c2
  s1 = s1
  s2 = s2
  home = home
  work = work
  x = x
  y = y
  j1 = j1
  Callers <- MCCallers
  Kinds = {"data", "media"}
  Ids <- MCIds
  Names <- MCNames
  Configs <- MCConfigs
  Jobs = {j1}
  MaxCalls = 4
  None = None

SYMMETRY MCSymmetry
SPECIFICATION Spec
INVARIANTS TablesOK NoDanglingReference
PROPERTIES AnswersAreTrue OnlyAskedIsChanged
CHECK_DEADLOCK FALSE
