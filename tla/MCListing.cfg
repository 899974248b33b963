CONSTANTS
  Files <- MCFiles
  Dirs <- MCDirs
  Setups <- MCSetups
  MaxDepth = 2
  None = None

SPECIFICATION ListingSpec
INVARIANTS ListedWhatStayed ExclusionsAreKept OutputIsStable StrmNamesTheFile
