CONSTANTS
  Files <- MCFiles
  OutputOf <- MCOutputOf
  Matching <- MCMatching
  Strategies = {"batch", "timer", "idle"}
  BatchSize = 2
  MaxFailures = 2
  MaxChanges = 3
  NoFile = NoFile
  NoItem = NoItem

SPECIFICATION LiveSpec
INVARIANTS TimelyHasStrm ApplyOK
PROPERTIES PendingIsFlushed
CHECK_DEADLOCK FALSE
