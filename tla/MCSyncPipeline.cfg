CONSTANTS
  Files <- MCFiles
  Kind <- MCKind
  TargetOf <- MCTargetOf
  InNewDir <- MCCover
  EventCap = 1
  QueueCap = 2
  MayAbort <- MCStrm
  MaxChanges = 3

SPECIFICATION LiveSpec
INVARIANTS SettledIsMirrored ChannelsOK
PROPERTIES CancelEnds EventuallyMirrored
CHECK_DEADLOCK FALSE
