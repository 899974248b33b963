CONSTANTS
  c1 = c1
  nfo = nfo
  cover = cover
  Entries = {nfo, cover}
  Syncs = {c1}
  Strategies = {"update", "skip"}
  PreferMount = FALSE
  SizeOf <- MCSizeOf
  ListedSize <- MCListedSize
  TimeOf <- MCTimeOf
  WriteTimes = {6}
  Epsilon = 2
  QueueCap = 1
  MaxChanges = 1
  NoEntry = NoEntry
  Missing = Missing
  Blank = Blank
  Torn = Torn

SPECIFICATION SyncLiveSpec
INVARIANTS TargetIsWhole AccountsOK OkIsCurrent
PROPERTIES SyncEnds
CHECK_DEADLOCK FALSE
