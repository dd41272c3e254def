SPECIFICATION FairSpec
CONSTANTS
  SecondsPerDay = 4
  TicksPerSecond = 10
  Tolerance = 2
  DaysBetween = 3
  Options <- SomeOptions
  TypeLists <- SomeTypes
  Chunks <- SomeChunks
  VectorSize = 2
  MaxChunks = 2
  OldEntries <- SomeEntries
  Letters = 2
  IdxWidth = 4
  MaxCellRows = 4
  MayFail = TRUE
  Default = Default
  Bad = Bad
  Null = Null
CHECK_DEADLOCK FALSE
INVARIANTS SheetIsTable RowLimitHolds ReadableIsComplete
PROPERTIES CopySucceeds
