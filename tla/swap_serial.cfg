SPECIFICATION FairSpec
CONSTANTS
  Writers = {"w1", "w2"}
  Jobs <- AllJobs
  Readers = {"r"}
  Base <- TwoSheets
  MaxAttempts = 2
  OpsFail = TRUE
  InputFails = TRUE
  MayCrash = TRUE
  Overlap = FALSE
CHECK_DEADLOCK FALSE
INVARIANTS TornOnlyByFresh KeptOrReady BoundSheetIsRead
PROPERTIES KeepsDirectory CopyEnds
