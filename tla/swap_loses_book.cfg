SPECIFICATION Spec
CONSTANTS
  Writers = {"w1"}
  Jobs <- OneReplace
  Readers = {}
  Base <- TwoSheets
  MaxAttempts = 2
  OpsFail = FALSE
  InputFails = FALSE
  MayCrash = TRUE
  Overlap = FALSE
CHECK_DEADLOCK FALSE
INVARIANTS EndedKeepsBook
