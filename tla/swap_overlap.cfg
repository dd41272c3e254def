SPECIFICATION Spec
CONSTANTS
  Writers = {"w1", "w2"}
  Jobs <- Extends
  Readers = {"r"}
  Base <- TwoSheets
  MaxAttempts = 2
  OpsFail = TRUE
  InputFails = FALSE
  MayCrash = TRUE
  Overlap = TRUE
CHECK_DEADLOCK FALSE
INVARIANTS KeepInv WholeIsConsistent
