SPECIFICATION Spec
CONSTANTS
  ThirdParty <- WellFormed
  Additions <- SomeAdditions
  MaxChanges = 4
CHECK_DEADLOCK FALSE
INVARIANTS CellsKeepTypes Settled
PROPERTIES OldStylesStay
