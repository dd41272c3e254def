SPECIFICATION Spec
CONSTANTS
  Names = {"A", "a", "B", "C"}
  NoName = ""
  Unescape <- OneEntity
  Fold <- Lower
  Tables = {"t0", "t1"}
  Blobs = {"blob"}
  ThirdParty <- WellFormed
  MaxCopies = 5
CHECK_DEADLOCK FALSE
INVARIANTS CopyInv ReadsBack LastWriteReads
PROPERTIES KeepsDirectory StableIdentity OthersPreserved NamesOnce
