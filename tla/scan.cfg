SPECIFICATION FairSpec
CONSTANTS
  VectorSize = 2
  MaxRow = 4
  MaxCol = 2
  MaxBlocks = 2
  RowShapes <- Mixed
  TypedCols = {2}
INVARIANTS TableInv ExplicitRangeComplete ErrorNamesCell DataOnceInOrder
PROPERTIES KeepsPromise ScanEnds
