SPECIFICATION Spec
CONSTANTS
  VectorSize = 2
  MaxRow = 4
  MaxCol = 1
  MaxBlocks = 1
  RowShapes <- WithSelfClosing
  TypedCols = {1}
INVARIANTS ExplicitRangeComplete
