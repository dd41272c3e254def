SPECIFICATION Spec
CONSTANTS
  MaxRow = 3
  MaxCol = 3
  RowShapes <- Shapes
  Requests <- SomeRequests
INVARIANTS ColumnsAgree HeaderIsNotData TypesDescribeData ScanCanStart
