SPECIFICATION Spec
CONSTANTS
  Chars = {"a", "b"}
  MaxInline = 1
  ItemShapes <- SomeItems
  MaxStrings = 3
  HeaderIds <- SomeHeaders
INVARIANTS NamesResolve TableFollowsDocument SearchStops
