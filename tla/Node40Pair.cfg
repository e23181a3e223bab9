CONSTANTS
  NodeSize = 8
  IhSize = 1
  KeySpan = 4
  Objects = 3
  MaxTail = 2
SPECIFICATION Spec
INVARIANTS NodesSound ShiftKeepsUnits PointKept
