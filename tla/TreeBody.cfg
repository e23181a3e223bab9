CONSTANTS
  NodeSize = 5
  IhSize = 1
  KeySpan = 4
  MaxNodes = 10
  SdKeys = {0, 4}
  ExtKeys = {1}
  BodyKeys = {5}
  Lens = {1}
  RootKey = 0
  Pressures = {FALSE, TRUE}
SPECIFICATION Spec
CHECK_DEADLOCK FALSE
INVARIANTS Implements NoBug
