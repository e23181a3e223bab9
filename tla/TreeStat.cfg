CONSTANTS
  NodeSize = 5
  IhSize = 1
  KeySpan = 1
  MaxNodes = 12
  SdKeys = {0, 1, 2, 3, 4}
  ExtKeys = {}
  BodyKeys = {}
  Lens = {1}
  RootKey = 0
  Pressures = {FALSE, TRUE}
SPECIFICATION Spec
CHECK_DEADLOCK FALSE
INVARIANTS Implements Shape NextPlaceSteps CacheExact NoBug
