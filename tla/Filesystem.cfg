SPECIFICATION Spec
CONSTANTS
  DevLen = 24
  RegionLen = 8
  BackupStart = 6
  MinLen = 12
  Release = 1
  Lens <- MCLens
  MaxTrouble = 3
INVARIANTS
  ConsistentOpens
  IdentityKept
  OpensWhole
  FullBuildSucceeds
CHECK_DEADLOCK FALSE
