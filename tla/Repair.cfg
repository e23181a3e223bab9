CONSTANTS
  NBlocks = 11
  MaxKey = 8
  InitDisk <- MCDisk
  InitRoot = 1
  InitHeight = 3
  InitAlloc <- MCAlloc
  ByteBits = 4
  RegionLen = 6
  Modes = {"fix", "build"}
  MaxFaults = 2
SPECIFICATION Spec
CHECK_DEADLOCK FALSE
INVARIANTS RebuiltIsSound NothingLost RecheckIsClean AssertsHold
