CONSTANTS
  AreaLen = 13
  FormatBlk = 1
  HeaderBlk = 2
  FooterBlk = 3
  AllocBlk = 4
  OtherArea = {0}
  Originals0 = {1, 4}
  LogArea = {5, 6, 7, 8, 9, 10, 11, 12}
  FixAlloc = TRUE
  Junk = {5, 9, 10, 13}
  MaxCommits = 2
  MaxCrashes = 0
  MaxDamage = 2
SPECIFICATION Spec
CHECK_DEADLOCK FALSE
INVARIANTS CheckedIsSound HangsNeedTwo SoundIsKept
PROPERTY ReplayApplies
