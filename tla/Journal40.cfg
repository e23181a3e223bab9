CONSTANTS
  AreaLen = 13
  FormatBlk = 1
  HeaderBlk = 2
  FooterBlk = 3
  AllocBlk = 4
  OtherArea = {0}
  Originals0 = {1, 4}
  LogArea = {5, 6, 7, 8, 9, 10, 11, 12}
  FixAlloc = FALSE
  Junk = {}
  MaxCommits = 3
  MaxCrashes = 1
  MaxDamage = 0
SPECIFICATION Spec
INVARIANT NeverRefused
PROPERTIES Implements Terminates
