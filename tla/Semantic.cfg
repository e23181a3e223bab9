SPECIFICATION Spec
CONSTANTS
    Dirs <- MCDirs
    Files <- MCFiles
    MaxDamage = 2
    MaxLinks = 12
INVARIANTS
    RecheckIsClean
    NothingCutOff
    LinksCounted
PROPERTY
    Finishes
CHECK_DEADLOCK FALSE
