SPECIFICATION Spec
CONSTANTS
  HashedFrom = 5
  Junk = 99
  Pool <- MCPool
  Cap = 18
  MaxDamage = 2
INVARIANTS BodyExact CheckSound
