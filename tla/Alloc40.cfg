CONSTANTS
  ByteBits = 2
  Bpb = 4
  Start = 1
  Total = 5
SPECIFICATION Spec
INVARIANTS UsedExact HeldMarked WrittenIsSaved CheckedIsValid
