CONSTANTS
  ByteBits = 3
  MaxTotal = 6
SPECIFICATION Spec
INVARIANTS MarkedExact PackRoundTrip
