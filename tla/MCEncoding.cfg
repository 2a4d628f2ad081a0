SPECIFICATION Spec
CONSTANTS
  ByteBits = 2
  BitSize = 5
INVARIANTS
  RoundTrip
  FixedLength
CHECK_DEADLOCK FALSE
