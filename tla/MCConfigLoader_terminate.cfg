CONSTANTS
  SizeBits = 16
  IntBits = 12
  ByteBits = 8
  MantissaBits = 12
  UnitBits = 2
  MaxCalls = 3
  Docs <- MCDocs
SPECIFICATION Spec
CHECK_DEADLOCK FALSE
INVARIANT NoTerminate
