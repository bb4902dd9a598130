CONSTANTS
  SizeBits = 16
  IntBits = 12
  ByteBits = 8
  MantissaBits = 12
  UnitBits = 2
  MaxLen = 4
  VersionNums = {0, 1, 255, 256, 4097, 65536}
  SizeNums = {0, 1, 5, 256, 65535}
  FractionNums = {0, 1, 5}
SPECIFICATION Spec
CHECK_DEADLOCK FALSE
INVARIANT AcceptedSizeFits
