SPECIFICATION BlocksSpec
CONSTANTS
  f1 = f1
  f2 = f2
  o1 = o1
  o2 = o2
  Files = {f1, f2}
  Others = {o1, o2}
  BLOCK_SIZE = 2
  Direct = 2
  PerTable = 2
  PerSector = 2
  BitLen = 6
  ByteBits = 2
  SectorBits = 8
  Counts = {0, 2, 3}
  Word = 16
SYMMETRY MCSymmetry
INVARIANTS FileIntact BlocksOnce DirExact OnlyLimitsStop
CHECK_DEADLOCK FALSE
