SPECIFICATION MemSpec
CONSTANTS
  p1 = p1
  p2 = p2
  First <- p1
  Kernel = Kernel
  NULL = NULL
  Procs = {p1, p2}
  KPages = 9
  UPages = 4
  VPages = 4
  BlocksPerArena = 2
  LargeSizes = {2}
  MaxImage = 2
  MaxHeld = 2
CONSTRAINT UpToStray
INVARIANTS FramesExact HeapExact ScanFindsRun
CHECK_DEADLOCK FALSE
