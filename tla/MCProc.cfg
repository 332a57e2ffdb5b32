SPECIFICATION ProcFairSpec
CONSTANTS
  init = init
  sh = sh
  c = c
  d = d
  Procs <- MCProcs
  InitProc <- init
  Shell <- sh
  MaxPid = 6
  MaxPages = 22
  BitmapBytes = 3
  PageSize = 2
  Scattered = TRUE
  NameLens = {5, 12}
INVARIANTS ListExact PidsUnique ParentLives NoMissedExit
PROPERTIES OnlyForkStops ShellReaps
CHECK_DEADLOCK FALSE
