SPECIFICATION DirSpec
CONSTANTS
  p1 = p1
  p2 = p2
  n1 = n1
  n2 = n2
  Procs = {p1, p2}
  Names = {n1, n2}
  MaxIno = 2
  MaxBlk = 2
  MaxSlot = 2
  MaxCrash = 0
INVARIANTS NothingLost
CHECK_DEADLOCK FALSE
