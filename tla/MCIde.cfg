SPECIFICATION IdeFairSpec
CONSTANTS
  t1 = t1
  t2 = t2
  Threads = {t1, t2}
  None = None
  MaxSecs = 3
  Chunk = 2
  TimeLimit = 3
INVARIANTS IdeInStep NoTornRead
PROPERTY RequestEnds
CHECK_DEADLOCK FALSE
