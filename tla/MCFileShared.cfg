SPECIFICATION FtSpec
CONSTANTS
  p1 = p1
  p2 = p2
  f = f
  g = g
  b1 = b1
  b2 = b2
  First <- p1
  NULL = NULL
  Page = Page
  Blank = Blank
  Blocks = {b1, b2}
  Procs = {p1, p2}
  Slots = {3, 4}
  Fds = {3, 4}
  Files = {f, g}
  Pipes = FALSE
INVARIANT FdFindsInode
CHECK_DEADLOCK FALSE
